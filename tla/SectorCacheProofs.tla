------------------------- MODULE SectorCacheProofs -------------------------
(* What the operators of the sector cache do to the disk and to the view of
   it, for any set of cells and any layout in sectors. *)
EXTENDS SectorCache, TLAPS

(* Writing back a coherent buffer puts on the disk what the driver sees. *)
LEMMA FlushedIsView ==
  ASSUME Coherent, dirty \in BOOLEAN
  PROVE  Flushed = View
BY DEF Coherent, Flushed, View, CellsOf

(* update_buf changes nothing the driver sees; the disk keeps its content or
   takes what the driver saw. *)
LEMMA UpdateEffect ==
  ASSUME Coherent, dirty \in BOOLEAN, NEW STATE s, update_buf(s)
  PROVE  /\ View' = View
         /\ disk' = disk \/ disk' = View
         /\ Coherent'
         /\ sect' = s
         /\ dirty' \in BOOLEAN
<1>1. CASE s = sect /\ UNCHANGED cacheVars
  BY <1>1 DEF View, Coherent, CellsOf, cacheVars
<1>2. CASE /\ s # sect
           /\ disk' = Flushed
           /\ sect' = s
           /\ buf' = [x \in CellsOf(s) |-> disk[x]]
           /\ dirty' = FALSE
  <2>1. disk' = View
    BY <1>2, FlushedIsView
  <2>2. \A x \in CellsOf(s) : View[x] = disk[x]
    BY <1>2 DEF View, CellsOf
  <2>3. ASSUME NEW x \in Cell
        PROVE  (IF SectorOf[x] = sect' THEN buf'[x] ELSE disk'[x]) = View[x]
    BY <1>2, <2>1, <2>2 DEF CellsOf
  <2>4. View' = View
    <3>1. View' = [x \in Cell |-> IF SectorOf[x] = sect' THEN buf'[x] ELSE disk'[x]]
      BY DEF View
    <3>2. View = [x \in Cell |-> View[x]]
      BY DEF View
    <3> QED BY <2>3, <3>1, <3>2
  <2>5. Coherent'
    BY <1>2, <2>1, <2>2 DEF Coherent, CellsOf
  <2> QED BY <1>2, <2>1, <2>4, <2>5
<1> QED BY <1>1, <1>2 DEF update_buf

(* put changes one cell of the view, and nothing else reaches the disk. *)
LEMMA PutEffect ==
  ASSUME Coherent, dirty \in BOOLEAN, NEW STATE x, x \in Cell, NEW STATE v, put(x, v)
  PROVE  /\ View' = [View EXCEPT ![x] = v]
         /\ disk' = disk \/ disk' = View
         /\ Coherent'
         /\ sect' = SectorOf[x]
         /\ dirty' = TRUE
<1> DEFINE s == SectorOf[x]
<1>1. disk' = IF s = sect THEN disk ELSE View
  BY FlushedIsView DEF put
<1>2. /\ sect' = s /\ dirty' = TRUE
      /\ buf' = [y \in CellsOf(s) |-> IF y = x THEN v ELSE View[y]]
  BY DEF put
<1>3. ASSUME NEW y \in Cell
      PROVE  (IF SectorOf[y] = sect' THEN buf'[y] ELSE disk'[y])
               = IF y = x THEN v ELSE View[y]
  <2>1. CASE SectorOf[y] = s
    BY <2>1, <1>2 DEF CellsOf
  <2>2. CASE SectorOf[y] # s
    BY <2>2, <1>1, <1>2 DEF View
  <2> QED BY <2>1, <2>2
<1>4. View' = [y \in Cell |-> IF SectorOf[y] = sect' THEN buf'[y] ELSE disk'[y]]
  BY DEF View
<1>5. [View EXCEPT ![x] = v] = [y \in Cell |-> IF y = x THEN v ELSE View[y]]
  BY DEF View
<1>6. View' = [View EXCEPT ![x] = v]
  BY <1>3, <1>4, <1>5
<1>7. Coherent'
  BY <1>2 DEF Coherent
<1> QED BY <1>1, <1>2, <1>6, <1>7

(* sync_buf puts on the disk what the driver sees. *)
LEMMA SyncEffect ==
  ASSUME Coherent, dirty \in BOOLEAN, sync_buf
  PROVE  View' = View /\ disk' = View /\ Coherent' /\ dirty' = FALSE /\ sect' = sect
<1>1. disk' = View /\ UNCHANGED <<sect, buf>> /\ dirty' = FALSE
  BY FlushedIsView DEF sync_buf
<1>2. View' = View
  BY <1>1 DEF View
<1>3. Coherent'
  BY <1>1 DEF Coherent, CellsOf, View
<1> QED BY <1>1, <1>2, <1>3

(* Once the buffer is dropped the driver sees what is on the disk. *)
LEMMA DropEffect ==
  ASSUME NEW STATE s, \A x \in Cell : SectorOf[x] # s,
         DOMAIN disk = Cell, disk = [x \in Cell |-> disk[x]], drop_buf(s)
  PROVE  View' = disk /\ disk' = disk /\ Coherent' /\ dirty' = FALSE /\ sect' = s
BY DEF drop_buf, View, Coherent, CellsOf

(* Whatever values the disk holds, the buffer holds such values for the cells
   of its sector. *)
LEMMA CacheTypes ==
  ASSUME NEW V, disk \in [Cell -> V], buf \in [CellsOf(sect) -> V]
  PROVE  /\ View \in [Cell -> V]
         /\ Flushed \in [Cell -> V]
         /\ \A s : update_buf(s) => buf' \in [CellsOf(sect') -> V]
         /\ \A x \in Cell, v \in V : put(x, v) => buf' \in [CellsOf(sect') -> V]
         /\ sync_buf => buf' \in [CellsOf(sect') -> V]
<1>1. View \in [Cell -> V] /\ Flushed \in [Cell -> V]
  BY DEF View, Flushed, CellsOf
<1>2. ASSUME NEW s, update_buf(s)
      PROVE  buf' \in [CellsOf(sect') -> V]
  BY <1>2 DEF update_buf, cacheVars, CellsOf
<1>3. ASSUME NEW x \in Cell, NEW v \in V, put(x, v)
      PROVE  buf' \in [CellsOf(sect') -> V]
  BY <1>1, <1>3 DEF put, CellsOf
<1>4. ASSUME sync_buf
      PROVE  buf' \in [CellsOf(sect') -> V]
  BY <1>4 DEF sync_buf, CellsOf
<1> QED BY <1>1, <1>2, <1>3, <1>4

=============================================================================
