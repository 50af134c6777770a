-------------------------- MODULE FatVolumeProofs --------------------------
(* What holds of the cluster bookkeeping for every set of names, size of the
   volume, layout of the directory and number of power cuts: first that chains
   stay intact; then what a cut can take away, which is nothing that
   fat_file_close or fat_unlink has completed, and one entry of the mirror FAT;
   then what the driver counts and loses count of: the search for a free
   cluster sees them all, Fat.free_cnt is off by at most one for each cut, and
   so many clusters at most belong to no file. *)
EXTENDS FatVolume, SectorCacheProofs, FiniteSetTheorems

-----------------------------------------------------------------------------
(* The inductive invariant, in four parts. *)

EocPcs == {"eocMirror", "eocActive"}
LinkPcs == {"linkMirror", "linkActive"}
SyncPcs == {"syncBuf", "syncInfo"}
RemovePcs == {"removeGet", "removeMirror", "removeActive"}

(* The call at each point of the control, and the clusters its locals name. *)
CallInv ==
  /\ pc \in {"idle", "unmounted"} => op = "none"
  /\ pc \in {"probe", "advance"} \cup LinkPcs => op = "stretch"
  /\ pc \in {"scan"} \cup EocPcs => op \in {"create", "stretch"}
  /\ pc = "addEntry" => op = "create"
  /\ pc \in RemovePcs \cup {"removeEntry"} => op = "unlink"
  /\ pc = "return" => ret = "return"
  /\ pc \in SyncPcs \cup {"return"} =>
       \/ ret = "addEntry" /\ op = "create"
       \/ ret = "advance" /\ op = "stretch"
       \/ ret = "removeEntry" /\ op = "unlink"
       \/ ret = "return" /\ op \in {"close", "sync", "unlink"}
  /\ op = "stretch" => prev \in Clusters
  /\ op = "create" => prev = 0
  /\ open => fclust \in Clusters
  /\ pc = "scan" => clust \in Clusters

(* The cluster that a call has just allocated, and the one it removes. *)
Allocated == \/ pc \in EocPcs \cup LinkPcs \cup {"addEntry", "advance"}
             \/ pc \in SyncPcs /\ ret \in {"addEntry", "advance"}
Unlinked == Allocated /\ pc # "advance" /\ ~(pc \in SyncPcs /\ ret = "advance")
Ended == Unlinked /\ pc \notin EocPcs
Found == pc \in {"removeMirror", "removeActive"}

(* The root directory is never freed and nothing refers to it, even after a
   cut in the middle of fat_unlink. *)
RootSafe(d) == d[active(Root)] # Free /\ \A x \in RefCells : d[x] # Root
RootInv ==
  /\ RootSafe(disk) /\ RootSafe(View)
  /\ Allocated => clust \in Clusters \ {Root}
  /\ pc \in RemovePcs => clust \in Clusters \ {Root}
  /\ Found => next \in (Clusters \ {Root}) \cup {Eoc}

(* The cache is coherent, and the counters in FsInfo bypass it. *)
CacheInv ==
  /\ Coherent
  /\ pc = "syncInfo" => ~dirty
  /\ pc = "return" => ~dirty /\ disk = View
  /\ \A x \in InfoCells : View[x] = disk[x]
  /\ ~info_dirty => disk[next_free] = last_used /\ disk[info_free_cnt] = free_cnt
  /\ pc \in {"probe", "scan"} \cup EocPcs \cup LinkPcs \cup RemovePcs => info_dirty

(* The chains, with the cluster a call holds between two of its writes:
   allocated and not yet referred to, or still to be freed and no longer
   referred to. *)
ChainInv ==
  ~cut =>
    /\ NoCrossLink(View) /\ NoDangling(View)
    /\ NoCrossLink(disk) /\ NoDangling(disk)
    /\ Unlinked => \A x \in RefCells : View[x] # clust
    /\ Ended => View[active(clust)] = Eoc
    /\ pc \in RemovePcs => /\ View[active(clust)] \notin {Free, Bad}
                           /\ \A x \in LiveRefs : View[x] # clust
    /\ Found => next = View[active(clust)]
    /\ op = "unlink" /\ ret = "return" /\ pc \in SyncPcs \cup {"return"} =>
         View[dirent(name)] = NoEntry

Inv == TypeOK /\ CallInv /\ RootInv /\ CacheInv /\ ChainInv

-----------------------------------------------------------------------------
(* The cells and their sectors. *)

(* The FAT entries, directory entries and FsInfo fields are cells of the disk,
   and different clusters and names have different ones. *)
LEMMA CellFacts ==
  /\ \A c \in Clusters : active(c) \in Cell /\ mirror(c) \in Cell
  /\ \A n \in Names : dirent(n) \in Cell
  /\ next_free \in Cell /\ info_free_cnt \in Cell
  /\ \A c \in Clusters, d \in Clusters : active(c) = active(d) => c = d
  /\ \A n \in Names, m \in Names : dirent(n) = dirent(m) => n = m
BY CacheAssumption DEF VolumeCells, ActiveCells, MirrorCells, DirCells, InfoCells,
   active, mirror, dirent, next_free, info_free_cnt

(* No cell is of two kinds. *)
LEMMA KindFacts ==
  /\ next_free # info_free_cnt
  /\ \A x \in ActiveCells : x \notin MirrorCells /\ x \notin DirCells /\ x \notin InfoCells
  /\ \A x \in MirrorCells : x \notin DirCells /\ x \notin InfoCells
  /\ \A x \in DirCells : x \notin InfoCells
  /\ \A c \in Clusters : active(c) \in ActiveCells /\ mirror(c) \in MirrorCells
  /\ \A n \in Names : dirent(n) \in DirCells
BY DEF ActiveCells, MirrorCells, DirCells, InfoCells,
   active, mirror, dirent, next_free, info_free_cnt

(* Each cell lies in its sector; the FsInfo fields have one of their own, which
   is never the boot sector. *)
LEMMA SectorFacts ==
  /\ \A c \in Clusters : SectorOf[active(c)] = active_sector(c)
  /\ \A n \in Names : SectorOf[dirent(n)] = dir_sector(n)
  /\ \A x \in Cell : SectorOf[x] = info_sect <=> x \in InfoCells
  /\ \A x \in Cell : SectorOf[x] # boot_sector
<1>1. \A c \in Clusters : SectorOf[active(c)] = active_sector(c)
  BY CacheAssumption, CellFacts, KindFacts
  DEF VolumeSectors, active_sector, active
<1>2. \A n \in Names : SectorOf[dirent(n)] = dir_sector(n)
  BY CacheAssumption, CellFacts, KindFacts
  DEF VolumeSectors, dir_sector, dirent
<1>3. \A c \in Clusters : SectorOf[mirror(c)] = <<"mirror", c \div PerSector>>
  BY CacheAssumption, CellFacts, KindFacts
  DEF VolumeSectors, mirror
<1>4. \A x \in InfoCells : SectorOf[x] = info_sect
  BY CacheAssumption DEF VolumeSectors, VolumeCells
<1>5. ASSUME NEW x \in Cell
      PROVE  /\ SectorOf[x] = info_sect <=> x \in InfoCells
             /\ SectorOf[x] # boot_sector
  <2>1. CASE x \in ActiveCells
    BY <1>1, <2>1, KindFacts DEF ActiveCells, active_sector, info_sect, boot_sector
  <2>2. CASE x \in MirrorCells
    BY <1>3, <2>2, KindFacts DEF MirrorCells, info_sect, boot_sector
  <2>3. CASE x \in DirCells
    BY <1>2, <2>3, KindFacts DEF DirCells, dir_sector, info_sect, boot_sector
  <2>4. CASE x \in InfoCells
    BY <1>4, <2>4 DEF info_sect, boot_sector
  <2> QED BY <2>1, <2>2, <2>3, <2>4, CacheAssumption DEF VolumeCells
<1> QED BY <1>1, <1>2, <1>5

(* A value of the right type may be written to any cell. *)
LEMMA TypedExcept ==
  ASSUME NEW d, Typed(d), NEW x \in Cell, NEW v \in CellValue(x), v \in Value
  PROVE  Typed([d EXCEPT ![x] = v])
BY DEF Typed

(* What each kind of cell may hold. *)
LEMMA ValueFacts ==
  /\ \A c \in Clusters : CellValue(active(c)) = FatValue /\ CellValue(mirror(c)) = FatValue
  /\ \A n \in Names : CellValue(dirent(n)) = Clusters \cup {NoEntry}
  /\ CellValue(next_free) = Clusters /\ CellValue(info_free_cnt) = 0 .. (Wrap - 1)
  /\ Clusters \subseteq Int /\ FatValue \subseteq Value /\ Clusters \subseteq Value
  /\ Root \in Clusters
BY KindFacts, VolumeAssumption
DEF CellValue, Value, Clusters, FatValue, Root, InfoCells

-----------------------------------------------------------------------------
(* What a step does to the disk and to what the driver sees of it. *)

CacheTyped ==
  /\ sect \in {SectorOf[x] : x \in Cell} \cup {boot_sector}
  /\ buf \in [CellsOf(sect) -> Value]
  /\ dirty \in BOOLEAN

(* The driver sees the same, or one cell changed; the disk keeps its content
   or takes what the driver saw. *)
Keeps == /\ View' = View
         /\ disk' = disk \/ disk' = View
         /\ Coherent' /\ CacheTyped'
Writes(x, v) == /\ View' = [View EXCEPT ![x] = v]
                /\ disk' = disk \/ disk' = View
                /\ Coherent' /\ CacheTyped'

(* update_buf changes nothing the driver sees; the disk stays or catches up. *)
LEMMA UpdateKeeps ==
  ASSUME TypeOK, Coherent, NEW STATE x, x \in Cell, update_buf(SectorOf[x])
  PROVE  Keeps
<1>1. buf' \in [CellsOf(sect') -> Value]
  BY CacheTypes DEF TypeOK, Typed
<1>2. /\ View' = View
      /\ disk' = disk \/ disk' = View
      /\ Coherent' /\ sect' = SectorOf[x] /\ dirty' \in BOOLEAN
  BY UpdateEffect DEF TypeOK
<1> QED BY <1>1, <1>2 DEF Keeps, CacheTyped

(* A store through the sector buffer changes its cell of the view, no other. *)
LEMMA PutWrites ==
  ASSUME TypeOK, Coherent, NEW STATE x, x \in Cell, NEW STATE v, v \in Value, put(x, v)
  PROVE  Writes(x, v)
<1>1. buf' \in [CellsOf(sect') -> Value]
  BY CacheTypes DEF TypeOK, Typed
<1>2. /\ View' = [View EXCEPT ![x] = v]
      /\ disk' = disk \/ disk' = View
      /\ Coherent' /\ sect' = SectorOf[x] /\ dirty' = TRUE
  BY PutEffect DEF TypeOK
<1> QED BY <1>1, <1>2 DEF Writes, CacheTyped

(* The search for a free cluster never leaves the clusters. *)
LEMMA WrappedFacts == \A c \in Clusters : wrapped(c + 1) \in Clusters
BY VolumeAssumption DEF wrapped, Clusters

(* The steps that read a sector, or that touch none. *)
LEMMA ReadEffects ==
  ASSUME TypeOK, CallInv, RootInv, CacheInv
  PROVE  /\ Probe \/ Scan \/ Follow \/ Stretch \/ FollowBroken => Keeps
         /\ RemoveGet \/ RemoveBroken => Keeps
         /\ \A n \in Names : FileCreate(n) \/ FileOpen(n) \/ Unlink(n) => Keeps
         /\ ScanFull \/ Advance \/ FatSync \/ Return => Keeps
         /\ SyncBuf => Keeps /\ disk' = View /\ dirty' = FALSE
         /\ \A used \in BOOLEAN : FileClose(used) => Keeps
<1> USE DEF CacheInv
<1>1. ASSUME Probe PROVE Keeps
  <2>1. wrapped(prev + 1) \in Clusters
    BY <1>1, WrappedFacts DEF Probe, CallInv
  <2>2. update_buf(SectorOf[active(wrapped(prev + 1))])
    BY <1>1, <2>1, SectorFacts DEF Probe
  <2> QED BY <2>1, <2>2, UpdateKeeps, CellFacts
<1>2. ASSUME Scan PROVE Keeps
  <2>1. wrapped(clust + 1) \in Clusters
    BY <1>2, WrappedFacts DEF Scan, CallInv
  <2>2. update_buf(SectorOf[active(wrapped(clust + 1))])
    BY <1>2, <2>1, SectorFacts DEF Scan
  <2> QED BY <2>1, <2>2, UpdateKeeps, CellFacts
<1>3. ASSUME Follow \/ Stretch \/ FollowBroken PROVE Keeps
  <2>1. fclust \in Clusters
    BY <1>3 DEF Follow, Stretch, FollowBroken, CallInv
  <2>2. update_buf(SectorOf[active(fclust)])
    BY <1>3, <2>1, SectorFacts DEF Follow, Stretch, FollowBroken
  <2> QED BY <2>1, <2>2, UpdateKeeps, CellFacts
<1>4. ASSUME RemoveGet \/ RemoveBroken PROVE Keeps
  <2>1. clust \in Clusters
    BY <1>4 DEF RemoveGet, RemoveBroken, RootInv, RemovePcs
  <2>2. update_buf(SectorOf[active(clust)])
    BY <1>4, <2>1, SectorFacts DEF RemoveGet, RemoveBroken
  <2> QED BY <2>1, <2>2, UpdateKeeps, CellFacts
<1>5. ASSUME NEW n \in Names, FileCreate(n) \/ FileOpen(n) \/ Unlink(n) PROVE Keeps
  <2>1. update_buf(SectorOf[dirent(n)])
    BY <1>5, SectorFacts DEF FileCreate, FileOpen, Unlink
  <2> QED BY <2>1, UpdateKeeps, CellFacts
<1>6. ASSUME UNCHANGED cacheVars PROVE Keeps
  BY <1>6 DEF Keeps, CacheTyped, cacheVars, View, Coherent, CellsOf, TypeOK
<1>7. ASSUME ScanFull \/ Advance \/ FatSync \/ Return PROVE Keeps
  BY <1>6, <1>7 DEF ScanFull, Advance, FatSync, Return
<1>8. ASSUME SyncBuf PROVE Keeps /\ disk' = View /\ dirty' = FALSE
  <2>1. sync_buf
    BY <1>8 DEF SyncBuf
  <2>2. buf' \in [CellsOf(sect') -> Value]
    BY <2>1, CacheTypes DEF TypeOK, Typed
  <2> QED BY <2>1, <2>2, SyncEffect DEF Keeps, CacheTyped, TypeOK
<1>9. ASSUME NEW used \in BOOLEAN, FileClose(used) PROVE Keeps
  <2>1. CASE UNCHANGED cacheVars
    BY <1>6, <2>1
  <2>2. CASE touch(dirent(name))
    <3>1. dirent(name) \in Cell
      BY CellFacts DEF TypeOK
    <3>2. View[dirent(name)] \in Value
      BY <3>1 DEF TypeOK, Typed
    <3>3. Writes(dirent(name), View[dirent(name)])
      BY <2>2, <3>1, <3>2, PutWrites DEF touch
    <3>4. [View EXCEPT ![dirent(name)] = View[dirent(name)]] = View
      BY DEF View
    <3> QED BY <3>3, <3>4 DEF Writes, Keeps
  <2> QED BY <1>9, <2>1, <2>2 DEF FileClose
<1> QED BY <1>1, <1>2, <1>3, <1>4, <1>5, <1>7, <1>8, <1>9

(* The steps that write a cell. *)
LEMMA WriteEffects ==
  ASSUME TypeOK, CallInv, RootInv, CacheInv
  PROVE  /\ EocMirror => Writes(mirror(clust), Eoc)
         /\ EocActive => Writes(active(clust), Eoc)
         /\ LinkMirror => Writes(mirror(prev), clust)
         /\ LinkActive => Writes(active(prev), clust)
         /\ AddEntry => Writes(dirent(name), clust)
         /\ RemoveMirror => Writes(mirror(clust), Free)
         /\ RemoveActive => Writes(active(clust), Free)
         /\ RemoveEntry => Writes(dirent(name), NoEntry)
<1> USE CellFacts, ValueFacts DEF CacheInv
<1>1. Free \in Value /\ Eoc \in Value /\ NoEntry \in Value
  BY VolumeAssumption DEF Value, FatValue, Free, Eoc, NoEntry
<1>2. ASSUME EocMirror PROVE Writes(mirror(clust), Eoc)
  BY <1>1, <1>2, PutWrites DEF EocMirror, RootInv, Allocated, EocPcs
<1>3. ASSUME EocActive PROVE Writes(active(clust), Eoc)
  BY <1>1, <1>3, PutWrites DEF EocActive, RootInv, Allocated, EocPcs
<1>4. ASSUME LinkMirror PROVE Writes(mirror(prev), clust)
  BY <1>1, <1>4, PutWrites DEF LinkMirror, RootInv, Allocated, LinkPcs, CallInv
<1>5. ASSUME LinkActive PROVE Writes(active(prev), clust)
  BY <1>1, <1>5, PutWrites DEF LinkActive, RootInv, Allocated, LinkPcs, CallInv
<1>6. ASSUME AddEntry PROVE Writes(dirent(name), clust)
  BY <1>1, <1>6, PutWrites DEF AddEntry, RootInv, Allocated, TypeOK
<1>7. ASSUME RemoveMirror PROVE Writes(mirror(clust), Free)
  BY <1>1, <1>7, PutWrites DEF RemoveMirror, RootInv, RemovePcs
<1>8. ASSUME RemoveActive PROVE Writes(active(clust), Free)
  BY <1>1, <1>8, PutWrites DEF RemoveActive, RootInv, RemovePcs
<1>9. ASSUME RemoveEntry PROVE Writes(dirent(name), NoEntry)
  BY <1>1, <1>9, PutWrites DEF RemoveEntry, TypeOK
<1> QED BY <1>2, <1>3, <1>4, <1>5, <1>6, <1>7, <1>8, <1>9

(* sync_fs stores both counters; a power cut leaves the disk as it is. *)
LEMMA InfoEffect ==
  ASSUME TypeOK, CacheInv, SyncInfo
  PROVE  /\ View' = [x \in Cell |-> IF x = next_free THEN last_used
                                   ELSE IF x = info_free_cnt THEN free_cnt ELSE View[x]]
         /\ disk' = View' /\ Coherent' /\ CacheTyped' /\ dirty' = FALSE
<1> DEFINE W == [x \in Cell |-> IF x = next_free THEN last_used
                               ELSE IF x = info_free_cnt THEN free_cnt ELSE View[x]]
<1>1. CellsOf(info_sect) = InfoCells
  BY SectorFacts, CacheAssumption DEF CellsOf, VolumeCells
<1>2. View = disk
  BY FlushedIsView DEF CacheInv, SyncInfo, TypeOK, Typed, Flushed, CellsOf
<1>3. /\ sect' = info_sect /\ dirty' = FALSE
      /\ buf' = [x \in InfoCells |-> IF x = next_free THEN last_used ELSE free_cnt]
      /\ disk' = [x \in Cell |-> IF x \in InfoCells THEN buf'[x] ELSE disk[x]]
  BY DEF SyncInfo
<1>4. disk' = W
  BY <1>2, <1>3 DEF InfoCells
<1>5. View' = W
  <2>1. View' = [x \in Cell |-> IF SectorOf[x] = sect' THEN buf'[x] ELSE disk'[x]]
    BY DEF View
  <2>2. ASSUME NEW x \in Cell
        PROVE  (IF SectorOf[x] = sect' THEN buf'[x] ELSE disk'[x]) = W[x]
    BY <1>3, <1>4, SectorFacts DEF InfoCells
  <2> QED BY <2>1, <2>2
<1>6. Coherent'
  BY <1>1, <1>3, CellFacts DEF Coherent, InfoCells
<1>7. CacheTyped'
  <2>1. info_sect \in {SectorOf[x] : x \in Cell}
    BY SectorFacts, CellFacts DEF InfoCells
  <2>2. buf' \in [CellsOf(sect') -> Value]
    BY <1>1, <1>3, ValueFacts DEF TypeOK, Value
  <2> QED BY <1>3, <2>1, <2>2 DEF CacheTyped
<1> QED BY <1>3, <1>4, <1>5, <1>6, <1>7

(* A power cut loses the dirty buffer: the driver sees what is on the disk. *)
LEMMA CrashEffect ==
  ASSUME TypeOK, PowerCycle
  PROVE  View' = disk /\ disk' = disk /\ Coherent' /\ CacheTyped' /\ dirty' = FALSE
<1>1. drop_buf(boot_sector)
  BY DEF PowerCycle
<1>2. View' = disk /\ disk' = disk /\ Coherent' /\ dirty' = FALSE /\ sect' = boot_sector
  BY <1>1, DropEffect, SectorFacts DEF TypeOK, Typed
<1>3. buf' \in [CellsOf(sect') -> Value]
  BY <1>1, <1>2, SectorFacts DEF drop_buf, CellsOf
<1> QED BY <1>2, <1>3 DEF CacheTyped

-----------------------------------------------------------------------------
(* The types. *)

(* The free counter stays a machine word. *)
LEMMA ModFacts ==
  ASSUME free_cnt \in 0 .. (Wrap - 1)
  PROVE  /\ (free_cnt - 1) % Wrap \in 0 .. (Wrap - 1)
         /\ (free_cnt + 1) % Wrap \in 0 .. (Wrap - 1)
<1>1. \A k \in Int : k % Wrap \in 0 .. (Wrap - 1)
  BY VolumeAssumption
<1>2. free_cnt - 1 \in Int /\ free_cnt + 1 \in Int
  BY VolumeAssumption
<1> QED BY <1>1, <1>2

(* Reading a cell gives a value of its type. *)
LEMMA ReadFacts ==
  ASSUME TypeOK
  PROVE  /\ \A c \in Clusters : fat(c) \in FatValue
         /\ \A n \in Names : entry(n) \in Clusters \cup {NoEntry}
         /\ disk[next_free] \in Clusters /\ disk[info_free_cnt] \in 0 .. (Wrap - 1)
<1>1. \A x \in Cell : View[x] \in CellValue(x) /\ disk[x] \in CellValue(x)
  BY DEF TypeOK, Typed
<1>2. ASSUME NEW c \in Clusters PROVE fat(c) \in FatValue
  BY <1>1, CellFacts, ValueFacts DEF fat
<1>3. ASSUME NEW n \in Names PROVE entry(n) \in Clusters \cup {NoEntry}
  BY <1>1, CellFacts, ValueFacts DEF entry
<1>4. disk[next_free] \in Clusters /\ disk[info_free_cnt] \in 0 .. (Wrap - 1)
  BY <1>1, CellFacts, ValueFacts
<1> QED BY <1>2, <1>3, <1>4

(* A step that only reads keeps the disk and the view well typed. *)
LEMMA TypedKeeps ==
  ASSUME TypeOK, Keeps
  PROVE  Typed(disk)' /\ Typed(View)'
BY DEF TypeOK, Keeps

(* So does a step that writes a value of the right type. *)
LEMMA TypedWrites ==
  ASSUME TypeOK, NEW STATE x, x \in Cell, NEW STATE v, v \in CellValue(x), v \in Value,
         Writes(x, v)
  PROVE  Typed(disk)' /\ Typed(View)'
<1>1. Typed([View EXCEPT ![x] = v])
  BY TypedExcept DEF TypeOK
<1> QED BY <1>1 DEF TypeOK, Writes

(* Every step keeps the disk and the view well typed. *)
LEMMA DiskStep ==
  ASSUME TypeOK, CallInv, RootInv, CacheInv, Next
  PROVE  Typed(disk)' /\ Typed(View)' /\ CacheTyped'
<1> USE CellFacts, ValueFacts
<1>1. Free \in FatValue /\ Eoc \in FatValue /\ NoEntry \in Value
  BY VolumeAssumption DEF Value, FatValue, Free, Eoc, NoEntry
<1>2. CASE Keeps
  BY <1>2, TypedKeeps DEF Keeps
<1>3. CASE EocMirror \/ EocActive
  <2>1. clust \in Clusters
    BY <1>3 DEF EocMirror, EocActive, RootInv, Allocated, EocPcs
  <2>2. Writes(mirror(clust), Eoc) \/ Writes(active(clust), Eoc)
    BY <1>3, WriteEffects
  <2> QED BY <1>1, <2>1, <2>2, TypedWrites DEF Writes
<1>4. CASE LinkMirror \/ LinkActive
  <2>1. clust \in Clusters /\ prev \in Clusters /\ clust \in FatValue
    BY <1>4 DEF LinkMirror, LinkActive, RootInv, Allocated, LinkPcs, CallInv, FatValue
  <2>2. Writes(mirror(prev), clust) \/ Writes(active(prev), clust)
    BY <1>4, WriteEffects
  <2> QED BY <1>1, <2>1, <2>2, TypedWrites DEF Writes
<1>5. CASE AddEntry
  BY <1>1, <1>5, WriteEffects, TypedWrites DEF AddEntry, RootInv, Allocated, TypeOK, Writes
<1>6. CASE RemoveMirror \/ RemoveActive
  <2>1. clust \in Clusters
    BY <1>6 DEF RemoveMirror, RemoveActive, RootInv, RemovePcs
  <2>2. Writes(mirror(clust), Free) \/ Writes(active(clust), Free)
    BY <1>6, WriteEffects
  <2> QED BY <1>1, <2>1, <2>2, TypedWrites DEF Writes
<1>7. CASE RemoveEntry
  BY <1>1, <1>7, WriteEffects, TypedWrites DEF RemoveEntry, TypeOK, Writes
<1>8. CASE SyncInfo
  <2> DEFINE W == [x \in Cell |-> IF x = next_free THEN last_used
                                 ELSE IF x = info_free_cnt THEN free_cnt ELSE View[x]]
  <2>1. ASSUME NEW x \in Cell PROVE W[x] \in CellValue(x) /\ W[x] \in Value
    BY DEF TypeOK, Typed, Value
  <2>2. Typed(W)
    BY <2>1 DEF Typed
  <2>3. View' = W /\ disk' = W /\ CacheTyped'
    BY <1>8, InfoEffect
  <2> QED BY <2>2, <2>3
<1>9. CASE PowerCycle
  BY <1>9, CrashEffect DEF TypeOK
<1> QED BY <1>2, <1>3, <1>4, <1>5, <1>6, <1>7, <1>8, <1>9, ReadEffects
    DEF Next, Call, Step

(* TypeOK without the disk and the cache. *)
LocalsTyped ==
  /\ info_dirty \in BOOLEAN
  /\ last_used \in Clusters /\ free_cnt \in 0 .. (Wrap - 1)
  /\ pc \in {"idle", "probe", "scan", "eocMirror", "eocActive", "linkMirror",
             "linkActive", "syncBuf", "syncInfo", "addEntry", "advance", "return",
             "removeGet", "removeMirror", "removeActive", "removeEntry", "unmounted"}
  /\ ret \in {"return", "addEntry", "advance", "removeEntry"}
  /\ op \in {"none", "create", "stretch", "close", "sync", "unlink"}
  /\ name \in Names
  /\ clust \in Clusters \cup {0, Eoc}
  /\ prev \in Clusters \cup {0}
  /\ next \in Clusters \cup {0, Eoc}
  /\ open \in BOOLEAN /\ fclust \in Clusters \cup {0}
  /\ promised \in [Names -> {"absent", "present", "any"}]
  /\ cut \in BOOLEAN /\ crashes \in 0 .. MaxCrashes

(* TypeOK is the disk, the cache and the rest. *)
LEMMA TypeParts ==
  /\ TypeOK => LocalsTyped
  /\ Typed(disk)' /\ Typed(View)' /\ CacheTyped' /\ LocalsTyped' => TypeOK'
BY DEF TypeOK, CacheTyped, LocalsTyped

(* Every step keeps the variables of the volume and of the call well typed. *)
LEMMA LocalsStep ==
  ASSUME TypeOK, CallInv, RootInv, CacheInv, Next
  PROVE  TypeOK'
<1> SUFFICES LocalsTyped'
  BY DiskStep, TypeParts
<1>0. LocalsTyped
  BY TypeParts
<1> USE <1>0 DEF LocalsTyped
<1>1. CASE SyncBuf \/ SyncInfo
  BY <1>1 DEF SyncBuf, SyncInfo, fatVars, localVars, fileVars, historyVars
<1>2. CASE Probe
  BY <1>2, WrappedFacts DEF Probe, CallInv, put_eoc, fatVars, fileVars, historyVars
<1>3. CASE Scan \/ ScanFull
  BY <1>3, WrappedFacts
  DEF Scan, ScanFull, fail, CallInv, put_eoc, fatVars, localVars, fileVars, historyVars
<1>4. CASE EocMirror \/ LinkMirror
  BY <1>4 DEF EocMirror, LinkMirror, fatVars, localVars, fileVars, historyVars
<1>5. CASE EocActive \/ LinkActive
  <2>1. last_used' \in Clusters /\ free_cnt' \in 0 .. (Wrap - 1)
    BY <1>5, ModFacts
    DEF EocActive, LinkActive, allocated, RootInv, Allocated, EocPcs, LinkPcs, fatVars
  <2> QED BY <1>5, <2>1
       DEF EocActive, LinkActive, allocated, sync_fs, put_link,
           fatVars, localVars, fileVars, historyVars
<1>6. CASE AddEntry \/ Advance
  BY <1>6 DEF AddEntry, Advance, RootInv, Allocated, fatVars, localVars, historyVars
<1>7. ASSUME NEW n \in Names, FileCreate(n) \/ FileOpen(n) \/ Unlink(n)
      PROVE  LocalsTyped'
  BY <1>7, ReadFacts
  DEF FileCreate, FileOpen, Unlink, NoEntry, fatVars, localVars, fileVars, historyVars
<1>8. CASE Follow \/ Stretch \/ FollowBroken
  BY <1>8 DEF Follow, Stretch, FollowBroken, CallInv, fatVars, localVars, fileVars, historyVars
<1>9. ASSUME NEW used \in BOOLEAN, FileClose(used)
      PROVE  LocalsTyped'
  BY <1>9 DEF FileClose, sync_fs, fatVars, localVars, fileVars, historyVars
<1>10. CASE FatSync
  BY <1>10 DEF FatSync, sync_fs, fatVars, localVars, fileVars, historyVars
<1>11. CASE Return
  BY <1>11 DEF Return, fatVars, localVars
<1>12. CASE RemoveGet
  BY <1>12, ReadFacts
  DEF RemoveGet, RootInv, RemovePcs, FatValue, fatVars, fileVars, historyVars
<1>13. CASE RemoveBroken \/ RemoveMirror
  BY <1>13 DEF RemoveBroken, RemoveMirror, fail, fatVars, localVars, fileVars, historyVars
<1>14. CASE RemoveActive
  <2>1. free_cnt' \in 0 .. (Wrap - 1)
    BY <1>14, ModFacts DEF RemoveActive
  <2> QED BY <1>14, <2>1 DEF RemoveActive, sync_fs, fileVars, historyVars
<1>15. CASE RemoveEntry
  BY <1>15 DEF RemoveEntry, sync_fs, fatVars, localVars, fileVars, historyVars
<1>16. CASE PowerCycle
  <2>1. crashes' \in 0 .. MaxCrashes
    BY <1>16, VolumeAssumption DEF PowerCycle
  <2>2. last_used' \in Clusters /\ free_cnt' \in 0 .. (Wrap - 1)
    BY <1>16, ReadFacts DEF PowerCycle
  <2> QED BY <1>16, <2>1, <2>2 DEF PowerCycle, localVars
<1> QED BY <1>1, <1>2, <1>3, <1>4, <1>5, <1>6, <1>7, <1>8, <1>9, <1>10, <1>11,
           <1>12, <1>13, <1>14, <1>15, <1>16 DEF Next, Call, Step

-----------------------------------------------------------------------------
(* Control. *)

(* Every step keeps what the program counter says of the call in progress. *)
LEMMA CallStep ==
  ASSUME TypeOK, CallInv, RootInv, CacheInv, Next
  PROVE  CallInv'
<1> USE DEF CallInv, EocPcs, LinkPcs, SyncPcs, RemovePcs
<1>1. CASE SyncBuf \/ SyncInfo
  BY <1>1 DEF SyncBuf, SyncInfo, TypeOK, fatVars, localVars, fileVars, historyVars
<1>2. CASE Probe
  BY <1>2 DEF Probe, put_eoc, TypeOK, fatVars, fileVars, historyVars
<1>3. CASE Scan \/ ScanFull
  BY <1>3, WrappedFacts
  DEF Scan, ScanFull, fail, put_eoc, fatVars, localVars, fileVars, historyVars
<1>4. CASE EocMirror \/ LinkMirror
  BY <1>4 DEF EocMirror, LinkMirror, fatVars, localVars, fileVars, historyVars
<1>5. CASE EocActive
  <2>1. prev = 0 => op = "create"
    BY <1>5, VolumeAssumption DEF EocActive, Clusters
  <2>2. prev # 0 => op = "stretch"
    BY <1>5 DEF EocActive
  <2> QED BY <1>5, <2>1, <2>2
      DEF EocActive, allocated, sync_fs, put_link, fatVars, localVars, fileVars, historyVars
<1>6. CASE LinkActive
  BY <1>6 DEF LinkActive, allocated, sync_fs, localVars, fileVars, historyVars
<1>7. CASE AddEntry \/ Advance
  BY <1>7 DEF AddEntry, Advance, RootInv, Allocated, fatVars, localVars, historyVars
<1>8. ASSUME NEW n \in Names, FileCreate(n) \/ FileOpen(n) \/ Unlink(n)
      PROVE  CallInv'
  BY <1>8, ReadFacts
  DEF FileCreate, FileOpen, Unlink, TypeOK, fatVars, localVars, fileVars, historyVars
<1>9. CASE Follow \/ Stretch \/ FollowBroken
  BY <1>9 DEF Follow, Stretch, FollowBroken, fatVars, localVars, fileVars, historyVars
<1>10. ASSUME NEW used \in BOOLEAN, FileClose(used)
       PROVE  CallInv'
  BY <1>10 DEF FileClose, sync_fs, fatVars, localVars, fileVars, historyVars
<1>11. CASE FatSync
  BY <1>11 DEF FatSync, sync_fs, fatVars, localVars, fileVars, historyVars
<1>15. CASE Return
  <2>1. /\ pc = "return" /\ pc' = "idle" /\ op' = "none"
        /\ UNCHANGED <<ret, clust, prev, fclust>>
    BY <1>15 DEF Return, fatVars, localVars
  <2>2. open' => open
    BY <1>15 DEF Return
  <2> QED BY <2>1, <2>2
<1>12. CASE RemoveGet \/ RemoveBroken \/ RemoveMirror
  BY <1>12
  DEF RemoveGet, RemoveBroken, RemoveMirror, fail, fatVars, localVars, fileVars, historyVars
<1>13. CASE RemoveActive \/ RemoveEntry
  BY <1>13
  DEF RemoveActive, RemoveEntry, sync_fs, fatVars, localVars, fileVars, historyVars
<1>14. CASE PowerCycle
  BY <1>14 DEF PowerCycle, localVars
<1> QED BY <1>1, <1>2, <1>3, <1>4, <1>5, <1>6, <1>7, <1>8, <1>9, <1>10, <1>11,
           <1>12, <1>13, <1>14, <1>15 DEF Next, Call, Step

-----------------------------------------------------------------------------
(* The root directory. *)

(* A store keeps the root directory safe if it does not refer to the root and
   does not free it. *)
LEMMA RootWrites ==
  ASSUME TypeOK, RootInv, NEW STATE x, x \in Cell, NEW STATE v, Writes(x, v),
         v # Root, x = active(Root) => v # Free
  PROVE  RootSafe(disk)' /\ RootSafe(View)'
<1>1. /\ View \in [Cell -> Value] /\ active(Root) \in Cell /\ RefCells \subseteq Cell
  BY CellFacts, ValueFacts, CacheAssumption DEF TypeOK, Typed, RefCells, VolumeCells
<1>2. RootSafe([View EXCEPT ![x] = v])
  BY <1>1 DEF RootInv, RootSafe
<1> QED BY <1>2 DEF Writes, RootInv

(* Only the root directory has the root directory's FAT entry. *)
LEMMA ActiveInjective == \A c \in Clusters : active(c) = active(Root) => c = Root
BY CellFacts, ValueFacts

(* No step frees the root directory or makes a cell refer to it. *)
LEMMA RootDiskStep ==
  ASSUME TypeOK, CallInv, RootInv, CacheInv, Next
  PROVE  RootSafe(disk)' /\ RootSafe(View)'
<1> USE CellFacts, ValueFacts, KindFacts, ActiveInjective
<1>1. Free # Root /\ Eoc # Root /\ NoEntry # Root /\ Eoc # Free /\ NoEntry = Free
  BY VolumeAssumption DEF Free, Eoc, Root, NoEntry
<1>2. CASE Keeps
  BY <1>2 DEF Keeps, RootInv
<1>3. CASE EocMirror \/ EocActive
  <2>1. clust \in Clusters \ {Root}
    BY <1>3 DEF EocMirror, EocActive, RootInv, Allocated, EocPcs
  <2>2. Writes(mirror(clust), Eoc) \/ Writes(active(clust), Eoc)
    BY <1>3, WriteEffects
  <2> QED BY <1>1, <2>1, <2>2, RootWrites
<1>4. CASE LinkMirror \/ LinkActive
  <2>1. clust \in Clusters \ {Root} /\ prev \in Clusters /\ clust # Free
    BY <1>4, VolumeAssumption
    DEF LinkMirror, LinkActive, RootInv, Allocated, LinkPcs, CallInv, Clusters, Free
  <2>2. Writes(mirror(prev), clust) \/ Writes(active(prev), clust)
    BY <1>4, WriteEffects
  <2> QED BY <1>1, <2>1, <2>2, RootWrites
<1>5. CASE AddEntry
  <2>1. clust \in Clusters \ {Root} /\ name \in Names
    BY <1>5 DEF AddEntry, RootInv, Allocated, TypeOK
  <2>2. Writes(dirent(name), clust)
    BY <1>5, WriteEffects
  <2> QED BY <1>1, <2>1, <2>2, RootWrites
<1>6. CASE RemoveMirror \/ RemoveActive
  <2>1. clust \in Clusters \ {Root}
    BY <1>6 DEF RemoveMirror, RemoveActive, RootInv, RemovePcs
  <2>2. Writes(mirror(clust), Free) \/ Writes(active(clust), Free)
    BY <1>6, WriteEffects
  <2>3. mirror(clust) # active(Root)
    BY <2>1
  <2> QED BY <1>1, <2>1, <2>2, <2>3, RootWrites
<1>7. CASE RemoveEntry
  <2>1. name \in Names /\ dirent(name) # active(Root)
    BY DEF TypeOK
  <2>2. Writes(dirent(name), NoEntry)
    BY <1>7, WriteEffects
  <2> QED BY <1>1, <2>1, <2>2, RootWrites
<1>8. CASE SyncInfo
  <2> DEFINE W == [x \in Cell |-> IF x = next_free THEN last_used
                                 ELSE IF x = info_free_cnt THEN free_cnt ELSE View[x]]
  <2>1. \A x \in RefCells : x \in Cell /\ x # next_free /\ x # info_free_cnt
    BY CacheAssumption DEF RefCells, VolumeCells, InfoCells
  <2>2. active(Root) \in RefCells
    BY DEF RefCells
  <2>3. RootSafe(W)
    BY <2>1, <2>2 DEF RootInv, RootSafe
  <2> QED BY <1>8, <2>3, InfoEffect
<1>9. CASE PowerCycle
  BY <1>9, CrashEffect DEF RootInv
<1> QED BY <1>2, <1>3, <1>4, <1>5, <1>6, <1>7, <1>8, <1>9, ReadEffects
    DEF Next, Call, Step

(* A cluster found free is not the root, nor is one that a chain leads to. *)
LEMMA RootLocalStep ==
  ASSUME TypeOK, CallInv, RootInv, CacheInv, Next
  PROVE  /\ Allocated' => clust' \in Clusters \ {Root}
         /\ pc' \in RemovePcs => clust' \in Clusters \ {Root}
         /\ Found' => next' \in (Clusters \ {Root}) \cup {Eoc}
<1> DEFINE Goal == /\ Allocated => clust \in Clusters \ {Root}
                   /\ pc \in RemovePcs => clust \in Clusters \ {Root}
                   /\ Found => next \in (Clusters \ {Root}) \cup {Eoc}
<1> USE DEF Allocated, Found, EocPcs, LinkPcs, SyncPcs, RemovePcs
<1>1. /\ \A c \in Clusters : fat(c) = Free => c # Root
      /\ \A c \in Clusters : fat(c) # Root
      /\ \A n \in Names : entry(n) # Root
  BY KindFacts, ValueFacts DEF RootInv, RootSafe, RefCells, fat, entry
<1>2. Goal
  BY DEF RootInv
<1>3. CASE SyncBuf \/ SyncInfo
  BY <1>2, <1>3 DEF SyncBuf, SyncInfo, localVars, TypeOK
<1>4. CASE Probe
  <2>1. wrapped(prev + 1) \in Clusters
    BY <1>4, WrappedFacts DEF Probe, CallInv
  <2> QED BY <1>1, <1>4, <2>1 DEF Probe, put_eoc
<1>5. CASE Scan
  <2>1. wrapped(clust + 1) \in Clusters
    BY <1>5, WrappedFacts DEF Scan, CallInv
  <2> QED BY <1>1, <1>5, <2>1 DEF Scan, put_eoc
<1>6. CASE EocMirror \/ LinkMirror \/ RemoveMirror
  BY <1>2, <1>6 DEF EocMirror, LinkMirror, RemoveMirror, localVars
<1>7. CASE EocActive \/ LinkActive
  BY <1>2, <1>7 DEF EocActive, LinkActive, allocated, sync_fs, put_link, localVars
<1>8. CASE ScanFull \/ RemoveBroken \/ AddEntry \/ Advance \/ Return \/ PowerCycle
  BY <1>8 DEF ScanFull, RemoveBroken, AddEntry, Advance, Return, PowerCycle, fail
<1>9. ASSUME NEW n \in Names, FileCreate(n) \/ FileOpen(n) \/ Unlink(n)
      PROVE  Goal'
  BY <1>1, <1>9, ReadFacts DEF FileCreate, FileOpen, Unlink
<1>10. CASE Follow \/ Stretch \/ FollowBroken
  BY <1>10 DEF Follow, Stretch, FollowBroken
<1>11. ASSUME (\E used \in BOOLEAN : FileClose(used)) \/ FatSync \/ RemoveEntry
       PROVE  Goal'
  BY <1>11 DEF FileClose, FatSync, RemoveEntry, sync_fs
<1>12. CASE RemoveGet
  BY <1>1, <1>2, <1>12, ReadFacts DEF RemoveGet, FatValue
<1>13. CASE RemoveActive
  BY <1>2, <1>13 DEF RemoveActive, sync_fs
<1> QED BY <1>3, <1>4, <1>5, <1>6, <1>7, <1>8, <1>9, <1>10, <1>11, <1>12, <1>13
    DEF Next, Call, Step

(* The root directory stays allocated, and no chain comes to lead to it. *)
LEMMA RootStep ==
  ASSUME TypeOK, CallInv, RootInv, CacheInv, Next
  PROVE  RootInv'
BY RootDiskStep, RootLocalStep DEF RootInv

-----------------------------------------------------------------------------
(* The cache. *)

(* A step that only reads leaves the FsInfo fields on the disk current. *)
LEMMA InfoKeeps ==
  ASSUME TypeOK, CacheInv, Keeps
  PROVE  \A x \in InfoCells : View'[x] = disk'[x] /\ disk'[x] = disk[x]
BY DEF Keeps, CacheInv

(* So does a step that writes another cell. *)
LEMMA InfoWrites ==
  ASSUME TypeOK, CacheInv, NEW STATE x, x \in Cell, x \notin InfoCells, NEW STATE v,
         Writes(x, v)
  PROVE  \A y \in InfoCells : View'[y] = disk'[y] /\ disk'[y] = disk[y]
BY DEF Writes, CacheInv, TypeOK, Typed

(* Except in the middle of sync_fs, the FsInfo fields on the disk are the ones
   the driver sees. *)
LEMMA InfoStep ==
  ASSUME TypeOK, CallInv, RootInv, CacheInv, Next, ~SyncInfo
  PROVE  /\ Coherent'
         /\ \A x \in InfoCells : View'[x] = disk'[x] /\ disk'[x] = disk[x]
<1> USE CellFacts, ValueFacts, KindFacts
<1>1. CASE Keeps
  BY <1>1, InfoKeeps DEF Keeps
<1>2. CASE EocMirror \/ EocActive \/ RemoveMirror \/ RemoveActive
  <2>1. clust \in Clusters
    BY <1>2
    DEF EocMirror, EocActive, RemoveMirror, RemoveActive, RootInv, RemovePcs, Allocated, EocPcs
  <2>2. \/ Writes(mirror(clust), Eoc) \/ Writes(active(clust), Eoc)
        \/ Writes(mirror(clust), Free) \/ Writes(active(clust), Free)
    BY <1>2, WriteEffects
  <2> QED BY <2>1, <2>2, InfoWrites DEF Writes
<1>3. CASE LinkMirror \/ LinkActive
  <2>1. prev \in Clusters
    BY <1>3 DEF LinkMirror, LinkActive, LinkPcs, CallInv
  <2>2. Writes(mirror(prev), clust) \/ Writes(active(prev), clust)
    BY <1>3, WriteEffects
  <2> QED BY <2>1, <2>2, InfoWrites DEF Writes
<1>4. CASE AddEntry \/ RemoveEntry
  <2>1. name \in Names
    BY DEF TypeOK
  <2>2. Writes(dirent(name), clust) \/ Writes(dirent(name), NoEntry)
    BY <1>4, WriteEffects
  <2> QED BY <2>1, <2>2, InfoWrites DEF Writes
<1>5. CASE PowerCycle
  BY <1>5, CrashEffect
<1> QED BY <1>1, <1>2, <1>3, <1>4, <1>5, ReadEffects DEF Next, Call, Step

(* The counters change only in steps of calls that have set FAT_INFO_DIRTY. *)
LEMMA CacheStep ==
  ASSUME TypeOK, CallInv, RootInv, CacheInv, Next
  PROVE  CacheInv'
<1> DEFINE Clean == ~info_dirty => disk[next_free] = last_used /\ disk[info_free_cnt] = free_cnt
           Flag == pc \in {"probe", "scan"} \cup EocPcs \cup LinkPcs \cup RemovePcs => info_dirty
           Synced == pc = "return" => ~dirty /\ disk = View
           Ready == pc = "syncInfo" => ~dirty
<1> USE DEF EocPcs, LinkPcs, SyncPcs, RemovePcs, TypeOK
<1>1. Clean /\ Flag /\ Synced /\ Ready
  BY DEF CacheInv
<1>2. next_free \in InfoCells /\ info_free_cnt \in InfoCells
  BY DEF InfoCells
<1>3. CASE SyncInfo
  <2>1. \A x \in InfoCells : View'[x] = disk'[x]
    BY <1>3, InfoEffect
  <2>2. disk'[next_free] = last_used /\ disk'[info_free_cnt] = free_cnt
    BY <1>3, InfoEffect, CellFacts, KindFacts
  <2>3. /\ last_used' = last_used /\ free_cnt' = free_cnt /\ pc' = ret
        /\ dirty' = FALSE /\ disk' = View' /\ Coherent'
    BY <1>3, InfoEffect DEF SyncInfo
  <2> QED BY <2>1, <2>2, <2>3 DEF CacheInv
<1>4. ASSUME ~SyncInfo
      PROVE  CacheInv'
  <2>1. /\ Coherent'
        /\ \A x \in InfoCells : View'[x] = disk'[x] /\ disk'[x] = disk[x]
    BY <1>4, InfoStep
  <2>2. disk'[next_free] = disk[next_free] /\ disk'[info_free_cnt] = disk[info_free_cnt]
    BY <1>2, <2>1
  <2>3. Clean' /\ Flag'
    <3>1. ASSUME UNCHANGED fatVars, pc' \notin {"probe", "scan"} \/ pc = "probe" \/ pc = "scan",
                 pc' \in EocPcs \cup LinkPcs \cup RemovePcs =>
                   pc \in {"probe", "scan"} \cup EocPcs \cup LinkPcs \cup RemovePcs
          PROVE  Clean' /\ Flag'
      BY <1>1, <2>2, <3>1 DEF fatVars
    <3>2. CASE SyncBuf
      BY <3>1, <3>2 DEF SyncBuf
    <3>3. CASE Probe \/ Scan \/ ScanFull \/ EocMirror \/ LinkMirror
      BY <3>1, <3>3 DEF Probe, Scan, ScanFull, EocMirror, LinkMirror, fail, put_eoc
    <3>4. CASE EocActive \/ LinkActive
      BY <1>1, <3>1, <3>4, <2>2
      DEF EocActive, LinkActive, allocated, sync_fs, put_link, fatVars
    <3>5. CASE AddEntry \/ Advance \/ Return
      BY <3>1, <3>5 DEF AddEntry, Advance, Return
    <3>6. ASSUME NEW n \in Names, FileCreate(n) \/ Unlink(n) \/ FileOpen(n)
          PROVE  Clean' /\ Flag'
      BY <3>1, <3>6, <1>1, <2>2 DEF FileCreate, Unlink, FileOpen, fatVars
    <3>7. CASE Follow \/ Stretch \/ FollowBroken
      BY <3>1, <3>7, <1>1, <2>2 DEF Follow, Stretch, FollowBroken, fatVars
    <3>8. CASE (\E used \in BOOLEAN : FileClose(used)) \/ FatSync \/ RemoveEntry
      BY <3>1, <3>8 DEF FileClose, FatSync, RemoveEntry, sync_fs
    <3>9. CASE RemoveGet \/ RemoveBroken \/ RemoveMirror
      BY <3>1, <3>9 DEF RemoveGet, RemoveBroken, RemoveMirror, fail
    <3>10. CASE RemoveActive
      BY <1>1, <3>10 DEF RemoveActive, sync_fs
    <3>11. CASE PowerCycle
      BY <3>11, <2>2 DEF PowerCycle
    <3> QED BY <1>4, <3>2, <3>3, <3>4, <3>5, <3>6, <3>7, <3>8, <3>9, <3>10, <3>11
        DEF Next, Call, Step
  <2>4. Synced' /\ Ready'
    <3>1. CASE SyncBuf
      BY <3>1, ReadEffects DEF Keeps
    <3>2. ASSUME ~SyncBuf
          PROVE  pc' \notin {"return", "syncInfo"}
      BY <1>4, <3>2
      DEF Next, Call, Step, Probe, Scan, ScanFull, EocMirror, EocActive, LinkMirror,
          LinkActive, AddEntry, Advance, Return, RemoveGet, RemoveBroken, RemoveMirror,
          RemoveActive, RemoveEntry, FileCreate, FileOpen, Unlink, Follow, Stretch,
          FollowBroken, FileClose, FatSync, PowerCycle, put_eoc, put_link, fail,
          sync_fs, allocated
    <3> QED BY <3>1, <3>2
  <2> QED BY <2>1, <2>3, <2>4 DEF CacheInv
<1> QED BY <1>3, <1>4

-----------------------------------------------------------------------------
(* The chains. *)

SoundOn(R, d) ==
  /\ \A x, y \in R : d[x] \in Clusters /\ d[x] = d[y] => x = y
  /\ \A x \in R : d[x] \in Clusters => d[x] # Root /\ d[active(d[x])] \notin {Free, Bad}

(* The two halves of ChainsIntact, as one statement about references. *)
LEMMA SoundDef == \A d : NoCrossLink(d) /\ NoDangling(d) <=> SoundOn(LiveRefs, d)
BY DEF NoCrossLink, NoDangling, SoundOn

(* Only active FAT entries and directory entries refer to clusters, and no
   special value of the FAT is a cluster. *)
LEMMA RefFacts ==
  /\ RefCells \subseteq Cell /\ ActiveCells \subseteq RefCells /\ DirCells \subseteq RefCells
  /\ \A x \in RefCells : x \notin MirrorCells /\ x \notin InfoCells
  /\ \A c \in Clusters : active(c) \in RefCells /\ mirror(c) \notin RefCells
  /\ \A n \in Names : dirent(n) \in RefCells
  /\ LiveRefs \subseteq RefCells
  /\ Free \notin Clusters /\ Bad \notin Clusters /\ Eoc \notin Clusters /\ NoEntry \notin Clusters
  /\ Eoc # Free /\ Eoc # Bad
BY CacheAssumption, KindFacts, VolumeAssumption
DEF RefCells, LiveRefs, VolumeCells, Free, Bad, Eoc, NoEntry, Clusters

(* A cell may take a new value if what it comes to refer to is allocated and
   has no other referrer, and if nothing refers to a cluster it frees. *)
LEMMA SoundExcept ==
  ASSUME NEW R, R \subseteq RefCells, NEW d \in [Cell -> Value], SoundOn(R, d),
         NEW x \in Cell, NEW v,
         x \in R /\ v \in Clusters =>
           v # Root /\ d[active(v)] \notin {Free, Bad} /\ \A y \in R : d[y] # v,
         v \in {Free, Bad} => \A y \in R : d[y] \in Clusters => active(d[y]) # x
  PROVE  SoundOn(R, [d EXCEPT ![x] = v])
<1> DEFINE e == [d EXCEPT ![x] = v]
<1> USE RefFacts, CellFacts
<1>1. \A y \in Cell : e[y] = IF y = x THEN v ELSE d[y]
  OBVIOUS
<1>2. ASSUME NEW y \in R, NEW z \in R, e[y] \in Clusters, e[y] = e[z]
      PROVE  y = z
  BY <1>1, <1>2 DEF SoundOn
<1>3. ASSUME NEW y \in R, e[y] \in Clusters
      PROVE  e[y] # Root /\ e[active(e[y])] \notin {Free, Bad}
  <2>1. CASE y = x
    BY <1>1, <1>3, <2>1
  <2>2. CASE y # x
    BY <1>1, <1>3, <2>2 DEF SoundOn
  <2> QED BY <2>1, <2>2
<1>4. QED
  BY <1>2, <1>3 DEF SoundOn

(* The disk holds what the driver sees or has seen, so a write that keeps the
   chains sound in the view keeps them sound on the disk. *)
LEMMA SoundWrites ==
  ASSUME TypeOK, ChainInv, ~cut, NEW STATE x, x \in Cell, NEW STATE v, Writes(x, v),
         LiveRefs' = LiveRefs,
         x \in LiveRefs /\ v \in Clusters =>
           /\ v # Root /\ View[active(v)] \notin {Free, Bad}
           /\ \A y \in LiveRefs : View[y] # v,
         v \in {Free, Bad} => \A y \in LiveRefs : View[y] \in Clusters => active(View[y]) # x
  PROVE  SoundOn(LiveRefs', View') /\ SoundOn(LiveRefs', disk')
<1>1. SoundOn(LiveRefs, View) /\ SoundOn(LiveRefs, disk)
  BY SoundDef DEF ChainInv
<1>2. SoundOn(LiveRefs, [View EXCEPT ![x] = v])
  BY <1>1, SoundExcept, RefFacts DEF TypeOK, Typed
<1> QED BY <1>1, <1>2 DEF Writes

(* A step that stores nothing keeps the chains sound in the view and on the disk. *)
LEMMA SoundKeeps ==
  ASSUME ChainInv, ~cut, Keeps, LiveRefs' \subseteq LiveRefs
  PROVE  SoundOn(LiveRefs', View') /\ SoundOn(LiveRefs', disk')
<1>1. SoundOn(LiveRefs, View) /\ SoundOn(LiveRefs, disk)
  BY SoundDef DEF ChainInv
<1>2. SoundOn(LiveRefs', View) /\ SoundOn(LiveRefs', disk)
  BY <1>1 DEF SoundOn
<1> QED BY <1>2 DEF Keeps

(* No step leaves a shared or a dangling cluster. *)
LEMMA SoundStep ==
  ASSUME TypeOK, CallInv, RootInv, CacheInv, ChainInv, ~cut, ~cut', Next
  PROVE  SoundOn(LiveRefs', View') /\ SoundOn(LiveRefs', disk')
<1> DEFINE Goal == SoundOn(LiveRefs, View) /\ SoundOn(LiveRefs, disk)
<1> USE CellFacts, ValueFacts, RefFacts DEF EocPcs, LinkPcs, SyncPcs, RemovePcs
<1>1. /\ Goal
      /\ Unlinked => \A x \in RefCells : View[x] # clust
      /\ Ended => View[active(clust)] = Eoc
      /\ pc \in RemovePcs => /\ View[active(clust)] \notin {Free, Bad}
                             /\ \A x \in LiveRefs : View[x] # clust
      /\ op = "unlink" /\ ret = "return" /\ pc \in SyncPcs \cup {"return"} =>
           View[dirent(name)] = NoEntry
  BY SoundDef DEF ChainInv
<1>2. \A x \in RefCells : x \in LiveRefs \/ (op = "unlink" /\ x = dirent(name))
  BY DEF LiveRefs
<1>3. ASSUME UNCHANGED <<op, name>> PROVE LiveRefs' = LiveRefs
  BY <1>3 DEF LiveRefs
<1>4. ASSUME op # "unlink" PROVE LiveRefs = RefCells
  BY <1>4 DEF LiveRefs
<1>5. ASSUME op' # "unlink" PROVE LiveRefs' = RefCells
  BY <1>5 DEF LiveRefs
<1>6. CASE SyncBuf \/ Follow \/ FollowBroken \/ RemoveGet
  <2>1. UNCHANGED op /\ (op = "unlink" => UNCHANGED name)
    BY <1>6 DEF SyncBuf, Follow, FollowBroken, RemoveGet, fatVars, localVars
  <2> QED BY <1>6, <2>1, ReadEffects, SoundKeeps DEF LiveRefs
<1>7. CASE \/ Probe \/ Scan \/ ScanFull \/ Stretch \/ Advance \/ FatSync
           \/ \E n \in Names : FileCreate(n) \/ FileOpen(n)
           \/ \E used \in BOOLEAN : FileClose(used)
  <2>1. op # "unlink" /\ op' # "unlink"
    BY <1>7
    DEF Probe, Scan, ScanFull, Stretch, Advance, FatSync, FileCreate, FileOpen, FileClose,
        CallInv, fail
  <2>2. LiveRefs' \subseteq LiveRefs
    BY <1>4, <1>5, <2>1
  <2> QED BY <1>7, <2>2, ReadEffects, SoundKeeps
<1>8. ASSUME NEW n \in Names, Unlink(n) PROVE Goal'
  <2>1. LiveRefs' \subseteq LiveRefs
    BY <1>8 DEF Unlink, LiveRefs, CallInv
  <2> QED BY <1>8, <2>1, ReadEffects, SoundKeeps
<1>9. CASE RemoveBroken
  BY <1>1, <1>9 DEF RemoveBroken, fat
<1>10. CASE Return
  <2>1. Keeps /\ disk = View /\ LiveRefs' = RefCells
    BY <1>5, <1>10, ReadEffects DEF Return, CacheInv
  <2>2. CASE op # "unlink"
    BY <1>4, <2>1, <2>2, SoundKeeps
  <2>3. CASE op = "unlink"
    <3>1. View[dirent(name)] \notin Clusters
      BY <1>1, <1>10, <2>3 DEF Return, CallInv
    <3>2. SoundOn(RefCells, View)
      BY <1>1, <1>2, <3>1 DEF SoundOn
    <3> QED BY <2>1, <3>2 DEF Keeps
  <2> QED BY <2>2, <2>3
<1>11. CASE EocMirror \/ LinkMirror \/ RemoveMirror
  <2>1. LiveRefs' = LiveRefs
    BY <1>3, <1>11 DEF EocMirror, LinkMirror, RemoveMirror
  <2>2. clust \in Clusters /\ (LinkMirror => prev \in Clusters)
    BY <1>11
    DEF EocMirror, LinkMirror, RemoveMirror, RootInv, Allocated, CallInv
  <2>3. \A c \in Clusters : mirror(c) \in Cell /\ mirror(c) \notin LiveRefs
                             /\ \A y \in Clusters : active(y) # mirror(c)
    OBVIOUS
  <2>4. CASE EocMirror
    BY <2>1, <2>2, <2>3, <2>4, WriteEffects, SoundWrites
  <2>5. CASE LinkMirror
    BY <2>1, <2>2, <2>3, <2>5, WriteEffects, SoundWrites
  <2>6. CASE RemoveMirror
    BY <2>1, <2>2, <2>3, <2>6, WriteEffects, SoundWrites
  <2> QED BY <1>11, <2>4, <2>5, <2>6
<1>12. CASE EocActive
  <2>1. LiveRefs' = LiveRefs /\ clust \in Clusters
    BY <1>3, <1>12 DEF EocActive, RootInv, Allocated
  <2> QED BY <2>1, <1>12, WriteEffects, SoundWrites
<1>13. CASE LinkActive
  <2>1. LiveRefs' = LiveRefs /\ clust \in Clusters \ {Root} /\ prev \in Clusters
    BY <1>3, <1>13 DEF LinkActive, RootInv, Allocated, CallInv
  <2>2. View[active(clust)] = Eoc /\ \A x \in RefCells : View[x] # clust
    BY <1>1, <1>13 DEF LinkActive, Unlinked, Ended, Allocated
  <2> QED BY <2>1, <2>2, <1>13, WriteEffects, SoundWrites
<1>14. CASE AddEntry
  <2>1. LiveRefs' = LiveRefs /\ clust \in Clusters \ {Root} /\ name \in Names
    BY <1>4, <1>5, <1>14 DEF AddEntry, RootInv, Allocated, CallInv, TypeOK
  <2>2. View[active(clust)] = Eoc /\ \A x \in RefCells : View[x] # clust
    BY <1>1, <1>14 DEF AddEntry, Unlinked, Ended, Allocated
  <2> QED BY <2>1, <2>2, <1>14, WriteEffects, SoundWrites
<1>15. CASE RemoveActive
  <2>1. LiveRefs' = LiveRefs /\ clust \in Clusters \ {Root}
    BY <1>3, <1>15 DEF RemoveActive, RootInv
  <2>2. \A x \in LiveRefs : View[x] # clust
    BY <1>1, <1>15 DEF RemoveActive
  <2> QED BY <2>1, <2>2, <1>15, WriteEffects, SoundWrites
<1>16. CASE RemoveEntry
  <2>1. LiveRefs' = LiveRefs /\ name \in Names /\ dirent(name) \notin LiveRefs
    BY <1>3, <1>16 DEF RemoveEntry, CallInv, LiveRefs, TypeOK
  <2>2. \A c \in Clusters : active(c) # dirent(name)
    BY <2>1, KindFacts
  <2> QED BY <2>1, <2>2, <1>16, WriteEffects, SoundWrites
<1>17. CASE SyncInfo
  <2> DEFINE W == [x \in Cell |-> IF x = next_free THEN last_used
                                 ELSE IF x = info_free_cnt THEN free_cnt ELSE View[x]]
  <2>1. LiveRefs' = LiveRefs
    BY <1>3, <1>17 DEF SyncInfo
  <2>2. \A x \in RefCells : W[x] = View[x]
    BY DEF InfoCells
  <2>3. SoundOn(LiveRefs, W)
    BY <1>1, <2>2 DEF SoundOn
  <2> QED BY <1>17, <2>1, <2>3, InfoEffect
<1>18. CASE PowerCycle
  <2>1. op # "unlink" /\ op' # "unlink"
    BY <1>18 DEF PowerCycle
  <2> QED BY <1>1, <1>4, <1>5, <1>18, <2>1, CrashEffect
<1> QED BY <1>6, <1>7, <1>8, <1>9, <1>10, <1>11, <1>12, <1>13, <1>14, <1>15, <1>16,
           <1>17, <1>18 DEF Next, Call, Step

(* The cluster a call holds stays unreferred to until the call links it. *)
AllocHeld == /\ Unlinked => \A x \in RefCells : View[x] # clust
             /\ Ended => View[active(clust)] = Eoc
RemoveHeld == /\ pc \in RemovePcs => /\ View[active(clust)] \notin {Free, Bad}
                                     /\ \A x \in LiveRefs : View[x] # clust
              /\ Found => next = View[active(clust)]
EntryGone == op = "unlink" /\ ret = "return" /\ pc \in SyncPcs \cup {"return"} =>
               View[dirent(name)] = NoEntry

(* A cluster just allocated stays without a referrer until the call links it. *)
LEMMA AllocHeldStep ==
  ASSUME TypeOK, CallInv, RootInv, CacheInv, ChainInv, ~cut, Next
  PROVE  AllocHeld'
<1> USE CellFacts, ValueFacts, RefFacts
    DEF EocPcs, LinkPcs, SyncPcs, RemovePcs, AllocHeld, Unlinked, Ended, Allocated
<1>1. AllocHeld /\ SoundOn(LiveRefs, View)
  BY SoundDef DEF ChainInv
<1>2. ASSUME op # "unlink", NEW c \in Clusters, fat(c) = Free
      PROVE  \A x \in RefCells : View[x] # c
  <2>1. LiveRefs = RefCells
    BY <1>2 DEF LiveRefs
  <2> QED BY <1>1, <1>2, <2>1 DEF SoundOn, fat
<1>3. View \in [Cell -> Value]
  BY DEF TypeOK, Typed
<1>4. CASE Probe
  <2>1. wrapped(prev + 1) \in Clusters /\ op # "unlink" /\ View' = View
    BY <1>4, WrappedFacts, ReadEffects DEF Probe, CallInv, Keeps
  <2> QED BY <1>2, <1>4, <2>1 DEF Probe, put_eoc
<1>5. CASE Scan
  <2>1. wrapped(clust + 1) \in Clusters /\ op # "unlink" /\ View' = View
    BY <1>5, WrappedFacts, ReadEffects DEF Scan, CallInv, Keeps
  <2> QED BY <1>2, <1>5, <2>1 DEF Scan, put_eoc
<1>6. CASE EocMirror
  <2>1. clust \in Clusters /\ View' = [View EXCEPT ![mirror(clust)] = Eoc]
    BY <1>6, WriteEffects DEF EocMirror, RootInv, Writes
  <2> QED BY <1>1, <1>3, <1>6, <2>1 DEF EocMirror, localVars
<1>7. CASE EocActive
  <2>1. clust \in Clusters /\ View' = [View EXCEPT ![active(clust)] = Eoc]
    BY <1>7, WriteEffects DEF EocActive, RootInv, Writes
  <2>2. \A x \in RefCells : View'[x] # clust
    BY <1>1, <1>3, <1>7, <2>1 DEF EocActive
  <2>3. View'[active(clust)] = Eoc /\ clust' = clust
    BY <1>3, <1>7, <2>1 DEF EocActive, localVars
  <2> QED BY <2>2, <2>3
<1>8. CASE LinkMirror
  <2>1. prev \in Clusters /\ clust \in Clusters
        /\ View' = [View EXCEPT ![mirror(prev)] = clust]
    BY <1>8, WriteEffects DEF LinkMirror, CallInv, RootInv, Writes
  <2> QED BY <1>1, <1>3, <1>8, <2>1 DEF LinkMirror, localVars
<1>9. CASE LinkActive
  BY <1>9 DEF LinkActive, allocated, sync_fs, CallInv
<1>10. CASE SyncBuf
  <2>1. View' = View
    BY <1>10, ReadEffects DEF Keeps
  <2> QED BY <1>1, <1>10, <2>1 DEF SyncBuf, localVars, TypeOK
<1>11. CASE SyncInfo
  <2>1. \A x \in RefCells : View'[x] = View[x]
    BY <1>11, InfoEffect DEF InfoCells
  <2>2. Unlinked => clust \in Clusters
    BY DEF RootInv
  <2> QED BY <1>1, <1>11, <2>1, <2>2 DEF SyncInfo, localVars, TypeOK
<1>12. ASSUME ~(Probe \/ Scan \/ EocMirror \/ EocActive \/ LinkMirror \/ LinkActive
                \/ SyncBuf \/ SyncInfo)
       PROVE  ~Unlinked'
  BY <1>12
  DEF Next, Call, Step, ScanFull, AddEntry, Advance, Return, RemoveGet, RemoveBroken,
      RemoveMirror, RemoveActive, RemoveEntry, FileCreate, FileOpen, Unlink, Follow,
      Stretch, FollowBroken, FileClose, FatSync, PowerCycle, fail, sync_fs
<1> QED BY <1>4, <1>5, <1>6, <1>7, <1>8, <1>9, <1>10, <1>11, <1>12

(* A cluster about to be freed stays allocated and without a live referrer. *)
LEMMA RemoveHeldStep ==
  ASSUME TypeOK, CallInv, RootInv, CacheInv, ChainInv, ~cut, Next
  PROVE  RemoveHeld'
<1> USE CellFacts, ValueFacts, RefFacts
    DEF EocPcs, LinkPcs, SyncPcs, RemovePcs, RemoveHeld, Found
<1>1. RemoveHeld /\ SoundOn(LiveRefs, View)
  BY SoundDef DEF ChainInv
<1>2. View \in [Cell -> Value]
  BY DEF TypeOK, Typed
<1>3. ASSUME NEW n \in Names, Unlink(n)
      PROVE  RemoveHeld'
  <2>1. /\ View' = View /\ LiveRefs = RefCells /\ LiveRefs' = RefCells \ {dirent(n)}
        /\ clust' = View[dirent(n)] /\ clust' \in Clusters /\ pc' = "removeGet"
    BY <1>3, ReadEffects, ReadFacts DEF Unlink, LiveRefs, CallInv, Keeps, entry
  <2>2. View'[active(clust')] \notin {Free, Bad}
    BY <1>1, <2>1 DEF SoundOn
  <2>3. \A x \in LiveRefs' : View'[x] # clust'
    BY <1>1, <2>1 DEF SoundOn
  <2> QED BY <2>1, <2>2, <2>3
<1>4. CASE RemoveGet
  <2>1. View' = View /\ LiveRefs' = LiveRefs
    BY <1>4, ReadEffects DEF RemoveGet, LiveRefs, Keeps
  <2> QED BY <1>1, <1>4, <2>1 DEF RemoveGet, fat
<1>5. CASE RemoveMirror
  <2>1. clust \in Clusters /\ View' = [View EXCEPT ![mirror(clust)] = Free]
    BY <1>5, WriteEffects DEF RemoveMirror, RootInv, Writes
  <2>2. LiveRefs' = LiveRefs
    BY <1>5 DEF RemoveMirror, LiveRefs
  <2> QED BY <1>1, <1>2, <1>5, <2>1, <2>2 DEF RemoveMirror, localVars
<1>6. CASE RemoveActive
  <2>1. clust \in Clusters /\ View' = [View EXCEPT ![active(clust)] = Free]
    BY <1>6, WriteEffects DEF RemoveActive, RootInv, Writes
  <2>2. /\ LiveRefs' = LiveRefs /\ clust' = next
        /\ next # Eoc \/ pc' = "syncBuf"
        /\ pc' \in {"syncBuf", "removeGet"}
    BY <1>6 DEF RemoveActive, LiveRefs, sync_fs
  <2>3. CASE next = Eoc
    BY <2>2, <2>3
  <2>4. CASE next # Eoc
    <3>1. next = View[active(clust)] /\ next \in Clusters
      BY <1>1, <1>6, <2>4 DEF RemoveActive, RootInv
    <3>2. active(clust) \in LiveRefs
      <4>1. name \in Names
        BY DEF TypeOK
      <4>2. active(clust) # dirent(name)
        BY <2>1, <4>1, KindFacts
      <4> QED BY <2>1, <4>2 DEF LiveRefs
    <3>3. next # clust
      BY <1>1, <1>6, <3>1, <3>2 DEF RemoveActive
    <3>4. View'[active(next)] \notin {Free, Bad}
      BY <1>1, <1>2, <2>1, <3>1, <3>2, <3>3 DEF SoundOn
    <3>5. \A x \in LiveRefs : View'[x] # next
      BY <1>1, <1>2, <2>1, <3>1, <3>2 DEF SoundOn
    <3> QED BY <2>2, <3>4, <3>5
  <2> QED BY <2>3, <2>4
<1>7. ASSUME ~(RemoveGet \/ RemoveMirror \/ RemoveActive \/ \E n \in Names : Unlink(n))
      PROVE  pc' \notin RemovePcs
  BY <1>7
  DEF Next, Call, Step, SyncBuf, SyncInfo, Probe, Scan, ScanFull, EocMirror, EocActive,
      LinkMirror, LinkActive, AddEntry, Advance, Return, RemoveBroken, RemoveEntry,
      FileCreate, FileOpen, Follow, Stretch, FollowBroken, FileClose, FatSync, PowerCycle,
      fail, sync_fs, put_eoc, put_link, allocated, TypeOK
<1> QED BY <1>3, <1>4, <1>5, <1>6, <1>7

(* Once fat_unlink has cleared the directory entry it stays cleared. *)
LEMMA EntryGoneStep ==
  ASSUME TypeOK, CallInv, RootInv, CacheInv, ChainInv, ~cut, Next
  PROVE  EntryGone'
<1> USE CellFacts, ValueFacts, RefFacts DEF SyncPcs, EntryGone
<1>1. EntryGone
  BY DEF ChainInv
<1>2. CASE RemoveEntry
  <2>1. View' = [View EXCEPT ![dirent(name)] = NoEntry] /\ name' = name /\ name \in Names
    BY <1>2, WriteEffects DEF RemoveEntry, Writes, TypeOK
  <2> QED BY <2>1 DEF TypeOK, Typed
<1>3. CASE SyncBuf \/ SyncInfo
  <2>1. \A x \in RefCells : View'[x] = View[x]
    BY <1>3, ReadEffects, InfoEffect DEF Keeps, InfoCells
  <2>2. UNCHANGED <<op, name, ret>> /\ pc \in SyncPcs
    BY <1>3 DEF SyncBuf, SyncInfo, fatVars
  <2>3. dirent(name) \in RefCells
    BY DEF TypeOK
  <2> QED BY <1>1, <2>1, <2>2, <2>3
<1>4. ASSUME ~(RemoveEntry \/ SyncBuf \/ SyncInfo)
      PROVE  op' # "unlink" \/ ret' # "return" \/ pc' \notin SyncPcs \cup {"return"}
  BY <1>4
  DEF Next, Call, Step, Probe, Scan, ScanFull, EocMirror, EocActive, LinkMirror, LinkActive,
      AddEntry, Advance, Return, RemoveGet, RemoveBroken, RemoveMirror, RemoveActive,
      FileCreate, FileOpen, Unlink, Follow, Stretch, FollowBroken, FileClose, FatSync,
      PowerCycle, fail, sync_fs, put_eoc, put_link, allocated
<1> QED BY <1>2, <1>3, <1>4

(* Every step keeps the chains sound, unless power is cut inside fat_unlink. *)
LEMMA ChainStep ==
  ASSUME TypeOK, CallInv, RootInv, CacheInv, ChainInv, Next
  PROVE  ChainInv'
<1>1. ~cut' => ~cut
  BY DEF Next, Call, Step, SyncBuf, SyncInfo, Probe, Scan, ScanFull, EocMirror, EocActive,
     LinkMirror, LinkActive, AddEntry, Advance, Return, RemoveGet, RemoveBroken,
     RemoveMirror, RemoveActive, RemoveEntry, FileCreate, FileOpen, Unlink, Follow,
     Stretch, FollowBroken, FileClose, FatSync, PowerCycle, historyVars
<1>2. ASSUME ~cut'
      PROVE  /\ NoCrossLink(View)' /\ NoDangling(View)'
             /\ NoCrossLink(disk)' /\ NoDangling(disk)'
             /\ AllocHeld' /\ RemoveHeld' /\ EntryGone'
  <2>1. SoundOn(LiveRefs', View') /\ SoundOn(LiveRefs', disk')
    BY <1>1, <1>2, SoundStep
  <2>2. /\ NoCrossLink(View)' /\ NoDangling(View)'
        /\ NoCrossLink(disk)' /\ NoDangling(disk)'
    BY <2>1 DEF NoCrossLink, NoDangling, SoundOn
  <2> QED BY <1>1, <1>2, <2>2, AllocHeldStep, RemoveHeldStep, EntryGoneStep
<1> QED BY <1>2 DEF ChainInv, AllocHeld, RemoveHeld, EntryGone

-----------------------------------------------------------------------------
(* The theorems. *)

(* A freshly made and mounted volume satisfies the invariant. *)
LEMMA InitInv == Init => Inv
<1> SUFFICES ASSUME Init PROVE Inv
  OBVIOUS
<1> DEFINE n == Cardinality({c \in Clusters : Formatted(c) = Free})
<1> USE CellFacts, ValueFacts, KindFacts, RefFacts, VolumeAssumption
<1>1. n \in 0 .. (Wrap - 1)
  <2>1. IsFiniteSet(Clusters) /\ Cardinality(Clusters) = ClustCnt - 2
    BY FS_Interval DEF Clusters
  <2>2. IsFiniteSet({c \in Clusters : Formatted(c) = Free}) /\ n <= ClustCnt - 2
    BY <2>1, FS_Subset
  <2>3. n \in Nat
    BY <2>2, FS_CardinalityType
  <2> QED BY <2>2, <2>3
<1>2. \A c \in Clusters : Formatted(c) \in {Free, Eoc, Bad} /\ Formatted(Root) = Eoc
  BY DEF Formatted
<1>3. PICK hint \in Clusters :
        /\ disk = [x \in Cell |-> IF x \in DirCells THEN NoEntry
                                 ELSE IF x = next_free THEN hint
                                 ELSE IF x = info_free_cnt THEN n
                                 ELSE Formatted(x[2])]
        /\ last_used = hint /\ free_cnt = n
  BY DEF Init
<1>4. ASSUME NEW x \in ActiveCells \cup MirrorCells
      PROVE  x[2] \in Clusters /\ disk[x] \in {Free, Eoc, Bad}
  <2>1. x[2] \in Clusters
    BY DEF ActiveCells, MirrorCells, active, mirror
  <2> QED BY <1>2, <1>3, <2>1, CacheAssumption DEF VolumeCells, InfoCells
<1>5. /\ \A x \in DirCells : disk[x] = NoEntry
      /\ disk[next_free] = last_used /\ disk[info_free_cnt] = free_cnt
      /\ disk[active(Root)] = Eoc
  BY <1>2, <1>3, CacheAssumption
  DEF VolumeCells, InfoCells, active
<1>6. Typed(disk)
  <2>1. ASSUME NEW x \in Cell PROVE disk[x] \in CellValue(x) /\ disk[x] \in Value
    <3>1. CASE x \in ActiveCells \cup MirrorCells
      BY <1>4, <3>1 DEF CellValue, FatValue
    <3>2. CASE x \in DirCells
      BY <1>5, <3>2 DEF CellValue, NoEntry, Free, FatValue
    <3>3. CASE x \in InfoCells
      BY <1>1, <1>3, <1>5, <3>3 DEF InfoCells, Value
    <3> QED BY <3>1, <3>2, <3>3, CacheAssumption DEF VolumeCells
  <2> QED BY <1>3, <2>1 DEF Typed
<1>7. View = disk /\ Coherent /\ CellsOf(sect) = {}
  BY <1>3, SectorFacts DEF Init, View, Coherent, CellsOf
<1>8. TypeOK
  <2>1. buf \in [CellsOf(sect) -> Value]
    BY <1>7 DEF Init
  <2>2. Typed(disk) /\ Typed(View)
    BY <1>6, <1>7
  <2>3. /\ sect = boot_sector /\ dirty = FALSE /\ info_dirty = FALSE
        /\ last_used \in Clusters /\ free_cnt \in 0 .. (Wrap - 1)
        /\ pc = "idle" /\ ret = "return" /\ op = "none" /\ name \in Names
        /\ clust = 0 /\ prev = 0 /\ next = 0 /\ open = FALSE /\ fclust = 0
        /\ cut = FALSE /\ crashes \in 0 .. MaxCrashes
    BY <1>1, <1>3 DEF Init
  <2>4. promised \in [Names -> {"absent", "present", "any"}]
    BY DEF Init
  <2> QED BY <2>1, <2>2, <2>3, <2>4 DEF TypeOK
<1>9. CallInv
  BY DEF Init, CallInv, LinkPcs, EocPcs, RemovePcs, SyncPcs
<1>10. ASSUME NEW x \in RefCells PROVE disk[x] \notin Clusters
  BY <1>4, <1>5 DEF RefCells
<1>11. RootInv
  <2>1. RootSafe(disk) /\ RootSafe(View)
    BY <1>5, <1>7, <1>10 DEF RootSafe
  <2>2. pc = "idle"
    BY DEF Init
  <2> QED BY <2>1, <2>2
      DEF RootInv, Allocated, Found, LinkPcs, EocPcs, RemovePcs, SyncPcs
<1>12. CacheInv
  BY <1>5, <1>7 DEF Init, CacheInv, LinkPcs, EocPcs, RemovePcs
<1>13. ChainInv
  <2>1. NoCrossLink(disk) /\ NoDangling(disk)
    BY <1>10 DEF NoCrossLink, NoDangling
  <2> QED BY <1>7, <2>1
      DEF Init, ChainInv, Unlinked, Ended, Allocated, Found, LinkPcs, EocPcs, RemovePcs, SyncPcs
<1> QED BY <1>8, <1>9, <1>11, <1>12, <1>13 DEF Inv

(* The invariant is about the variables alone. *)
LEMMA StutterInv == Inv /\ UNCHANGED vars => Inv'
BY DEF Inv, vars, TypeOK, CallInv, RootInv, CacheInv, ChainInv, Coherent, View, CellsOf,
   Typed, RootSafe, NoCrossLink, NoDangling, LiveRefs, Allocated, Unlinked, Ended, Found

(* Every step keeps the invariant. *)
LEMMA StepInv == Inv /\ [Next]_vars => Inv'
<1>1. Inv /\ Next => Inv'
  BY LocalsStep, CallStep, RootStep, CacheStep, ChainStep DEF Inv
<1> QED BY <1>1, StutterInv

(* The invariant holds of the driver and the disk at every moment, between the
   stores of a call and after any power cut. *)
THEOREM Invariance == Spec => []Inv
BY InitInv, StepInv, PTL DEF Spec

(* The variables keep their types: in particular every hint, count and chain
   entry the driver reads from the disk is one it can use. *)
THEOREM TypeCorrect == Spec => []TypeOK
BY Invariance, PTL DEF Inv

(* No two files share a cluster and no chain runs into a free one, in the view
   and on the disk, unless power was cut in the middle of fat_unlink. *)
THEOREM ChainsStayIntact == Spec => []ChainsIntact
<1>1. Inv => ChainsIntact
  BY DEF Inv, ChainInv, ChainsIntact
<1> QED BY Invariance, <1>1, PTL

(* When fat_file_close, fat_unlink or fat_sync returns, the disk holds what the
   driver sees, and FsInfo holds the counters unless they are flagged. *)
THEOREM CallsLeaveDiskSynced == Spec => []SyncedOnReturn
<1>1. Inv => SyncedOnReturn
  BY DEF Inv, CacheInv, SyncedOnReturn
<1> QED BY Invariance, <1>1, PTL

-----------------------------------------------------------------------------
(* The inductive invariant for Durable. A promised entry is on the disk and in
   the view, since either may be the next disk; a call that is about to change
   an entry has withdrawn the promise. *)

Promised(p, d) ==
  \A n \in Names :
    /\ p[n] = "present" => d[dirent(n)] # NoEntry
    /\ p[n] = "absent" => d[dirent(n)] = NoEntry

EntryCleared ==
  op = "unlink" /\ ret = "return" /\ pc \in SyncPcs \cup {"return"} =>
    View[dirent(name)] = NoEntry

EntryInv ==
  /\ Promised(promised, disk) /\ Promised(promised, View)
  /\ op \in {"create", "unlink"} => ~open /\ promised[name] = "any"
  /\ op = "close" => open
  /\ open => View[dirent(name)] # NoEntry
  /\ EntryCleared

(* The inductive invariant for MirrorLagBounded. Between the two writes of
   put_fat the mirror is ahead by the entry of one cluster. *)

Lagging(d) == {c \in Clusters : d[mirror(c)] # d[active(c)]}

ahead == IF pc \in {"eocActive", "removeActive"} THEN clust
         ELSE IF pc = "linkActive" THEN prev ELSE 0

LagInv ==
  Mirroring =>
    /\ pc = "eocActive" => View[mirror(clust)] = Eoc
    /\ pc = "linkActive" => View[mirror(prev)] = clust
    /\ pc = "removeActive" => View[mirror(clust)] = Free
    /\ Cardinality(Lagging(View) \ {ahead}) <= crashes
    /\ Cardinality(Lagging(disk)) <= crashes + 1

-----------------------------------------------------------------------------
(* What a step does to each kind of cell. *)

(* The cells outside the FsInfo sector. *)
Tables == Cell \ InfoCells

(* FAT entries and directory entries are such cells, and no two are the same. *)
LEMMA TableFacts ==
  /\ \A c \in Clusters : active(c) \in Tables /\ mirror(c) \in Tables
  /\ \A n \in Names : dirent(n) \in Tables
  /\ \A c, e \in Clusters : mirror(c) = mirror(e) => c = e
  /\ \A c, e \in Clusters : mirror(c) # active(e)
  /\ \A c \in Clusters, n \in Names : mirror(c) # dirent(n) /\ active(c) # dirent(n)
BY CellFacts, KindFacts DEF Tables, mirror, active, dirent

(* A write changes the cell it names and no other. *)
LEMMA WriteCells ==
  ASSUME TypeOK, NEW STATE x, x \in Cell, NEW STATE v, Writes(x, v)
  PROVE  \A y \in Cell : View'[y] = IF y = x THEN v ELSE View[y]
BY DEF Writes, TypeOK, Typed

(* The disk after a step is what it was, or what the driver saw before the
   step, but for the counters. *)
LEMMA DiskAfter ==
  ASSUME TypeOK, CallInv, RootInv, CacheInv, Next
  PROVE  \/ \A x \in Tables : disk'[x] = disk[x]
         \/ \A x \in Tables : disk'[x] = View[x]
<1>1. CASE Keeps
  BY <1>1 DEF Keeps
<1>2. CASE EocMirror \/ EocActive \/ RemoveMirror \/ RemoveActive
  BY <1>2, WriteEffects DEF Writes
<1>3. CASE LinkMirror \/ LinkActive \/ AddEntry \/ RemoveEntry
  BY <1>3, WriteEffects DEF Writes
<1>4. CASE SyncInfo
  BY <1>4, InfoEffect DEF InfoCells, Tables
<1>5. CASE PowerCycle
  BY <1>5, CrashEffect
<1> QED BY <1>1, <1>2, <1>3, <1>4, <1>5, ReadEffects DEF Next, Call, Step

(* The steps that write none of these cells, power cuts aside. *)
Quiet ==
  \/ SyncBuf \/ SyncInfo \/ Probe \/ Scan \/ ScanFull \/ Advance \/ Return
  \/ RemoveGet \/ RemoveBroken \/ Call

(* They leave the tables and the directory, as the driver sees them, alone. *)
LEMMA QuietKeeps ==
  ASSUME TypeOK, CallInv, RootInv, CacheInv, Quiet
  PROVE  \A x \in Tables : View'[x] = View[x]
<1>1. CASE Keeps
  BY <1>1 DEF Keeps
<1>2. CASE SyncInfo
  BY <1>2, InfoEffect DEF InfoCells, Tables
<1> QED BY <1>1, <1>2, ReadEffects DEF Quiet, Call

(* The clusters that the writing steps write the entries of. *)
LEMMA WrittenClusters ==
  ASSUME TypeOK, CallInv, RootInv
  PROVE  /\ EocMirror \/ EocActive \/ RemoveMirror \/ RemoveActive \/ AddEntry => clust \in Clusters
         /\ LinkMirror \/ LinkActive => prev \in Clusters
         /\ name \in Names
BY DEF EocMirror, EocActive, RemoveMirror, RemoveActive, AddEntry, LinkMirror, LinkActive,
   RootInv, RemovePcs, Allocated, EocPcs, LinkPcs, CallInv, TypeOK

(* The steps that leave the directory alone. *)
Elsewhere ==
  \/ Quiet \/ EocMirror \/ EocActive \/ LinkMirror \/ LinkActive
  \/ RemoveMirror \/ RemoveActive

(* The entries that the driver sees are what they were, except after dir_add,
   remove_entries and a power cut. *)
LEMMA EntriesAfter ==
  ASSUME TypeOK, CallInv, RootInv, CacheInv, Next, NEW n \in Names
  PROVE  /\ AddEntry => View'[dirent(n)] = IF n = name THEN clust ELSE View[dirent(n)]
         /\ RemoveEntry => View'[dirent(n)] = IF n = name THEN NoEntry ELSE View[dirent(n)]
         /\ PowerCycle => View'[dirent(n)] = disk[dirent(n)]
         /\ Elsewhere => View'[dirent(n)] = View[dirent(n)]
<1> USE CellFacts
<1>1. /\ AddEntry => View'[dirent(n)] = IF n = name THEN clust ELSE View[dirent(n)]
      /\ RemoveEntry => View'[dirent(n)] = IF n = name THEN NoEntry ELSE View[dirent(n)]
  BY WriteEffects, WriteCells, WrittenClusters
<1>2. PowerCycle => View'[dirent(n)] = disk[dirent(n)]
  BY CrashEffect
<1>3. Quiet => View'[dirent(n)] = View[dirent(n)]
  BY QuietKeeps, TableFacts
<1>4. ASSUME EocMirror \/ EocActive \/ RemoveMirror \/ RemoveActive
      PROVE  View'[dirent(n)] = View[dirent(n)]
  BY <1>4, WriteEffects, WriteCells, WrittenClusters, TableFacts
<1>5. ASSUME LinkMirror \/ LinkActive
      PROVE  View'[dirent(n)] = View[dirent(n)]
  BY <1>5, WriteEffects, WriteCells, WrittenClusters, TableFacts
<1> QED BY <1>1, <1>2, <1>3, <1>4, <1>5 DEF Elsewhere

-----------------------------------------------------------------------------
(* Durable. *)

(* A fresh volume has promised that there are no files, and has none. *)
LEMMA InitEntries == Init => EntryInv
<1> SUFFICES ASSUME Init PROVE EntryInv
  OBVIOUS
<1>1. View = disk
  BY SectorFacts DEF Init, View
<1>2. \A n \in Names : disk[dirent(n)] = NoEntry
  BY CellFacts, KindFacts DEF Init
<1> QED BY <1>1, <1>2 DEF Init, EntryInv, EntryCleared, Promised, SyncPcs

(* No write disturbs a promised entry of the disk, and only dir_add and
   remove_entries change the entries that the driver sees. *)
LEMMA PromisesKept ==
  ASSUME TypeOK, CallInv, RootInv, CacheInv, EntryInv, Next
  PROVE  /\ Promised(promised, disk')
         /\ Elsewhere \/ PowerCycle => Promised(promised, View')
<1>1. Promised(promised, disk) /\ Promised(promised, View)
  BY DEF EntryInv
<1>2. Promised(promised, disk')
  BY <1>1, DiskAfter, TableFacts DEF Promised
<1>3. ASSUME Elsewhere \/ PowerCycle PROVE Promised(promised, View')
  BY <1>1, <1>3, EntriesAfter DEF Promised
<1> QED BY <1>2, <1>3

(* A step that neither makes a promise nor withdraws one. *)
EntryFrame ==
  \/ SyncBuf \/ SyncInfo \/ Probe \/ Scan \/ ScanFull \/ Advance
  \/ EocMirror \/ EocActive \/ LinkMirror \/ LinkActive
  \/ RemoveGet \/ RemoveBroken \/ RemoveMirror \/ RemoveActive
  \/ Follow \/ Stretch \/ FollowBroken \/ FatSync
  \/ \E used \in BOOLEAN : FileClose(used)

(* What such a step does to the variables that EntryInv is about. *)
LEMMA FrameFacts ==
  ASSUME TypeOK, CallInv, EntryFrame
  PROVE  /\ promised' = promised /\ name' = name /\ open' = open
         /\ op' \in {op, "none", "stretch", "close", "sync"}
         /\ op' = "close" => op = "close" \/ open
         /\ op' = "unlink" /\ ret' = "return" /\ pc' \in SyncPcs \cup {"return"} =>
              op = "unlink" /\ ret = "return" /\ pc \in SyncPcs
BY DEF EntryFrame, SyncBuf, SyncInfo, Probe, Scan, ScanFull, Advance, EocMirror,
   EocActive, LinkMirror, LinkActive, RemoveGet, RemoveBroken, RemoveMirror,
   RemoveActive, Follow, Stretch, FollowBroken, FatSync, FileClose, sync_fs, fail,
   put_eoc, put_link, allocated, historyVars, fileVars, CallInv, SyncPcs, RemovePcs,
   EocPcs, LinkPcs, TypeOK

(* Every step keeps the promises: fat_file_close and fat_unlink promise what
   their sync_fs has just written, and whoever changes an entry has withdrawn
   the promise before. *)
LEMMA EntryStep ==
  ASSUME TypeOK, CallInv, RootInv, CacheInv, EntryInv, Next
  PROVE  EntryInv'
<1> USE DEF EntryInv
<1>0. Promised(promised, disk') /\ (Elsewhere \/ PowerCycle => Promised(promised, View'))
  BY PromisesKept
<1>1. name \in Names /\ promised \in [Names -> {"absent", "present", "any"}]
  BY DEF TypeOK
<1>2. CASE EntryFrame
  <2>1. Promised(promised, disk') /\ Promised(promised, View')
        /\ View'[dirent(name)] = View[dirent(name)]
    BY <1>0, <1>1, <1>2, EntriesAfter DEF EntryFrame, Elsewhere, Quiet, Call
  <2> QED BY <1>2, <2>1, FrameFacts DEF EntryCleared
<1>3. ASSUME NEW n \in Names, FileCreate(n) \/ Unlink(n) PROVE EntryInv'
  <2>1. Promised(promised, disk') /\ Promised(promised, View')
    BY <1>0, <1>3 DEF Elsewhere, Quiet, Call
  <2>2. /\ promised' = [promised EXCEPT ![n] = "any"] /\ name' = n
        /\ ~open /\ open' = open /\ op' \in {"create", "unlink"}
        /\ pc' \notin SyncPcs \cup {"return"}
    BY <1>3 DEF FileCreate, Unlink, fileVars, SyncPcs
  <2>3. Promised(promised', disk') /\ Promised(promised', View')
    BY <1>1, <2>1, <2>2 DEF Promised
  <2> QED BY <1>1, <2>2, <2>3 DEF EntryCleared
<1>4. ASSUME NEW n \in Names, FileOpen(n) PROVE EntryInv'
  <2>1. Promised(promised, disk') /\ Promised(promised, View')
        /\ View'[dirent(n)] = View[dirent(n)]
    BY <1>0, <1>4, EntriesAfter DEF Elsewhere, Quiet, Call
  <2>2. /\ promised' = promised /\ name' = n /\ op' = "none"
        /\ View[dirent(n)] # NoEntry
    BY <1>4 DEF FileOpen, historyVars, CallInv, entry
  <2> QED BY <2>1, <2>2 DEF EntryCleared
<1>5. CASE AddEntry
  <2>1. /\ promised' = promised /\ name' = name /\ op' = "none"
        /\ promised[name] = "any" /\ clust \in Clusters
    BY <1>5, WrittenClusters DEF AddEntry, historyVars, CallInv
  <2>2. /\ View'[dirent(name)] = clust
        /\ \A n \in Names \ {name} : View'[dirent(n)] = View[dirent(n)]
    BY <1>1, <1>5, EntriesAfter
  <2>3. clust # NoEntry
    BY <2>1 DEF Clusters, NoEntry
  <2> QED BY <1>0, <1>1, <1>5, <2>1, <2>2, <2>3 DEF EntryCleared, Promised
<1>6. CASE RemoveEntry
  <2>1. /\ promised' = promised /\ name' = name /\ op' = op /\ op = "unlink"
        /\ promised[name] = "any" /\ ~open /\ ~open'
    BY <1>6 DEF RemoveEntry, historyVars, fileVars, CallInv
  <2>2. /\ View'[dirent(name)] = NoEntry
        /\ \A n \in Names \ {name} : View'[dirent(n)] = View[dirent(n)]
    BY <1>1, <1>6, EntriesAfter
  <2> QED BY <1>0, <1>1, <1>6, <2>1, <2>2 DEF EntryCleared, Promised
<1>7. CASE Return
  <2>1. Promised(promised, disk') /\ Promised(promised, View')
        /\ View'[dirent(name)] = View[dirent(name)]
    BY <1>0, <1>1, <1>7, EntriesAfter DEF Elsewhere, Quiet
  <2>2. disk'[dirent(name)] = View[dirent(name)]
    BY <1>7 DEF Return, CacheInv, cacheVars
  <2>3. /\ op = "close" => View[dirent(name)] # NoEntry
        /\ op = "unlink" => View[dirent(name)] = NoEntry
    BY <1>7 DEF Return, CallInv, EntryCleared
  <2>4. /\ op = "close" => promised' = [promised EXCEPT ![name] = "present"]
        /\ op = "unlink" => promised' = [promised EXCEPT ![name] = "absent"]
        /\ op \notin {"close", "unlink"} => promised' = promised
    BY <1>7 DEF Return
  <2>5. Promised(promised', disk') /\ Promised(promised', View')
    BY <1>1, <2>1, <2>2, <2>3, <2>4 DEF Promised
  <2>6. op' = "none" /\ name' = name /\ (open' => open)
    BY <1>7 DEF Return
  <2> QED BY <2>1, <2>5, <2>6 DEF EntryCleared
<1>8. CASE PowerCycle
  <2>1. Promised(promised, disk') /\ Promised(promised, View')
    BY <1>0, <1>8
  <2> QED BY <1>8, <2>1 DEF PowerCycle, EntryCleared
<1> QED BY <1>2, <1>3, <1>4, <1>5, <1>6, <1>7, <1>8 DEF Next, Call, Step, EntryFrame

(* The promises are about the variables alone. *)
LEMMA EntryStutter == EntryInv /\ UNCHANGED vars => EntryInv'
BY DEF EntryInv, EntryCleared, Promised, vars, View

(* A file that fat_file_close has closed has its entry on the disk, and one that
   fat_unlink has removed has none, whatever is called and wherever power is cut
   afterwards. *)
THEOREM ClosedFilesStay == Spec => []Durable
<1>1. EntryInv => Durable
  BY DEF EntryInv, Promised, Durable
<1>2. Inv /\ EntryInv /\ [Next]_vars => EntryInv'
  BY EntryStep, EntryStutter DEF Inv
<1> QED BY Invariance, InitEntries, <1>1, <1>2, PTL DEF Spec

-----------------------------------------------------------------------------
(* MirrorLagBounded. *)

(* There are finitely many lagging clusters, and no cluster 0. *)
LEMMA LagFacts ==
  ASSUME NEW d
  PROVE  /\ IsFiniteSet(Lagging(d)) /\ Cardinality(Lagging(d)) \in Nat
         /\ \A k : /\ IsFiniteSet(Lagging(d) \ {k})
                   /\ Cardinality(Lagging(d) \ {k}) \in Nat
                   /\ Cardinality(Lagging(d)) <= Cardinality(Lagging(d) \ {k}) + 1
         /\ 0 \notin Lagging(d)
<1>1. IsFiniteSet(Clusters) /\ 0 \notin Clusters
  BY FS_Interval, VolumeAssumption DEF Clusters
<1>2. IsFiniteSet(Lagging(d)) /\ 0 \notin Lagging(d)
  BY <1>1, FS_Subset DEF Lagging
<1>3. Cardinality(Lagging(d)) \in Nat
  BY <1>2, FS_CardinalityType
<1>4. ASSUME NEW k
      PROVE  /\ IsFiniteSet(Lagging(d) \ {k})
             /\ Cardinality(Lagging(d) \ {k}) \in Nat
             /\ Cardinality(Lagging(d)) <= Cardinality(Lagging(d) \ {k}) + 1
  <2>1. /\ IsFiniteSet(Lagging(d) \ {k})
        /\ Cardinality(Lagging(d) \ {k}) =
             IF k \in Lagging(d) THEN Cardinality(Lagging(d)) - 1 ELSE Cardinality(Lagging(d))
    BY <1>2, FS_RemoveElement
  <2>2. Cardinality(Lagging(d) \ {k}) \in Nat
    BY <2>1, FS_CardinalityType
  <2> QED BY <1>3, <2>1, <2>2
<1> QED BY <1>2, <1>3, <1>4

(* Two disks with the same tables lag in the same clusters. *)
LEMMA SameLag ==
  ASSUME NEW d, NEW e, \A x \in Tables : d[x] = e[x]
  PROVE  Lagging(d) = Lagging(e)
BY TableFacts DEF Lagging

(* A fresh volume has two equal FATs. *)
LEMMA InitLag == Init => LagInv
<1> SUFFICES ASSUME Init PROVE LagInv
  OBVIOUS
<1>1. View = disk
  BY SectorFacts DEF Init, View
<1>2. ASSUME NEW c \in Clusters PROVE disk[mirror(c)] = disk[active(c)]
  <2>1. /\ mirror(c) \in Cell \ (DirCells \cup InfoCells) /\ mirror(c)[2] = c
        /\ active(c) \in Cell \ (DirCells \cup InfoCells) /\ active(c)[2] = c
    BY CellFacts, KindFacts DEF mirror, active
  <2> QED BY <2>1 DEF Init, InfoCells
<1>3. Lagging(disk) = {} /\ Lagging(View) \ {ahead} = {}
  BY <1>1, <1>2 DEF Lagging
<1>4. Cardinality({}) = 0
  BY FS_EmptySet
<1>5. crashes = 0 /\ pc = "idle"
  BY DEF Init
<1>6. Cardinality(Lagging(disk)) = 0 /\ Cardinality(Lagging(View) \ {ahead}) = 0
  BY <1>3, <1>4
<1> QED BY <1>5, <1>6 DEF LagInv

(* Only put_fat leaves an entry ahead, and only between its two writes. *)
HalfPcs == {"eocActive", "linkActive", "removeActive"}

(* Who leaves an entry ahead, and who finds none. *)
LEMMA HalfWay ==
  ASSUME TypeOK, CallInv, Mirroring, Next
  PROVE  /\ Quiet \/ EocMirror \/ LinkMirror \/ RemoveMirror \/ AddEntry \/ RemoveEntry =>
              pc \notin HalfPcs
         /\ pc' = "eocActive" => EocMirror
         /\ pc' = "linkActive" => LinkMirror
         /\ pc' = "removeActive" => RemoveMirror
         /\ ~PowerCycle => crashes' = crashes
BY DEF HalfPcs, Quiet, Next, Call, Step, SyncBuf, SyncInfo, Probe, Scan, ScanFull, EocMirror,
   EocActive, LinkMirror, LinkActive, AddEntry, Advance, Return, RemoveGet, RemoveBroken,
   RemoveMirror, RemoveActive, RemoveEntry, FileCreate, FileOpen, Unlink, Follow, Stretch,
   FollowBroken, FileClose, FatSync, PowerCycle, historyVars, fail, sync_fs, put_eoc,
   put_link, allocated, TypeOK

(* A write of put_fat to the mirror changes whether that cluster lags and no
   other. *)
LEMMA MirrorWrites ==
  ASSUME TypeOK, NEW STATE c, c \in Clusters, NEW STATE v, Writes(mirror(c), v)
  PROVE  Lagging(View') \ {c} = Lagging(View) \ {c} /\ View'[mirror(c)] = v
<1>1. \A y \in Cell : View'[y] = IF y = mirror(c) THEN v ELSE View[y]
  BY WriteCells, CellFacts
<1>2. \A e \in Clusters \ {c} : /\ View'[mirror(e)] = View[mirror(e)]
                                /\ View'[active(e)] = View[active(e)]
  BY <1>1, TableFacts, CellFacts
<1>3. Lagging(View') \ {c} = Lagging(View) \ {c}
  BY <1>2 DEF Lagging
<1> QED BY <1>1, <1>3, CellFacts

(* The same of the second write, to the active FAT. *)
LEMMA ActiveWrites ==
  ASSUME TypeOK, NEW STATE c, c \in Clusters, NEW STATE v, Writes(active(c), v)
  PROVE  /\ Lagging(View') \ {c} = Lagging(View) \ {c}
         /\ View'[active(c)] = v /\ View'[mirror(c)] = View[mirror(c)]
<1>1. \A y \in Cell : View'[y] = IF y = active(c) THEN v ELSE View[y]
  BY WriteCells, CellFacts
<1>2. \A e \in Clusters \ {c} : /\ View'[mirror(e)] = View[mirror(e)]
                                /\ View'[active(e)] = View[active(e)]
  BY <1>1, TableFacts, CellFacts
<1>3. Lagging(View') \ {c} = Lagging(View) \ {c}
  BY <1>2 DEF Lagging
<1> QED BY <1>1, <1>3, TableFacts, CellFacts

(* No step but a power cut makes another cluster lag, the one that put_fat is
   working on aside, and both halves of put_fat store the same. *)
LEMMA LagShrinks ==
  ASSUME TypeOK, CallInv, RootInv, CacheInv, LagInv, Mirroring, Next, ~PowerCycle
  PROVE  /\ Lagging(View') \ {ahead'} \subseteq Lagging(View) \ {ahead}
         /\ pc' = "eocActive" => View'[mirror(clust')] = Eoc
         /\ pc' = "linkActive" => View'[mirror(prev')] = clust'
         /\ pc' = "removeActive" => View'[mirror(clust')] = Free
<1> DEFINE Goal == /\ Lagging(View') \ {ahead'} \subseteq Lagging(View) \ {ahead}
                   /\ pc' = "eocActive" => View'[mirror(clust')] = Eoc
                   /\ pc' = "linkActive" => View'[mirror(prev')] = clust'
                   /\ pc' = "removeActive" => View'[mirror(clust')] = Free
<1>1. CASE Quiet \/ AddEntry \/ RemoveEntry
  <2>1. pc' \notin HalfPcs /\ ahead = 0
    BY <1>1, HalfWay
    DEF HalfPcs, ahead, Quiet, EocMirror, LinkMirror, RemoveMirror, AddEntry, RemoveEntry,
        Call, SyncBuf, SyncInfo, Probe, Scan, ScanFull, Advance, Return, RemoveGet,
        RemoveBroken, FileCreate, FileOpen, Unlink, Follow, Stretch, FollowBroken, FileClose,
        FatSync
  <2>2. Lagging(View') = Lagging(View)
    <3>1. CASE Quiet
      BY <3>1, QuietKeeps, SameLag
    <3>2. CASE AddEntry \/ RemoveEntry
      <4>1. name \in Names /\ dirent(name) \in Cell
        BY CellFacts DEF TypeOK
      <4>2. \E v : Writes(dirent(name), v)
        BY <3>2, WriteEffects
      <4>3. \A x \in Cell : x # dirent(name) => View'[x] = View[x]
        BY <4>1, <4>2 DEF Writes, TypeOK, Typed
      <4> QED BY <4>1, <4>3, TableFacts, CellFacts DEF Lagging
    <3> QED BY <1>1, <3>1, <3>2
  <2>3. 0 \notin Lagging(View)
    BY LagFacts
  <2> QED BY <2>1, <2>2, <2>3 DEF HalfPcs
<1>2. CASE EocMirror \/ RemoveMirror
  <2>1. clust \in Clusters /\ clust' = clust /\ prev' = prev
    BY <1>2, WrittenClusters DEF EocMirror, RemoveMirror, localVars
  <2>2. /\ ahead = 0 /\ ahead' = clust
        /\ EocMirror => pc' = "eocActive"
        /\ RemoveMirror => pc' = "removeActive"
    BY <1>2, <2>1 DEF EocMirror, RemoveMirror, ahead
  <2>3. /\ Lagging(View') \ {clust} = Lagging(View) \ {clust}
        /\ EocMirror => View'[mirror(clust)] = Eoc
        /\ RemoveMirror => View'[mirror(clust)] = Free
    BY <1>2, <2>1, WriteEffects, MirrorWrites
  <2>4. 0 \notin Lagging(View)
    BY LagFacts
  <2>5. EocMirror \/ pc' # "eocActive"
    BY <1>2, <2>2
  <2> QED BY <1>2, <2>1, <2>2, <2>3, <2>4
<1>3. CASE LinkMirror
  <2>1. prev \in Clusters /\ clust' = clust /\ prev' = prev
    BY <1>3, WrittenClusters DEF LinkMirror, localVars
  <2>2. ahead = 0 /\ ahead' = prev /\ pc' = "linkActive"
    BY <1>3, <2>1 DEF LinkMirror, ahead
  <2>3. /\ Lagging(View') \ {prev} = Lagging(View) \ {prev}
        /\ View'[mirror(prev)] = clust
    BY <1>3, <2>1, WriteEffects, MirrorWrites
  <2>4. 0 \notin Lagging(View)
    BY LagFacts
  <2> QED BY <2>1, <2>2, <2>3, <2>4
<1>4. CASE EocActive \/ RemoveActive
  <2>1. clust \in Clusters /\ ahead = clust
    BY <1>4, WrittenClusters DEF EocActive, RemoveActive, ahead
  <2>2. /\ Lagging(View') \ {clust} = Lagging(View) \ {clust}
        /\ View'[mirror(clust)] = View'[active(clust)]
    BY <1>4, <2>1, WriteEffects, ActiveWrites DEF LagInv, EocActive, RemoveActive
  <2>3. clust \notin Lagging(View')
    BY <2>2 DEF Lagging
  <2>4. pc' \notin HalfPcs
    BY <1>4, HalfWay DEF HalfPcs, EocActive, RemoveActive, EocMirror, LinkMirror, RemoveMirror
  <2> QED BY <2>1, <2>2, <2>3, <2>4 DEF HalfPcs
<1>5. CASE LinkActive
  <2>1. prev \in Clusters /\ ahead = prev
    BY <1>5, WrittenClusters DEF LinkActive, ahead
  <2>2. /\ Lagging(View') \ {prev} = Lagging(View) \ {prev}
        /\ View'[mirror(prev)] = View'[active(prev)]
    BY <1>5, <2>1, WriteEffects, ActiveWrites DEF LagInv, LinkActive
  <2>3. prev \notin Lagging(View')
    BY <2>2 DEF Lagging
  <2>4. pc' \notin HalfPcs
    BY <1>5, HalfWay DEF HalfPcs, LinkActive, EocMirror, LinkMirror, RemoveMirror
  <2> QED BY <2>1, <2>2, <2>3, <2>4 DEF HalfPcs
<1> QED BY <1>1, <1>2, <1>3, <1>4, <1>5 DEF Next, Step, Quiet

(* A power cut may leave one entry of the mirror ahead. *)
LEMMA LagStep ==
  ASSUME TypeOK, CallInv, RootInv, CacheInv, LagInv, Next
  PROVE  LagInv'
<1> SUFFICES ASSUME Mirroring PROVE LagInv'
  BY DEF LagInv
<1>1. crashes \in Nat
  BY VolumeAssumption DEF TypeOK
<1>2. /\ Cardinality(Lagging(View) \ {ahead}) <= crashes
      /\ Cardinality(Lagging(disk)) <= crashes + 1
  BY DEF LagInv
<1>3. /\ Cardinality(Lagging(View)) <= crashes + 1
      /\ Cardinality(Lagging(View) \ {ahead}) \in Nat
  <2>1. /\ Cardinality(Lagging(View)) \in Nat
        /\ Cardinality(Lagging(View) \ {ahead}) \in Nat
        /\ Cardinality(Lagging(View)) <= Cardinality(Lagging(View) \ {ahead}) + 1
    BY LagFacts
  <2> QED BY <1>1, <1>2, <2>1
<1>4. Lagging(disk') = Lagging(disk) \/ Lagging(disk') = Lagging(View)
  BY DiskAfter, SameLag
<1>5. CASE PowerCycle
  <2>1. crashes' = crashes + 1 /\ pc' \in {"idle", "unmounted"}
    BY <1>5 DEF PowerCycle
  <2>2. Lagging(View') = Lagging(disk) /\ Lagging(disk') = Lagging(disk)
    BY <1>5, CrashEffect
  <2>3. ahead' = 0
    BY <2>1 DEF ahead
  <2>4. Lagging(View') \ {ahead'} = Lagging(disk)
    BY <2>2, <2>3, LagFacts
  <2>5. Cardinality(Lagging(View') \ {ahead'}) <= crashes'
    BY <1>2, <2>1, <2>4
  <2>6. Cardinality(Lagging(disk')) <= crashes' + 1
    BY <1>1, <1>2, <2>1, <2>2, LagFacts
  <2> QED BY <2>1, <2>5, <2>6 DEF LagInv, Lagging
<1>6. CASE ~PowerCycle
  <2>1. /\ Lagging(View') \ {ahead'} \subseteq Lagging(View) \ {ahead}
        /\ pc' = "eocActive" => View'[mirror(clust')] = Eoc
        /\ pc' = "linkActive" => View'[mirror(prev')] = clust'
        /\ pc' = "removeActive" => View'[mirror(clust')] = Free
    BY <1>6, LagShrinks
  <2>2. crashes' = crashes
    BY <1>6, HalfWay
  <2>3. Cardinality(Lagging(View') \ {ahead'}) <= Cardinality(Lagging(View) \ {ahead})
    BY <2>1, LagFacts, FS_Subset
  <2>4. Cardinality(Lagging(View') \ {ahead'}) \in Nat
    BY LagFacts
  <2>5. Cardinality(Lagging(View') \ {ahead'}) <= crashes'
    BY <1>1, <1>2, <1>3, <2>2, <2>3, <2>4
  <2>6. Cardinality(Lagging(disk')) <= crashes' + 1
    BY <1>2, <1>3, <1>4, <2>2
  <2> QED BY <2>1, <2>5, <2>6 DEF LagInv, Lagging
<1> QED BY <1>5, <1>6

(* The lag of the mirror is about the variables alone. *)
LEMMA LagStutter == LagInv /\ UNCHANGED vars => LagInv'
BY DEF LagInv, Lagging, ahead, vars, View

(* Between calls the mirror FAT differs from the active one in at most one
   entry for each power cut, however large the volume. *)
THEOREM MirrorFollows == Spec => []MirrorLagBounded
<1>1. ASSUME LagInv PROVE MirrorLagBounded
  <2> SUFFICES ASSUME pc = "idle", Mirroring
               PROVE  Cardinality(Lagging(View)) <= crashes
    BY DEF MirrorLagBounded, Lagging
  <2>1. Lagging(View) \ {ahead} = Lagging(View)
    BY LagFacts DEF ahead
  <2> QED BY <1>1, <2>1 DEF LagInv
<1>2. Inv /\ LagInv /\ [Next]_vars => LagInv'
  BY LagStep, LagStutter DEF Inv
<1> QED BY Invariance, InitLag, <1>1, <1>2, PTL DEF Spec

-----------------------------------------------------------------------------
(* The inductive invariant for FullOnlyIfFull: the clusters that the search has
   passed, from the one after Fat.last_used round to clust, are not free. *)

passed(c) == IF clust >= last_used THEN last_used < c /\ c <= clust
             ELSE last_used < c \/ c <= clust

ScanInv == pc = "scan" => \A c \in Clusters : passed(c) => View[active(c)] # Free

-----------------------------------------------------------------------------
(* What the entries that stretch_chain and put_fat are about to overwrite hold:
   no reference is lost with them. *)

AllocPcs == {"probe", "scan"} \cup EocPcs \cup LinkPcs

OverwriteInv ==
  /\ pc \in EocPcs => View[active(clust)] = Free
  /\ pc \in AllocPcs /\ op = "stretch" => View[active(prev)] = Eoc
  /\ op = "create" => View[dirent(name)] = NoEntry

-----------------------------------------------------------------------------
(* The inductive invariant for FreeCountBounded. FsInfo is behind Fat.free_cnt
   only until the sync_fs that follows an allocation or the removal of a chain;
   the FATs on the disk are behind only within an allocation, by the cluster
   being allocated, and within fat_unlink. *)

AllocSync == pc \in SyncPcs /\ ret \in {"addEntry", "advance"}
Removing == \/ pc \in RemovePcs
            \/ pc \in SyncPcs /\ ret = "removeEntry"

surplus == free_cnt - Cardinality(FreeClusters(View)) - (IF Allocating THEN 1 ELSE 0)

(* sync_fs stores the counters after every change of them. *)
FlagInv == pc \in SyncPcs /\ ret # "return" => info_dirty

InfoInv ==
  ~Removing => disk[info_free_cnt] = free_cnt + (IF AllocSync THEN 1 ELSE 0)

DiskFreeInv ==
  op # "unlink" =>
    \/ FreeClusters(disk) = FreeClusters(View)
    \/ /\ Allocating \/ (AllocSync /\ pc = "syncBuf")
       /\ FreeClusters(disk) = FreeClusters(View) \cup {clust}

CountInv ==
  /\ FlagInv
  /\ ~cut => InfoInv /\ DiskFreeInv /\ 0 <= surplus /\ surplus <= crashes

-----------------------------------------------------------------------------
(* The inductive invariant for LeakBounded. A call that has not linked the
   cluster it allocated, or not yet freed the rest of the chain it removes,
   holds the head of it in clust; remove_entries drops an entry whose cluster
   is free. *)

held == IF Ended \/ pc \in RemovePcs THEN clust ELSE 0

HalfUnlinked ==
  Removing \/ pc = "removeEntry" =>
    LET e == View[dirent(name)] IN
    \/ pc \in RemovePcs /\ e = clust
    \/ e \in Clusters /\ View[active(e)] = Free

LeakInv ==
  ~cut =>
    /\ HalfUnlinked
    /\ Cardinality(Lost(View) \ {held}) <= crashes
    /\ op # "unlink" => Cardinality(Lost(disk)) <= crashes + 1

-----------------------------------------------------------------------------
(* FullOnlyIfFull. *)

(* No search runs on a fresh volume. *)
LEMMA InitScan == Init => ScanInv
BY DEF Init, ScanInv

(* A search begins behind Fat.last_used and passes one cluster at a time, none
   of them free. *)
LEMMA ScanStep ==
  ASSUME TypeOK, CallInv, RootInv, CacheInv, ScanInv, Next
  PROVE  ScanInv'
<1>1. CASE Scan
  <2> DEFINE c == wrapped(clust + 1)
  <2>1. /\ clust \in Clusters /\ last_used \in Clusters
        /\ c # last_used /\ clust' = c /\ last_used' = last_used
        /\ pc' = "scan" => View[active(c)] # Free
    BY <1>1 DEF Scan, CallInv, TypeOK, fatVars, put_eoc, fat
  <2>2. View' = View
    BY <1>1, ReadEffects DEF Keeps
  <2>3. \A x \in Clusters : passed(x) => View[active(x)] # Free
    BY <1>1 DEF Scan, ScanInv
  <2>4. ASSUME NEW x \in Clusters, passed(x)' PROVE passed(x) \/ x = c
    BY <2>1, <2>4, VolumeAssumption DEF passed, wrapped, Clusters
  <2> QED BY <2>1, <2>2, <2>3, <2>4 DEF ScanInv
<1>2. ASSUME pc' = "scan", ~Scan PROVE ScanInv'
  <2>1. clust' = last_used' /\ last_used' \in Clusters
    BY <1>2 DEF Next, Call, Step, SyncBuf, SyncInfo, Probe, ScanFull, EocMirror, EocActive,
       LinkMirror, LinkActive, AddEntry, Advance, Return, RemoveGet, RemoveBroken,
       RemoveMirror, RemoveActive, RemoveEntry, FileCreate, FileOpen, Unlink, Follow,
       Stretch, FollowBroken, FileClose, FatSync, PowerCycle, fail, sync_fs, put_eoc,
       put_link, allocated, fatVars, CallInv, TypeOK
  <2>2. ASSUME NEW x \in Clusters PROVE ~passed(x)'
    BY <2>1, VolumeAssumption DEF passed, Clusters
  <2> QED BY <2>2 DEF ScanInv
<1> QED BY <1>1, <1>2 DEF ScanInv

(* The search is about the variables alone. *)
LEMMA ScanStutter == ScanInv /\ UNCHANGED vars => ScanInv'
BY DEF ScanInv, passed, vars, View

(* FAT_ERR_FULL is returned only when no cluster is free but, at most, the one
   the search began at, whatever the size of the volume. *)
THEOREM FullMeansFull == Spec => FullOnlyIfFull
<1>1. ASSUME TypeOK, CallInv, ScanInv, ScanFull
      PROVE  FreeClusters(View) \subseteq {last_used}
  <2>1. /\ clust \in Clusters /\ last_used \in Clusters /\ wrapped(clust + 1) = last_used
        /\ \A x \in Clusters : passed(x) => View[active(x)] # Free
    BY <1>1 DEF ScanFull, CallInv, TypeOK, ScanInv
  <2>2. ASSUME NEW x \in Clusters, x # last_used PROVE passed(x)
    BY <2>1, <2>2, VolumeAssumption DEF passed, wrapped, Clusters
  <2> QED BY <2>1, <2>2 DEF FreeClusters
<1>2. Inv /\ ScanInv /\ [Next]_vars => ScanInv'
  BY ScanStep, ScanStutter DEF Inv
<1>3. Inv /\ ScanInv => [ScanFull => FreeClusters(View) \subseteq {last_used}]_vars
  BY <1>1 DEF Inv
<1> QED BY Invariance, InitScan, <1>2, <1>3, PTL DEF Spec, FullOnlyIfFull

-----------------------------------------------------------------------------
(* What the driver overwrites. *)

(* Nothing is about to be overwritten on a fresh volume. *)
LEMMA InitOverwrite == Init => OverwriteInv
BY DEF Init, OverwriteInv, AllocPcs, EocPcs, LinkPcs

(* create_chain and stretch_chain write a free cluster and the end of a chain,
   dir_add an entry that is not there. *)
LEMMA OverwriteStep ==
  ASSUME TypeOK, CallInv, RootInv, CacheInv, OverwriteInv, Next
  PROVE  OverwriteInv'
<1> USE DEF OverwriteInv, AllocPcs, EocPcs, LinkPcs
<1>1. Free # Eoc
  BY VolumeAssumption DEF Free, Eoc
<1>2. CASE Probe
  <2>1. View' = View /\ wrapped(prev + 1) \in Clusters
    BY <1>2, WrappedFacts, ReadEffects DEF Keeps, Probe, CallInv
  <2>2. op' = "stretch" /\ prev' = prev /\ View[active(prev)] = Eoc
    BY <1>2 DEF Probe, CallInv
  <2>3. pc' \in EocPcs => View[active(clust')] = Free
    BY <1>2 DEF Probe, fat
  <2> QED BY <2>1, <2>2, <2>3
<1>3. CASE Scan
  <2>1. View' = View
    BY <1>3, ReadEffects DEF Keeps
  <2>2. op' = op /\ prev' = prev /\ name' = name
        /\ (op = "stretch" => View[active(prev)] = Eoc)
    BY <1>3 DEF Scan
  <2>3. pc' \in EocPcs => View[active(clust')] = Free
    BY <1>3 DEF Scan, fat
  <2> QED BY <2>1, <2>2, <2>3
<1>4. CASE Stretch
  <2>1. View' = View
    BY <1>4, ReadEffects DEF Keeps
  <2> QED BY <1>4, <2>1 DEF Stretch, fat
<1>5. CASE EocMirror \/ LinkMirror
  <2>1. name \in Names /\ clust \in Clusters /\ (op = "stretch" => prev \in Clusters)
    BY <1>5 DEF EocMirror, LinkMirror, RootInv, Allocated, CallInv, TypeOK
  <2>2. \E k \in Clusters, v \in Value : Writes(mirror(k), v)
    <3>1. Eoc \in Value /\ clust \in Value
      BY <2>1, ValueFacts DEF Value, FatValue
    <3> QED BY <1>5, <2>1, <3>1, WriteEffects DEF LinkMirror, CallInv
  <2>3. /\ View'[dirent(name)] = View[dirent(name)]
        /\ \A c \in Clusters : View'[active(c)] = View[active(c)]
    BY <2>1, <2>2, WriteCells, CellFacts, TableFacts
  <2>4. /\ UNCHANGED <<op, name, clust, prev>>
        /\ pc' \in EocPcs => pc = "eocMirror"
        /\ pc = "eocMirror" \/ (pc = "linkMirror" /\ op = "stretch")
    BY <1>5 DEF EocMirror, LinkMirror, localVars, CallInv
  <2> QED BY <2>1, <2>3, <2>4
<1>6. CASE EocActive
  <2>1. name \in Names /\ clust \in Clusters /\ (op = "stretch" => prev \in Clusters)
    BY <1>6 DEF EocActive, RootInv, Allocated, CallInv, TypeOK
  <2>2. Writes(active(clust), Eoc)
    BY <1>6, WriteEffects
  <2>3. /\ View'[dirent(name)] = View[dirent(name)]
        /\ \A c \in Clusters \ {clust} : View'[active(c)] = View[active(c)]
    BY <2>1, <2>2, WriteCells, CellFacts, TableFacts
  <2>4. UNCHANGED <<op, name, clust, prev>> /\ pc' \notin EocPcs
    BY <1>6 DEF EocActive, localVars, put_link, allocated, sync_fs
  <2>5. op = "stretch" => View[active(prev)] = Eoc /\ prev # clust
    BY <1>1, <1>6 DEF EocActive
  <2> QED BY <2>1, <2>3, <2>4, <2>5
<1>7. ASSUME ~(Probe \/ Scan \/ Stretch \/ EocMirror \/ LinkMirror \/ EocActive)
      PROVE  /\ pc' \notin EocPcs
             /\ ~(pc' \in AllocPcs /\ op' = "stretch")
  BY <1>7
  DEF Next, Call, Step, SyncBuf, SyncInfo, ScanFull, LinkActive, AddEntry, Advance, Return,
      RemoveGet, RemoveBroken, RemoveMirror, RemoveActive, RemoveEntry, FileCreate, FileOpen,
      Unlink, Follow, FollowBroken, FileClose, FatSync, PowerCycle, fail, sync_fs, allocated,
      TypeOK
<1>8. ASSUME NEW n \in Names, FileCreate(n) PROVE View'[dirent(name')] = NoEntry
  <2>1. View' = View
    BY <1>8, ReadEffects DEF Keeps
  <2> QED BY <1>8, <2>1 DEF FileCreate, entry
<1>9. ASSUME op' = "create", ~(\E n \in Names : FileCreate(n))
      PROVE  Elsewhere /\ op = "create" /\ name' = name
  BY <1>9
  DEF Next, Call, Step, Elsewhere, Quiet, SyncBuf, SyncInfo, Probe, Scan, ScanFull, EocMirror,
      EocActive, LinkMirror, LinkActive, AddEntry, Advance, Return, RemoveGet, RemoveBroken,
      RemoveMirror, RemoveActive, RemoveEntry, FileOpen, Unlink, Follow, Stretch, FollowBroken,
      FileClose, FatSync, PowerCycle, fail, sync_fs, CallInv, RemovePcs
<1>10. op' = "create" => View'[dirent(name')] = NoEntry
  <2>1. name \in Names
    BY DEF TypeOK
  <2> QED BY <1>8, <1>9, <2>1, EntriesAfter
<1> QED BY <1>2, <1>3, <1>4, <1>5, <1>6, <1>7, <1>10

(* OverwriteInv is about the variables alone. *)
LEMMA OverwriteStutter == OverwriteInv /\ UNCHANGED vars => OverwriteInv'
BY DEF OverwriteInv, vars, View

-----------------------------------------------------------------------------
(* The number of free clusters. *)

(* There are finitely many, fewer than fit a 32-bit counter. *)
LEMMA FreeFacts ==
  ASSUME NEW d
  PROVE  /\ IsFiniteSet(FreeClusters(d)) /\ Cardinality(FreeClusters(d)) \in Nat
         /\ Cardinality(FreeClusters(d)) <= ClustCnt - 2
         /\ \A k : /\ k \notin FreeClusters(d) =>
                        Cardinality(FreeClusters(d) \cup {k}) = Cardinality(FreeClusters(d)) + 1
                   /\ k \in FreeClusters(d) =>
                        Cardinality(FreeClusters(d) \ {k}) = Cardinality(FreeClusters(d)) - 1
<1>1. IsFiniteSet(Clusters) /\ Cardinality(Clusters) = ClustCnt - 2
  BY FS_Interval, VolumeAssumption DEF Clusters
<1>2. IsFiniteSet(FreeClusters(d)) /\ Cardinality(FreeClusters(d)) <= ClustCnt - 2
  BY <1>1, FS_Subset DEF FreeClusters
<1>3. Cardinality(FreeClusters(d)) \in Nat
  BY <1>2, FS_CardinalityType
<1> QED BY <1>2, <1>3, FS_AddElement, FS_RemoveElement

(* Two disks with the same tables have the same free clusters. *)
LEMMA SameFree ==
  ASSUME NEW d, NEW e, \A x \in Tables : d[x] = e[x]
  PROVE  FreeClusters(d) = FreeClusters(e)
BY TableFacts DEF FreeClusters

(* The free clusters of the disk are those it had or those the driver saw. *)
LEMMA FreeOnDisk ==
  ASSUME TypeOK, CallInv, RootInv, CacheInv, Next
  PROVE  FreeClusters(disk') \in {FreeClusters(disk), FreeClusters(View)}
BY DiskAfter, SameFree

(* The steps that neither allocate nor free. *)
Unfree == \/ Quiet \/ EocMirror \/ LinkMirror \/ LinkActive
          \/ RemoveMirror \/ AddEntry \/ RemoveEntry

(* What a step does to the free clusters that the driver sees. *)
LEMMA FreeAfter ==
  ASSUME TypeOK, CallInv, RootInv, CacheInv, OverwriteInv, Next
  PROVE  /\ Unfree => FreeClusters(View') = FreeClusters(View)
         /\ EocActive => /\ clust \in FreeClusters(View)
                         /\ FreeClusters(View') = FreeClusters(View) \ {clust}
         /\ RemoveActive => FreeClusters(View') = FreeClusters(View) \cup {clust}
         /\ PowerCycle => FreeClusters(View') = FreeClusters(disk)
<1>1. Free # Eoc /\ Free \notin Clusters
  BY VolumeAssumption DEF Free, Eoc, Clusters
<1>2. ASSUME Quiet
      PROVE  FreeClusters(View') = FreeClusters(View)
  BY <1>2, QuietKeeps, SameFree
<1>3. ASSUME NEW k \in Clusters, NEW v, Writes(mirror(k), v)
      PROVE  FreeClusters(View') = FreeClusters(View)
  <2>1. \A c \in Clusters : View'[active(c)] = View[active(c)]
    BY <1>3, CellFacts, TableFacts DEF Writes, TypeOK, Typed
  <2> QED BY <2>1 DEF FreeClusters
<1>4. ASSUME EocMirror \/ LinkMirror \/ RemoveMirror
      PROVE  FreeClusters(View') = FreeClusters(View)
  BY <1>3, <1>4, WriteEffects, WrittenClusters
<1>5. ASSUME AddEntry \/ RemoveEntry
      PROVE  FreeClusters(View') = FreeClusters(View)
  <2>1. name \in Names /\ \E v : Writes(dirent(name), v)
    BY <1>5, WriteEffects DEF TypeOK
  <2>2. \A c \in Clusters : View'[active(c)] = View[active(c)]
    BY <2>1, CellFacts, TableFacts DEF Writes, TypeOK, Typed
  <2> QED BY <2>2 DEF FreeClusters
<1>6. ASSUME LinkActive
      PROVE  FreeClusters(View') = FreeClusters(View)
  <2>1. prev \in Clusters /\ Writes(active(prev), clust)
    BY <1>6, WriteEffects, WrittenClusters
  <2>2. clust \in Clusters /\ View[active(prev)] = Eoc
    BY <1>6 DEF LinkActive, RootInv, Allocated, LinkPcs, OverwriteInv, AllocPcs, CallInv
  <2>3. \A c \in Clusters : View'[active(c)] = IF c = prev THEN clust ELSE View[active(c)]
    BY <2>1, CellFacts DEF Writes, TypeOK, Typed
  <2> QED BY <1>1, <2>1, <2>2, <2>3 DEF FreeClusters
<1>7. ASSUME EocActive
      PROVE  /\ clust \in FreeClusters(View)
             /\ FreeClusters(View') = FreeClusters(View) \ {clust}
  <2>1. clust \in Clusters /\ Writes(active(clust), Eoc)
    BY <1>7, WriteEffects, WrittenClusters
  <2>2. View[active(clust)] = Free
    BY <1>7 DEF EocActive, EocPcs, OverwriteInv
  <2>3. \A c \in Clusters : View'[active(c)] = IF c = clust THEN Eoc ELSE View[active(c)]
    BY <2>1, CellFacts DEF Writes, TypeOK, Typed
  <2> QED BY <1>1, <1>7, <2>1, <2>2, <2>3 DEF FreeClusters
<1>8. ASSUME RemoveActive
      PROVE  FreeClusters(View') = FreeClusters(View) \cup {clust}
  <2>1. clust \in Clusters /\ Writes(active(clust), Free)
    BY <1>8, WriteEffects, WrittenClusters
  <2>2. \A c \in Clusters : View'[active(c)] = IF c = clust THEN Free ELSE View[active(c)]
    BY <2>1, CellFacts DEF Writes, TypeOK, Typed
  <2> QED BY <1>8, <2>1, <2>2 DEF FreeClusters
<1>9. ASSUME PowerCycle
      PROVE  FreeClusters(View') = FreeClusters(disk)
  BY <1>9, CrashEffect
<1> QED BY <1>2, <1>4, <1>5, <1>6, <1>7, <1>8, <1>9 DEF Unfree, Elsewhere

-----------------------------------------------------------------------------
(* FreeCountBounded. *)

(* A fresh volume has the right count. *)
LEMMA InitCount == Init => CountInv
<1> SUFFICES ASSUME Init PROVE CountInv
  OBVIOUS
<1> DEFINE n == Cardinality({c \in Clusters : Formatted(c) = Free})
<1>1. View = disk
  BY SectorFacts DEF Init, View
<1>2. pc = "idle" /\ crashes = 0 /\ free_cnt = n /\ disk[info_free_cnt] = n
  BY CellFacts, KindFacts DEF Init, InfoCells
<1>3. \A c \in Clusters : disk[active(c)] = Formatted(c)
  <2>1. \A c \in Clusters : active(c) \in Cell \ (DirCells \cup InfoCells) /\ active(c)[2] = c
    BY CellFacts, KindFacts DEF active
  <2> QED BY <2>1 DEF Init, InfoCells
<1>4. FreeClusters(View) = {c \in Clusters : Formatted(c) = Free}
  BY <1>1, <1>3 DEF FreeClusters
<1>5. n \in Nat
  BY <1>4, FreeFacts
<1> QED BY <1>1, <1>2, <1>4, <1>5
    DEF CountInv, FlagInv, InfoInv, DiskFreeInv, surplus, Allocating, AllocSync, SyncPcs

(* A chain that is intact does not break under remove_chain. *)
LEMMA NeverBroken ==
  ASSUME ChainInv, ~cut
  PROVE  ~RemoveBroken
BY DEF ChainInv, RemoveBroken, RemovePcs, fat

(* But for SyncInfo the disk takes nothing that the driver did not see before. *)
LEMMA DiskOrView ==
  ASSUME TypeOK, CallInv, RootInv, CacheInv, Next, ~SyncInfo
  PROVE  (disk' = disk \/ disk' = View) /\ disk'[info_free_cnt] = disk[info_free_cnt]
<1>1. disk' = disk \/ disk' = View
  BY ReadEffects, WriteEffects, CrashEffect DEF Keeps, Writes, Next, Call, Step
<1>2. View[info_free_cnt] = disk[info_free_cnt]
  BY DEF CacheInv, InfoCells
<1> QED BY <1>1, <1>2

(* Whoever changes the counters goes on to sync_fs with the flag set. *)
LEMMA FlagStep ==
  ASSUME TypeOK, CallInv, CacheInv, FlagInv, Next
  PROVE  FlagInv'
BY DEF FlagInv, Next, Call, Step, SyncBuf, SyncInfo, Probe, Scan, ScanFull, EocMirror,
   EocActive, LinkMirror, LinkActive, AddEntry, Advance, Return, RemoveGet, RemoveBroken,
   RemoveMirror, RemoveActive, RemoveEntry, FileCreate, FileOpen, Unlink, Follow, Stretch,
   FollowBroken, FileClose, FatSync, PowerCycle, fail, sync_fs, put_eoc, put_link, allocated,
   fatVars, CacheInv, CallInv, TypeOK, SyncPcs, RemovePcs, EocPcs, LinkPcs

(* (n - 1) and (n + 1) do not wrap where the driver computes them. *)
LEMMA CountArithmetic ==
  ASSUME TypeOK, OverwriteInv, CountInv, ~cut
  PROVE  /\ free_cnt \in Nat /\ crashes \in Nat
         /\ free_cnt >= 1 => (free_cnt - 1) % Wrap = free_cnt - 1
         /\ free_cnt < Wrap - 1 => (free_cnt + 1) % Wrap = free_cnt + 1
         /\ Cardinality(FreeClusters(View)) <= free_cnt
         /\ Allocating => Cardinality(FreeClusters(View)) + 1 <= free_cnt
         /\ free_cnt <= Cardinality(FreeClusters(View)) + crashes + 1
<1>1. /\ Cardinality(FreeClusters(View)) \in Nat /\ free_cnt \in 0 .. (Wrap - 1)
      /\ crashes \in Nat
  BY FreeFacts, VolumeAssumption DEF TypeOK
<1>2. 0 <= surplus /\ surplus <= crashes
  BY DEF CountInv
<1>3. Wrap \in Nat /\ Wrap > 0 /\ \A k \in 0 .. (Wrap - 1) : k % Wrap = k
  BY VolumeAssumption
<1>4. free_cnt >= 1 => (free_cnt - 1) % Wrap = free_cnt - 1
  <2>1. free_cnt >= 1 => free_cnt - 1 \in 0 .. (Wrap - 1)
    BY <1>1, <1>3
  <2> QED BY <1>3, <2>1
<1>5. free_cnt < Wrap - 1 => (free_cnt + 1) % Wrap = free_cnt + 1
  <2>1. free_cnt < Wrap - 1 => free_cnt + 1 \in 0 .. (Wrap - 1)
    BY <1>1, <1>3
  <2> QED BY <1>3, <2>1
<1> DEFINE n == Cardinality(FreeClusters(View))
<1>6. /\ n <= free_cnt /\ (Allocating => n + 1 <= free_cnt)
      /\ free_cnt <= n + crashes + 1
  <2>1. surplus = free_cnt - n - (IF Allocating THEN 1 ELSE 0)
    BY DEF surplus
  <2> HIDE DEF n
  <2> QED BY <1>1, <1>2, <2>1 DEF n
<1> QED BY <1>1, <1>4, <1>5, <1>6

(* The FsInfo sector follows Fat.free_cnt. *)
LEMMA FsInfoStep ==
  ASSUME TypeOK, CallInv, RootInv, CacheInv, ChainInv, OverwriteInv, CountInv, Next,
         ~cut, ~cut'
  PROVE  InfoInv'
<1> USE DEF Removing, AllocSync, SyncPcs, RemovePcs, EocPcs, LinkPcs
<1>1. InfoInv /\ FlagInv
  BY DEF CountInv
<1>2. CASE SyncInfo
  <2>1. disk'[info_free_cnt] = free_cnt
    BY <1>2, InfoEffect, CellFacts, KindFacts
  <2> QED BY <1>2, <2>1 DEF SyncInfo, TypeOK, InfoInv
<1>3. CASE EocActive
  <2>1. op = "create" \/ op = "stretch"
    BY <1>3 DEF EocActive, CallInv
  <2>2. free_cnt >= 1
    <3>1. /\ clust \in FreeClusters(View)
          /\ Cardinality(FreeClusters(View) \ {clust}) = Cardinality(FreeClusters(View)) - 1
      BY <1>3, FreeAfter, FreeFacts
    <3>2. Cardinality(FreeClusters(View) \ {clust}) \in Nat
      BY FreeFacts, FS_RemoveElement, FS_CardinalityType
    <3>3. Cardinality(FreeClusters(View)) \in Nat
      BY FreeFacts
    <3> QED BY <3>1, <3>2, <3>3, CountArithmetic
  <2>3. (free_cnt - 1) % Wrap = free_cnt - 1 /\ free_cnt \in Nat
    BY <2>2, CountArithmetic
  <2>4. disk'[info_free_cnt] = disk[info_free_cnt] /\ disk[info_free_cnt] = free_cnt
    <3>1. ~SyncInfo /\ ~Removing /\ ~AllocSync
      BY <1>3 DEF EocActive, SyncInfo
    <3>2. free_cnt \in Int
      BY DEF TypeOK
    <3>3. disk'[info_free_cnt] = disk[info_free_cnt]
      BY <3>1, DiskOrView
    <3> QED BY <1>1, <3>1, <3>2, <3>3 DEF InfoInv
  <2>5. \/ free_cnt' = free_cnt /\ ~AllocSync'
        \/ free_cnt' = (free_cnt - 1) % Wrap /\ AllocSync'
    BY <1>3, <2>1 DEF EocActive, allocated, sync_fs, put_link, fatVars
  <2> QED BY <2>3, <2>4, <2>5 DEF InfoInv
<1>4. CASE LinkActive
  <2>1. free_cnt >= 1
    <3>1. Cardinality(FreeClusters(View)) \in Nat
      BY FreeFacts
    <3> QED BY <1>4, <3>1, CountArithmetic DEF LinkActive, Allocating
  <2>2. (free_cnt - 1) % Wrap = free_cnt - 1 /\ free_cnt \in Nat
    BY <2>1, CountArithmetic
  <2>3. disk'[info_free_cnt] = disk[info_free_cnt] /\ disk[info_free_cnt] = free_cnt
    <3>1. ~SyncInfo /\ ~Removing /\ ~AllocSync
      BY <1>4 DEF LinkActive, SyncInfo
    <3>2. free_cnt \in Int
      BY DEF TypeOK
    <3>3. disk'[info_free_cnt] = disk[info_free_cnt]
      BY <3>1, DiskOrView
    <3> QED BY <1>1, <3>1, <3>2, <3>3 DEF InfoInv
  <2>4. free_cnt' = (free_cnt - 1) % Wrap /\ AllocSync'
    BY <1>4 DEF LinkActive, allocated, sync_fs, CallInv
  <2> QED BY <2>2, <2>3, <2>4 DEF InfoInv
<1>5. CASE RemoveActive
  BY <1>5 DEF RemoveActive, sync_fs, InfoInv
<1>6. CASE PowerCycle
  <2>1. disk'[info_free_cnt] = disk[info_free_cnt]
    BY <1>6, CrashEffect
  <2>2. free_cnt' = disk[info_free_cnt] /\ ~AllocSync' /\ free_cnt' \in Int
    BY <1>6, ReadFacts DEF PowerCycle
  <2> QED BY <2>1, <2>2 DEF InfoInv
<1>7. ASSUME ~SyncInfo, ~EocActive, ~LinkActive, ~RemoveActive, ~PowerCycle
      PROVE  InfoInv'
  <2>1. ~RemoveBroken
    BY NeverBroken
  <2>2. /\ free_cnt' = free_cnt
        /\ ~Removing' => ~Removing /\ (AllocSync' <=> AllocSync)
    BY <1>1, <1>7, <2>1
    DEF Next, Call, Step, SyncBuf, Probe, Scan, ScanFull, EocMirror, LinkMirror, AddEntry,
        Advance, Return, RemoveGet, RemoveMirror, RemoveEntry, FileCreate, FileOpen, Unlink,
        Follow, Stretch, FollowBroken, FileClose, FatSync, fail, sync_fs, put_eoc, put_link,
        fatVars, CallInv, TypeOK, FlagInv
  <2>3. disk'[info_free_cnt] = disk[info_free_cnt]
    BY <1>7, DiskOrView
  <2> QED BY <1>1, <2>2, <2>3 DEF InfoInv
<1> QED BY <1>2, <1>3, <1>4, <1>5, <1>6, <1>7

(* The active FAT on the disk follows the view, outside fat_unlink. *)
LEMMA DiskFreeStep ==
  ASSUME TypeOK, CallInv, RootInv, CacheInv, ChainInv, OverwriteInv, CountInv, Next,
         ~cut, ~cut'
  PROVE  DiskFreeInv'
<1> USE DEF DiskFreeInv, AllocSync, Allocating, SyncPcs, RemovePcs, EocPcs, LinkPcs
<1>1. DiskFreeInv
  BY DEF CountInv
<1>2. FreeClusters(disk') \in {FreeClusters(disk), FreeClusters(View)}
  BY FreeOnDisk
<1>3. CASE SyncBuf
  BY <1>3, ReadEffects DEF Keeps
<1>4. CASE Return
  <2>1. disk' = View /\ View' = View
    BY <1>4, ReadEffects DEF Return, CacheInv, Keeps
  <2> QED BY <2>1
<1>5. CASE SyncInfo
  BY <1>5, InfoEffect
<1>6. CASE EocActive
  <2>1. FreeClusters(disk) = FreeClusters(View) /\ clust' = clust /\ op' = op
    BY <1>1, <1>6 DEF EocActive, localVars, CallInv
  <2>2. FreeClusters(View) = FreeClusters(View') \cup {clust}
    BY <1>6, FreeAfter
  <2>3. pc' = "linkMirror" \/ pc' = "linkActive" \/ (pc' = "syncBuf" /\ ret' \in {"addEntry", "advance"})
    BY <1>6 DEF EocActive, put_link, allocated, sync_fs
  <2> QED BY <1>2, <2>1, <2>2, <2>3
<1>7. CASE LinkMirror \/ LinkActive
  <2>1. clust' = clust /\ op' = op /\ FreeClusters(View') = FreeClusters(View)
    BY <1>7, FreeAfter DEF LinkMirror, LinkActive, localVars, Unfree
  <2>2. pc' = "linkActive" \/ (pc' = "syncBuf" /\ ret' \in {"addEntry", "advance"})
    BY <1>7 DEF LinkMirror, LinkActive, allocated, sync_fs
  <2>3. op = "stretch"
    BY <1>7 DEF LinkMirror, LinkActive, CallInv
  <2> QED BY <1>1, <1>2, <2>1, <2>2, <2>3
<1>8. CASE PowerCycle
  BY <1>8, CrashEffect
<1>9. ASSUME ~SyncBuf, ~Return, ~SyncInfo, ~EocActive, ~LinkMirror, ~LinkActive, ~PowerCycle,
             op' # "unlink"
      PROVE  DiskFreeInv'
  <2>1. ~RemoveBroken
    BY NeverBroken
  <2>2. /\ op # "unlink" /\ ~Allocating /\ pc # "syncBuf"
        /\ ~RemoveActive
    BY <1>9, <2>1
    DEF Next, Call, Step, Probe, Scan, ScanFull, EocMirror, AddEntry,
        Advance, RemoveGet, RemoveMirror, RemoveActive, RemoveEntry, FileCreate, FileOpen,
        Unlink, Follow, Stretch, FollowBroken, FileClose, FatSync, CallInv
  <2>3. Unfree
    BY <1>9, <2>2 DEF Next, Step, Unfree, Quiet
  <2>4. FreeClusters(View') = FreeClusters(View)
    BY <2>3, FreeAfter
  <2> QED BY <1>1, <1>2, <2>2, <2>4
<1> QED BY <1>3, <1>4, <1>5, <1>6, <1>7, <1>8, <1>9

(* A power cut is counted, and nothing else changes the number. *)
LEMMA CrashesCounted ==
  ASSUME TypeOK, Next
  PROVE  /\ crashes \in Nat /\ crashes <= MaxCrashes /\ crashes' \in Nat
         /\ crashes' = IF PowerCycle THEN crashes + 1 ELSE crashes
<1>1. crashes \in Nat /\ crashes <= MaxCrashes
  BY VolumeAssumption DEF TypeOK
<1>2. CASE PowerCycle
  BY <1>1, <1>2 DEF PowerCycle
<1>3. CASE ~PowerCycle
  <2>1. crashes' = crashes
    BY <1>3 DEF Next, Call, Step, SyncBuf, SyncInfo, Probe, Scan, ScanFull, EocMirror, EocActive,
       LinkMirror, LinkActive, AddEntry, Advance, Return, RemoveGet, RemoveBroken, RemoveMirror,
       RemoveActive, RemoveEntry, FileCreate, FileOpen, Unlink, Follow, Stretch, FollowBroken,
       FileClose, FatSync, historyVars
  <2> QED BY <1>1, <1>3, <2>1
<1> QED BY <1>2, <1>3, <1>1

(* Fat.free_cnt follows the tables. *)
LEMMA SurplusStep ==
  ASSUME TypeOK, CallInv, RootInv, CacheInv, ChainInv, OverwriteInv, CountInv, Next,
         ~cut, ~cut'
  PROVE  (0 <= surplus /\ surplus <= crashes)'
<1> DEFINE n == Cardinality(FreeClusters(View))
           m == Cardinality(FreeClusters(View'))
           e == IF Allocating THEN 1 ELSE 0
           f == IF Allocating' THEN 1 ELSE 0
<1>1. n \in Nat /\ m \in Nat /\ free_cnt \in Nat
      /\ n <= ClustCnt - 2 /\ m <= ClustCnt - 2
  BY FreeFacts, CountArithmetic
<1>2. 0 <= free_cnt - n - e /\ free_cnt - n - e <= crashes
  BY DEF CountInv, surplus
<1>3. /\ crashes \in Nat /\ crashes <= MaxCrashes /\ crashes' \in Nat
      /\ crashes' = IF PowerCycle THEN crashes + 1 ELSE crashes
  BY CrashesCounted
<1>4. ASSUME 0 <= free_cnt' - m - f, free_cnt' - m - f <= crashes'
      PROVE  (0 <= surplus /\ surplus <= crashes)'
  BY <1>4 DEF surplus
<1>5. CASE EocActive
  <2>1. m = n - 1
    BY <1>5, FreeAfter, FreeFacts
  <2>2. free_cnt >= 1
    <3> HIDE DEF n, m
    <3> QED BY <1>1, <1>2, <2>1
  <2>3. \/ free_cnt' = free_cnt /\ f = 1
        \/ free_cnt' = free_cnt - 1 /\ f = 0
    BY <1>5, <2>2, CountArithmetic
    DEF EocActive, allocated, sync_fs, put_link, fatVars, Allocating
  <2>4. e = 0 /\ ~PowerCycle
    BY <1>5, <2>3 DEF EocActive, Allocating, PowerCycle, allocated, put_link, sync_fs
  <2> HIDE DEF n, m, e, f
  <2> QED BY <1>1, <1>2, <1>3, <1>4, <2>1, <2>3, <2>4
<1>6. CASE LinkActive
  <2>1. m = n
    BY <1>6, FreeAfter DEF Unfree
  <2>2. e = 1 /\ f = 0 /\ ~PowerCycle
    BY <1>6 DEF LinkActive, Allocating, PowerCycle, allocated, sync_fs
  <2>3. free_cnt >= 1
    <3> HIDE DEF n, m, e
    <3> QED BY <1>1, <1>2, <2>2
  <2>4. free_cnt' = free_cnt - 1
    BY <1>6, <2>3, CountArithmetic DEF LinkActive, allocated
  <2> HIDE DEF n, m, e, f
  <2> QED BY <1>1, <1>2, <1>3, <1>4, <2>1, <2>2, <2>4
<1>7. CASE RemoveActive
  <2>1. m = n + 1
    <3>1. View[active(clust)] # Free
      BY <1>7 DEF RemoveActive, ChainInv, RemovePcs
    <3> QED BY <1>7, <3>1, FreeAfter, FreeFacts DEF FreeClusters
  <2>2. e = 0 /\ f = 0 /\ ~PowerCycle
    BY <1>7 DEF RemoveActive, Allocating, PowerCycle, sync_fs, CallInv, RemovePcs
  <2>3. free_cnt < Wrap - 1
    <3> HIDE DEF n, m, e
    <3> QED BY <1>1, <1>2, <1>3, <2>1, <2>2, VolumeAssumption
  <2>4. free_cnt' = free_cnt + 1
    BY <1>7, <2>3, CountArithmetic DEF RemoveActive
  <2> HIDE DEF n, m, e, f
  <2> QED BY <1>1, <1>2, <1>3, <1>4, <2>1, <2>2, <2>4
<1>8. CASE PowerCycle
  <2> DEFINE s == IF AllocSync THEN 1 ELSE 0
  <2>1. op # "unlink" /\ ~Removing /\ f = 0
    BY <1>8 DEF PowerCycle, Removing, CallInv, Allocating
  <2>2. free_cnt' = free_cnt + s
    BY <1>8, <2>1 DEF PowerCycle, CountInv, InfoInv
  <2>3. FreeClusters(View') = FreeClusters(disk)
    BY <1>8, FreeAfter
  <2>4. /\ m = n \/ m = n + 1
        /\ m = n + 1 => Allocating \/ AllocSync
    <3>1. \/ FreeClusters(disk) = FreeClusters(View)
          \/ /\ Allocating \/ AllocSync
             /\ FreeClusters(disk) = FreeClusters(View) \cup {clust}
      BY <2>1 DEF CountInv, DiskFreeInv
    <3>2. CASE FreeClusters(disk) = FreeClusters(View)
      BY <1>1, <2>3, <3>2
    <3>3. CASE clust \notin FreeClusters(View)
               /\ FreeClusters(disk) = FreeClusters(View) \cup {clust}
      BY <2>3, <3>1, <3>3, FreeFacts
    <3> QED BY <3>1, <3>2, <3>3
  <2>5. ~(Allocating /\ AllocSync)
    BY DEF Allocating, AllocSync, SyncPcs
  <2>6. e + s \in {0, 1} /\ (m = n + 1 => e + s = 1)
    BY <2>4, <2>5
  <2> HIDE DEF n, m, e, f, s
  <2>7. e \in Nat /\ s \in Nat
    BY DEF e, s
  <2> QED BY <1>1, <1>2, <1>3, <1>4, <1>8, <2>1, <2>2, <2>4, <2>6, <2>7
<1>9. ASSUME ~EocActive, ~LinkActive, ~RemoveActive, ~PowerCycle
      PROVE  (0 <= surplus /\ surplus <= crashes)'
  <2>1. free_cnt' = free_cnt /\ e = f
    BY <1>9
    DEF Next, Call, Step, SyncBuf, SyncInfo, Probe, Scan, ScanFull, EocMirror, LinkMirror,
        AddEntry, Advance, Return, RemoveGet, RemoveBroken, RemoveMirror, RemoveEntry,
        FileCreate, FileOpen, Unlink, Follow, Stretch, FollowBroken, FileClose, FatSync, fail,
        sync_fs, put_eoc, put_link, fatVars, Allocating, TypeOK
  <2>2. m = n
    BY <1>9, FreeAfter DEF Next, Step, Unfree, Quiet
  <2> HIDE DEF n, m, e, f
  <2> QED BY <1>1, <1>2, <1>3, <1>4, <1>9, <2>1, <2>2
<1> QED BY <1>5, <1>6, <1>7, <1>8, <1>9

(* cut is never reset. *)
LEMMA CutStays == Next => (cut => cut')
BY DEF Next, Call, Step, SyncBuf, SyncInfo, Probe, Scan, ScanFull, EocMirror, EocActive,
   LinkMirror, LinkActive, AddEntry, Advance, Return, RemoveGet, RemoveBroken, RemoveMirror,
   RemoveActive, RemoveEntry, FileCreate, FileOpen, Unlink, Follow, Stretch, FollowBroken,
   FileClose, FatSync, PowerCycle, historyVars

(* CountInv is about the variables alone. *)
LEMMA CountStutter == CountInv /\ UNCHANGED vars => CountInv'
BY DEF CountInv, FlagInv, InfoInv, DiskFreeInv, surplus, Removing, AllocSync, Allocating,
   FreeClusters, vars, View

(* Fat.free_cnt is never below the number of free clusters and exceeds it by at
   most one for each power cut, whatever the size of the volume, so that it is
   never stored as 0xffffffff; but for cuts inside fat_unlink. *)
THEOREM CountStaysClose == Spec => []FreeCountBounded
<1>1. CountInv => FreeCountBounded
  BY DEF CountInv, surplus, FreeCountBounded
<1>2. Inv /\ OverwriteInv /\ CountInv /\ [Next]_vars => CountInv'
  <2>1. ASSUME Inv, OverwriteInv, CountInv, Next PROVE CountInv'
    BY <2>1, FlagStep, FsInfoStep, DiskFreeStep, SurplusStep, CutStays DEF CountInv, Inv
  <2> QED BY <2>1, CountStutter
<1>3. Inv /\ OverwriteInv /\ [Next]_vars => OverwriteInv'
  BY OverwriteStep, OverwriteStutter DEF Inv
<1> QED BY Invariance, InitOverwrite, InitCount, <1>1, <1>2, <1>3, PTL DEF Spec

-----------------------------------------------------------------------------
(* LeakBounded. *)

(* There are finitely many lost clusters, and 0 is not among them. *)
LEMMA LostFacts ==
  ASSUME NEW d
  PROVE  /\ IsFiniteSet(Lost(d)) /\ Cardinality(Lost(d)) \in Nat
         /\ \A k : /\ IsFiniteSet(Lost(d) \ {k})
                   /\ Cardinality(Lost(d) \ {k}) \in Nat
                   /\ Cardinality(Lost(d)) <= Cardinality(Lost(d) \ {k}) + 1
         /\ 0 \notin Lost(d)
<1>1. IsFiniteSet(Clusters) /\ 0 \notin Clusters
  BY FS_Interval, VolumeAssumption DEF Clusters
<1>2. IsFiniteSet(Lost(d)) /\ 0 \notin Lost(d)
  BY <1>1, FS_Subset DEF Lost
<1>3. Cardinality(Lost(d)) \in Nat
  BY <1>2, FS_CardinalityType
<1>4. ASSUME NEW k
      PROVE  /\ IsFiniteSet(Lost(d) \ {k})
             /\ Cardinality(Lost(d) \ {k}) \in Nat
             /\ Cardinality(Lost(d)) <= Cardinality(Lost(d) \ {k}) + 1
  <2>1. /\ IsFiniteSet(Lost(d) \ {k})
        /\ Cardinality(Lost(d) \ {k}) =
             IF k \in Lost(d) THEN Cardinality(Lost(d)) - 1 ELSE Cardinality(Lost(d))
    BY <1>2, FS_RemoveElement
  <2>2. Cardinality(Lost(d) \ {k}) \in Nat
    BY <2>1, FS_CardinalityType
  <2> QED BY <1>3, <2>1, <2>2
<1> QED BY <1>2, <1>3, <1>4

(* None of the cells that refer to clusters is in the FsInfo sector. *)
LEMMA RefTables == RefCells \subseteq Tables
BY RefFacts DEF Tables

(* Two disks with the same FAT and directory have lost the same clusters. *)
LEMMA SameLost ==
  ASSUME NEW d, NEW e, \A x \in RefCells : d[x] = e[x]
  PROVE  Lost(d) = Lost(e)
BY RefFacts DEF Lost, Used

(* A write to one of these cells loses at most the cluster it referred to and
   the one it takes into use, and not the one it refers to now. *)
LossOfWrite(d, e, x, v) ==
  \A c \in Lost(e) : /\ c # v /\ Used(e, c) /\ c \in Clusters
                     /\ \/ c \in Lost(d)
                        \/ c = d[x]
                        \/ x = active(c) /\ d[x] \in {Free, Bad}

(* Any write to such a cell is of that kind. *)
LEMMA LostWrites ==
  ASSUME NEW d, NEW e, NEW x \in RefCells, NEW v,
         \A y \in RefCells : e[y] = IF y = x THEN v ELSE d[y]
  PROVE  LossOfWrite(d, e, x, v)
<1>1. ASSUME NEW c \in Lost(e)
      PROVE  /\ c # v /\ Used(e, c) /\ c \in Clusters
             /\ \/ c \in Lost(d)
                \/ c = d[x]
                \/ x = active(c) /\ d[x] \in {Free, Bad}
  <2>1. c \in Clusters \ {Root} /\ Used(e, c) /\ \A y \in RefCells : e[y] # c
    BY DEF Lost
  <2>2. c # v /\ \A y \in RefCells : y # x => d[y] # c
    BY <2>1
  <2>3. active(c) # x => Used(d, c)
    BY <2>1, RefFacts DEF Used
  <2> QED BY <2>1, <2>2, <2>3 DEF Lost, Used
<1> QED BY <1>1 DEF LossOfWrite

(* A fresh volume has lost nothing. *)
LEMMA InitLeak == Init => LeakInv
<1> SUFFICES ASSUME Init PROVE LeakInv
  OBVIOUS
<1>1. View = disk
  BY SectorFacts DEF Init, View
<1>2. ASSUME NEW c \in Clusters \ {Root} PROVE ~Used(disk, c)
  <2>1. active(c) \in Cell \ (DirCells \cup InfoCells) /\ active(c)[2] = c
    BY CellFacts, KindFacts DEF active
  <2> QED BY <2>1 DEF Init, InfoCells, Used, Formatted
<1>3. Lost(disk) = {} /\ Lost(View) \ {held} = {}
  BY <1>1, <1>2 DEF Lost
<1>4. Cardinality({}) = 0
  BY FS_EmptySet
<1>5. Cardinality(Lost(disk)) = 0 /\ Cardinality(Lost(View) \ {held}) = 0
  BY <1>3, <1>4
<1>6. crashes = 0 /\ pc = "idle"
  BY DEF Init
<1> QED BY <1>5, <1>6 DEF LeakInv, HalfUnlinked, Removing, RemovePcs, SyncPcs

(* Which cluster a call holds, before and after each step. *)
LEMMA HeldFacts ==
  ASSUME TypeOK, CallInv, RootInv, ChainInv, ~cut, Next
  PROVE  /\ Quiet => held \in {0, held'}
         /\ EocMirror \/ RemoveMirror \/ LinkMirror => held \in {0, held'}
         /\ EocActive => held = 0 /\ held' = clust
         /\ LinkActive \/ AddEntry => held = clust
         /\ RemoveActive => held = clust /\ (next = Eoc \/ held' = next)
         /\ RemoveEntry => held = 0
         /\ PowerCycle => held' = 0
<1> USE DEF held, Ended, Unlinked, Allocated, EocPcs, LinkPcs, SyncPcs, RemovePcs
<1>1. ASSUME Quiet PROVE held \in {0, held'}
  <2>1. ~RemoveBroken
    BY NeverBroken
  <2>2. SyncBuf \/ SyncInfo => held \in {0, held'}
    BY DEF SyncBuf, SyncInfo, localVars, CallInv
  <2>3. RemoveGet => held \in {0, held'}
    BY DEF RemoveGet
  <2>4. Probe \/ Scan \/ ScanFull \/ Advance \/ Return \/ Call => held = 0
    BY DEF Probe, Scan, ScanFull, Advance, Return, Call, FileCreate, FileOpen, Unlink, Follow,
       Stretch, FollowBroken, FileClose, FatSync
  <2> QED BY <1>1, <2>1, <2>2, <2>3, <2>4 DEF Quiet
<1>2. EocMirror \/ RemoveMirror \/ LinkMirror => held \in {0, held'}
  BY DEF EocMirror, RemoveMirror, LinkMirror, localVars
<1>3. ASSUME EocActive PROVE held = 0 /\ held' = clust
  <2>1. op = "create" \/ prev # 0
    BY <1>3, VolumeAssumption DEF EocActive, CallInv, Clusters
  <2> QED BY <1>3, <2>1 DEF EocActive, allocated, sync_fs, put_link, localVars, CallInv
<1>4. LinkActive \/ AddEntry => held = clust
  BY DEF LinkActive, AddEntry
<1>5. RemoveActive => held = clust /\ (next = Eoc \/ held' = next)
  BY DEF RemoveActive
<1>6. RemoveEntry => held = 0
  BY DEF RemoveEntry
<1>7. PowerCycle => held' = 0
  BY DEF PowerCycle
<1> QED BY <1>1, <1>2, <1>3, <1>4, <1>5, <1>6, <1>7

(* No step but a power cut loses a cluster, the one that the call holds
   aside. *)
LEMMA LostShrinks ==
  ASSUME TypeOK, CallInv, RootInv, CacheInv, ChainInv, OverwriteInv, LeakInv, ~cut,
         Next, ~PowerCycle
  PROVE  Lost(View') \ {held'} \subseteq Lost(View) \ {held}
<1>1. /\ Eoc \notin Clusters /\ 0 \notin Clusters /\ Free = 0 /\ NoEntry = 0
      /\ Eoc # Free /\ Eoc # Bad
  BY VolumeAssumption DEF Eoc, Clusters, Free, NoEntry, Bad
<1>2. 0 \notin Lost(View)
  BY LostFacts
<1>3. CASE Quiet
  <2>1. Lost(View') = Lost(View)
    BY <1>3, QuietKeeps, RefTables, SameLost
  <2> QED BY <1>2, <1>3, <2>1, HeldFacts
<1>4. CASE EocMirror \/ LinkMirror \/ RemoveMirror
  <2>1. \E k \in Clusters : \E v : Writes(mirror(k), v)
    BY <1>4, WriteEffects, WrittenClusters
  <2>2. \A x \in RefCells : View'[x] = View[x]
    BY <2>1, CellFacts, RefFacts DEF Writes, TypeOK, Typed
  <2> QED BY <1>2, <1>4, <2>2, SameLost, HeldFacts
<1>5. CASE EocActive
  <2>1. clust \in Clusters /\ Writes(active(clust), Eoc) /\ View[active(clust)] = Free
    BY <1>5, WriteEffects, WrittenClusters DEF OverwriteInv, EocActive, EocPcs
  <2>2. \A y \in RefCells : View'[y] = IF y = active(clust) THEN Eoc ELSE View[y]
    BY <2>1, CellFacts, RefFacts DEF Writes, TypeOK, Typed
  <2>3. LossOfWrite(View, View', active(clust), Eoc)
    BY <2>2, <2>1, LostWrites, RefFacts
  <2>4. ASSUME NEW c \in Lost(View') PROVE c \in Lost(View) \/ c = clust
    BY <1>1, <2>1, <2>3, CellFacts, TableFacts DEF LossOfWrite
  <2> QED BY <1>2, <1>5, <2>4, HeldFacts
<1>6. CASE LinkActive
  <2>1. /\ prev \in Clusters /\ Writes(active(prev), clust)
        /\ View[active(prev)] = Eoc
    BY <1>6, WriteEffects, WrittenClusters
    DEF OverwriteInv, LinkActive, LinkPcs, AllocPcs, CallInv
  <2>2. \A y \in RefCells : View'[y] = IF y = active(prev) THEN clust ELSE View[y]
    BY <2>1, CellFacts, RefFacts DEF Writes, TypeOK, Typed
  <2>3. LossOfWrite(View, View', active(prev), clust)
    BY <2>2, <2>1, LostWrites, RefFacts
  <2>4. ASSUME NEW c \in Lost(View') PROVE c \in Lost(View) /\ c # clust
    BY <1>1, <2>1, <2>3, CellFacts, TableFacts DEF LossOfWrite
  <2> QED BY <1>6, <2>4, HeldFacts
<1>7. CASE AddEntry
  <2>1. /\ name \in Names /\ Writes(dirent(name), clust)
        /\ View[dirent(name)] = NoEntry
    BY <1>7, WriteEffects, WrittenClusters DEF OverwriteInv, AddEntry, CallInv
  <2>2. \A y \in RefCells : View'[y] = IF y = dirent(name) THEN clust ELSE View[y]
    BY <2>1, CellFacts, RefFacts DEF Writes, TypeOK, Typed
  <2>3. LossOfWrite(View, View', dirent(name), clust)
    BY <2>2, <2>1, LostWrites, RefFacts
  <2>4. ASSUME NEW c \in Lost(View') PROVE c \in Lost(View) /\ c # clust
    BY <1>1, <2>1, <2>3, CellFacts, TableFacts DEF LossOfWrite
  <2> QED BY <1>7, <2>4, HeldFacts
<1>8. CASE RemoveActive
  <2>1. /\ clust \in Clusters /\ Writes(active(clust), Free)
        /\ View[active(clust)] = next /\ next \notin {Free, Bad}
    BY <1>8, WriteEffects, WrittenClusters DEF ChainInv, RemoveActive, Found, RemovePcs
  <2>2. \A y \in RefCells : View'[y] = IF y = active(clust) THEN Free ELSE View[y]
    BY <2>1, CellFacts, RefFacts DEF Writes, TypeOK, Typed
  <2>3. ~Used(View', clust)
    BY <2>1, <2>2, RefFacts DEF Used
  <2>4. LossOfWrite(View, View', active(clust), Free)
    BY <2>2, <2>1, LostWrites, RefFacts
  <2>5. ASSUME NEW c \in Lost(View') PROVE (c \in Lost(View) \/ c = next) /\ c # clust /\ c # Eoc
    BY <1>1, <2>1, <2>3, <2>4, CellFacts, TableFacts DEF LossOfWrite
  <2> QED BY <1>8, <2>5, HeldFacts
<1>9. CASE RemoveEntry
  <2> DEFINE e == View[dirent(name)]
  <2>1. name \in Names /\ Writes(dirent(name), NoEntry)
    BY <1>9, WriteEffects, WrittenClusters
  <2>2. e \in Clusters /\ View[active(e)] = Free
    BY <1>9 DEF LeakInv, HalfUnlinked, RemoveEntry, RemovePcs
  <2>3. \A y \in RefCells : View'[y] = IF y = dirent(name) THEN NoEntry ELSE View[y]
    BY <2>1, CellFacts, RefFacts DEF Writes, TypeOK, Typed
  <2>4. ~Used(View', e)
    BY <2>1, <2>2, <2>3, RefFacts, TableFacts DEF Used
  <2>5. LossOfWrite(View, View', dirent(name), NoEntry)
    BY <2>3, <2>1, LostWrites, RefFacts
  <2>6. ASSUME NEW c \in Lost(View') PROVE c \in Lost(View)
    BY <1>1, <2>1, <2>4, <2>5, CellFacts, TableFacts DEF LossOfWrite
  <2> QED BY <1>2, <1>9, <2>6, HeldFacts
<1> QED BY <1>3, <1>4, <1>5, <1>6, <1>7, <1>8, <1>9 DEF Next, Step, Quiet

(* fat_unlink begins with the cluster that the entry names, and frees it
   first. *)
LEMMA HalfUnlinkedStep ==
  ASSUME TypeOK, CallInv, RootInv, CacheInv, ChainInv, ~cut, HalfUnlinked, Next
  PROVE  HalfUnlinked'
<1> USE DEF Removing, SyncPcs, RemovePcs
<1> DEFINE Active == \A c \in Clusters : View'[active(c)] = View[active(c)]
<1>1. name \in Names
  BY DEF TypeOK
<1>2. ASSUME SyncBuf \/ SyncInfo \/ RemoveGet PROVE HalfUnlinked'
  <2>1. \A x \in Tables : View'[x] = View[x]
    BY <1>2, QuietKeeps DEF Quiet
  <2>2. Active /\ View'[dirent(name)] = View[dirent(name)]
    BY <1>1, <2>1, TableFacts
  <2>3. /\ name' = name /\ clust' = clust
        /\ pc' \in RemovePcs => pc \in RemovePcs
        /\ Removing' \/ pc' = "removeEntry" => Removing
        /\ pc \in RemovePcs => pc' \in RemovePcs
    BY <1>2 DEF SyncBuf, SyncInfo, RemoveGet, localVars, TypeOK
  <2> QED BY <2>2, <2>3 DEF HalfUnlinked
<1>3. CASE RemoveMirror
  <2>1. clust \in Clusters /\ Writes(mirror(clust), Free)
    BY <1>3, WriteEffects, WrittenClusters
  <2>2. Active /\ View'[dirent(name)] = View[dirent(name)]
    BY <1>1, <2>1, CellFacts, TableFacts DEF Writes, TypeOK, Typed
  <2>3. /\ name' = name /\ clust' = clust
        /\ pc \in RemovePcs /\ pc' \in RemovePcs
    BY <1>3 DEF RemoveMirror, localVars
  <2> QED BY <2>2, <2>3 DEF HalfUnlinked
<1>4. CASE RemoveActive
  <2>1. clust \in Clusters /\ Writes(active(clust), Free)
    BY <1>4, WriteEffects, WrittenClusters
  <2>2. /\ View'[dirent(name)] = View[dirent(name)]
        /\ \A c \in Clusters : View'[active(c)] = IF c = clust THEN Free ELSE View[active(c)]
    BY <1>1, <2>1, CellFacts, TableFacts DEF Writes, TypeOK, Typed
  <2>3. name' = name /\ pc \in RemovePcs
    BY <1>4 DEF RemoveActive
  <2> QED BY <2>1, <2>2, <2>3 DEF HalfUnlinked
<1>5. ASSUME NEW n \in Names, Unlink(n) PROVE HalfUnlinked'
  <2>1. View' = View
    BY <1>5, ReadEffects DEF Keeps
  <2> QED BY <1>5, <2>1 DEF Unlink, entry, HalfUnlinked
<1>6. ASSUME ~(SyncBuf \/ SyncInfo \/ RemoveGet \/ RemoveMirror \/ RemoveActive),
             ~(\E n \in Names : Unlink(n))
      PROVE  HalfUnlinked'
  <2>1. ~RemoveBroken
    BY NeverBroken
  <2>2. ~(Removing' \/ pc' = "removeEntry")
    BY <1>6, <2>1
    DEF Next, Call, Step, Probe, Scan, ScanFull, EocMirror, EocActive, LinkMirror, LinkActive,
        AddEntry, Advance, Return, RemoveEntry, FileCreate, FileOpen, Follow, Stretch,
        FollowBroken, FileClose, FatSync, PowerCycle, fail, sync_fs, put_eoc, put_link,
        allocated, CallInv, fatVars
  <2> QED BY <2>2 DEF HalfUnlinked
<1> QED BY <1>2, <1>3, <1>4, <1>5, <1>6

(* A power cut loses at most the cluster that the call holds, or that the disk
   has not heard of. *)
LEMMA LeakStep ==
  ASSUME TypeOK, CallInv, RootInv, CacheInv, ChainInv, OverwriteInv, LeakInv, Next
  PROVE  LeakInv'
<1> SUFFICES ASSUME ~cut, ~cut' PROVE LeakInv'
  BY CutStays DEF LeakInv
<1>1. /\ crashes \in Nat /\ crashes' \in Nat
      /\ crashes' = IF PowerCycle THEN crashes + 1 ELSE crashes
  BY CrashesCounted
<1>2. /\ Cardinality(Lost(View) \ {held}) <= crashes
      /\ op # "unlink" => Cardinality(Lost(disk)) <= crashes + 1
  BY DEF LeakInv
<1>3. HalfUnlinked'
  BY HalfUnlinkedStep DEF LeakInv
<1>4. /\ Cardinality(Lost(View)) <= crashes + 1
      /\ Cardinality(Lost(View) \ {held}) \in Nat
  <2>1. /\ Cardinality(Lost(View)) \in Nat
        /\ Cardinality(Lost(View) \ {held}) \in Nat
        /\ Cardinality(Lost(View)) <= Cardinality(Lost(View) \ {held}) + 1
    BY LostFacts
  <2> QED BY <1>1, <1>2, <2>1
<1>5. Lost(disk') = Lost(disk) \/ Lost(disk') = Lost(View)
  BY DiskAfter, SameLost, RefTables
<1>6. CASE PowerCycle
  <2>1. crashes' = crashes + 1 /\ op # "unlink"
    BY <1>6 DEF PowerCycle
  <2>2. Lost(View') = Lost(disk) /\ Lost(disk') = Lost(disk) /\ held' = 0
    BY <1>6, CrashEffect, HeldFacts
  <2>3. Lost(View') \ {held'} = Lost(disk)
    BY <2>2, LostFacts
  <2>4. Cardinality(Lost(disk)) \in Nat
    BY LostFacts
  <2>5. /\ Cardinality(Lost(View') \ {held'}) <= crashes'
        /\ Cardinality(Lost(disk')) <= crashes' + 1
    BY <1>1, <1>2, <2>1, <2>2, <2>3, <2>4
  <2> QED BY <1>3, <2>5 DEF LeakInv, Lost, Used, held
<1>7. CASE ~PowerCycle
  <2>1. Lost(View') \ {held'} \subseteq Lost(View) \ {held}
    BY <1>7, LostShrinks
  <2>2. /\ Cardinality(Lost(View') \ {held'}) <= Cardinality(Lost(View) \ {held})
        /\ Cardinality(Lost(View') \ {held'}) \in Nat
    BY <2>1, LostFacts, FS_Subset
  <2>3. Cardinality(Lost(View') \ {held'}) <= crashes'
    BY <1>1, <1>2, <1>4, <1>7, <2>2
  <2>4. ASSUME op' # "unlink" PROVE Cardinality(Lost(disk')) <= crashes' + 1
    <3>1. CASE op # "unlink"
      BY <1>1, <1>2, <1>4, <1>5, <1>7, <3>1
    <3>2. CASE op = "unlink"
      <4>1. ~RemoveBroken
        BY NeverBroken
      <4>2. Return
        BY <1>7, <2>4, <3>2, <4>1
        DEF Next, Call, Step, SyncBuf, SyncInfo, Probe, Scan, ScanFull, EocMirror, EocActive,
            LinkMirror, LinkActive, AddEntry, Advance, RemoveGet, RemoveMirror, RemoveActive,
            RemoveEntry, FileCreate, FileOpen, Unlink, Follow, Stretch, FollowBroken, FileClose,
            FatSync, CallInv, EocPcs, LinkPcs
      <4>3. disk' = View
        BY <4>2 DEF Return, CacheInv, cacheVars
      <4> QED BY <1>1, <1>4, <1>7, <4>3
    <3> QED BY <3>1, <3>2
  <2> QED BY <1>3, <2>3, <2>4 DEF LeakInv
<1> QED BY <1>6, <1>7

(* LeakInv is about the variables alone. *)
LEMMA LeakStutter == LeakInv /\ UNCHANGED vars => LeakInv'
BY DEF LeakInv, HalfUnlinked, Lost, Used, held, Ended, Unlinked, Allocated, Removing, vars, View

(* Between calls at most one allocated cluster for each power cut belongs to no
   file, however large the volume: a call that fails or completes loses none. *)
THEOREM LeaksStayBounded == Spec => []LeakBounded
<1>1. ASSUME LeakInv PROVE LeakBounded
  <2> SUFFICES ASSUME pc = "idle", ~cut PROVE Cardinality(Lost(View)) <= crashes
    BY DEF LeakBounded
  <2>1. held = 0
    BY DEF held, Ended, Unlinked, Allocated, EocPcs, LinkPcs, SyncPcs, RemovePcs
  <2>2. Lost(View) \ {held} = Lost(View)
    BY <2>1, LostFacts
  <2> QED BY <1>1, <2>2 DEF LeakInv
<1>2. Inv /\ OverwriteInv /\ LeakInv /\ [Next]_vars => LeakInv'
  BY LeakStep, LeakStutter DEF Inv
<1>3. Inv /\ OverwriteInv /\ [Next]_vars => OverwriteInv'
  BY OverwriteStep, OverwriteStutter DEF Inv
<1> QED BY Invariance, InitOverwrite, InitLeak, <1>1, <1>2, <1>3, PTL DEF Spec

=============================================================================
