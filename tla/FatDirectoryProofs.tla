------------------------- MODULE FatDirectoryProofs -------------------------
(* What the entries of a directory go through, for any set of names, any size
   of clusters and any number of power cuts. *)
EXTENDS FatDirectory, SectorCacheProofs, FiniteSetTheorems, SequenceTheorems

-----------------------------------------------------------------------------
(* The inductive invariant. *)

FindPcs == {"find", "stretch", "clear", "eod"}
AddPcs == {"addLong", "addShort"}
Pcs == {"idle", "search", "return", "alloc", "unchain", "remove", "sync"}
         \cup FindPcs \cup AddPcs

final == first + Lfns[name]     \* the short slot of an entry that begins at first

PcInv ==
  /\ pc \in Pcs
  /\ op = "none" <=> pc = "idle"
  /\ pc \in {"alloc"} \cup FindPcs \cup AddPcs => op \in {"open", "mkdir"}
  /\ pc \in {"unchain", "remove"} => op = "unlink"
  /\ pc = "sync" => op \in {"mkdir", "unlink"}
  /\ pc \in {"idle", "search", "alloc"} => cnt = 0 /\ eod = FALSE
  /\ pc = "idle" => at = 0 /\ need = 0 /\ listed = <<>>
  /\ listed \in Seq(Names \cup {"junk"})

(* The slots behind the chain are not the directory's: no step writes to them.
   The clusters there begin with something that looks like an entry. *)
outside(s) == IF s % ClustSlots = 0 THEN Junk ELSE Last

BeyondInv ==
  \A s \in Slots : s >= end => disk[s] = outside(s) /\ View[s] = outside(s)

(* clust_clear goes over the new cluster sector by sector. *)
ClearInv ==
  pc = "clear" =>
    /\ disk = View
    /\ sect = elsewhere \/ sect \in StretchFrom .. (StretchFrom + K - 2)
    /\ sect # elsewhere => View[end - ClustSlots] = Last
    /\ \A s \in Slots : s >= end - ClustSlots => View[s] \in {Junk, Last}

(* The walk has met no end marker; a run of long-name slots is being read from
   first on. *)
ScanInv ==
  pc = "search" =>
    /\ at < end \/ (op = "list" /\ at \in {end, end + 1} /\ need = 0)
    /\ \A t \in Slots : t < at /\ t < end => View[t] # Last
    /\ need > 0 => first < at /\ \A s \in first .. (at - 1) : is_lfn(View[s])

(* What fat_unlink goes over are long-name slots, but for the last. *)
RemoveInv ==
  /\ pc = "unchain" => /\ first <= at /\ at < end
                       /\ \A s \in first .. (at - 1) : is_lfn(View[s])
                       /\ \A t \in Slots : t < at => View[t] # Last
  /\ pc = "remove" => /\ first <= at /\ at <= cnt /\ cnt < end
                      /\ \A s \in at .. (cnt - 1) : is_lfn(View[s])

(* The last cnt slots in front of at are free: until the end marker each is, and
   behind it all are. *)
FindInv ==
  pc \in FindPcs =>
    /\ cnt <= at /\ cnt <= wanted
    /\ pc = "find" => cnt < wanted /\ at < end
    /\ pc = "eod" => cnt = wanted /\ at < end
    /\ pc = "stretch" => at = end
    /\ pc = "clear" => at = end - ClustSlots
    /\ cnt > 0 => first = at - cnt
    /\ ~eod => /\ \A t \in Slots : t < at => View[t] # Last
               /\ \A t \in Slots : at - cnt <= t /\ t < at => View[t] = Free
    /\ eod => /\ cnt > 0
              /\ \E e \in first .. (at - 1) :
                   /\ View[e] = Last
                   /\ \A t \in Slots : t < e => View[t] # Last
                   /\ \A t \in Slots : first <= t /\ t < e => View[t] = Free

AddInv ==
  pc \in AddPcs =>
    /\ first <= at /\ at + cnt = final /\ final < end
    /\ pc = "addLong" <=> cnt > 0

(* An entry that is promised is out of reach of what is being written. *)
PromiseInv ==
  /\ promised \subseteq Present(disk, end)
  /\ ~(pc = "sync" /\ op = "unlink") =>
       \A n \in promised : \E s \in Live(View, end) :
         View[s] = sfn(n) /\ (pc \in AddPcs => s \notin first .. final)

(* TypeOK, for the cache and for the rest. *)
CacheOK ==
  /\ disk \in [Slots -> SlotValues]
  /\ sect \in {SectorOf[s] : s \in Slots} \cup {elsewhere}
  /\ buf \in [CellsOf(sect) -> SlotValues] /\ dirty \in BOOLEAN
  /\ Coherent

LocalOK ==
  /\ len \in 1 .. MaxClust
  /\ at \in 0 .. end \/ (op = "list" /\ at \in 0 .. (end + 1))
  /\ first \in Slots /\ cnt \in Slots /\ eod \in BOOLEAN
  /\ need \in Nat /\ match \in BOOLEAN
  /\ op \in {"none", "open", "mkdir", "unlink", "list"} /\ name \in Names
  /\ res \in {"none", "eof", "found", "added", "removed", "full", "broken"}
  /\ promised \subseteq Names

FrameInv ==
  /\ CacheOK /\ LocalOK
  /\ PcInv /\ BeyondInv /\ ClearInv /\ ScanInv /\ RemoveInv /\ FindInv /\ AddInv

-----------------------------------------------------------------------------
(* The part that holds as long as no write to several sectors has been cut. *)

Sound(d, e) == Whole(d, e) /\ ShortDistinct(d, e)

(* d with the entry of n in the slots from f on, and without what is from f to
   t. *)
filled(d, f, n) == [s \in Slots |-> IF s \in f .. (f + Lfns[n] - 1) THEN lfn(n, Lfns[n] - (s - f))
                                   ELSE IF s = f + Lfns[n] THEN sfn(n) ELSE d[s]]
emptied(d, f, t) == [s \in Slots |-> IF s \in f .. t THEN Free ELSE d[s]]

(* The slots from f to t - 1 are the first of the entry of n. *)
Run(d, f, t, n) == \A s \in f .. (t - 1) : d[s] = lfn(n, Lfns[n] - (s - f))

(* The names of the short slots in front of t. *)
seen(d, t) == {d[s][2] : s \in {u \in Slots : u < t /\ d[u][1] = "sfn"}}

QuietPcs == {"idle", "search", "return", "alloc", "unchain", "find", "stretch", "eod"}

QuietInv ==
  /\ pc \in QuietPcs => Sound(View, end)
  /\ pc \in {"search", "alloc", "find", "stretch", "eod", "unchain"} => before = Present(View, end)
  /\ pc \in {"alloc"} \cup FindPcs \cup AddPcs => name \notin before
  /\ pc = "clear" => /\ Sound(View, end - ClustSlots)
                     /\ before = Present(View, end - ClustSlots)

EntryScan ==
  pc = "search" =>
    /\ need = 0 /\ at > 0 => ~is_lfn(View[at - 1])
    /\ op # "list" => name \notin seen(View, at)
    /\ need > 0 => \E n \in Names :
                     /\ need <= Lfns[n] /\ at = first + Lfns[n] - need + 1
                     /\ Run(View, first, at, n)
                     /\ match = (n = name) /\ crc = Short[n]
    /\ op = "list" /\ at <= end =>
         /\ {listed[i] : i \in DOMAIN listed} = seen(View, at)
         /\ \A i, j \in DOMAIN listed : listed[i] = listed[j] => i = j

FoundInv ==
  pc = "unchain" =>
    /\ View[at] = sfn(name)
    /\ \/ at = first /\ (at > 0 => ~is_lfn(View[at - 1]))
       \/ at = final /\ Run(View, first, at, name)

(* The disk keeps what it has as long as the entry is in the sector that the
   buffer holds. *)
inSector(f, t) == SectorOf[f] = SectorOf[t]
Buffered(t) ==
  /\ ~inSector(first, t) => split
  /\ at > first /\ inSector(first, t) => sect = SectorOf[first]
  /\ at = first => Sound(View, end)

AddingInv ==
  pc \in AddPcs =>
    /\ Buffered(final)
    /\ Sound(filled(View, first, name), end)
    /\ Present(filled(View, first, name), end) = before \cup {name}
    /\ Run(View, first, at, name)

RemovingInv ==
  pc = "remove" =>
    /\ Buffered(cnt)
    /\ Sound(emptied(View, first, cnt), end)
    /\ Present(emptied(View, first, cnt), end) = before \ {name}
    /\ name \in before
    /\ \A s \in first .. (at - 1) : View[s] = Free

DoneInv ==
  pc = "sync" =>
    /\ Sound(View, end)
    /\ op = "mkdir" => name \notin before /\ Present(View, end) = before \cup {name}
    /\ op = "unlink" => name \in before /\ Present(View, end) = before \ {name}

DiskInv == ~split => Sound(disk, end)

EntryInv == ~torn =>
  /\ QuietInv /\ EntryScan /\ FoundInv /\ AddingInv /\ RemovingInv /\ DoneInv /\ DiskInv
  /\ CallEffect /\ ListsMarked

DirInv == FrameInv /\ PromiseInv /\ EntryInv

-----------------------------------------------------------------------------
(* Slots and what they hold. *)

Top == (MaxClust + 1) * ClustSlots

LEMMA SlotRange ==
  /\ Top \in Nat /\ Slots = 0 .. (Top - 1)
  /\ ClustSlots \in Nat /\ ClustSlots >= 2
  /\ Cell = Slots /\ SectorOf = SlotSectors
<1>1. ClustSlots \in Nat /\ ClustSlots >= 2
  BY DirectoryAssumption DEF ClustSlots
<1>2. Top \in Nat
  BY <1>1, DirectoryAssumption DEF Top
<1> QED BY <1>1, <1>2, DirectoryAssumption DEF Slots, Top

LEMMA ValueKinds ==
  /\ \A v \in SlotValues :
       \/ v = Free \/ v = Last
       \/ v[1] = "sfn" /\ v = sfn(v[2]) /\ (v[2] \in Names \/ v = Junk)
       \/ is_lfn(v) /\ v[2] \in Names /\ v[3] \in 1 .. Lfns[v[2]] /\ v = lfn(v[2], v[3])
  /\ \A n : sfn(n)[1] = "sfn" /\ sfn(n)[2] = n /\ ~is_lfn(sfn(n)) /\ ~is_free(sfn(n))
  /\ \A n, i : /\ is_lfn(lfn(n, i)) /\ lfn(n, i)[1] # "sfn" /\ ~is_free(lfn(n, i))
               /\ lfn(n, i)[2] = n /\ lfn(n, i)[3] = i
  /\ \A v : is_lfn(v) => v[1] # "sfn" /\ ~is_free(v)
  /\ \A v : v[1] = "sfn" => ~is_free(v)
  /\ Free # Last /\ is_free(Free) /\ is_free(Last) /\ ~is_lfn(Free) /\ ~is_lfn(Last)
  /\ Free[1] # "sfn" /\ Last[1] # "sfn"
  /\ Junk = sfn("junk") /\ Junk \in SlotValues /\ Free \in SlotValues /\ Last \in SlotValues
  /\ \A n \in Names : sfn(n) \in SlotValues /\ \A i \in 1 .. Lfns[n] : lfn(n, i) \in SlotValues
<1>1. \A n : sfn(n)[1] = "sfn" /\ sfn(n)[2] = n
  BY DEF sfn
<1>2. \A n, i : lfn(n, i)[1] = "lfn" /\ lfn(n, i)[2] = n /\ lfn(n, i)[3] = i
  BY DEF lfn
<1>3. Free[1] = "free" /\ Last[1] = "last" /\ Junk[1] = "sfn"
  BY DEF Free, Last, Junk
<1>4. "sfn" # "lfn" /\ "sfn" # "free" /\ "sfn" # "last" /\ "lfn" # "free" /\ "lfn" # "last"
      /\ "free" # "last"
  OBVIOUS
<1>5. Junk = sfn("junk")
  BY DEF Junk, sfn
<1>6. \A n \in Names : sfn(n) \in SlotValues /\ \A i \in 1 .. Lfns[n] : lfn(n, i) \in SlotValues
  BY DEF SlotValues, NameSlots
<1>7. Junk \in SlotValues /\ Free \in SlotValues /\ Last \in SlotValues
  BY DEF SlotValues
<1>8. ASSUME NEW v \in SlotValues
      PROVE  \/ v = Free \/ v = Last
             \/ v[1] = "sfn" /\ v = sfn(v[2]) /\ (v[2] \in Names \/ v = Junk)
             \/ is_lfn(v) /\ v[2] \in Names /\ v[3] \in 1 .. Lfns[v[2]] /\ v = lfn(v[2], v[3])
  <2>1. CASE v \in {Free, Last}
    BY <2>1
  <2>2. CASE v = Junk
    BY <2>2, <1>1, <1>3, <1>5
  <2>3. CASE \E n \in Names : v = sfn(n)
    BY <2>3, <1>1
  <2>4. CASE \E n \in Names : \E i \in 1 .. Lfns[n] : v = lfn(n, i)
    BY <2>4, <1>2 DEF is_lfn
  <2> QED BY <2>1, <2>2, <2>3, <2>4 DEF SlotValues, NameSlots
<1> QED BY <1>1, <1>2, <1>3, <1>4, <1>5, <1>6, <1>7, <1>8 DEF is_lfn, is_free


-----------------------------------------------------------------------------
(* Directories. *)

LEMMA LiveSlots ==
  ASSUME NEW d, NEW e \in Nat, NEW s
  PROVE  s \in Live(d, e) <=> /\ s \in Slots /\ s < e
                              /\ \A t \in Slots : t <= s => d[t] # Last
BY SlotRange DEF Live

LEMMA PresentNames ==
  ASSUME NEW d, NEW e, NEW n
  PROVE  n \in Present(d, e) <=> \E s \in Live(d, e) : d[s][1] = "sfn" /\ d[s][2] = n
BY DEF Present

(* What lies behind an end marker does not matter, nor where the chain ends. *)
LEMMA SameEntries ==
  ASSUME NEW d, NEW d2, NEW e \in Nat, NEW e2 \in Nat,
         \A s \in Live(d, e) : d2[s] = d[s],
         Live(d2, e2) = Live(d, e)
  PROVE  /\ Present(d2, e2) = Present(d, e)
         /\ Sound(d, e) => Sound(d2, e2)
<1>1. Present(d2, e2) = Present(d, e)
  BY DEF Present
<1>2. ASSUME Parses(d, e)
      PROVE  Parses(d2, e2)
  BY <1>2 DEF Parses
<1>3. ASSUME Unique(d, e)
      PROVE  Unique(d2, e2)
  BY <1>3 DEF Unique
<1>4. ASSUME ShortDistinct(d, e)
      PROVE  ShortDistinct(d2, e2)
  <2> SUFFICES ASSUME NEW s \in Live(d, e), d[s][1] = "sfn"
               PROVE  \/ s > 0 /\ d2[s - 1] = lfn(d2[s][2], 1)
                      \/ \A n \in Names : Short[n] = short_of(d2[s][2]) => n = d2[s][2]
    BY DEF ShortDistinct
  <2>1. s > 0 => s - 1 \in Live(d, e)
    BY LiveSlots, SlotRange
  <2> QED BY <1>4, <2>1 DEF ShortDistinct
<1> QED BY <1>1, <1>2, <1>3, <1>4 DEF Sound, Whole

(* A marker put behind another one, or a cluster added behind the end or behind
   a marker, changes no entry. *)
LEMMA MarkerBehind ==
  ASSUME NEW d, NEW d2, NEW e \in Nat, NEW e2 \in Nat, NEW k \in Slots,
         k < e \/ k = e, e <= e2,
         \A s \in Slots : s < k => d2[s] = d[s],
         k < e => d[k] = Last,
         k < e2 => d2[k] = Last
  PROVE  /\ Present(d2, e2) = Present(d, e)
         /\ Sound(d, e) => Sound(d2, e2)
<1>1. ASSUME NEW s \in Live(d, e)
      PROVE  s < k
  BY <1>1, LiveSlots, SlotRange
<1>2. \A s \in Live(d, e) : d2[s] = d[s]
  BY <1>1, LiveSlots
<1>3. ASSUME NEW s
      PROVE  s \in Live(d2, e2) <=> s \in Live(d, e)
  <2>1. ASSUME s \in Live(d2, e2)
        PROVE  s < k
    BY <2>1, LiveSlots, SlotRange
  <2> QED BY <1>1, <2>1, LiveSlots, SlotRange
<1>4. Live(d2, e2) = Live(d, e)
  BY <1>3
<1> QED BY <1>2, <1>4, SameEntries

(* An entry put in free slots, or over the end marker with a new one behind it,
   is one more entry. *)
LEMMA FilledSound ==
  ASSUME NEW d \in [Slots -> SlotValues], NEW e \in Nat, e <= Top, NEW n \in Names,
         NEW f \in Nat, f + Lfns[n] < e, Sound(d, e), n \notin Present(d, e),
         \/ \A t \in Slots : t <= f + Lfns[n] => d[t] # Last /\ (f <= t => d[t] = Free)
         \/ /\ \E k \in f .. (f + Lfns[n]) :
                 /\ d[k] = Last
                 /\ \A t \in Slots : t < k => d[t] # Last /\ (f <= t => d[t] = Free)
            /\ f + Lfns[n] + 1 < e /\ d[f + Lfns[n] + 1] = Last
  PROVE  /\ Sound(filled(d, f, n), e)
         /\ Present(filled(d, f, n), e) = Present(d, e) \cup {n}
<1> DEFINE L == Lfns[n]
           g == filled(d, f, n)
           In(s) == f <= s /\ s <= f + L
<1>1. L \in Nat \ {0}
  BY DirectoryAssumption
<1>2. /\ \A s \in Slots : ~In(s) => g[s] = d[s]
      /\ \A s \in Slots : In(s) => g[s] # Last /\ g[s] # Free
      /\ \A s \in Slots : In(s) /\ s < f + L => g[s] = lfn(n, L - (s - f))
      /\ f + L \in Slots /\ g[f + L] = sfn(n)
  <2>1. \A s \in Slots : g[s] = IF s \in f .. (f + L - 1) THEN lfn(n, L - (s - f))
                               ELSE IF s = f + L THEN sfn(n) ELSE d[s]
    BY DEF filled
  <2>2. \A s \in Slots : s \in Int
    BY SlotRange
  <2>3. f + L \in Slots
    BY <1>1, SlotRange
  <2>4. \A m, i : sfn(m) # Last /\ sfn(m) # Free /\ lfn(m, i) # Last /\ lfn(m, i) # Free
    BY ValueKinds
  <2> HIDE DEF g, L
  <2>5. \A s \in Slots : ~In(s) => g[s] = d[s]
    BY <2>1, <2>2, <1>1
  <2>6. \A s \in Slots : In(s) /\ s < f + L => g[s] = lfn(n, L - (s - f))
    BY <2>1, <2>2, <1>1
  <2>7. g[f + L] = sfn(n)
    BY <2>1, <2>2, <2>3, <1>1
  <2>8. \A s \in Slots : In(s) => s < f + L \/ s = f + L
    BY <2>2, <1>1
  <2> QED BY <2>3, <2>4, <2>5, <2>6, <2>7, <2>8
<1>3. /\ \A s \in Slots : In(s) => s \in Live(g, e)
      /\ \A s \in Slots : ~In(s) => (s \in Live(g, e) <=> s \in Live(d, e))
      /\ \A s \in Live(d, e) : In(s) => d[s] = Free
  <2>1. CASE \A t \in Slots : t <= f + L => d[t] # Last /\ (f <= t => d[t] = Free)
    <3>1. ASSUME NEW s \in Slots
          PROVE  (\A t \in Slots : t <= s => g[t] # Last) <=> (\A t \in Slots : t <= s => d[t] # Last)
      BY <1>2, <2>1, <1>1, SlotRange
    <3>2. \A s \in Slots : s \in Live(g, e) <=> s \in Live(d, e)
      BY <3>1, LiveSlots
    <3>3. \A s \in Slots : In(s) => s \in Live(d, e)
      BY <2>1, <1>1, LiveSlots, SlotRange
    <3> QED BY <3>2, <3>3, <2>1, LiveSlots
  <2>2. ASSUME NEW k \in f .. (f + L), d[k] = Last, d[f + L + 1] = Last, f + L + 1 < e,
               \A t \in Slots : t < k => d[t] # Last /\ (f <= t => d[t] = Free)
        PROVE  <1>3!1 /\ <1>3!2 /\ <1>3!3
    <3>1. k \in Slots /\ f + L + 1 \in Slots
      BY <2>2, <1>1, SlotRange
    <3>2. \A s \in Live(d, e) : s < k
      BY <2>2, <3>1, LiveSlots, SlotRange
    <3>3. \A t \in Slots : t <= f + L => g[t] # Last
      BY <1>2, <2>2, <1>1, SlotRange
    <3>4. ASSUME NEW s \in Slots
          PROVE  s \in Live(g, e) <=> s <= f + L
      <4>1. g[f + L + 1] = Last
        BY <1>2, <2>2, <3>1, <1>1
      <4>2. s \in Live(g, e) => s < f + L + 1
        BY <4>1, <3>1, LiveSlots, <1>1, SlotRange
      <4>3. s <= f + L => s \in Live(g, e)
        BY <3>3, LiveSlots, <1>1, SlotRange
      <4> QED BY <4>2, <4>3, <1>1, SlotRange
    <3>5. \A s \in Slots : s < k => s \in Live(d, e)
      BY <2>2, LiveSlots, <1>1, SlotRange
    <3>6. \A s \in Slots : s \in Live(d, e) <=> s < k
      BY <3>2, <3>5
    <3> QED BY <3>4, <3>6, <2>2, <1>1, SlotRange, LiveSlots
  <2> QED BY <2>1, <2>2
<1> HIDE DEF g, L
<1>4. \A s \in Live(g, e) : s \in Slots /\ s < e
  BY LiveSlots
<1>5. \A s \in Live(d, e) : s \in Slots /\ s < e
  BY LiveSlots
<1>6. Parses(g, e)
  <2> SUFFICES ASSUME NEW s \in Live(g, e), is_lfn(g[s])
               PROVE  LET m == g[s][2]
                          i == g[s][3]
                      IN  /\ i < Lfns[m] => s - 1 \in Live(g, e) /\ g[s - 1] = lfn(m, i + 1)
                          /\ s + 1 \in Live(g, e)
                          /\ g[s + 1] = IF i = 1 THEN sfn(m) ELSE lfn(m, i - 1)
    BY DEF Parses
  <2>1. CASE In(s)
    <3>1. s < f + L
      BY <2>1, <1>2, <1>4, <1>1, SlotRange, ValueKinds
    <3>2. g[s][2] = n /\ g[s][3] = L - (s - f)
      BY <3>1, <2>1, <1>2, <1>4, ValueKinds
    <3>3. s + 1 \in Live(g, e) /\ g[s + 1] = IF L - (s - f) = 1 THEN sfn(n) ELSE lfn(n, L - (s - f) - 1)
      <4>1. s + 1 \in Slots /\ In(s + 1)
        BY <3>1, <2>1, <1>1, <1>2, <1>4, SlotRange
      <4>2. s + 1 < f + L => g[s + 1] = lfn(n, L - ((s + 1) - f)) /\ L - ((s + 1) - f) = (L - (s - f)) - 1
                             /\ L - (s - f) # 1
        <5>1. L - ((s + 1) - f) = (L - (s - f)) - 1 /\ s \in Int
          BY <1>1, <1>4, SlotRange
        <5>2. s + 1 < f + L => L - (s - f) # 1
          BY <1>1, <1>4, SlotRange
        <5>3. s + 1 < f + L => g[s + 1] = lfn(n, L - ((s + 1) - f))
          BY <4>1, <1>2
        <5> QED BY <5>1, <5>2, <5>3
      <4>3. ~(s + 1 < f + L) => s + 1 = f + L /\ L - (s - f) = 1
        BY <3>1, <1>1, <1>4, SlotRange
      <4> QED BY <4>1, <4>2, <4>3, <1>2, <1>3
    <3>4. L - (s - f) < L => s - 1 \in Live(g, e) /\ g[s - 1] = lfn(n, L - (s - f) + 1)
      <4> SUFFICES ASSUME L - (s - f) < L
                   PROVE  s - 1 \in Live(g, e) /\ g[s - 1] = lfn(n, L - (s - f) + 1)
        OBVIOUS
      <4>1. s - 1 \in Slots /\ In(s - 1) /\ s - 1 < f + L
        BY <2>1, <1>1, <1>4, SlotRange
      <4>2. L - ((s - 1) - f) = L - (s - f) + 1
        BY <1>1, <1>4, SlotRange
      <4> QED BY <4>1, <4>2, <1>2, <1>3
    <3> QED BY <3>2, <3>3, <3>4 DEF L
  <2>2. CASE ~In(s)
    <3>1. g[s] = d[s] /\ s \in Live(d, e)
      BY <2>2, <1>2, <1>3, <1>4
    <3> DEFINE m == g[s][2]
               i == g[s][3]
    <3>2. /\ i < Lfns[m] => s - 1 \in Live(d, e) /\ d[s - 1] = lfn(m, i + 1)
          /\ s + 1 \in Live(d, e)
          /\ d[s + 1] = IF i = 1 THEN sfn(m) ELSE lfn(m, i - 1)
      BY <3>1 DEF Sound, Whole, Parses
    <3>3. \A t \in Live(d, e) : d[t] # Free => t \in Live(g, e) /\ g[t] = d[t]
      BY <1>2, <1>3, <1>5
    <3> HIDE DEF m, i
    <3>4. d[s + 1] # Free
      BY <3>2, ValueKinds
    <3>5. i < Lfns[m] => d[s - 1] # Free
      BY <3>2, ValueKinds
    <3>6. /\ i < Lfns[m] => s - 1 \in Live(g, e) /\ g[s - 1] = lfn(m, i + 1)
          /\ s + 1 \in Live(g, e)
          /\ g[s + 1] = IF i = 1 THEN sfn(m) ELSE lfn(m, i - 1)
      BY <3>2, <3>3, <3>4, <3>5
    <3> QED BY <3>6 DEF m, i
  <2> QED BY <2>1, <2>2
<1>7. \A s \in Live(g, e) : g[s][1] = "sfn" =>
        \/ s = f + L /\ g[s] = sfn(n)
        \/ s \in Live(d, e) /\ d[s] = g[s] /\ d[s] # sfn(n) /\ ~In(s)
  <2> SUFFICES ASSUME NEW s \in Live(g, e), g[s][1] = "sfn"
               PROVE  \/ s = f + L /\ g[s] = sfn(n)
                      \/ s \in Live(d, e) /\ d[s] = g[s] /\ d[s] # sfn(n) /\ ~In(s)
    OBVIOUS
  <2>1. CASE In(s)
    BY <2>1, <1>1, <1>2, <1>4, SlotRange, ValueKinds
  <2>2. CASE ~In(s)
    <3>1. s \in Live(d, e) /\ d[s] = g[s]
      BY <2>2, <1>2, <1>3, <1>4
    <3>2. d[s] # sfn(n)
      BY <3>1, PresentNames, ValueKinds
    <3> QED BY <3>1, <3>2, <2>2
  <2> QED BY <2>1, <2>2
<1>8. \A s \in Live(d, e) : d[s][1] = "sfn" => s \in Live(g, e) /\ g[s] = d[s]
  BY <1>2, <1>3, <1>5, ValueKinds
<1>9. f + L \in Live(g, e) /\ g[f + L] = sfn(n)
  BY <1>1, <1>2, <1>3
<1>10. Present(g, e) = Present(d, e) \cup {n}
  BY <1>7, <1>8, <1>9, PresentNames, ValueKinds
<1>11. Unique(g, e)
  <2> SUFFICES ASSUME NEW s \in Live(g, e), NEW t \in Live(g, e), g[s][1] = "sfn", g[s] = g[t]
               PROVE  s = t
    BY DEF Unique
  <2> QED BY <1>7 DEF Sound, Whole, Unique
<1>12. ShortDistinct(g, e)
  <2> SUFFICES ASSUME NEW s \in Live(g, e), g[s][1] = "sfn"
               PROVE  \/ s > 0 /\ g[s - 1] = lfn(g[s][2], 1)
                      \/ \A m \in Names : Short[m] = short_of(g[s][2]) => m = g[s][2]
    BY DEF ShortDistinct
  <2>1. CASE s = f + L /\ g[s] = sfn(n)
    <3>1. s - 1 \in Slots /\ In(s - 1) /\ s - 1 < f + L /\ L - ((s - 1) - f) = 1 /\ s > 0
      BY <2>1, <1>1, <1>4, SlotRange
    <3> QED BY <3>1, <2>1, <1>2, ValueKinds
  <2>2. CASE s \in Live(d, e) /\ d[s] = g[s] /\ ~In(s)
    <3>1. CASE s > 0 /\ d[s - 1] = lfn(d[s][2], 1)
      <4>1. s - 1 \in Live(d, e)
        BY <2>2, <3>1, LiveSlots, SlotRange
      <4>2. d[s - 1] # Free
        BY <3>1, ValueKinds
      <4> QED BY <4>1, <4>2, <3>1, <2>2, <1>2, <1>3, <1>5
    <3> QED BY <3>1, <2>2 DEF Sound, ShortDistinct
  <2> QED BY <1>7, <2>1, <2>2
<1> QED BY <1>6, <1>10, <1>11, <1>12 DEF Sound, Whole, g


(* Without the slots of an entry there is one entry less. *)
LEMMA EmptiedSound ==
  ASSUME NEW d \in [Slots -> SlotValues], NEW e \in Nat, NEW n \in Names,
         NEW f \in Nat, NEW t \in Slots, t \in Live(d, e), f <= t, Sound(d, e), d[t] = sfn(n),
         \/ t = f /\ (t > 0 => ~is_lfn(d[t - 1]))
         \/ t = f + Lfns[n] /\ Run(d, f, t, n)
  PROVE  /\ Sound(emptied(d, f, t), e)
         /\ Present(emptied(d, f, t), e) = Present(d, e) \ {n}
<1> DEFINE g == emptied(d, f, t)
           In(s) == f <= s /\ s <= t
<1>1. Lfns[n] \in Nat \ {0} /\ t \in Nat /\ \A s \in Slots : s \in Nat
  BY DirectoryAssumption, SlotRange
<1>2. /\ \A s \in Slots : ~In(s) => g[s] = d[s]
      /\ \A s \in Slots : In(s) => g[s] = Free
  BY <1>1 DEF emptied
<1> HIDE DEF g
<1>3. ASSUME NEW s
      PROVE  s \in Live(g, e) <=> s \in Live(d, e)
  <2>1. \A u \in Slots : In(u) => d[u] # Last
    BY <1>1, LiveSlots
  <2>2. \A u \in Slots : g[u] # Last <=> d[u] # Last
    BY <2>1, <1>2, ValueKinds
  <2> QED BY <2>2, LiveSlots
<1>4. \A s \in Live(d, e) : s \in Slots /\ s < e
  BY LiveSlots
<1>5. \A s \in Live(d, e) : In(s) => s = t \/ (s < t /\ is_lfn(d[s]))
  <2> SUFFICES ASSUME NEW s \in Live(d, e), In(s), s # t
               PROVE  s < t /\ is_lfn(d[s])
    OBVIOUS
  <2>1. s < t /\ t # f /\ s \in f .. (t - 1)
    BY <1>1, <1>4
  <2>2. d[s] = lfn(n, Lfns[n] - (s - f))
    BY <2>1 DEF Run
  <2> QED BY <2>1, <2>2, ValueKinds
<1>6. \A s \in Live(d, e) : ~In(s) /\ is_lfn(d[s]) => ~In(s + 1)
  <2> SUFFICES ASSUME NEW s \in Live(d, e), ~In(s), is_lfn(d[s]), In(s + 1)
               PROVE  FALSE
    OBVIOUS
  <2>1. s + 1 = f /\ f > 0 /\ f - 1 = s /\ s \in Slots
    BY <1>1, <1>4
  <2>2. CASE t = f /\ (t > 0 => ~is_lfn(d[t - 1]))
    BY <2>1, <2>2
  <2>3. CASE t = f + Lfns[n] /\ Run(d, f, t, n)
    <3>1. f \in f .. (t - 1) /\ Lfns[n] - (f - f) = Lfns[n]
      BY <2>3, <1>1
    <3>2. d[s + 1] = lfn(n, Lfns[n])
      BY <2>1, <2>3, <3>1 DEF Run
    <3> DEFINE m == d[s][2]
               i == d[s][3]
    <3>3. d[s + 1] = IF i = 1 THEN sfn(m) ELSE lfn(m, i - 1)
      BY DEF Sound, Whole, Parses
    <3>4. d[s] \in SlotValues
      BY <2>1
    <3>5. m \in Names /\ i \in 1 .. Lfns[m]
      BY <3>4, ValueKinds
    <3> HIDE DEF m, i
    <3>6. m = n /\ i - 1 = Lfns[n]
      <4>1. i # 1
        <5>1. is_lfn(d[s + 1])
          BY <3>2, ValueKinds
        <5>2. ~is_lfn(sfn(m))
          BY ValueKinds
        <5> QED BY <3>3, <5>1, <5>2
      <4>2. lfn(n, Lfns[n])[2] = lfn(m, i - 1)[2] /\ lfn(n, Lfns[n])[3] = lfn(m, i - 1)[3]
        BY <4>1, <3>2, <3>3
      <4> QED BY <4>2, ValueKinds
    <3> QED BY <3>5, <3>6, <1>1
  <2> QED BY <2>2, <2>3
<1>7. \A s \in Live(d, e) : ~In(s) /\ s - 1 \in Live(d, e) /\ is_lfn(d[s - 1]) => ~In(s - 1)
  <2> SUFFICES ASSUME NEW s \in Live(d, e), ~In(s), s - 1 \in Live(d, e), is_lfn(d[s - 1]), In(s - 1)
               PROVE  FALSE
    OBVIOUS
  <2>1. s - 1 = t
    BY <1>1, <1>4
  <2> QED BY <2>1, ValueKinds
<1>8. \A s \in Live(d, e) : ~In(s) => s \in Live(g, e) /\ g[s] = d[s]
  BY <1>2, <1>3, <1>4
<1>9. Parses(g, e)
  <2> SUFFICES ASSUME NEW s \in Live(g, e), is_lfn(g[s])
               PROVE  LET m == g[s][2]
                          i == g[s][3]
                      IN  /\ i < Lfns[m] => s - 1 \in Live(g, e) /\ g[s - 1] = lfn(m, i + 1)
                          /\ s + 1 \in Live(g, e)
                          /\ g[s + 1] = IF i = 1 THEN sfn(m) ELSE lfn(m, i - 1)
    BY DEF Parses
  <2>1. ~In(s) /\ s \in Live(d, e) /\ g[s] = d[s]
    BY <1>2, <1>3, <1>4, ValueKinds
  <2> DEFINE m == d[s][2]
             i == d[s][3]
  <2>2. /\ i < Lfns[m] => s - 1 \in Live(d, e) /\ d[s - 1] = lfn(m, i + 1)
        /\ s + 1 \in Live(d, e)
        /\ d[s + 1] = IF i = 1 THEN sfn(m) ELSE lfn(m, i - 1)
    BY <2>1 DEF Sound, Whole, Parses
  <2> HIDE DEF m, i
  <2>3. s + 1 \in Live(g, e) /\ g[s + 1] = d[s + 1]
    BY <2>1, <2>2, <1>6, <1>8
  <2>4. i < Lfns[m] => s - 1 \in Live(g, e) /\ g[s - 1] = d[s - 1]
    BY <2>1, <2>2, <1>7, <1>8, ValueKinds
  <2>5. /\ i < Lfns[m] => s - 1 \in Live(g, e) /\ g[s - 1] = lfn(m, i + 1)
        /\ s + 1 \in Live(g, e)
        /\ g[s + 1] = IF i = 1 THEN sfn(m) ELSE lfn(m, i - 1)
    BY <2>2, <2>3, <2>4
  <2> QED BY <2>1, <2>5 DEF m, i
<1>10. \A s \in Live(g, e) : g[s][1] = "sfn" => s \in Live(d, e) /\ ~In(s) /\ g[s] = d[s]
  BY <1>2, <1>3, <1>4, ValueKinds
<1>11. Unique(g, e)
  BY <1>10 DEF Unique, Sound, Whole
<1>12. Present(g, e) = Present(d, e) \ {n}
  <2>1. ASSUME NEW m \in Present(g, e)
        PROVE  m \in Present(d, e) /\ m # n
    <3>1. PICK s \in Live(g, e) : g[s][1] = "sfn" /\ g[s][2] = m
      BY <2>1, PresentNames
    <3>2. s \in Live(d, e) /\ ~In(s) /\ g[s] = d[s]
      BY <3>1, <1>10
    <3>3. m \in Present(d, e)
      BY <3>1, <3>2, PresentNames
    <3>4. d[s] = sfn(m)
      BY <3>1, <3>2, <1>4, ValueKinds
    <3>5. m # n
      <4> SUFFICES ASSUME m = n PROVE FALSE
        OBVIOUS
      <4>1. d[s] = d[t] /\ d[s][1] = "sfn"
        BY <3>1, <3>2, <3>4
      <4>2. s = t
        BY <4>1, <3>2 DEF Sound, Whole, Unique
      <4> QED BY <4>2, <3>2, <1>1
    <3> QED BY <3>3, <3>5
  <2>2. ASSUME NEW m \in Present(d, e), m # n
        PROVE  m \in Present(g, e)
    <3>1. PICK s \in Live(d, e) : d[s][1] = "sfn" /\ d[s][2] = m
      BY <2>2, PresentNames
    <3>2. ~In(s)
      BY <3>1, <2>2, <1>5, ValueKinds
    <3> QED BY <3>1, <3>2, <1>8, PresentNames
  <2> QED BY <2>1, <2>2
<1>13. ShortDistinct(g, e)
  <2> SUFFICES ASSUME NEW s \in Live(g, e), g[s][1] = "sfn"
               PROVE  \/ s > 0 /\ g[s - 1] = lfn(g[s][2], 1)
                      \/ \A m \in Names : Short[m] = short_of(g[s][2]) => m = g[s][2]
    BY DEF ShortDistinct
  <2>1. s \in Live(d, e) /\ ~In(s) /\ g[s] = d[s]
    BY <1>10
  <2>2. CASE s > 0 /\ d[s - 1] = lfn(d[s][2], 1)
    <3>1. s - 1 \in Live(d, e)
      BY <2>1, <2>2, LiveSlots, SlotRange
    <3> QED BY <3>1, <2>1, <2>2, <1>7, <1>8, ValueKinds
  <2> QED BY <2>1, <2>2 DEF Sound, ShortDistinct
<1> QED BY <1>9, <1>11, <1>12, <1>13 DEF Sound, Whole, g


-----------------------------------------------------------------------------
(* Clusters and sectors. *)

(* Products of natural numbers. *)
LEMMA Products ==
  ASSUME NEW a \in Nat, NEW b \in Nat, NEW k \in Nat
  PROVE  /\ a * k \in Nat /\ (a + b) * k = a * k + b * k
         /\ a <= b => a * k <= b * k
         /\ a < b => (a + 1) * k <= b * k
         /\ (a + 1) * k = a * k + k
<1>1. a * k \in Nat /\ (a + b) * k = a * k + b * k /\ (a + 1) * k = a * k + k
  OBVIOUS
<1>2. ASSUME NEW x \in Nat, NEW y \in Nat, x <= y PROVE x * k <= y * k
  <2>1. PICK d \in Nat : y = x + d
    BY <1>2
  <2>2. d * k \in Nat /\ x * k \in Nat /\ (x + d) * k = x * k + d * k
    OBVIOUS
  <2>3. y * k = x * k + d * k
    BY <2>1, <2>2
  <2> QED BY <2>2, <2>3
<1>3. a < b => a + 1 \in Nat /\ a + 1 <= b
  OBVIOUS
<1> QED BY <1>1, <1>2, <1>3

(* Quotient and remainder. *)
LEMMA Division ==
  ASSUME NEW a \in Nat, NEW k \in Nat \ {0}
  PROVE  /\ a \div k \in Nat /\ a % k \in 0 .. (k - 1)
         /\ a = (a \div k) * k + (a % k)
<1>1. a \in Int /\ k \in Int /\ k > 0
  OBVIOUS
<1>2. a = k * (a \div k) + (a % k) /\ 0 <= a % k /\ a % k < k /\ a \div k \in Int /\ a % k \in Int
  BY <1>1
<1>3. a \div k >= 0
  BY <1>1
<1> QED BY <1>1, <1>2, <1>3

(* They are determined by that. *)
LEMMA DivisionUnique ==
  ASSUME NEW a \in Nat, NEW k \in Nat \ {0}, NEW q \in Nat, NEW m \in 0 .. (k - 1),
         a = q * k + m
  PROVE  a \div k = q /\ a % k = m
<1> DEFINE p == a \div k
           r == a % k
<1>1. p \in Nat /\ r \in 0 .. (k - 1) /\ a = p * k + r
  BY Division
<1> HIDE DEF p, r
<1>2. ~(p < q)
  <2>1. p < q => (p + 1) * k <= q * k /\ (p + 1) * k = p * k + k
    BY <1>1, Products
  <2>2. p * k \in Nat /\ q * k \in Nat
    BY <1>1, Products
  <2> QED BY <1>1, <2>1, <2>2
<1>3. ~(q < p)
  <2>1. q < p => (q + 1) * k <= p * k /\ (q + 1) * k = q * k + k
    BY <1>1, Products
  <2>2. p * k \in Nat /\ q * k \in Nat
    BY <1>1, Products
  <2> QED BY <1>1, <2>1, <2>2
<1>4. p = q
  BY <1>1, <1>2, <1>3
<1>5. r = m
  <2>1. q * k \in Nat
    BY Products
  <2> QED BY <1>1, <1>4, <2>1
<1> QED BY <1>4, <1>5 DEF p, r

(* A number is below c * k if its quotient is below c. *)
LEMMA QuotientBelow ==
  ASSUME NEW a \in Nat, NEW k \in Nat \ {0}, NEW c \in Nat
  PROVE  a \div k < c <=> a < c * k
<1> DEFINE p == a \div k
           r == a % k
<1>1. p \in Nat /\ r \in 0 .. (k - 1) /\ a = p * k + r
  BY Division
<1> HIDE DEF p, r
<1>2. p * k \in Nat /\ c * k \in Nat /\ (p + 1) * k = p * k + k
  BY <1>1, Products
<1>3. p < c => (p + 1) * k <= c * k
  BY <1>1, Products
<1>4. c <= p => c * k <= p * k
  BY <1>1, Products
<1>5. p < c <=> a < c * k
  BY <1>1, <1>2, <1>3, <1>4
<1> QED BY <1>5 DEF p


(* The chain, in slots: one more cluster has slots behind it. *)
LEMMA ChainEnd ==
  ASSUME len \in 1 .. MaxClust
  PROVE  /\ end \in Nat /\ end >= ClustSlots /\ end + ClustSlots <= Top
         /\ (len + 1) * ClustSlots = end + ClustSlots
         /\ end - ClustSlots \in Nat /\ end - ClustSlots = (len - 1) * ClustSlots
         /\ end \in Slots /\ end + 1 \in Slots /\ end + 1 < end + ClustSlots
         /\ outside(end) = Junk /\ outside(end + 1) = Last
<1>1. len \in Nat /\ len - 1 \in Nat /\ (len - 1) + 1 = len /\ MaxClust \in Nat /\ MaxClust + 1 \in Nat
      /\ len + 1 <= MaxClust + 1
  BY DirectoryAssumption
<1>2. ClustSlots \in Nat \ {0} /\ ClustSlots >= 2
  BY SlotRange
<1>3. end \in Nat /\ (len + 1) * ClustSlots = end + ClustSlots
  BY <1>1, <1>2, Products DEF end
<1>4. (len + 1) * ClustSlots <= Top
  BY <1>1, <1>2, Products DEF Top
<1>5. (len - 1) * ClustSlots \in Nat /\ end = (len - 1) * ClustSlots + ClustSlots
  BY <1>1, <1>2, Products DEF end
<1>6. outside(end) = Junk /\ outside(end + 1) = Last
  <2>1. len * ClustSlots + 0 = end /\ 0 \in 0 .. (ClustSlots - 1) /\ 1 \in 0 .. (ClustSlots - 1)
    BY <1>2, <1>3 DEF end
  <2>2. end + 1 \in Nat /\ end = len * ClustSlots + 0 /\ end + 1 = len * ClustSlots + 1
    BY <1>3 DEF end
  <2>3. end % ClustSlots = 0
    BY <1>1, <1>2, <1>3, <2>1, <2>2, DivisionUnique
  <2>4. (end + 1) % ClustSlots = 1
    BY <1>1, <1>2, <2>1, <2>2, DivisionUnique
  <2> QED BY <2>3, <2>4 DEF outside
<1> QED BY <1>2, <1>3, <1>4, <1>5, <1>6, SlotRange

(* dir_next sees the end of the chain where it is. *)
LEMMA AtEnd ==
  ASSUME len \in 1 .. MaxClust, NEW p \in Nat, p < end
  PROVE  at_end(p) <=> p + 1 = end
<1>1. len \in Nat /\ p + 1 \in Nat /\ p + 1 <= end
  BY ChainEnd, DirectoryAssumption
<1>2. ClustSlots \in Nat \ {0}
  BY SlotRange
<1>3. (p + 1) \div ClustSlots < len <=> p + 1 < len * ClustSlots
  BY <1>1, <1>2, QuotientBelow
<1>4. (p + 1) \div ClustSlots \in Nat
  BY <1>1, <1>2, Division
<1>5. (p + 1) \div ClustSlots >= len <=> p + 1 = end
  BY <1>1, <1>3, <1>4, ChainEnd DEF end
<1>6. p + 1 = end => (p + 1) % ClustSlots = 0
  <2> HAVE p + 1 = end
  <2>1. p + 1 = len * ClustSlots + 0 /\ 0 \in 0 .. (ClustSlots - 1)
    BY <1>2, ChainEnd DEF end
  <2> QED BY <1>1, <1>2, <2>1, DivisionUnique
<1> QED BY <1>5, <1>6 DEF at_end

(* Sectors. *)
LEMMA Sectors ==
  /\ PerSector \in Nat \ {0}
  /\ \A x \in Slots : SectorOf[x] \in Nat /\ SectorOf[x] = x \div PerSector
  /\ \A x, y, z \in Slots : x <= y /\ y <= z /\ SectorOf[x] = SectorOf[z] => SectorOf[y] = SectorOf[x]
<1>1. PerSector \in Nat \ {0}
  BY DirectoryAssumption
<1>2. \A x \in Slots : x \in Nat /\ SectorOf[x] = x \div PerSector
  BY SlotRange DEF SlotSectors
<1>3. \A x \in Slots : SectorOf[x] \in Nat
  BY <1>1, <1>2, Division
<1>4. ASSUME NEW x \in Slots, NEW y \in Slots, x <= y
      PROVE  SectorOf[x] <= SectorOf[y]
  <2>1. SectorOf[y] \in Nat /\ SectorOf[x] \in Nat /\ x \in Nat /\ y \in Nat
    BY <1>2, <1>3
  <2>2. x \div PerSector < SectorOf[x] <=> x < SectorOf[x] * PerSector
    BY <2>1, <1>1, QuotientBelow
  <2>3. y \div PerSector < SectorOf[x] <=> y < SectorOf[x] * PerSector
    BY <2>1, <1>1, QuotientBelow
  <2>4. SectorOf[x] * PerSector \in Nat
    BY <2>1, <1>1, Products
  <2> QED BY <2>1, <2>2, <2>3, <2>4, <1>2, <1>4
<1> QED BY <1>1, <1>2, <1>3, <1>4

(* The sectors of the last cluster. *)
LEMMA LastClusterSectors ==
  ASSUME len \in 1 .. MaxClust
  PROVE  /\ StretchFrom \in Nat /\ K \in Nat \ {0}
         /\ SectorOf[end - ClustSlots] = StretchFrom
         /\ \A s \in StretchFrom .. (StretchFrom + K - 1) :
              /\ \E x \in Slots : SectorOf[x] = s
              /\ \A x \in Slots : SectorOf[x] = s => end - ClustSlots <= x /\ x < end
<1> DEFINE P == PerSector
<1>1. P \in Nat \ {0} /\ K \in Nat \ {0} /\ len - 1 \in Nat /\ (len - 1) + 1 = len /\ len \in Nat
  BY DirectoryAssumption
<1>2. StretchFrom \in Nat
  BY <1>1, Products DEF StretchFrom
<1>3. StretchFrom * P = end - ClustSlots
  <2>1. ((len - 1) * K) * P = (len - 1) * (P * K)
    <3>1. ASSUME NEW a \in Nat, NEW b \in Nat, NEW c \in Nat PROVE (a * b) * c = a * (c * b)
      OBVIOUS
    <3> QED BY <3>1, <1>1
  <2> QED BY <2>1, ChainEnd DEF StretchFrom, ClustSlots
<1>4. (StretchFrom + K) * P = end
  <2>1. (StretchFrom + K) * P = StretchFrom * P + K * P
    BY <1>1, <1>2, Products
  <2>2. K * P = ClustSlots
    BY <1>1 DEF ClustSlots
  <2> QED BY <2>1, <2>2, <1>3, ChainEnd, SlotRange
<1>5. end - ClustSlots \in Slots /\ SectorOf[end - ClustSlots] = StretchFrom
  <2>1. end - ClustSlots \in Slots
    BY ChainEnd, SlotRange
  <2>2. end - ClustSlots = StretchFrom * P + 0 /\ 0 \in 0 .. (P - 1) /\ end - ClustSlots \in Nat
    BY <1>1, <1>3, ChainEnd
  <2>3. (end - ClustSlots) \div P = StretchFrom
    BY <2>2, <1>1, <1>2, DivisionUnique
  <2> QED BY <2>1, <2>3, Sectors
<1>6. ASSUME NEW s \in StretchFrom .. (StretchFrom + K - 1)
      PROVE  /\ \E x \in Slots : SectorOf[x] = s
             /\ \A x \in Slots : SectorOf[x] = s => end - ClustSlots <= x /\ x < end
  <2>1. s \in Nat /\ StretchFrom <= s /\ s < StretchFrom + K /\ StretchFrom + K \in Nat
    BY <1>1, <1>2
  <2>2. s * P \in Nat /\ s * P < end
    <3>1. (s + 1) * P = s * P + P /\ s * P \in Nat
      BY <1>1, <2>1, Products
    <3>2. (s + 1) * P <= (StretchFrom + K) * P
      BY <1>1, <2>1, Products
    <3> QED BY <3>1, <3>2, <1>1, <1>4, ChainEnd
  <2>3. SectorOf[s * P] = s /\ s * P \in Slots
    <3>1. s * P \in Slots
      BY <2>2, ChainEnd, SlotRange
    <3>2. (s * P) \div P = s
      <4>1. s * P = s * P + 0 /\ 0 \in 0 .. (P - 1)
        BY <2>2, <1>1
      <4> QED BY <4>1, <2>1, <2>2, <1>1, DivisionUnique
    <3> QED BY <3>1, <3>2, Sectors
  <2>4. ASSUME NEW x \in Slots, SectorOf[x] = s
        PROVE  end - ClustSlots <= x /\ x < end
    <3>1. x \in Nat /\ x \div P = s
      BY <2>4, Sectors, SlotRange
    <3>2. x \div P < StretchFrom <=> x < StretchFrom * P
      BY <3>1, <1>1, <1>2, QuotientBelow
    <3>3. x \div P < StretchFrom + K <=> x < (StretchFrom + K) * P
      BY <3>1, <1>1, <2>1, QuotientBelow
    <3> QED BY <3>1, <3>2, <3>3, <2>1, <1>2, <1>3, <1>4, ChainEnd
  <2> QED BY <2>3, <2>4
<1> QED BY <1>1, <1>2, <1>5, <1>6


-----------------------------------------------------------------------------
(* The sector cache over the slots. *)

LEMMA ViewType ==
  ASSUME CacheOK
  PROVE  View \in [Slots -> SlotValues]
BY CacheTypes, SlotRange DEF CacheOK

LEMMA Elsewhere ==
  /\ CellsOf(elsewhere) = {}
  /\ \A x \in Slots : SectorOf[x] # elsewhere
BY SlotRange, Sectors DEF CellsOf, elsewhere

(* Reading a sector, or leaving the directory, changes nothing in view. *)
LEMMA ReadEffect ==
  ASSUME CacheOK, NEW STATE s, s \in {SectorOf[x] : x \in Slots} \cup {elsewhere}, update_buf(s)
  PROVE  CacheOK' /\ View' = View /\ (disk' = disk \/ disk' = View)
<1>1. View' = View /\ (disk' = disk \/ disk' = View) /\ Coherent' /\ sect' = s /\ dirty' \in BOOLEAN
  BY UpdateEffect DEF CacheOK
<1>2. disk' \in [Slots -> SlotValues]
  BY <1>1, ViewType DEF CacheOK
<1>3. buf' \in [CellsOf(sect') -> SlotValues]
  BY CacheTypes, SlotRange DEF CacheOK
<1> QED BY <1>1, <1>2, <1>3 DEF CacheOK

LEMMA LeaveEffect ==
  ASSUME CacheOK, leave
  PROVE  CacheOK' /\ View' = View /\ disk' = View /\ sect' = elsewhere
<1>1. CacheOK' /\ View' = View
  BY ReadEffect DEF leave
<1>2. sect' = elsewhere
  BY UpdateEffect DEF leave, CacheOK
<1>3. View' = disk'
  <2>1. View' = [x \in Cell |-> disk'[x]]
    BY <1>2, Elsewhere, SlotRange DEF View
  <2>2. disk' = [x \in Cell |-> disk'[x]]
    BY <1>1, SlotRange DEF CacheOK
  <2> QED BY <2>1, <2>2
<1> QED BY <1>1, <1>2, <1>3

LEMMA WriteEffect ==
  ASSUME CacheOK, NEW STATE x, x \in Slots, NEW STATE v, v \in SlotValues, put(x, v)
  PROVE  /\ CacheOK' /\ View' = [View EXCEPT ![x] = v]
         /\ disk' = disk \/ disk' = View
         /\ sect' = SectorOf[x]
         /\ sect = SectorOf[x] => disk' = disk
<1>1. /\ View' = [View EXCEPT ![x] = v]
      /\ disk' = disk \/ disk' = View
      /\ Coherent' /\ sect' = SectorOf[x] /\ dirty' = TRUE
  BY PutEffect, SlotRange DEF CacheOK
<1>2. disk' \in [Slots -> SlotValues]
  BY <1>1, ViewType DEF CacheOK
<1>3. buf' \in [CellsOf(sect') -> SlotValues]
  BY CacheTypes, SlotRange DEF CacheOK
<1>4. sect = SectorOf[x] => disk' = disk
  BY DEF put
<1> QED BY <1>1, <1>2, <1>3, <1>4 DEF CacheOK

LEMMA SyncBufEffect ==
  ASSUME CacheOK, sync_buf
  PROVE  CacheOK' /\ View' = View /\ disk' = View
<1>1. View' = View /\ disk' = View /\ Coherent' /\ dirty' = FALSE /\ sect' = sect
  BY SyncEffect DEF CacheOK
<1>2. disk' \in [Slots -> SlotValues]
  BY <1>1, ViewType DEF CacheOK
<1>3. buf' \in [CellsOf(sect') -> SlotValues]
  BY CacheTypes, SlotRange DEF CacheOK
<1> QED BY <1>1, <1>2, <1>3 DEF CacheOK

LEMMA DropBufEffect ==
  ASSUME CacheOK, drop_buf(elsewhere)
  PROVE  CacheOK' /\ View' = disk /\ disk' = disk
<1>1. View' = disk /\ disk' = disk /\ Coherent' /\ dirty' = FALSE /\ sect' = elsewhere
  <2>1. \A x \in Cell : SectorOf[x] # elsewhere
    BY Elsewhere, SlotRange
  <2>2. DOMAIN disk = Cell /\ disk = [x \in Cell |-> disk[x]]
    BY SlotRange DEF CacheOK
  <2> QED BY <2>1, <2>2, DropEffect
<1>2. buf' \in [CellsOf(sect') -> SlotValues]
  <2>1. buf' = [x \in {} |-> 0]
    BY DEF drop_buf
  <2>2. CellsOf(sect') = CellsOf(elsewhere)
    BY <1>1 DEF CellsOf
  <2> QED BY <2>1, <2>2, Elsewhere
<1> QED BY <1>1, <1>2 DEF CacheOK

(* clust_clear writes a sector to the disk and keeps it in the buffer. *)
LEMMA ClearEffect ==
  ASSUME CacheOK, disk = View, NEW STATE s, s \in {SectorOf[x] : x \in Slots},
         sect' = s, buf' = [x \in CellsOf(s) |-> Last],
         disk' = [x \in Cell |-> IF SectorOf[x] = s THEN Last ELSE disk[x]],
         dirty' = FALSE
  PROVE  /\ CacheOK' /\ disk' = View'
         /\ \A x \in Slots : View'[x] = IF SectorOf[x] = s THEN Last ELSE View[x]
<1>1. View' = disk'
  <2>1. View' = [x \in Cell |-> IF SectorOf[x] = sect' THEN buf'[x] ELSE disk'[x]]
    BY DEF View
  <2>2. \A x \in Cell : (IF SectorOf[x] = sect' THEN buf'[x] ELSE disk'[x])
                          = IF SectorOf[x] = s THEN Last ELSE disk[x]
    BY DEF CellsOf
  <2> QED BY <2>1, <2>2
<1>2. \A x \in Slots : View'[x] = IF SectorOf[x] = s THEN Last ELSE View[x]
  BY <1>1, SlotRange
<1>3. disk' \in [Slots -> SlotValues]
  BY SlotRange, ValueKinds DEF CacheOK
<1>4. buf' \in [CellsOf(sect') -> SlotValues]
  <2>1. buf' \in [CellsOf(s) -> SlotValues]
    BY ValueKinds
  <2>2. CellsOf(sect') = CellsOf(s)
    BY DEF CellsOf
  <2> QED BY <2>1, <2>2
<1>5. Coherent'
  BY <1>4 DEF Coherent, CellsOf
<1> QED BY <1>1, <1>2, <1>3, <1>4, <1>5 DEF CacheOK


-----------------------------------------------------------------------------
(* What the walk over the slots leaves as it is. *)

WalkStep ==
  /\ pc = "search" /\ CacheOK' /\ View' = View /\ (disk' = disk \/ disk' = View)
  /\ UNCHANGED <<len, op, name, cnt, eod, before, promised, split, torn, crashes>>

WalkTypes ==
  /\ at \in 0 .. end \/ (op = "list" /\ at \in 0 .. (end + 1))
  /\ first \in Slots /\ need \in Nat /\ match \in BOOLEAN
  /\ listed \in Seq(Names \cup {"junk"})

LEMMA WalkKeeps ==
  ASSUME DirInv, WalkStep, WalkTypes', pc' \in {"search", "alloc", "return", "unchain"}
  PROVE  /\ end' = end /\ BeyondInv' /\ ClearInv' /\ AddInv' /\ PromiseInv'
         /\ len \in 1 .. MaxClust
         /\ res' \in {"none", "eof", "found", "added", "removed", "full", "broken"} => LocalOK'
         /\ ~torn => /\ Sound(View, end) /\ Sound(View, end)' /\ DiskInv'
                     /\ before = Present(View, end) /\ before' = Present(View, end)'
                     /\ AddingInv' /\ RemovingInv' /\ DoneInv'
<1>1. end' = end
  BY DEF WalkStep, end
<1>2. BeyondInv'
  BY <1>1 DEF DirInv, FrameInv, BeyondInv, WalkStep
<1>3. ClearInv' /\ AddInv'
  BY DEF ClearInv, AddInv, AddPcs
<1>4. LocalOK' \/ res' \notin {"none", "eof", "found", "added", "removed", "full", "broken"}
  BY <1>1 DEF LocalOK, WalkTypes, DirInv, FrameInv, WalkStep
<1>5. PromiseInv'
  <2>1. \A n \in promised : \E s \in Live(View, end) : View[s] = sfn(n)
    BY DEF DirInv, PromiseInv, WalkStep
  <2>2. promised \subseteq Present(View, end)
    BY <2>1, PresentNames, ValueKinds
  <2>3. promised \subseteq Present(disk, end)
    BY DEF DirInv, PromiseInv
  <2>4. promised' \subseteq Present(disk', end)
    BY <2>2, <2>3 DEF WalkStep
  <2> QED BY <2>1, <2>4, <1>1 DEF PromiseInv, WalkStep, AddPcs
<1>6. ASSUME ~torn
      PROVE  /\ Sound(View, end) /\ Sound(View, end)' /\ DiskInv'
             /\ before = Present(View, end) /\ before' = Present(View, end)'
  <2>1. Sound(View, end) /\ before = Present(View, end) /\ DiskInv
    BY <1>6 DEF DirInv, EntryInv, QuietInv, WalkStep, QuietPcs
  <2> QED BY <2>1, <1>1 DEF DiskInv, WalkStep
<1>7. AddingInv' /\ RemovingInv' /\ DoneInv'
  BY DEF AddingInv, RemovingInv, DoneInv, AddPcs
<1> QED BY <1>1, <1>2, <1>3, <1>4, <1>5, <1>6, <1>7 DEF DirInv, FrameInv, LocalOK

(* The walk goes on. *)
LEMMA WalkOn ==
  ASSUME DirInv, WalkStep, WalkTypes', pc' = pc, res' = res, ScanInv', ~torn => EntryScan'
  PROVE  DirInv'
<1>1. pc' = "search"
  BY DEF WalkStep
<1>2. PcInv'
  BY <1>1 DEF DirInv, FrameInv, PcInv, WalkStep, WalkTypes, Pcs, FindPcs, AddPcs
<1>3. LocalOK'
  BY <1>1, WalkKeeps DEF DirInv, FrameInv, LocalOK
<1>4. RemoveInv' /\ FindInv'
  BY <1>1 DEF RemoveInv, FindInv, FindPcs
<1>5. FrameInv' /\ PromiseInv'
  BY <1>1, <1>2, <1>3, <1>4, WalkKeeps DEF FrameInv, WalkStep
<1>6. EntryInv'
  <2> SUFFICES ASSUME ~torn
               PROVE  /\ QuietInv' /\ EntryScan' /\ FoundInv' /\ AddingInv' /\ RemovingInv' /\ DoneInv'
                      /\ DiskInv' /\ CallEffect' /\ ListsMarked'
    BY DEF EntryInv, WalkStep
  <2>1. QuietInv'
    BY <1>1, WalkKeeps DEF QuietInv, FindPcs, AddPcs
  <2>2. FoundInv' /\ CallEffect' /\ ListsMarked'
    BY <1>1 DEF FoundInv, CallEffect, ListsMarked
  <2> QED BY <1>1, <2>1, <2>2, WalkKeeps
<1> QED BY <1>5, <1>6 DEF DirInv

(* It ends without the name, or with all names printed. *)
LEMMA WalkEnds ==
  ASSUME DirInv, WalkStep, WalkTypes', result("eof"),
         ~torn /\ op # "list" => name \notin Present(View, end),
         ~torn /\ op = "list" => ListsMarked'
  PROVE  DirInv'
<1>1. \/ op \in {"open", "mkdir"} /\ pc' = "alloc" /\ res' = res
      \/ op \in {"unlink", "list"} /\ pc' = "return" /\ res' = "eof"
  BY DEF result, DirInv, FrameInv, LocalOK, PcInv, WalkStep
<1>2. PcInv'
  BY <1>1 DEF DirInv, FrameInv, PcInv, WalkStep, WalkTypes, Pcs, FindPcs, AddPcs
<1>3. LocalOK'
  BY <1>1, WalkKeeps DEF DirInv, FrameInv, LocalOK
<1>4. RemoveInv' /\ FindInv' /\ ScanInv'
  BY <1>1 DEF RemoveInv, FindInv, FindPcs, ScanInv
<1>5. FrameInv' /\ PromiseInv'
  BY <1>1, <1>2, <1>3, <1>4, WalkKeeps DEF FrameInv, WalkStep
<1>6. EntryInv'
  <2> SUFFICES ASSUME ~torn
               PROVE  /\ QuietInv' /\ EntryScan' /\ FoundInv' /\ AddingInv' /\ RemovingInv' /\ DoneInv'
                      /\ DiskInv' /\ CallEffect' /\ ListsMarked'
    BY DEF EntryInv, WalkStep
  <2>1. QuietInv'
    BY <1>1, WalkKeeps DEF QuietInv, FindPcs, AddPcs, WalkStep
  <2>2. FoundInv' /\ EntryScan'
    BY <1>1 DEF FoundInv, EntryScan
  <2>3. CallEffect'
    BY <1>1, WalkKeeps DEF CallEffect, WalkStep
  <2>4. ListsMarked'
    BY <1>1 DEF ListsMarked, WalkStep
  <2> QED BY <1>1, <2>1, <2>2, <2>3, <2>4, WalkKeeps
<1> QED BY <1>5, <1>6 DEF DirInv

(* It finds the entry. *)
LEMMA WalkFinds ==
  ASSUME DirInv, WalkStep, WalkTypes', result("found"), op # "list", at' = at,
         first' <= at, at < end, \A s \in first' .. (at - 1) : is_lfn(View[s]),
         ~torn => /\ View[at] = sfn(name)
                  /\ \/ at = first' /\ (at > 0 => ~is_lfn(View[at - 1]))
                     \/ at = first' + Lfns[name] /\ Run(View, first', at, name)
  PROVE  DirInv'
<1>1. \/ op = "unlink" /\ pc' = "unchain" /\ res' = res
      \/ op \in {"open", "mkdir"} /\ pc' = "return" /\ res' = "found"
  BY DEF result, DirInv, FrameInv, LocalOK, PcInv, WalkStep
<1>2. PcInv'
  BY <1>1 DEF DirInv, FrameInv, PcInv, WalkStep, WalkTypes, Pcs, FindPcs, AddPcs
<1>3. LocalOK'
  BY <1>1, WalkKeeps DEF DirInv, FrameInv, LocalOK
<1>4. FindInv' /\ ScanInv'
  BY <1>1 DEF FindInv, FindPcs, ScanInv
<1>5. RemoveInv'
  <2>1. \A t \in Slots : t < at => t < end
    BY WalkKeeps, ChainEnd, SlotRange DEF DirInv, FrameInv, LocalOK
  <2>2. \A t \in Slots : t < at => View[t] # Last
    BY <2>1 DEF DirInv, FrameInv, ScanInv, WalkStep
  <2> QED BY <1>1, <2>2, WalkKeeps DEF RemoveInv, WalkStep
<1>6. FrameInv' /\ PromiseInv'
  BY <1>1, <1>2, <1>3, <1>4, <1>5, WalkKeeps DEF FrameInv, WalkStep
<1>7. EntryInv'
  <2> SUFFICES ASSUME ~torn
               PROVE  /\ QuietInv' /\ EntryScan' /\ FoundInv' /\ AddingInv' /\ RemovingInv' /\ DoneInv'
                      /\ DiskInv' /\ CallEffect' /\ ListsMarked'
    BY DEF EntryInv, WalkStep
  <2>1. QuietInv'
    BY <1>1, WalkKeeps DEF QuietInv, FindPcs, AddPcs, WalkStep
  <2>2. FoundInv' /\ EntryScan'
    BY <1>1 DEF FoundInv, EntryScan, WalkStep, final
  <2>3. name \in before
    <3>1. at \in Live(View, end)
      <4>1. at \in Slots /\ at < end /\ end \in Nat
        BY SlotRange, ChainEnd DEF DirInv, FrameInv, LocalOK
      <4>2. \A t \in Slots : t < at => View[t] # Last
        BY <4>1, SlotRange DEF DirInv, FrameInv, ScanInv, WalkStep
      <4>3. View[at] # Last
        BY ValueKinds
      <4> QED BY <4>1, <4>2, <4>3, LiveSlots, SlotRange
    <3> QED BY <3>1, WalkKeeps, <1>1, PresentNames, ValueKinds
  <2>4. CallEffect' /\ ListsMarked'
    BY <1>1, <2>3, WalkKeeps DEF CallEffect, ListsMarked, WalkStep
  <2> QED BY <1>1, <2>1, <2>2, <2>4, WalkKeeps
<1> QED BY <1>6, <1>7 DEF DirInv

(* It meets something that is no entry. *)
LEMMA WalkBreaks ==
  ASSUME DirInv, WalkStep, WalkTypes', fails("broken"), torn
  PROVE  DirInv'
<1>1. pc' = "return" /\ res' = "broken"
  BY DEF fails
<1>2. PcInv'
  BY <1>1 DEF DirInv, FrameInv, PcInv, WalkStep, WalkTypes, Pcs, FindPcs, AddPcs
<1>3. LocalOK'
  BY <1>1, WalkKeeps
<1>4. FindInv' /\ ScanInv' /\ RemoveInv'
  BY <1>1 DEF FindInv, FindPcs, ScanInv, RemoveInv
<1>5. FrameInv' /\ PromiseInv'
  BY <1>1, <1>2, <1>3, <1>4, WalkKeeps DEF FrameInv, WalkStep
<1>6. EntryInv'
  BY DEF EntryInv, WalkStep
<1> QED BY <1>5, <1>6 DEF DirInv


LEMMA SeenNext ==
  ASSUME NEW d, NEW t \in Slots
  PROVE  /\ d[t][1] = "sfn" => seen(d, t + 1) = seen(d, t) \cup {d[t][2]}
         /\ d[t][1] # "sfn" => seen(d, t + 1) = seen(d, t)
<1>1. \A s \in Slots : s < t + 1 <=> s < t \/ s = t
  BY SlotRange
<1> QED BY <1>1 DEF seen

(* What has been seen once the end marker is met is all there is. *)
LEMMA SeenAll ==
  ASSUME NEW d, NEW e \in Nat, e <= Top, NEW t \in Nat, t <= e,
         \A s \in Slots : s < t => d[s] # Last,
         t = e \/ d[t] = Last
  PROVE  seen(d, t) = Present(d, e)
<1>1. \A s \in Slots : s < t => s \in Live(d, e)
  BY LiveSlots, SlotRange
<1>2. \A s \in Live(d, e) : s \in Slots /\ s < t
  BY LiveSlots, SlotRange
<1> QED BY <1>1, <1>2 DEF seen, Present

(* Where the walk is. *)
LEMMA WalkFrame ==
  ASSUME DirInv, reading, scanFrame
  PROVE  /\ WalkStep /\ len \in 1 .. MaxClust /\ end' = end
         /\ at \in Slots /\ at \in Nat /\ View[at] \in SlotValues
         /\ end \in Nat /\ end <= Top /\ end \in Slots
         /\ \A t \in Slots : t < at /\ t < end => View[t] # Last
         /\ at < end \/ /\ op = "list" /\ need = 0
                        /\ \/ at = end /\ View[at] = Junk
                           \/ at = end + 1 /\ View[at] = Last
         /\ need \in Nat /\ first \in Slots /\ match \in BOOLEAN /\ name \in Names
         /\ listed \in Seq(Names \cup {"junk"})
<1>1. len \in 1 .. MaxClust
  BY DEF DirInv, FrameInv, LocalOK
<1>2. /\ end \in Nat /\ end <= Top /\ end \in Slots /\ end + 1 \in Slots
      /\ outside(end) = Junk /\ outside(end + 1) = Last
  BY <1>1, ChainEnd, SlotRange
<1>3. at \in 0 .. (end + 1)
  BY <1>2 DEF DirInv, FrameInv, LocalOK
<1>4. /\ at < end \/ (op = "list" /\ at \in {end, end + 1} /\ need = 0)
      /\ \A t \in Slots : t < at /\ t < end => View[t] # Last
  BY DEF reading, DirInv, FrameInv, ScanInv
<1>5. at \in Slots /\ at \in Nat
  BY <1>2, <1>3, <1>4, SlotRange
<1>6. at >= end => View[at] = outside(at)
  BY <1>5 DEF DirInv, FrameInv, BeyondInv
<1>7. CacheOK
  BY DEF DirInv, FrameInv
<1>8. View[at] \in SlotValues
  BY <1>5, <1>7, ViewType
<1>9. CacheOK' /\ View' = View /\ (disk' = disk \/ disk' = View)
  <2> DEFINE s == SectorOf[at]
  <2>1. s \in {SectorOf[x] : x \in Slots} \cup {elsewhere} /\ update_buf(s)
    BY <1>5 DEF reading
  <2> HIDE DEF s
  <2> QED BY <2>1, <1>7, ReadEffect
<1>10. WalkStep
  BY <1>9 DEF WalkStep, reading, scanFrame, callVars, historyVars
<1>11. end' = end
  BY DEF scanFrame, end
<1>12. at < end \/ /\ op = "list" /\ need = 0
                   /\ \/ at = end /\ View[at] = Junk
                      \/ at = end + 1 /\ View[at] = Last
  BY <1>2, <1>4, <1>5, <1>6
<1> QED BY <1>1, <1>2, <1>4, <1>5, <1>8, <1>10, <1>11, <1>12
        DEF DirInv, FrameInv, LocalOK, PcInv

(* On to the next slot, or to the end of the walk with the last of the chain. *)
LEMMA WalkOnward ==
  ASSUME DirInv, reading, scanFrame, onward, at < end, View[at] # Last,
         first' \in Slots, need' \in Nat, match' \in BOOLEAN, listed' = listed,
         need' > 0 => first' <= at /\ \A s \in first' .. at : is_lfn(View[s]),
         ~torn /\ op # "list" => name \notin seen(View, at + 1),
         ~torn /\ pc' = "search" => EntryScan'
  PROVE  DirInv'
<1>1. at' = at + 1
  BY DEF onward
<1>2. WalkTypes'
  BY <1>1, WalkFrame DEF WalkTypes
<1>3. \A t \in Slots : t < at + 1 => View[t] # Last
  BY WalkFrame, SlotRange
<1>4. CASE at_end(at) /\ result("eof")
  <2>1. at + 1 = end
    BY <1>4, WalkFrame, AtEnd
  <2>2. seen(View, at + 1) = Present(View, end)
    BY <2>1, <1>3, WalkFrame, SeenAll
  <2>3. ListsMarked'
    <3>1. \A t \in 0 .. (end - 1) : View[t] # Last
      BY <1>3, <2>1, WalkFrame, SlotRange
    <3> QED BY <3>1, WalkFrame DEF ListsMarked, WalkStep
  <2> QED BY <1>2, <1>4, <2>2, <2>3, WalkFrame, WalkEnds
<1>5. CASE ~at_end(at) /\ UNCHANGED <<pc, res>>
  <2>1. at + 1 < end
    BY <1>5, WalkFrame, AtEnd
  <2>2. need' > 0 => first' < at' /\ \A s \in first' .. (at' - 1) : is_lfn(View'[s])
    BY <1>1, WalkFrame, SlotRange DEF WalkStep
  <2>3. ScanInv'
    BY <1>1, <1>3, <2>1, <2>2, WalkFrame DEF ScanInv, WalkStep
  <2>4. pc' = "search"
    BY <1>5 DEF reading
  <2> QED BY <1>2, <1>5, <2>3, <2>4, WalkFrame, WalkOn
<1> QED BY <1>4, <1>5 DEF onward


(* A sequence without repetitions is as long as its set is large. *)
LEMMA OnceEach ==
  ASSUME NEW S, NEW l \in Seq(S), \A i, j \in DOMAIN l : l[i] = l[j] => i = j
  PROVE  Cardinality({l[i] : i \in DOMAIN l}) = Len(l)
<1> DEFINE T == {l[i] : i \in DOMAIN l}
           D == 1 .. Len(l)
<1>1. DOMAIN l = D /\ Len(l) \in Nat
  OBVIOUS
<1>2. l \in [D -> T] /\ l = [i \in D |-> l[i]]
  BY <1>1
<1>3. l \in Bijection(D, T)
  BY <1>1, <1>2 DEF Bijection, Injection, Surjection, IsInjective
<1>4. ExistsBijection(D, T)
  BY <1>3 DEF ExistsBijection
<1> QED BY <1>1, <1>4, FS_CountingElements

(* The end marker. *)
LEMMA ReadLastStep == DirInv /\ ReadLast => DirInv'
<1> SUFFICES ASSUME DirInv, ReadLast
             PROVE  DirInv'
  OBVIOUS
<1>1. /\ reading /\ scanFrame /\ result("eof") /\ View[at] = Last
      /\ UNCHANGED <<at, first, need, crc, match, listed>>
  BY DEF ReadLast, scanVars
<1>2. WalkTypes'
  BY <1>1, WalkFrame DEF WalkTypes, DirInv, FrameInv, LocalOK, WalkStep
<1>3. at < end => seen(View, at) = Present(View, end)
  BY <1>1, WalkFrame, SeenAll, SlotRange
<1>4. ASSUME ~torn, op # "list"
      PROVE  name \notin Present(View, end)
  BY <1>1, <1>3, <1>4, WalkFrame DEF DirInv, EntryInv, EntryScan, reading
<1>5. ASSUME ~torn, op = "list"
      PROVE  ListsMarked'
  <2>1. CASE at < end
    <3>1. /\ {listed[i] : i \in DOMAIN listed} = before
          /\ \A i, j \in DOMAIN listed : listed[i] = listed[j] => i = j
      <4>1. before = Present(View, end)
        BY <1>5 DEF DirInv, EntryInv, QuietInv, ReadLast, reading
      <4> QED BY <1>1, <1>3, <1>5, <2>1, <4>1, WalkFrame DEF DirInv, EntryInv, EntryScan, reading
    <3>2. Len(listed) = Cardinality(before)
      BY <3>1, <1>1, WalkFrame, OnceEach
    <3>3. PrintsAll'
      BY <3>1, <3>2, <1>1, WalkFrame DEF PrintsAll, WalkStep
    <3> QED BY <3>3 DEF ListsMarked
  <2>2. CASE ~(at < end)
    <3>1. \A t \in 0 .. (end - 1) : View[t] # Last
      BY <2>2, <1>1, WalkFrame, SlotRange
    <3> QED BY <3>1, <1>1, WalkFrame DEF ListsMarked, WalkStep
  <2> QED BY <2>1, <2>2
<1> QED BY <1>1, <1>2, <1>4, <1>5, WalkFrame, WalkEnds

(* A slot that was freed. *)
LEMMA ReadFreeStep == DirInv /\ ReadFree => DirInv'
<1> SUFFICES ASSUME DirInv, ReadFree
             PROVE  DirInv'
  OBVIOUS
<1>1. /\ reading /\ scanFrame /\ onward /\ View[at] = Free /\ need = 0
      /\ UNCHANGED <<first, need, crc, match, listed>>
  BY DEF ReadFree, scanVars
<1>2. at < end /\ View[at] # Last /\ View[at][1] # "sfn" /\ ~is_lfn(View[at])
  BY <1>1, WalkFrame, ValueKinds
<1>3. seen(View, at + 1) = seen(View, at)
  BY <1>1, <1>2, WalkFrame, SeenNext
<1>4. ASSUME ~torn
      PROVE  EntryScan' /\ (op # "list" => name \notin seen(View, at + 1))
  <2>1. at' = at + 1 /\ (at + 1) - 1 = at
    BY <1>1, WalkFrame DEF onward
  <2>2. EntryScan /\ pc = "search"
    BY <1>1, <1>4 DEF DirInv, EntryInv, reading
  <2> QED BY <1>1, <1>2, <1>3, <2>1, <2>2, WalkFrame DEF EntryScan, WalkStep
<1> QED BY <1>1, <1>2, <1>4, WalkFrame, WalkOnward

(* A long name begins. *)
LEMMA ReadHeadStep == DirInv /\ ReadHead => DirInv'
<1> SUFFICES ASSUME DirInv, ReadHead
             PROVE  DirInv'
  OBVIOUS
<1> DEFINE v == View[at]
           m == v[2]
<1>1. /\ reading /\ scanFrame /\ need = 0 /\ is_lfn(v)
      /\ first' = at /\ UNCHANGED listed
  BY DEF ReadHead
<1>2. /\ at < end /\ v # Last /\ v[1] # "sfn" /\ m \in Names /\ v[3] \in 1 .. Lfns[m]
      /\ v = lfn(m, v[3])
  BY <1>1, WalkFrame, ValueKinds
<1>3. Lfns[m] \in Nat \ {0}
  BY <1>2, DirectoryAssumption
<1>4. seen(View, at + 1) = seen(View, at)
  BY <1>1, <1>2, WalkFrame, SeenNext
<1>5. CASE v[3] = Lfns[m] /\ need' = v[3] /\ crc' = Short[m] /\ match' = (m = name) /\ onward
  <2>1. at' = at + 1 /\ (at + 1) - 1 = at
    BY <1>1, <1>5, WalkFrame DEF onward
  <2>2. need' \in Nat /\ match' \in BOOLEAN /\ need' > 0
    BY <1>3, <1>5
  <2>3. \A s \in first' .. at : is_lfn(View[s])
    BY <1>1, WalkFrame
  <2>4. ASSUME ~torn
        PROVE  EntryScan' /\ (op # "list" => name \notin seen(View, at + 1))
    <3>1. EntryScan /\ pc = "search"
      BY <1>1, <2>4 DEF DirInv, EntryInv, reading
    <3>2. Run(View, at, at + 1, m)
      <4> SUFFICES ASSUME NEW s \in at .. ((at + 1) - 1)
                   PROVE  View[s] = lfn(m, Lfns[m] - (s - at))
        BY DEF Run
      <4>1. s = at /\ Lfns[m] - (s - at) = Lfns[m]
        BY <1>3, WalkFrame, <1>1
      <4> QED BY <4>1, <1>2, <1>5
    <3>3. at + 1 = at + Lfns[m] - need' + 1 /\ need' <= Lfns[m]
      BY <1>3, <1>5, <1>1, WalkFrame
    <3>4. need' > 0 => \E n \in Names :
                         /\ need' <= Lfns[n] /\ at' = first' + Lfns[n] - need' + 1
                         /\ Run(View', first', at', n)
                         /\ match' = (n = name') /\ crc' = Short[n]
      BY <1>1, <1>2, <1>5, <2>1, <3>2, <3>3, WalkFrame DEF WalkStep
    <3>5. ~(need' = 0)
      BY <2>2
    <3> QED BY <1>1, <1>4, <2>1, <3>1, <3>4, <3>5, WalkFrame DEF EntryScan, WalkStep
  <2> QED BY <1>1, <1>2, <1>5, <2>2, <2>3, <2>4, WalkFrame, WalkOnward
<1>6. CASE v[3] # Lfns[m] /\ fails("broken") /\ UNCHANGED <<at, need, crc, match>>
  <2>1. torn
    <3> SUFFICES ASSUME ~torn
                 PROVE  FALSE
      OBVIOUS
    <3>1. Sound(View, end) /\ EntryScan
      BY <1>1 DEF DirInv, EntryInv, QuietInv, QuietPcs, reading
    <3>2. at \in Live(View, end)
      BY <1>1, <1>2, WalkFrame, LiveSlots, SlotRange
    <3>3. v[3] < Lfns[m]
      BY <1>2, <1>3, <1>6
    <3>4. at - 1 \in Live(View, end) /\ View[at - 1] = lfn(m, v[3] + 1)
      BY <1>1, <3>1, <3>2, <3>3 DEF Sound, Whole, Parses
    <3>5. at > 0 /\ is_lfn(View[at - 1])
      BY <3>4, WalkFrame, <1>1, LiveSlots, SlotRange, ValueKinds
    <3> QED BY <1>1, <3>1, <3>5 DEF EntryScan, reading
  <2>2. WalkTypes'
    BY <1>1, <1>6, WalkFrame DEF WalkTypes, DirInv, FrameInv, LocalOK, WalkStep
  <2> QED BY <1>1, <1>6, <2>1, <2>2, WalkFrame, WalkBreaks
<1> QED BY <1>5, <1>6 DEF ReadHead, scanVars


(* ls prints a name and goes to the next slot, which may be behind the chain. *)
LEMMA WalkPrints ==
  ASSUME DirInv, reading, scanFrame, op = "list", NEW n, n \in Names \cup {"junk"},
         listed' = Append(listed, n), at' = at + 1, need' = 0, UNCHANGED <<pc, res>>,
         first' \in Slots, match' \in BOOLEAN, View[at] # Last,
         ~torn => View[at] = sfn(n)
  PROVE  DirInv'
<1>1. at <= end
  BY WalkFrame
<1>2. listed' \in Seq(Names \cup {"junk"})
  BY WalkFrame, AppendProperties
<1>3. WalkTypes'
  BY <1>1, <1>2, WalkFrame DEF WalkTypes, WalkStep
<1>4. ScanInv'
  <2>1. at' < end' \/ at' \in {end', end' + 1}
    BY <1>1, WalkFrame
  <2>2. \A t \in Slots : t < at' /\ t < end' => View'[t] # Last
    BY WalkFrame, SlotRange DEF WalkStep
  <2> QED BY <2>1, <2>2, WalkFrame DEF ScanInv, WalkStep
<1>5. ASSUME ~torn
      PROVE  EntryScan'
  <2>1. ~is_lfn(View[at]) /\ View[at][1] = "sfn" /\ View[at][2] = n
    BY <1>5, ValueKinds
  <2>2. (at + 1) - 1 = at
    BY WalkFrame
  <2>3. ASSUME at + 1 <= end
        PROVE  /\ {listed'[i] : i \in DOMAIN listed'} = seen(View, at + 1)
               /\ \A i, j \in DOMAIN listed' : listed'[i] = listed'[j] => i = j
    <3>1. at < end
      BY <2>3, WalkFrame
    <3>2. /\ {listed[i] : i \in DOMAIN listed} = seen(View, at)
          /\ \A i, j \in DOMAIN listed : listed[i] = listed[j] => i = j
      BY <1>1, <1>5 DEF DirInv, EntryInv, EntryScan, reading
    <3>3. n \notin seen(View, at)
      <4> SUFFICES ASSUME n \in seen(View, at)
                   PROVE  FALSE
        OBVIOUS
      <4>1. PICK s \in Slots : s < at /\ View[s][1] = "sfn" /\ View[s][2] = n
        BY DEF seen
      <4>2. View[s] = sfn(n)
        <5>1. View[s] \in SlotValues
          BY ViewType DEF DirInv, FrameInv
        <5> QED BY <4>1, <5>1, ValueKinds
      <4>3. s \in Live(View, end) /\ at \in Live(View, end)
        <5>1. at \in Slots /\ end \in Nat /\ \A t \in Slots : t \in Nat
          BY WalkFrame, SlotRange
        <5>2. \A t \in Slots : t <= at => View[t] # Last
          BY <3>1, <5>1, WalkFrame
        <5> QED BY <3>1, <4>1, <5>1, <5>2, LiveSlots
      <4>4. Unique(View, end)
        BY <1>5 DEF DirInv, EntryInv, QuietInv, QuietPcs, reading, Sound, Whole
      <4>5. s = at
        BY <1>5, <4>1, <4>2, <4>3, <4>4 DEF Unique
      <4> QED BY <4>1, <4>5, WalkFrame
    <3> DEFINE k == Len(listed)
    <3>4. /\ k \in Nat /\ DOMAIN listed = 1 .. k /\ DOMAIN listed' = 1 .. (k + 1)
          /\ \A i \in 1 .. k : listed'[i] = listed[i]
          /\ listed'[k + 1] = n
      BY WalkFrame, AppendProperties
    <3> HIDE DEF k
    <3>5. \A i \in 1 .. (k + 1) : i \in 1 .. k \/ i = k + 1
      BY <3>4
    <3>6. \A i \in 1 .. k : listed[i] # n
      BY <3>2, <3>3, <3>4
    <3>7. \A i, j \in DOMAIN listed' : listed'[i] = listed'[j] => i = j
      BY <3>2, <3>4, <3>5, <3>6
    <3>8. {listed'[i] : i \in DOMAIN listed'} = {listed[i] : i \in DOMAIN listed} \cup {n}
      <4>1. 1 .. k \subseteq 1 .. (k + 1) /\ k + 1 \in 1 .. (k + 1)
        BY <3>4
      <4> QED BY <3>4, <3>5, <4>1
    <3>9. seen(View, at + 1) = seen(View, at) \cup {n}
      BY <2>1, WalkFrame, SeenNext
    <3>10. {listed'[i] : i \in DOMAIN listed'} = seen(View, at + 1)
      BY <3>2, <3>8, <3>9
    <3> QED BY <3>7, <3>10
  <2> QED BY <2>1, <2>2, <2>3, WalkFrame DEF EntryScan, WalkStep
<1> QED BY <1>3, <1>4, <1>5, WalkFrame, WalkOn

(* A short slot without a long name. *)
LEMMA ReadShortStep == DirInv /\ ReadShort => DirInv'
<1> SUFFICES ASSUME DirInv, ReadShort
             PROVE  DirInv'
  OBVIOUS
<1> DEFINE v == View[at]
           m == v[2]
           found == short_of(m) = Short[name]
<1>1. /\ reading /\ scanFrame /\ need = 0 /\ v[1] = "sfn"
      /\ first' = at /\ UNCHANGED <<need, crc, match>> /\ entryRead(m, found)
  BY DEF ReadShort, scanVars
<1>2. /\ v # Last /\ v = sfn(m) /\ ~is_lfn(v) /\ m \in Names \cup {"junk"}
  BY <1>1, WalkFrame, ValueKinds
<1>3. op # "list" => at < end
  BY <1>1, WalkFrame
<1>4. CASE op = "list" /\ listed' = Append(listed, m) /\ at' = at + 1 /\ UNCHANGED <<pc, res>>
  BY <1>1, <1>2, <1>4, WalkFrame, WalkPrints
<1>5. ~torn => EntryScan /\ Sound(View, end)
  BY <1>1 DEF DirInv, EntryInv, QuietInv, QuietPcs, reading
<1>6. CASE op # "list" /\ found /\ result("found") /\ UNCHANGED <<at, listed>>
  <2>1. WalkTypes'
    BY <1>1, <1>6, WalkFrame DEF WalkTypes, DirInv, FrameInv, LocalOK, WalkStep
  <2>2. ASSUME ~torn
        PROVE  View[at] = sfn(name) /\ (at > 0 => ~is_lfn(View[at - 1]))
    <3>1. at > 0 => ~is_lfn(View[at - 1])
      BY <1>1, <1>5, <2>2 DEF EntryScan, reading
    <3>2. at \in Live(View, end)
      BY <1>2, <1>3, <1>6, WalkFrame, <1>1, LiveSlots, SlotRange
    <3>3. \A n \in Names : Short[n] = short_of(m) => n = m
      BY <1>1, <1>5, <2>2, <3>1, <3>2, ValueKinds DEF Sound, ShortDistinct
    <3>4. name = m
      BY <1>6, <3>3, <1>1, WalkFrame
    <3> QED BY <1>2, <3>1, <3>4
  <2>3. \A s \in first' .. (at - 1) : is_lfn(View[s])
    BY <1>1, WalkFrame
  <2> QED BY <1>1, <1>3, <1>6, <2>1, <2>2, <2>3, WalkFrame, WalkFinds
<1>7. CASE op # "list" /\ ~found /\ onward /\ UNCHANGED listed
  <2>1. m # name
    BY <1>7, DirectoryAssumption, <1>1, WalkFrame DEF short_of
  <2>2. seen(View, at + 1) = seen(View, at) \cup {m}
    BY <1>1, WalkFrame, SeenNext
  <2>3. ASSUME ~torn
        PROVE  name \notin seen(View, at + 1)
    BY <1>1, <1>5, <1>7, <2>1, <2>2, <2>3 DEF EntryScan, reading
  <2>4. at' = at + 1 /\ (at + 1) - 1 = at
    BY <1>1, <1>7, WalkFrame DEF onward
  <2>5. ASSUME ~torn
        PROVE  EntryScan'
    BY <1>1, <1>2, <1>7, <2>3, <2>4, <2>5, WalkFrame DEF EntryScan, WalkStep
  <2>6. ~(need' > 0)
    BY <1>1
  <2> QED BY <1>1, <1>2, <1>3, <1>7, <2>3, <2>5, <2>6, WalkFrame, WalkOnward
<1> QED BY <1>1, <1>4, <1>6, <1>7 DEF entryRead


(* What the slots already read of a long name say of the one at hand. *)
LEMMA RunNext ==
  ASSUME DirInv, reading, scanFrame, need > 0, ~torn
  PROVE  /\ at < end
         /\ \E n \in Names :
              /\ need \in 1 .. Lfns[n] /\ Lfns[n] \in Nat /\ at = first + Lfns[n] - need + 1
              /\ Run(View, first, at, n) /\ match = (n = name) /\ crc = Short[n]
              /\ need > 1 => View[at] = lfn(n, need - 1) /\ Run(View, first, at + 1, n)
              /\ need = 1 => View[at] = sfn(n)
<1>1. EntryScan /\ Sound(View, end) /\ pc = "search"
  BY DEF DirInv, EntryInv, QuietInv, QuietPcs, reading
<1>2. PICK n \in Names : /\ need <= Lfns[n] /\ at = first + Lfns[n] - need + 1
                         /\ Run(View, first, at, n)
                         /\ match = (n = name) /\ crc = Short[n]
  BY <1>1 DEF EntryScan
<1>3. Lfns[n] \in Nat \ {0} /\ need \in 1 .. Lfns[n] /\ first \in Nat
  BY <1>2, WalkFrame, SlotRange, DirectoryAssumption
<1>4. at - 1 \in first .. (at - 1) /\ Lfns[n] - ((at - 1) - first) = need /\ at - 1 \in Slots
  <2>1. at \in Nat /\ need \in Nat /\ Lfns[n] \in Nat /\ at \in Slots
    BY <1>3, WalkFrame
  <2>2. first <= at - 1 /\ at - 1 \in Nat /\ Lfns[n] - ((at - 1) - first) = need
    BY <1>2, <1>3, <2>1
  <2>3. at - 1 \in Slots
    BY <2>1, <2>2, SlotRange
  <2> QED BY <2>1, <2>2, <2>3
<1>5. View[at - 1] = lfn(n, need)
  BY <1>2, <1>4 DEF Run
<1>6. at < end /\ at - 1 \in Live(View, end)
  BY <1>4, WalkFrame, LiveSlots, SlotRange
<1>7. View[at] = IF need = 1 THEN sfn(n) ELSE lfn(n, need - 1)
  <2>1. is_lfn(View[at - 1]) /\ View[at - 1][2] = n /\ View[at - 1][3] = need
    BY <1>5, ValueKinds
  <2>2. (at - 1) + 1 = at
    BY WalkFrame
  <2> QED BY <1>1, <1>6, <2>1, <2>2 DEF Sound, Whole, Parses
<1>8. need > 1 => Run(View, first, at + 1, n)
  <2> SUFFICES ASSUME need > 1, NEW s \in first .. ((at + 1) - 1)
               PROVE  View[s] = lfn(n, Lfns[n] - (s - first))
    BY DEF Run
  <2>1. CASE s = at
    <3>1. Lfns[n] - (s - first) = need - 1
      <4>1. at \in Nat /\ need \in Nat /\ Lfns[n] \in Nat
        BY <1>3, WalkFrame
      <4> QED BY <1>2, <1>3, <2>1, <4>1
    <3> QED BY <2>1, <3>1, <1>7
  <2>2. CASE s # at
    <3>1. s \in first .. (at - 1)
      BY <2>2, <1>3, WalkFrame
    <3> QED BY <3>1, <1>2 DEF Run
  <2> QED BY <2>1, <2>2
<1> QED BY <1>2, <1>3, <1>6, <1>7, <1>8

(* A slot in the middle of a long name. *)
LEMMA ReadMoreStep == DirInv /\ ReadMore => DirInv'
<1> SUFFICES ASSUME DirInv, ReadMore
             PROVE  DirInv'
  OBVIOUS
<1> DEFINE v == View[at]
           fits == is_lfn(v) /\ Short[v[2]] = crc
<1>1. /\ reading /\ scanFrame /\ need > 1 /\ UNCHANGED <<first, crc, listed>>
  BY DEF ReadMore
<1>2. at < end /\ need > 0
  BY <1>1, WalkFrame
<1>3. first < at /\ \A s \in first .. (at - 1) : is_lfn(View[s])
  BY <1>1, <1>2 DEF DirInv, FrameInv, ScanInv, reading
<1>4. CASE fits /\ need' = need - 1 /\ match' = (match /\ v[2] = name) /\ onward
  <2>1. at' = at + 1 /\ (at + 1) - 1 = at
    BY <1>1, <1>4, WalkFrame DEF onward
  <2>2. need' \in Nat /\ match' \in BOOLEAN /\ need' > 0
    BY <1>1, <1>4, WalkFrame
  <2>3. first' <= at /\ \A s \in first' .. at : is_lfn(View[s])
    <3>1. \A s \in first .. at : s \in first .. (at - 1) \/ s = at
      BY WalkFrame, <1>1, SlotRange
    <3> QED BY <1>1, <1>3, <1>4, <3>1, WalkFrame, SlotRange
  <2>4. View[at] # Last /\ View[at][1] # "sfn"
    BY <1>4, ValueKinds
  <2>5. seen(View, at + 1) = seen(View, at)
    BY <2>4, <1>1, WalkFrame, SeenNext
  <2>6. ASSUME ~torn
        PROVE  EntryScan' /\ (op # "list" => name \notin seen(View, at + 1))
    <3>1. EntryScan /\ pc = "search"
      BY <1>1, <2>6 DEF DirInv, EntryInv, reading
    <3>2. PICK n \in Names :
              /\ need \in 1 .. Lfns[n] /\ Lfns[n] \in Nat /\ at = first + Lfns[n] - need + 1
              /\ match = (n = name) /\ crc = Short[n]
              /\ View[at] = lfn(n, need - 1) /\ Run(View, first, at + 1, n)
      BY <1>1, <1>2, <2>6, RunNext
    <3>3. match' = (n = name)
      <4>1. v[2] = n
        BY <3>2, ValueKinds
      <4> QED BY <1>4, <3>2, <4>1
    <3>4. need' <= Lfns[n] /\ at + 1 = first + Lfns[n] - need' + 1
      <4>1. at \in Nat /\ first \in Nat /\ need \in Nat
        BY <1>1, WalkFrame, SlotRange
      <4> QED BY <1>4, <3>2, <4>1
    <3>5. need' > 0 => \E nn \in Names :
                         /\ need' <= Lfns[nn] /\ at' = first' + Lfns[nn] - need' + 1
                         /\ Run(View', first', at', nn)
                         /\ match' = (nn = name') /\ crc' = Short[nn]
      BY <1>1, <2>1, <3>2, <3>3, <3>4, WalkFrame DEF WalkStep
    <3>6. ~(need' = 0)
      BY <2>2
    <3> QED BY <1>1, <2>1, <2>5, <3>1, <3>5, <3>6, WalkFrame DEF EntryScan, WalkStep
  <2> QED BY <1>1, <1>2, <1>4, <2>2, <2>3, <2>4, <2>6, WalkFrame, WalkOnward
<1>5. CASE ~fits /\ fails("broken") /\ UNCHANGED <<at, need, match>>
  <2>1. torn
    BY <1>1, <1>2, <1>5, RunNext, ValueKinds
  <2>2. WalkTypes'
    BY <1>1, <1>5, WalkFrame DEF WalkTypes, DirInv, FrameInv, LocalOK, WalkStep
  <2> QED BY <1>1, <1>5, <2>1, <2>2, WalkFrame, WalkBreaks
<1> QED BY <1>4, <1>5 DEF ReadMore

(* Its short slot. *)
LEMMA ReadTailStep == DirInv /\ ReadTail => DirInv'
<1> SUFFICES ASSUME DirInv, ReadTail
             PROVE  DirInv'
  OBVIOUS
<1> DEFINE v == View[at]
           fits == ~is_free(v) /\ (is_lfn(v) => op = "list") /\ short_of(v[2]) = crc
<1>1. /\ reading /\ scanFrame /\ need = 1 /\ UNCHANGED <<first, crc, match>>
  BY DEF ReadTail
<1>2. at < end /\ need > 0
  BY <1>1, WalkFrame
<1>3. first < at /\ \A s \in first .. (at - 1) : is_lfn(View[s])
  BY <1>1, <1>2 DEF DirInv, FrameInv, ScanInv, reading
<1>4. ASSUME ~torn
      PROVE  EntryScan /\ pc = "search" /\ Sound(View, end)
  BY <1>1, <1>4 DEF DirInv, EntryInv, QuietInv, QuietPcs, reading
<1>5. ASSUME ~torn
      PROVE  \E n \in Names :
              /\ Lfns[n] \in Nat /\ at = first + Lfns[n] /\ Run(View, first, at, n)
              /\ match = (n = name) /\ crc = Short[n] /\ v = sfn(n) /\ v[2] = n
  <2>1. PICK n \in Names :
              /\ need \in 1 .. Lfns[n] /\ Lfns[n] \in Nat /\ at = first + Lfns[n] - need + 1
              /\ Run(View, first, at, n) /\ match = (n = name) /\ crc = Short[n]
              /\ View[at] = sfn(n)
    BY <1>1, <1>2, <1>5, RunNext
  <2>2. at = first + Lfns[n]
    BY <2>1, <1>1, WalkFrame, SlotRange
  <2>3. v[2] = n
    BY <2>1, ValueKinds
  <2> QED BY <2>1, <2>2, <2>3
<1>6. ASSUME fits
      PROVE  v # Last /\ v[2] \in Names \cup {"junk"}
  BY <1>1, <1>6, WalkFrame, ValueKinds
<1>7. ASSUME fits, need' = 0, entryRead(v[2], match)
      PROVE  DirInv'
  <2>1. CASE op = "list" /\ listed' = Append(listed, v[2]) /\ at' = at + 1 /\ UNCHANGED <<pc, res>>
    <3> DEFINE n == v[2]
    <3>1. ~torn => v = sfn(n)
      BY <1>5
    <3>2. first' \in Slots /\ match' \in BOOLEAN
      BY <1>1, WalkFrame
    <3>3. n \in Names \cup {"junk"} /\ View[at] # Last
      BY <1>6, <1>7
    <3>4. listed' = Append(listed, n)
      BY <2>1
    <3> HIDE DEF n
    <3> QED BY <1>1, <1>7, <2>1, <3>1, <3>2, <3>3, <3>4, WalkPrints
  <2>2. CASE op # "list" /\ match /\ result("found") /\ UNCHANGED <<at, listed>>
    <3>1. WalkTypes'
      BY <1>1, <1>7, <2>2, WalkFrame DEF WalkTypes, DirInv, FrameInv, LocalOK, WalkStep
    <3>2. ~torn => View[at] = sfn(name) /\ at = first' + Lfns[name] /\ Run(View, first', at, name)
      BY <1>1, <1>5, <2>2
    <3>3. first' <= at /\ \A s \in first' .. (at - 1) : is_lfn(View[s])
      <4>1. first \in Nat /\ at \in Nat
        BY <1>1, WalkFrame, SlotRange
      <4> QED BY <1>1, <1>3, <4>1
    <3>4. WalkStep
      BY <1>1, WalkFrame
    <3> QED BY <1>2, <2>2, <3>1, <3>2, <3>3, <3>4, WalkFinds
  <2>3. CASE op # "list" /\ ~match /\ onward /\ UNCHANGED listed
    <3>1. ASSUME ~torn
          PROVE  /\ name \notin seen(View, at + 1) /\ ~is_lfn(View[at])
      <4>1. PICK n \in Names : v = sfn(n) /\ v[2] = n /\ n # name
        BY <1>5, <2>3, <3>1
      <4>2. seen(View, at + 1) = seen(View, at) \cup {n}
        BY <4>1, <1>1, WalkFrame, SeenNext, ValueKinds
      <4>3. name \notin seen(View, at)
        BY <1>4, <2>3, <3>1 DEF EntryScan
      <4> QED BY <4>1, <4>2, <4>3, ValueKinds
    <3>2. at' = at + 1 /\ (at + 1) - 1 = at
      BY <1>1, <2>3, WalkFrame DEF onward
    <3>3. ASSUME ~torn
          PROVE  EntryScan'
      BY <1>1, <1>7, <2>3, <3>1, <3>2, <3>3, WalkFrame DEF EntryScan, WalkStep
    <3>4. ~(need' > 0) /\ need' \in Nat /\ first' \in Slots /\ match' \in BOOLEAN
      BY <1>1, <1>7, WalkFrame
    <3> QED BY <1>1, <1>2, <1>6, <1>7, <2>3, <3>1, <3>3, <3>4, WalkOnward
  <2> QED BY <1>7, <2>1, <2>2, <2>3 DEF entryRead
<1>8. CASE ~fits /\ fails("broken") /\ UNCHANGED <<at, need, listed>>
  <2>1. torn
    <3> SUFFICES ASSUME ~torn PROVE FALSE
      OBVIOUS
    <3>1. PICK n \in Names : v = sfn(n) /\ v[2] = n /\ crc = Short[n]
      BY <1>5
    <3>2. ~is_free(v) /\ ~is_lfn(v)
      BY <3>1, ValueKinds
    <3>3. short_of(v[2]) = crc
      BY <3>1, DirectoryAssumption DEF short_of
    <3> QED BY <1>8, <3>2, <3>3
  <2>2. WalkTypes'
    BY <1>1, <1>8, WalkFrame DEF WalkTypes, DirInv, FrameInv, LocalOK, WalkStep
  <2> QED BY <1>1, <1>8, <2>1, <2>2, WalkFrame, WalkBreaks
<1> QED BY <1>7, <1>8 DEF ReadTail


-----------------------------------------------------------------------------
(* The start, and the calls that begin and end. *)

LEMMA InitInv == Init => DirInv
<1> SUFFICES ASSUME Init
             PROVE  DirInv
  OBVIOUS
<1>1. PICK q \in Initial : disk = mounted(q)
  BY DEF Init
<1>2. q \in Seq(SlotValues) /\ Len(q) <= ClustSlots /\ Len(q) \in Nat
  BY DirectoryAssumption
<1>3. len = 1 /\ len \in 1 .. MaxClust /\ end = ClustSlots
  BY SlotRange, DirectoryAssumption DEF Init, end
<1>4. disk \in [Slots -> SlotValues]
  <2> SUFFICES ASSUME NEW s \in Slots
               PROVE  mounted(q)[s] \in SlotValues
    BY <1>1 DEF mounted
  <2>1. s < Len(q) => q[s + 1] \in SlotValues
    BY <1>2, SlotRange
  <2> QED BY <2>1, ValueKinds DEF mounted
<1>5. sect = elsewhere /\ buf = [x \in {} |-> 0] /\ dirty = FALSE
  BY DEF Init
<1>6. View = disk
  BY <1>4, <1>5, Elsewhere, SlotRange DEF View
<1>7. CacheOK
  <2>1. CellsOf(sect) = {}
    BY <1>5, Elsewhere
  <2> QED BY <1>4, <1>5, <2>1 DEF CacheOK, Coherent
<1>8. BeyondInv
  <2> SUFFICES ASSUME NEW s \in Slots, s >= end
               PROVE  mounted(q)[s] = outside(s)
    BY <1>1, <1>6 DEF BeyondInv
  <2> QED BY <1>2, <1>3, SlotRange DEF mounted, outside
<1>9. LocalOK
  <2>1. 0 \in Slots /\ 0 \in 0 .. end
    BY <1>3, SlotRange, ChainEnd
  <2> QED BY <1>3, <2>1 DEF LocalOK, Init
<1>10. PcInv
  BY DEF PcInv, Init, Pcs, FindPcs, AddPcs
<1>11. FrameInv
  BY <1>7, <1>8, <1>9, <1>10
     DEF FrameInv, Init, ClearInv, ScanInv, RemoveInv, FindInv, AddInv, FindPcs, AddPcs
<1>12. PromiseInv
  <2>1. promised = Present(disk, end) \cap Names
    BY DEF Init
  <2>2. ASSUME NEW n \in promised
        PROVE  \E s \in Live(View, end) : View[s] = sfn(n)
    <3>1. PICK s \in Live(View, end) : View[s][1] = "sfn" /\ View[s][2] = n
      BY <1>6, <2>1, PresentNames
    <3>2. View[s] \in SlotValues
      BY <1>3, <1>4, <1>6, LiveSlots, SlotRange
    <3> QED BY <3>1, <3>2, ValueKinds
  <2> QED BY <2>1, <2>2 DEF PromiseInv, Init, AddPcs
<1>13. Sound(View, end)
  BY <1>1, <1>3, <1>6, InitialAssumption DEF Sound
<1>14. EntryInv
  BY <1>6, <1>13 DEF EntryInv, Init, QuietInv, QuietPcs, EntryScan, FoundInv, AddingInv, RemovingInv,
     DoneInv, DiskInv, CallEffect, ListsMarked, FindPcs, AddPcs
<1> QED BY <1>11, <1>12, <1>14 DEF DirInv

(* Steps that change nothing in view. *)
SameView ==
  /\ CacheOK' /\ View' = View /\ (disk' = disk \/ disk' = View)
  /\ UNCHANGED len

LEMMA SameViewKeeps ==
  ASSUME DirInv, SameView, pc # "sync"
  PROVE  /\ len \in 1 .. MaxClust /\ end' = end /\ BeyondInv'
         /\ promised' \subseteq promised /\ pc' \notin AddPcs => PromiseInv'
         /\ ~torn /\ split' = split /\ pc \in QuietPcs => DiskInv'
<1>1. end' = end
  BY DEF SameView, end
<1>2. BeyondInv'
  BY <1>1 DEF DirInv, FrameInv, BeyondInv, SameView
<1>3. ASSUME promised' \subseteq promised, pc' \notin AddPcs
      PROVE  PromiseInv'
  <2>1. \A n \in promised : \E s \in Live(View, end) : View[s] = sfn(n)
    BY DEF DirInv, PromiseInv
  <2>2. promised \subseteq Present(View, end)
    BY <2>1, PresentNames, ValueKinds
  <2>3. promised \subseteq Present(disk, end)
    BY DEF DirInv, PromiseInv
  <2>4. promised' \subseteq Present(disk', end)
    BY <1>3, <2>2, <2>3 DEF SameView
  <2> QED BY <1>1, <1>3, <2>1, <2>4 DEF PromiseInv, SameView
<1>4. ASSUME ~torn, split' = split, ~split, pc \in QuietPcs
      PROVE  Sound(disk', end)
  BY <1>4 DEF DirInv, EntryInv, QuietInv, DiskInv, SameView
<1> QED BY <1>1, <1>2, <1>3, <1>4 DEF DiskInv, DirInv, FrameInv, LocalOK


LEMMA BeginStep ==
  ASSUME NEW o, o \in {"open", "mkdir", "unlink", "list"}, NEW n, n \in Names
  PROVE  DirInv /\ Begin(o, n) => DirInv'
<1> SUFFICES ASSUME DirInv, Begin(o, n)
             PROVE  DirInv'
  OBVIOUS
<1>1. /\ pc = "idle" /\ pc' = "search" /\ op' = o /\ name' = n
      /\ before' = Present(View, end) /\ promised' \subseteq promised
      /\ UNCHANGED <<disk, sect, buf, dirty, len, at, need, crc, match, first, cnt, eod, listed, res,
                     split, torn, crashes>>
  BY DEF Begin, cacheVars, scanVars, addVars
<1>2. at = 0 /\ need = 0 /\ listed = <<>> /\ cnt = 0 /\ eod = FALSE
  BY <1>1 DEF DirInv, FrameInv, PcInv
<1>3. SameView
  BY <1>1 DEF SameView, CacheOK, Coherent, CellsOf, View, DirInv, FrameInv
<1>4. end' = end /\ BeyondInv' /\ PromiseInv' /\ len \in 1 .. MaxClust
  BY <1>1, <1>3, SameViewKeeps DEF AddPcs
<1>5. LocalOK'
  BY <1>1, <1>2, <1>4, ChainEnd DEF LocalOK, DirInv, FrameInv
<1>6. PcInv'
  BY <1>1, <1>2 DEF PcInv, Pcs, FindPcs, AddPcs, DirInv, FrameInv
<1>7. ScanInv'
  <2>1. 0 < end /\ \A t \in Slots : ~(t < 0)
    BY <1>4, ChainEnd, SlotRange
  <2> QED BY <1>1, <1>2, <1>4, <2>1 DEF ScanInv
<1>8. FrameInv'
  BY <1>1, <1>3, <1>4, <1>5, <1>6, <1>7
     DEF FrameInv, SameView, ClearInv, RemoveInv, FindInv, AddInv, FindPcs, AddPcs
<1>9. EntryInv'
  <2> SUFFICES ASSUME ~torn
               PROVE  /\ QuietInv' /\ EntryScan' /\ FoundInv' /\ AddingInv' /\ RemovingInv' /\ DoneInv'
                      /\ DiskInv' /\ CallEffect' /\ ListsMarked'
    BY <1>1 DEF EntryInv
  <2>1. Sound(View, end)
    BY <1>1 DEF DirInv, EntryInv, QuietInv, QuietPcs
  <2>2. QuietInv'
    BY <1>1, <1>3, <1>4, <2>1 DEF QuietInv, SameView, FindPcs, AddPcs
  <2>3. EntryScan'
    <3>1. seen(View', 0) = {}
      BY SlotRange DEF seen
    <3>2. DOMAIN listed' = {}
      BY <1>1, <1>2
    <3> QED BY <1>1, <1>2, <3>1, <3>2 DEF EntryScan
  <2>4. DiskInv'
    BY <1>1, <1>3, SameViewKeeps DEF QuietPcs
  <2> QED BY <1>1, <2>2, <2>3, <2>4 DEF FoundInv, AddingInv, RemovingInv, DoneInv, CallEffect,
          ListsMarked, AddPcs
<1> QED BY <1>4, <1>8, <1>9 DEF DirInv

LEMMA SyncStep == DirInv /\ Sync => DirInv'
<1> SUFFICES ASSUME DirInv, Sync
             PROVE  DirInv'
  OBVIOUS
<1>1. /\ pc = "idle" /\ sync_buf
      /\ promised' = Present(disk', end) \cap Names /\ split' = FALSE
      /\ UNCHANGED <<len, pc, op, name, at, need, crc, match, first, cnt, eod, listed, res, before,
                     torn, crashes>>
  BY DEF Sync, callVars, scanVars, addVars
<1>2. CacheOK' /\ View' = View /\ disk' = View
  BY <1>1, SyncBufEffect DEF DirInv, FrameInv
<1>3. end' = end /\ BeyondInv' /\ len \in 1 .. MaxClust /\ op = "none"
  BY <1>1, <1>2, SameViewKeeps DEF SameView, DirInv, FrameInv, PcInv
<1>4. LocalOK' /\ PcInv'
  BY <1>1, <1>3 DEF LocalOK, PcInv, DirInv, FrameInv
<1>5. FrameInv'
  BY <1>1, <1>2, <1>3, <1>4
     DEF FrameInv, ClearInv, RemoveInv, FindInv, AddInv, ScanInv, FindPcs, AddPcs
<1>6. PromiseInv'
  <2>1. ASSUME NEW n \in promised'
        PROVE  \E s \in Live(View, end) : View[s] = sfn(n)
    <3>1. PICK s \in Live(View, end) : View[s][1] = "sfn" /\ View[s][2] = n
      BY <1>1, <1>2, PresentNames
    <3>2. View[s] \in SlotValues
      BY <1>3, ViewType, ChainEnd, LiveSlots DEF DirInv, FrameInv
    <3> QED BY <3>1, <3>2, ValueKinds
  <2> QED BY <1>1, <1>2, <1>3, <2>1 DEF PromiseInv, AddPcs
<1>7. EntryInv'
  <2> SUFFICES ASSUME ~torn
               PROVE  /\ QuietInv' /\ EntryScan' /\ FoundInv' /\ AddingInv' /\ RemovingInv' /\ DoneInv'
                      /\ DiskInv' /\ CallEffect' /\ ListsMarked'
    BY <1>1 DEF EntryInv
  <2>1. Sound(View, end)
    BY <1>1 DEF DirInv, EntryInv, QuietInv, QuietPcs
  <2> QED BY <1>1, <1>2, <1>3, <2>1 DEF QuietInv, DiskInv, EntryScan, FoundInv, AddingInv, RemovingInv,
          DoneInv, CallEffect, ListsMarked, AddPcs, FindPcs
<1> QED BY <1>5, <1>6, <1>7 DEF DirInv

LEMMA ReturnStep == DirInv /\ Return => DirInv'
<1> SUFFICES ASSUME DirInv, Return
             PROVE  DirInv'
  OBVIOUS
<1>1. /\ pc = "return" /\ pc' = "idle" /\ op' = "none" /\ res' = "none"
      /\ at' = 0 /\ first' = 0 /\ need' = 0 /\ match' = FALSE
      /\ cnt' = 0 /\ eod' = FALSE /\ listed' = <<>>
      /\ UNCHANGED <<disk, sect, buf, dirty, len, name, promised, split, torn, crashes>>
  BY DEF Return, cacheVars
<1>2. SameView
  BY <1>1 DEF SameView, CacheOK, Coherent, CellsOf, View, DirInv, FrameInv
<1>3. end' = end /\ BeyondInv' /\ PromiseInv' /\ len \in 1 .. MaxClust
  BY <1>1, <1>2, SameViewKeeps DEF AddPcs
<1>4. LocalOK'
  <2>1. 0 \in Slots /\ 0 \in 0 .. end
    BY <1>3, SlotRange, ChainEnd
  <2> QED BY <1>1, <1>3, <2>1 DEF LocalOK, DirInv, FrameInv
<1>5. PcInv'
  BY <1>1 DEF PcInv, Pcs, FindPcs, AddPcs
<1>6. FrameInv'
  BY <1>1, <1>2, <1>3, <1>4, <1>5
     DEF FrameInv, SameView, ClearInv, RemoveInv, FindInv, AddInv, ScanInv, FindPcs, AddPcs
<1>7. EntryInv'
  <2> SUFFICES ASSUME ~torn
               PROVE  /\ QuietInv' /\ EntryScan' /\ FoundInv' /\ AddingInv' /\ RemovingInv' /\ DoneInv'
                      /\ DiskInv' /\ CallEffect' /\ ListsMarked'
    BY <1>1 DEF EntryInv
  <2>1. Sound(View, end)
    BY <1>1 DEF DirInv, EntryInv, QuietInv, QuietPcs
  <2>2. DiskInv'
    BY <1>1, <1>2, SameViewKeeps DEF QuietPcs
  <2> QED BY <1>1, <1>2, <1>3, <2>1, <2>2 DEF QuietInv, SameView, EntryScan, FoundInv, AddingInv,
          RemovingInv, DoneInv, CallEffect, ListsMarked, AddPcs, FindPcs
<1> QED BY <1>3, <1>6, <1>7 DEF DirInv


-----------------------------------------------------------------------------
(* dir_add. *)

LEMMA AllocStep == DirInv /\ Alloc => DirInv'
<1> SUFFICES ASSUME DirInv, Alloc
             PROVE  DirInv'
  OBVIOUS
<1>1. /\ pc = "alloc" /\ leave /\ at' = 0
      /\ \/ pc' = "find" /\ res' = res
         \/ pc' = "return" /\ res' = "full"
      /\ UNCHANGED <<len, op, name, need, crc, match, first, cnt, eod, listed, before, promised, split,
                     torn, crashes>>
  BY DEF Alloc, fails, callVars, scanVars, addVars, historyVars
<1>2. CacheOK' /\ View' = View /\ disk' = View
  BY <1>1, LeaveEffect DEF DirInv, FrameInv
<1>3. SameView
  BY <1>1, <1>2 DEF SameView
<1>4. end' = end /\ BeyondInv' /\ PromiseInv' /\ len \in 1 .. MaxClust
  BY <1>1, <1>3, SameViewKeeps DEF AddPcs
<1>5. cnt = 0 /\ eod = FALSE /\ op \in {"open", "mkdir"} /\ name \in Names
  BY <1>1 DEF DirInv, FrameInv, PcInv, LocalOK
<1>6. LocalOK'
  <2>1. 0 \in 0 .. end
    BY <1>4, ChainEnd
  <2> QED BY <1>1, <1>4, <2>1 DEF LocalOK, DirInv, FrameInv
<1>7. PcInv'
  BY <1>1, <1>5 DEF PcInv, Pcs, FindPcs, AddPcs, DirInv, FrameInv
<1>8. FindInv'
  <2>1. Lfns[name] \in Nat /\ wanted' = Lfns[name] + 1
    BY <1>1, <1>5, DirectoryAssumption DEF wanted
  <2>2. 0 < end' /\ \A t \in Slots : ~(t < 0)
    BY <1>4, ChainEnd, SlotRange
  <2> QED BY <1>1, <1>5, <2>1, <2>2 DEF FindInv, FindPcs
<1>9. FrameInv'
  BY <1>1, <1>2, <1>4, <1>6, <1>7, <1>8
     DEF FrameInv, ClearInv, RemoveInv, AddInv, ScanInv, AddPcs
<1>10. EntryInv'
  <2> SUFFICES ASSUME ~torn
               PROVE  /\ QuietInv' /\ EntryScan' /\ FoundInv' /\ AddingInv' /\ RemovingInv' /\ DoneInv'
                      /\ DiskInv' /\ CallEffect' /\ ListsMarked'
    BY <1>1 DEF EntryInv
  <2>1. Sound(View, end) /\ before = Present(View, end) /\ name \notin before
    BY <1>1 DEF DirInv, EntryInv, QuietInv, QuietPcs
  <2>2. DiskInv'
    BY <1>1, <1>3, SameViewKeeps DEF QuietPcs
  <2>3. CallEffect' /\ ListsMarked'
    BY <1>1, <1>2, <1>4, <1>5, <2>1 DEF CallEffect, ListsMarked
  <2> QED BY <1>1, <1>2, <1>4, <2>1, <2>2, <2>3 DEF QuietInv, EntryScan, FoundInv, AddingInv,
          RemovingInv, DoneInv, AddPcs, FindPcs
<1> QED BY <1>4, <1>9, <1>10 DEF DirInv

(* One slot of the search for room. *)
LEMMA FindStep == DirInv /\ Find => DirInv'
<1> SUFFICES ASSUME DirInv, Find
             PROVE  DirInv'
  OBVIOUS
<1> DEFINE usable == eod \/ is_free(View[at])
<1>1. /\ pc = "find" /\ update_buf(SectorOf[at])
      /\ cnt' = IF usable THEN cnt + 1 ELSE 0
      /\ first' = IF usable /\ cnt = 0 THEN at ELSE first
      /\ eod' = (eod \/ View[at] = Last)
      /\ at' = at + 1
      /\ pc' = IF at_end(at) THEN "stretch" ELSE IF cnt' = wanted THEN "eod" ELSE "find"
      /\ UNCHANGED <<len, op, name, need, crc, match, listed, res, before, promised, split, torn, crashes>>
  BY DEF Find, callVars, scanVars, historyVars
<1>2. /\ cnt <= at /\ cnt < wanted /\ at < end
      /\ cnt > 0 => first = at - cnt
      /\ ~eod => /\ \A t \in Slots : t < at => View[t] # Last
                 /\ \A t \in Slots : at - cnt <= t /\ t < at => View[t] = Free
      /\ eod => /\ cnt > 0
                /\ \E e \in first .. (at - 1) :
                     /\ View[e] = Last
                     /\ \A t \in Slots : t < e => View[t] # Last
                     /\ \A t \in Slots : first <= t /\ t < e => View[t] = Free
  BY <1>1 DEF DirInv, FrameInv, FindInv, FindPcs
<1>3. len \in 1 .. MaxClust /\ name \in Names /\ op \in {"open", "mkdir"} /\ eod \in BOOLEAN
      /\ cnt \in Slots /\ first \in Slots
  BY <1>1 DEF DirInv, FrameInv, LocalOK, PcInv, FindPcs
<1>4. end \in Nat /\ end < Top /\ at \in Slots /\ at \in Nat /\ cnt \in Nat /\ first \in Nat
  BY <1>1, <1>2, <1>3, ChainEnd, SlotRange DEF DirInv, FrameInv, LocalOK
<1>5. wanted = Lfns[name] + 1 /\ wanted' = wanted /\ Lfns[name] \in Nat
  BY <1>1, <1>3, DirectoryAssumption DEF wanted
<1>6. SameView
  <2> DEFINE s == SectorOf[at]
  <2>1. s \in {SectorOf[x] : x \in Slots} \cup {elsewhere} /\ update_buf(s)
    BY <1>1, <1>4
  <2> HIDE DEF s
  <2> QED BY <2>1, <1>1, ReadEffect DEF SameView, DirInv, FrameInv
<1>7. pc' \in {"stretch", "eod", "find"} /\ (at_end(at) <=> at + 1 = end)
  BY <1>1, <1>3, <1>4, <1>2, AtEnd
<1>8. end' = end /\ BeyondInv' /\ PromiseInv'
  BY <1>1, <1>6, <1>7, SameViewKeeps DEF AddPcs
<1>9. cnt' \in Nat /\ cnt' <= at + 1 /\ cnt' <= wanted /\ cnt' \in Slots /\ first' \in Slots
      /\ eod' \in BOOLEAN /\ at + 1 <= end
  BY <1>1, <1>2, <1>3, <1>4, <1>5, SlotRange
<1>10. LocalOK'
  BY <1>1, <1>3, <1>4, <1>8, <1>9 DEF LocalOK, DirInv, FrameInv
<1>11. PcInv'
  BY <1>1, <1>3, <1>7 DEF PcInv, Pcs, FindPcs, AddPcs, DirInv, FrameInv
<1>12. FindInv'
  <2>1. pc' = "find" => cnt' < wanted' /\ at' < end'
    BY <1>1, <1>5, <1>7, <1>8, <1>9, <1>4
  <2>2. pc' = "eod" => cnt' = wanted' /\ at' < end'
    BY <1>1, <1>5, <1>7, <1>8, <1>9, <1>4
  <2>3. pc' = "stretch" => at' = end'
    BY <1>1, <1>7, <1>8
  <2>4. cnt' > 0 => first' = at' - cnt'
    BY <1>1, <1>2, <1>4
  <2>5. ASSUME ~eod'
        PROVE  /\ \A t \in Slots : t < at' => View'[t] # Last
               /\ \A t \in Slots : at' - cnt' <= t /\ t < at' => View'[t] = Free
    <3>1. ~eod /\ View[at] # Last
      BY <1>1, <2>5
    <3>2. \A t \in Slots : t < at' => View'[t] # Last
      BY <1>1, <1>2, <1>4, <1>6, <3>1, SlotRange DEF SameView
    <3>3. ASSUME NEW t \in Slots, at' - cnt' <= t, t < at'
          PROVE  View'[t] = Free
      <4>1. CASE usable
        <5>1. View[at] = Free
          BY <4>1, <3>1 DEF is_free
        <5>2. cnt' = cnt + 1 /\ (t < at \/ t = at) /\ at - cnt <= t
          BY <1>1, <1>4, <3>3, <4>1, SlotRange
        <5> QED BY <1>2, <1>6, <3>1, <5>1, <5>2 DEF SameView
      <4>2. CASE ~usable
        BY <1>1, <1>4, <3>3, <4>2, SlotRange
      <4> QED BY <4>1, <4>2
    <3> QED BY <3>2, <3>3
  <2>6. ASSUME eod'
        PROVE  /\ cnt' > 0
               /\ \E e \in first' .. (at' - 1) :
                    /\ View'[e] = Last
                    /\ \A t \in Slots : t < e => View'[t] # Last
                    /\ \A t \in Slots : first' <= t /\ t < e => View'[t] = Free
    <3>1. usable /\ cnt' = cnt + 1
      BY <1>1, <2>6 DEF is_free
    <3>2. CASE eod
      <4>1. first' = first /\ cnt > 0
        BY <1>1, <1>2, <3>2, <1>4
      <4>2. \A e \in first .. (at - 1) : e \in first' .. (at' - 1)
        BY <1>1, <1>4, <4>1
      <4> QED BY <1>2, <1>4, <1>6, <3>1, <3>2, <4>1, <4>2 DEF SameView
    <3>3. CASE ~eod
      <4>1. View[at] = Last
        BY <1>1, <2>6, <3>3
      <4>2. first' \in Nat /\ first' <= at /\ first' = at - cnt
        BY <1>1, <1>2, <1>4, <3>1
      <4>3. at \in first' .. (at' - 1)
        BY <1>1, <1>4, <4>2
      <4>4. \A t \in Slots : first' <= t /\ t < at => View[t] = Free
        BY <1>2, <3>3, <4>2
      <4> QED BY <1>2, <1>4, <1>6, <3>1, <3>3, <4>1, <4>3, <4>4 DEF SameView
    <3> QED BY <3>2, <3>3
  <2>7. cnt' <= at' /\ cnt' <= wanted'
    BY <1>1, <1>5, <1>9
  <2> QED BY <1>7, <2>1, <2>2, <2>3, <2>4, <2>5, <2>6, <2>7 DEF FindInv
<1>13. FrameInv'
  BY <1>6, <1>7, <1>8, <1>10, <1>11, <1>12
     DEF FrameInv, ClearInv, RemoveInv, AddInv, ScanInv, AddPcs, SameView
<1>14. EntryInv'
  <2> SUFFICES ASSUME ~torn
               PROVE  /\ QuietInv' /\ EntryScan' /\ FoundInv' /\ AddingInv' /\ RemovingInv' /\ DoneInv'
                      /\ DiskInv' /\ CallEffect' /\ ListsMarked'
    BY <1>1 DEF EntryInv
  <2>1. Sound(View, end) /\ before = Present(View, end) /\ name \notin before
    BY <1>1 DEF DirInv, EntryInv, QuietInv, QuietPcs, FindPcs
  <2>2. DiskInv'
    BY <1>1, <1>6, SameViewKeeps DEF QuietPcs
  <2>3. QuietInv'
    BY <1>1, <1>6, <1>7, <1>8, <2>1 DEF QuietInv, SameView
  <2> QED BY <1>7, <2>2, <2>3 DEF EntryScan, FoundInv, AddingInv, CallEffect, ListsMarked,
          RemovingInv, DoneInv, AddPcs
<1> QED BY <1>8, <1>13, <1>14 DEF DirInv


(* What is promised stays, as long as its short slot does. *)
LEMMA PromiseKept ==
  ASSUME DirInv, pc # "sync" \/ op # "unlink", promised' = promised,
         ((disk' = disk \/ disk' = View) /\ end' = end) \/ disk' = View',
         \A n \in promised : \A s \in Live(View, end) :
           View[s] = sfn(n) /\ (pc \in AddPcs => s \notin first .. final)
             => /\ s \in Live(View', end') /\ View'[s] = sfn(n)
                /\ pc' \in AddPcs => s \notin first' .. final'
  PROVE  PromiseInv'
<1>1. \A n \in promised : \E s \in Live(View', end') :
        View'[s] = sfn(n) /\ (pc' \in AddPcs => s \notin first' .. final')
  BY DEF DirInv, PromiseInv
<1>2. promised \subseteq Present(View', end')
  BY <1>1, PresentNames, ValueKinds
<1>3. promised \subseteq Present(View, end)
  <2>1. \A n \in promised : \E s \in Live(View, end) : View[s] = sfn(n)
    BY DEF DirInv, PromiseInv
  <2> QED BY <2>1, PresentNames, ValueKinds
<1>4. promised \subseteq Present(disk', end')
  BY <1>2, <1>3 DEF DirInv, PromiseInv
<1> QED BY <1>1, <1>4 DEF PromiseInv

(* The chain gets a cluster, not yet cleared, or the call fails. *)
LEMMA StretchStep == DirInv /\ Stretch => DirInv'
<1> SUFFICES ASSUME DirInv, Stretch
             PROVE  DirInv'
  OBVIOUS
<1>1. /\ pc = "stretch" /\ leave
      /\ UNCHANGED <<op, name, at, need, crc, match, first, cnt, eod, listed, before, promised, torn, crashes>>
  BY DEF Stretch, callVars, scanVars, addVars
<1>2. CacheOK' /\ View' = View /\ disk' = View /\ sect' = elsewhere
  BY <1>1, LeaveEffect DEF DirInv, FrameInv
<1>3. len \in 1 .. MaxClust /\ name \in Names /\ op \in {"open", "mkdir"} /\ at = end
  BY <1>1 DEF DirInv, FrameInv, LocalOK, PcInv, FindPcs, FindInv
<1>4. ASSUME ~torn
      PROVE  Sound(View, end) /\ before = Present(View, end) /\ name \notin before
  BY <1>1, <1>4 DEF DirInv, EntryInv, QuietInv, QuietPcs, FindPcs
<1>5. CASE fails("full") /\ UNCHANGED <<len, split>>
  <2>1. pc' = "return" /\ res' = "full" /\ SameView
    BY <1>2, <1>5 DEF SameView, fails
  <2>2. end' = end /\ BeyondInv' /\ PromiseInv'
    BY <1>1, <2>1, SameViewKeeps DEF AddPcs
  <2>3. LocalOK' /\ PcInv'
    BY <1>1, <1>3, <1>5, <2>1, <2>2 DEF LocalOK, PcInv, Pcs, FindPcs, AddPcs, DirInv, FrameInv
  <2>4. FrameInv'
    BY <1>2, <2>1, <2>2, <2>3
       DEF FrameInv, ClearInv, RemoveInv, FindInv, AddInv, ScanInv, FindPcs, AddPcs
  <2>5. EntryInv'
    <3> SUFFICES ASSUME ~torn
                 PROVE  /\ QuietInv' /\ EntryScan' /\ FoundInv' /\ AddingInv' /\ RemovingInv' /\ DoneInv'
                        /\ DiskInv' /\ CallEffect' /\ ListsMarked'
      BY <1>1 DEF EntryInv
    <3>1. DiskInv'
      BY <1>1, <1>5, <2>1, SameViewKeeps DEF QuietPcs
    <3>2. CallEffect' /\ ListsMarked'
      BY <1>1, <1>2, <1>3, <1>4, <2>1, <2>2 DEF CallEffect, ListsMarked
    <3> QED BY <1>1, <1>2, <1>4, <2>1, <2>2, <3>1, <3>2 DEF QuietInv, EntryScan, FoundInv, AddingInv,
            RemovingInv, DoneInv, AddPcs, FindPcs
  <2> QED BY <2>2, <2>4, <2>5 DEF DirInv
<1>6. CASE len < MaxClust /\ len' = len + 1 /\ split' = (split \/ ~eod) /\ pc' = "clear" /\ UNCHANGED res
  <2>1. /\ len' \in 1 .. MaxClust /\ end' = end + ClustSlots
        /\ end \in Nat /\ end' \in Nat /\ end < end' /\ end' - ClustSlots = end
    <3>1. end' = (len + 1) * ClustSlots
      BY <1>6 DEF end
    <3>2. end \in Nat /\ (len + 1) * ClustSlots = end + ClustSlots
      BY <1>3, ChainEnd
    <3>3. len' \in 1 .. MaxClust
      BY <1>3, <1>6, DirectoryAssumption
    <3> QED BY <3>1, <3>2, <3>3, SlotRange
  <2>2. \A s \in Slots : s >= end => View[s] = outside(s)
    BY DEF DirInv, FrameInv, BeyondInv
  <2>3. BeyondInv'
    BY <1>2, <2>1, <2>2, SlotRange DEF BeyondInv
  <2>4. LocalOK'
    BY <1>1, <1>3, <1>6, <2>1 DEF LocalOK, DirInv, FrameInv
  <2>5. PcInv'
    BY <1>1, <1>3, <1>6 DEF PcInv, Pcs, FindPcs, AddPcs, DirInv, FrameInv
  <2>6. ClearInv'
    BY <1>2, <2>1, <2>2 DEF ClearInv, outside
  <2>7. FindInv'
    BY <1>1, <1>2, <1>3, <1>6, <2>1 DEF FindInv, FindPcs, wanted, DirInv, FrameInv
  <2>8. FrameInv'
    BY <1>2, <1>6, <2>3, <2>4, <2>5, <2>6, <2>7 DEF FrameInv, RemoveInv, AddInv, ScanInv, AddPcs
  <2>9. PromiseInv'
    <3>1. \A s \in Live(View, end) : s \in Live(View', end')
      BY <1>2, <2>1, LiveSlots, SlotRange
    <3> QED BY <1>1, <1>2, <1>6, <3>1, PromiseKept DEF AddPcs
  <2>10. EntryInv'
    <3> SUFFICES ASSUME ~torn
                 PROVE  /\ QuietInv' /\ EntryScan' /\ FoundInv' /\ AddingInv' /\ RemovingInv' /\ DoneInv'
                        /\ DiskInv' /\ CallEffect' /\ ListsMarked'
      BY <1>1 DEF EntryInv
    <3>1. DiskInv'
      <4> SUFFICES ASSUME eod
                   PROVE  Sound(disk', end')
        BY <1>6 DEF DiskInv, DirInv, FrameInv, LocalOK
      <4>1. PICK k \in first .. (at - 1) : View[k] = Last
        BY <1>1 DEF DirInv, FrameInv, FindInv, FindPcs
      <4>2. k \in Slots /\ k < end
        BY <1>3, <2>1, <4>1, ChainEnd, SlotRange DEF DirInv, FrameInv, LocalOK
      <4>3. Sound(View, end')
        BY <1>4, <2>1, <4>1, <4>2, MarkerBehind
      <4> QED BY <1>2, <4>3
    <3>2. QuietInv'
      BY <1>1, <1>2, <1>4, <1>6, <2>1 DEF QuietInv, QuietPcs
    <3> QED BY <1>6, <3>1, <3>2 DEF EntryScan, FoundInv, AddingInv, RemovingInv, DoneInv, CallEffect,
            ListsMarked, AddPcs
  <2> QED BY <2>8, <2>9, <2>10 DEF DirInv
<1> QED BY <1>5, <1>6 DEF Stretch


(* One sector of the new cluster is cleared; the first of them ends the directory. *)
LEMMA ClearStep == DirInv /\ Clear => DirInv'
<1> SUFFICES ASSUME DirInv, Clear
             PROVE  DirInv'
  OBVIOUS
<1> DEFINE s == IF sect = elsewhere THEN StretchFrom ELSE sect + 1
           from == end - ClustSlots
<1>1. /\ pc = "clear"
      /\ sect' = s /\ buf' = [x \in CellsOf(s) |-> Last]
      /\ disk' = [x \in Cell |-> IF SectorOf[x] = s THEN Last ELSE disk[x]]
      /\ dirty' = FALSE
      /\ pc' = IF s < StretchFrom + K - 1 THEN "clear" ELSE IF cnt = wanted THEN "eod" ELSE "find"
      /\ UNCHANGED <<len, op, name, at, need, crc, match, first, cnt, eod, listed, res, before,
                     promised, split, torn, crashes>>
  BY DEF Clear, callVars, scanVars, addVars, historyVars
<1>2. len \in 1 .. MaxClust /\ name \in Names /\ op \in {"open", "mkdir"} /\ at = from
      /\ cnt <= wanted /\ cnt \in Slots
  BY <1>1 DEF DirInv, FrameInv, LocalOK, PcInv, FindPcs, FindInv
<1>3. /\ disk = View
      /\ sect = elsewhere \/ sect \in StretchFrom .. (StretchFrom + K - 2)
      /\ sect # elsewhere => View[from] = Last
      /\ \A x \in Slots : x >= from => View[x] \in {Junk, Last}
  BY <1>1 DEF DirInv, FrameInv, ClearInv
<1>4. /\ StretchFrom \in Nat /\ K \in Nat \ {0} /\ SectorOf[from] = StretchFrom
      /\ end \in Nat /\ from \in Nat /\ from \in Slots /\ from < end
  BY <1>2, LastClusterSectors, ChainEnd, SlotRange
<1>5. s \in StretchFrom .. (StretchFrom + K - 1)
  BY <1>3, <1>4
<1>6. /\ s \in {SectorOf[x] : x \in Slots}
      /\ \A x \in Slots : SectorOf[x] = s => from <= x /\ x < end
  BY <1>2, <1>5, LastClusterSectors
<1>7. /\ CacheOK' /\ disk' = View'
      /\ \A x \in Slots : View'[x] = IF SectorOf[x] = s THEN Last ELSE View[x]
  <2> HIDE DEF s, from
  <2> QED BY <1>1, <1>3, <1>6, ClearEffect DEF DirInv, FrameInv
<1>8. /\ View'[from] = Last
      /\ \A x \in Slots : x < from => View'[x] = View[x]
      /\ \A x \in Slots : x >= from => View'[x] \in {Junk, Last}
      /\ \A x \in Slots : x >= end => View'[x] = View[x]
  <2>1. View'[from] = Last
    BY <1>3, <1>4, <1>7
  <2>2. \A x \in Slots : x < from => SectorOf[x] # s
    BY <1>4, <1>6, SlotRange
  <2>3. \A x \in Slots : x >= end => SectorOf[x] # s
    BY <1>4, <1>6, SlotRange
  <2> QED BY <1>3, <1>7, <2>1, <2>2, <2>3
<1> HIDE DEF from
<1>9. end' = end /\ len' = len /\ (end - ClustSlots)' = from /\ StretchFrom' = StretchFrom
      /\ end - ClustSlots = from
  BY <1>1 DEF end, StretchFrom, from
<1>10. BeyondInv'
  BY <1>7, <1>8, <1>9 DEF BeyondInv, outside, DirInv, FrameInv
<1>11. LocalOK'
  BY <1>1, <1>9 DEF LocalOK, DirInv, FrameInv
<1>12. PcInv'
  BY <1>1 DEF PcInv, Pcs, FindPcs, AddPcs, DirInv, FrameInv
<1>13. ClearInv'
  <2> SUFFICES ASSUME pc' = "clear"
               PROVE  ClearInv'
    BY DEF ClearInv
  <2>1. s < StretchFrom + K - 1
    BY <1>1
  <2>2. s \in StretchFrom .. (StretchFrom + K - 2)
    BY <1>4, <1>5, <2>1
  <2> QED BY <1>1, <1>7, <1>8, <1>9, <2>2 DEF ClearInv
<1>14. FindInv'
  <2>1. \A t \in Slots : t < at => View'[t] = View[t]
    BY <1>2, <1>8
  <2>2. eod => /\ cnt > 0 /\ first \in Slots
               /\ \E e \in first .. (at - 1) :
                    /\ View[e] = Last
                    /\ \A t \in Slots : t < e => View[t] # Last
                    /\ \A t \in Slots : first <= t /\ t < e => View[t] = Free
    BY <1>1 DEF DirInv, FrameInv, FindInv, FindPcs, LocalOK
  <2>3. ASSUME eod
        PROVE  \E e \in first .. (at - 1) :
                 /\ View'[e] = Last
                 /\ \A t \in Slots : t < e => View'[t] # Last
                 /\ \A t \in Slots : first <= t /\ t < e => View'[t] = Free
    <3>1. PICK e \in first .. (at - 1) :
            /\ View[e] = Last
            /\ \A t \in Slots : t < e => View[t] # Last
            /\ \A t \in Slots : first <= t /\ t < e => View[t] = Free
      BY <2>2, <2>3
    <3>2. e \in Slots /\ e < at /\ \A t \in Slots : t < e => t < at
      BY <1>2, <1>4, <2>2, <2>3, SlotRange
    <3> QED BY <2>1, <3>1, <3>2
  <2>4. ~eod => /\ \A t \in Slots : t < at => View'[t] # Last
                /\ \A t \in Slots : at - cnt <= t /\ t < at => View'[t] = Free
    BY <1>1, <2>1 DEF DirInv, FrameInv, FindInv, FindPcs
  <2>5. cnt <= at /\ (cnt > 0 => first = at - cnt)
    BY <1>1 DEF DirInv, FrameInv, FindInv, FindPcs
  <2>6. cnt # wanted => cnt < wanted
    BY <1>2, SlotRange, DirectoryAssumption DEF wanted
  <2>7. wanted' = wanted /\ pc' \in {"clear", "eod", "find"}
    BY <1>1 DEF wanted
  <2>8. pc' = "eod" => cnt = wanted
    BY <1>1
  <2>9. pc' = "find" => cnt < wanted
    BY <1>1, <2>6
  <2> QED BY <1>1, <1>2, <1>4, <1>9, <2>2, <2>3, <2>4, <2>5, <2>7, <2>8, <2>9 DEF FindInv
<1>15. FrameInv'
  BY <1>1, <1>7, <1>10, <1>11, <1>12, <1>13, <1>14
     DEF FrameInv, RemoveInv, AddInv, ScanInv, AddPcs
<1>16. PromiseInv'
  <2>1. ASSUME NEW n \in promised, NEW x \in Live(View, end), View[x] = sfn(n)
        PROVE  x \in Live(View', end) /\ View'[x] = sfn(n)
    <3>1. n \in Names /\ x \in Slots /\ x < end
      BY <1>4, <2>1, LiveSlots DEF DirInv, FrameInv, LocalOK
    <3>2. sfn(n) # Junk /\ sfn(n) # Last
      BY <3>1, ValueKinds, DirectoryAssumption
    <3>3. x < from
      BY <1>3, <1>4, <2>1, <3>1, <3>2, SlotRange
    <3>4. \A t \in Slots : t <= x => View'[t] = View[t]
      BY <1>4, <1>8, <3>1, <3>3, SlotRange
    <3> QED BY <1>4, <2>1, <3>1, <3>4, LiveSlots, SlotRange
  <2>2. pc' \notin AddPcs /\ pc # "sync" /\ promised' = promised /\ end' = end /\ disk' = View'
    BY <1>1, <1>7, <1>9 DEF AddPcs
  <2> QED BY <2>1, <2>2, PromiseKept
<1>17. EntryInv'
  <2> SUFFICES ASSUME ~torn
               PROVE  /\ QuietInv' /\ EntryScan' /\ FoundInv' /\ AddingInv' /\ RemovingInv' /\ DoneInv'
                      /\ DiskInv' /\ CallEffect' /\ ListsMarked'
    BY <1>1 DEF EntryInv
  <2>1. Sound(View, from) /\ before = Present(View, from) /\ name \notin before
    BY <1>1, <1>9 DEF DirInv, EntryInv, QuietInv, FindPcs
  <2>2. Sound(View', from) /\ Present(View', from) = before
    BY <1>4, <1>8, <2>1, MarkerBehind
  <2>3. Sound(View', end) /\ Present(View', end) = before
    <3>1. from <= end
      BY <1>4
    <3> QED BY <1>4, <1>8, <2>1, <3>1, MarkerBehind
  <2>4. QuietInv'
    BY <1>1, <1>9, <2>1, <2>2, <2>3 DEF QuietInv
  <2>5. DiskInv'
    BY <1>7, <1>9, <2>3 DEF DiskInv
  <2> QED BY <1>1, <2>4, <2>5 DEF EntryScan, FoundInv, AddingInv, RemovingInv, DoneInv, CallEffect,
          ListsMarked, AddPcs
<1> QED BY <1>15, <1>16, <1>17 DEF DirInv


(* The new end marker; the entry can now be written in front of it. *)
LEMMA NewEndStep == DirInv /\ NewEnd => DirInv'
<1> SUFFICES ASSUME DirInv, NewEnd
             PROVE  DirInv'
  OBVIOUS
<1>1. /\ pc = "eod" /\ pc' = "addLong"
      /\ IF eod THEN put(at, Last) ELSE UNCHANGED <<disk, sect, buf, dirty>>
      /\ at' = first /\ cnt' = Lfns[name]
      /\ split' = (split \/ straddling(first, first + Lfns[name]))
      /\ UNCHANGED <<len, op, name, need, crc, match, first, eod, listed, res, before, promised,
                     torn, crashes>>
  BY DEF NewEnd, callVars, scanVars, cacheVars
<1>2. len \in 1 .. MaxClust /\ name \in Names /\ op \in {"open", "mkdir"}
      /\ first \in Slots /\ cnt \in Slots /\ eod \in BOOLEAN
  BY <1>1 DEF DirInv, FrameInv, LocalOK, PcInv, FindPcs
<1>3. /\ cnt = wanted /\ at < end /\ cnt <= at
      /\ cnt > 0 => first = at - cnt
      /\ ~eod => /\ \A t \in Slots : t < at => View[t] # Last
                 /\ \A t \in Slots : at - cnt <= t /\ t < at => View[t] = Free
      /\ eod => \E e \in first .. (at - 1) :
                   /\ View[e] = Last
                   /\ \A t \in Slots : t < e => View[t] # Last
                   /\ \A t \in Slots : first <= t /\ t < e => View[t] = Free
  BY <1>1 DEF DirInv, FrameInv, FindInv, FindPcs
<1>4. /\ Lfns[name] \in Nat \ {0} /\ cnt = Lfns[name] + 1 /\ first \in Nat /\ end \in Nat
      /\ first + Lfns[name] + 1 = at /\ at \in Nat /\ at \in Slots /\ end <= Top
      /\ end' = end /\ Lfns[name] \in Slots
  <2>1. Lfns[name] \in Nat \ {0} /\ cnt = Lfns[name] + 1
    BY <1>2, <1>3, DirectoryAssumption DEF wanted
  <2>2. end \in Nat /\ end <= Top /\ end' = end
    BY <1>1, <1>2, ChainEnd, SlotRange DEF end
  <2>3. first \in Nat /\ cnt \in Nat /\ at \in Nat
    BY <1>1, <1>2, <2>2, SlotRange DEF DirInv, FrameInv, LocalOK
  <2>4. first = at - cnt
    BY <1>3, <2>1
  <2>5. at \in Slots /\ Lfns[name] \in Slots
    BY <1>3, <2>1, <2>2, <2>3, SlotRange
  <2> QED BY <2>1, <2>2, <2>3, <2>4, <2>5
<1>5. /\ CacheOK' /\ (disk' = disk \/ disk' = View)
      /\ \A t \in Slots : t # at => View'[t] = View[t]
      /\ View' \in [Slots -> SlotValues]
      /\ eod => View'[at] = Last
      /\ ~eod => View' = View
  <2>1. CASE eod
    <3>1. CacheOK' /\ (disk' = disk \/ disk' = View) /\ View' = [View EXCEPT ![at] = Last]
      <4> DEFINE v == Last
      <4>1. CacheOK /\ put(at, v) /\ v \in SlotValues
        BY <1>1, <2>1, ValueKinds DEF DirInv, FrameInv
      <4> HIDE DEF v
      <4>2. CacheOK' /\ (disk' = disk \/ disk' = View) /\ View' = [View EXCEPT ![at] = v]
        BY <1>4, <4>1, WriteEffect
      <4> QED BY <4>2 DEF v
    <3> QED BY <2>1, <3>1, <1>4, ViewType, ValueKinds DEF DirInv, FrameInv
  <2>2. CASE ~eod
    <3>1. UNCHANGED <<disk, sect, buf, dirty>>
      BY <1>1, <2>2
    <3>2. View' = View
      BY <3>1 DEF View
    <3>3. CacheOK'
      BY <3>1 DEF CacheOK, Coherent, CellsOf, DirInv, FrameInv
    <3> QED BY <2>2, <3>1, <3>2, <3>3, ViewType DEF DirInv, FrameInv
  <2> QED BY <2>1, <2>2, <1>2
<1>6. BeyondInv'
  <2>1. \A t \in Slots : t >= end => t # at
    BY <1>3, <1>4, SlotRange
  <2> QED BY <1>4, <1>5, <2>1 DEF BeyondInv, outside, DirInv, FrameInv
<1>7. LocalOK'
  BY <1>1, <1>2, <1>3, <1>4 DEF LocalOK, DirInv, FrameInv
<1>8. PcInv'
  BY <1>1, <1>2 DEF PcInv, Pcs, FindPcs, AddPcs, DirInv, FrameInv
<1>9. AddInv'
  BY <1>1, <1>2, <1>3, <1>4 DEF AddInv, final
<1>10. FrameInv'
  BY <1>1, <1>5, <1>6, <1>7, <1>8, <1>9
     DEF FrameInv, ClearInv, RemoveInv, FindInv, ScanInv, FindPcs
(* The slots for the entry: free, or from the old end marker on. *)
<1>11. \/ ~eod /\ \A t \in Slots : t <= first + Lfns[name] => View[t] # Last /\ (first <= t => View[t] = Free)
       \/ eod /\ \E k \in first .. (first + Lfns[name]) :
            /\ View[k] = Last
            /\ \A t \in Slots : t < k => View[t] # Last /\ (first <= t => View[t] = Free)
  <2>1. CASE ~eod
    <3>1. \A t \in Slots : t <= first + Lfns[name] => t < at
      BY <1>4, SlotRange
    <3>2. at - cnt = first
      BY <1>4
    <3> QED BY <1>3, <2>1, <3>1, <3>2
  <2>2. CASE eod
    <3>1. PICK e \in first .. (at - 1) :
                   /\ View[e] = Last
                   /\ \A t \in Slots : t < e => View[t] # Last
                   /\ \A t \in Slots : first <= t /\ t < e => View[t] = Free
      BY <1>3, <2>2
    <3>2. e \in first .. (first + Lfns[name])
      BY <1>4, <3>1
    <3> QED BY <2>2, <3>1, <3>2
  <2> QED BY <2>1, <2>2, <1>2
<1>12. PromiseInv'
  <2>1. ASSUME NEW n \in promised, NEW x \in Live(View, end), View[x] = sfn(n)
        PROVE  /\ x \in Live(View', end) /\ View'[x] = sfn(n)
               /\ x \notin first .. (first + Lfns[name])
    <3>1. x \in Slots /\ x < end /\ \A t \in Slots : t <= x => View[t] # Last
      BY <1>4, LiveSlots
    <3>2. View[x] # Free
      BY <2>1, ValueKinds
    <3>3. CASE ~eod
      <4>1. View' = View
        BY <1>5, <3>3
      <4>2. ~(x <= first + Lfns[name] /\ first <= x)
        BY <1>11, <3>1, <3>2, <3>3
      <4> QED BY <2>1, <4>1, <4>2
    <3>4. CASE eod
      <4>1. PICK k \in first .. (first + Lfns[name]) :
            /\ View[k] = Last
            /\ \A t \in Slots : t < k => View[t] # Last /\ (first <= t => View[t] = Free)
        BY <1>11, <3>4
      <4>2. k \in Slots /\ k < at
        BY <1>3, <1>4, <4>1, SlotRange
      <4>3. x < k
        BY <3>1, <4>1, <4>2, SlotRange
      <4>4. ~(first <= x)
        BY <3>1, <3>2, <4>1, <4>3
      <4>5. \A t \in Slots : t <= x => View'[t] = View[t]
        BY <1>4, <1>5, <3>1, <4>2, <4>3, SlotRange
      <4> QED BY <1>4, <2>1, <3>1, <4>4, <4>5, LiveSlots, SlotRange
    <3> QED BY <1>2, <3>3, <3>4
  <2>2. pc # "sync" /\ pc \notin AddPcs /\ final' = first + Lfns[name] /\ first' = first
        /\ promised' = promised
    BY <1>1 DEF AddPcs, final
  <2> QED BY <1>4, <1>5, <2>1, <2>2, PromiseKept
<1>13. EntryInv'
  <2> SUFFICES ASSUME ~torn
               PROVE  /\ QuietInv' /\ EntryScan' /\ FoundInv' /\ AddingInv' /\ RemovingInv' /\ DoneInv'
                      /\ DiskInv' /\ CallEffect' /\ ListsMarked'
    BY <1>1 DEF EntryInv
  <2>1. Sound(View, end) /\ before = Present(View, end) /\ name \notin before
    BY <1>1 DEF DirInv, EntryInv, QuietInv, QuietPcs, FindPcs
  <2>2. Sound(View', end) /\ Present(View', end) = before
    <3>1. CASE ~eod
      BY <1>5, <2>1, <3>1
    <3>2. CASE eod
      <4>1. PICK k \in first .. (first + Lfns[name]) : View[k] = Last
        BY <1>11, <3>2
      <4>2. k \in Slots /\ k < at /\ k < end
        BY <1>3, <1>4, <4>1, SlotRange
      <4>3. \A t \in Slots : t <= k => View'[t] = View[t]
        BY <1>4, <1>5, <4>2, SlotRange
      <4>4. k <= k /\ \A t \in Slots : t < k => t <= k
        BY <4>2, SlotRange
      <4> QED BY <1>4, <2>1, <4>1, <4>2, <4>3, <4>4, MarkerBehind
    <3> QED BY <1>2, <3>1, <3>2
  <2>3. /\ Sound(filled(View', first, name), end)
        /\ Present(filled(View', first, name), end) = Present(View', end) \cup {name}
    <3>1. \/ \A t \in Slots : t <= first + Lfns[name] => View'[t] # Last /\ (first <= t => View'[t] = Free)
          \/ /\ \E k \in first .. (first + Lfns[name]) :
                  /\ View'[k] = Last
                  /\ \A t \in Slots : t < k => View'[t] # Last /\ (first <= t => View'[t] = Free)
             /\ first + Lfns[name] + 1 < end /\ View'[first + Lfns[name] + 1] = Last
      <4>1. CASE ~eod
        BY <1>5, <1>11, <4>1
      <4>2. CASE eod
        <5>1. PICK k \in first .. (first + Lfns[name]) :
              /\ View[k] = Last
              /\ \A t \in Slots : t < k => View[t] # Last /\ (first <= t => View[t] = Free)
          BY <1>11, <4>2
        <5>2. k \in Slots /\ k < at
          BY <1>3, <1>4, <5>1, SlotRange
        <5>3. View'[k] = View[k] /\ \A t \in Slots : t < k => View'[t] = View[t]
          BY <1>4, <1>5, <5>2, SlotRange
        <5> QED BY <1>3, <1>4, <1>5, <4>2, <5>1, <5>3
      <4> QED BY <1>2, <4>1, <4>2
    <3>2. name \notin Present(View', end) /\ first + Lfns[name] < end
      BY <1>3, <1>4, <2>1, <2>2
    <3> QED BY <1>2, <1>4, <1>5, <2>2, <3>1, <3>2, FilledSound
  <2>4. AddingInv'
    <3>1. Run(View', first, first, name)
      <4>1. first .. (first - 1) = {}
        BY <1>4
      <4> QED BY <4>1 DEF Run
    <3>2. ~(first > first)
      BY <1>4
    <3>3. Buffered(final)'
      BY <1>1, <1>4, <2>2, <3>2 DEF Buffered, inSector, straddling, final
    <3> QED BY <1>1, <1>4, <2>2, <2>3, <3>1, <3>3 DEF AddingInv
  <2>5. QuietInv'
    BY <1>1, <2>1 DEF QuietInv, QuietPcs
  <2>6. DiskInv'
    BY <1>1, <1>4, <1>5, <2>1 DEF DiskInv, DirInv, EntryInv
  <2> QED BY <1>1, <2>4, <2>5, <2>6 DEF EntryScan, FoundInv, RemovingInv, DoneInv, CallEffect,
          ListsMarked
<1> QED BY <1>10, <1>12, <1>13 DEF DirInv


(* A slot of the new entry is written. *)
LEMMA AddPut ==
  ASSUME DirInv, pc \in AddPcs, NEW STATE v, v \in SlotValues, v # Last, put(at, v),
         UNCHANGED <<len, op, name, first, promised, split, torn>>,
         pc' \in AddPcs \cup {"sync", "return"}
  PROVE  /\ CacheOK' /\ View' \in [Slots -> SlotValues] /\ end' = end
         /\ len \in 1 .. MaxClust /\ name \in Names /\ op \in {"open", "mkdir"}
         /\ Lfns[name] \in Nat \ {0} /\ first \in Nat /\ at \in Nat /\ cnt \in Nat /\ end \in Nat
         /\ first <= at /\ at + cnt = first + Lfns[name] /\ first + Lfns[name] < end
         /\ at \in Slots /\ View'[at] = v /\ \A t \in Slots : t # at => View'[t] = View[t]
         /\ BeyondInv' /\ PromiseInv'
         /\ filled(View', first, name) = filled(View, first, name)
         /\ ~torn => /\ DiskInv'
                     /\ inSector(first, final) => sect' = SectorOf[first]
<1>1. /\ len \in 1 .. MaxClust /\ name \in Names /\ op \in {"open", "mkdir"}
      /\ first \in Slots /\ cnt \in Slots
      /\ first <= at /\ at + cnt = final /\ final < end
  BY DEF DirInv, FrameInv, LocalOK, PcInv, AddInv
<1>2. /\ Lfns[name] \in Nat \ {0} /\ first \in Nat /\ cnt \in Nat /\ end \in Nat /\ end <= Top
      /\ final = first + Lfns[name] /\ at \in Nat
  BY <1>1, ChainEnd, SlotRange, DirectoryAssumption DEF DirInv, FrameInv, LocalOK, final
<1>3. at \in Slots /\ final \in Slots /\ at <= final /\ end' = end /\ final' = final
  BY <1>1, <1>2, SlotRange DEF end, final
<1>4. /\ CacheOK' /\ View' = [View EXCEPT ![at] = v]
      /\ disk' = disk \/ disk' = View
      /\ sect' = SectorOf[at]
      /\ sect = SectorOf[at] => disk' = disk
  BY <1>3, WriteEffect DEF DirInv, FrameInv
<1>5. /\ View \in [Slots -> SlotValues] /\ View' \in [Slots -> SlotValues]
      /\ View'[at] = v /\ \A t \in Slots : t # at => View'[t] = View[t]
  BY <1>3, <1>4, ViewType DEF DirInv, FrameInv
<1>6. BeyondInv'
  <2>1. \A t \in Slots : t >= end => t # at
    BY <1>1, <1>2, <1>3, SlotRange
  <2> QED BY <1>3, <1>4, <1>5, <2>1 DEF BeyondInv, outside, DirInv, FrameInv
<1>7. PromiseInv'
  <2>1. ASSUME NEW n \in promised, NEW x \in Live(View, end), View[x] = sfn(n),
               x \notin first .. final
        PROVE  x \in Live(View', end) /\ View'[x] = sfn(n)
    <3>1. x # at
      BY <1>1, <1>2, <1>3, <2>1
    <3>2. \A t \in Slots : View[t] # Last => View'[t] # Last
      BY <1>5
    <3> QED BY <1>2, <1>5, <2>1, <3>1, <3>2, LiveSlots
  <2>2. pc # "sync"
    BY DEF AddPcs
  <2> QED BY <1>3, <1>4, <2>1, <2>2, PromiseKept
<1>8. filled(View', first, name) = filled(View, first, name)
  <2>1. at \in first .. (first + Lfns[name] - 1) \/ at = first + Lfns[name]
    BY <1>1, <1>2, <1>3
  <2> QED BY <1>5, <2>1 DEF filled
<1>9. ASSUME ~torn
      PROVE  DiskInv' /\ (inSector(first, final) => sect' = SectorOf[first])
  <2>1. Buffered(final) /\ DiskInv
    BY <1>9 DEF DirInv, EntryInv, AddingInv
  <2>2. ASSUME inSector(first, final)
        PROVE  SectorOf[at] = SectorOf[first]
    BY <1>1, <1>3, <2>2, Sectors DEF inSector
  <2>3. ASSUME ~split
        PROVE  Sound(disk', end)
    <3>1. inSector(first, final) /\ Sound(disk, end)
      BY <2>1, <2>3 DEF Buffered, DiskInv
    <3>2. CASE at = first
      BY <1>4, <2>1, <3>1, <3>2 DEF Buffered
    <3>3. CASE at > first
      BY <1>4, <2>1, <2>2, <3>1, <3>3 DEF Buffered
    <3> QED BY <1>1, <1>2, <3>2, <3>3
  <2> QED BY <1>3, <1>4, <2>2, <2>3 DEF DiskInv
<1> QED BY <1>1, <1>2, <1>3, <1>4, <1>5, <1>6, <1>7, <1>8, <1>9

LEMMA AddLongStep == DirInv /\ AddLong => DirInv'
<1> SUFFICES ASSUME DirInv, AddLong
             PROVE  DirInv'
  OBVIOUS
<1> DEFINE v == lfn(name, cnt)
<1>1. /\ pc = "addLong" /\ put(at, v)
      /\ at' = at + 1 /\ cnt' = cnt - 1
      /\ pc' = IF cnt = 1 THEN "addShort" ELSE "addLong"
      /\ UNCHANGED <<len, op, name, need, crc, match, first, eod, listed, res, before, promised,
                     split, torn, crashes>>
  BY DEF AddLong, callVars, scanVars, historyVars
<1>2. /\ pc' \in AddPcs /\ pc \in AddPcs /\ cnt > 0
      /\ first <= at /\ at + cnt = final /\ final < end /\ name \in Names /\ cnt \in Nat
      /\ first \in Nat /\ len \in 1 .. MaxClust
  BY <1>1, SlotRange DEF DirInv, FrameInv, LocalOK, AddInv, AddPcs
<1>3. Lfns[name] \in Nat /\ at \in Nat
  BY <1>2, ChainEnd, DirectoryAssumption, SlotRange DEF DirInv, FrameInv, LocalOK
<1>4. v \in SlotValues /\ v # Last
  <2>1. cnt \in 1 .. Lfns[name]
    BY <1>2, <1>3 DEF final
  <2> QED BY <1>2, <2>1, ValueKinds
<1> HIDE DEF v
<1>5. /\ CacheOK' /\ View' \in [Slots -> SlotValues] /\ end' = end
      /\ len \in 1 .. MaxClust /\ name \in Names /\ op \in {"open", "mkdir"}
      /\ Lfns[name] \in Nat \ {0} /\ first \in Nat /\ at \in Nat /\ cnt \in Nat /\ end \in Nat
      /\ first <= at /\ at + cnt = first + Lfns[name] /\ first + Lfns[name] < end
      /\ at \in Slots /\ View'[at] = v /\ \A t \in Slots : t # at => View'[t] = View[t]
      /\ BeyondInv' /\ PromiseInv'
      /\ filled(View', first, name) = filled(View, first, name)
      /\ ~torn => /\ DiskInv'
                  /\ inSector(first, final) => sect' = SectorOf[first]
  BY <1>1, <1>2, <1>4, AddPut
<1>6. LocalOK'
  <2>1. at + 1 \in 0 .. end /\ cnt - 1 \in Slots
    BY <1>2, <1>5, ChainEnd, SlotRange
  <2> QED BY <1>1, <1>5, <2>1 DEF LocalOK, DirInv, FrameInv
<1>7. PcInv'
  BY <1>1, <1>2, <1>5 DEF PcInv, Pcs, FindPcs, AddPcs, DirInv, FrameInv
<1>8. AddInv'
  <2>1. first <= at + 1 /\ (at + 1) + (cnt - 1) = first + Lfns[name] /\ (cnt - 1 > 0 <=> cnt # 1)
    BY <1>2, <1>5
  <2> QED BY <1>1, <1>5, <2>1 DEF AddInv, final
<1>9. FrameInv'
  BY <1>2, <1>5, <1>6, <1>7, <1>8
     DEF FrameInv, ClearInv, RemoveInv, FindInv, ScanInv, FindPcs, AddPcs
<1>10. EntryInv'
  <2> SUFFICES ASSUME ~torn
               PROVE  /\ QuietInv' /\ EntryScan' /\ FoundInv' /\ AddingInv' /\ RemovingInv' /\ DoneInv'
                      /\ DiskInv' /\ CallEffect' /\ ListsMarked'
    BY <1>1 DEF EntryInv
  <2>1. /\ Buffered(final) /\ name \notin before
        /\ Sound(filled(View, first, name), end)
        /\ Present(filled(View, first, name), end) = before \cup {name}
        /\ Run(View, first, at, name)
    BY <1>2 DEF DirInv, EntryInv, AddingInv, QuietInv
  <2>2. Run(View', first, at + 1, name)
    <3>1. cnt = Lfns[name] - (at - first)
      BY <1>5
    <3>2. ASSUME NEW s \in first .. ((at + 1) - 1)
          PROVE  View'[s] = lfn(name, Lfns[name] - (s - first))
      <4>1. s = at \/ (s # at /\ s \in first .. (at - 1) /\ s \in Slots)
        BY <1>5, <3>2, SlotRange
      <4>2. View'[at] = lfn(name, cnt)
        BY <1>5 DEF v
      <4>3. s \in first .. (at - 1) => View[s] = lfn(name, Lfns[name] - (s - first))
        BY <2>1 DEF Run
      <4> QED BY <1>5, <3>1, <4>1, <4>2, <4>3
    <3> QED BY <3>2 DEF Run
  <2>3. Buffered(final)'
    <3>1. at + 1 # first /\ final' = final
      BY <1>1, <1>5 DEF final
    <3> QED BY <1>1, <1>5, <2>1, <3>1 DEF Buffered, inSector
  <2>4. AddingInv'
    BY <1>1, <1>5, <2>1, <2>2, <2>3 DEF AddingInv
  <2>5. QuietInv'
    BY <1>1, <1>2, <2>1 DEF QuietInv, QuietPcs, AddPcs
  <2> QED BY <1>2, <1>5, <2>4, <2>5 DEF EntryScan, FoundInv, RemovingInv, DoneInv, CallEffect,
          ListsMarked, AddPcs
<1> QED BY <1>5, <1>9, <1>10 DEF DirInv


(* The short slot completes the entry. *)
LEMMA AddShortStep == DirInv /\ AddShort => DirInv'
<1> SUFFICES ASSUME DirInv, AddShort
             PROVE  DirInv'
  OBVIOUS
<1> DEFINE v == sfn(name)
<1>1. /\ pc = "addShort" /\ put(at, v)
      /\ \/ op = "mkdir" /\ pc' = "sync" /\ res' = res
         \/ op = "open" /\ pc' = "return" /\ res' = "added"
      /\ UNCHANGED <<len, op, name, at, need, crc, match, first, cnt, eod, listed, before, promised,
                     split, torn, crashes>>
  BY DEF AddShort, fails, callVars, scanVars, addVars, historyVars
<1>2. pc \in AddPcs /\ ~(cnt > 0) /\ name \in Names
  BY <1>1 DEF DirInv, FrameInv, LocalOK, AddInv, AddPcs
<1>3. v \in SlotValues /\ v # Last
  BY <1>2, ValueKinds
<1> HIDE DEF v
<1>4. pc' \in AddPcs \cup {"sync", "return"}
  BY <1>1
<1>5. /\ CacheOK' /\ View' \in [Slots -> SlotValues] /\ end' = end
      /\ len \in 1 .. MaxClust /\ name \in Names /\ op \in {"open", "mkdir"}
      /\ Lfns[name] \in Nat \ {0} /\ first \in Nat /\ at \in Nat /\ cnt \in Nat /\ end \in Nat
      /\ first <= at /\ at + cnt = first + Lfns[name] /\ first + Lfns[name] < end
      /\ at \in Slots /\ View'[at] = v /\ \A t \in Slots : t # at => View'[t] = View[t]
      /\ BeyondInv' /\ PromiseInv'
      /\ filled(View', first, name) = filled(View, first, name)
      /\ ~torn => DiskInv'
  BY <1>1, <1>2, <1>3, <1>4, AddPut
<1>6. LocalOK' /\ PcInv'
  BY <1>1, <1>5 DEF LocalOK, PcInv, Pcs, FindPcs, AddPcs, DirInv, FrameInv
<1>7. FrameInv'
  BY <1>1, <1>5, <1>6
     DEF FrameInv, ClearInv, RemoveInv, FindInv, ScanInv, AddInv, FindPcs, AddPcs
<1>8. EntryInv'
  <2> SUFFICES ASSUME ~torn
               PROVE  /\ QuietInv' /\ EntryScan' /\ FoundInv' /\ AddingInv' /\ RemovingInv' /\ DoneInv'
                      /\ DiskInv' /\ CallEffect' /\ ListsMarked'
    BY <1>1 DEF EntryInv
  <2>1. /\ name \notin before
        /\ Sound(filled(View, first, name), end)
        /\ Present(filled(View, first, name), end) = before \cup {name}
        /\ Run(View, first, at, name)
    BY <1>2 DEF DirInv, EntryInv, AddingInv, QuietInv
  <2>2. View' = filled(View', first, name)
    <3>1. at = first + Lfns[name]
      BY <1>2, <1>5
    <3>2. ASSUME NEW s \in Slots, s \in first .. (first + Lfns[name] - 1)
          PROVE  View'[s] = lfn(name, Lfns[name] - (s - first))
      <4>1. s # at /\ s \in first .. (at - 1)
        BY <1>5, <3>1, <3>2
      <4> QED BY <1>5, <2>1, <4>1 DEF Run
    <3>3. View'[first + Lfns[name]] = sfn(name)
      BY <1>5, <3>1 DEF v
    <3> HIDE DEF v
    <3>4. View' = [s \in Slots |-> IF s \in first .. (first + Lfns[name] - 1)
                                   THEN lfn(name, Lfns[name] - (s - first))
                                   ELSE IF s = first + Lfns[name] THEN sfn(name) ELSE View'[s]]
      BY <1>5, <3>2, <3>3
    <3> QED BY <3>4 DEF filled
  <2>3. Sound(View', end) /\ Present(View', end) = before \cup {name}
    BY <1>5, <2>1, <2>2
  <2>4. QuietInv' /\ DoneInv' /\ CallEffect'
    BY <1>1, <1>5, <2>1, <2>3 DEF QuietInv, QuietPcs, FindPcs, AddPcs, DoneInv, CallEffect
  <2> QED BY <1>1, <1>5, <2>4 DEF EntryScan, FoundInv, AddingInv, RemovingInv, ListsMarked, AddPcs
<1> QED BY <1>5, <1>7, <1>8 DEF DirInv

(* sync_fs, with which fat_dir_create and fat_unlink end. *)
LEMMA SyncFsStep == DirInv /\ SyncFs => DirInv'
<1> SUFFICES ASSUME DirInv, SyncFs
             PROVE  DirInv'
  OBVIOUS
<1>1. /\ pc = "sync" /\ sync_buf /\ pc' = "return"
      /\ res' = IF op = "mkdir" THEN "added" ELSE "removed"
      /\ promised' = Present(disk', end) \cap Names /\ split' = FALSE
      /\ UNCHANGED <<len, op, name, at, need, crc, match, first, cnt, eod, listed, before, torn, crashes>>
  BY DEF SyncFs, fails, callVars, scanVars, addVars
<1>2. CacheOK' /\ View' = View /\ disk' = View
  BY <1>1, SyncBufEffect DEF DirInv, FrameInv
<1>3. end' = end /\ op \in {"mkdir", "unlink"} /\ len \in 1 .. MaxClust
  BY <1>1 DEF end, DirInv, FrameInv, PcInv, LocalOK
<1>4. BeyondInv'
  BY <1>2, <1>3 DEF BeyondInv, outside, DirInv, FrameInv
<1>5. LocalOK' /\ PcInv'
  BY <1>1, <1>3 DEF LocalOK, PcInv, Pcs, FindPcs, AddPcs, DirInv, FrameInv
<1>6. FrameInv'
  BY <1>1, <1>2, <1>4, <1>5
     DEF FrameInv, ClearInv, RemoveInv, FindInv, AddInv, ScanInv, FindPcs, AddPcs
<1>7. PromiseInv'
  <2>1. ASSUME NEW n \in promised'
        PROVE  \E s \in Live(View, end) : View[s] = sfn(n)
    <3>1. PICK s \in Live(View, end) : View[s][1] = "sfn" /\ View[s][2] = n
      BY <1>1, <1>2, <2>1, PresentNames
    <3>2. View[s] \in SlotValues
      BY <1>3, ViewType, ChainEnd, LiveSlots DEF DirInv, FrameInv
    <3> QED BY <3>1, <3>2, ValueKinds
  <2> QED BY <1>1, <1>2, <1>3, <2>1 DEF PromiseInv, AddPcs
<1>8. EntryInv'
  <2> SUFFICES ASSUME ~torn
               PROVE  /\ QuietInv' /\ EntryScan' /\ FoundInv' /\ AddingInv' /\ RemovingInv' /\ DoneInv'
                      /\ DiskInv' /\ CallEffect' /\ ListsMarked'
    BY <1>1 DEF EntryInv
  <2>1. /\ Sound(View, end)
        /\ op = "mkdir" => name \notin before /\ Present(View, end) = before \cup {name}
        /\ op = "unlink" => name \in before /\ Present(View, end) = before \ {name}
    BY <1>1 DEF DirInv, EntryInv, DoneInv
  <2>2. QuietInv' /\ DiskInv'
    BY <1>1, <1>2, <1>3, <2>1 DEF QuietInv, QuietPcs, DiskInv, FindPcs, AddPcs
  <2>3. CallEffect' /\ ListsMarked'
    BY <1>1, <1>2, <1>3, <2>1 DEF CallEffect, ListsMarked
  <2> QED BY <1>1, <2>2, <2>3 DEF EntryScan, FoundInv, AddingInv, RemovingInv, DoneInv, AddPcs
<1> QED BY <1>6, <1>7, <1>8 DEF DirInv


-----------------------------------------------------------------------------
(* fat_unlink. *)

(* The clusters are freed; then the slots of the entry are gone through. *)
LEMMA UnchainStep == DirInv /\ Unchain => DirInv'
<1> SUFFICES ASSUME DirInv, Unchain
             PROVE  DirInv'
  OBVIOUS
<1>1. /\ pc = "unchain" /\ leave /\ pc' = "remove"
      /\ cnt' = at /\ at' = first
      /\ split' = (split \/ straddling(first, at))
      /\ UNCHANGED <<len, op, name, need, crc, match, first, eod, listed, res, before, promised,
                     torn, crashes>>
  BY DEF Unchain, callVars, scanVars
<1>2. CacheOK' /\ View' = View /\ disk' = View
  BY <1>1, LeaveEffect DEF DirInv, FrameInv
<1>3. SameView
  BY <1>1, <1>2 DEF SameView
<1>4. end' = end /\ BeyondInv' /\ PromiseInv' /\ len \in 1 .. MaxClust
  BY <1>1, <1>3, SameViewKeeps DEF AddPcs
<1>5. /\ op = "unlink" /\ name \in Names /\ first \in Slots
      /\ first <= at /\ at < end
      /\ \A s \in first .. (at - 1) : is_lfn(View[s])
      /\ \A t \in Slots : t < at => View[t] # Last
  BY <1>1 DEF DirInv, FrameInv, LocalOK, PcInv, RemoveInv
<1>6. /\ end \in Nat /\ end < Top /\ first \in Nat /\ at \in Nat /\ at \in Slots /\ first \in 0 .. end
  BY <1>1, <1>4, <1>5, ChainEnd, SlotRange DEF DirInv, FrameInv, LocalOK
<1>7. LocalOK' /\ PcInv'
  BY <1>1, <1>4, <1>5, <1>6 DEF LocalOK, PcInv, Pcs, FindPcs, AddPcs, DirInv, FrameInv
<1>8. FrameInv'
  <2>1. RemoveInv'
    BY <1>1, <1>2, <1>4, <1>5, <1>6 DEF RemoveInv
  <2> QED BY <1>1, <1>2, <1>4, <1>7, <2>1
          DEF FrameInv, ClearInv, FindInv, AddInv, ScanInv, FindPcs, AddPcs
<1>9. EntryInv'
  <2> SUFFICES ASSUME ~torn
               PROVE  /\ QuietInv' /\ EntryScan' /\ FoundInv' /\ AddingInv' /\ RemovingInv' /\ DoneInv'
                      /\ DiskInv' /\ CallEffect' /\ ListsMarked'
    BY <1>1 DEF EntryInv
  <2>1. /\ Sound(View, end) /\ before = Present(View, end)
        /\ View[at] = sfn(name)
        /\ \/ at = first /\ (at > 0 => ~is_lfn(View[at - 1]))
           \/ at = first + Lfns[name] /\ Run(View, first, at, name)
    BY <1>1 DEF DirInv, EntryInv, QuietInv, QuietPcs, FoundInv, final
  <2>2. View \in [Slots -> SlotValues]
    BY ViewType DEF DirInv, FrameInv
  <2>3. at \in Live(View, end)
    <3>1. \A t \in Slots : t <= at => t < at \/ t = at
      BY <1>6, SlotRange
    <3> QED BY <1>5, <1>6, <2>1, <3>1, LiveSlots, ValueKinds
  <2>4. name \in before
    BY <2>1, <2>3, PresentNames, ValueKinds
  <2>5. /\ Sound(emptied(View, first, at), end)
        /\ Present(emptied(View, first, at), end) = before \ {name}
    BY <1>5, <1>6, <2>1, <2>2, <2>3, EmptiedSound
  <2>6. RemovingInv'
    <3>1. ~(first > first) /\ first .. (first - 1) = {}
      BY <1>6
    <3>2. Buffered(cnt)'
      BY <1>1, <1>2, <1>4, <2>1, <3>1 DEF Buffered, inSector, straddling
    <3> QED BY <1>1, <1>2, <1>4, <2>4, <2>5, <3>1, <3>2 DEF RemovingInv
  <2>7. QuietInv' /\ DiskInv'
    BY <1>1, <1>2, <1>4, <2>1 DEF QuietInv, QuietPcs, FindPcs, AddPcs, DiskInv
  <2> QED BY <1>1, <2>6, <2>7 DEF EntryScan, FoundInv, AddingInv, DoneInv, CallEffect, ListsMarked, AddPcs
<1> QED BY <1>4, <1>8, <1>9 DEF DirInv

(* One slot is marked free. *)
LEMMA RemoveStep == DirInv /\ Remove => DirInv'
<1> SUFFICES ASSUME DirInv, Remove
             PROVE  DirInv'
  OBVIOUS
<1> DEFINE v == Free
<1>1. /\ pc = "remove" /\ put(at, v)
      /\ \/ at = cnt /\ pc' = "sync" /\ at' = at
         \/ at # cnt /\ at' = at + 1 /\ pc' = "remove"
      /\ UNCHANGED <<len, op, name, need, crc, match, first, cnt, eod, listed, res, before, promised,
                     split, torn, crashes>>
  BY DEF Remove, callVars, scanVars, addVars, historyVars
<1>2. /\ op = "unlink" /\ name \in Names /\ first \in Slots /\ cnt \in Slots /\ len \in 1 .. MaxClust
      /\ first <= at /\ at <= cnt /\ cnt < end
      /\ \A s \in at .. (cnt - 1) : is_lfn(View[s])
  BY <1>1 DEF DirInv, FrameInv, LocalOK, PcInv, RemoveInv
<1>3. /\ end \in Nat /\ end <= Top /\ first \in Nat /\ cnt \in Nat /\ at \in Nat /\ at \in Slots
      /\ end' = end
  BY <1>1, <1>2, ChainEnd, SlotRange DEF DirInv, FrameInv, LocalOK, end
<1>4. v \in SlotValues /\ v # Last
  BY ValueKinds
<1> HIDE DEF v
<1>5. /\ CacheOK' /\ View' = [View EXCEPT ![at] = v]
      /\ disk' = disk \/ disk' = View
      /\ sect' = SectorOf[at]
      /\ sect = SectorOf[at] => disk' = disk
  BY <1>1, <1>3, <1>4, WriteEffect DEF DirInv, FrameInv
<1>6. /\ View' \in [Slots -> SlotValues]
      /\ View'[at] = Free /\ \A t \in Slots : t # at => View'[t] = View[t]
  <2>1. View' \in [Slots -> SlotValues] /\ View'[at] = v /\ \A t \in Slots : t # at => View'[t] = View[t]
    BY <1>3, <1>4, <1>5, ViewType DEF DirInv, FrameInv
  <2> QED BY <2>1 DEF v
<1>7. BeyondInv'
  <2>1. \A t \in Slots : t >= end => t # at
    BY <1>2, <1>3, SlotRange
  <2> QED BY <1>3, <1>5, <1>6, <2>1 DEF BeyondInv, outside, DirInv, FrameInv
<1>8. LocalOK' /\ PcInv'
  <2>1. at # cnt => at + 1 \in 0 .. end
    BY <1>2, <1>3
  <2> QED BY <1>1, <1>2, <1>3, <2>1 DEF LocalOK, PcInv, Pcs, FindPcs, AddPcs, DirInv, FrameInv
<1>9. RemoveInv'
  <2> SUFFICES ASSUME at # cnt, at' = at + 1, pc' = "remove"
               PROVE  RemoveInv'
    BY <1>1 DEF RemoveInv
  <2>1. \A s \in (at + 1) .. (cnt - 1) : s \in Slots /\ s # at /\ s \in at .. (cnt - 1)
    BY <1>2, <1>3, SlotRange
  <2>2. first <= at + 1 /\ at + 1 <= cnt
    BY <1>2, <1>3
  <2> QED BY <1>1, <1>2, <1>3, <1>6, <2>1, <2>2 DEF RemoveInv
<1>10. FrameInv'
  BY <1>1, <1>5, <1>7, <1>8, <1>9 DEF FrameInv, ClearInv, FindInv, AddInv, ScanInv, FindPcs, AddPcs
<1>11. PromiseInv'
  <2>1. CASE at = cnt /\ pc' = "sync"
    <3>1. \A n \in promised : \E s \in Live(View, end) : View[s] = sfn(n)
      BY <1>1 DEF DirInv, PromiseInv
    <3>2. promised \subseteq Present(View, end)
      BY <3>1, PresentNames, ValueKinds
    <3>3. promised' \subseteq Present(disk', end)
      BY <1>1, <1>5, <3>2 DEF DirInv, PromiseInv
    <3> QED BY <1>1, <1>2, <1>3, <2>1, <3>3 DEF PromiseInv
  <2>2. CASE at # cnt /\ pc' = "remove"
    <3>1. is_lfn(View[at])
      BY <1>2, <1>3, <2>2
    <3>2. ASSUME NEW n \in promised, NEW x \in Live(View, end), View[x] = sfn(n)
          PROVE  x \in Live(View', end) /\ View'[x] = sfn(n)
      <4>1. x # at
        BY <3>1, <3>2, ValueKinds
      <4>2. \A t \in Slots : View[t] # Last => View'[t] # Last
        BY <1>6, ValueKinds
      <4> QED BY <1>3, <1>6, <3>2, <4>1, <4>2, LiveSlots
    <3> QED BY <1>1, <1>3, <1>5, <2>2, <3>2, PromiseKept DEF AddPcs
  <2> QED BY <1>1, <2>1, <2>2
<1>12. EntryInv'
  <2> SUFFICES ASSUME ~torn
               PROVE  /\ QuietInv' /\ EntryScan' /\ FoundInv' /\ AddingInv' /\ RemovingInv' /\ DoneInv'
                      /\ DiskInv' /\ CallEffect' /\ ListsMarked'
    BY <1>1 DEF EntryInv
  <2>1. /\ Buffered(cnt) /\ DiskInv /\ name \in before
        /\ Sound(emptied(View, first, cnt), end)
        /\ Present(emptied(View, first, cnt), end) = before \ {name}
        /\ \A s \in first .. (at - 1) : View[s] = Free
    BY <1>1 DEF DirInv, EntryInv, RemovingInv
  <2>2. emptied(View', first, cnt) = emptied(View, first, cnt)
    <3>1. at \in first .. cnt
      BY <1>2, <1>3
    <3> QED BY <1>6, <3>1 DEF emptied
  <2>3. \A s \in first .. at : View'[s] = Free
    <3> SUFFICES ASSUME NEW s \in first .. at
                 PROVE  View'[s] = Free
      OBVIOUS
    <3>1. s = at \/ (s # at /\ s \in first .. (at - 1) /\ s \in Slots)
      BY <1>2, <1>3, SlotRange
    <3> QED BY <1>6, <2>1, <3>1
  <2>4. inSector(first, cnt) => SectorOf[at] = SectorOf[first]
    BY <1>2, <1>3, Sectors DEF inSector
  <2>5. ASSUME ~split
        PROVE  Sound(disk', end)
    <3>1. inSector(first, cnt) /\ Sound(disk, end)
      BY <2>1, <2>5 DEF Buffered, DiskInv
    <3>2. CASE at = first
      BY <1>5, <2>1, <3>1, <3>2 DEF Buffered
    <3>3. CASE at > first
      BY <1>5, <2>1, <2>4, <3>1, <3>3 DEF Buffered
    <3> QED BY <1>2, <1>3, <3>2, <3>3
  <2>6. DiskInv'
    BY <1>1, <1>3, <2>5 DEF DiskInv
  <2>7. RemovingInv'
    <3> SUFFICES ASSUME pc' = "remove"
                 PROVE  RemovingInv'
      BY DEF RemovingInv
    <3>1. at' = at + 1 /\ (at + 1) - 1 = at /\ at + 1 # first
      BY <1>1, <1>2, <1>3
    <3>2. Buffered(cnt)'
      BY <1>1, <1>5, <2>1, <2>4, <3>1 DEF Buffered, inSector
    <3> QED BY <1>1, <1>3, <2>1, <2>2, <2>3, <3>1, <3>2 DEF RemovingInv
  <2>8. DoneInv'
    <3> SUFFICES ASSUME pc' = "sync", at = cnt
                 PROVE  DoneInv'
      BY <1>1 DEF DoneInv
    <3>1. View' = emptied(View', first, cnt)
      <4>1. View' = [s \in Slots |-> IF s \in first .. cnt THEN Free ELSE View'[s]]
        BY <1>6, <2>3
      <4> QED BY <4>1 DEF emptied
    <3> QED BY <1>1, <1>2, <1>3, <2>1, <2>2, <3>1 DEF DoneInv
  <2>9. QuietInv'
    BY <1>1 DEF QuietInv, QuietPcs, FindPcs, AddPcs
  <2> QED BY <1>1, <2>6, <2>7, <2>8, <2>9 DEF EntryScan, FoundInv, AddingInv, CallEffect, ListsMarked,
          AddPcs
<1> QED BY <1>10, <1>11, <1>12 DEF DirInv


-----------------------------------------------------------------------------
(* A power cut, and steps of others. *)

LEMMA PowerCycleStep == DirInv /\ PowerCycle => DirInv'
<1> SUFFICES ASSUME DirInv, PowerCycle
             PROVE  DirInv'
  OBVIOUS
<1>1. /\ drop_buf(elsewhere)
      /\ torn' = (torn \/ split) /\ split' = FALSE
      /\ pc' = "idle" /\ op' = "none" /\ res' = "none"
      /\ at' = 0 /\ first' = 0 /\ need' = 0 /\ match' = FALSE
      /\ cnt' = 0 /\ eod' = FALSE /\ listed' = <<>>
      /\ UNCHANGED <<len, name, promised>>
  BY DEF PowerCycle
<1>2. CacheOK' /\ View' = disk /\ disk' = disk
  BY <1>1, DropBufEffect DEF DirInv, FrameInv
<1>3. end' = end /\ len \in 1 .. MaxClust
  BY <1>1 DEF end, DirInv, FrameInv, LocalOK
<1>4. BeyondInv'
  BY <1>2, <1>3 DEF BeyondInv, outside, DirInv, FrameInv
<1>5. LocalOK' /\ PcInv'
  <2>1. 0 \in Slots /\ 0 \in 0 .. end
    BY <1>3, SlotRange, ChainEnd
  <2>2. LocalOK'
    BY <1>1, <1>3, <2>1 DEF LocalOK, DirInv, FrameInv
  <2>3. PcInv'
    BY <1>1 DEF PcInv, Pcs, FindPcs, AddPcs
  <2> QED BY <2>2, <2>3
<1>6. FrameInv'
  BY <1>1, <1>2, <1>4, <1>5
     DEF FrameInv, ClearInv, RemoveInv, FindInv, AddInv, ScanInv, FindPcs, AddPcs
<1>7. PromiseInv'
  <2>1. ASSUME NEW n \in promised
        PROVE  \E s \in Live(disk, end) : disk[s] = sfn(n)
    <3>1. PICK s \in Live(disk, end) : disk[s][1] = "sfn" /\ disk[s][2] = n
      BY <2>1, PresentNames DEF DirInv, PromiseInv
    <3>2. disk[s] \in SlotValues
      BY <1>3, ChainEnd, LiveSlots DEF DirInv, FrameInv, CacheOK
    <3> QED BY <3>1, <3>2, ValueKinds
  <2> QED BY <1>1, <1>2, <1>3, <2>1 DEF PromiseInv, AddPcs, DirInv
<1>8. EntryInv'
  <2> SUFFICES ASSUME ~torn, ~split
               PROVE  /\ QuietInv' /\ EntryScan' /\ FoundInv' /\ AddingInv' /\ RemovingInv' /\ DoneInv'
                      /\ DiskInv' /\ CallEffect' /\ ListsMarked'
    BY <1>1 DEF EntryInv
  <2>1. Sound(disk, end)
    BY DEF DirInv, EntryInv, DiskInv
  <2> QED BY <1>1, <1>2, <1>3, <2>1 DEF QuietInv, DiskInv, EntryScan, FoundInv, AddingInv, RemovingInv,
          DoneInv, CallEffect, ListsMarked, AddPcs, FindPcs
<1> QED BY <1>6, <1>7, <1>8 DEF DirInv

LEMMA StutterStep == DirInv /\ UNCHANGED vars => DirInv'
<1> SUFFICES ASSUME DirInv, UNCHANGED vars
             PROVE  DirInv'
  OBVIOUS
<1>1. UNCHANGED <<disk, sect, buf, dirty, len, pc, op, name, at, first, need, crc, match,
                  cnt, eod, listed, res, before, promised, split, torn, crashes>>
  BY DEF vars
<1>2. View' = View /\ end' = end
  BY <1>1 DEF View, end
<1>3. FrameInv'
  BY <1>1, <1>2 DEF DirInv, FrameInv, CacheOK, Coherent, CellsOf, LocalOK, PcInv, BeyondInv, outside,
     ClearInv, StretchFrom, ScanInv, RemoveInv, FindInv, wanted, AddInv, final
<1>4. PromiseInv'
  BY <1>1, <1>2 DEF DirInv, PromiseInv, final
<1>5. EntryInv'
  BY <1>1, <1>2 DEF DirInv, EntryInv, QuietInv, EntryScan, FoundInv, AddingInv, RemovingInv, DoneInv,
     DiskInv, Buffered, inSector, final, CallEffect, ListsMarked, PrintsAll
<1> QED BY <1>3, <1>4, <1>5 DEF DirInv

-----------------------------------------------------------------------------
(* The invariant. *)

LEMMA NextInv == DirInv /\ [Next]_vars => DirInv'
<1> SUFFICES ASSUME DirInv, [Next]_vars
             PROVE  DirInv'
  OBVIOUS
<1>1. CASE Call
  <2>1. ASSUME NEW n \in Names, NEW o \in {"open", "mkdir", "unlink"}, Begin(o, n)
        PROVE  DirInv'
    BY <2>1, BeginStep
  <2>2. ASSUME Begin("list", name)
        PROVE  DirInv'
    <3> DEFINE o == "list"
    <3>1. o \in {"open", "mkdir", "unlink", "list"} /\ Begin(o, name) /\ name \in Names
      BY <2>2 DEF DirInv, FrameInv, LocalOK
    <3> HIDE DEF o
    <3>2. PICK n \in Names : Begin(o, n)
      BY <3>1
    <3> QED BY <3>1, <3>2, BeginStep
  <2> QED BY <1>1, <2>1, <2>2, SyncStep DEF Call
<1>2. CASE Step
  BY <1>2, ReadLastStep, ReadFreeStep, ReadShortStep, ReadHeadStep, ReadMoreStep, ReadTailStep,
     AllocStep, FindStep, StretchStep, ClearStep, NewEndStep, AddLongStep, AddShortStep,
     UnchainStep, RemoveStep, SyncFsStep, ReturnStep DEF Step
<1>3. CASE PowerCycle
  BY <1>3, PowerCycleStep
<1>4. CASE UNCHANGED vars
  BY <1>4, StutterStep
<1> QED BY <1>1, <1>2, <1>3, <1>4 DEF Next

LEMMA Invariance == Spec => []DirInv
BY InitInv, NextInv, PTL DEF Spec

-----------------------------------------------------------------------------
(* The properties. *)

(* The variables stay in their types; the directory pointer that
   fat_dir_read and dir_add move leaves the chain by one slot at most. *)
THEOREM TypeCorrect == Spec => []TypeOK
<1>1. DirInv => TypeOK
  BY DEF DirInv, FrameInv, CacheOK, LocalOK, TypeOK
<1> QED BY <1>1, Invariance, PTL

(* Between calls, and on the disk at any moment, each long name has its slots
   in sequence with its short slot behind them and no name has two entries,
   as long as no write to more than one sector has been cut by a power failure. *)
THEOREM EntriesStayWhole == Spec => []EntriesWhole
<1>1. DirInv => EntriesWhole
  BY DEF DirInv, EntryInv, QuietInv, QuietPcs, DiskInv, Sound, EntriesWhole
<1> QED BY <1>1, Invariance, PTL

(* fat_file_open, fat_dir_create and fat_unlink find a name exactly if it is in
   the directory, add or remove one entry as a whole, and touch no other. *)
THEOREM CallsTell == Spec => []CallEffect
<1>1. DirInv => CallEffect
  BY DEF DirInv, EntryInv, CallEffect
<1> QED BY <1>1, Invariance, PTL

(* The entry of a file that was closed, or of a directory that was created, is
   on the disk from then on, whatever calls and power cuts follow, until it is
   unlinked. *)
THEOREM PromisesKept == Spec => []PromisedStay
<1>1. DirInv => PromisedStay
  BY DEF DirInv, PromiseInv, PromisedStay
<1> QED BY <1>1, Invariance, PTL

(* cmd_ls prints the entries of a directory with an end marker, each of them
   once, and nothing else. *)
THEOREM ListsOnce == Spec => []ListsMarked
<1>1. DirInv => ListsMarked
  BY DEF DirInv, EntryInv, ListsMarked
<1> QED BY <1>1, Invariance, PTL


=============================================================================
