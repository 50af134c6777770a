--------------------------- MODULE FatFileProofs ---------------------------
(* The content of a file, for every size of sector, cluster and volume and every
   call: where the handle stands, what a read delivers, what a write stores. *)
EXTENDS FatFile, SequenceTheorems, TLAPS

-----------------------------------------------------------------------------
(* Arithmetic: products, quotients and remainders of natural numbers. *)

(* Products of natural numbers. *)
LEMMA Products ==
  ASSUME NEW a \in Nat, NEW b \in Nat, NEW k \in Nat
  PROVE  /\ a * k \in Nat /\ (a + b) * k = a * k + b * k
         /\ a <= b => a * k <= b * k
         /\ a < b => (a + 1) * k <= b * k
         /\ (a + 1) * k = a * k + k
<1>1. a * k \in Nat /\ (a + b) * k = a * k + b * k /\ (a + 1) * k = a * k + k
  OBVIOUS
<1>2. ASSUME NEW x \in Nat, NEW y \in Nat, x <= y PROVE x * k <= y * k
  <2>1. PICK d \in Nat : y = x + d
    BY <1>2
  <2>2. d * k \in Nat /\ x * k \in Nat /\ (x + d) * k = x * k + d * k
    OBVIOUS
  <2>3. y * k = x * k + d * k
    BY <2>1, <2>2
  <2> QED BY <2>2, <2>3
<1>3. a < b => a + 1 \in Nat /\ a + 1 <= b
  OBVIOUS
<1> QED BY <1>1, <1>2, <1>3

(* Quotient and remainder. *)
LEMMA Division ==
  ASSUME NEW a \in Nat, NEW k \in Nat \ {0}
  PROVE  /\ a \div k \in Nat /\ a % k \in 0 .. (k - 1)
         /\ a = (a \div k) * k + (a % k)
<1>1. a \in Int /\ k \in Int /\ k > 0
  OBVIOUS
<1>2. a = k * (a \div k) + (a % k) /\ 0 <= a % k /\ a % k < k /\ a \div k \in Int /\ a % k \in Int
  BY <1>1
<1>3. a \div k >= 0
  BY <1>1
<1> QED BY <1>1, <1>2, <1>3

(* They are determined by that. *)
LEMMA DivisionUnique ==
  ASSUME NEW a \in Nat, NEW k \in Nat \ {0}, NEW q \in Nat, NEW m \in 0 .. (k - 1),
         a = q * k + m
  PROVE  a \div k = q /\ a % k = m
<1> DEFINE p == a \div k
           r == a % k
<1>1. p \in Nat /\ r \in 0 .. (k - 1) /\ a = p * k + r
  BY Division
<1> HIDE DEF p, r
<1>2. ~(p < q)
  <2>1. p < q => (p + 1) * k <= q * k /\ (p + 1) * k = p * k + k
    BY <1>1, Products
  <2>2. p * k \in Nat /\ q * k \in Nat
    BY <1>1, Products
  <2> QED BY <1>1, <2>1, <2>2
<1>3. ~(q < p)
  <2>1. q < p => (q + 1) * k <= p * k /\ (q + 1) * k = q * k + k
    BY <1>1, Products
  <2>2. p * k \in Nat /\ q * k \in Nat
    BY <1>1, Products
  <2> QED BY <1>1, <2>1, <2>2
<1>4. p = q
  BY <1>1, <1>2, <1>3
<1>5. r = m
  <2>1. q * k \in Nat
    BY Products
  <2> QED BY <1>1, <1>4, <2>1
<1> QED BY <1>4, <1>5 DEF p, r

(* A number is below c * k if its quotient is below c. *)
LEMMA QuotientBelow ==
  ASSUME NEW a \in Nat, NEW k \in Nat \ {0}, NEW c \in Nat
  PROVE  a \div k < c <=> a < c * k
<1> DEFINE p == a \div k
           r == a % k
<1>1. p \in Nat /\ r \in 0 .. (k - 1) /\ a = p * k + r
  BY Division
<1> HIDE DEF p, r
<1>2. p * k \in Nat /\ c * k \in Nat /\ (p + 1) * k = p * k + k
  BY <1>1, Products
<1>3. p < c => (p + 1) * k <= c * k
  BY <1>1, Products
<1>4. c <= p => c * k <= p * k
  BY <1>1, Products
<1>5. p < c <=> a < c * k
  BY <1>1, <1>2, <1>3, <1>4
<1> QED BY <1>5 DEF p

(* Numbers in the same sector. *)
LEMMA WithinSector ==
  ASSUME NEW a \in Nat, NEW k \in Nat \ {0}, NEW j \in Nat, (a % k) + j < k
  PROVE  (a + j) \div k = a \div k /\ (a + j) % k = (a % k) + j
<1> DEFINE p == a \div k
           r == a % k
<1>1. p \in Nat /\ r \in 0 .. (k - 1) /\ a = p * k + r /\ r + j < k
  BY Division
<1> HIDE DEF p, r
<1>2. r + j \in 0 .. (k - 1) /\ a + j \in Nat
  BY <1>1
<1>3. a + j = p * k + (r + j)
  <2>1. p * k \in Nat
    BY <1>1, Products
  <2> QED BY <1>1, <2>1
<1>4. (a + j) \div k = p /\ (a + j) % k = r + j
  BY <1>1, <1>2, <1>3, DivisionUnique
<1> QED BY <1>4 DEF p, r

-----------------------------------------------------------------------------
(* Clusters and sectors of an offset. *)

(* The constants. *)
LEMMA Geometry ==
  /\ S \in Nat \ {0} /\ K \in Nat \ {0} /\ Room \in Nat \ {0}
  /\ ClustSize \in Nat \ {0} /\ ClustSize = K * S
  /\ Room * K \in Nat /\ Garbage \in Byte /\ NoSect \notin SectorIds
<1>1. S \in Nat \ {0} /\ K \in Nat \ {0} /\ Room \in Nat \ {0} /\ Garbage \in Byte
  BY FileAssumption
<1>2. S * K \in Nat /\ S * K # 0 /\ S * K = K * S
  BY <1>1
<1>3. Room * K \in Nat
  BY <1>1
<1>4. Room * K \notin 0 .. (Room * K - 1)
  BY <1>3
<1> QED BY <1>1, <1>2, <1>3, <1>4 DEF ClustSize, NoSect, SectorIds

(* The sector of an offset is the one that fat_file_seek computes from its
   cluster, and lies in the chain if the cluster does. *)
LEMMA SectorOfOffset ==
  ASSUME NEW off \in Nat
  PROVE  /\ off \div ClustSize \in Nat /\ off \div S \in Nat
         /\ (off \div S) % K \in 0 .. (K - 1)
         /\ (off \div ClustSize) * K + ((off \div S) % K) = off \div S
<1>1. /\ S \in Nat \ {0} /\ K \in Nat \ {0} /\ ClustSize \in Nat \ {0} /\ ClustSize = K * S
  BY Geometry
<1> DEFINE a == off \div S
           x == off % S
           q == a \div K
           m == a % K
<1>2. a \in Nat /\ x \in 0 .. (S - 1) /\ off = a * S + x
  BY <1>1, Division
<1>3. q \in Nat /\ m \in 0 .. (K - 1) /\ a = q * K + m
  BY <1>1, <1>2, Division
<1> HIDE DEF a, x, q, m
<1>4. a * S = q * (K * S) + m * S
  <2>1. (q * K + m) * S = q * (K * S) + m * S
    BY <1>1, <1>3
  <2> QED BY <1>3, <2>1
<1>5. m * S + x \in 0 .. (K * S - 1)
  <2>1. (m + 1) * S <= K * S /\ (m + 1) * S = m * S + S /\ m * S \in Nat /\ K * S \in Nat
    BY <1>1, <1>3, Products
  <2> QED BY <1>1, <1>2, <2>1
<1>6. off = q * (K * S) + (m * S + x)
  <2>1. q * (K * S) \in Nat /\ m * S \in Nat
    BY <1>1, <1>3
  <2> QED BY <1>2, <1>4, <2>1
<1>7. off \div (K * S) = q
  BY <1>1, <1>3, <1>5, <1>6, DivisionUnique
<1>8. /\ off \div ClustSize = q /\ off \div S = a /\ (off \div S) % K = m
  BY <1>1, <1>7 DEF a, m
<1>9. q * K + m = a
  BY <1>3
<1> QED BY <1>2, <1>3, <1>8, <1>9

(* The sector that fat_file_seek computes is one of the cluster's. *)
LEMMA SectorInCluster ==
  ASSUME NEW c \in 0 .. (Room - 1), NEW m \in 0 .. (K - 1)
  PROVE  c * K + m \in SectorIds
<1>1. K \in Nat \ {0} /\ Room \in Nat \ {0} /\ Room * K \in Nat /\ c \in Nat /\ m \in Nat
  BY Geometry
<1>2. (c + 1) * K <= Room * K /\ (c + 1) * K = c * K + K /\ c * K \in Nat
  BY <1>1, Products
<1>3. c * K + m \in 0 .. (Room * K - 1)
  BY <1>1, <1>2
<1> QED BY <1>3 DEF SectorIds

-----------------------------------------------------------------------------
(* The inductive invariant, in parts. *)

FileType ==
  [size : Nat, offset : Nat, sect : SectorIds \cup {NoSect}, clust : 0 .. (Room - 1),
   buf : Sector, dirty : BOOLEAN, modified : BOOLEAN, flags : SUBSET Flags]

(* A handle h over the sectors st and a chain of ch clusters, while a call changes
   it. File.clust is never behind the offset; after a seek that failed with
   FAT_ERR_FULL it may be ahead of it. *)
Sound(h, st, ch) ==
  /\ h \in FileType
  /\ h.size <= ch * ClustSize
  /\ h.size = 0 => h.offset = 0 /\ h.sect = NoSect
  /\ h.offset \div ClustSize <= h.clust
  /\ h.sect # NoSect /\ ~h.dirty => h.buf = st[h.sect]

(* It stands in the chain unless the file is empty. *)
Placed(h, ch) == h.size > 0 => h.sect # NoSect /\ h.clust < ch

DiskInv ==
  /\ store \in [SectorIds -> Sector] /\ chain \in 0 .. Room
  /\ dsize \in 0 .. (chain * ClustSize)
  /\ open \in BOOLEAN

HandleInv ==
  /\ Sound(file, store, chain)
  /\ open => Placed(file, chain)
  /\ ~open => file = Closed

(* The calls: only an open file has one, and it has not returned yet. *)
CallInv ==
  /\ op \in {"none", "read", "write"} /\ out \in Seq(Byte)
  /\ op # "none" => open /\ last = NoCall
  /\ op # "read" => out = <<>>
  /\ op = "read" => todo \in [start : Nat, arg : Nat, left : Nat, err : {"NONE", "FULL"}]
  /\ op = "write" => todo \in [start : Nat, arg : Seq(Byte), left : Seq(Byte)]

FileInv == DiskInv /\ HandleInv /\ CallInv

(* The cluster and the sector are those of the offset. *)
At(h) == h.size > 0 =>
  h.clust = h.offset \div ClustSize /\ h.sect = h.offset \div S

(* A sector as the handle h sees it. *)
View(h, st) == [s \in SectorIds |-> IF h.sect = s THEN h.buf ELSE st[s]]

(* What has been delivered is what the file holds there; if the loop has met an
   error, it has delivered all there was. *)
ReadInv == op = "read" =>
  /\ \A i \in 1 .. Len(out) : out[i] = ByteAt(todo.start + i)
  /\ out # <<>> => todo.start + Len(out) <= file.size
  /\ todo.err = "NONE" => /\ file.offset = todo.start + Len(out)
                          /\ todo.left = todo.arg - Len(out)
  /\ todo.err # "NONE" => /\ todo.left = 0 /\ Len(out) <= todo.arg
                          /\ todo.start + Len(out) = file.size

(* What has been written is what the file holds there. *)
WriteInv == op = "write" /\ file.size > 0 /\ Fits(todo.start, todo.arg) =>
  \E n \in 0 .. Len(todo.arg) :
    /\ todo.left = SubSeq(todo.arg, n + 1, Len(todo.arg))
    /\ file.offset = todo.start + n
    /\ \A i \in 1 .. n : ByteAt(todo.start + i) = todo.arg[i]

(* The invariant of the calls as long as no seek has left File.clust ahead. *)
DataInv ==
  /\ open => At(file)
  /\ ReadInv /\ WriteInv
  /\ ReadDelivers /\ WriteStoresWithRoom

(* A seek past the last cluster that starts before it: fat_file_seek fails and
   leaves File.clust at the last cluster, File.offset where it was. *)
Strays(off) ==
  /\ chain # 0 /\ file.size > 0
  /\ off \div ClustSize >= Room /\ file.offset \div ClustSize # Room - 1

NoneStrays == [][\A off \in Offsets : FileSeek(off) => ~Strays(off)]_vars

-----------------------------------------------------------------------------
(* fat_file_seek. *)

(* The cluster the search arrives at is not behind the offset, and is the
   offset's if the handle was at its own. *)
LEMMA TargetFacts ==
  ASSUME NEW STATE h, NEW STATE off, h \in FileType, off \in Nat,
         h.offset \div ClustSize <= h.clust
  PROVE  /\ target_clust(h, off) \in Nat /\ off \div ClustSize <= target_clust(h, off)
         /\ h.clust = h.offset \div ClustSize => target_clust(h, off) = off \div ClustSize
<1> DEFINE dst == off \div ClustSize
           src == h.offset \div ClustSize
<1>1. /\ dst \in Nat /\ src \in Nat /\ h.clust \in Nat /\ src <= h.clust
      /\ target_clust(h, off) = IF dst < src THEN dst ELSE h.clust + (dst - src)
  <2>1. h.offset \in Nat /\ h.clust \in 0 .. (Room - 1)
    BY DEF FileType
  <2>2. dst \in Nat /\ src \in Nat
    BY <2>1, Geometry, Division
  <2>3. h.clust \in Nat
    BY <2>1, Geometry
  <2> HIDE DEF dst, src
  <2>4. target_clust(h, off) = IF dst < src THEN dst ELSE h.clust + (dst - src)
    BY DEF dst, src, target_clust
  <2> QED BY <2>2, <2>3, <2>4 DEF src
<1> HIDE DEF dst, src
<1>2. /\ target_clust(h, off) \in Nat /\ dst <= target_clust(h, off)
      /\ h.clust = src => target_clust(h, off) = dst
  BY <1>1
<1> QED BY <1>2 DEF dst, src

(* The sector of a cluster that holds the offset. *)
sector_at(c, off) == (c * K) + ((off \div S) % K)

(* What fat_file_seek keeps, whatever its outcome: the content of every sector,
   and what the handle says of itself. *)
LEMMA SeekFacts ==
  ASSUME DiskInv, NEW STATE h, NEW STATE off, off \in Nat, Sound(h, store, chain),
         NEW STATE r, r = seek(h, off)
  PROVE  /\ r.store \in [SectorIds -> Sector] /\ r.chain \in 0 .. Room /\ chain <= r.chain
         /\ Sound(r.file, r.store, r.chain)
         /\ r.file.size = h.size /\ r.file.flags = h.flags /\ r.file.modified = h.modified
         /\ View(r.file, r.store) = View(h, store)
         /\ h.size = 0 => r.err = "NONE" /\ r.file.offset = 0
         /\ r.err = "NONE" /\ h.size > 0 =>
              /\ r.file.offset = off /\ r.file.clust = target_clust(h, off)
              /\ r.file.sect = sector_at(target_clust(h, off), off)
              /\ r.file.sect \in SectorIds /\ target_clust(h, off) < r.chain
         /\ r.err # "NONE" =>
              /\ r.err = "FULL" /\ target_clust(h, off) >= Room /\ h.size > 0
              /\ r.file = [h EXCEPT !.clust = Room - 1] /\ r.chain = Room /\ r.store = store
<1> DEFINE c == target_clust(h, off)
           s == sector_at(c, off)
<1> USE DEF Sound
<1>1. /\ S \in Nat \ {0} /\ K \in Nat \ {0} /\ Room \in Nat \ {0} /\ NoSect \notin SectorIds
      /\ ClustSize \in Nat \ {0}
  BY Geometry
<1>2. c \in Nat /\ off \div ClustSize <= c
  BY TargetFacts
<1>3. (off \div S) % K \in 0 .. (K - 1) /\ off \div ClustSize \in Nat
  BY SectorOfOffset
<1>4. /\ h \in FileType /\ h.size \in Nat /\ h.buf \in Sector
      /\ store \in [SectorIds -> Sector] /\ chain \in 0 .. Room
  BY DEF FileType, DiskInv
<1>5. chain = 0 => h.size = 0
  BY <1>1, <1>4
<1>6. CASE h.size = 0
  <2>1. r = Outcome("NONE", [h EXCEPT !.offset = 0, !.sect = NoSect], chain, store)
    BY <1>6 DEF seek
  <2>2. [h EXCEPT !.offset = 0, !.sect = NoSect] = h
    BY <1>4, <1>6 DEF FileType
  <2>3. r.err = "NONE" /\ r.file = h /\ r.chain = chain /\ r.store = store
    BY <2>1, <2>2 DEF Outcome
  <2> QED BY <1>4, <1>6, <2>3
<1>7. CASE h.size > 0 /\ c >= Room
  <2>1. r = Outcome("FULL", [h EXCEPT !.clust = Room - 1], Room, store)
    BY <1>1, <1>2, <1>5, <1>7 DEF seek, stretched_in_vain
  <2> DEFINE g == [h EXCEPT !.clust = Room - 1]
  <2>2. /\ r.err = "FULL" /\ r.file = g /\ r.chain = Room /\ r.store = store
    BY <2>1 DEF Outcome
  <2>3. Room - 1 \in 0 .. (Room - 1)
    BY <1>1
  <2>4. /\ g \in FileType /\ g.size = h.size /\ g.flags = h.flags /\ g.modified = h.modified
        /\ g.offset = h.offset /\ g.sect = h.sect /\ g.buf = h.buf /\ g.dirty = h.dirty
        /\ g.clust = Room - 1
    BY <1>4, <2>3 DEF FileType
  <2> HIDE DEF g
  <2>5. h.size <= Room * ClustSize
    <3>1. chain * ClustSize <= Room * ClustSize /\ chain * ClustSize \in Nat
          /\ Room * ClustSize \in Nat
      BY <1>1, <1>4, Products
    <3> QED BY <1>4, <3>1
  <2>6. h.offset \div ClustSize <= Room - 1
    <3>1. h.offset \div ClustSize \in Nat /\ h.clust \in 0 .. (Room - 1)
      BY <1>1, <1>4, Division DEF FileType
    <3> QED BY <1>1, <3>1
  <2>7. View(g, store) = View(h, store)
    BY <2>4 DEF View
  <2>8. Sound(g, store, Room)
    BY <1>7, <2>4, <2>5, <2>6
  <2> QED BY <1>1, <1>4, <1>7, <2>2, <2>4, <2>7, <2>8 DEF g
<1>8. CASE h.size > 0 /\ c < Room
  <2> DEFINE st == IF h.dirty /\ s # h.sect /\ h.sect # NoSect
                     THEN [store EXCEPT ![h.sect] = h.buf] ELSE store
             moved == [h EXCEPT !.clust = c, !.sect = s, !.offset = off]
             g == IF s = h.sect THEN moved ELSE [moved EXCEPT !.buf = st[s], !.dirty = FALSE]
             ch == byte_max(chain, c + 1)
  <2>1. r = Outcome("NONE", g, ch, st)
    BY <1>1, <1>2, <1>5, <1>8 DEF seek, load_sector, sector_at
  <2>2. r.err = "NONE" /\ r.file = g /\ r.chain = ch /\ r.store = st
    BY <2>1 DEF Outcome
  <2>3. c \in 0 .. (Room - 1) /\ s \in SectorIds /\ s # NoSect
    <3>1. c \in 0 .. (Room - 1)
      BY <1>1, <1>2, <1>8
    <3>2. s \in SectorIds
      BY <1>3, <3>1, SectorInCluster DEF sector_at
    <3> QED BY <1>1, <3>1, <3>2
  <2> HIDE DEF c, s
  <2>4. /\ st \in [SectorIds -> Sector]
        /\ \A x \in SectorIds : st[x] = IF h.dirty /\ s # h.sect /\ h.sect = x THEN h.buf
                                         ELSE store[x]
    BY <1>1, <1>4 DEF FileType
  <2> HIDE DEF st
  <2>5. /\ moved \in FileType /\ moved.size = h.size /\ moved.flags = h.flags
        /\ moved.modified = h.modified /\ moved.offset = off /\ moved.sect = s
        /\ moved.clust = c /\ moved.buf = h.buf /\ moved.dirty = h.dirty
    BY <1>4, <2>3 DEF FileType
  <2> HIDE DEF moved
  <2>6. /\ g \in FileType /\ g.size = h.size /\ g.flags = h.flags
        /\ g.modified = h.modified /\ g.offset = off /\ g.sect = s /\ g.clust = c
        /\ s = h.sect => g.buf = h.buf /\ g.dirty = h.dirty
        /\ s # h.sect => g.buf = st[s] /\ g.dirty = FALSE
    <3>1. st[s] \in Sector
      BY <2>3, <2>4
    <3> QED BY <2>5, <3>1 DEF FileType
  <2> HIDE DEF g
  <2>7. ch \in 0 .. Room /\ chain <= ch /\ c < ch
    BY <1>1, <1>4, <2>3 DEF byte_max
  <2> HIDE DEF ch
  <2>8. h.size <= ch * ClustSize
    <3>1. chain * ClustSize <= ch * ClustSize /\ chain * ClustSize \in Nat
          /\ ch * ClustSize \in Nat
      BY <1>1, <1>4, <2>7, Products
    <3> QED BY <1>4, <3>1
  <2>9. ~g.dirty => g.buf = st[s]
    <3>1. CASE s = h.sect
      BY <2>3, <2>4, <2>6, <3>1
    <3>2. CASE s # h.sect
      BY <2>6, <3>2
    <3> QED BY <3>1, <3>2
  <2>10. Sound(g, st, ch)
    <3>1. g.offset \div ClustSize <= g.clust
      BY <1>2, <2>6 DEF c
    <3>2. g.size = 0 => FALSE
      BY <1>8, <2>6
    <3>3. g.size <= ch * ClustSize
      BY <2>6, <2>8
    <3> QED BY <2>6, <2>9, <3>1, <3>2, <3>3
  <2>11. View(g, st) = View(h, store)
    <3>1. ASSUME NEW x \in SectorIds
          PROVE  (IF g.sect = x THEN g.buf ELSE st[x]) = (IF h.sect = x THEN h.buf ELSE store[x])
      <4>1. x # NoSect
        BY <1>1
      <4>2. h.sect = x /\ ~h.dirty => h.buf = store[x]
        BY <4>1
      <4> QED BY <2>3, <2>4, <2>6, <4>1, <4>2
    <3> QED BY <3>1 DEF View
  <2> QED BY <1>8, <2>2, <2>3, <2>4, <2>6, <2>7, <2>10, <2>11 DEF c, s
<1> QED BY <1>2, <1>1, <1>4, <1>6, <1>7, <1>8

(* A handle that stood at its cluster stands at the one of the new offset, unless
   the volume is full. *)
LEMMA SeekAt ==
  ASSUME DiskInv, NEW STATE h, NEW STATE off, off \in Nat, Sound(h, store, chain),
         NEW STATE r, r = seek(h, off), h.clust = h.offset \div ClustSize
  PROVE  /\ r.err = "NONE" => At(r.file)
         /\ r.err # "NONE" => /\ off \div ClustSize >= Room
                              /\ (At(h) /\ h.offset \div ClustSize = Room - 1 => At(r.file))
<1>1. /\ r.file.size = h.size
      /\ r.err = "NONE" /\ h.size > 0 =>
           /\ r.file.offset = off /\ r.file.clust = target_clust(h, off)
           /\ r.file.sect = sector_at(target_clust(h, off), off)
      /\ r.err # "NONE" => /\ target_clust(h, off) >= Room
                           /\ r.file = [h EXCEPT !.clust = Room - 1]
  BY SeekFacts
<1>2. h \in FileType
  BY DEF Sound
<1>3. target_clust(h, off) = off \div ClustSize
  BY <1>2, TargetFacts DEF Sound
<1>4. sector_at(off \div ClustSize, off) = off \div S
  BY SectorOfOffset DEF sector_at
<1>5. CASE r.err = "NONE"
  BY <1>1, <1>3, <1>4, <1>5 DEF At
<1>6. CASE r.err # "NONE"
  <2> DEFINE g == [h EXCEPT !.clust = Room - 1]
  <2>1. /\ g.size = h.size /\ g.offset = h.offset /\ g.sect = h.sect /\ g.clust = Room - 1
    BY <1>2 DEF FileType
  <2> HIDE DEF g
  <2>2. At(h) /\ h.offset \div ClustSize = Room - 1 => At(g)
    BY <2>1 DEF At
  <2> QED BY <1>1, <1>3, <1>6, <2>2 DEF g
<1> QED BY <1>5, <1>6

(* One piece of a call reaches into the next cluster at most, so that the volume
   is full only behind its last one. *)
LEMMA FullAtLast ==
  ASSUME NEW off \in Nat, NEW cnt \in 1 .. S,
         off \div ClustSize < Room, (off + cnt) \div ClustSize >= Room
  PROVE  off \div ClustSize = Room - 1 /\ off + cnt >= Room * ClustSize
<1>1. /\ S \in Nat \ {0} /\ K \in Nat \ {0} /\ Room \in Nat \ {0} /\ ClustSize \in Nat \ {0}
      /\ ClustSize = K * S /\ off + cnt \in Nat /\ cnt \in Nat /\ Room - 1 \in Nat
  BY Geometry
<1>2. off + cnt >= Room * ClustSize /\ Room * ClustSize \in Nat
  <2>1. ~((off + cnt) \div ClustSize < Room)
    BY <1>1, Division
  <2>2. ~(off + cnt < Room * ClustSize) /\ Room * ClustSize \in Nat
    BY <1>1, <2>1, QuotientBelow, Products
  <2> QED BY <1>1, <2>2
<1>3. S <= ClustSize
  <2>1. 1 * S <= K * S
    BY <1>1, Products
  <2> QED BY <1>1, <2>1
<1>4. Room * ClustSize = (Room - 1) * ClustSize + ClustSize /\ (Room - 1) * ClustSize \in Nat
  BY <1>1, Products
<1>5. ~(off < (Room - 1) * ClustSize)
  BY <1>1, <1>2, <1>3, <1>4
<1>6. ~(off \div ClustSize < Room - 1)
  BY <1>1, <1>5, QuotientBelow
<1>7. off \div ClustSize \in Nat
  BY <1>1, Division
<1> QED BY <1>1, <1>2, <1>6, <1>7

(* What a handle of an open file is, and a closed one. *)
LEMMA ClosedFacts ==
  /\ Closed \in FileType /\ Closed.size = 0 /\ Closed.offset = 0 /\ Closed.sect = NoSect
  /\ Closed.clust = 0 /\ Closed.dirty = FALSE
  /\ 0 \div ClustSize = 0
<1>1. /\ S \in Nat \ {0} /\ Room \in Nat \ {0} /\ ClustSize \in Nat \ {0} /\ Garbage \in Byte
  BY Geometry
<1>2. [i \in 0 .. (S - 1) |-> Garbage] \in Sector
  BY <1>1 DEF Sector
<1>3. 0 \in 0 .. (Room - 1)
  BY <1>1
<1>4. 0 \div ClustSize = 0
  <2>1. 0 = 0 * ClustSize + 0 /\ 0 \in 0 .. (ClustSize - 1)
    BY <1>1
  <2> QED BY <1>1, <2>1, DivisionUnique
<1> QED BY <1>2, <1>3, <1>4 DEF Closed, FileType

-----------------------------------------------------------------------------
(* The steps, and the parts of the invariant about disk and handle. *)

(* A step that seeks. *)
LEMMA SeekStep ==
  ASSUME DiskInv, NEW STATE h, NEW STATE off, off \in Nat, Sound(h, store, chain),
         NEW STATE r, r = seek(h, off), r.err = "NONE" \/ h.sect # NoSect \/ h.size = 0,
         file' = r.file, chain' = r.chain, store' = r.store, dsize' = dsize, open' = TRUE
  PROVE  /\ DiskInv' /\ HandleInv'
         /\ View(file', store') = View(h, store)
         /\ file'.size = h.size /\ file'.modified = h.modified /\ r.err \in {"NONE", "FULL"}
         /\ h.size = 0 => file'.offset = 0 /\ r.err = "NONE"
         /\ h.size > 0 => file'.offset = IF r.err = "NONE" THEN off ELSE h.offset
<1>1. /\ r.store \in [SectorIds -> Sector] /\ r.chain \in 0 .. Room /\ chain <= r.chain
      /\ Sound(r.file, r.store, r.chain)
      /\ r.file.size = h.size /\ r.file.modified = h.modified
      /\ View(r.file, r.store) = View(h, store)
      /\ h.size = 0 => r.err = "NONE" /\ r.file.offset = 0
      /\ r.err = "NONE" /\ h.size > 0 =>
           /\ r.file.offset = off /\ r.file.clust = target_clust(h, off)
           /\ r.file.sect \in SectorIds /\ target_clust(h, off) < r.chain
      /\ r.err # "NONE" =>
           r.err = "FULL" /\ r.file = [h EXCEPT !.clust = Room - 1] /\ r.chain = Room
  BY SeekFacts
<1>2. DiskInv'
  <2>1. chain * ClustSize <= r.chain * ClustSize /\ chain * ClustSize \in Nat
        /\ r.chain * ClustSize \in Nat
    <3>1. chain \in Nat /\ r.chain \in Nat /\ ClustSize \in Nat
      BY <1>1, Geometry DEF DiskInv
    <3> QED BY <1>1, <3>1, Products
  <2> QED BY <1>1, <2>1 DEF DiskInv
<1>3. Placed(r.file, r.chain)
  <2>1. CASE r.err = "NONE"
    BY <1>1, <2>1, Geometry DEF Placed
  <2>2. CASE r.err # "NONE"
    <3>1. h \in FileType /\ Room \in Nat
      BY Geometry DEF Sound
    <3>2. r.file.clust = Room - 1 /\ r.file.sect = h.sect
      BY <1>1, <2>2, <3>1 DEF FileType
    <3> QED BY <1>1, <2>2, <3>1, <3>2 DEF Placed
  <2> QED BY <2>1, <2>2
<1>4. HandleInv'
  BY <1>1, <1>3 DEF HandleInv, Sound, Placed
<1>5. h.size > 0 => file'.offset = IF r.err = "NONE" THEN off ELSE h.offset
  <2>1. CASE r.err # "NONE"
    <3>1. h \in FileType
      BY DEF Sound
    <3>2. r.file.offset = h.offset
      BY <1>1, <2>1, <3>1 DEF FileType
    <3> QED BY <2>1, <3>2
  <2>2. CASE r.err = "NONE"
    BY <1>1, <2>2
  <2> QED BY <2>1, <2>2
<1> QED BY <1>1, <1>2, <1>4, <1>5

(* A closed file is seen as it is on the disk. *)
LEMMA UnseenView ==
  ASSUME DiskInv, NEW STATE h, h.sect = NoSect
  PROVE  View(h, store) = store
BY Geometry DEF View, DiskInv

(* The position and the size of an open file lie in its clusters. *)
LEMMA InChain ==
  ASSUME DiskInv, HandleInv
  PROVE  /\ file.size \in Nat /\ file.offset \in Nat /\ file.clust \in 0 .. (Room - 1)
         /\ file.size <= chain * ClustSize
         /\ open /\ file.size > 0 =>
              /\ file.sect \in SectorIds /\ file.clust < chain
              /\ file.offset < chain * ClustSize
         /\ CurSize \in 0 .. (chain * ClustSize)
         /\ chain * ClustSize <= Room * ClustSize
<1>1. /\ file \in FileType /\ file.size <= chain * ClustSize
      /\ file.size = 0 => file.offset = 0
      /\ file.offset \div ClustSize <= file.clust
      /\ open /\ file.size > 0 => file.sect # NoSect /\ file.clust < chain
  BY DEF HandleInv, Sound, Placed
<1>2. /\ file.size \in Nat /\ file.offset \in Nat /\ file.clust \in 0 .. (Room - 1)
      /\ file.sect \in SectorIds \cup {NoSect}
  BY <1>1 DEF FileType
<1>3. /\ ClustSize \in Nat \ {0} /\ Room \in Nat /\ chain \in Nat /\ chain <= Room
      /\ dsize \in 0 .. (chain * ClustSize)
  BY Geometry DEF DiskInv
<1>4. /\ chain * ClustSize \in Nat /\ Room * ClustSize \in Nat
      /\ chain * ClustSize <= Room * ClustSize
  BY <1>3, Products
<1>5. open /\ file.size > 0 => file.offset < chain * ClustSize
  <2> DEFINE q == file.offset \div ClustSize
  <2>1. q \in Nat /\ q <= file.clust
    BY <1>1, <1>2, <1>3, Division
  <2> HIDE DEF q
  <2>2. open /\ file.size > 0 => q < chain
    BY <1>1, <1>2, <1>3, <2>1
  <2> QED BY <1>2, <1>3, <2>2, QuotientBelow DEF q
<1>6. CurSize \in 0 .. (chain * ClustSize)
  <2> DEFINE z == chain * ClustSize
  <2>1. z \in Nat /\ file.size <= z /\ dsize \in 0 .. z /\ (open /\ file.size > 0 => file.offset < z)
    BY <1>1, <1>3, <1>4, <1>5
  <2> HIDE DEF z
  <2>2. CurSize \in 0 .. z
    BY <1>1, <1>2, <2>1 DEF CurSize, byte_max
  <2> QED BY <2>2 DEF z
<1> QED BY <1>1, <1>2, <1>4, <1>5, <1>6

(* Opening. *)
LEMMA OpenStep ==
  ASSUME FileInv, NEW mode \in Modes, FileOpen(mode)
  PROVE  /\ DiskInv' /\ HandleInv' /\ At(file') /\ open'
         /\ View(file', store') = View(file, store)
         /\ file'.size = IF "TRUNC" \in mode THEN 0 ELSE dsize
         /\ file'.offset = IF "APPEND" \in mode THEN file'.size ELSE 0
         /\ ~file'.modified => file'.size = dsize
<1> DEFINE size == IF "TRUNC" \in mode THEN 0 ELSE dsize
           h    == [Closed EXCEPT !.size = size, !.flags = mode, !.modified = (size # dsize)]
           off  == IF "APPEND" \in mode THEN size ELSE 0
           r    == seek(h, off)
<1>1. /\ r.err = "NONE" /\ file' = r.file /\ chain' = r.chain /\ store' = r.store
      /\ dsize' = dsize /\ ~open
  BY DEF FileOpen
<1>2. open' = TRUE
  BY DEF FileOpen
<1>3. DiskInv /\ file = Closed
  BY <1>1 DEF FileInv, HandleInv
<1>4. chain * ClustSize \in Nat /\ size \in Nat /\ size <= chain * ClustSize
  <2>1. chain * ClustSize \in Nat
    BY <1>3, Geometry, Products DEF DiskInv
  <2> QED BY <1>3, <2>1 DEF DiskInv
<1>5. /\ h \in FileType /\ h.size = size /\ h.offset = 0 /\ h.sect = NoSect /\ h.clust = 0
      /\ h.dirty = FALSE /\ h.modified = (size # dsize)
  <2>1. mode \in SUBSET Flags
    BY FileAssumption
  <2> HIDE DEF size
  <2> QED BY <1>4, <2>1, ClosedFacts DEF FileType
<1>6. off \in Nat /\ off = IF "APPEND" \in mode THEN size ELSE 0
  BY <1>4
<1> HIDE DEF h, size, off
<1>7. Sound(h, store, chain)
  BY <1>4, <1>5, ClosedFacts DEF Sound
<1>8. h.clust = h.offset \div ClustSize
  BY <1>5, ClosedFacts
<1> HIDE DEF r
<1>9. r = seek(h, off)
  BY DEF r
<1>10. /\ DiskInv' /\ HandleInv' /\ View(file', store') = View(h, store)
       /\ file'.size = h.size /\ file'.modified = h.modified
       /\ h.size = 0 => file'.offset = 0
       /\ h.size > 0 => file'.offset = IF r.err = "NONE" THEN off ELSE h.offset
  BY <1>1, <1>2, <1>3, <1>6, <1>7, <1>9, SeekStep
<1>11. At(file')
  BY <1>1, <1>3, <1>6, <1>7, <1>8, <1>9, SeekAt
<1>12. View(h, store) = store /\ View(file, store) = store
  BY <1>3, <1>5, ClosedFacts, UnseenView
<1>13. file'.offset = off
  BY <1>1, <1>4, <1>5, <1>6, <1>10
<1>14. ~file'.modified => file'.size = dsize
  BY <1>5, <1>10
<1> QED BY <1>2, <1>5, <1>6, <1>10, <1>11, <1>12, <1>13, <1>14 DEF size

(* Seeking. *)
LEMMA FileSeekStep ==
  ASSUME FileInv, NEW off \in Offsets, FileSeek(off)
  PROVE  /\ DiskInv' /\ HandleInv' /\ open'
         /\ View(file', store') = View(file, store)
         /\ file'.size = file.size /\ file'.modified = file.modified
         /\ file.size = 0 => file'.offset = 0
         /\ At(file) /\ ~Strays(off) => At(file')
<1> DEFINE r == seek(file, off)
<1>1. /\ file' = r.file /\ chain' = r.chain /\ store' = r.store /\ dsize' = dsize
      /\ open /\ open' = open
  BY DEF FileSeek
<1>2. /\ DiskInv /\ Sound(file, store, chain) /\ Placed(file, chain) /\ off \in Nat
      /\ open' = TRUE /\ file \in FileType
  BY <1>1, FileAssumption DEF FileInv, HandleInv, DiskInv, Sound
<1> HIDE DEF r
<1>3. r = seek(file, off)
  BY DEF r
<1>4. file.sect # NoSect \/ file.size = 0
  <2>1. file.size \in Nat
    BY <1>2 DEF FileType
  <2> QED BY <1>2, <2>1 DEF Placed
<1>5. /\ DiskInv' /\ HandleInv'
      /\ View(file', store') = View(file, store)
      /\ file'.size = file.size /\ file'.modified = file.modified
      /\ file.size = 0 => file'.offset = 0 /\ r.err = "NONE"
  BY <1>1, <1>2, <1>3, <1>4, SeekStep
<1>6. ASSUME At(file), ~Strays(off) PROVE At(file')
  <2>1. CASE file.size = 0
    BY <1>5, <2>1 DEF At
  <2>2. CASE file.size > 0
    <3>1. file.clust = file.offset \div ClustSize
      BY <1>6, <2>2 DEF At
    <3>2. /\ r.err = "NONE" => At(r.file)
          /\ r.err # "NONE" => /\ off \div ClustSize >= Room
                               /\ (At(file) /\ file.offset \div ClustSize = Room - 1 => At(r.file))
      BY <1>2, <1>3, <3>1, SeekAt
    <3>3. chain # 0
      <4>1. 0 * ClustSize = 0
        BY Geometry
      <4>2. file.size <= chain * ClustSize /\ file.size \in Nat
        BY <1>2 DEF Sound, FileType
      <4>3. chain = 0 => file.size <= 0
        BY <4>1, <4>2
      <4> QED BY <2>2, <4>2, <4>3
    <3> QED BY <1>1, <1>6, <2>2, <3>2, <3>3 DEF Strays
  <2>3. file.size \in Nat
    BY <1>2 DEF FileType
  <2> QED BY <2>1, <2>2, <2>3
<1> QED BY <1>1, <1>2, <1>5, <1>6

(* Writing the buffer back shows what was there. *)
LEMMA SyncStep ==
  ASSUME FileInv, FileSync \/ FileClose
  PROVE  /\ DiskInv' /\ HandleInv'
         /\ View(file', store') = View(file, store)
         /\ FileSync => /\ open /\ open' /\ file'.size = file.size /\ file'.offset = file.offset
                       /\ file'.sect = file.sect /\ file'.clust = file.clust
                       /\ ~file'.modified
         /\ FileClose => open /\ ~open'
         /\ dsize' = IF file.modified THEN file.size ELSE dsize
<1>1. /\ store' = written_back /\ dsize' = (IF file.modified THEN file.size ELSE dsize)
      /\ chain' = chain /\ open
  BY DEF FileSync, FileClose
<1>2. /\ DiskInv /\ Sound(file, store, chain) /\ Placed(file, chain) /\ file \in FileType
  BY <1>1 DEF FileInv, HandleInv, Sound
<1>3. /\ store \in [SectorIds -> Sector] /\ file.buf \in Sector /\ file.size \in Nat
      /\ file.size <= chain * ClustSize /\ chain * ClustSize \in Nat /\ NoSect \notin SectorIds
  <2>1. chain * ClustSize \in Nat
    BY <1>2, Geometry, Products DEF DiskInv
  <2> QED BY <1>2, <2>1, Geometry DEF FileType, DiskInv, Sound
<1>4. /\ store' \in [SectorIds -> Sector]
      /\ \A x \in SectorIds : store'[x] = IF file.sect = x THEN file.buf ELSE store[x]
  <2>1. CASE file.sect = NoSect
    BY <1>1, <1>3, <2>1 DEF written_back
  <2>2. CASE file.sect # NoSect
    <3>1. store' = [store EXCEPT ![file.sect] = file.buf]
      BY <1>1, <2>2 DEF written_back
    <3> QED BY <1>3, <3>1
  <2> QED BY <2>1, <2>2
<1>5. DiskInv'
  <2>1. dsize' \in 0 .. (chain * ClustSize)
    BY <1>1, <1>2, <1>3 DEF DiskInv
  <2>2. open' \in BOOLEAN
    BY <1>1 DEF FileSync, FileClose
  <2> QED BY <1>1, <1>2, <1>4, <2>1, <2>2 DEF DiskInv
<1>6. CASE FileSync
  <2>1. /\ file' \in FileType /\ file'.size = file.size /\ file'.offset = file.offset
        /\ file'.sect = file.sect /\ file'.clust = file.clust /\ file'.buf = file.buf
        /\ file'.dirty = file.dirty /\ file'.modified = FALSE
    BY <1>2, <1>6 DEF FileSync, FileType
  <2>2. open' = open
    BY <1>6 DEF FileSync
  <2>3. View(file', store') = View(file, store)
    BY <1>4, <2>1 DEF View
  <2>4. file'.sect # NoSect /\ ~file'.dirty => file'.buf = store'[file'.sect]
    <3>1. file.sect # NoSect => file.sect \in SectorIds
      BY <1>2 DEF FileType
    <3> QED BY <1>4, <2>1, <3>1
  <2>5. Sound(file', store', chain')
    BY <1>1, <1>2, <2>1, <2>4 DEF Sound
  <2>6. HandleInv'
    BY <1>1, <1>2, <2>1, <2>2, <2>5 DEF HandleInv, Placed, Sound
  <2>7. ~FileClose
    BY <1>1, <2>2 DEF FileClose
  <2> QED BY <1>1, <1>5, <2>1, <2>2, <2>3, <2>6, <2>7
<1>7. CASE FileClose
  <2>1. file' = Closed /\ ~open'
    BY <1>7 DEF FileClose
  <2>2. View(file', store') = View(file, store)
    BY <1>3, <1>4, <2>1, ClosedFacts DEF View
  <2>3. Sound(Closed, store', chain')
    BY <1>1, <1>3, ClosedFacts DEF Sound
  <2>4. HandleInv'
    BY <2>1, <2>3 DEF HandleInv, Sound
  <2>5. ~FileSync
    BY <1>1, <2>1 DEF FileSync
  <2> QED BY <1>1, <1>5, <2>1, <2>2, <2>4, <2>5
<1> QED BY <1>6, <1>7

(* How many bytes an iteration of the loops moves: within the sector. *)
LEMMA PieceFacts ==
  ASSUME FileInv
  PROVE  /\ file.offset % S \in 0 .. (S - 1) /\ S - (file.offset % S) \in 1 .. S
         /\ \A n \in Nat : byte_min(n, S - (file.offset % S)) \in 0 .. S
<1>1. file.offset \in Nat /\ S \in Nat \ {0}
  BY InChain, Geometry DEF FileInv
<1>2. file.offset % S \in 0 .. (S - 1)
  BY <1>1, Division
<1> DEFINE x == file.offset % S
<1> HIDE DEF x
<1>3. x \in 0 .. (S - 1)
  BY <1>2 DEF x
<1>4. S - x \in 1 .. S /\ \A n \in Nat : byte_min(n, S - x) \in 0 .. S
  BY <1>1, <1>3 DEF byte_min
<1> QED BY <1>2, <1>4 DEF x

(* The bytes of a piece, where the file holds them. *)
LEMMA PieceBytes ==
  ASSUME FileInv, At(file), file.size > 0, open,
         NEW i \in 1 .. S, (file.offset % S) + i <= S
  PROVE  /\ (file.offset + i - 1) \div S = file.sect
         /\ (file.offset + i - 1) % S = (file.offset % S) + i - 1
         /\ (file.offset % S) + i - 1 \in 0 .. (S - 1)
         /\ ByteAt(file.offset + i) = file.buf[(file.offset % S) + i - 1]
<1>1. file.offset \in Nat /\ S \in Nat \ {0} /\ i - 1 \in Nat /\ i \in Nat
  BY InChain, Geometry DEF FileInv
<1>2. file.offset % S \in 0 .. (S - 1)
  BY <1>1, Division
<1> DEFINE x == file.offset % S
           o == file.offset
<1>3. (o % S) + (i - 1) < S
  <2> HIDE DEF o
  <2>1. o % S \in Nat /\ (o % S) + i <= S
    BY <1>2 DEF o
  <2> QED BY <1>1, <2>1
<1>4. (o + (i - 1)) \div S = o \div S /\ (o + (i - 1)) % S = (o % S) + (i - 1)
  BY <1>1, <1>3, WithinSector
<1>5. o + (i - 1) = o + i - 1 /\ (o % S) + (i - 1) = (o % S) + i - 1
  <2> HIDE DEF o
  <2>1. o \in Nat /\ o % S \in Nat
    BY <1>1, <1>2 DEF o
  <2> QED BY <1>1, <2>1
<1>6. (o % S) + i - 1 \in 0 .. (S - 1)
  <2> HIDE DEF o
  <2>1. o \in Nat /\ o % S \in Nat
    BY <1>1, <1>2 DEF o
  <2> QED BY <1>1, <1>3, <2>1
<1>7. o + (i - 1) = (o + i) - 1
  <2> HIDE DEF o
  <2>1. o \in Nat
    BY <1>1 DEF o
  <2> QED BY <1>1, <2>1
<1> DEFINE k == o + i
           s == (k - 1) \div S
           y == (k - 1) % S
<1>8. ByteAt(k) = IF open /\ file.sect = s THEN file.buf[y] ELSE store[s][y]
  <2> HIDE DEF k
  <2> QED BY DEF ByteAt
<1>9. s = file.sect /\ y = (o % S) + i - 1
  BY <1>4, <1>5, <1>7 DEF At
<1> HIDE DEF k, s, y
<1>10. ByteAt(k) = file.buf[(o % S) + i - 1]
  BY <1>8, <1>9
<1> QED BY <1>4, <1>5, <1>6, <1>10 DEF At, k

(* Seeking on behind a piece of an open file, whose handle h differs from it in
   the buffer at most. *)
LEMMA SeekOn ==
  ASSUME FileInv, open, NEW STATE h, Sound(h, store, chain), h.size = file.size,
         h.offset = file.offset, h.clust = file.clust, h.sect = file.sect,
         NEW STATE cnt, cnt \in 1 .. S, NEW STATE r, r = seek(h, file.offset + cnt),
         file' = r.file, chain' = r.chain, store' = r.store, dsize' = dsize, open' = open
  PROVE  /\ DiskInv' /\ HandleInv' /\ View(file', store') = View(h, store)
         /\ file'.size = file.size /\ (file'.size = 0 => file'.offset = 0)
         /\ file'.modified = h.modified
         /\ r.err \in {"NONE", "FULL"}
         /\ r.err = "NONE" /\ file.size > 0 => file'.offset = file.offset + cnt
         /\ r.err # "NONE" => file.size > 0 /\ file'.offset = file.offset
         /\ At(file) => /\ At(file')
                        /\ r.err # "NONE" => file.offset + cnt >= Room * ClustSize
<1> DEFINE off == file.offset + cnt
<1>1. /\ DiskInv /\ file.offset \in Nat /\ file.size \in Nat /\ file.clust \in 0 .. (Room - 1)
      /\ off \in Nat /\ S \in Nat \ {0} /\ Room \in Nat \ {0} /\ ClustSize \in Nat \ {0}
      /\ open' = TRUE /\ h \in FileType
  <2>1. file.offset \in Nat /\ file.size \in Nat /\ file.clust \in 0 .. (Room - 1)
    BY InChain DEF FileInv
  <2>2. off \in Nat
    BY <2>1, Geometry
  <2> QED BY <2>1, <2>2, Geometry DEF FileInv, DiskInv, Sound
<1>2. r = seek(h, off)
  OBVIOUS
<1> HIDE DEF off
<1>3. h.sect # NoSect \/ h.size = 0
  BY <1>1 DEF FileInv, HandleInv, Placed
<1>4. /\ DiskInv' /\ HandleInv' /\ View(file', store') = View(h, store)
      /\ file'.size = h.size /\ file'.modified = h.modified
      /\ h.size = 0 => file'.offset = 0 /\ r.err = "NONE"
      /\ h.size > 0 => file'.offset = IF r.err = "NONE" THEN off ELSE h.offset
  BY <1>1, <1>2, <1>3, SeekStep
<1>5. r.err \in {"NONE", "FULL"}
  BY <1>1, <1>2, <1>3, SeekStep
<1>6. ASSUME At(file)
      PROVE  /\ At(file')
             /\ r.err # "NONE" => off >= Room * ClustSize
  <2>1. CASE file.size = 0
    BY <1>4, <2>1 DEF At
  <2>2. CASE file.size > 0
    <3>1. h.clust = h.offset \div ClustSize /\ At(h)
      BY <1>6, <2>2 DEF At
    <3>2. /\ r.err = "NONE" => At(r.file)
          /\ r.err # "NONE" => /\ off \div ClustSize >= Room
                               /\ (At(h) /\ h.offset \div ClustSize = Room - 1 => At(r.file))
      BY <1>1, <1>2, <3>1, SeekAt
    <3>3. ASSUME r.err # "NONE"
          PROVE  file.offset \div ClustSize = Room - 1 /\ off >= Room * ClustSize
      <4>1. file.offset \div ClustSize < Room
        BY <1>1, <3>1
      <4>2. (file.offset + cnt) \div ClustSize >= Room
        BY <3>2, <3>3 DEF off
      <4> QED BY <1>1, <4>1, <4>2, FullAtLast DEF off
    <3> QED BY <3>1, <3>2, <3>3
  <2> QED BY <1>1, <2>1, <2>2
<1> QED BY <1>1, <1>4, <1>5, <1>6 DEF off

(* What an iteration of the loop of fat_file_read does with its cnt bytes; it is
   the last if the volume ends behind them, and so does the file. *)
Delivered(cnt) ==
  /\ (file.offset % S) + cnt <= S /\ cnt <= todo.left
  /\ file.offset + cnt <= file.size
  /\ out' = out \o [i \in 1 .. cnt |-> file.buf[(file.offset % S) + i - 1]]
  /\ todo'.err = "NONE" => /\ file'.offset = file.offset + cnt
                           /\ todo'.left = todo.left - cnt
  /\ todo'.err # "NONE" => /\ todo'.left = 0 /\ file'.offset = file.offset
                           /\ At(file) => file.offset + cnt = file.size

(* An iteration of the loop of fat_file_read. *)
LEMMA ReadChunkStep ==
  ASSUME FileInv, ReadChunk
  PROVE  /\ DiskInv' /\ HandleInv' /\ open' /\ View(file', store') = View(file, store)
         /\ file'.modified = file.modified
         /\ file'.size = file.size /\ file'.size > 0 /\ (At(file) => At(file'))
         /\ todo' \in [start : Nat, arg : Nat, left : Nat, err : {"NONE", "FULL"}]
         /\ todo'.start = todo.start /\ todo'.arg = todo.arg
         /\ \E cnt \in 1 .. S : Delivered(cnt)
<1> DEFINE idx == file.offset % S
           cnt == byte_min(todo.left, byte_min(S - idx, file.size - file.offset))
           r   == seek(file, file.offset + cnt)
<1>1. /\ op = "read" /\ todo.left > 0 /\ file.offset < file.size
      /\ out' = out \o [i \in 1 .. cnt |-> file.buf[idx + i - 1]]
      /\ file' = r.file /\ chain' = r.chain /\ store' = r.store
      /\ todo' = [todo EXCEPT !.left = IF r.err = "NONE" THEN @ - cnt ELSE 0, !.err = r.err]
      /\ dsize' = dsize /\ open' = open
  BY DEF ReadChunk
<1>2. /\ file.offset \in Nat /\ file.size \in Nat /\ file.size <= chain * ClustSize
      /\ chain * ClustSize <= Room * ClustSize /\ open
      /\ todo \in [start : Nat, arg : Nat, left : Nat, err : {"NONE", "FULL"}]
  BY <1>1, InChain DEF FileInv, CallInv
<1>3. idx \in 0 .. (S - 1) /\ S \in Nat
  BY PieceFacts, Geometry
<1>4. /\ cnt \in 1 .. S /\ idx + cnt <= S /\ cnt <= todo.left
      /\ file.offset + cnt <= file.size
  <2> DEFINE a == S - idx
             b == file.size - file.offset
             m == byte_min(a, b)
  <2>1. /\ todo.left \in Nat \ {0} /\ a \in Nat \ {0} /\ b \in Nat \ {0}
        /\ idx \in Nat /\ idx + a = S /\ file.offset + b = file.size /\ a <= S
    <3> HIDE DEF idx
    <3> QED BY <1>1, <1>2, <1>3
  <2> HIDE DEF a, b, idx
  <2>2. m \in Nat \ {0} /\ m <= a /\ m <= b
    BY <2>1 DEF byte_min
  <2> HIDE DEF m
  <2>3. /\ byte_min(todo.left, m) \in Nat \ {0} /\ byte_min(todo.left, m) <= m
        /\ byte_min(todo.left, m) <= todo.left
    BY <2>1, <2>2 DEF byte_min
  <2>4. cnt = byte_min(todo.left, m)
    BY DEF m, a, b, idx
  <2> HIDE DEF cnt
  <2> QED BY <1>2, <1>3, <2>1, <2>2, <2>3, <2>4
<1>5. Sound(file, store, chain)
  BY DEF FileInv, HandleInv
<1> HIDE DEF cnt, r
<1>6. r = seek(file, file.offset + cnt)
  BY DEF r
<1>7. /\ DiskInv' /\ HandleInv' /\ View(file', store') = View(file, store)
      /\ file'.size = file.size /\ file'.modified = file.modified
      /\ r.err \in {"NONE", "FULL"}
      /\ r.err = "NONE" /\ file.size > 0 => file'.offset = file.offset + cnt
      /\ r.err # "NONE" => file'.offset = file.offset
      /\ At(file) => /\ At(file')
                     /\ r.err # "NONE" => file.offset + cnt >= Room * ClustSize
  BY <1>1, <1>2, <1>4, <1>5, <1>6, SeekOn
<1>8. /\ todo' \in [start : Nat, arg : Nat, left : Nat, err : {"NONE", "FULL"}]
      /\ todo'.start = todo.start /\ todo'.arg = todo.arg /\ todo'.err = r.err
      /\ todo'.left = IF r.err = "NONE" THEN todo.left - cnt ELSE 0
  <2>1. todo.left - cnt \in Nat
    BY <1>2, <1>3, <1>4
  <2> QED BY <1>1, <1>2, <1>7, <2>1
<1>9. file.offset + cnt >= Room * ClustSize => file.offset + cnt = file.size
  <2> DEFINE z == Room * ClustSize
             y == chain * ClustSize
  <2>1. z \in Nat /\ y \in Nat
    BY Geometry, Products DEF FileInv, DiskInv
  <2>2. file.size <= y /\ y <= z
    BY <1>2
  <2> HIDE DEF z, y
  <2>3. file.offset + cnt >= z => file.offset + cnt = file.size
    <3> HIDE DEF idx
    <3>1. cnt \in Nat
      BY <1>3, <1>4
    <3> QED BY <1>2, <1>4, <2>1, <2>2, <3>1
  <2> QED BY <2>3 DEF z
<1>10. file.size > 0
  BY <1>1, <1>2
<1>11. cnt \in 1 .. S /\ Delivered(cnt)
  BY <1>1, <1>4, <1>7, <1>8, <1>9, <1>10 DEF Delivered, idx
<1>12. \E n \in 1 .. S : Delivered(n)
  BY <1>11
<1> QED BY <1>1, <1>2, <1>7, <1>8, <1>10, <1>12

(* What an iteration of the loop of fat_file_write does with its cnt bytes; it is
   the last if there is no room behind them. *)
Written(cnt) ==
  /\ (file.offset % S) + cnt <= S /\ cnt <= Len(todo.left)
  /\ \A s \in SectorIds : View(file', store')[s] =
       IF file.sect = s THEN Overlaid(file.buf, file.offset % S, cnt, todo.left)
       ELSE View(file, store)[s]
  /\ \/ /\ todo'.left = SubSeq(todo.left, cnt + 1, Len(todo.left))
        /\ file.size > 0 => file'.offset = file.offset + cnt
     \/ /\ todo'.left = <<>> /\ file.size > 0 /\ file'.offset = file.offset
        /\ At(file) => file.offset + cnt >= Room * ClustSize

(* An iteration of the loop of fat_file_write. *)
LEMMA WriteChunkStep ==
  ASSUME FileInv, WriteChunk
  PROVE  /\ DiskInv' /\ HandleInv' /\ open' /\ file'.size = file.size
         /\ file'.size = 0 => file'.offset = 0
         /\ file'.modified = file.modified
         /\ At(file) => At(file')
         /\ todo' \in [start : Nat, arg : Seq(Byte), left : Seq(Byte)]
         /\ todo'.start = todo.start /\ todo'.arg = todo.arg
         /\ \E cnt \in 1 .. S : Written(cnt)
<1> DEFINE idx == file.offset % S
           cnt == byte_min(Len(todo.left), S - idx)
           buf == Overlaid(file.buf, idx, cnt, todo.left)
           h   == [file EXCEPT !.buf = buf, !.dirty = TRUE]
           r   == seek(h, file.offset + cnt)
<1>1. /\ op = "write" /\ todo.left # <<>>
      /\ file' = r.file /\ chain' = r.chain /\ store' = r.store
      /\ todo' = [todo EXCEPT !.left = IF r.err = "NONE" THEN SubSeq(@, cnt + 1, Len(@))
                                       ELSE <<>>]
      /\ dsize' = dsize /\ open' = open
  BY DEF WriteChunk
<1>2. /\ todo \in [start : Nat, arg : Seq(Byte), left : Seq(Byte)] /\ open
      /\ file \in FileType /\ Sound(file, store, chain)
  BY <1>1 DEF FileInv, CallInv, HandleInv, Sound
<1>3. idx \in 0 .. (S - 1) /\ S \in Nat
  BY PieceFacts, Geometry
<1>4. todo.left \in Seq(Byte) /\ Len(todo.left) \in Nat /\ Len(todo.left) >= 1
  BY <1>1, <1>2, EmptySeq, LenProperties
<1>5. cnt \in 1 .. S /\ idx + cnt <= S /\ cnt <= Len(todo.left)
  <2> HIDE DEF idx
  <2> QED BY <1>3, <1>4 DEF byte_min
<1> HIDE DEF cnt, idx
<1>6. buf \in Sector
  <2>1. ASSUME NEW i \in 0 .. (S - 1)
        PROVE  (IF i \in idx .. (idx + cnt - 1) THEN todo.left[i - idx + 1] ELSE file.buf[i]) \in Byte
    <3>1. CASE i \in idx .. (idx + cnt - 1)
      <4>1. i - idx + 1 \in 1 .. Len(todo.left)
        BY <1>3, <1>4, <1>5, <3>1
      <4> QED BY <1>4, <3>1, <4>1, ElementOfSeq
    <3>2. CASE i \notin idx .. (idx + cnt - 1)
      BY <1>2, <3>2 DEF FileType, Sector
    <3> QED BY <3>1, <3>2
  <2> QED BY <2>1 DEF Overlaid, Sector
<1> HIDE DEF buf
<1>7. /\ h \in FileType /\ h.size = file.size /\ h.offset = file.offset /\ h.clust = file.clust
      /\ h.sect = file.sect /\ h.buf = buf /\ h.dirty = TRUE
      /\ h.modified = file.modified
  BY <1>2, <1>6 DEF FileType
<1> HIDE DEF h, r
<1>8. Sound(h, store, chain)
  BY <1>2, <1>7 DEF Sound
<1>9. r = seek(h, file.offset + cnt)
  BY DEF r
<1>10. /\ DiskInv' /\ HandleInv' /\ View(file', store') = View(h, store)
       /\ file'.size = file.size /\ (file'.size = 0 => file'.offset = 0)
       /\ file'.modified = h.modified
       /\ r.err \in {"NONE", "FULL"}
       /\ r.err = "NONE" /\ file.size > 0 => file'.offset = file.offset + cnt
       /\ r.err # "NONE" => file.size > 0 /\ file'.offset = file.offset
       /\ At(file) => /\ At(file')
                      /\ r.err # "NONE" => file.offset + cnt >= Room * ClustSize
  BY <1>1, <1>2, <1>5, <1>7, <1>8, <1>9, SeekOn
<1>11. /\ todo' \in [start : Nat, arg : Seq(Byte), left : Seq(Byte)]
       /\ todo'.start = todo.start /\ todo'.arg = todo.arg
       /\ todo'.left = IF r.err = "NONE" THEN SubSeq(todo.left, cnt + 1, Len(todo.left)) ELSE <<>>
  <2>1. SubSeq(todo.left, cnt + 1, Len(todo.left)) \in Seq(Byte) /\ <<>> \in Seq(Byte)
    <3>1. \A k \in (cnt + 1) .. Len(todo.left) : k \in 1 .. Len(todo.left)
      BY <1>3, <1>4, <1>5
    <3>2. cnt + 1 \in 1 .. (Len(todo.left) + 1) /\ Len(todo.left) \in 0 .. Len(todo.left)
      BY <1>3, <1>4, <1>5
    <3> QED BY <1>4, <3>1, <3>2, SubSeqProperties, EmptySeq
  <2> QED BY <1>1, <1>2, <2>1
<1>12. ASSUME NEW s \in SectorIds
       PROVE  View(file', store')[s] = IF file.sect = s THEN buf ELSE View(file, store)[s]
  BY <1>7, <1>10 DEF View
<1>13. \/ /\ todo'.left = SubSeq(todo.left, cnt + 1, Len(todo.left))
          /\ file.size > 0 => file'.offset = file.offset + cnt
       \/ /\ todo'.left = <<>> /\ file.size > 0 /\ file'.offset = file.offset
          /\ At(file) => file.offset + cnt >= Room * ClustSize
  BY <1>10, <1>11
<1>14. cnt \in 1 .. S /\ Written(cnt)
  BY <1>5, <1>12, <1>13 DEF Written, idx, buf
<1>15. \E n \in 1 .. S : Written(n)
  BY <1>14
<1>16. open' /\ (At(file) => At(file'))
  BY <1>1, <1>2, <1>10
<1> QED BY <1>7, <1>10, <1>11, <1>15, <1>16

(* The steps that leave sectors, buffer and position alone. *)
LEMMA LoopEnds ==
  ASSUME FileInv, (\E len \in Lengths : BeginRead(len)) \/ (\E data \in Data : BeginWrite(data))
                  \/ EndRead \/ EndWrite
  PROVE  /\ DiskInv' /\ HandleInv' /\ open /\ open' /\ View(file', store') = View(file, store)
         /\ file'.offset = file.offset
         /\ file'.size = IF EndWrite THEN byte_max(file.size, file.offset) ELSE file.size
         /\ file'.sect = file.sect /\ file'.clust = file.clust /\ (file.size = 0 => file'.size = 0)
<1>1. /\ store' = store /\ chain' = chain /\ dsize' = dsize /\ open' = open /\ open
      /\ \/ file' = IF EndWrite THEN grown(file) ELSE file
         \/ file' = [file EXCEPT !.modified = TRUE] /\ ~EndWrite
  <2>1. CASE \E len \in Lengths : BeginRead(len)
    BY <2>1 DEF BeginRead, EndWrite
  <2>2. CASE \E data \in Data : BeginWrite(data)
    BY <2>2 DEF BeginWrite, EndWrite
  <2>3. CASE EndRead
    BY <2>3 DEF EndRead, EndWrite, FileInv, CallInv
  <2>4. CASE EndWrite
    <3>1. /\ store' = store /\ chain' = chain /\ dsize' = dsize /\ open' = open /\ open
          /\ file' = grown(file)
      BY <2>4 DEF EndWrite, FileInv, CallInv
    <3> QED BY <2>4, <3>1
  <2> QED BY <2>1, <2>2, <2>3, <2>4
<1>2. /\ DiskInv /\ Sound(file, store, chain) /\ Placed(file, chain) /\ file \in FileType
  BY <1>1 DEF FileInv, HandleInv, Sound
<1>3. /\ file.size \in Nat /\ file.offset \in Nat /\ file.size <= chain * ClustSize
      /\ file.size > 0 => file.offset < chain * ClustSize
      /\ file.size = 0 => file.offset = 0
  BY <1>1, InChain DEF FileInv, HandleInv, Sound
<1>4. DiskInv'
  BY <1>1, <1>2 DEF DiskInv
<1>5. /\ file' \in FileType /\ file'.offset = file.offset /\ file'.sect = file.sect
      /\ file'.clust = file.clust /\ file'.buf = file.buf /\ file'.dirty = file.dirty
      /\ file'.size = IF EndWrite THEN byte_max(file.size, file.offset) ELSE file.size
  <2>1. byte_max(file.size, file.offset) \in Nat
    BY <1>3 DEF byte_max
  <2> QED BY <1>1, <1>2, <2>1 DEF grown, FileType
<1>6. file'.size <= chain * ClustSize /\ (file'.size = 0 <=> file.size = 0)
  <2> DEFINE z == chain * ClustSize
  <2>1. z \in Nat
    BY <1>2, Geometry, Products DEF DiskInv
  <2> HIDE DEF z
  <2>2. /\ file.size <= z /\ (file.size > 0 => file.offset < z)
    BY <1>3 DEF z
  <2>3. file'.size <= z /\ (file'.size = 0 <=> file.size = 0)
    BY <1>3, <1>5, <2>1, <2>2 DEF byte_max
  <2> QED BY <2>3 DEF z
<1>7. View(file', store') = View(file, store)
  BY <1>1, <1>5 DEF View
<1>8. Sound(file', store', chain')
  BY <1>1, <1>2, <1>5, <1>6 DEF Sound
<1>9. Placed(file', chain')
  <2>1. file'.size \in Nat
    BY <1>5 DEF FileType
  <2> QED BY <1>1, <1>2, <1>3, <1>5, <1>6, <2>1 DEF Placed
<1>10. HandleInv'
  BY <1>1, <1>8, <1>9 DEF HandleInv, Sound, Placed
<1> QED BY <1>1, <1>4, <1>5, <1>6, <1>7, <1>10

(* Only fat_file_write changes what the file looks like. *)
LEMMA QuietStep ==
  ASSUME FileInv, Next, ~WriteChunk
  PROVE  DiskInv' /\ HandleInv' /\ View(file', store') = View(file, store)
<1>1. CASE \E mode \in Modes : FileOpen(mode)
  BY <1>1, OpenStep
<1>2. CASE \E off \in Offsets : FileSeek(off)
  BY <1>2, FileSeekStep
<1>3. CASE FileSync \/ FileClose
  BY <1>3, SyncStep
<1>4. CASE (\E len \in Lengths : BeginRead(len)) \/ (\E data \in Data : BeginWrite(data))
           \/ EndRead \/ EndWrite
  BY <1>4, LoopEnds
<1>5. CASE ReadChunk
  BY <1>5, ReadChunkStep
<1> QED BY <1>1, <1>2, <1>3, <1>4, <1>5 DEF Next, User, Loop

(* The calls keep their books. *)
LEMMA CallStep ==
  ASSUME FileInv, Next
  PROVE  CallInv'
<1>1. /\ op \in {"none", "read", "write"} /\ out \in Seq(Byte)
      /\ op # "none" => open /\ last = NoCall
      /\ op # "read" => out = <<>>
      /\ file.offset \in Nat
  BY InChain DEF FileInv, CallInv
<1>2. CASE \E mode \in Modes : FileOpen(mode)
  BY <1>1, <1>2 DEF FileOpen, CallInv
<1>3. CASE (\E off \in Offsets : FileSeek(off)) \/ FileSync \/ FileClose
  BY <1>1, <1>3 DEF FileSeek, FileSync, FileClose, CallInv
<1>4. ASSUME NEW len \in Lengths, BeginRead(len) PROVE CallInv'
  <2>1. len \in Nat
    BY FileAssumption
  <2> QED BY <1>1, <1>4, <2>1 DEF BeginRead, CallInv
<1>5. ASSUME NEW data \in Data, BeginWrite(data) PROVE CallInv'
  <2>1. data \in Seq(Byte)
    BY FileAssumption
  <2> QED BY <1>1, <1>5, <2>1 DEF BeginWrite, CallInv
<1>6. CASE ReadChunk
  <2>1. PICK cnt \in 1 .. S : Delivered(cnt)
    BY <1>6, ReadChunkStep
  <2>2. cnt \in Nat /\ file.buf \in Sector /\ S \in Nat
    BY Geometry DEF FileInv, HandleInv, Sound, FileType
  <2>3. (file.offset % S) \in 0 .. (S - 1) /\ (file.offset % S) + cnt <= S
    BY <2>1, PieceFacts DEF Delivered
  <2> DEFINE piece == [i \in 1 .. cnt |-> file.buf[(file.offset % S) + i - 1]]
  <2>4. piece \in Seq(Byte)
    <3>1. ASSUME NEW i \in 1 .. cnt
          PROVE  file.buf[(file.offset % S) + i - 1] \in Byte
      <4> DEFINE x == file.offset % S
      <4>1. x \in 0 .. (S - 1) /\ x + cnt <= S
        BY <2>3
      <4> HIDE DEF x
      <4>2. x + i - 1 \in 0 .. (S - 1)
        BY <2>2, <4>1
      <4>3. file.buf[x + i - 1] \in Byte
        BY <2>2, <4>2 DEF Sector
      <4> QED BY <4>3 DEF x
    <3>2. piece \in [1 .. cnt -> Byte]
      BY <3>1
    <3> HIDE DEF piece
    <3> QED BY <2>2, <3>2
  <2>5. out' = out \o piece
    BY <2>1 DEF Delivered
  <2> HIDE DEF piece
  <2>6. out' \in Seq(Byte)
    BY <1>1, <2>4, <2>5, ConcatProperties
  <2>7. op' = "read" /\ open' = open /\ last' = last /\ op = "read"
    BY <1>6 DEF ReadChunk
  <2>8. todo' \in [start : Nat, arg : Nat, left : Nat, err : {"NONE", "FULL"}]
    BY <1>6, ReadChunkStep
  <2> QED BY <1>1, <2>6, <2>7, <2>8 DEF CallInv
<1>7. CASE WriteChunk
  <2>1. todo' \in [start : Nat, arg : Seq(Byte), left : Seq(Byte)]
    BY <1>7, WriteChunkStep
  <2>2. op' = "write" /\ open' = open /\ last' = last /\ op = "write" /\ out' = out
    BY <1>7 DEF WriteChunk
  <2> QED BY <1>1, <2>1, <2>2 DEF CallInv
<1>8. CASE EndRead \/ EndWrite
  <2>1. op' = "none" /\ out' = <<>>
    BY <1>1, <1>8 DEF EndRead, EndWrite
  <2> QED BY <2>1, EmptySeq DEF CallInv
<1> QED BY <1>2, <1>3, <1>4, <1>5, <1>6, <1>7, <1>8 DEF Next, User, Loop

(* A file fits into the clusters that its size takes. *)
LEMMA ClustersOfSize ==
  ASSUME NEW n \in 0 .. (Room * ClustSize)
  PROVE  /\ (n + ClustSize - 1) \div ClustSize \in 0 .. Room
         /\ n <= ((n + ClustSize - 1) \div ClustSize) * ClustSize
<1> DEFINE a == n + ClustSize - 1
           q == a \div ClustSize
           m == a % ClustSize
           z == Room * ClustSize
           y == q * ClustSize
<1>1. ClustSize \in Nat \ {0} /\ Room \in Nat /\ Room + 1 \in Nat /\ a \in Nat /\ n \in Nat
  <2>1. ClustSize \in Nat \ {0} /\ Room \in Nat
    BY Geometry
  <2>2. z \in Nat
    BY <2>1, Products
  <2> HIDE DEF z
  <2>3. n \in Nat
    BY <2>2 DEF z
  <2> QED BY <2>1, <2>3
<1>2. q \in Nat /\ m \in 0 .. (ClustSize - 1) /\ a = y + m /\ y \in Nat
  BY <1>1, Division, Products
<1>3. n <= y
  <2> HIDE DEF q, m, y
  <2> QED BY <1>1, <1>2
<1>4. a < (Room + 1) * ClustSize
  <2>1. (Room + 1) * ClustSize = z + ClustSize /\ z \in Nat /\ n <= z
    BY <1>1, Products
  <2> HIDE DEF z
  <2> QED BY <1>1, <2>1
<1>5. q < Room + 1
  BY <1>1, <1>4, QuotientBelow
<1> HIDE DEF q
<1>6. q \in 0 .. Room
  BY <1>1, <1>2, <1>5
<1> QED BY <1>3, <1>6 DEF q

(* Files as another system may have left them. *)
LEMMA InitFile == Init => FileInv
<1> SUFFICES ASSUME Init PROVE FileInv
  OBVIOUS
<1>1. /\ S \in Nat \ {0} /\ Room \in Nat \ {0} /\ ClustSize \in Nat \ {0} /\ Garbage \in Byte
  BY Geometry
<1>2. dsize \in 0 .. (Room * ClustSize)
  BY FileAssumption DEF Init
<1>3. chain \in 0 .. Room /\ dsize <= chain * ClustSize /\ dsize \in Nat
  <2>1. Room * ClustSize \in Nat
    BY <1>1, Products
  <2>2. dsize \in Nat
    BY <1>2, <2>1
  <2>3. CASE dsize = 0
    <3>1. chain \in {0, 1}
      BY <2>3 DEF Init
    <3>2. chain \in Nat /\ chain \in 0 .. Room
      BY <1>1, <3>1
    <3>3. chain * ClustSize \in Nat
      BY <1>1, <3>2, Products
    <3> QED BY <2>2, <2>3, <3>2, <3>3
  <2>4. CASE dsize # 0
    <3>1. chain = (dsize + ClustSize - 1) \div ClustSize
      BY <2>4 DEF Init
    <3> QED BY <1>2, <2>2, <3>1, ClustersOfSize
  <2> QED BY <2>3, <2>4
<1>4. DiskInv
  <2>1. store \in [SectorIds -> Sector]
    <3>1. [i \in 0 .. (S - 1) |-> Garbage] \in Sector
      BY <1>1 DEF Sector
    <3> QED BY <3>1 DEF Init
  <2>2. chain * ClustSize \in Nat
    BY <1>1, <1>3, Products
  <2>3. dsize \in 0 .. (chain * ClustSize)
    BY <1>3, <2>2
  <2> QED BY <1>3, <2>1, <2>3 DEF Init, DiskInv
<1>5. Sound(Closed, store, chain)
  <2>1. chain * ClustSize \in Nat
    BY <1>1, <1>3, Products
  <2> QED BY <2>1, ClosedFacts DEF Sound
<1>6. HandleInv
  BY <1>5 DEF Init, HandleInv
<1>7. CallInv
  BY EmptySeq DEF Init, CallInv
<1> QED BY <1>4, <1>6, <1>7 DEF FileInv

(* Every step keeps the invariant. *)
LEMMA FileStep == FileInv /\ [Next]_vars => FileInv'
<1>1. ASSUME FileInv, Next PROVE FileInv'
  <2>1. DiskInv' /\ HandleInv'
    BY <1>1, QuietStep, WriteChunkStep
  <2> QED BY <1>1, <2>1, CallStep DEF FileInv
<1>2. ASSUME FileInv, UNCHANGED vars PROVE FileInv'
  BY <1>2 DEF FileInv, DiskInv, HandleInv, CallInv, Sound, Placed, vars
<1> QED BY <1>1, <1>2

(* The invariant holds in every state. *)
LEMMA FileAlways == Spec => []FileInv
BY InitFile, FileStep, PTL DEF Spec

(* The variables stay in their types and the file in its clusters: whatever the
   order of calls, and also after a seek that failed and left the cluster of the
   handle ahead of its offset. *)
THEOREM FileStaysInChain == Spec => []TypeOK
<1>1. FileInv => TypeOK
  <2> SUFFICES ASSUME FileInv PROVE TypeOK
    OBVIOUS
  <2>1. CurSize \in 0 .. (chain * ClustSize)
    BY InChain DEF FileInv
  <2> QED BY <2>1 DEF FileInv, DiskInv, HandleInv, CallInv, Sound, FileType, TypeOK
<1> QED BY <1>1, FileAlways, PTL

-----------------------------------------------------------------------------
(* The bytes of the file. *)

(* Byte i of the file is in the sector and at the place that i says. *)
BytesAre ==
  \A i \in 1 .. (Room * ClustSize) :
    /\ (i - 1) \div S \in SectorIds /\ (i - 1) % S \in 0 .. (S - 1) /\ i - 1 \in Nat
    /\ ByteAt(i) = View(file, store)[(i - 1) \div S][(i - 1) % S]
    /\ ByteAt(i) \in Byte

(* For an open file and a closed one. *)
LEMMA BytesOfView == DiskInv /\ HandleInv => BytesAre
<1> SUFFICES ASSUME DiskInv, HandleInv, NEW i \in 1 .. (Room * ClustSize)
             PROVE  /\ (i - 1) \div S \in SectorIds /\ (i - 1) % S \in 0 .. (S - 1) /\ i - 1 \in Nat
                    /\ ByteAt(i) = View(file, store)[(i - 1) \div S][(i - 1) % S]
                    /\ ByteAt(i) \in Byte
  BY DEF BytesAre
<1> DEFINE a == i - 1
           s == a \div S
           x == a % S
<1>1. /\ S \in Nat \ {0} /\ K \in Nat \ {0} /\ Room \in Nat \ {0} /\ NoSect \notin SectorIds
      /\ Room * K \in Nat /\ Room * ClustSize \in Nat /\ Room * ClustSize = (Room * K) * S
  <2>1. /\ S \in Nat \ {0} /\ K \in Nat \ {0} /\ Room \in Nat \ {0} /\ NoSect \notin SectorIds
        /\ Room * K \in Nat /\ ClustSize \in Nat /\ ClustSize = K * S
    BY Geometry
  <2>2. Room * (K * S) = (Room * K) * S
    BY <2>1
  <2> QED BY <2>1, <2>2, Products
<1>2. a \in Nat /\ a < (Room * K) * S
  <2> DEFINE z == Room * ClustSize
  <2>1. z \in Nat /\ i \in 1 .. z /\ z = (Room * K) * S
    BY <1>1
  <2> HIDE DEF z
  <2>2. a \in Nat /\ a < z
    BY <2>1
  <2> QED BY <2>1, <2>2
<1>3. s \in SectorIds /\ x \in 0 .. (S - 1)
  <2>1. s \in Nat /\ x \in 0 .. (S - 1) /\ s < Room * K
    BY <1>1, <1>2, Division, QuotientBelow
  <2> HIDE DEF s, x
  <2> QED BY <1>1, <2>1 DEF SectorIds
<1> HIDE DEF s, x
<1>4. ByteAt(i) = View(file, store)[s][x]
  <2>1. ByteAt(i) = IF open /\ file.sect = s THEN file.buf[x] ELSE store[s][x]
    BY DEF ByteAt, s, x
  <2>2. View(file, store)[s] = IF file.sect = s THEN file.buf ELSE store[s]
    BY <1>3 DEF View
  <2>3. ~open => file.sect # s
    BY <1>1, <1>3, ClosedFacts DEF HandleInv
  <2> QED BY <2>1, <2>2, <2>3
<1>5. View(file, store)[s][x] \in Byte
  <2>1. file.buf \in Sector /\ store[s] \in Sector
    BY <1>3 DEF HandleInv, DiskInv, Sound, FileType
  <2>2. View(file, store)[s] \in Sector
    BY <1>3, <2>1 DEF View
  <2> QED BY <1>3, <2>2 DEF Sector
<1> QED BY <1>2, <1>3, <1>4, <1>5 DEF s, x

(* Where sectors look the same, bytes are the same. *)
LEMMA SameBytes ==
  ASSUME FileInv, DiskInv', HandleInv', View(file', store') = View(file, store)
  PROVE  \A i \in 1 .. (Room * ClustSize) : ByteAt(i)' = ByteAt(i)
<1>1. BytesAre
  BY BytesOfView DEF FileInv
<1>2. BytesAre'
  BY BytesOfView, PTL
<1> QED BY <1>1, <1>2 DEF BytesAre

(* A piece of a write changes its own bytes and no other. *)
LEMMA NewBytes ==
  ASSUME FileInv, DiskInv', HandleInv', open, At(file), file.size > 0,
         NEW cnt \in 1 .. S, Written(cnt), NEW i \in 1 .. (Room * ClustSize)
  PROVE  ByteAt(i)' = IF i \in (file.offset + 1) .. (file.offset + cnt)
                        THEN todo.left[i - file.offset] ELSE ByteAt(i)
<1> DEFINE a == i - 1
           s == a \div S
           x == a % S
           o == file.offset
           idx == o % S
           buf == Overlaid(file.buf, idx, cnt, todo.left)
<1>1. /\ s \in SectorIds /\ x \in 0 .. (S - 1) /\ a \in Nat
      /\ ByteAt(i) = View(file, store)[s][x]
  <2>1. BytesAre
    BY BytesOfView DEF FileInv
  <2> QED BY <2>1 DEF BytesAre
<1>2. ByteAt(i)' = View(file', store')[s][x]
  <2>1. BytesAre'
    BY BytesOfView, PTL
  <2> QED BY <2>1 DEF BytesAre
<1>3. View(file', store')[s] = IF file.sect = s THEN buf ELSE View(file, store)[s]
  BY <1>1 DEF Written
<1>4. /\ o \in Nat /\ S \in Nat \ {0} /\ cnt \in Nat /\ idx \in 0 .. (S - 1)
      /\ idx + cnt <= S /\ cnt >= 1 /\ i \in Int
  <2>1. o \in Nat /\ S \in Nat \ {0}
    BY InChain, Geometry DEF FileInv
  <2>2. idx \in 0 .. (S - 1) /\ idx + cnt <= S
    BY PieceFacts DEF Written
  <2>3. i \in Int
    BY <1>1
  <2> QED BY <2>1, <2>2, <2>3
<1>5. file.sect = o \div S
  BY DEF At
<1> HIDE DEF buf
<1>6. CASE file.sect # s
  <2>1. i \notin (o + 1) .. (o + cnt)
    <3>1. ASSUME i \in (o + 1) .. (o + cnt) PROVE FALSE
      <4> DEFINE j == a - o
      <4>1. j \in Nat /\ idx + j < S /\ o + j = a
        <5> HIDE DEF idx, o
        <5> QED BY <1>1, <1>4, <3>1
      <4> HIDE DEF j
      <4>2. (o + j) \div S = o \div S
        BY <1>4, <4>1, WithinSector
      <4> QED BY <1>5, <1>6, <4>1, <4>2
    <3> QED BY <3>1
  <2> QED BY <1>1, <1>2, <1>3, <1>6, <2>1
<1>7. CASE file.sect = s
  <2>1. x - idx = a - o
    <3> DEFINE q == s * S
    <3>1. a = q + x /\ o = q + idx /\ q \in Nat
      <4>1. a = q + x /\ s \in Nat
        BY <1>1, <1>4, Division
      <4>2. o = (o \div S) * S + idx
        BY <1>4, Division
      <4>3. o \div S = s
        BY <1>5, <1>7
      <4>4. q \in Nat
        BY <1>4, <4>1, Products
      <4> QED BY <4>1, <4>2, <4>3, <4>4
    <3> HIDE DEF q, s, x, idx, o, a
    <3> QED BY <1>1, <1>4, <3>1
  <2>2. buf[x] = IF x \in idx .. (idx + cnt - 1) THEN todo.left[x - idx + 1] ELSE file.buf[x]
    BY <1>1 DEF buf, Overlaid
  <2>3. x \in idx .. (idx + cnt - 1) <=> i \in (o + 1) .. (o + cnt)
    <3> HIDE DEF x, idx, o
    <3> QED BY <1>1, <1>4, <2>1
  <2>4. x - idx + 1 = i - o
    <3> HIDE DEF x, idx, o
    <3> QED BY <1>1, <1>4, <2>1
  <2>5. View(file, store)[s] = file.buf
    BY <1>1, <1>7 DEF View
  <2>6. ByteAt(i)' = buf[x] /\ ByteAt(i) = file.buf[x]
    BY <1>1, <1>2, <1>3, <1>7, <2>5
  <2> QED BY <2>2, <2>3, <2>4, <2>6
<1> QED BY <1>6, <1>7

(* A stretch of n bytes behind the first m. *)
Stretch(m, n) ==
  /\ SubSeq(Content, m + 1, m + n) \in Seq(Byte)
  /\ Len(SubSeq(Content, m + 1, m + n)) = n
  /\ \A i \in 1 .. n : SubSeq(Content, m + 1, m + n)[i] = ByteAt(m + i)

Stretches ==
  /\ CurSize \in 0 .. (Room * ClustSize)
  /\ \A m, n \in Nat : m + n <= CurSize => Stretch(m, n)

(* The content of a file that lies in its clusters. *)
LEMMA ContentFacts == DiskInv /\ HandleInv => Stretches
<1> SUFFICES ASSUME DiskInv, HandleInv PROVE Stretches
  OBVIOUS
<1>1. CurSize \in 0 .. (Room * ClustSize) /\ CurSize \in Nat
  <2> DEFINE z == Room * ClustSize
             y == chain * ClustSize
  <2>1. z \in Nat /\ y \in Nat /\ CurSize \in 0 .. y /\ y <= z
    <3>1. ClustSize \in Nat /\ Room \in Nat /\ chain \in Nat
      BY Geometry DEF DiskInv
    <3> QED BY <3>1, InChain, Products
  <2> HIDE DEF z, y
  <2>2. CurSize \in 0 .. z /\ CurSize \in Nat
    BY <2>1
  <2> QED BY <2>2 DEF z
<1>2. ASSUME NEW m \in Nat, NEW n \in Nat, m + n <= CurSize
      PROVE  Stretch(m, n)
  <2>1. \A i \in (m + 1) .. (m + n) : i \in 1 .. CurSize /\ i \in 1 .. (Room * ClustSize)
    <3> DEFINE z == Room * ClustSize
    <3>1. z \in Nat /\ CurSize <= z
      BY <1>1, Geometry, Products
    <3> HIDE DEF z
    <3>2. \A i \in (m + 1) .. (m + n) : i \in 1 .. CurSize /\ i \in 1 .. z
      BY <1>1, <1>2, <3>1
    <3> QED BY <3>2 DEF z
  <2>2. \A i \in (m + 1) .. (m + n) : Content[i] = ByteAt(i) /\ Content[i] \in Byte
    BY <2>1, BytesOfView DEF Content, BytesAre
  <2>3. /\ SubSeq(Content, m + 1, m + n) \in Seq(Byte)
        /\ Len(SubSeq(Content, m + 1, m + n)) =
             IF m + 1 <= m + n THEN (m + n) - (m + 1) + 1 ELSE 0
        /\ \A i \in 1 .. ((m + n) - (m + 1) + 1) :
             SubSeq(Content, m + 1, m + n)[i] = Content[(m + 1) + i - 1]
    BY <2>2, SubSeqProperties
  <2>4. /\ (m + n) - (m + 1) + 1 = n
        /\ \A i \in 1 .. n : (m + 1) + i - 1 = m + i /\ m + i \in (m + 1) .. (m + n)
        /\ ~(m + 1 <= m + n) => n = 0
    BY <1>2
  <2> QED BY <2>2, <2>3, <2>4 DEF Stretch
<1> QED BY <1>1, <1>2 DEF Stretches

-----------------------------------------------------------------------------
(* The steps, and the parts of the invariant about the bytes. *)

(* Where a seek does not stray, the handle stays at its offset. *)
LEMMA AtStep ==
  ASSUME FileInv, Next, open => At(file), \A off \in Offsets : FileSeek(off) => ~Strays(off)
  PROVE  open' => At(file')
<1>1. CASE \E mode \in Modes : FileOpen(mode)
  BY <1>1, OpenStep
<1>2. ASSUME NEW off \in Offsets, FileSeek(off)
      PROVE  At(file')
  <2>1. open
    BY <1>2 DEF FileSeek
  <2> QED BY <1>2, <2>1, FileSeekStep
<1>3. CASE FileSync \/ FileClose
  BY <1>3, SyncStep DEF At
<1>4. CASE (\E len \in Lengths : BeginRead(len)) \/ (\E data \in Data : BeginWrite(data))
           \/ EndRead \/ EndWrite
  <2>1. file.size \in Nat
    BY InChain DEF FileInv
  <2>2. /\ open /\ file'.offset = file.offset /\ file'.sect = file.sect /\ file'.clust = file.clust
        /\ (file.size = 0 => file'.size = 0)
    BY <1>4, LoopEnds
  <2> QED BY <2>1, <2>2 DEF At
<1>5. CASE ReadChunk
  <2>1. open
    BY <1>5 DEF ReadChunk, FileInv, CallInv
  <2> QED BY <1>5, <2>1, ReadChunkStep
<1>6. CASE WriteChunk
  <2>1. open
    BY <1>6 DEF WriteChunk, FileInv, CallInv
  <2> QED BY <1>6, <2>1, WriteChunkStep
<1> QED BY <1>1, <1>2, <1>3, <1>4, <1>5, <1>6 DEF Next, User, Loop

(* What an iteration of the loop of fat_file_read appends. *)
LEMMA PieceIs ==
  ASSUME FileInv, At(file), file.size > 0, open, NEW cnt \in 1 .. S,
         (file.offset % S) + cnt <= S, file.offset + cnt <= file.size,
         NEW piece, piece = [i \in 1 .. cnt |-> file.buf[(file.offset % S) + i - 1]]
  PROVE  piece \in [1 .. cnt -> Byte] /\ \A i \in 1 .. cnt : piece[i] = ByteAt(file.offset + i)
<1>1. /\ file.offset \in Nat /\ S \in Nat /\ file.buf \in Sector
      /\ file.offset % S \in Nat
  <2>1. file.buf \in Sector
    BY DEF FileInv, HandleInv, Sound, FileType
  <2>2. file.offset \in Nat /\ S \in Nat
    BY InChain, Geometry DEF FileInv
  <2>3. file.offset % S \in Nat
    BY <2>2, PieceFacts
  <2> QED BY <2>1, <2>2, <2>3
<1>2. ASSUME NEW i \in 1 .. cnt
      PROVE  piece[i] = ByteAt(file.offset + i) /\ piece[i] \in Byte
  <2> DEFINE x == file.offset % S
  <2>1. i \in 1 .. S /\ x + i <= S
    <3>1. x \in Nat /\ x + cnt <= S
      BY <1>1
    <3> HIDE DEF x
    <3> QED BY <1>1, <3>1
  <2>2. /\ x + i - 1 \in 0 .. (S - 1)
        /\ ByteAt(file.offset + i) = file.buf[x + i - 1]
    BY <2>1, PieceBytes
  <2>3. piece[i] = file.buf[x + i - 1]
    OBVIOUS
  <2> QED BY <1>1, <2>2, <2>3 DEF Sector
<1> QED BY <1>2

(* A function on 1 .. n is a sequence of n. *)
LEMMA TupleFacts ==
  ASSUME NEW n \in Nat, NEW p \in [1 .. n -> Byte]
  PROVE  p \in Seq(Byte) /\ Len(p) = n
<1>1. p \in Seq(Byte)
  BY SeqDef
<1>2. Len(p) \in Nat /\ DOMAIN p = 1 .. Len(p)
  BY <1>1, LenProperties
<1> QED BY <1>1, <1>2, LenProperties

(* A sequence and a piece behind it. *)
LEMMA Appended ==
  ASSUME NEW s \in Seq(Byte), NEW n \in Nat, NEW p \in [1 .. n -> Byte]
  PROVE  /\ Len(s \o p) = Len(s) + n
         /\ \A i \in 1 .. Len(s) : (s \o p)[i] = s[i]
         /\ \A i \in 1 .. n : (s \o p)[Len(s) + i] = p[i]
<1>1. p \in Seq(Byte) /\ Len(p) = n /\ Len(s) \in Nat
  BY TupleFacts, LenProperties
<1>2. /\ Len(s \o p) = Len(s) + Len(p)
      /\ \A i \in 1 .. (Len(s) + Len(p)) :
           (s \o p)[i] = IF i <= Len(s) THEN s[i] ELSE p[i - Len(s)]
  BY <1>1, ConcatProperties
<1>3. \A i \in 1 .. Len(s) : i \in 1 .. (Len(s) + Len(p)) /\ i <= Len(s)
  BY <1>1
<1>4. \A i \in 1 .. n : /\ Len(s) + i \in 1 .. (Len(s) + Len(p)) /\ ~(Len(s) + i <= Len(s))
                        /\ (Len(s) + i) - Len(s) = i
  BY <1>1
<1> QED BY <1>1, <1>2, <1>3, <1>4

(* A read delivers what the file holds. *)
LEMMA ReadStep ==
  ASSUME FileInv, FileInv', Next, ReadInv, open => At(file)
  PROVE  ReadInv'
<1>1. CASE ReadChunk
  <2>1. /\ op = "read" /\ open /\ todo.left > 0 /\ At(file) /\ file.size > 0
        /\ todo \in [start : Nat, arg : Nat, left : Nat, err : {"NONE", "FULL"}]
        /\ out \in Seq(Byte)
    <3>1. op = "read" /\ todo.left > 0 /\ file.offset < file.size
      BY <1>1 DEF ReadChunk
    <3>2. file.size \in Nat /\ file.offset \in Nat
      BY InChain DEF FileInv
    <3> QED BY <3>1, <3>2 DEF FileInv, CallInv
  <2>2. /\ DiskInv' /\ HandleInv' /\ View(file', store') = View(file, store)
        /\ file'.size = file.size
        /\ todo'.start = todo.start /\ todo'.arg = todo.arg
    BY <1>1, ReadChunkStep
  <2>3. PICK cnt \in 1 .. S : Delivered(cnt)
    BY <1>1, ReadChunkStep
  <2>15. PICK start \in Nat : start = todo.start
    BY <2>1
  <2> DEFINE L == Len(out)
             idx == file.offset % S
             piece == [i \in 1 .. cnt |-> file.buf[idx + i - 1]]
  <2>4. /\ L \in Nat /\ start \in Nat /\ cnt \in Nat /\ cnt >= 1 /\ file.size \in Nat
        /\ file.offset \in Nat /\ S \in Nat /\ todo.arg \in Nat /\ todo.left \in Nat
    BY <2>1, InChain, Geometry, LenProperties DEF FileInv
  <2>5. /\ file.offset = start + L /\ todo.left = todo.arg - L
        /\ \A i \in 1 .. L : out[i] = ByteAt(start + i)
        /\ out # <<>> => start + L <= file.size
    <3>1. todo.err = "NONE"
      BY <2>1 DEF ReadInv
    <3> QED BY <2>1, <2>15, <3>1 DEF ReadInv
  <2>6. /\ idx + cnt <= S /\ cnt <= todo.left /\ file.offset + cnt <= file.size
        /\ out' = out \o piece
        /\ todo'.err = "NONE" => /\ file'.offset = file.offset + cnt
                                 /\ todo'.left = todo.left - cnt
        /\ todo'.err # "NONE" => /\ todo'.left = 0
                                 /\ file.offset + cnt = file.size
    BY <2>1, <2>3 DEF Delivered
  <2>7. piece \in [1 .. cnt -> Byte] /\ \A i \in 1 .. cnt : piece[i] = ByteAt(file.offset + i)
    BY <2>1, <2>6, PieceIs
  <2>8. \A i \in 1 .. (Room * ClustSize) : ByteAt(i)' = ByteAt(i)
    BY <2>2, SameBytes
  <2>9. \A i \in 1 .. file.size : i \in 1 .. (Room * ClustSize)
    <3> DEFINE z == Room * ClustSize
               y == chain * ClustSize
    <3>1. z \in Nat /\ y \in Nat /\ file.size <= y /\ y <= z
      <4>1. ClustSize \in Nat /\ Room \in Nat /\ chain \in Nat
        BY Geometry DEF FileInv, DiskInv
      <4> QED BY <4>1, InChain, Products DEF FileInv
    <3>2. file.size <= z
      <4> HIDE DEF z, y
      <4> QED BY <2>4, <3>1
    <3> HIDE DEF z
    <3>3. \A i \in 1 .. file.size : i \in 1 .. z
      BY <2>4, <3>1, <3>2
    <3> QED BY <3>3 DEF z
  <2> HIDE DEF idx, L
  <2>10. /\ Len(out') = L + cnt /\ \A i \in 1 .. L : out'[i] = out[i]
         /\ \A i \in 1 .. cnt : out'[L + i] = piece[i]
    <3> HIDE DEF piece
    <3>1. /\ Len(out \o piece) = Len(out) + cnt
          /\ \A i \in 1 .. Len(out) : (out \o piece)[i] = out[i]
          /\ \A i \in 1 .. cnt : (out \o piece)[Len(out) + i] = piece[i]
      BY <2>1, <2>4, <2>7, Appended
    <3> QED BY <2>6, <3>1 DEF L
  <2> HIDE DEF piece
  <2>11. ASSUME NEW i \in 1 .. (L + cnt)
         PROVE  out'[i] = ByteAt(start + i)'
    <3>1. CASE i <= L
      <4>1. i \in 1 .. L /\ out # <<>>
        <5>1. i \in 1 .. L
          BY <2>4, <3>1
        <5>2. <<>> # out
          BY <2>1, <5>1, EmptySeq DEF L
        <5> QED BY <5>1, <5>2
      <4>2. start + i \in 1 .. file.size
        BY <2>4, <2>5, <4>1
      <4>3. ByteAt(start + i)' = ByteAt(start + i)
        BY <2>8, <2>9, <4>2
      <4> QED BY <2>5, <2>10, <4>1, <4>3
    <3>2. CASE ~(i <= L)
      <4>1. i - L \in 1 .. cnt /\ L + (i - L) = i /\ file.offset + (i - L) = start + i
        BY <2>4, <2>5, <3>2
      <4>2. start + i \in 1 .. file.size
        BY <2>4, <2>5, <2>6, <4>1
      <4>3. ByteAt(start + i)' = ByteAt(start + i)
        BY <2>8, <2>9, <4>2
      <4>4. out'[L + (i - L)] = piece[i - L] /\ piece[i - L] = ByteAt(file.offset + (i - L))
        BY <2>7, <2>10, <4>1
      <4> QED BY <4>1, <4>3, <4>4
    <3> QED BY <3>1, <3>2
  <2>12. start + (L + cnt) <= file.size /\ L + cnt <= todo.arg
    BY <2>4, <2>5, <2>6
  <2>13. todo'.err = "NONE" => file'.offset = start + (L + cnt) /\ todo'.left = todo.arg - (L + cnt)
    BY <2>4, <2>5, <2>6
  <2>14. todo'.err # "NONE" => todo'.left = 0 /\ start + (L + cnt) = file.size
    BY <2>4, <2>5, <2>6
  <2> QED BY <2>2, <2>10, <2>11, <2>12, <2>13, <2>14, <2>15 DEF ReadInv
<1>2. ASSUME NEW len \in Lengths, BeginRead(len) PROVE ReadInv'
  <2>1. out = <<>> /\ out' = out /\ file' = file /\ len \in Nat /\ file.offset \in Nat
        /\ todo' = [start |-> file.offset, arg |-> len, left |-> len, err |-> "NONE"]
    BY <1>2, FileAssumption, InChain DEF BeginRead, FileInv, CallInv
  <2>2. Len(out') = 0
    BY <2>1, EmptySeq
  <2>3. file'.offset = todo'.start + Len(out') /\ todo'.left = todo'.arg - Len(out')
    BY <2>1, <2>2
  <2> QED BY <2>1, <2>2, <2>3 DEF ReadInv
<1>3. ASSUME ~ReadChunk, ~\E len \in Lengths : BeginRead(len)
      PROVE  op' # "read"
  <2>1. op \in {"none", "read", "write"} /\ (op # "none" => open)
    BY DEF FileInv, CallInv
  <2> QED BY <1>3, <2>1 DEF Next, User, Loop, FileOpen, FileSeek, FileSync, FileClose, BeginWrite,
             WriteChunk, EndRead, EndWrite
<1> QED BY <1>1, <1>2, <1>3 DEF ReadInv

(* What is left of a sequence behind its first n. *)
LEMMA RestOf ==
  ASSUME NEW d \in Seq(Byte), NEW n \in 0 .. Len(d)
  PROVE  /\ SubSeq(d, n + 1, Len(d)) \in Seq(Byte)
         /\ Len(SubSeq(d, n + 1, Len(d))) = Len(d) - n
         /\ \A i \in 1 .. (Len(d) - n) : SubSeq(d, n + 1, Len(d))[i] = d[n + i]
<1>1. Len(d) \in Nat /\ n \in Nat /\ n <= Len(d)
  BY LenProperties
<1>2. \A i \in (n + 1) .. Len(d) : d[i] \in Byte
  <2>1. \A i \in (n + 1) .. Len(d) : i \in 1 .. Len(d)
    BY <1>1
  <2> QED BY <2>1, ElementOfSeq
<1>3. /\ SubSeq(d, n + 1, Len(d)) \in Seq(Byte)
      /\ Len(SubSeq(d, n + 1, Len(d))) =
           IF n + 1 <= Len(d) THEN Len(d) - (n + 1) + 1 ELSE 0
      /\ \A i \in 1 .. (Len(d) - (n + 1) + 1) :
           SubSeq(d, n + 1, Len(d))[i] = d[(n + 1) + i - 1]
  BY <1>1, <1>2, SubSeqProperties
<1>4. /\ (IF n + 1 <= Len(d) THEN Len(d) - (n + 1) + 1 ELSE 0) = Len(d) - n
      /\ Len(d) - (n + 1) + 1 = Len(d) - n
      /\ \A i \in 1 .. (Len(d) - n) : (n + 1) + i - 1 = n + i
  BY <1>1
<1> QED BY <1>3, <1>4

(* And behind c more. *)
LEMMA RestOfRest ==
  ASSUME NEW d \in Seq(Byte), NEW n \in 0 .. Len(d), NEW c \in 0 .. (Len(d) - n),
         NEW r, r = SubSeq(d, n + 1, Len(d))
  PROVE  SubSeq(r, c + 1, Len(r)) = SubSeq(d, (n + c) + 1, Len(d))
<1>1. Len(d) \in Nat /\ n \in Nat /\ n <= Len(d) /\ c \in Nat /\ c <= Len(d) - n
  BY LenProperties
<1>2. r \in Seq(Byte) /\ Len(r) = Len(d) - n /\ \A i \in 1 .. (Len(d) - n) : r[i] = d[n + i]
  BY RestOf
<1>3. n + c \in 0 .. Len(d) /\ c \in 0 .. Len(r) /\ (Len(d) - n) - c = Len(d) - (n + c)
  BY <1>1, <1>2
<1>4. /\ SubSeq(r, c + 1, Len(r)) \in Seq(Byte)
      /\ Len(SubSeq(r, c + 1, Len(r))) = Len(r) - c
      /\ \A i \in 1 .. (Len(r) - c) : SubSeq(r, c + 1, Len(r))[i] = r[c + i]
  BY <1>2, <1>3, RestOf
<1>5. /\ SubSeq(d, (n + c) + 1, Len(d)) \in Seq(Byte)
      /\ Len(SubSeq(d, (n + c) + 1, Len(d))) = Len(d) - (n + c)
      /\ \A i \in 1 .. (Len(d) - (n + c)) : SubSeq(d, (n + c) + 1, Len(d))[i] = d[(n + c) + i]
  BY <1>3, RestOf
<1>6. ASSUME NEW i \in 1 .. (Len(r) - c)
      PROVE  SubSeq(r, c + 1, Len(r))[i] = SubSeq(d, (n + c) + 1, Len(d))[i]
  <2>1. /\ i \in 1 .. (Len(d) - (n + c)) /\ c + i \in 1 .. (Len(d) - n)
        /\ n + (c + i) = (n + c) + i
    BY <1>1, <1>2
  <2>2. r[c + i] = d[n + (c + i)]
    BY <1>2, <2>1
  <2> QED BY <1>4, <1>5, <2>1, <2>2
<1>7. Len(SubSeq(r, c + 1, Len(r))) = Len(SubSeq(d, (n + c) + 1, Len(d)))
  BY <1>2, <1>3, <1>4, <1>5
<1> QED BY <1>4, <1>5, <1>6, <1>7, SeqEqual

(* A write stores what it has taken of its data. *)
LEMMA WriteStep ==
  ASSUME FileInv, FileInv', Next, WriteInv, open => At(file)
  PROVE  WriteInv'
<1>1. CASE WriteChunk
  <2>1. /\ op = "write" /\ op' = op /\ open /\ At(file)
        /\ todo \in [start : Nat, arg : Seq(Byte), left : Seq(Byte)]
    BY <1>1 DEF WriteChunk, FileInv, CallInv
  <2>2. /\ DiskInv' /\ HandleInv' /\ file'.size = file.size
        /\ todo'.start = todo.start /\ todo'.arg = todo.arg
    BY <1>1, WriteChunkStep
  <2>3. PICK cnt \in 1 .. S : Written(cnt)
    BY <1>1, WriteChunkStep
  <2>4. PICK start \in Nat, d \in Seq(Byte) : start = todo.start /\ d = todo.arg
    BY <2>1
  <2> SUFFICES ASSUME file'.size > 0, Fits(start, d)
               PROVE  \E n \in 0 .. Len(d) :
                        /\ todo'.left = SubSeq(d, n + 1, Len(d))
                        /\ file'.offset = start + n
                        /\ \A i \in 1 .. n : ByteAt(start + i)' = d[i]
    BY <2>2, <2>4 DEF WriteInv
  <2>5. file.size > 0 /\ Fits(todo.start, todo.arg)
    BY <2>2, <2>4
  <2>6. PICK n \in 0 .. Len(d) :
           /\ todo.left = SubSeq(d, n + 1, Len(d))
           /\ file.offset = start + n
           /\ \A i \in 1 .. n : ByteAt(start + i) = d[i]
    BY <2>1, <2>4, <2>5 DEF WriteInv
  <2> DEFINE m == Len(d)
             z == Room * ClustSize
  <2>7. /\ m \in Nat /\ z \in Nat /\ n \in Nat /\ n <= m /\ start \in Nat /\ S \in Nat
        /\ start + m < z /\ cnt \in Nat /\ cnt >= 1 /\ file.offset = start + n
    <3>1. m \in Nat /\ start + m < z
      BY LenProperties DEF Fits
    <3>2. z \in Nat /\ S \in Nat
      BY Geometry, Products
    <3> HIDE DEF z
    <3> QED BY <2>6, <3>1, <3>2
  <2>8. Len(todo.left) = m - n /\ \A i \in 1 .. (m - n) : todo.left[i] = d[n + i]
    BY <2>6, RestOf
  <2> HIDE DEF m
  <2>9. /\ cnt <= m - n
        /\ todo'.left = SubSeq(todo.left, cnt + 1, Len(todo.left))
        /\ file'.offset = file.offset + cnt
    <3>1. /\ cnt <= m - n
          /\ \/ /\ todo'.left = SubSeq(todo.left, cnt + 1, Len(todo.left))
                /\ file'.offset = file.offset + cnt
             \/ file.offset + cnt >= z
      BY <2>1, <2>3, <2>5, <2>8 DEF Written
    <3> HIDE DEF z
    <3>2. ~(file.offset + cnt >= z)
      BY <2>7, <3>1
    <3> QED BY <3>1, <3>2
  <2>10. cnt \in 0 .. (m - n)
    BY <2>7, <2>9
  <2>11. todo'.left = SubSeq(d, (n + cnt) + 1, Len(d))
    BY <2>6, <2>9, <2>10, RestOfRest DEF m
  <2>12. n + cnt \in 0 .. m /\ file'.offset = start + (n + cnt)
    BY <2>7, <2>9
  <2>13. ASSUME NEW i \in 1 .. (n + cnt)
         PROVE  ByteAt(start + i)' = d[i]
    <3>1. start + i \in 1 .. z
      <4> HIDE DEF z
      <4> QED BY <2>7, <2>9
    <3>2. ByteAt(start + i)' = IF start + i \in (file.offset + 1) .. (file.offset + cnt)
                                 THEN todo.left[(start + i) - file.offset] ELSE ByteAt(start + i)
      BY <2>1, <2>2, <2>3, <2>5, <3>1, NewBytes
    <3>3. CASE i <= n
      <4>1. i \in 1 .. n /\ start + i \notin (file.offset + 1) .. (file.offset + cnt)
        BY <2>7, <3>3
      <4> QED BY <2>6, <3>2, <4>1
    <3>4. CASE ~(i <= n)
      <4>1. /\ start + i \in (file.offset + 1) .. (file.offset + cnt)
            /\ (start + i) - file.offset = i - n /\ i - n \in 1 .. (m - n) /\ n + (i - n) = i
        BY <2>7, <2>9, <3>4
      <4> QED BY <2>8, <3>2, <4>1
    <3> QED BY <3>3, <3>4
  <2> QED BY <2>11, <2>12, <2>13 DEF m
<1>2. ASSUME NEW data \in Data, BeginWrite(data) PROVE WriteInv'
  <2>1. /\ file'.offset = file.offset /\ data \in Seq(Byte) /\ file.offset \in Nat
        /\ todo' = [start |-> file.offset, arg |-> data, left |-> data]
    <3>1. file \in FileType
      BY DEF FileInv, HandleInv, Sound
    <3>2. file'.offset = file.offset
      BY <1>2, <3>1 DEF BeginWrite, FileType
    <3> QED BY <1>2, <3>1, <3>2, FileAssumption DEF BeginWrite, FileType
  <2>2. data = SubSeq(data, 0 + 1, Len(data)) /\ 0 \in 0 .. Len(data)
    BY <2>1, SubSeqFull, LenProperties
  <2>3. /\ todo'.left = SubSeq(todo'.arg, 0 + 1, Len(todo'.arg))
        /\ file'.offset = todo'.start + 0 /\ 0 \in 0 .. Len(todo'.arg)
    BY <2>1, <2>2
  <2> QED BY <2>3 DEF WriteInv
<1>3. ASSUME ~WriteChunk, ~\E data \in Data : BeginWrite(data)
      PROVE  op' # "write"
  <2>1. op \in {"none", "read", "write"} /\ (op # "none" => open)
    BY DEF FileInv, CallInv
  <2> QED BY <1>3, <2>1 DEF Next, User, Loop, FileOpen, FileSeek, FileSync, FileClose, BeginRead,
             ReadChunk, EndRead, EndWrite
<1> QED BY <1>1, <1>2, <1>3 DEF WriteInv

(* A sequence d whose bytes the file holds behind the first start is a stretch of
   the content. *)
Holds(start, d) ==
  /\ start + Len(d) <= CurSize
  /\ \A i \in 1 .. Len(d) : ByteAt(start + i) = d[i]

HeldIsContent ==
  \A start \in Nat, d \in Seq(Byte) :
    Holds(start, d) => SubSeq(Content, start + 1, start + Len(d)) = d

(* For an open file and a closed one. *)
LEMMA HeldStretch == DiskInv /\ HandleInv => HeldIsContent
<1> SUFFICES ASSUME DiskInv, HandleInv, NEW start \in Nat, NEW d \in Seq(Byte), Holds(start, d)
             PROVE  SubSeq(Content, start + 1, start + Len(d)) = d
  BY DEF HeldIsContent
<1>1. Len(d) \in Nat
  BY LenProperties
<1>2. Stretch(start, Len(d))
  BY <1>1, ContentFacts DEF Stretches, Holds
<1> QED BY <1>2, SeqEqual DEF Stretch, Holds

(* A read that returns has delivered what the file holds. *)
LEMMA EndReadStep ==
  ASSUME FileInv, FileInv', ReadInv, EndRead
  PROVE  ReadDelivers'
<1>1. /\ op = "read" /\ (todo.left = 0 \/ file.offset >= file.size) /\ open
      /\ last' = Returns("read", todo.err, out) /\ op' = "none"
      /\ store' = store /\ file' = file /\ open' = open
      /\ todo \in [start : Nat, arg : Nat, left : Nat, err : {"NONE", "FULL"}]
      /\ out \in Seq(Byte)
  BY DEF EndRead, FileInv, CallInv
<1>2. PICK start \in Nat, arg \in Nat, d \in Seq(Byte) :
        start = todo.start /\ arg = todo.arg /\ d = out
  BY <1>1
<1> DEFINE n == Len(d)
           e == byte_min(start + arg, file.size)
<1>3. /\ n \in Nat /\ file.size \in Nat /\ file.offset \in Nat /\ todo.left \in Nat
      /\ d # <<>> => n >= 1
      /\ d = <<>> => n = 0
  BY <1>1, <1>2, LenProperties, EmptySeq, InChain DEF FileInv
<1>4. /\ \A i \in 1 .. n : d[i] = ByteAt(start + i)
      /\ d # <<>> => start + n <= file.size
      /\ todo.err = "NONE" => file.offset = start + n /\ todo.left = arg - n
      /\ todo.err # "NONE" => todo.left = 0 /\ n <= arg /\ start + n = file.size
  BY <1>1, <1>2 DEF ReadInv
<1>5. CurSize' = file.size
  BY <1>1 DEF CurSize
<1>6. HeldIsContent'
  <2>1. DiskInv' /\ HandleInv'
    BY DEF FileInv
  <2> QED BY <2>1, HeldStretch, PTL
<1>7. PICK k \in Nat : k = e
  BY <1>3 DEF byte_min
<1>8. \/ k = start + n /\ start + n <= file.size
      \/ d = <<>> /\ k <= start
  <2> HIDE DEF n
  <2>1. k = IF start + arg < file.size THEN start + arg ELSE file.size
    BY <1>7 DEF byte_min
  <2>2. CASE d = <<>> /\ k > start
    <3>1. n = 0 /\ arg > 0 /\ file.size > start
      BY <1>3, <2>1, <2>2
    <3>2. todo.err = "NONE"
      BY <1>3, <1>4, <3>1
    <3>3. file.offset = start /\ todo.left = arg
      BY <1>3, <1>4, <3>1, <3>2
    <3> QED BY <1>1, <1>2, <1>3, <3>1, <3>3
  <2>3. CASE d # <<>>
    <3>1. n >= 1 /\ start + n <= file.size
      BY <1>3, <1>4, <2>3
    <3>2. CASE todo.err = "NONE"
      <4>1. file.offset = start + n /\ todo.left = arg - n
        BY <1>4, <3>2
      <4> QED BY <1>1, <1>3, <2>1, <3>1, <4>1
    <3>3. CASE todo.err # "NONE"
      BY <1>3, <1>4, <2>1, <3>1, <3>3
    <3> QED BY <3>2, <3>3
  <2> QED BY <1>3, <2>2, <2>3
<1> HIDE DEF e
<1>9. SubSeq(Content', start + 1, k) = d
  <2>1. CASE k = start + n /\ start + n <= file.size
    <3>1. \A i \in 1 .. n : ByteAt(start + i)' = ByteAt(start + i)
      BY <1>1 DEF ByteAt
    <3>2. Holds(start, d)'
      BY <1>4, <1>5, <2>1, <3>1 DEF Holds
    <3> QED BY <1>6, <2>1, <3>2 DEF HeldIsContent
  <2>2. CASE d = <<>> /\ k <= start
    <3>1. k < start + 1 /\ start + 1 \in Int /\ k \in Int
      BY <2>2
    <3> QED BY <2>2, <3>1, SubSeqEmpty
  <2> QED BY <1>8, <2>1, <2>2
<1>10. last'.bytes = d /\ last'.start = start /\ last'.arg = arg
  BY <1>1, <1>2 DEF Returns
<1>11. byte_min(last'.start + last'.arg, CurSize') = k
  BY <1>5, <1>7, <1>10 DEF e
<1> QED BY <1>9, <1>10, <1>11 DEF ReadDelivers

(* A write that returns with room behind it has stored all it was given. *)
LEMMA EndWriteStep ==
  ASSUME FileInv, FileInv', WriteInv, EndWrite
  PROVE  WriteStoresWithRoom'
<1>1. /\ op = "write" /\ todo.left = <<>> /\ open /\ open' = open /\ op' = "none"
      /\ last' = Returns("write", "NONE", <<>>)
      /\ todo \in [start : Nat, arg : Seq(Byte), left : Seq(Byte)]
  BY DEF EndWrite, FileInv, CallInv
<1>2. PICK start \in Nat, d \in Seq(Byte) : start = todo.start /\ d = todo.arg
  BY <1>1
<1>3. last'.start = start /\ last'.arg = d
  BY <1>1, <1>2 DEF Returns
<1>4. /\ DiskInv' /\ HandleInv' /\ View(file', store') = View(file, store)
      /\ file'.size = byte_max(file.size, file.offset)
      /\ file.size = 0 => file'.size = 0
  BY LoopEnds
<1>5. file.size \in Nat /\ file.offset \in Nat /\ CurSize' = file'.size
  BY <1>1, InChain DEF FileInv, CurSize
<1> SUFFICES ASSUME file'.size > 0, Fits(start, d)
             PROVE  Stored(start, d)'
  BY <1>3, <1>5 DEF WriteStoresWithRoom
<1>6. file.size > 0
  BY <1>4, <1>5
<1>7. PICK n \in 0 .. Len(d) :
         /\ todo.left = SubSeq(d, n + 1, Len(d)) /\ file.offset = start + n
         /\ \A i \in 1 .. n : ByteAt(start + i) = d[i]
  BY <1>1, <1>2, <1>6 DEF WriteInv
<1>8. n = Len(d) /\ Len(d) \in Nat
  <2>1. Len(d) - n = 0
    BY <1>1, <1>7, RestOf, EmptySeq
  <2>2. Len(d) \in Nat
    BY LenProperties
  <2> QED BY <2>1, <2>2
<1> DEFINE m == Len(d)
           z == Room * ClustSize
<1>9. z \in Nat /\ m \in Nat /\ start + m < z
  BY <1>8, Geometry, Products DEF Fits
<1>10. start + m <= CurSize'
  <2>1. CurSize' >= file.offset
    BY <1>4, <1>5 DEF byte_max
  <2>2. file.offset = start + m
    BY <1>7, <1>8
  <2>3. CurSize' \in Nat
    BY <1>4, <1>5 DEF byte_max
  <2> HIDE DEF m, z
  <2> QED BY <1>9, <2>1, <2>2, <2>3
<1>11. \A i \in 1 .. m : ByteAt(start + i)' = d[i]
  <2> SUFFICES ASSUME NEW i \in 1 .. m PROVE ByteAt(start + i)' = d[i]
    OBVIOUS
  <2>1. start + i \in 1 .. z
    <3> HIDE DEF m, z
    <3> QED BY <1>9
  <2>2. ByteAt(start + i)' = ByteAt(start + i)
    BY <1>4, <2>1, SameBytes
  <2> QED BY <1>7, <1>8, <2>2
<1>12. HeldIsContent'
  BY <1>4, HeldStretch, PTL
<1>13. Holds(start, d)'
  BY <1>10, <1>11 DEF Holds
<1>14. SubSeq(Content', start + 1, start + Len(d)) = d
  BY <1>12, <1>13 DEF HeldIsContent
<1> QED BY <1>10, <1>14 DEF Stored

(* What the calls that have returned promised still holds: the next call clears
   the history. *)
LEMMA LastStep ==
  ASSUME FileInv, FileInv', Next, ReadInv, WriteInv
  PROVE  ReadDelivers' /\ WriteStoresWithRoom'
<1>1. ASSUME last'.call \notin {"read", "write"}
      PROVE  ReadDelivers' /\ WriteStoresWithRoom'
  BY <1>1 DEF ReadDelivers, WriteStoresWithRoom
<1>2. CASE EndRead
  <2>1. last'.call = "read"
    BY <1>2 DEF EndRead, Returns
  <2> QED BY <1>2, <2>1, EndReadStep DEF WriteStoresWithRoom
<1>3. CASE EndWrite
  <2>1. last'.call = "write"
    BY <1>3 DEF EndWrite, Returns
  <2> QED BY <1>3, <2>1, EndWriteStep DEF ReadDelivers
<1>4. CASE ~EndRead /\ ~EndWrite
  <2>1. last' = NoCall
    BY <1>4 DEF Next, User, Loop, FileOpen, FileSeek, FileSync, FileClose, BeginRead, BeginWrite,
           ReadChunk, WriteChunk, FileInv, CallInv
  <2>2. last'.call = "none"
    BY <2>1 DEF NoCall
  <2> QED BY <1>1, <2>2
<1> QED BY <1>2, <1>3, <1>4

(* The whole invariant. *)
DataAlways == FileInv /\ DataInv

(* It holds at the start. *)
LEMMA InitData == Init => DataAlways
<1>1. Init => DataInv
  BY DEF Init, DataInv, ReadInv, WriteInv, ReadDelivers, WriteStoresWithRoom, NoCall
<1> QED BY <1>1, InitFile DEF DataAlways

(* Every step that does not stray keeps it. *)
LEMMA DataStep ==
  DataAlways /\ [Next /\ \A off \in Offsets : FileSeek(off) => ~Strays(off)]_vars => DataAlways'
<1>1. ASSUME DataAlways, Next, \A off \in Offsets : FileSeek(off) => ~Strays(off)
      PROVE  DataAlways'
  <2>1. FileInv'
    BY <1>1, FileStep DEF DataAlways
  <2>2. open' => At(file')
    BY <1>1, AtStep DEF DataAlways, DataInv
  <2>3. ReadInv' /\ WriteInv' /\ ReadDelivers' /\ WriteStoresWithRoom'
    BY <1>1, <2>1, ReadStep, WriteStep, LastStep DEF DataAlways, DataInv
  <2> QED BY <2>1, <2>2, <2>3 DEF DataAlways, DataInv
<1>2. ASSUME DataAlways, UNCHANGED vars PROVE DataAlways'
  <2>1. FileInv'
    BY <1>2, FileStep DEF DataAlways
  <2>2. DataInv'
    BY <1>2 DEF DataAlways, DataInv, At, ReadInv, WriteInv, ReadDelivers, WriteStoresWithRoom,
           Stored, Content, CurSize, ByteAt, vars
  <2> QED BY <2>1, <2>2 DEF DataAlways
<1> QED BY <1>1, <1>2

(* So it holds in every state, if no seek strays. *)
LEMMA DataHolds == Spec /\ NoneStrays => []DataAlways
BY InitData, DataStep, PTL DEF Spec, NoneStrays

(* The handle's cluster, sector and buffer are those of its offset, however reads,
   writes and seeks came to it, as long as no seek has failed before the last
   cluster of a full volume. *)
THEOREM HandleAtOffset == Spec /\ NoneStrays => []SectorAtOffset
<1>1. DataAlways => SectorAtOffset
  <2> SUFFICES ASSUME DataAlways, open, file.size > 0
               PROVE  /\ file.clust = file.offset \div ClustSize
                      /\ file.sect = file.offset \div S
                      /\ file.clust < chain
                      /\ ~file.dirty => file.buf = store[file.sect]
    BY DEF SectorAtOffset
  <2> QED BY DEF DataAlways, FileInv, HandleInv, DataInv, At, Placed, Sound
<1> QED BY <1>1, DataHolds, PTL

(* A read delivers the bytes from its start up to its length or the end of the
   file, whatever error the seek behind the last of them meets. *)
THEOREM ReadsDeliver == Spec /\ NoneStrays => []ReadDelivers
<1>1. DataAlways => ReadDelivers
  BY DEF DataAlways, DataInv
<1> QED BY <1>1, DataHolds, PTL

(* A write to a file that is not empty puts its bytes at the offset, as long as
   the volume has room. *)
THEOREM WritesStore == Spec /\ NoneStrays => []WriteStoresWithRoom
<1>1. DataAlways => WriteStoresWithRoom
  BY DEF DataAlways, DataInv
<1> QED BY <1>1, DataHolds, PTL

(* A user who seeks to offsets that the volume has clusters for never strays: the
   condition of the theorems above is one on the user's calls, and no run of
   reads and writes breaks it. *)
THEOREM SeeksWithinVolume ==
  ASSUME \A off \in Offsets : off < Room * ClustSize
  PROVE  NoneStrays
<1>1. ASSUME NEW off \in Offsets PROVE ~Strays(off)
  <2>1. off \in Nat /\ Room \in Nat /\ ClustSize \in Nat \ {0}
    BY FileAssumption, Geometry
  <2>2. off \div ClustSize < Room /\ off \div ClustSize \in Nat
    BY <2>1, QuotientBelow, Division
  <2> HIDE DEF ClustSize
  <2>3. ~(off \div ClustSize >= Room)
    BY <2>1, <2>2
  <2> QED BY <2>3 DEF Strays
<1>2. \A off \in Offsets : FileSeek(off) => ~Strays(off)
  BY <1>1
<1> QED BY <1>2, PTL DEF NoneStrays

-----------------------------------------------------------------------------
(* The driver keeps the promise of ByteFile. *)

(* The size in the directory entry is that of the handle unless the handle is
   marked, as a write does first. *)
SizeInv ==
  /\ open /\ ~file.modified => file.size = dsize
  /\ op = "write" => file.modified

(* No file is open at the start. *)
LEMMA InitSize == Init => SizeInv
BY DEF Init, SizeInv

(* Whoever changes the size of the handle marks it, and saving it copies the size. *)
LEMMA SizeStep == FileInv /\ SizeInv /\ [Next]_vars => SizeInv'
<1> SUFFICES ASSUME FileInv, SizeInv, [Next]_vars PROVE SizeInv'
  OBVIOUS
<1>1. file \in FileType /\ (op # "none" => open) /\ op \in {"none", "read", "write"}
  BY DEF FileInv, HandleInv, CallInv, Sound
<1>2. CASE UNCHANGED vars
  BY <1>2 DEF SizeInv, vars
<1>3. ASSUME NEW mode \in Modes, FileOpen(mode) PROVE SizeInv'
  <2>1. dsize' = dsize /\ op' = "none"
    BY <1>1, <1>3 DEF FileOpen
  <2> QED BY <1>3, <2>1, OpenStep DEF SizeInv
<1>4. ASSUME NEW off \in Offsets, FileSeek(off) PROVE SizeInv'
  <2>1. dsize' = dsize /\ op' = "none" /\ open
    BY <1>4 DEF FileSeek
  <2> QED BY <1>4, <2>1, FileSeekStep DEF SizeInv
<1>5. CASE FileSync \/ FileClose
  <2>1. op' = "none" /\ open
    BY <1>5 DEF FileSync, FileClose
  <2> QED BY <1>5, <2>1, SyncStep DEF SizeInv
<1>6. CASE \E len \in Lengths : BeginRead(len)
  BY <1>6 DEF BeginRead, SizeInv
<1>7. CASE \E data \in Data : BeginWrite(data)
  <2>1. file'.modified
    BY <1>1, <1>7 DEF BeginWrite, FileType
  <2> QED BY <2>1 DEF SizeInv
<1>8. CASE ReadChunk
  <2>1. dsize' = dsize /\ op' = "read" /\ open
    BY <1>1, <1>8 DEF ReadChunk
  <2> QED BY <1>8, <2>1, ReadChunkStep DEF SizeInv
<1>9. CASE WriteChunk
  <2>1. dsize' = dsize /\ op' = "write" /\ op = "write"
    BY <1>9 DEF WriteChunk
  <2> QED BY <1>9, <2>1, WriteChunkStep DEF SizeInv
<1>10. CASE EndRead
  BY <1>10 DEF EndRead, SizeInv
<1>11. CASE EndWrite
  <2>1. file'.modified = file.modified /\ op = "write" /\ op' = "none"
    BY <1>1, <1>11 DEF EndWrite, FileType, grown
  <2> QED BY <2>1 DEF SizeInv
<1> QED BY <1>2, <1>3, <1>4, <1>5, <1>6, <1>7, <1>8, <1>9, <1>10, <1>11 DEF Next, User, Loop

(* A step that shows the same bytes and as many leaves the content. *)
LEMMA SameContent ==
  ASSUME FileInv, DiskInv', HandleInv', View(file', store') = View(file, store),
         CurSize' = CurSize
  PROVE  Content' = Content
<1>1. CurSize \in 0 .. (Room * ClustSize)
  BY ContentFacts DEF FileInv, Stretches
<1>2. \A i \in 1 .. CurSize : i \in 1 .. (Room * ClustSize)
  <2> DEFINE z == Room * ClustSize
  <2>1. CurSize \in 0 .. z /\ z \in Nat
    BY <1>1, Geometry, Products
  <2> HIDE DEF z
  <2>2. \A i \in 1 .. CurSize : i \in 1 .. z
    BY <2>1
  <2> QED BY <2>2 DEF z
<1>3. \A i \in 1 .. CurSize : ByteAt(i)' = ByteAt(i)
  BY <1>2, SameBytes
<1> QED BY <1>3 DEF Content

(* The content is a sequence of bytes as long as the file. *)
Contents ==
  /\ CurSize \in Nat /\ Content \in [1 .. CurSize -> Byte] /\ Content \in Seq(Byte)
  /\ Len(Content) = CurSize
  /\ \A i \in 1 .. CurSize : i \in 1 .. (Room * ClustSize)
  /\ (Content = <<>> <=> CurSize = 0)

(* For an open file and a closed one. *)
LEMMA ContentIs == DiskInv /\ HandleInv => Contents
<1> SUFFICES ASSUME DiskInv, HandleInv PROVE Contents
  OBVIOUS
<1>1. CurSize \in Nat /\ \A i \in 1 .. CurSize : i \in 1 .. (Room * ClustSize)
  <2> DEFINE z == Room * ClustSize
  <2>1. CurSize \in 0 .. z /\ z \in Nat
    BY ContentFacts, Geometry, Products DEF Stretches
  <2> HIDE DEF z
  <2>2. CurSize \in Nat /\ \A i \in 1 .. CurSize : i \in 1 .. z
    BY <2>1
  <2> QED BY <2>2 DEF z
<1>2. \A i \in 1 .. CurSize : ByteAt(i) \in Byte
  BY <1>1, BytesOfView DEF BytesAre
<1>3. Content \in [1 .. CurSize -> Byte]
  BY <1>2 DEF Content
<1>4. Content \in Seq(Byte) /\ Len(Content) = CurSize
  BY <1>1, <1>3, TupleFacts
<1>5. Content = <<>> <=> CurSize = 0
  BY <1>1, <1>4, EmptySeq
<1> QED BY <1>1, <1>3, <1>4, <1>5 DEF Contents

(* An iteration of fat_file_read delivers the next bytes of the content. *)
LEMMA DeliverStep ==
  ASSUME FileInv, FileInv', At(file), ReadChunk
  PROVE  Bytes!Deliver
<1>1. /\ op = "read" /\ op' = op /\ open /\ open' = open /\ file.size > 0
  <2>1. file.size \in Nat /\ file.offset \in Nat
    BY InChain DEF FileInv
  <2>2. op = "read" /\ op' = op /\ open' = open /\ file.offset < file.size
    BY DEF ReadChunk
  <2>3. file.size > 0
    BY <2>1, <2>2
  <2>4. open
    BY <2>2 DEF FileInv, CallInv
  <2> QED BY <2>2, <2>3, <2>4
<1>2. /\ View(file', store') = View(file, store) /\ file'.size = file.size
      /\ DiskInv' /\ HandleInv'
  BY ReadChunkStep
<1>3. PICK cnt \in 1 .. S : Delivered(cnt)
  BY ReadChunkStep
<1>4. CurSize = file.size /\ CurSize' = CurSize
  BY <1>1, <1>2 DEF CurSize
<1>5. Content' = Content
  BY <1>2, <1>4, SameContent
<1>6. Contents
  BY ContentIs DEF FileInv
<1> DEFINE pos == IF open THEN file.offset ELSE 0
<1>7. /\ pos = file.offset /\ file.offset \in Nat /\ cnt \in Nat /\ cnt >= 1
      /\ file.size \in Nat /\ S \in Nat /\ file.offset + cnt <= file.size
  BY <1>1, <1>3, InChain, Geometry DEF FileInv, Delivered
<1>8. cnt \in 1 .. (Len(Content) - pos)
  BY <1>4, <1>6, <1>7 DEF Contents
<1>9. out' = out \o SubSeq(Content, pos + 1, pos + cnt)
  <2> DEFINE p == [i \in 1 .. cnt |-> file.buf[(file.offset % S) + i - 1]]
  <2>1. out' = out \o p
    BY <1>3 DEF Delivered
  <2>2. p \in [1 .. cnt -> Byte] /\ \A i \in 1 .. cnt : p[i] = ByteAt(file.offset + i)
    BY <1>1, <1>3, PieceIs DEF Delivered
  <2> HIDE DEF p
  <2>3. p \in Seq(Byte) /\ Len(p) = cnt
    BY <1>7, <2>2, TupleFacts
  <2>4. HeldIsContent
    BY HeldStretch DEF FileInv
  <2>5. Holds(file.offset, p)
    BY <1>4, <1>7, <2>2, <2>3 DEF Holds
  <2>6. SubSeq(Content, file.offset + 1, file.offset + cnt) = p
    BY <1>7, <2>3, <2>4, <2>5 DEF HeldIsContent
  <2> QED BY <1>7, <2>1, <2>6
<1>10. pos' = file'.offset
  BY <1>1
<1>11. pos' = pos + cnt \/ (pos' = pos /\ pos + cnt = Len(Content))
  <2>1. \/ file'.offset = file.offset + cnt
        \/ file'.offset = file.offset /\ file.offset + cnt = file.size
    BY <1>3 DEF Delivered
  <2> QED BY <1>4, <1>6, <1>7, <1>10, <2>1 DEF Contents
<1> QED BY <1>1, <1>5, <1>8, <1>9, <1>11 DEF Bytes!Deliver

(* An iteration of fat_file_write writes the bytes it moves over, or, with no room
   behind them, those of its last sector; in an empty file it does nothing. *)
LEMMA WritePieceStep ==
  ASSUME FileInv, FileInv', At(file), WriteChunk
  PROVE  Bytes!Write \/ Bytes!WriteFull \/ UNCHANGED Bytes!byteVars
<1>1. /\ op = "write" /\ op' = op /\ open /\ open' = open /\ out' = out
      /\ file.size \in Nat /\ file.offset \in Nat /\ file'.offset \in Nat
  <2>1. file.size \in Nat /\ file.offset \in Nat
    BY InChain DEF FileInv
  <2>2. file'.offset \in Nat
    BY DEF FileInv, HandleInv, Sound, FileType
  <2> QED BY <2>1, <2>2 DEF WriteChunk, FileInv, CallInv
<1>2. /\ DiskInv' /\ HandleInv' /\ file'.size = file.size
      /\ file'.size = 0 => file'.offset = 0
  BY WriteChunkStep
<1>3. PICK cnt \in 1 .. S : Written(cnt)
  BY WriteChunkStep
<1> DEFINE pos == IF open THEN file.offset ELSE 0
<1>4. /\ CurSize = byte_max(file.size, file.offset) /\ CurSize' = byte_max(file.size, file'.offset)
      /\ pos = file.offset /\ pos' = file'.offset
  BY <1>1, <1>2 DEF CurSize
<1>5. Contents
  BY ContentIs DEF FileInv
<1>6. Contents'
  BY <1>2, ContentIs, PTL
<1>7. CASE file.size = 0
  <2>1. file.offset = 0 /\ file'.offset = 0
    BY <1>2, <1>7 DEF FileInv, HandleInv, Sound
  <2>2. CurSize = 0 /\ CurSize' = 0
    BY <1>4, <1>7, <2>1 DEF byte_max
  <2>3. Content = <<>> /\ Content' = <<>>
    BY <1>5, <1>6, <2>2 DEF Contents
  <2> QED BY <1>1, <1>4, <2>1, <2>3 DEF Bytes!byteVars
<1>8. CASE file.size > 0
  <2>1. cnt \in Nat /\ cnt >= 1
    BY Geometry
  <2>2. \A i \in 1 .. CurSize : i \notin (file.offset + 1) .. (file.offset + cnt) => ByteAt(i)' = ByteAt(i)
    BY <1>1, <1>2, <1>3, <1>5, <1>8, NewBytes DEF Contents
  <2>3. \A i \in 1 .. CurSize : Content[i] = ByteAt(i)
    BY DEF Content
  <2>4. \A i \in 1 .. CurSize' : Content'[i] = ByteAt(i)'
    BY DEF Content
  <2>5. CurSize \in Nat /\ Len(Content) = CurSize /\ Content # <<>>
    BY <1>1, <1>4, <1>5, <1>8 DEF Contents, byte_max
  <2>6. Content' \in [1 .. CurSize' -> Byte]
    BY <1>6 DEF Contents
  <2>7. CASE file'.offset = file.offset + cnt
    <3>1. pos' > pos /\ CurSize' = IF pos' > CurSize THEN pos' ELSE CurSize
      BY <1>1, <1>4, <2>1, <2>7 DEF byte_max
    <3>2. \A i \in 1 .. CurSize : i \in 1 .. CurSize'
      BY <1>1, <1>4, <2>1, <2>7 DEF byte_max
    <3>3. \A i \in 1 .. CurSize : i \notin (pos + 1) .. pos' => Content'[i] = Content[i]
      BY <1>4, <2>2, <2>3, <2>4, <2>7, <3>2
    <3> QED BY <1>1, <2>5, <2>6, <3>1, <3>3 DEF Bytes!Write
  <2>8. CASE file'.offset = file.offset
    <3>1. CurSize' = CurSize /\ pos' = pos
      BY <1>4, <2>8
    <3>2. \A i \in 1 .. CurSize : i <= pos => Content'[i] = Content[i]
      <4>1. \A i \in 1 .. CurSize : i <= pos => i \notin (file.offset + 1) .. (file.offset + cnt)
        BY <1>1, <1>4, <2>1
      <4> QED BY <2>2, <2>3, <2>4, <3>1, <4>1
    <3> QED BY <1>1, <2>5, <2>6, <3>1, <3>2 DEF Bytes!WriteFull
  <2> QED BY <1>3, <1>8, <2>7, <2>8 DEF Written
<1> QED BY <1>1, <1>7, <1>8

(* The initial states are those of a sequence of bytes. *)
LEMMA InitBytes == Init => Bytes!Init
<1> SUFFICES ASSUME Init PROVE Bytes!Init
  OBVIOUS
<1>1. Contents
  BY InitFile, ContentIs DEF FileInv
<1> QED BY <1>1 DEF Init, Bytes!Init, Contents

(* Every step of the driver is one of the sequence of bytes, or shows nothing. *)
LEMMA BytesStep ==
  ASSUME DataAlways, DataAlways', SizeInv, [Next]_vars
  PROVE  [Bytes!Next]_Bytes!byteVars
<1> DEFINE pos == IF open THEN file.offset ELSE 0
<1>1. /\ FileInv /\ FileInv' /\ DiskInv' /\ HandleInv' /\ (open => At(file))
      /\ file.size \in Nat /\ file.offset \in Nat
      /\ (op # "none" => open) /\ (op # "read" => out = <<>>)
  <2>1. file.size \in Nat /\ file.offset \in Nat
    BY InChain DEF FileInv, DataAlways
  <2> QED BY <2>1 DEF DataAlways, DataInv, FileInv, CallInv
<1>2. Contents
  BY <1>1, ContentIs DEF FileInv
<1>3. CASE UNCHANGED vars
  BY <1>3 DEF vars, Bytes!byteVars, Content, CurSize, ByteAt
<1>4. ASSUME NEW mode \in Modes, FileOpen(mode) PROVE Bytes!Next
  <2>1. /\ ~open /\ op = "none" /\ op' = op /\ out' = out
    BY <1>1, <1>4 DEF FileOpen
  <2>2. /\ open' /\ View(file', store') = View(file, store)
        /\ file'.size = (IF "TRUNC" \in mode THEN 0 ELSE dsize)
        /\ file'.offset = (IF "APPEND" \in mode THEN file'.size ELSE 0)
    BY <1>1, <1>4, OpenStep
  <2>3. CurSize = dsize /\ CurSize' = file'.size
    BY <2>1, <2>2 DEF CurSize
  <2>4. Contents'
    BY <1>1, ContentIs, PTL
  <2>5. Content' = IF "TRUNC" \in mode THEN <<>> ELSE Content
    <3>1. CASE "TRUNC" \in mode
      BY <2>2, <2>3, <2>4, <3>1 DEF Contents
    <3>2. CASE "TRUNC" \notin mode
      BY <1>1, <2>2, <2>3, <3>2, SameContent
    <3> QED BY <3>1, <3>2
  <2>6. pos' = IF "APPEND" \in mode THEN Len(Content') ELSE 0
    BY <2>2, <2>3, <2>4 DEF Contents
  <2>7. Bytes!Open("TRUNC" \in mode, "APPEND" \in mode)
    BY <2>1, <2>2, <2>5, <2>6 DEF Bytes!Open
  <2>8. ("TRUNC" \in mode) \in BOOLEAN /\ ("APPEND" \in mode) \in BOOLEAN
    OBVIOUS
  <2>9. \E t, a \in BOOLEAN : Bytes!Open(t, a)
    BY <2>7, <2>8
  <2> QED BY <2>9 DEF Bytes!Next
<1>5. ASSUME NEW off \in Offsets, FileSeek(off) PROVE Bytes!Next
  <2>1. /\ open /\ op = "none" /\ op' = op /\ out' = out /\ open' = open
    BY <1>5 DEF FileSeek
  <2>2. /\ View(file', store') = View(file, store) /\ file'.size = file.size
        /\ file.size = 0 => file'.offset = 0
    BY <1>1, <1>5, FileSeekStep
  <2>3. CurSize = file.size /\ CurSize' = file.size
    BY <2>1, <2>2 DEF CurSize
  <2>4. Content' = Content
    BY <1>1, <2>2, <2>3, SameContent
  <2>5. pos' = file'.offset /\ file'.offset \in Nat
    BY <1>1, <2>1 DEF HandleInv, Sound, FileType
  <2>6. Bytes!Seek
    BY <1>2, <2>1, <2>2, <2>3, <2>4, <2>5 DEF Bytes!Seek, Contents
  <2> QED BY <2>6 DEF Bytes!Next
<1>6. CASE FileSync
  <2>1. /\ op = "none" /\ op' = op /\ out' = out /\ open' = open /\ open
    BY <1>6 DEF FileSync
  <2>2. View(file', store') = View(file, store) /\ file'.size = file.size /\ file'.offset = file.offset
    BY <1>1, <1>6, SyncStep
  <2>3. CurSize' = CurSize
    BY <2>1, <2>2 DEF CurSize
  <2>4. Content' = Content
    BY <1>1, <2>2, <2>3, SameContent
  <2> QED BY <2>1, <2>2, <2>4 DEF Bytes!byteVars
<1>7. CASE FileClose
  <2>1. /\ op = "none" /\ op' = op /\ out' = out /\ open /\ ~open'
    BY <1>7 DEF FileClose
  <2>2. /\ View(file', store') = View(file, store)
        /\ dsize' = IF file.modified THEN file.size ELSE dsize
    BY <1>1, <1>7, SyncStep
  <2>3. CurSize' = CurSize
    BY <2>1, <2>2 DEF CurSize, SizeInv
  <2>4. Content' = Content
    BY <1>1, <2>2, <2>3, SameContent
  <2>5. Bytes!Close
    BY <2>1, <2>4 DEF Bytes!Close
  <2> QED BY <2>5 DEF Bytes!Next
<1>8. CASE \E len \in Lengths : BeginRead(len)
  BY <1>8 DEF BeginRead, Bytes!byteVars, Content, CurSize, ByteAt
<1>9. CASE \E data \in Data : BeginWrite(data)
  <2>1. /\ op = "none" /\ op' = "write" /\ out' = out /\ open /\ open' = open
    BY <1>9 DEF BeginWrite
  <2>2. /\ View(file', store') = View(file, store) /\ file'.size = file.size
        /\ file'.offset = file.offset
    BY <1>1, <1>9, LoopEnds DEF BeginWrite, EndWrite
  <2>3. CurSize = file.size /\ CurSize' = byte_max(file.size, file.offset) /\ pos' = pos
        /\ pos = file.offset
    BY <2>1, <2>2 DEF CurSize
  <2>4. CASE file.offset > file.size
    <3>1. CurSize' = pos /\ pos > Len(Content)
      BY <1>1, <1>2, <2>3, <2>4 DEF byte_max, Contents
    <3>2. Contents'
      BY <1>1, ContentIs, PTL
    <3>3. Content' \in [1 .. pos -> Byte]
      BY <3>1, <3>2 DEF Contents
    <3>4. \A i \in 1 .. CurSize : ByteAt(i)' = ByteAt(i)
      BY <1>1, <1>2, <2>2, SameBytes DEF Contents
    <3>5. \A i \in 1 .. CurSize : i \in 1 .. CurSize'
      BY <1>1, <2>3, <2>4, <3>1
    <3>6. \A i \in 1 .. Len(Content) : Content'[i] = Content[i]
      BY <1>2, <3>4, <3>5 DEF Content, Contents
    <3>7. Bytes!Extend
      BY <2>1, <2>3, <3>1, <3>3, <3>6 DEF Bytes!Extend
    <3> QED BY <3>7 DEF Bytes!Next
  <2>5. CASE ~(file.offset > file.size)
    <3>1. CurSize' = CurSize
      BY <1>1, <2>3, <2>5 DEF byte_max
    <3>2. Content' = Content
      BY <1>1, <2>2, <3>1, SameContent
    <3> QED BY <2>1, <2>3, <3>2 DEF Bytes!byteVars
  <2> QED BY <2>4, <2>5
<1>10. CASE ReadChunk
  <2>1. At(file)
    BY <1>1, <1>10 DEF ReadChunk
  <2> QED BY <1>1, <1>10, <2>1, DeliverStep DEF Bytes!Next
<1>11. CASE EndRead
  <2>1. Content' = Content
    BY <1>11 DEF EndRead, Content, CurSize, ByteAt
  <2>2. Bytes!EndRead
    BY <1>1, <1>11, <2>1 DEF EndRead, Bytes!EndRead
  <2> QED BY <2>2 DEF Bytes!Next
<1>12. CASE WriteChunk
  <2>1. At(file)
    BY <1>1, <1>12 DEF WriteChunk
  <2> QED BY <1>1, <1>12, <2>1, WritePieceStep DEF Bytes!Next
<1>13. CASE EndWrite
  <2>1. /\ op = "write" /\ op' = "none" /\ out' = out /\ open /\ open' = open
    BY <1>1, <1>13 DEF EndWrite
  <2>2. /\ View(file', store') = View(file, store) /\ file'.offset = file.offset
        /\ file'.size = byte_max(file.size, file.offset)
    BY <1>1, <1>13, LoopEnds
  <2>3. CurSize' = CurSize
    BY <2>1, <2>2 DEF CurSize
  <2>4. Content' = Content
    BY <1>1, <2>2, <2>3, SameContent
  <2> QED BY <2>1, <2>2, <2>4 DEF Bytes!byteVars
<1> QED BY <1>3, <1>4, <1>5, <1>6, <1>7, <1>8, <1>9, <1>10, <1>11, <1>12, <1>13
        DEF Next, User, Loop

(* The driver implements the sequence of bytes of ByteFile: every read delivers
   the next bytes of it, every write changes the bytes it passes over and no
   other, closing and opening lose nothing. *)
THEOREM FileIsBytes == Spec /\ NoneStrays => IsByteFile
<1>1. Spec => []SizeInv
  <2>1. Init => SizeInv
    BY InitSize
  <2> QED BY <2>1, FileAlways, SizeStep, PTL DEF Spec
<1>2. DataAlways /\ DataAlways' /\ SizeInv /\ [Next]_vars => [Bytes!Next]_Bytes!byteVars
  BY BytesStep
<1> QED BY <1>1, <1>2, InitBytes, DataHolds, PTL DEF Spec, IsByteFile, Bytes!Spec

=============================================================================
