----------------------------- MODULE FatVolume -----------------------------
(***************************************************************************)
(* The FAT32 driver's bookkeeping of clusters, src/src/fs/fat.c: the file  *)
(* allocation table and its mirror, the FsInfo counters, the directory     *)
(* entries that name the head of each chain, and the calls that change     *)
(* them: fat_file_open, fat_file_seek, fat_file_close, fat_unlink and      *)
(* fat_sync.  Each step makes at most one access to a sector, so that a    *)
(* power cut can fall between any two writes of a call.                    *)
(*                                                                         *)
(* Abstracted here: the content and the size of files (FatFile), the       *)
(* 32-byte slots and the growth of a directory (FatDirectory): a name has  *)
(* one cell, and the directory has room.                                   *)
(***************************************************************************)
EXTENDS SectorCache, Integers, FiniteSets

CONSTANTS
  Names,        \* the file names in use
  DirSector,    \* which sector of the directory holds the entry of a name
  ClustCnt,     \* Fat.clust_cnt: the number of entries of a FAT
  PerSector,    \* FAT entries in a sector (128)
  Mirroring,    \* Fat.fat_sect[1] # 0
  BadClusters,  \* clusters the formatter marked bad
  Wrap,         \* 2^32, the range of Fat.free_cnt
  MaxCrashes    \* bound on the number of power cuts

Root == 2                       \* Fat.root_clust
Clusters == 2 .. (ClustCnt - 1)

Free == 0                       \* CLUST_FREE
Eoc == ClustCnt                 \* CLUST_LAST: any value from 0x0ffffff8
Bad == ClustCnt + 1             \* CLUST_BAD: 0x0ffffff7
FatValue == {Free, Eoc, Bad} \cup Clusters
NoEntry == 0                    \* a directory has no entry for the name
Unknown == Wrap - 1             \* 0xffffffff in FsInfo: fat_mount gives up

ASSUME VolumeAssumption ==
  /\ ClustCnt \in Nat /\ ClustCnt > 3
  /\ PerSector \in Nat \ {0}
  /\ Mirroring \in BOOLEAN
  /\ BadClusters \subseteq Clusters \ {Root}
  /\ MaxCrashes \in Nat
  /\ Wrap \in Nat /\ Wrap > ClustCnt + MaxCrashes + 2
  /\ DirSector \in [Names -> Nat]

(* The cells of the volume and the sectors they are in. *)
active(c) == <<"active", c>>
mirror(c) == <<"mirror", c>>
dirent(n) == <<"dir", n>>
next_free == <<"info", "next_free">>
info_free_cnt == <<"info", "free_cnt">>

ActiveCells == {active(c) : c \in Clusters}
MirrorCells == {mirror(c) : c \in Clusters}
DirCells == {dirent(n) : n \in Names}
InfoCells == {next_free, info_free_cnt}
VolumeCells == ActiveCells \cup MirrorCells \cup DirCells \cup InfoCells

active_sector(c) == <<"active", c \div PerSector>>
dir_sector(n) == <<"dir", DirSector[n]>>
info_sect == <<"info", 0>>
boot_sector == <<"boot", 0>>

VolumeSectors ==
  [x \in VolumeCells |->
     IF x \in InfoCells THEN info_sect
     ELSE IF x \in DirCells THEN dir_sector(x[2])
     ELSE <<x[1], x[2] \div PerSector>>]

ASSUME CacheAssumption == Cell = VolumeCells /\ SectorOf = VolumeSectors

VARIABLES
  last_used, free_cnt, info_dirty,   \* Fat.last_used, Fat.free_cnt, FAT_INFO_DIRTY
  pc, ret,                           \* where the running call is; where sync_fs returns to
  op,                                \* the running call
  name, clust, prev, next,           \* its path and the locals of the chain functions
  open, fclust,                      \* whether a file is open, and File.clust
  promised,                          \* history: what a completed call left on the disk
  cut,                               \* history: power was lost during an unlink
  crashes                            \* number of power cuts

fatVars == <<last_used, free_cnt, info_dirty>>
localVars == <<clust, prev, next>>
fileVars == <<open, fclust>>
historyVars == <<promised, cut, crashes>>
vars == <<disk, sect, buf, dirty, last_used, free_cnt, info_dirty, pc, ret, op,
          name, clust, prev, next, open, fclust, promised, cut, crashes>>

(* get_fat and the entry of a name, as the driver sees them. *)
fat(c) == View[active(c)]
entry(n) == View[dirent(n)]

(* What formatting leaves: an empty root directory, the counters in step
   with the tables, the hint anywhere in the volume. *)
Formatted(c) == IF c = Root THEN Eoc ELSE IF c \in BadClusters THEN Bad ELSE Free

Init ==
  /\ \E hint \in Clusters :
       /\ disk = [x \in Cell |->
                    IF x \in DirCells THEN NoEntry
                    ELSE IF x = next_free THEN hint
                    ELSE IF x = info_free_cnt THEN
                           Cardinality({c \in Clusters : Formatted(c) = Free})
                    ELSE Formatted(x[2])]
       /\ last_used = hint
       /\ free_cnt = Cardinality({c \in Clusters : Formatted(c) = Free})
  /\ sect = boot_sector /\ buf = [x \in {} |-> 0] /\ dirty = FALSE
  /\ info_dirty = FALSE
  /\ pc = "idle" /\ ret = "return" /\ op = "none"
  /\ name \in Names /\ clust = 0 /\ prev = 0 /\ next = 0
  /\ open = FALSE /\ fclust = 0
  /\ promised = [n \in Names |-> "absent"]
  /\ cut = FALSE /\ crashes = 0

-----------------------------------------------------------------------------
(* sync_fs: the buffer, then the FsInfo sector if its flag is set. *)

(* Mutant: the call returns without it. *)
sync_fs_skipped(from) == pc' = from /\ ret' = from

sync_fs(from) == pc' = "syncBuf" /\ ret' = from

SyncBuf ==
  /\ pc = "syncBuf"
  /\ sync_buf
  /\ pc' = IF info_dirty THEN "syncInfo" ELSE ret
  /\ UNCHANGED <<fatVars, ret, op, name, localVars, fileVars, historyVars>>

(* Mutant: the counters are stored in each other's field. *)
SyncInfoSwapped ==
  /\ pc = "syncInfo"
  /\ sect' = info_sect
  /\ buf' = [x \in InfoCells |-> IF x = next_free THEN free_cnt ELSE last_used]
  /\ disk' = [x \in Cell |-> IF x \in InfoCells THEN buf'[x] ELSE disk[x]]
  /\ dirty' = FALSE /\ info_dirty' = FALSE
  /\ pc' = ret
  /\ UNCHANGED <<last_used, free_cnt, ret, op, name, localVars, fileVars, historyVars>>

(* The buffer is clean here, so loading the FsInfo sector writes nothing and
   the sector goes to the disk with both counters. *)
SyncInfo ==
  /\ pc = "syncInfo"
  /\ sect' = info_sect
  /\ buf' = [x \in InfoCells |-> IF x = next_free THEN last_used ELSE free_cnt]
  /\ disk' = [x \in Cell |-> IF x \in InfoCells THEN buf'[x] ELSE disk[x]]
  /\ dirty' = FALSE
  /\ info_dirty' = FALSE
  /\ pc' = ret
  /\ UNCHANGED <<last_used, free_cnt, ret, op, name, localVars, fileVars, historyVars>>

-----------------------------------------------------------------------------
(* stretch_chain and create_chain. *)

wrapped(c) == IF c >= ClustCnt THEN 2 ELSE c

(* Mutant: a chain that is stretched gets no new end. *)
put_eoc_omitted == IF prev # 0 THEN "linkActive" ELSE "eocActive"

(* The first step of put_fat: the mirror, when there is one. *)
put_eoc == IF Mirroring THEN "eocMirror" ELSE "eocActive"
put_link == IF Mirroring THEN "linkMirror" ELSE "linkActive"

(* The call fails with FAT_ERR_FULL or FAT_ERR_BROKEN and nothing is undone. *)
fail == pc' = "idle" /\ op' = "none"

(* Mutant: the search starts at the tail and still ends at Fat.last_used. *)
ProbeFromTail ==
  /\ pc = "probe"
  /\ LET c == wrapped(prev + 1) IN
       /\ update_buf(active_sector(c))
       /\ clust' = c
       /\ pc' = IF fat(c) = Free THEN put_eoc ELSE "scan"
  /\ UNCHANGED <<fatVars, ret, op, name, prev, next, fileVars, historyVars>>

(* Stretching: the cluster after the tail is tried first. *)
Probe ==
  /\ pc = "probe"
  /\ LET c == wrapped(prev + 1) IN
       /\ update_buf(active_sector(c))
       /\ \/ /\ fat(c) = Free
             /\ clust' = c /\ pc' = put_eoc
          \/ /\ fat(c) # Free
             /\ clust' = last_used /\ pc' = "scan"
  /\ UNCHANGED <<fatVars, ret, op, name, prev, next, fileVars, historyVars>>

(* Mutant: the search does not go on behind a cluster in use. *)
ScanInPlace ==
  /\ pc = "scan"
  /\ LET c == wrapped(clust + 1) IN
       /\ c # last_used
       /\ update_buf(active_sector(c))
       /\ clust' = IF fat(c) = Free THEN c ELSE clust
       /\ pc' = IF fat(c) = Free THEN put_eoc ELSE "scan"
  /\ UNCHANGED <<fatVars, ret, op, name, prev, next, fileVars, historyVars>>

(* One iteration of the search for a free cluster. *)
Scan ==
  /\ pc = "scan"
  /\ LET c == wrapped(clust + 1) IN
       /\ c # last_used
       /\ update_buf(active_sector(c))
       /\ clust' = c
       /\ pc' = IF fat(c) = Free THEN put_eoc ELSE "scan"
  /\ UNCHANGED <<fatVars, ret, op, name, prev, next, fileVars, historyVars>>

(* The search is back where it began. *)
ScanFull ==
  /\ pc = "scan"
  /\ wrapped(clust + 1) = last_used
  /\ fail
  /\ UNCHANGED <<cacheVars, fatVars, ret, name, localVars, fileVars, historyVars>>

(* The last put_fat is followed by the counters and sync_fs. *)
allocated ==
  /\ last_used' = clust
  /\ free_cnt' = (free_cnt - 1) % Wrap
  /\ UNCHANGED info_dirty
  /\ sync_fs(IF op = "create" THEN "addEntry" ELSE "advance")

EocMirror ==
  /\ pc = "eocMirror"
  /\ put(mirror(clust), Eoc)
  /\ pc' = "eocActive"
  /\ UNCHANGED <<fatVars, ret, op, name, localVars, fileVars, historyVars>>

EocActive ==
  /\ pc = "eocActive"
  /\ put(active(clust), Eoc)
  /\ \/ prev = 0 /\ allocated
     \/ prev # 0 /\ pc' = put_link /\ UNCHANGED <<fatVars, ret>>
  /\ UNCHANGED <<op, name, localVars, fileVars, historyVars>>

LinkMirror ==
  /\ pc = "linkMirror"
  /\ put(mirror(prev), clust)
  /\ pc' = "linkActive"
  /\ UNCHANGED <<fatVars, ret, op, name, localVars, fileVars, historyVars>>

LinkActive ==
  /\ pc = "linkActive"
  /\ put(active(prev), clust)
  /\ allocated
  /\ UNCHANGED <<op, name, localVars, fileVars, historyVars>>

-----------------------------------------------------------------------------
(* fat_file_open. *)

(* The path names no file and FAT_CREATE is given: create_chain. *)
FileCreate(n) ==
  /\ pc = "idle" /\ ~open
  /\ update_buf(dir_sector(n))
  /\ entry(n) = NoEntry
  /\ op' = "create" /\ name' = n
  /\ prev' = 0 /\ clust' = last_used /\ next' = 0
  /\ info_dirty' = TRUE
  /\ pc' = "scan"
  /\ promised' = [promised EXCEPT ![n] = "any"]
  /\ UNCHANGED <<last_used, free_cnt, ret, fileVars, cut, crashes>>

(* dir_add: the entry is left in the buffer. The file is empty, so the seek at
   the end of fat_file_open does nothing. *)
AddEntry ==
  /\ pc = "addEntry"
  /\ put(dirent(name), clust)
  /\ open' = TRUE /\ fclust' = clust
  /\ pc' = "idle" /\ op' = "none"
  /\ UNCHANGED <<fatVars, ret, name, localVars, historyVars>>

(* The path names a file. *)
FileOpen(n) ==
  /\ pc = "idle" /\ ~open
  /\ update_buf(dir_sector(n))
  /\ entry(n) # NoEntry
  /\ name' = n
  /\ open' = TRUE /\ fclust' = entry(n)
  /\ UNCHANGED <<fatVars, pc, ret, op, localVars, historyVars>>

-----------------------------------------------------------------------------
(* fat_file_seek: one iteration of "Follow the cluster chain. Expand when
   EOF." Reads and writes move the offset through it. *)

Follow ==
  /\ pc = "idle" /\ open
  /\ update_buf(active_sector(fclust))
  /\ fat(fclust) \in Clusters
  /\ fclust' = fat(fclust)
  /\ UNCHANGED <<fatVars, pc, ret, op, name, localVars, open, historyVars>>

(* Mutant: FAT_INFO_DIRTY is not set. *)
StretchUnflagged ==
  /\ pc = "idle" /\ open
  /\ update_buf(active_sector(fclust))
  /\ fat(fclust) = Eoc
  /\ op' = "stretch"
  /\ prev' = fclust /\ clust' = fclust
  /\ pc' = "probe"
  /\ UNCHANGED <<fatVars, ret, name, next, fileVars, historyVars>>

Stretch ==
  /\ pc = "idle" /\ open
  /\ update_buf(active_sector(fclust))
  /\ fat(fclust) = Eoc
  /\ op' = "stretch"
  /\ prev' = fclust /\ clust' = fclust
  /\ info_dirty' = TRUE
  /\ pc' = "probe"
  /\ UNCHANGED <<last_used, free_cnt, ret, name, next, fileVars, historyVars>>

(* The chain runs into a free or bad cluster: FAT_ERR_BROKEN. *)
FollowBroken ==
  /\ pc = "idle" /\ open
  /\ update_buf(active_sector(fclust))
  /\ fat(fclust) \in {Free, Bad}
  /\ UNCHANGED <<fatVars, pc, ret, op, name, localVars, fileVars, historyVars>>

Advance ==
  /\ pc = "advance"
  /\ fclust' = clust
  /\ pc' = "idle" /\ op' = "none"
  /\ UNCHANGED <<cacheVars, fatVars, ret, name, localVars, open, historyVars>>

-----------------------------------------------------------------------------
(* fat_file_close and fat_sync. *)

(* Mutant: the entry stays in the buffer. *)
FileCloseUnsynced(used) ==
  /\ pc = "idle" /\ open
  /\ op' = "close"
  /\ IF used THEN touch(dirent(name)) ELSE UNCHANGED cacheVars
  /\ pc' = "return"
  /\ UNCHANGED <<fatVars, ret, name, localVars, fileVars, historyVars>>

(* The size and the time stamps of the entry are rewritten if the file was
   read or written; its cluster is not. *)
FileClose(used) ==
  /\ pc = "idle" /\ open
  /\ op' = "close"
  /\ IF used THEN touch(dirent(name)) ELSE UNCHANGED cacheVars
  /\ sync_fs("return")
  /\ UNCHANGED <<fatVars, name, localVars, fileVars, historyVars>>

FatSync ==
  /\ pc = "idle"
  /\ op' = "sync"
  /\ sync_fs("return")
  /\ UNCHANGED <<cacheVars, fatVars, name, localVars, fileVars, historyVars>>

Return ==
  /\ pc = "return"
  /\ pc' = "idle" /\ op' = "none"
  /\ open' = (open /\ op # "close")
  /\ promised' = CASE op = "close"  -> [promised EXCEPT ![name] = "present"]
                   [] op = "unlink" -> [promised EXCEPT ![name] = "absent"]
                   [] OTHER -> promised
  /\ UNCHANGED <<cacheVars, fatVars, ret, name, localVars, fclust, cut, crashes>>

-----------------------------------------------------------------------------
(* fat_unlink of a closed file: remove_chain, then remove_entries. *)

Unlink(n) ==
  /\ pc = "idle" /\ ~open
  /\ update_buf(dir_sector(n))
  /\ entry(n) # NoEntry
  /\ op' = "unlink" /\ name' = n
  /\ clust' = entry(n) /\ prev' = 0 /\ next' = 0
  /\ info_dirty' = TRUE
  /\ pc' = "removeGet"
  /\ promised' = [promised EXCEPT ![n] = "any"]
  /\ UNCHANGED <<last_used, free_cnt, ret, fileVars, cut, crashes>>

(* Mutant: the mirror is left alone. *)
RemoveGetUnmirrored ==
  /\ pc = "removeGet"
  /\ update_buf(active_sector(clust))
  /\ fat(clust) \notin {Free, Bad}
  /\ next' = fat(clust)
  /\ pc' = "removeActive"
  /\ UNCHANGED <<fatVars, ret, op, name, clust, prev, fileVars, historyVars>>

RemoveGet ==
  /\ pc = "removeGet"
  /\ update_buf(active_sector(clust))
  /\ fat(clust) \notin {Free, Bad}
  /\ next' = fat(clust)
  /\ pc' = IF Mirroring THEN "removeMirror" ELSE "removeActive"
  /\ UNCHANGED <<fatVars, ret, op, name, clust, prev, fileVars, historyVars>>

RemoveBroken ==
  /\ pc = "removeGet"
  /\ update_buf(active_sector(clust))
  /\ fat(clust) \in {Free, Bad}
  /\ fail
  /\ UNCHANGED <<fatVars, ret, name, localVars, fileVars, historyVars>>

RemoveMirror ==
  /\ pc = "removeMirror"
  /\ put(mirror(clust), Free)
  /\ pc' = "removeActive"
  /\ UNCHANGED <<fatVars, ret, op, name, localVars, fileVars, historyVars>>

(* Mutant: only the head of the chain is freed. *)
RemoveHead ==
  /\ pc = "removeActive"
  /\ put(active(clust), Free)
  /\ free_cnt' = (free_cnt + 1) % Wrap
  /\ clust' = next
  /\ sync_fs("removeEntry")
  /\ UNCHANGED <<last_used, info_dirty, op, name, prev, next, fileVars, historyVars>>

RemoveActive ==
  /\ pc = "removeActive"
  /\ put(active(clust), Free)
  /\ free_cnt' = (free_cnt + 1) % Wrap
  /\ clust' = next
  /\ \/ next = Eoc /\ sync_fs("removeEntry")
     \/ next # Eoc /\ pc' = "removeGet" /\ ret' = ret
  /\ UNCHANGED <<last_used, info_dirty, op, name, prev, next, fileVars, historyVars>>

RemoveEntry ==
  /\ pc = "removeEntry"
  /\ put(dirent(name), NoEntry)
  /\ sync_fs("return")
  /\ UNCHANGED <<fatVars, op, name, localVars, fileVars, historyVars>>

-----------------------------------------------------------------------------
(* Power is lost; at the next boot fat_mount reads the counters from FsInfo,
   and refuses the volume if one of them reads 0xffffffff. *)
PowerCycle ==
  /\ crashes < MaxCrashes /\ pc # "unmounted"
  /\ crashes' = crashes + 1
  /\ cut' = (cut \/ op = "unlink")
  /\ drop_buf(boot_sector)
  /\ last_used' = disk[next_free]
  /\ free_cnt' = disk[info_free_cnt]
  /\ info_dirty' = FALSE
  /\ pc' = IF Unknown \in {disk[next_free], disk[info_free_cnt]}
             THEN "unmounted" ELSE "idle"
  /\ op' = "none" /\ open' = FALSE
  /\ UNCHANGED <<ret, name, localVars, fclust, promised>>

(* The kernel's calls, one at a time. *)
Call ==
  \/ \E n \in Names : FileCreate(n) \/ FileOpen(n) \/ Unlink(n)
  \/ Follow \/ Stretch \/ FollowBroken
  \/ \E used \in BOOLEAN : FileClose(used)
  \/ FatSync

(* A step of the call that is running. *)
Step ==
  \/ SyncBuf \/ SyncInfo
  \/ Probe \/ Scan \/ ScanFull
  \/ EocMirror \/ EocActive \/ LinkMirror \/ LinkActive
  \/ AddEntry \/ Advance \/ Return
  \/ RemoveGet \/ RemoveBroken \/ RemoveMirror \/ RemoveActive \/ RemoveEntry

Next == Call \/ Step \/ PowerCycle

(* The driver runs on the kernel's only thread: a call runs to its end unless
   power is lost. Nothing obliges the kernel to make a call. *)
Spec == Init /\ [][Next]_vars /\ WF_vars(Step)

-----------------------------------------------------------------------------
(* Properties. *)

Value == FatValue \cup 0 .. (Wrap - 1)

CellValue(x) == IF x \in ActiveCells \cup MirrorCells THEN FatValue
                ELSE IF x \in DirCells THEN Clusters \cup {NoEntry}
                ELSE IF x = next_free THEN Clusters ELSE 0 .. (Wrap - 1)

Typed(d) == d \in [Cell -> Value] /\ \A x \in Cell : d[x] \in CellValue(x)

(* The variables stay in their types: whatever is read from the disk, a hint
   or an entry of a chain is a cluster of the volume, and the buffer holds the
   cells of the sector that Fat.sect says it holds. *)
TypeOK ==
  /\ Typed(disk) /\ Typed(View)
  /\ sect \in {SectorOf[x] : x \in Cell} \cup {boot_sector}
  /\ buf \in [CellsOf(sect) -> Value]
  /\ dirty \in BOOLEAN /\ info_dirty \in BOOLEAN
  /\ last_used \in Clusters /\ free_cnt \in 0 .. (Wrap - 1)
  /\ pc \in {"idle", "probe", "scan", "eocMirror", "eocActive", "linkMirror",
             "linkActive", "syncBuf", "syncInfo", "addEntry", "advance", "return",
             "removeGet", "removeMirror", "removeActive", "removeEntry", "unmounted"}
  /\ ret \in {"return", "addEntry", "advance", "removeEntry"}
  /\ op \in {"none", "create", "stretch", "close", "sync", "unlink"}
  /\ name \in Names
  /\ clust \in Clusters \cup {0, Eoc}
  /\ prev \in Clusters \cup {0}
  /\ next \in Clusters \cup {0, Eoc}
  /\ open \in BOOLEAN /\ fclust \in Clusters \cup {0}
  /\ promised \in [Names -> {"absent", "present", "any"}]
  /\ cut \in BOOLEAN /\ crashes \in 0 .. MaxCrashes

(* What refers to a cluster: the entry of the one before it in the active
   FAT, or a directory entry. fat_unlink frees the chain before it removes
   the directory entry, so from its first write that entry is unreliable. *)
RefCells == ActiveCells \cup DirCells
LiveRefs == IF op = "unlink" THEN RefCells \ {dirent(name)} ELSE RefCells

NoCrossLink(d) ==
  \A x, y \in LiveRefs : d[x] \in Clusters /\ d[x] = d[y] => x = y
NoDangling(d) ==
  \A x \in LiveRefs :
    d[x] \in Clusters => d[x] # Root /\ d[active(d[x])] \notin {Free, Bad}

(* No two chains share a cluster and none runs into a free one, neither in
   what the driver sees nor in what a power cut at this moment would leave on
   the disk: the order in which stretch_chain, dir_add and the cache write
   their sectors never lets an entry reach the disk before what it points at.
   The exception is a cut in the middle of fat_unlink. *)
ChainsIntact ==
  ~cut => /\ NoCrossLink(disk) /\ NoDangling(disk)
          /\ NoCrossLink(View) /\ NoDangling(View)

Used(d, c) == d[active(c)] \notin {Free, Bad}
Lost(d) == {c \in Clusters \ {Root} : Used(d, c) /\ \A x \in RefCells : d[x] # c}

(* Between calls every allocated cluster belongs to a file, but for one that
   each power cut may have caught between create_chain or the first half of
   stretch_chain and the entry that was to point at it. *)
LeakBounded == pc = "idle" /\ ~cut => Cardinality(Lost(View)) <= crashes

FreeClusters(d) == {c \in Clusters : d[active(c)] = Free}
Allocating == pc \in {"linkMirror", "linkActive"}

(* Fat.free_cnt is the number of free clusters, one cluster being accounted
   for only once it is linked. A power cut loses at most the last update of
   the FsInfo sector, which is written after the tables: the count never falls
   to 0xffffffff, with which the volume would not mount again. *)
FreeCountBounded ==
  LET surplus == free_cnt - Cardinality(FreeClusters(View))
                 - (IF Allocating THEN 1 ELSE 0)
  IN  ~cut => 0 <= surplus /\ surplus <= crashes

(* Between calls the mirror FAT differs from the active one in at most one
   entry for each power cut. *)
MirrorLagBounded ==
  pc = "idle" /\ Mirroring =>
    Cardinality({c \in Clusters : View[mirror(c)] # View[active(c)]}) <= crashes

(* A call that ends with sync_fs leaves nothing in the buffer, and the FsInfo
   sector holds the counters unless an update of them is still flagged. *)
SyncedOnReturn ==
  /\ pc = "return" => ~dirty /\ disk = View
  /\ ~info_dirty => disk[next_free] = last_used /\ disk[info_free_cnt] = free_cnt

(* After fat_file_close the entry of the file is on the disk, after fat_unlink
   it is not, and a power cut changes neither. *)
Durable ==
  \A n \in Names :
    /\ promised[n] = "present" => disk[dirent(n)] # NoEntry
    /\ promised[n] = "absent" => disk[dirent(n)] = NoEntry

(* FAT_ERR_FULL is returned only when no cluster is free but, at most, the one
   the search began at. *)
FullOnlyIfFull == [][ScanFull => FreeClusters(View) \subseteq {last_used}]_vars

(* Every call returns, whatever the state of the tables: the searches and the
   chain removal end. *)
CallsReturn == pc # "idle" ~> pc \in {"idle", "unmounted"}

=============================================================================
