---------------------------- MODULE FatDirectory ----------------------------
(***************************************************************************)
(* The slots of a directory, not the root, src/src/fs/fat.c: dir_search,   *)
(* dir_add, remove_entries, fat_dir_read, the directory pointer they move  *)
(* (dir_next, dir_next_stretch), and the calls made of them: fat_file_open *)
(* with FAT_CREATE, fat_dir_create, fat_unlink, fat_file_close and the     *)
(* loop of cmd_ls.  A step touches one slot, through the sector cache, so  *)
(* that a power cut can fall between any two writes.                       *)
(*                                                                         *)
(* Abstracted here: which clusters the directory has (FatVolume): they are *)
(* numbered from its start, and so are sectors and slots.  A name is a     *)
(* model value with the number of long-name slots it takes and its 8.3     *)
(* form; checksums are equal when the 8.3 forms are.                       *)
(***************************************************************************)
EXTENDS SectorCache, Integers, FiniteSets, Sequences

CONSTANTS
  Names,        \* the names in use
  Lfns,         \* [Names -> Nat]: long-name slots of a name, (len + 12) / 13
  Short,        \* the 8.3 form put_sfn_name makes of a name
  PerSector,    \* slots in a sector (16)
  K,            \* sectors in a cluster
  MaxClust,     \* bound on the clusters of the directory
  Initial,      \* what the directory may hold at first, a set of slot sequences
  Listing,      \* whether cmd_ls is run
  MaxCrashes    \* bound on the number of power cuts

ClustSlots == PerSector * K
(* The last cluster is followed on the disk by one of another file. *)
Slots == 0 .. ((MaxClust + 1) * ClustSlots - 1)
SlotSectors == [s \in Slots |-> s \div PerSector]
elsewhere == -1                 \* any sector that is not one of the directory

Free == <<"free">>              \* SFN_FREE
Last == <<"last">>              \* SFN_LAST
Junk == <<"sfn", "junk">>       \* what a cluster of a file looks like
lfn(n, i) == <<"lfn", n, i>>    \* the head is the one with i = Lfns[n]
sfn(n) == <<"sfn", n>>
NameSlots == {sfn(n) : n \in Names} \cup UNION {{lfn(n, i) : i \in 1 .. Lfns[n]} : n \in Names}
SlotValues == {Free, Last, Junk} \cup NameSlots

is_lfn(v) == v[1] = "lfn"
is_free(v) == v \in {Free, Last}
short_of(n) == IF n = "junk" THEN "junk" ELSE Short[n]

ASSUME DirectoryAssumption ==
  /\ Lfns \in [Names -> Nat \ {0}] /\ DOMAIN Short = Names
  /\ "junk" \notin Names
  /\ PerSector \in Nat \ {0, 1} /\ K \in Nat \ {0} /\ MaxClust \in Nat \ {0}
  /\ \A q \in Initial : q \in Seq(SlotValues) /\ Len(q) <= ClustSlots
  /\ Listing \in BOOLEAN /\ MaxCrashes \in Nat
  /\ Cell = Slots /\ SectorOf = SlotSectors

(* A directory is a function d from slots to values, with the end e of its chain.
   Its entries are in front of the first SFN_LAST. *)
Live(d, e) == {s \in Slots : s < e /\ \A t \in 0 .. s : d[t] # Last}

(* The names it has: those of its short slots. *)
Present(d, e) == {d[s][2] : s \in {t \in Live(d, e) : d[t][1] = "sfn"}}

(* Long-name slots come in complete runs, from the head down to 1, each with
   its short slot behind it, all within the chain. *)
Parses(d, e) ==
  \A s \in Live(d, e) :
    is_lfn(d[s]) =>
      LET n == d[s][2]
          i == d[s][3]
      IN  /\ i < Lfns[n] => s - 1 \in Live(d, e) /\ d[s - 1] = lfn(n, i + 1)
          /\ s + 1 \in Live(d, e)
          /\ d[s + 1] = IF i = 1 THEN sfn(n) ELSE lfn(n, i - 1)

(* No name has two entries. *)
Unique(d, e) ==
  \A s, t \in Live(d, e) : d[s][1] = "sfn" /\ d[s] = d[t] => s = t

Whole(d, e) == Parses(d, e) /\ Unique(d, e) /\ Present(d, e) \subseteq Names

(* The 8.3 form of a name without a long one belongs to no other name. *)
ShortDistinct(d, e) ==
  \A s \in Live(d, e) :
    d[s][1] = "sfn" =>
      \/ s > 0 /\ d[s - 1] = lfn(d[s][2], 1)
      \/ \A n \in Names : Short[n] = short_of(d[s][2]) => n = d[s][2]

(* The volume with q as the directory, of one cluster. *)
mounted(q) ==
  [s \in Slots |-> IF s < Len(q) THEN q[s + 1]
                   ELSE IF s >= ClustSlots /\ s % ClustSlots = 0 THEN Junk
                   ELSE Last]

ASSUME InitialAssumption ==
  \A q \in Initial : Whole(mounted(q), ClustSlots) /\ ShortDistinct(mounted(q), ClustSlots)

VARIABLES
  len,                  \* the clusters of the directory
  pc, op, name,         \* the running call and the name in its path
  at, first,            \* Dir; the start of a run of slots (Loc, or sect and idx)
  need, crc,            \* parse_lfn_name: slots of the entry to come, the head's checksum
  match,                \* the long name read so far is the one searched for
  cnt, eod,             \* locals of dir_add
  listed,               \* what cmd_ls has printed
  res,                  \* what the call returns
  before,               \* history: the names present when the call began
  promised,             \* history: what completed calls left on the disk
  split,                \* history: what is being written needs several sectors
  torn, crashes         \* history: such a write was cut; power cuts

callVars == <<op, name>>
scanVars == <<need, crc, match>>
addVars == <<first, cnt, eod>>
historyVars == <<before, promised, split, torn, crashes>>
vars == <<disk, sect, buf, dirty, len, pc, op, name, at, first, need, crc, match,
          cnt, eod, listed, res, before, promised, split, torn, crashes>>

end == len * ClustSlots      \* of the chain

Init ==
  /\ \E q \in Initial : disk = mounted(q)
  /\ len = 1
  /\ sect = elsewhere /\ buf = [x \in {} |-> 0] /\ dirty = FALSE
  /\ pc = "idle" /\ op = "none" /\ name \in Names
  /\ at = 0 /\ first = 0 /\ need = 0 /\ crc = "none" /\ match = FALSE
  /\ cnt = 0 /\ eod = FALSE /\ listed = <<>> /\ res = "none"
  /\ before = Present(disk, end)
  /\ promised = Present(disk, end) \cap Names
  /\ split = FALSE /\ torn = FALSE /\ crashes = 0

-----------------------------------------------------------------------------
(* dir_next: at the end of the last cluster it returns FAT_ERR_EOF. *)

(* Mutant: the chain is never at its end. *)
never_ends(p) == FALSE

at_end(p) == (p + 1) % ClustSlots = 0 /\ (p + 1) \div ClustSlots >= len

(* The walk ends. A name that is not found is created by fat_file_open and
   fat_dir_create, one that is found is removed by fat_unlink; otherwise the
   call returns. *)
result(r) ==
  \/ /\ op \in {"open", "mkdir"} /\ r = "eof"
     /\ pc' = "alloc" /\ res' = res
  \/ /\ op = "unlink" /\ r = "found"
     /\ pc' = "unchain" /\ res' = res
  \/ /\ <<op, r>> \notin {<<"open", "eof">>, <<"mkdir", "eof">>, <<"unlink", "found">>}
     /\ pc' = "return" /\ res' = r

fails(r) == pc' = "return" /\ res' = r

(* The driver goes to sectors outside the directory and leaves one of them in
   the buffer. *)
leave == update_buf(elsewhere)

-----------------------------------------------------------------------------
(* The calls. *)

Begin(o, n) ==
  /\ pc = "idle"
  /\ op' = o /\ name' = n
  /\ pc' = "search"
  /\ before' = Present(View, end)
  /\ promised' = IF o = "unlink" THEN promised \ {n} ELSE promised
  /\ UNCHANGED <<cacheVars, len, at, scanVars, addVars, listed, res, split, torn, crashes>>

(* fat_file_close and fat_sync. *)
Sync ==
  /\ pc = "idle"
  /\ sync_buf
  /\ promised' = Present(disk', end) \cap Names
  /\ split' = FALSE
  /\ UNCHANGED <<len, pc, callVars, at, scanVars, addVars, listed, res, before, torn, crashes>>

(* The locals of the call are gone. *)
Return ==
  /\ pc = "return"
  /\ pc' = "idle" /\ op' = "none" /\ res' = "none"
  /\ at' = 0 /\ first' = 0 /\ need' = 0 /\ crc' = "none" /\ match' = FALSE
  /\ cnt' = 0 /\ eod' = FALSE /\ listed' = <<>>
  /\ before' = {}
  /\ UNCHANGED <<cacheVars, len, name, promised, split, torn, crashes>>

-----------------------------------------------------------------------------
(* dir_search, and the same walk in fat_dir_read with the loop of cmd_ls
   around it. *)

(* On to the next slot; at the end of the chain the walk is over. *)
onward ==
  /\ at' = at + 1
  /\ \/ at_end(at) /\ result("eof")
     \/ ~at_end(at) /\ UNCHANGED <<pc, res>>

(* An entry has been read up to its short slot, whose name is n. cmd_ls prints
   it and does not look at what fat_dir_next returns. *)
entryRead(n, found) ==
  \/ /\ op = "list"
     /\ listed' = Append(listed, n) /\ at' = at + 1
     /\ UNCHANGED <<pc, res>>
  \/ /\ op # "list" /\ found
     /\ result("found")
     /\ UNCHANGED <<at, listed>>
  \/ /\ op # "list" /\ ~found
     /\ onward
     /\ UNCHANGED listed

reading == pc = "search" /\ update_buf(SectorOf[at])
scanFrame == UNCHANGED <<len, callVars, cnt, eod, historyVars>>

(* Mutant: the walk stops at a slot that was freed. *)
ReadLastOrFree ==
  /\ reading /\ need = 0 /\ is_free(View[at])
  /\ result("eof")
  /\ UNCHANGED <<at, first, scanVars, listed>> /\ scanFrame

ReadLast ==
  /\ reading /\ need = 0 /\ View[at] = Last
  /\ result("eof")
  /\ UNCHANGED <<at, first, scanVars, listed>> /\ scanFrame

ReadFree ==
  /\ reading /\ need = 0 /\ View[at] = Free
  /\ onward
  /\ UNCHANGED <<first, scanVars, listed>> /\ scanFrame

(* An entry without a long name is found by its 8.3 form. *)
ReadShort ==
  /\ reading /\ need = 0 /\ View[at][1] = "sfn"
  /\ first' = at
  /\ entryRead(View[at][2], short_of(View[at][2]) = Short[name])
  /\ UNCHANGED scanVars /\ scanFrame

(* A run of long-name slots begins with its head. *)
ReadHead ==
  /\ reading /\ need = 0 /\ is_lfn(View[at])
  /\ first' = at
  /\ LET v == View[at] IN
       \/ /\ v[3] = Lfns[v[2]]
          /\ need' = v[3] /\ crc' = Short[v[2]] /\ match' = (v[2] = name)
          /\ onward
       \/ /\ v[3] # Lfns[v[2]]
          /\ fails("broken")
          /\ UNCHANGED <<at, scanVars>>
  /\ UNCHANGED listed /\ scanFrame

(* The slots after the head must have its checksum; their sequence numbers
   are not looked at. *)
ReadMore ==
  /\ reading /\ need > 1
  /\ LET v == View[at]
         fits == is_lfn(v) /\ Short[v[2]] = crc IN
       \/ /\ fits
          /\ need' = need - 1 /\ match' = (match /\ v[2] = name)
          /\ onward
       \/ /\ ~fits
          /\ fails("broken")
          /\ UNCHANGED <<at, need, match>>
  /\ UNCHANGED <<first, crc, listed>> /\ scanFrame

(* The short slot of a long name. fat_dir_read does not make sure that it is
   one. *)
ReadTail ==
  /\ reading /\ need = 1
  /\ LET v == View[at]
         fits == ~is_free(v) /\ (is_lfn(v) => op = "list") /\ short_of(v[2]) = crc IN
       \/ /\ fits
          /\ need' = 0
          /\ entryRead(v[2], match)
       \/ /\ ~fits
          /\ fails("broken")
          /\ UNCHANGED <<at, need, listed>>
  /\ UNCHANGED <<first, crc, match>> /\ scanFrame

-----------------------------------------------------------------------------
(* dir_add, after create_chain. *)

Alloc ==
  /\ pc = "alloc"
  /\ leave
  /\ at' = 0
  /\ \/ pc' = "find" /\ UNCHANGED res
     \/ fails("full")
  /\ UNCHANGED <<len, callVars, scanVars, addVars, listed, historyVars>>

wanted == Lfns[name] + 1

(* Mutant: a slot in use does not interrupt the run. *)
FindUninterrupted ==
  /\ pc = "find"
  /\ update_buf(SectorOf[at])
  /\ LET usable == eod \/ is_free(View[at]) IN
       /\ cnt' = IF usable THEN cnt + 1 ELSE cnt
       /\ first' = IF usable /\ cnt = 0 THEN at ELSE first
  /\ eod' = (eod \/ View[at] = Last)
  /\ at' = at + 1
  /\ pc' = IF at_end(at) THEN "stretch" ELSE IF cnt' = wanted THEN "eod" ELSE "find"
  /\ UNCHANGED <<len, callVars, scanVars, listed, res, historyVars>>

(* One iteration of the search for a run of free slots. Whatever lies behind
   the end marker is free. *)
Find ==
  /\ pc = "find"
  /\ update_buf(SectorOf[at])
  /\ LET usable == eod \/ is_free(View[at]) IN
       /\ cnt' = IF usable THEN cnt + 1 ELSE 0
       /\ first' = IF usable /\ cnt = 0 THEN at ELSE first
  /\ eod' = (eod \/ View[at] = Last)
  /\ at' = at + 1
  /\ pc' = IF at_end(at) THEN "stretch" ELSE IF cnt' = wanted THEN "eod" ELSE "find"
  /\ UNCHANGED <<len, callVars, scanVars, listed, res, historyVars>>

(* dir_next_stretch at the end of the chain. stretch_chain ends with sync_fs,
   so that the cluster is part of the directory before it is cleared. *)
Stretch ==
  /\ pc = "stretch"
  /\ leave
  /\ \/ /\ len < MaxClust
        /\ len' = len + 1 /\ split' = (split \/ ~eod)
        /\ pc' = "clear" /\ UNCHANGED res
     \/ fails("full") /\ UNCHANGED <<len, split>>
  /\ UNCHANGED <<callVars, at, scanVars, addVars, listed, before, promised, torn, crashes>>

StretchFrom == (len - 1) * K    \* the first sector of the new cluster

(* Mutant: the new cluster is left as it is. *)
ClearNothing ==
  /\ pc = "clear"
  /\ pc' = IF cnt = wanted THEN "eod" ELSE "find"
  /\ UNCHANGED <<cacheVars, len, callVars, at, scanVars, addVars, listed, res, historyVars>>

(* clust_clear, one sector. *)
Clear ==
  /\ pc = "clear"
  /\ LET s == IF sect = elsewhere THEN StretchFrom ELSE sect + 1 IN
       /\ sect' = s
       /\ buf' = [x \in CellsOf(s) |-> Last]
       /\ disk' = [x \in Cell |-> IF SectorOf[x] = s THEN Last ELSE disk[x]]
       /\ dirty' = FALSE
       /\ pc' = IF s < StretchFrom + K - 1 THEN "clear"
                ELSE IF cnt = wanted THEN "eod" ELSE "find"
  /\ UNCHANGED <<len, callVars, at, scanVars, addVars, listed, res, historyVars>>

straddling(from, to) == SectorOf[from] # SectorOf[to]

(* The slot behind the run becomes the new end marker, before the old one is
   overwritten. *)
NewEnd ==
  /\ pc = "eod"
  /\ IF eod THEN put(at, Last) ELSE UNCHANGED cacheVars
  /\ at' = first /\ cnt' = Lfns[name]
  /\ split' = (split \/ straddling(first, first + Lfns[name]))
  /\ pc' = "addLong"
  /\ UNCHANGED <<len, callVars, scanVars, first, eod, listed, res, before, promised, torn, crashes>>

AddLong ==
  /\ pc = "addLong"
  /\ put(at, lfn(name, cnt))
  /\ at' = at + 1 /\ cnt' = cnt - 1
  /\ pc' = IF cnt = 1 THEN "addShort" ELSE "addLong"
  /\ UNCHANGED <<len, callVars, scanVars, first, eod, listed, res, historyVars>>

(* fat_dir_create ends with sync_fs; fat_file_open leaves the entry in the
   buffer. *)
AddShort ==
  /\ pc = "addShort"
  /\ put(at, sfn(name))
  /\ \/ op = "mkdir" /\ pc' = "sync" /\ UNCHANGED res
     \/ op = "open" /\ fails("added")
  /\ UNCHANGED <<len, callVars, at, scanVars, addVars, listed, historyVars>>

SyncFs ==
  /\ pc = "sync"
  /\ sync_buf
  /\ fails(IF op = "mkdir" THEN "added" ELSE "removed")
  /\ promised' = Present(disk', end) \cap Names
  /\ split' = FALSE
  /\ UNCHANGED <<len, callVars, at, scanVars, addVars, listed, before, torn, crashes>>

-----------------------------------------------------------------------------
(* fat_unlink: remove_chain, then remove_entries from first to at. *)

Unchain ==
  /\ pc = "unchain"
  /\ leave
  /\ cnt' = at /\ at' = first
  /\ split' = (split \/ straddling(first, at))
  /\ pc' = "remove"
  /\ UNCHANGED <<len, callVars, scanVars, first, eod, listed, res, before, promised, torn, crashes>>

(* Mutant: the pointer is not moved. *)
RemoveStuck ==
  /\ pc = "remove"
  /\ put(at, Free)
  /\ pc' = IF at = cnt THEN "sync" ELSE "remove"
  /\ UNCHANGED <<len, callVars, at, scanVars, addVars, listed, res, historyVars>>

(* A freed slot is Free and no more. The code marks the first byte, and the
   attribute and checksum of a long-name slot stay: parse_lfn_name, which looks at
   these two in the slots behind the head, would take a freed one for a part of the
   name, but only in a directory torn by a cut does one follow a head. *)
Remove ==
  /\ pc = "remove"
  /\ put(at, Free)
  /\ \/ at = cnt /\ pc' = "sync" /\ UNCHANGED at
     \/ at # cnt /\ at' = at + 1 /\ UNCHANGED pc
  /\ UNCHANGED <<len, callVars, scanVars, addVars, listed, res, historyVars>>

-----------------------------------------------------------------------------
PowerCycle ==
  /\ crashes < MaxCrashes
  /\ crashes' = crashes + 1
  /\ torn' = (torn \/ split)
  /\ split' = FALSE
  /\ drop_buf(elsewhere)
  /\ pc' = "idle" /\ op' = "none" /\ res' = "none"
  /\ at' = 0 /\ first' = 0 /\ need' = 0 /\ crc' = "none" /\ match' = FALSE
  /\ cnt' = 0 /\ eod' = FALSE /\ listed' = <<>>
  /\ before' = {}
  /\ UNCHANGED <<len, name, promised>>

Call ==
  \/ \E n \in Names, o \in {"open", "mkdir", "unlink"} : Begin(o, n)
  \/ Listing /\ Begin("list", name)
  \/ Sync

Step ==
  \/ ReadLast \/ ReadFree \/ ReadShort \/ ReadHead \/ ReadMore \/ ReadTail
  \/ Alloc \/ Find \/ Stretch \/ Clear \/ NewEnd \/ AddLong \/ AddShort
  \/ Unchain \/ Remove \/ SyncFs \/ Return

Next == Call \/ Step \/ PowerCycle

(* A call runs to its end unless power is lost. *)
Spec == Init /\ [][Next]_vars /\ WF_vars(Step)

-----------------------------------------------------------------------------
(* Properties. *)

(* The variables stay in their types; the directory pointer leaves the chain by
   one slot at most, and only cmd_ls follows it there. *)
TypeOK ==
  /\ disk \in [Slots -> SlotValues]
  /\ sect \in {SectorOf[s] : s \in Slots} \cup {elsewhere}
  /\ buf \in [CellsOf(sect) -> SlotValues] /\ dirty \in BOOLEAN
  /\ len \in 1 .. MaxClust
  /\ at \in 0 .. end \/ (op = "list" /\ at \in 0 .. (end + 1))
  /\ first \in Slots /\ cnt \in Slots /\ eod \in BOOLEAN
  /\ need \in Nat /\ match \in BOOLEAN
  /\ op \in {"none", "open", "mkdir", "unlink", "list"} /\ name \in Names
  /\ res \in {"none", "eof", "found", "added", "removed", "full", "broken"}
  /\ promised \subseteq Names

(* Between calls the directory parses and holds nothing but what was put there,
   and so does what a power cut would leave of it at any moment of a call, as
   long as the slots of the entry being written are in one sector, and no
   cluster is added behind one without an end marker. *)
EntriesWhole == ~torn => (pc = "idle" => Whole(View, end)) /\ (~split => Whole(disk, end))

(* What a call returns tells what it did: an entry is added or removed as a
   whole, no other is touched, and a name is found exactly if it is there. *)
CallEffect ==
  pc = "return" /\ ~torn /\ op # "list" =>
    LET now == Present(View, end) IN
      \/ res = "found" /\ name \in before /\ now = before
      \/ res = "added" /\ name \notin before /\ now = before \cup {name}
      \/ res = "removed" /\ name \in before /\ now = before \ {name}
      \/ res \in {"eof", "full"} /\ name \notin before /\ now = before

(* A file that was closed, or a directory that fat_dir_create made, has its
   short entry in front of the end marker on the disk from then on, through
   power cuts, until it is unlinked. (A sync promises what it leaves on the
   disk: that nothing is lost in the very step is what CallEffect says.) *)
PromisedStay == promised \subseteq Present(disk, end)

PrintsAll ==
  /\ {listed[i] : i \in DOMAIN listed} = before
  /\ Len(listed) = Cardinality(before)

(* ls prints every entry once, when the directory has an end marker. *)
ListsMarked ==
  /\ pc = "return" /\ op = "list" /\ ~torn
  /\ \E s \in 0 .. (end - 1) : View[s] = Last
  => PrintsAll

(* "Returns EOF when the EOF marker is hit. The user should not call this after
   that point" (src/src/fs/fat.c:1671): ls prints the entries of the directory
   and stops. *)
ListsEntries == pc = "return" /\ op = "list" /\ ~torn => PrintsAll

(* Every walk and every call ends. *)
CallsReturn == pc # "idle" ~> pc = "idle"

=============================================================================
