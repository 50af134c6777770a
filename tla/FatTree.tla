------------------------------- MODULE FatTree -------------------------------
(***************************************************************************)
(* The tree of directories, src/src/fs/fat.c: paths are followed through   *)
(* it by follow_path, and fat_file_open, fat_dir_create, fat_dir_open and  *)
(* fat_unlink change it or open what is in it.  A step writes to the disk  *)
(* at most once, through the sector cache, so that a power cut can fall    *)
(* between any two writes.                                                 *)
(*                                                                         *)
(* Abstracted here: a FAT has one sector and no mirror, and which free     *)
(* cluster is taken is left open (FatVolume); the slots of one entry are   *)
(* one cell, in a cluster of one sector (FatDirectory); what files hold    *)
(* (FatFile).  Chains do not run into free clusters (TreeIntact), so that  *)
(* dir_next does not return FAT_ERR_BROKEN.  "." and ".." are no names:    *)
(* put_sfn_name spells them unlike the entries with these names, so that   *)
(* follow_path never finds those.  The only attribute is FAT_ATTR_DIR.     *)
(***************************************************************************)
EXTENDS SectorCache, Integers, FiniteSets, Sequences, FiniteSetsExt

Seqs == INSTANCE SequencesExt

CONSTANTS
  Names,        \* the names in use
  MaxDepth,     \* bound on the length of a path
  Clusters,     \* the clusters of the volume
  Root,         \* Fat.root_clust
  NoClust,      \* cluster 0: no cluster, and an entry of the FAT that is none's
  PerClust,     \* entries in a cluster
  Initial,      \* what the root directory may hold at first, a set of sequences
  MaxChanges,   \* bound on the number of calls that change the tree
  MaxCrashes    \* bound on the number of power cuts

Indices == 0 .. (PerClust - 1)
Paths == Seqs!SeqOf(Names, MaxDepth)
ClustOrNone == Clusters \cup {NoClust}

CLUST_FREE == "free"
CLUST_LAST == "last"

(* What a slot holds. An entry made by another system may have no long name,
   and an empty file of theirs has no cluster. *)
Free == <<"free">>              \* SFN_FREE
Last == <<"last">>              \* SFN_LAST
Junk == <<"junk">>              \* a cluster that no directory was in
dot(c) == <<"dot", c>>
dotdot(c) == <<"dotdot", c>>
Kinds == {"file", "dir"}
Entries == Kinds \X Names \X ClustOrNone \X {"long", "short"}
SlotValue ==
  {Free, Last, Junk} \cup Entries \cup {dot(c) : c \in Clusters}
    \cup {dotdot(c) : c \in ClustOrNone}
is_free(v) == v \in {Free, Last}
is_entry(v) == v[1] \in Kinds

(* Entry 0 of a FAT reads as the end of a chain. *)
fat(c) == <<"fat", c>>
slot(c, i) == <<"slot", c, i>>
FatCells == {fat(c) : c \in ClustOrNone}
Slots == {slot(c, i) : c \in Clusters, i \in Indices}
TreeCells == FatCells \cup Slots

fat_sect == <<"fat", NoClust>>
dir_sect(c) == <<"dir", c>>
elsewhere == <<"info", NoClust>>    \* the FsInfo sector, or the boot sector
TreeSectors == [x \in TreeCells |-> IF x \in FatCells THEN fat_sect ELSE dir_sect(x[2])]

ASSUME TreeAssumption ==
  /\ Names # {} /\ MaxDepth \in Nat \ {0} /\ MaxChanges \in Nat /\ MaxCrashes \in Nat
  /\ IsFiniteSet(Clusters) /\ {CLUST_FREE, CLUST_LAST} \cap Clusters = {}
  /\ Root \in Clusters /\ NoClust \notin Clusters
  /\ PerClust \in Nat /\ PerClust > 2
  /\ Cell = TreeCells /\ SectorOf = TreeSectors

(* What another system has left: in front of the end marker files with names and
   clusters of their own, or no cluster. *)
ASSUME InitialAssumption ==
  \A q \in Initial :
    /\ q \in Seq(SlotValue) /\ Len(q) <= PerClust
    /\ \E m \in DOMAIN q :
         /\ q[m] = Last
         /\ \A i \in 1 .. (m - 1) :
              q[i] = Free \/ (is_entry(q[i]) /\ q[i][1] = "file" /\ q[i][3] # Root)
         /\ \A i \in (m + 1) .. Len(q) : ~is_entry(q[i])
         /\ \A i, j \in 1 .. (m - 1) :
              i # j /\ is_entry(q[i]) /\ is_entry(q[j]) =>
                q[i][2] # q[j][2] /\ (q[i][3] = q[j][3] => q[i][3] = NoClust)

VARIABLES
  pc, op, path,         \* the running call and its path
  dir, at,              \* Dir.sclust; the slot Dir points to
  clust,                \* the local of that name: a chain to enter or to remove
  spot, eod,            \* locals of dir_add: the slot to use, whether the end was met
  entered,              \* what the call hands out: a directory or the chain of a file
  res,                  \* what the call returns
  before,               \* history: the tree when the call began
  failed,               \* history: calls that left a cluster behind
  cut, crashes,         \* history: power was lost inside an unlink; power cuts
  changes               \* number of calls that set out to change the tree

locals == <<path, dir, at, clust, spot, eod>>
historyVars == <<failed, cut, crashes, changes>>
vars == <<disk, sect, buf, dirty, pc, op, path, dir, at, clust, spot, eod, entered, res,
          before, failed, cut, crashes, changes>>

free == {c \in Clusters : View[fat(c)] = CLUST_FREE}

(* The clusters of the chain that begins at c, and the slots of a directory,
   in their order. *)
followed(d) ==
  LET from[x \in (0 .. Cardinality(Clusters)) \X ClustOrNone] ==
        IF x[1] = 0 \/ d[fat(x[2])] \notin Clusters THEN <<x[2]>>
        ELSE <<x[2]>> \o from[<<x[1] - 1, d[fat(x[2])]>>]
  IN  from

chain(d, c) == followed(d)[<<Cardinality(Clusters), c>>]
members(d, c) == Range(chain(d, c))

slots_of(ch) ==
  [k \in 1 .. (Len(ch) * PerClust) |-> slot(ch[(k - 1) \div PerClust + 1], (k - 1) % PerClust)]

slots(d, c) == slots_of(chain(d, c))

(* Every directory has an end marker (TreeIntact). *)
first_of(d, s, wanted(_)) == Min({k \in DOMAIN s : wanted(d[s[k]])})

(* What the tree on a disk d is meant to be: the slots in use in front of the
   end marker of a directory, and the nodes there are, each with its path,
   kind and cluster. *)
listing(d, c) ==
  LET s == slots(d, c)
      ends == {k \in DOMAIN s : d[s[k]] = Last}
  IN  {s[k] : k \in {j \in DOMAIN s : ~is_free(d[s[j]]) /\ \A e \in ends : j < e}}

entries(d, c) == {s \in listing(d, c) : is_entry(d[s])}
below(d, x) == {<<Append(x[1], d[s][2]), d[s][1], d[s][3]>> : s \in entries(d, x[3])}

levels(d) ==
  LET depth[i \in 0 .. MaxDepth] ==
        IF i = 0 THEN {<<<<>>, "dir", Root>>}
        ELSE UNION {below(d, x) : x \in {y \in depth[i - 1] : y[2] = "dir"}}
  IN  depth

Nodes(d) == LET depth == levels(d) IN UNION {depth[i] : i \in 0 .. MaxDepth}

Tree(d) == {<<x[1], x[2]>> : x \in Nodes(d)}
nodes(d, p) == {<<x[2], x[3]>> : x \in {y \in Nodes(d) : y[1] = p}}

Init ==
  /\ \E q \in Initial :
       disk = [x \in Cell |->
                 IF x \in {fat(Root), fat(NoClust)} THEN CLUST_LAST
                 ELSE IF x \in FatCells THEN
                   IF \E i \in DOMAIN q : is_entry(q[i]) /\ x = fat(q[i][3])
                     THEN CLUST_LAST ELSE CLUST_FREE
                 ELSE IF x[2] # Root THEN Junk
                 ELSE IF x[3] < Len(q) THEN q[x[3] + 1] ELSE Last]
  /\ sect = elsewhere /\ buf = [x \in {} |-> 0] /\ dirty = FALSE
  /\ pc = "idle" /\ op = "none" /\ path = <<>>
  /\ dir = NoClust /\ at = slot(Root, 0) /\ clust = NoClust
  /\ spot = slot(Root, 0) /\ eod = FALSE
  /\ entered = <<"none", NoClust>> /\ res = "none" /\ before = {}
  /\ failed = 0 /\ cut = FALSE /\ crashes = 0 /\ changes = 0

-----------------------------------------------------------------------------
(* The driver loads these sectors one after the other, and this one last. Once
   the buffer is clean it does not matter which sector it holds. *)
visit(sectors, last) ==
  IF sectors \subseteq {sect} THEN UNCHANGED cacheVars
  ELSE /\ disk' = Flushed
       /\ sect' = last
       /\ buf' = [x \in CellsOf(last) |-> View[x]]
       /\ dirty' = FALSE

(* sync_fs leaves d on the disk and the FsInfo sector in the buffer. *)
synced(d) == disk' = d /\ sect' = elsewhere /\ buf' = [x \in {} |-> 0] /\ dirty' = FALSE

(* dir_search: the slot where it stops, and what it has loaded. *)
dir_search(c, n) ==
  LET s == slots(View, c)
      named(v) == is_entry(v) /\ v[2] = n
      k == first_of(View, s, LAMBDA v : v = Last \/ named(v))
  IN  [found |-> View[s[k]] # Last, slot |-> s[k],
       sectors |-> {dir_sect(s[j][2]) : j \in 1 .. k} \cup
                   (IF s[k][2] # c THEN {fat_sect} ELSE {})]

enter(c) == IF c = NoClust THEN Root ELSE c

(* follow_path, one iteration for each component of the path. A directory is
   entered only when a component follows it. *)
component(w, n) ==
  IF w.res # "ok" THEN w
  ELSE IF ~w.enterable THEN [w EXCEPT !.res = "path"]
  ELSE LET c == enter(w.clust)
           found == dir_search(c, n)
           v == View[found.slot]
           all == w.sectors \cup found.sectors
       IN  IF found.found
             THEN [res |-> "ok", dir |-> c, at |-> found.slot, clust |-> v[3],
                   enterable |-> v[1] = "dir", left |-> w.left - 1, sectors |-> all]
             ELSE [w EXCEPT !.res = "eof", !.dir = c, !.at = found.slot, !.sectors = all]

walked(p) ==
  LET walk[i \in 0 .. Len(p)] ==
        IF i = 0
          THEN [res |-> "ok", dir |-> Root, at |-> slot(Root, 0), clust |-> Root,
                enterable |-> TRUE, left |-> Len(p), sectors |-> {}]
          ELSE component(walk[i - 1], p[i])
  IN  walk

follow_path(p) == walked(p)[Len(p)]

(* Mutant: any entry of the root directory counts as the root. *)
in_root(p, w) == w.at[2] = Root

(* The root itself, or a short entry in the first slot of the root directory. *)
dir_at_root(p, w) ==
  w.at = slot(Root, 0) /\ (p # <<>> => View[w.at][4] = "short")

returns(r) == pc' = "return" /\ res' = r

begins(o, p, w) ==
  /\ op' = o /\ path' = p /\ dir' = w.dir /\ at' = w.at
  /\ before' = Tree(View)
  /\ UNCHANGED <<spot, eod, historyVars>>

(* Only the last component of a path may be missing where it is created. *)
missing(w) == w.res = "eof" /\ w.left = 1

(* Opens a file that is there, whatever its kind, and creates one that is not
   if FAT_CREATE is given. Of the root there is no entry: the driver takes
   what lies at the start of the buffer for one. *)
fat_file_open(p, create) ==
  \E w \in {follow_path(p)} :
  /\ begins("open", p, w)
  /\ visit(w.sectors, dir_sect(w.at[2]))
  /\ UNCHANGED clust
  /\ \/ /\ w.res = "ok"
        /\ entered' = IF p = <<>> THEN <<"stale", NoClust>> ELSE <<View[w.at][1], w.clust>>
        /\ returns("ok")
     \/ /\ missing(w) /\ create
        /\ pc' = "alloc" /\ UNCHANGED <<entered, res>>
     \/ /\ w.res # "ok" /\ ~(missing(w) /\ create)
        /\ returns(IF w.res = "path" \/ create THEN "path" ELSE "denied")
        /\ UNCHANGED entered

(* A path that is there is left alone, and nothing is entered. *)
fat_dir_create(p) ==
  \E w \in {follow_path(p)} :
  /\ begins("mkdir", p, w)
  /\ visit(w.sectors, dir_sect(w.at[2]))
  /\ UNCHANGED <<clust, entered>>
  /\ \/ w.res = "ok" /\ returns("ok")
     \/ missing(w) /\ pc' = "alloc" /\ UNCHANGED res
     \/ w.res # "ok" /\ ~missing(w) /\ returns("path")

fat_dir_open(p) ==
  \E w \in {follow_path(p)} :
  /\ begins("opendir", p, w)
  /\ visit(w.sectors, dir_sect(w.at[2]))
  /\ UNCHANGED clust
  /\ \/ w.res # "ok" /\ returns(w.res) /\ UNCHANGED entered
     \/ /\ w.res = "ok" /\ dir_at_root(p, w)
        /\ entered' = <<"dir", w.dir>> /\ returns("ok")
     \/ /\ w.res = "ok" /\ ~dir_at_root(p, w)
        /\ \/ ~w.enterable /\ returns("path") /\ UNCHANGED entered
           \/ w.enterable /\ entered' = <<"dir", enter(w.clust)>> /\ returns("ok")

(* Mutant: the slot behind the first two is skipped as well. *)
empty_behind(c) ==
  LET s == slots(View, c)
      end == first_of(View, s, LAMBDA v : v = Last)
  IN  \A k \in 4 .. (end - 1) : is_free(View[s[k]])

(* Nothing but free slots between the first two and the end marker. *)
empty(c) ==
  LET s == slots(View, c)
      end == first_of(View, s, LAMBDA v : v = Last)
  IN  \A k \in 3 .. (end - 1) : is_free(View[s[k]])

fat_unlink(p) ==
  \E w \in {follow_path(p)} :
  LET into == IF w.res = "ok" /\ w.enterable /\ ~dir_at_root(p, w)
                THEN {dir_sect(enter(w.clust))} ELSE {}
  IN
  /\ begins("unlink", p, w)
  /\ visit(w.sectors \cup into, IF into = {} THEN dir_sect(w.at[2]) ELSE dir_sect(w.clust))
  /\ UNCHANGED entered
  /\ \/ w.res # "ok" /\ returns(w.res) /\ UNCHANGED clust
     \/ /\ w.res = "ok"
        /\ dir_at_root(p, w) \/ (w.enterable /\ ~empty(enter(w.clust)))
        /\ returns("denied") /\ UNCHANGED clust
     \/ /\ w.res = "ok"
        /\ ~dir_at_root(p, w) /\ (w.enterable => empty(enter(w.clust)))
        /\ clust' = w.clust
        /\ pc' = "unchain" /\ UNCHANGED res

(* fat_sync, and fat_file_close of a file that was not written. Closing a handle of
   the root that fat_file_open has given for writing would change attribute and
   size of whatever is in the first slot of the root; it is left out. *)
fat_sync ==
  /\ dirty
  /\ synced(Flushed)
  /\ UNCHANGED <<pc, op, locals, entered, res, before, historyVars>>

Return ==
  /\ pc = "return"
  /\ pc' = "idle" /\ op' = "none" /\ path' = <<>>
  /\ dir' = NoClust /\ at' = slot(Root, 0) /\ clust' = NoClust
  /\ spot' = slot(Root, 0) /\ eod' = FALSE
  /\ entered' = <<"none", NoClust>> /\ res' = "none" /\ before' = {}
  /\ UNCHANGED <<cacheVars, historyVars>>

-----------------------------------------------------------------------------
(* create_chain, which ends with sync_fs. It may fail when the last free
   cluster is the one the search began at (FatVolume!FullOnlyIfFull). *)

callFrame == UNCHANGED <<op, path, dir, entered, before>>

full ==
  /\ Cardinality(free) <= 1
  /\ visit({fat_sect}, fat_sect)
  /\ returns("full")

Alloc ==
  /\ pc = "alloc"
  /\ \/ \E c \in free :
          /\ synced([Flushed EXCEPT ![fat(c)] = CLUST_LAST])
          /\ clust' = c
          /\ pc' = IF op = "mkdir" THEN "clear" ELSE "find"
          /\ UNCHANGED res
     \/ full /\ UNCHANGED clust
  /\ changes' = changes + 1
  /\ UNCHANGED <<at, spot, eod, failed, cut, crashes>> /\ callFrame

(* clust_clear goes to the disk at once. *)
cleared(c) ==
  /\ disk' = [x \in Cell |-> IF SectorOf[x] = dir_sect(c) THEN Last ELSE Flushed[x]]
  /\ sect' = dir_sect(c) /\ buf' = [x \in CellsOf(dir_sect(c)) |-> Last] /\ dirty' = FALSE

Clear ==
  /\ pc = "clear"
  /\ cleared(clust)
  /\ pc' = "dots"
  /\ UNCHANGED <<at, clust, spot, eod, res, historyVars>> /\ callFrame

parent == IF dir = Root THEN NoClust ELSE dir

Dots ==
  /\ pc = "dots"
  /\ buf' = [buf EXCEPT ![slot(clust, 0)] = dot(clust), ![slot(clust, 1)] = dotdot(parent)]
  /\ dirty' = TRUE
  /\ UNCHANGED <<disk, sect>>
  /\ pc' = "find"
  /\ UNCHANGED <<at, clust, spot, eod, res, historyVars>> /\ callFrame

(* dir_add: the first free slot. The pointer moves on by one slot in any case,
   and a directory that ends there is made longer. *)
Find ==
  /\ pc = "find"
  /\ LET s == slots(View, dir)
         k == first_of(View, s, is_free)
     IN  /\ visit({dir_sect(s[j][2]) : j \in 1 .. k}, dir_sect(s[k][2]))
         /\ spot' = s[k] /\ eod' = (View[s[k]] = Last)
         /\ \/ k < Len(s) /\ at' = s[k + 1] /\ pc' = IF eod' THEN "newEnd" ELSE "add"
            \/ k = Len(s) /\ UNCHANGED at /\ pc' = "stretch"
  /\ UNCHANGED <<clust, res, historyVars>> /\ callFrame

(* dir_next_stretch. When it fails, the cluster of create_chain stays behind. *)
Stretch ==
  /\ pc = "stretch"
  /\ \/ \E c \in free :
          /\ synced([Flushed EXCEPT ![fat(c)] = CLUST_LAST, ![fat(spot[2])] = c])
          /\ at' = slot(c, 0)
          /\ pc' = "clearNew"
          /\ UNCHANGED <<res, failed>>
     \/ /\ full
        /\ failed' = failed + 1 /\ UNCHANGED at
  /\ UNCHANGED <<clust, spot, eod, cut, crashes, changes>> /\ callFrame

ClearNew ==
  /\ pc = "clearNew"
  /\ cleared(at[2])
  /\ pc' = "newEnd"
  /\ UNCHANGED <<at, clust, spot, eod, res, historyVars>> /\ callFrame

(* Mutant: the old end marker is overwritten and no new one is made. *)
NewEndForgotten ==
  /\ pc = "newEnd"
  /\ pc' = "add"
  /\ UNCHANGED <<cacheVars, at, clust, spot, eod, res, historyVars>> /\ callFrame

NewEnd ==
  /\ pc = "newEnd"
  /\ put(at, Last)
  /\ pc' = "add"
  /\ UNCHANGED <<at, clust, spot, eod, res, historyVars>> /\ callFrame

(* fat_file_open leaves the entry in the buffer. *)
Add ==
  /\ pc = "add"
  /\ put(spot, <<IF op = "mkdir" THEN "dir" ELSE "file", path[Len(path)], clust, "long">>)
  /\ \/ op = "mkdir" /\ pc' = "sync" /\ UNCHANGED <<res, entered>>
     \/ op = "open" /\ returns("ok") /\ entered' = <<"file", clust>>
  /\ UNCHANGED <<op, path, dir, at, clust, spot, eod, before, historyVars>>

(* Mutant: the cluster of a directory is not freed. *)
UnchainFiles ==
  /\ pc = "unchain"
  /\ synced([Flushed EXCEPT ![fat(clust)] =
               IF View[at][1] = "dir" THEN CLUST_LAST ELSE CLUST_FREE])
  /\ pc' = "remove"
  /\ changes' = changes + 1
  /\ UNCHANGED <<at, clust, spot, eod, res, failed, cut, crashes>> /\ callFrame

(* remove_chain, which ends with sync_fs. *)
Unchain ==
  /\ pc = "unchain"
  /\ \/ /\ View[fat(clust)] # CLUST_FREE
        /\ LET freed == {fat(c) : c \in members(View, clust)} IN
           synced([x \in Cell |-> IF x \in freed THEN CLUST_FREE ELSE Flushed[x]])
        /\ pc' = "remove" /\ UNCHANGED res
     \/ /\ View[fat(clust)] = CLUST_FREE
        /\ visit({fat_sect}, fat_sect)
        /\ returns("broken")
  /\ changes' = changes + 1
  /\ UNCHANGED <<at, clust, spot, eod, failed, cut, crashes>> /\ callFrame

Remove ==
  /\ pc = "remove"
  /\ put(at, Free)
  /\ pc' = "sync"
  /\ UNCHANGED <<at, clust, spot, eod, res, historyVars>> /\ callFrame

(* The sync_fs at the end of fat_dir_create and fat_unlink. *)
SyncFs ==
  /\ pc = "sync"
  /\ synced(Flushed)
  /\ entered' = IF op = "mkdir" THEN <<"dir", clust>> ELSE entered
  /\ returns("ok")
  /\ UNCHANGED <<op, path, dir, at, clust, spot, eod, before, historyVars>>

(* The entry of a chain that remove_chain has freed. *)
unlinking == op = "unlink" /\ pc \in {"remove", "sync"}

PowerCycle ==
  /\ crashes < MaxCrashes
  /\ crashes' = crashes + 1
  /\ cut' = (cut \/ unlinking)
  /\ drop_buf(elsewhere)
  /\ pc' = "idle" /\ op' = "none" /\ path' = <<>>
  /\ dir' = NoClust /\ at' = slot(Root, 0) /\ clust' = NoClust
  /\ spot' = slot(Root, 0) /\ eod' = FALSE
  /\ entered' = <<"none", NoClust>> /\ res' = "none" /\ before' = {}
  /\ UNCHANGED <<failed, changes>>

(* The model does not follow a volume on which an unlink was cut short. *)
Call ==
  /\ pc = "idle" /\ ~cut
  /\ \/ \E p \in Paths : fat_file_open(p, FALSE) \/ fat_dir_open(p)
     \/ /\ changes < MaxChanges
        /\ \E p \in Paths : fat_file_open(p, TRUE) \/ fat_dir_create(p) \/ fat_unlink(p)
     \/ fat_sync

Step ==
  \/ Alloc \/ Clear \/ Dots \/ Find \/ Stretch \/ ClearNew \/ NewEnd \/ Add
  \/ Unchain \/ Remove \/ SyncFs \/ Return

Next == Call \/ Step \/ PowerCycle

Spec == Init /\ [][Next]_vars

-----------------------------------------------------------------------------
(* Properties. *)

(* The directories of a disk d, each with its parent. *)
Directories(d) ==
  LET ns == {x \in Nodes(d) : x[2] = "dir"} IN
  {<<Root, NoClust>>} \cup
  UNION {{<<x[3], IF y[3] = Root THEN NoClust ELSE y[3]>> :
            y \in {z \in ns : z[1] = Seqs!Front(x[1])}} : x \in {z \in ns : z[1] # <<>>}}

(* Those that are there to stay, and the slots in use in them. *)
Kept(d) == {g \in Directories(d) : ~(unlinking /\ g[1] = clust)}
UsedSlots(d) ==
  (UNION {listing(d, g[1]) : g \in Kept(d)}) \ (IF unlinking THEN {at} ELSE {})
Heads(d) == {s \in UsedSlots(d) : is_entry(d[s])}

Marked(d, g) == \E k \in DOMAIN slots(d, g[1]) : d[slots(d, g[1])[k]] = Last
Dotted(d, g) ==
  g[1] # Root =>
    d[slot(g[1], 0)] = dot(g[1]) /\ d[slot(g[1], 1)] = dotdot(g[2])
OnlyNames(d, g) ==
  \A s \in listing(d, g[1]) :
    /\ d[s] # Junk
    /\ d[s][1] \in {"dot", "dotdot"} => s[2] = g[1] /\ s[3] < 2
    /\ \A t \in listing(d, g[1]) : s # t /\ is_entry(d[s]) /\ is_entry(d[t]) => d[s][2] # d[t][2]
Owned(d) ==
  LET heads == Heads(d)
      owners == ({Root} \cup {d[s][3] : s \in heads}) \ {NoClust}
      owned == [c \in owners |-> members(d, c)]
  IN  /\ \A s, t \in heads : d[s][3] = d[t][3] /\ d[s][3] # NoClust => s = t
      /\ \A c \in owners : \A x \in owned[c] : d[fat(x)] # CLUST_FREE
      /\ \A c, e \in owners : c # e => owned[c] \cap owned[e] = {}

Sound(d) ==
  /\ \A g \in Kept(d) : Marked(d, g) /\ Dotted(d, g) /\ OnlyNames(d, g)
  /\ Owned(d)

(* Every directory there is, from the root down, has its end marker, the two
   entries for itself and its parent and nothing that was in its clusters
   before, no name twice, and no cluster belongs to two chains: in what the
   driver sees, and in what a power cut would leave at any moment of a call
   but between the two halves of fat_unlink. *)
TreeIntact == ~cut => \A d \in {disk, View} : Sound(d)

Lost(d) ==
  {c \in Clusters : d[fat(c)] # CLUST_FREE}
    \ UNION {members(d, h) : h \in {Root} \cup {d[s][3] : s \in Heads(d)}}

(* Between calls every cluster in use belongs to a path, but for one for each
   power cut and for each call that found the volume full. *)
LostBounded == pc = "idle" /\ ~cut => Cardinality(Lost(View)) <= failed + crashes

(* What a call returns tells what it did to the tree: a path is added or
   removed alone, when it was missing or was there with nothing in it; what is
   opened has that path, but where dir_at_root takes a file for the root. *)
CallTells ==
  pc = "return" =>
    LET now == Tree(View)
        was(k) == <<path, k>> \in before
        there == was("file") \/ was("dir")
        holds == \E e \in before : e[1] # <<>> /\ Seqs!Front(e[1]) = path
        first == at = slot(Root, 0) /\ (path # <<>> => View[at][4] = "short")
        made(k) == now = IF there THEN before ELSE before \cup {<<path, k>>}
        named == nodes(View, path) = {entered}
    IN  CASE res = "ok" /\ op = "open" -> made("file") /\ (path = <<>> \/ named)
          [] res = "ok" /\ op = "mkdir" -> made("dir") /\ (there \/ named)
          [] res = "ok" /\ op = "opendir" -> now = before /\ there /\ (first \/ named)
          [] res = "ok" /\ op = "unlink" ->
               there /\ ~holds /\ now = before \ {<<path, "file">>, <<path, "dir">>}
          [] res = "denied" -> now = before /\ IF op = "open" THEN ~there ELSE holds \/ first
          [] res \in {"eof", "full"} -> now = before /\ ~there
          [] res = "path" -> now = before /\ (~there \/ (op = "opendir" /\ was("file")))
          [] res = "broken" -> now = before /\ there /\ clust = NoClust

(* The tree of paths that the driver sees, and the one on the disk, behave as
   NameTree says: a path comes or goes in one step, when all before it is on
   the disk, and a power cut costs at most the path just created. *)
Abstract == INSTANCE NameTree WITH tree <- Tree(View), stable <- Tree(disk)

IsNameTree == Abstract!Spec

=============================================================================
