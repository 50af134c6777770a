------------------------------- MODULE Paging -------------------------------
(***************************************************************************)
(* The virtual memory manager, src/src/mm/vmm.c, with the physical one     *)
(* (Frames) it takes page tables from, the other clients of that one, and  *)
(* the processor, which walks the tables and keeps what it found in its    *)
(* translation buffer.                                                     *)
(*                                                                         *)
(* An entry of a directory or of a table is a frame number with the flags  *)
(* of vmm.h.  vmm_map adds a page table to a directory the first time one  *)
(* of its pages is mapped, and gives the directory's entry the flags of    *)
(* that first mapping; the processor grants what both entries grant.       *)
(*                                                                         *)
(* Two things are promised only while all goes well, and two variables     *)
(* record that it has not.  vmm_map does not look at what pmm_alloc_frame  *)
(* returns: when no frame is left it takes frame 0, the one at address     *)
(* NULL, for the page table ("exhausted").  And pmm_free_frame frees any   *)
(* frame in use, whoever has it ("misused").                               *)
(***************************************************************************)
EXTENDS Frames

CONSTANTS
  Clients,      \* the other callers of the frame allocator
  Dirs,         \* page directories
  kernel_page_directory,  \* the one that is loaded first
  PD, PT,       \* indices into a directory and into a table (0 .. 1023), those
                \* of kernel_page_directory that vmm_init leaves empty (from 256 on)
  Mappings,     \* what callers map pages to, frame and flags
  Residue       \* what a frame holds before it is cleared

Flag == {"present", "rw", "user"}
Entry == [frame : Nat, flags : SUBSET Flag]
Zero == [frame |-> 0, flags |-> {}]

ASSUME PagingAssumption ==
  /\ Mappings \subseteq Entry
  /\ Residue \in Entry
  /\ kernel_page_directory \in Dirs

VARIABLES
  dirs,         \* [Dirs -> [PD -> Entry]]
  memory,       \* what frames used as page tables hold
  cr3,          \* the directory that is loaded
  tlb,          \* the translations the processor keeps, Zero where it has none
  owned,        \* [Clients -> the frames they have]
  wanted,       \* history: what the calls of vmm_map and vmm_unmap asked for
  made,         \* history: the flags of the mapping that made a page table
  remapped,     \* history: the mapped pages of cr3 that vmm_map has mapped anew,
                \* and the processor has not looked up since
  exhausted,    \* history: vmm_map was given NULL
  misused       \* history: a frame in use was freed by one who did not have it

tables == <<dirs, memory, wanted, made>>
processor == <<cr3, tlb, remapped>>
faults == <<exhausted, misused>>
vars == <<pmmVars, tables, processor, owned, faults>>

present(e) == "present" \in e.flags

Init ==
  /\ pmm_init
  /\ dirs = [d \in Dirs |-> [i \in PD |-> Zero]]
  /\ memory = [f \in Frame |-> [j \in PT |-> Residue]]
  /\ cr3 = kernel_page_directory
  /\ tlb = [i \in PD |-> [j \in PT |-> Zero]]
  /\ owned = [c \in Clients |-> {}]
  /\ wanted = [d \in Dirs |-> [i \in PD |-> [j \in PT |-> Zero]]]
  /\ made = [d \in Dirs |-> [i \in PD |-> {}]]
  /\ remapped = {}
  /\ exhausted = FALSE
  /\ misused = FALSE

-----------------------------------------------------------------------------
(* Other clients of the frame allocator. *)

Take(c) ==
  /\ \E f \in Managed :
       pmm_alloc_frame(f) /\ owned' = [owned EXCEPT ![c] = @ \cup {f}]
  /\ UNCHANGED <<tables, processor, faults>>

(* A client frees any frame at all: its own, one that is free already, one that
   is in use elsewhere because it frees its former own again, one that pmm_init
   has reserved, or NULL. *)
GiveBack(c, f) ==
  /\ pmm_free_frame(f)
  /\ owned' = [owned EXCEPT ![c] = @ \ {f}]
  /\ misused' = (misused \/ f \in frame_bitmap \ owned[c])
  /\ UNCHANGED <<tables, processor, exhausted>>

-----------------------------------------------------------------------------
(* vmm_map and vmm_unmap. *)

(* What the tables say of page <<i, j>> of directory d: the flags are those that
   both the directory's entry and the table's have. *)
walk(d, i, j) ==
  LET e == memory[dirs[d][i].frame][j]
  IN  IF present(dirs[d][i]) THEN [e EXCEPT !.flags = @ \cap dirs[d][i].flags] ELSE Zero

(* vmm_map when the page table is there.  It tells the processor nothing. *)
Map(d, i, j, e) ==
  /\ present(dirs[d][i])
  /\ memory' = [memory EXCEPT ![dirs[d][i].frame][j] = e]
  /\ wanted' = [wanted EXCEPT ![d][i][j] = e]
  /\ remapped' = IF d = cr3 /\ present(walk(d, i, j))
                 THEN remapped \cup {<<i, j>>} ELSE remapped
  /\ UNCHANGED <<pmmVars, dirs, made, cr3, tlb, owned, faults>>

(* Mutant: the table is not cleared. *)
new_table_uncleared(f, j, e) == [memory[f] EXCEPT ![j] = e]

(* The new table, cleared, with its one entry. *)
new_table(f, j, e) == [k \in PT |-> IF k = j THEN e ELSE Zero]

(* Mutant: the directory's entry grants nothing to users. *)
table_entry_plain(f, e) == [frame |-> f, flags |-> {"present", "rw"}]

(* The directory's entry: the table, with the flags of the mapping. *)
table_entry(f, e) == [frame |-> f, flags |-> {"present", "rw"} \cup e.flags]

MapNewTable(d, i, j, e) ==
  /\ ~present(dirs[d][i])
  /\ \E f \in Frame :
       /\ pmm_alloc_frame(f)
       /\ dirs' = [dirs EXCEPT ![d][i] = table_entry(f, e)]
       /\ memory' = [memory EXCEPT ![f] = new_table(f, j, e)]
       /\ exhausted' = (exhausted \/ f = NoFrame)
  /\ wanted' = [wanted EXCEPT ![d][i][j] = e]
  /\ made' = [made EXCEPT ![d][i] = e.flags]
  /\ UNCHANGED <<processor, owned, misused>>

(* Mutant: the processor is not told. *)
Unmap_silently(d, i, j) ==
  /\ present(dirs[d][i])
  /\ memory' = [memory EXCEPT ![dirs[d][i].frame][j] = Zero]
  /\ wanted' = [wanted EXCEPT ![d][i][j] = Zero]
  /\ remapped' = remapped \ {<<i, j>>}
  /\ UNCHANGED <<pmmVars, dirs, made, cr3, tlb, owned, faults>>

(* vmm_unmap does nothing if there is no page table.  invlpg takes an address,
   and drops its translation whichever directory is loaded. *)
Unmap(d, i, j) ==
  /\ present(dirs[d][i])
  /\ memory' = [memory EXCEPT ![dirs[d][i].frame][j] = Zero]
  /\ wanted' = [wanted EXCEPT ![d][i][j] = Zero]
  /\ tlb' = [tlb EXCEPT ![i][j] = Zero]
  /\ remapped' = remapped \ {<<i, j>>}
  /\ UNCHANGED <<pmmVars, dirs, made, cr3, owned, faults>>

-----------------------------------------------------------------------------
(* The processor. *)

(* It looks a page up at any time, and keeps only what is present. *)
LookUp(i, j) ==
  /\ present(walk(cr3, i, j))
  /\ tlb' = [tlb EXCEPT ![i][j] = walk(cr3, i, j)]
  /\ remapped' = remapped \ {<<i, j>>}
  /\ UNCHANGED <<pmmVars, tables, cr3, owned, faults>>

(* A store to CR3 empties the translation buffer. *)
vmm_switch_directory(d) ==
  /\ cr3' = d
  /\ tlb' = [i \in PD |-> [j \in PT |-> Zero]]
  /\ remapped' = {}
  /\ UNCHANGED <<pmmVars, tables, owned, faults>>

-----------------------------------------------------------------------------
Next ==
  \/ \E c \in Clients : Take(c) \/ \E f \in Frame : GiveBack(c, f)
  \/ \E d \in Dirs, i \in PD, j \in PT :
       \/ \E e \in Mappings : Map(d, i, j, e) \/ MapNewTable(d, i, j, e)
       \/ Unmap(d, i, j)
  \/ \E i \in PD, j \in PT : LookUp(i, j)
  \/ \E d \in Dirs : vmm_switch_directory(d)

Spec == Init /\ [][Next]_vars

-----------------------------------------------------------------------------
(* Properties. *)

(* The variables stay in their types. *)
TypeOK ==
  /\ frame_bitmap \subseteq Frame
  /\ free_frames \in 0 .. (first_frame + total_frames)
  /\ dirs \in [Dirs -> [PD -> [frame : Frame, flags : SUBSET Flag]]]
  /\ memory \in [Frame -> [PT -> Entry]]
  /\ cr3 \in Dirs
  /\ tlb \in [PD -> [PT -> Entry]]
  /\ owned \in [Clients -> SUBSET Managed]
  /\ wanted \in [Dirs -> [PD -> [PT -> Entry]]]
  /\ made \in [Dirs -> [PD -> SUBSET Flag]]
  /\ remapped \subseteq PD \X PT
  /\ exhausted \in BOOLEAN /\ misused \in BOOLEAN

(* The count agrees with the bitmap, whatever is freed in which order: frames
   freed twice, others' frames, NULL and the frames that pmm_init has reserved. *)
CountExact == free_frames = Cardinality(Frame \ frame_bitmap)

Orderly == ~exhausted /\ ~misused

(* As long as clients free only what they have or what is free, and vmm_map gets
   its frames, no frame has two users: it is one client's, or the page table of
   one entry of one directory, and its bit is set. *)
FramesUnshared ==
  Orderly =>
    /\ \A c \in Clients : owned[c] \subseteq frame_bitmap
    /\ \A b, c \in Clients : b # c => owned[b] \cap owned[c] = {}
    /\ \A d \in Dirs, i \in PD : present(dirs[d][i]) =>
         /\ dirs[d][i].frame \in frame_bitmap \cap Managed
         /\ \A c \in Clients : dirs[d][i].frame \notin owned[c]
         /\ \A e \in Dirs, k \in PD :
              present(dirs[e][k]) /\ dirs[e][k].frame = dirs[d][i].frame => e = d /\ k = i

(* As long as that holds, the tables give every page the frame that was last asked
   for it, with no flag more than was asked for.  They give the flags too, but for
   PAGE_USER: that one only where the mapping that made the page table had it,
   which may have been another page's.  To map or unmap a page changes no other,
   and a fresh page table maps nothing else. *)
Translates ==
  Orderly => \A d \in Dirs, i \in PD, j \in PT :
    LET found == walk(d, i, j)
        asked == wanted[d][i][j]
    IN  /\ found.frame = asked.frame
        /\ found.flags \in {asked.flags, asked.flags \ {"user"}}
        /\ "user" \in made[d][i] => found.flags = asked.flags

(* What the processor keeps of a page is what the tables say of it, unless vmm_map
   has replaced a mapping that was there, which it does without invlpg.  Nothing
   else makes it stale: not vmm_unmap, not vmm_map of a page that was not mapped or
   of another directory, not a new page table, not another directory loaded. *)
StaleOnlyRemapped ==
  Orderly => \A i \in PD, j \in PT :
    present(tlb[i][j]) /\ <<i, j>> \notin remapped => tlb[i][j] = walk(cr3, i, j)

=============================================================================
