---------------------------- MODULE MemoryProofs ----------------------------
(* The memory of the kernel. For every size of memory and every set of page
   directories: the count of free frames is right, a frame has one user, a page is
   mapped to what was asked for it, and the processor knows of it but where vmm_map
   has replaced a mapping. For every size of the heap, of a header
   and of the requests: the list tiles the heap, the memory of every caller is its
   own, and a request fails only for want of a free piece that is large enough. *)
EXTENDS Paging, KHeap, FiniteSetTheorems, TLAPS

-----------------------------------------------------------------------------
(* The frame allocator and the page tables. *)

(* What the page tables hold, in full: each the entries that were asked for, and
   its directory's entry the flags of the mapping that made it. *)
TablesAsAsked ==
  Orderly => \A d \in Dirs, i \in PD :
    IF present(dirs[d][i])
    THEN /\ memory[dirs[d][i].frame] = wanted[d][i]
         /\ dirs[d][i].flags = {"present", "rw"} \cup made[d][i]
    ELSE wanted[d][i] = [j \in PT |-> Zero] /\ made[d][i] = {}

(* The inductive invariant: the allocator's count bounds free_frames, the users
   of the frames make page tables private, privacy makes a store to one page
   table invisible in the others, and so in the translations of other pages. *)
PagingInv == TypeOK /\ CountExact /\ FramesUnshared /\ TablesAsAsked /\ StaleOnlyRemapped

(* The page that the tables show for what was asked for. *)
granted(d, i, j) ==
  [frame |-> wanted[d][i][j].frame,
   flags |-> wanted[d][i][j].flags \cap ({"present", "rw"} \cup made[d][i])]

(* Memory has frames enough for what pmm_init hands out, and not for NULL. *)
LEMMA ManagedFacts ==
  /\ Managed \subseteq Frame /\ NoFrame \notin Managed /\ NoFrame \in Frame
  /\ IsFiniteSet(Frame) /\ Cardinality(Frame) = first_frame + total_frames
  /\ IsFiniteSet(Managed) /\ Cardinality(Managed) = total_frames
<1>1. IsFiniteSet(Managed) /\ Cardinality(Managed) = total_frames
  BY FramesAssumption, FS_Interval DEF Managed
<1>2. IsFiniteSet(Frame) /\ Cardinality(Frame) = first_frame + total_frames
  BY FramesAssumption, FS_Interval DEF Frame
<1> QED BY <1>1, <1>2, FramesAssumption DEF Managed, Frame, NoFrame

LEMMA EntryFacts ==
  /\ Zero \in Entry /\ ~present(Zero) /\ Mappings \subseteq Entry
  /\ \A f \in Frame, e \in Entry :
       /\ table_entry(f, e) \in [frame : Frame, flags : SUBSET Flag]
       /\ present(table_entry(f, e)) /\ table_entry(f, e).frame = f
       /\ table_entry(f, e).flags = {"present", "rw"} \cup e.flags
  /\ [frame : Frame, flags : SUBSET Flag] \subseteq Entry
<1>1. Frame \subseteq Nat
  BY FramesAssumption DEF Frame
<1> QED BY <1>1, PagingAssumption DEF Zero, Entry, present, table_entry, Flag

(* The tables grant what was asked for, of PAGE_USER what both mappings asked for. *)
WalksAsGranted ==
  Orderly => \A d \in Dirs, i \in PD, j \in PT :
    /\ walk(d, i, j) = granted(d, i, j)
    /\ granted(d, i, j) \in Entry
    /\ present(walk(d, i, j)) <=> present(dirs[d][i]) /\ present(wanted[d][i][j])

LEMMA WalkIsGranted == TypeOK /\ TablesAsAsked => WalksAsGranted
<1> SUFFICES ASSUME TypeOK, TablesAsAsked, Orderly, NEW d \in Dirs, NEW i \in PD, NEW j \in PT
             PROVE  /\ walk(d, i, j) = granted(d, i, j)
                    /\ granted(d, i, j) \in Entry
                    /\ present(walk(d, i, j))
                         <=> present(dirs[d][i]) /\ present(wanted[d][i][j])
  BY DEF WalksAsGranted
<1>1. wanted[d][i][j] \in Entry /\ dirs[d][i].frame \in Frame
  BY DEF TypeOK
<1>2. granted(d, i, j) \in Entry
  BY <1>1 DEF granted, Entry
<1>3. CASE present(dirs[d][i])
  <2>1. /\ memory[dirs[d][i].frame][j] = wanted[d][i][j]
        /\ dirs[d][i].flags = {"present", "rw"} \cup made[d][i]
    BY <1>3 DEF TablesAsAsked
  <2>2. walk(d, i, j) = granted(d, i, j)
    BY <1>1, <1>3, <2>1 DEF walk, granted, Entry
  <2>3. present(granted(d, i, j)) <=> present(wanted[d][i][j])
    BY DEF granted, present
  <2> QED BY <1>2, <1>3, <2>2, <2>3
<1>4. CASE ~present(dirs[d][i])
  <2>1. wanted[d][i][j] = Zero
    BY <1>4 DEF TablesAsAsked
  <2>2. granted(d, i, j) = Zero
    BY <2>1 DEF granted, Zero
  <2> QED BY <1>2, <1>4, <2>2, EntryFacts DEF walk
<1> QED BY <1>3, <1>4

(* The same after a step. *)
LEMMA WalkIsGrantedNext == TypeOK' /\ TablesAsAsked' => WalksAsGranted'
BY WalkIsGranted, PTL

(* pmm_alloc_frame hands out a frame whose bit was clear, and counts it, or
   hands out nothing and changes nothing. *)
LEMMA FrameTaken ==
  ASSUME TypeOK, CountExact, NEW f, pmm_alloc_frame(f)
  PROVE  /\ \/ /\ f \in Managed \ frame_bitmap
               /\ frame_bitmap' = frame_bitmap \cup {f}
            \/ f = NoFrame /\ frame_bitmap' = frame_bitmap
         /\ CountExact'
         /\ frame_bitmap' \subseteq Frame /\ free_frames' \in 0 .. (first_frame + total_frames)
<1>1. CASE UNCHANGED pmmVars /\ f = NoFrame
  BY <1>1 DEF TypeOK, CountExact, pmmVars
<1>2. CASE /\ free_frames > 0 /\ is_first_free(f)
           /\ frame_bitmap' = frame_bitmap \cup {f}
           /\ free_frames' = free_frames - 1
  <2>1. f \in Managed \ frame_bitmap /\ f \in Frame \ frame_bitmap
    BY <1>2, ManagedFacts DEF is_first_free
  <2>2. IsFiniteSet(Frame \ frame_bitmap)
    BY ManagedFacts, FS_Difference
  <2>3. Frame \ frame_bitmap' = (Frame \ frame_bitmap) \ {f}
    BY <1>2
  <2>4. Cardinality(Frame \ frame_bitmap') = Cardinality(Frame \ frame_bitmap) - 1
    BY <2>1, <2>2, <2>3, FS_RemoveElement
  <2> QED BY <1>2, <2>1, <2>4, FramesAssumption DEF TypeOK, CountExact
<1> QED BY <1>1, <1>2 DEF pmm_alloc_frame

(* pmm_free_frame clears the bit of a frame, whosever it is, and counts it only if
   the bit was set. *)
LEMMA FrameFreed ==
  ASSUME TypeOK, CountExact, NEW f \in Frame, pmm_free_frame(f)
  PROVE  /\ frame_bitmap' = frame_bitmap \ {f}
         /\ CountExact'
         /\ frame_bitmap' \subseteq Frame /\ free_frames' \in 0 .. (first_frame + total_frames)
<1>1. CASE f \notin frame_bitmap /\ UNCHANGED pmmVars
  BY <1>1 DEF TypeOK, CountExact, pmmVars
<1>2. CASE /\ f \in frame_bitmap
           /\ frame_bitmap' = frame_bitmap \ {f}
           /\ free_frames' = free_frames + 1
  <2>1. IsFiniteSet(Frame \ frame_bitmap) /\ f \notin Frame \ frame_bitmap
    BY <1>2, ManagedFacts, FS_Difference
  <2>2. Frame \ frame_bitmap' = (Frame \ frame_bitmap) \cup {f}
    BY <1>2
  <2>3. Cardinality(Frame \ frame_bitmap') = Cardinality(Frame \ frame_bitmap) + 1
    BY <2>1, <2>2, FS_AddElement
  <2>4. Cardinality(Frame \ frame_bitmap') <= first_frame + total_frames
    BY ManagedFacts, FS_Subset, Frame \ frame_bitmap' \in SUBSET Frame
  <2> QED BY <1>2, <2>3, <2>4, FramesAssumption DEF TypeOK, CountExact
<1> QED BY <1>1, <1>2 DEF pmm_free_frame

-----------------------------------------------------------------------------
(* pmm_init leaves every managed frame free and counted, and no page table. *)
LEMMA InitPaging == Init => PagingInv
<1> SUFFICES ASSUME Init PROVE PagingInv
  OBVIOUS
<1> USE DEF Init, pmm_init
<1>1. Frame \ frame_bitmap = Managed
  BY FramesAssumption DEF Managed, Frame
<1>2. CountExact
  BY <1>1, ManagedFacts DEF CountExact
<1>3. TypeOK
  <2>1. frame_bitmap \subseteq Frame /\ free_frames \in 0 .. (first_frame + total_frames)
    BY FramesAssumption DEF Frame
  <2>2. Zero \in [frame : Frame, flags : SUBSET Flag]
    BY FramesAssumption DEF Zero, Frame
  <2>3. dirs \in [Dirs -> [PD -> [frame : Frame, flags : SUBSET Flag]]]
    BY <2>2
  <2>4. memory \in [Frame -> [PT -> Entry]] /\ cr3 \in Dirs
    BY PagingAssumption
  <2>5. tlb \in [PD -> [PT -> Entry]] /\ wanted \in [Dirs -> [PD -> [PT -> Entry]]]
    BY EntryFacts
  <2>6. made \in [Dirs -> [PD -> SUBSET Flag]] /\ owned \in [Clients -> SUBSET Managed]
    OBVIOUS
  <2> QED BY <2>1, <2>3, <2>4, <2>5, <2>6 DEF TypeOK
<1>4. FramesUnshared
  BY EntryFacts DEF FramesUnshared
<1>5. TablesAsAsked
  BY EntryFacts DEF TablesAsAsked
<1>6. StaleOnlyRemapped
  BY EntryFacts DEF StaleOnlyRemapped
<1> QED BY <1>2, <1>3, <1>4, <1>5, <1>6 DEF PagingInv

(* A step that leaves tables and processor alone leaves what they say alone. *)
LEMMA TablesKept ==
  ASSUME PagingInv, UNCHANGED <<tables, processor>>, Orderly' => Orderly
  PROVE  TablesAsAsked' /\ StaleOnlyRemapped'
<1>1. /\ dirs' = dirs /\ memory' = memory /\ wanted' = wanted /\ made' = made
      /\ cr3' = cr3 /\ tlb' = tlb /\ remapped' = remapped
  BY DEF tables, processor
<1>2. \A i \in PD, j \in PT : walk(cr3, i, j)' = walk(cr3, i, j)
  BY <1>1 DEF walk
<1>3. TablesAsAsked'
  BY <1>1 DEF PagingInv, TablesAsAsked
<1> QED BY <1>1, <1>2, <1>3 DEF PagingInv, StaleOnlyRemapped

(* A client takes a frame: nobody had it. *)
LEMMA TakeStep ==
  ASSUME PagingInv, NEW c \in Clients, Take(c)
  PROVE  PagingInv'
<1>1. PICK f \in Managed : pmm_alloc_frame(f) /\ owned' = [owned EXCEPT ![c] = @ \cup {f}]
  BY DEF Take
<1>2. /\ UNCHANGED <<tables, processor>> /\ exhausted' = exhausted /\ misused' = misused
      /\ dirs' = dirs
  BY DEF Take, faults, tables
<1>3. /\ f \notin frame_bitmap /\ frame_bitmap' = frame_bitmap \cup {f}
      /\ CountExact' /\ frame_bitmap' \subseteq Frame
      /\ free_frames' \in 0 .. (first_frame + total_frames)
  BY <1>1, FrameTaken, ManagedFacts DEF PagingInv
<1>4. owned' \in [Clients -> SUBSET Managed] /\ owned \in [Clients -> SUBSET Managed]
  BY <1>1 DEF PagingInv, TypeOK
<1>5. TypeOK'
  BY <1>2, <1>3, <1>4 DEF PagingInv, TypeOK, tables, processor
<1>6. TablesAsAsked' /\ StaleOnlyRemapped'
  BY <1>2, TablesKept DEF Orderly
<1>7. \A b \in Clients : owned'[b] = IF b = c THEN owned[b] \cup {f} ELSE owned[b]
  BY <1>1, <1>4
<1>8. FramesUnshared'
  <2> SUFFICES ASSUME Orderly' PROVE FramesUnshared'
    BY DEF FramesUnshared
  <2>1. Orderly
    BY <1>2 DEF Orderly
  <2>2. /\ \A b \in Clients : owned[b] \subseteq frame_bitmap
        /\ \A b, e \in Clients : b # e => owned[b] \cap owned[e] = {}
        /\ \A d \in Dirs, i \in PD : present(dirs[d][i]) =>
             /\ dirs[d][i].frame \in frame_bitmap \cap Managed
             /\ \A b \in Clients : dirs[d][i].frame \notin owned[b]
    BY <2>1 DEF PagingInv, FramesUnshared
  <2>3. \A b, e \in Clients : b # e => owned'[b] \cap owned'[e] = {}
    BY <1>3, <1>7, <2>2
  <2>4. \A b \in Clients : owned'[b] \subseteq frame_bitmap'
    BY <1>3, <1>7, <2>2
  <2>5. ASSUME NEW d \in Dirs, NEW i \in PD, present(dirs[d][i])
        PROVE  /\ dirs[d][i].frame \in frame_bitmap' \cap Managed
               /\ \A b \in Clients : dirs[d][i].frame \notin owned'[b]
    <3>1. dirs[d][i].frame \in frame_bitmap \cap Managed /\ dirs[d][i].frame # f
      BY <1>3, <2>2, <2>5
    <3>2. \A b \in Clients : dirs[d][i].frame \notin owned[b]
      BY <2>2, <2>5
    <3> QED BY <1>3, <1>7, <3>1, <3>2
  <2> QED BY <1>2, <2>1, <2>3, <2>4, <2>5 DEF PagingInv, FramesUnshared
<1> QED BY <1>3, <1>5, <1>6, <1>8 DEF PagingInv

(* A client gives a frame back, or frees one that nobody has: it is nobody else's
   and the page table of no directory. *)
LEMMA GiveBackStep ==
  ASSUME PagingInv, NEW c \in Clients, NEW f \in Frame, GiveBack(c, f)
  PROVE  PagingInv'
<1>1. /\ UNCHANGED <<tables, processor>> /\ exhausted' = exhausted /\ dirs' = dirs
      /\ owned' = [owned EXCEPT ![c] = @ \ {f}]
      /\ misused' = (misused \/ f \in frame_bitmap \ owned[c])
  BY DEF GiveBack, tables
<1>2. /\ frame_bitmap' = frame_bitmap \ {f}
      /\ CountExact' /\ frame_bitmap' \subseteq Frame
      /\ free_frames' \in 0 .. (first_frame + total_frames)
  BY FrameFreed DEF PagingInv, GiveBack
<1>3. owned' \in [Clients -> SUBSET Managed] /\ owned \in [Clients -> SUBSET Managed]
  BY <1>1 DEF PagingInv, TypeOK
<1>4. misused' \in BOOLEAN
  BY <1>1 DEF PagingInv, TypeOK
<1>5. TypeOK'
  BY <1>1, <1>2, <1>3, <1>4 DEF PagingInv, TypeOK, tables, processor
<1>6. Orderly' => Orderly /\ (f \in owned[c] \/ f \notin frame_bitmap)
  BY <1>1 DEF Orderly
<1>7. TablesAsAsked' /\ StaleOnlyRemapped'
  BY <1>1, <1>6, TablesKept
<1>8. \A b \in Clients : owned'[b] = IF b = c THEN owned[b] \ {f} ELSE owned[b]
  BY <1>1, <1>3
<1>9. FramesUnshared'
  <2> SUFFICES ASSUME Orderly' PROVE FramesUnshared'
    BY DEF FramesUnshared
  <2>1. /\ \A b \in Clients : owned[b] \subseteq frame_bitmap
        /\ \A b, e \in Clients : b # e => owned[b] \cap owned[e] = {}
        /\ \A d \in Dirs, i \in PD : present(dirs[d][i]) =>
             /\ dirs[d][i].frame \in frame_bitmap \cap Managed
             /\ \A b \in Clients : dirs[d][i].frame \notin owned[b]
    BY <1>6 DEF PagingInv, FramesUnshared
  <2>2. \A b, e \in Clients : b # e => owned'[b] \cap owned'[e] = {}
    BY <1>8, <2>1
  <2>3. \A b \in Clients : owned'[b] \subseteq frame_bitmap'
    BY <1>2, <1>6, <1>8, <2>1
  <2>4. ASSUME NEW d \in Dirs, NEW i \in PD, present(dirs[d][i])
        PROVE  /\ dirs[d][i].frame \in frame_bitmap' \cap Managed
               /\ \A b \in Clients : dirs[d][i].frame \notin owned'[b]
    <3>1. /\ dirs[d][i].frame \in frame_bitmap \cap Managed
          /\ \A b \in Clients : dirs[d][i].frame \notin owned[b]
      BY <2>1, <2>4
    <3>2. dirs[d][i].frame # f
      BY <1>6, <3>1
    <3> QED BY <1>2, <1>8, <3>1, <3>2
  <2> QED BY <1>1, <1>6, <2>2, <2>3, <2>4 DEF PagingInv, FramesUnshared
<1> QED BY <1>2, <1>5, <1>7, <1>9 DEF PagingInv

(* The processor knows of the other pages what it knew. *)
OthersKept(i, j) ==
  \A k \in PD, l \in PT : <<k, l>> # <<i, j>> =>
    /\ tlb'[k][l] = tlb[k][l]
    /\ (<<k, l>> \in remapped' <=> <<k, l>> \in remapped)

(* A store to an entry of a page table that is there.  The processor has dropped
   the page, or the page was not mapped, or it counts as remapped, or the loaded
   directory is another. *)
LEMMA StoreStep ==
  ASSUME PagingInv, NEW d \in Dirs, NEW i \in PD, NEW j \in PT, NEW e \in Entry,
         present(dirs[d][i]),
         memory' = [memory EXCEPT ![dirs[d][i].frame][j] = e],
         wanted' = [wanted EXCEPT ![d][i][j] = e],
         UNCHANGED <<pmmVars, dirs, made, cr3, owned, faults>>,
         tlb' \in [PD -> [PT -> Entry]], remapped' \subseteq PD \X PT,
         OthersKept(i, j),
         present(tlb'[i][j]) =>
           /\ tlb' = tlb /\ remapped \subseteq remapped'
           /\ d = cr3 => (present(walk(d, i, j)) => <<i, j>> \in remapped')
  PROVE  PagingInv'
<1>1. /\ frame_bitmap' = frame_bitmap /\ free_frames' = free_frames /\ dirs' = dirs
      /\ made' = made /\ cr3' = cr3 /\ owned' = owned
      /\ exhausted' = exhausted /\ misused' = misused /\ (Orderly' <=> Orderly)
  BY DEF pmmVars, faults, Orderly
<1>2. /\ dirs \in [Dirs -> [PD -> [frame : Frame, flags : SUBSET Flag]]]
      /\ memory \in [Frame -> [PT -> Entry]]
      /\ wanted \in [Dirs -> [PD -> [PT -> Entry]]]
      /\ cr3 \in Dirs
  BY DEF PagingInv, TypeOK
<1>3. TypeOK'
  <2>1. memory' \in [Frame -> [PT -> Entry]]
    BY <1>2
  <2>2. wanted' \in [Dirs -> [PD -> [PT -> Entry]]]
    BY <1>2
  <2> QED BY <1>1, <2>1, <2>2 DEF PagingInv, TypeOK
<1>4. CountExact'
  BY <1>1 DEF PagingInv, CountExact
<1>5. FramesUnshared'
  BY <1>1 DEF PagingInv, FramesUnshared
<1>6. \A g \in Dirs, k \in PD, l \in PT :
        wanted'[g][k][l] = IF g = d /\ k = i /\ l = j THEN e ELSE wanted[g][k][l]
  BY <1>2
<1>7. TablesAsAsked'
  <2> SUFFICES ASSUME Orderly, NEW g \in Dirs, NEW k \in PD
               PROVE  IF present(dirs[g][k])
                      THEN /\ memory'[dirs[g][k].frame] = wanted'[g][k]
                           /\ dirs[g][k].flags = {"present", "rw"} \cup made[g][k]
                      ELSE wanted'[g][k] = [l \in PT |-> Zero] /\ made[g][k] = {}
    BY <1>1 DEF TablesAsAsked
  <2>1. IF present(dirs[g][k])
        THEN /\ memory[dirs[g][k].frame] = wanted[g][k]
             /\ dirs[g][k].flags = {"present", "rw"} \cup made[g][k]
        ELSE wanted[g][k] = [l \in PT |-> Zero] /\ made[g][k] = {}
    BY DEF PagingInv, TablesAsAsked
  <2>2. present(dirs[g][k]) /\ dirs[g][k].frame = dirs[d][i].frame => g = d /\ k = i
    BY DEF PagingInv, FramesUnshared
  <2>3. dirs[g][k].frame \in Frame /\ dirs[d][i].frame \in Frame
    BY <1>2
  <2>4. CASE g = d /\ k = i
    <3>1. wanted'[g][k] = [wanted[g][k] EXCEPT ![j] = e]
      BY <1>2, <2>4
    <3>2. memory'[dirs[g][k].frame] = [memory[dirs[g][k].frame] EXCEPT ![j] = e]
      BY <1>2, <2>3, <2>4
    <3> QED BY <2>1, <2>4, <3>1, <3>2
  <2>5. CASE ~(g = d /\ k = i)
    <3>1. wanted'[g][k] = wanted[g][k]
      BY <1>2, <2>5
    <3>2. present(dirs[g][k]) => memory'[dirs[g][k].frame] = memory[dirs[g][k].frame]
      BY <1>2, <2>2, <2>3, <2>5
    <3> QED BY <2>1, <3>1, <3>2
  <2> QED BY <2>4, <2>5
<1>8. StaleOnlyRemapped'
  <2> SUFFICES ASSUME Orderly', NEW k \in PD, NEW l \in PT,
                      present(tlb'[k][l]), <<k, l>> \notin remapped'
               PROVE  tlb'[k][l] = walk(cr3, k, l)'
    BY DEF StaleOnlyRemapped
  <2>1. Orderly
    BY <1>1
  <2>2. walk(cr3, k, l) = granted(cr3, k, l) /\ walk(cr3, k, l)' = granted(cr3, k, l)'
    <3>1. WalksAsGranted /\ WalksAsGranted' /\ cr3' \in Dirs
      BY <1>1, <1>2, <1>3, <1>7, WalkIsGranted, WalkIsGrantedNext DEF PagingInv
    <3> QED BY <1>2, <2>1, <3>1 DEF WalksAsGranted
  <2>3. present(tlb[k][l]) /\ <<k, l>> \notin remapped => tlb[k][l] = granted(cr3, k, l)
    BY <2>1, <2>2 DEF PagingInv, StaleOnlyRemapped
  <2>4. ~(cr3 = d /\ <<k, l>> = <<i, j>>) => granted(cr3, k, l)' = granted(cr3, k, l)
    <3> SUFFICES ASSUME ~(cr3 = d /\ <<k, l>> = <<i, j>>)
                 PROVE  granted(cr3, k, l)' = granted(cr3, k, l)
      OBVIOUS
    <3>1. wanted'[cr3][k][l] = wanted[cr3][k][l]
      BY <1>2, <1>6
    <3> QED BY <1>1, <3>1 DEF granted
  <2>5. CASE <<k, l>> # <<i, j>>
    BY <2>2, <2>3, <2>4, <2>5 DEF OthersKept
  <2>6. CASE <<k, l>> = <<i, j>>
    <3>1. tlb' = tlb /\ <<k, l>> \notin remapped /\ tlb[k][l] = granted(cr3, k, l)
      BY <2>3, <2>6
    <3>2. cr3 # d
      BY <2>2, <2>6, <3>1
    <3> QED BY <2>2, <2>4, <3>1, <3>2
  <2> QED BY <2>5, <2>6
<1> QED BY <1>3, <1>4, <1>5, <1>7, <1>8 DEF PagingInv

(* A page table is added to a directory.  If the frame is not NULL nobody had
   it, and its other entries map nothing. *)
LEMMA NewTableStep ==
  ASSUME PagingInv, NEW d \in Dirs, NEW i \in PD, NEW j \in PT, NEW e \in Mappings,
         MapNewTable(d, i, j, e)
  PROVE  PagingInv'
<1>1. PICK f \in Frame :
        /\ pmm_alloc_frame(f)
        /\ dirs' = [dirs EXCEPT ![d][i] = table_entry(f, e)]
        /\ memory' = [memory EXCEPT ![f] = new_table(f, j, e)]
        /\ exhausted' = (exhausted \/ f = NoFrame)
  BY DEF MapNewTable
<1>2. /\ ~present(dirs[d][i]) /\ owned' = owned /\ misused' = misused
      /\ cr3' = cr3 /\ tlb' = tlb /\ remapped' = remapped
      /\ wanted' = [wanted EXCEPT ![d][i][j] = e]
      /\ made' = [made EXCEPT ![d][i] = e.flags]
  BY DEF MapNewTable, processor
<1>3. /\ \/ f \in Managed \ frame_bitmap /\ frame_bitmap' = frame_bitmap \cup {f}
         \/ f = NoFrame /\ frame_bitmap' = frame_bitmap
      /\ CountExact' /\ frame_bitmap' \subseteq Frame
      /\ free_frames' \in 0 .. (first_frame + total_frames)
  BY <1>1, FrameTaken DEF PagingInv
<1>4. /\ dirs \in [Dirs -> [PD -> [frame : Frame, flags : SUBSET Flag]]]
      /\ memory \in [Frame -> [PT -> Entry]]
      /\ wanted \in [Dirs -> [PD -> [PT -> Entry]]]
      /\ made \in [Dirs -> [PD -> SUBSET Flag]]
      /\ e \in Entry /\ Zero \in Entry /\ e.flags \in SUBSET Flag /\ cr3 \in Dirs
  BY EntryFacts DEF PagingInv, TypeOK, Entry
<1>5. /\ table_entry(f, e) \in [frame : Frame, flags : SUBSET Flag]
      /\ present(table_entry(f, e)) /\ table_entry(f, e).frame = f
      /\ table_entry(f, e).flags = {"present", "rw"} \cup e.flags
  BY <1>4, EntryFacts
<1>6. TypeOK'
  <2>1. dirs' \in [Dirs -> [PD -> [frame : Frame, flags : SUBSET Flag]]]
    BY <1>1, <1>4, <1>5
  <2>2. memory' \in [Frame -> [PT -> Entry]]
    BY <1>1, <1>4 DEF new_table
  <2>3. wanted' \in [Dirs -> [PD -> [PT -> Entry]]] /\ made' \in [Dirs -> [PD -> SUBSET Flag]]
    BY <1>2, <1>4
  <2>4. exhausted' \in BOOLEAN
    BY <1>1
  <2> QED BY <1>2, <1>3, <2>1, <2>2, <2>3, <2>4 DEF PagingInv, TypeOK
<1>7. CASE ~Orderly'
  BY <1>3, <1>6, <1>7 DEF PagingInv, FramesUnshared, TablesAsAsked, StaleOnlyRemapped
<1>8. CASE Orderly'
  <2>1. /\ Orderly /\ f \in Managed \ frame_bitmap /\ frame_bitmap' = frame_bitmap \cup {f}
    BY <1>1, <1>2, <1>3, <1>8 DEF Orderly
  <2>2. \A g \in Dirs, k \in PD :
          dirs'[g][k] = IF g = d /\ k = i THEN table_entry(f, e) ELSE dirs[g][k]
    BY <1>1, <1>4
  <2>3. \A g \in Dirs, k \in PD : present(dirs[g][k]) => dirs[g][k].frame # f
    BY <2>1 DEF PagingInv, FramesUnshared
  <2>4. FramesUnshared'
    <3>1. \A b \in Clients : owned[b] \subseteq frame_bitmap'
      BY <2>1 DEF PagingInv, FramesUnshared
    <3>2. \A b \in Clients : f \notin owned[b]
      BY <2>1 DEF PagingInv, FramesUnshared
    <3>3. ASSUME NEW g \in Dirs, NEW k \in PD, present(dirs'[g][k])
          PROVE  /\ dirs'[g][k].frame \in frame_bitmap' \cap Managed
                 /\ \A b \in Clients : dirs'[g][k].frame \notin owned[b]
      <4>1. CASE g = d /\ k = i
        BY <1>5, <2>1, <2>2, <3>2, <4>1
      <4>2. CASE ~(g = d /\ k = i)
        BY <2>1, <2>2, <3>3, <4>2 DEF PagingInv, FramesUnshared
      <4> QED BY <4>1, <4>2
    <3>4. ASSUME NEW g \in Dirs, NEW k \in PD, NEW h \in Dirs, NEW l \in PD,
                 present(dirs'[g][k]), present(dirs'[h][l]),
                 dirs'[h][l].frame = dirs'[g][k].frame
          PROVE  h = g /\ l = k
      <4>1. \A p \in Dirs, q \in PD : ~(p = d /\ q = i) => dirs'[p][q] = dirs[p][q]
        BY <2>2
      <4>2. dirs'[d][i].frame = f
        BY <1>5, <2>2
      <4>3. ~(g = d /\ k = i) => dirs'[g][k].frame # f
        BY <2>3, <3>4, <4>1
      <4>4. ~(h = d /\ l = i) => dirs'[h][l].frame # f
        BY <2>3, <3>4, <4>1
      <4> QED BY <2>1, <3>4, <4>1, <4>2, <4>3, <4>4 DEF PagingInv, FramesUnshared
    <3> QED BY <1>2, <3>1, <3>3, <3>4, <2>1 DEF PagingInv, FramesUnshared
  <2>5. ASSUME NEW g \in Dirs, NEW k \in PD
        PROVE  IF present(dirs'[g][k])
               THEN /\ memory'[dirs'[g][k].frame] = wanted'[g][k]
                    /\ dirs'[g][k].flags = {"present", "rw"} \cup made'[g][k]
               ELSE wanted'[g][k] = [l \in PT |-> Zero] /\ made'[g][k] = {}
    <3>1. IF present(dirs[g][k])
          THEN /\ memory[dirs[g][k].frame] = wanted[g][k]
               /\ dirs[g][k].flags = {"present", "rw"} \cup made[g][k]
          ELSE wanted[g][k] = [l \in PT |-> Zero] /\ made[g][k] = {}
      BY <2>1 DEF PagingInv, TablesAsAsked
    <3>2. CASE g = d /\ k = i
      <4>1. memory'[f] = [l \in PT |-> IF l = j THEN e ELSE Zero]
        BY <1>1, <1>4 DEF new_table
      <4>2. wanted'[d][i] = [[l \in PT |-> Zero] EXCEPT ![j] = e] /\ made'[d][i] = e.flags
        BY <1>2, <1>4, <3>1, <3>2
      <4>3. memory'[f] = wanted'[d][i]
        BY <4>1, <4>2
      <4> QED BY <1>5, <2>2, <3>2, <4>2, <4>3
    <3>3. CASE ~(g = d /\ k = i)
      <4>1. /\ wanted'[g][k] = wanted[g][k] /\ dirs'[g][k] = dirs[g][k]
            /\ made'[g][k] = made[g][k]
        BY <1>2, <1>4, <2>2, <3>3
      <4>2. present(dirs[g][k]) => memory'[dirs[g][k].frame] = memory[dirs[g][k].frame]
        BY <1>1, <1>4, <2>3
      <4> QED BY <3>1, <4>1, <4>2
    <3> QED BY <3>2, <3>3
  <2>6. TablesAsAsked'
    BY <2>5 DEF TablesAsAsked
  <2>7. StaleOnlyRemapped'
    <3> SUFFICES ASSUME NEW k \in PD, NEW l \in PT, present(tlb[k][l]), <<k, l>> \notin remapped
                 PROVE  tlb[k][l] = walk(cr3, k, l)'
      BY <1>2 DEF StaleOnlyRemapped
    <3>1. WalksAsGranted /\ WalksAsGranted'
      BY <1>6, <2>6, WalkIsGranted, WalkIsGrantedNext DEF PagingInv
    <3>2. tlb[k][l] = walk(cr3, k, l)
      BY <2>1 DEF PagingInv, StaleOnlyRemapped
    <3>3. present(dirs[cr3][k]) /\ walk(cr3, k, l) = granted(cr3, k, l)
      BY <1>4, <2>1, <3>1, <3>2 DEF WalksAsGranted
    <3>4. ~(cr3 = d /\ k = i)
      BY <1>2, <3>3
    <3>5. wanted'[cr3][k] = wanted[cr3][k] /\ made'[cr3][k] = made[cr3][k]
      BY <1>2, <1>4, <3>4
    <3>6. walk(cr3, k, l)' = granted(cr3, k, l)'
      BY <1>2, <1>4, <1>8, <3>1 DEF WalksAsGranted
    <3>7. granted(cr3, k, l)' = granted(cr3, k, l)
      BY <1>2, <3>5 DEF granted
    <3> QED BY <3>2, <3>3, <3>6, <3>7
  <2> QED BY <1>3, <1>6, <2>4, <2>6, <2>7 DEF PagingInv
<1> QED BY <1>7, <1>8

(* The processor looks a page up, or begins with another directory. *)
LEMMA ProcessorStep ==
  ASSUME PagingInv, UNCHANGED <<pmmVars, tables, owned, faults>>, cr3' \in Dirs,
         tlb' \in [PD -> [PT -> Entry]], remapped' \subseteq PD \X PT,
         Orderly => \A k \in PD, l \in PT : present(tlb'[k][l]) /\ <<k, l>> \notin remapped'
                                      => tlb'[k][l] = walk(cr3', k, l)
  PROVE  PagingInv'
<1>1. /\ frame_bitmap' = frame_bitmap /\ free_frames' = free_frames /\ owned' = owned
      /\ dirs' = dirs /\ memory' = memory /\ wanted' = wanted /\ made' = made
      /\ exhausted' = exhausted /\ misused' = misused /\ (Orderly' <=> Orderly)
  BY DEF pmmVars, tables, faults, Orderly
<1>2. TypeOK' /\ CountExact'
  BY <1>1 DEF PagingInv, TypeOK, CountExact
<1>3. FramesUnshared' /\ TablesAsAsked'
  BY <1>1 DEF PagingInv, FramesUnshared, TablesAsAsked
<1>4. \A k \in PD, l \in PT : walk(cr3, k, l)' = walk(cr3', k, l)
  BY <1>1 DEF walk
<1>5. StaleOnlyRemapped'
  BY <1>1, <1>4 DEF StaleOnlyRemapped
<1> QED BY <1>2, <1>3, <1>5 DEF PagingInv

LEMMA LookUpStep ==
  ASSUME PagingInv, NEW i \in PD, NEW j \in PT, LookUp(i, j)
  PROVE  PagingInv'
<1>1. /\ UNCHANGED <<pmmVars, tables, owned, faults>> /\ cr3' = cr3
      /\ tlb' = [tlb EXCEPT ![i][j] = walk(cr3, i, j)] /\ remapped' = remapped \ {<<i, j>>}
  BY DEF LookUp
<1>2. cr3 \in Dirs /\ tlb \in [PD -> [PT -> Entry]] /\ remapped \subseteq PD \X PT
  BY DEF PagingInv, TypeOK
<1>3. walk(cr3, i, j) \in Entry
  <2>1. dirs[cr3][i] \in [frame : Frame, flags : SUBSET Flag]
    BY <1>2 DEF PagingInv, TypeOK
  <2>2. memory[dirs[cr3][i].frame][j] \in Entry
    BY <2>1 DEF PagingInv, TypeOK
  <2> QED BY <2>1, <2>2, EntryFacts DEF walk, Entry
<1>4. tlb' \in [PD -> [PT -> Entry]]
  BY <1>1, <1>2, <1>3
<1>5. \A k \in PD, l \in PT :
        tlb'[k][l] = IF <<k, l>> = <<i, j>> THEN walk(cr3, i, j) ELSE tlb[k][l]
  BY <1>1, <1>2
<1>6. Orderly => \A k \in PD, l \in PT : present(tlb'[k][l]) /\ <<k, l>> \notin remapped'
                                    => tlb'[k][l] = walk(cr3', k, l)
  BY <1>1, <1>5 DEF PagingInv, StaleOnlyRemapped
<1> QED BY <1>1, <1>2, <1>4, <1>6, ProcessorStep

LEMMA SwitchStep ==
  ASSUME PagingInv, NEW d \in Dirs, vmm_switch_directory(d)
  PROVE  PagingInv'
<1>1. /\ UNCHANGED <<pmmVars, tables, owned, faults>> /\ cr3' = d
      /\ tlb' = [i \in PD |-> [j \in PT |-> Zero]] /\ remapped' = {}
  BY DEF vmm_switch_directory
<1>2. tlb' \in [PD -> [PT -> Entry]]
  BY <1>1, EntryFacts
<1>3. \A k \in PD, l \in PT : ~present(tlb'[k][l])
  BY <1>1, EntryFacts
<1> QED BY <1>1, <1>2, <1>3, ProcessorStep

LEMMA MapStep ==
  ASSUME PagingInv, NEW d \in Dirs, NEW i \in PD, NEW j \in PT, NEW e \in Mappings,
         Map(d, i, j, e)
  PROVE  PagingInv'
<1>1. /\ present(dirs[d][i]) /\ memory' = [memory EXCEPT ![dirs[d][i].frame][j] = e]
      /\ wanted' = [wanted EXCEPT ![d][i][j] = e]
      /\ remapped' = IF d = cr3 /\ present(walk(d, i, j))
                     THEN remapped \cup {<<i, j>>} ELSE remapped
      /\ UNCHANGED <<pmmVars, dirs, made, cr3, tlb, owned, faults>>
  BY DEF Map
<1>2. e \in Entry /\ tlb \in [PD -> [PT -> Entry]] /\ remapped \subseteq PD \X PT
  BY EntryFacts DEF PagingInv, TypeOK
<1>3. /\ remapped' \subseteq PD \X PT /\ remapped \subseteq remapped'
      /\ d = cr3 => (present(walk(d, i, j)) => <<i, j>> \in remapped')
  BY <1>1, <1>2
<1>4. OthersKept(i, j)
  BY <1>1, <1>2 DEF OthersKept
<1> QED BY <1>1, <1>2, <1>3, <1>4, StoreStep

LEMMA UnmapStep ==
  ASSUME PagingInv, NEW d \in Dirs, NEW i \in PD, NEW j \in PT, Unmap(d, i, j)
  PROVE  PagingInv'
<1>1. PICK e \in Entry : e = Zero
  BY EntryFacts
<1>4. /\ present(dirs[d][i]) /\ memory' = [memory EXCEPT ![dirs[d][i].frame][j] = e]
      /\ wanted' = [wanted EXCEPT ![d][i][j] = e]
      /\ UNCHANGED <<pmmVars, dirs, made, cr3, owned, faults>>
  BY <1>1 DEF Unmap
<1>2. tlb' = [tlb EXCEPT ![i][j] = Zero] /\ remapped' = remapped \ {<<i, j>>}
  BY DEF Unmap
<1>3. tlb \in [PD -> [PT -> Entry]] /\ remapped \subseteq PD \X PT
  BY DEF PagingInv, TypeOK
<1>5. tlb' \in [PD -> [PT -> Entry]] /\ ~present(tlb'[i][j]) /\ remapped' \subseteq PD \X PT
  BY <1>2, <1>3, EntryFacts
<1>6. OthersKept(i, j)
  BY <1>2, <1>3 DEF OthersKept
<1>7. present(tlb'[i][j]) =>
        /\ tlb' = tlb /\ remapped \subseteq remapped'
        /\ d = cr3 => (present(walk(d, i, j)) => <<i, j>> \in remapped')
  BY <1>5
<1> QED BY <1>4, <1>5, <1>6, <1>7, StoreStep

(* Every step keeps the invariant. *)
LEMMA PagingStep == PagingInv /\ [Next]_vars => PagingInv'
<1> SUFFICES ASSUME PagingInv, [Next]_vars PROVE PagingInv'
  OBVIOUS
<1>1. CASE UNCHANGED vars
  <2>1. UNCHANGED <<tables, processor, owned, pmmVars, faults>>
    BY <1>1 DEF vars
  <2>2. TablesAsAsked' /\ StaleOnlyRemapped'
    BY <2>1, TablesKept DEF Orderly, faults
  <2>3. TypeOK' /\ CountExact' /\ FramesUnshared'
    BY <2>1 DEF tables, processor, pmmVars, faults, PagingInv, TypeOK, CountExact,
       FramesUnshared, Orderly
  <2> QED BY <2>2, <2>3 DEF PagingInv
<1>2. ASSUME NEW c \in Clients, Take(c) PROVE PagingInv'
  BY <1>2, TakeStep
<1>3. ASSUME NEW c \in Clients, NEW f \in Frame, GiveBack(c, f) PROVE PagingInv'
  BY <1>3, GiveBackStep
<1>4. ASSUME NEW d \in Dirs, NEW i \in PD, NEW j \in PT, NEW e \in Mappings,
             Map(d, i, j, e) \/ MapNewTable(d, i, j, e)
      PROVE  PagingInv'
  BY <1>4, MapStep, NewTableStep
<1>5. ASSUME NEW d \in Dirs, NEW i \in PD, NEW j \in PT, Unmap(d, i, j)
      PROVE  PagingInv'
  BY <1>5, UnmapStep
<1>6. ASSUME NEW i \in PD, NEW j \in PT, LookUp(i, j) PROVE PagingInv'
  BY <1>6, LookUpStep
<1>7. ASSUME NEW d \in Dirs, vmm_switch_directory(d) PROVE PagingInv'
  BY <1>7, SwitchStep
<1> QED BY <1>1, <1>2, <1>3, <1>4, <1>5, <1>6, <1>7 DEF Next

-----------------------------------------------------------------------------
(* The invariant holds at every moment. *)
THEOREM PagingAlways == Spec => []PagingInv
BY InitPaging, PagingStep, PTL DEF Spec

(* free_frames never under- or overflows, and no page table or client's frame
   lies outside memory, whatever is freed. *)
THEOREM TypeCorrect == Spec => []TypeOK
BY PagingAlways, PTL DEF PagingInv

(* The count of pmm.c agrees with its bitmap, whatever is freed: double frees, NULL
   and reserved frames included. *)
THEOREM FramesCounted == Spec => []CountExact
BY PagingAlways, PTL DEF PagingInv

(* No frame has two clients, or is a client's and a page table, or two page tables,
   until vmm_map has been handed NULL or a client has freed what it did not have. *)
THEOREM FramesStayUnshared == Spec => []FramesUnshared
BY PagingAlways, PTL DEF PagingInv

(* Until then the tables give every page the frame and the flags last asked for,
   PAGE_USER excepted where the page table was made for a mapping without it. *)
THEOREM PagesTranslate == Spec => []Translates
<1>1. PagingInv => Translates
  <2> SUFFICES ASSUME PagingInv, Orderly, NEW d \in Dirs, NEW i \in PD, NEW j \in PT
               PROVE  /\ walk(d, i, j).frame = wanted[d][i][j].frame
                      /\ walk(d, i, j).flags
                           \in {wanted[d][i][j].flags, wanted[d][i][j].flags \ {"user"}}
                      /\ "user" \in made[d][i] => walk(d, i, j).flags = wanted[d][i][j].flags
    BY DEF Translates
  <2>1. /\ walk(d, i, j).frame = wanted[d][i][j].frame
        /\ walk(d, i, j).flags
             = wanted[d][i][j].flags \cap ({"present", "rw"} \cup made[d][i])
    <3>1. walk(d, i, j) = granted(d, i, j)
      BY WalkIsGranted DEF PagingInv, WalksAsGranted
    <3> QED BY <3>1 DEF granted
  <2>2. wanted[d][i][j].flags \subseteq {"present", "rw", "user"}
    <3>1. wanted[d][i][j] \in Entry
      BY DEF PagingInv, TypeOK
    <3> QED BY <3>1 DEF Entry, Flag
  <2> QED BY <2>1, <2>2
<1> QED BY PagingAlways, <1>1, PTL

(* Until then the processor keeps nothing stale but pages that vmm_map has mapped
   anew. *)
THEOREM OnlyRemappedStale == Spec => []StaleOnlyRemapped
BY PagingAlways, PTL DEF PagingInv

-----------------------------------------------------------------------------
(* The heap. *)

(* The inductive invariant, in parts. *)

(* The head of the list never moves. *)
HeadInv ==
  \/ heap_head = NULL /\ DOMAIN heap = {}
  \/ heap_head = 0 /\ 0 \in DOMAIN heap

(* Where a block of the list ends. *)
EndIn(h, a) == a + HEADER + h[a].size

(* Tiled says where the next block of the list is, but not that no other lies
   in between. *)
BlocksInv ==
  /\ DOMAIN heap \subseteq Address
  /\ \A a \in DOMAIN heap :
       /\ heap[a] \in heap_block_t
       /\ heap[a].next = NULL => EndIn(heap, a) = HEAP_SIZE
       /\ heap[a].next # NULL => heap[a].next \in DOMAIN heap /\ EndIn(heap, a) = heap[a].next
  /\ \A a, b \in DOMAIN heap : a < b => EndIn(heap, a) <= b

CallInv ==
  /\ pc \in {"idle", "kmalloc", "kfree"}
  /\ pc = "idle" => current = NULL
  /\ current # NULL => current \in DOMAIN heap
  /\ pc = "kmalloc" => asked \in Requests /\ size = rounded(asked)

(* Every pointer handed out is behind the header of a block in use. *)
HeldInv ==
  \A p \in DOMAIN held :
    /\ p \in Int /\ p - HEADER \in DOMAIN heap
    /\ ~heap[p - HEADER].is_free
    /\ held[p] \in Nat /\ held[p] <= heap[p - HEADER].size

(* No byte of the heap is outside the list. *)
CoverInv ==
  heap_head # NULL => \A x \in Address : \E a \in DOMAIN heap : a <= x /\ x < EndIn(heap, a)

(* Two free blocks are adjacent only ahead of kfree's loop. *)
MergedInv ==
  \A a \in DOMAIN heap :
    pc = "kmalloc" \/ current = NULL \/ a < current => ~merges(a)

(* kmalloc's loop has passed no block that would do. *)
PassedInv ==
  pc = "kmalloc" =>
    \A a \in DOMAIN heap : current = NULL \/ a < current => ~fits(a)

HeapInv ==
  HeadInv /\ BlocksInv /\ CallInv /\ HeldInv /\ CoverInv /\ MergedInv /\ PassedInv

-----------------------------------------------------------------------------
(* Arithmetic. *)

(* The rounding covers what is asked for, unless it wraps: then the caller may
   count on nothing. *)
LEMMA RoundedFacts ==
  ASSUME NEW n \in Requests
  PROVE  /\ rounded(n) \in Nat /\ usable(n) \in Nat /\ usable(n) <= rounded(n)
<1>1. n \in 1 .. (Word - 1) /\ Word \in Nat /\ Word > 8
  BY KHeapAssumption
<1>2. (n + 7) % Word \in 0 .. (Word - 1)
  BY <1>1
<1>3. rounded(n) \in Nat
  <2> DEFINE m == (n + 7) % Word
  <2>1. m \in Nat
    BY <1>1, <1>2
  <2> HIDE DEF m
  <2>2. (m \div 8) * 8 \in Nat
    BY <2>1
  <2> QED BY <2>2 DEF rounded, m
<1>4. CASE n <= Word - 8
  <2>1. n + 7 \in 0 .. (Word - 1)
    BY <1>1, <1>4
  <2>2. \A k \in 0 .. (Word - 1) : k % Word = k
    BY <1>1
  <2>3. (n + 7) % Word = n + 7
    BY <2>1, <2>2
  <2>4. ((n + 7) \div 8) * 8 >= n
    BY <1>1
  <2> QED BY <1>1, <1>3, <1>4, <2>3, <2>4 DEF rounded, usable
<1>5. CASE n > Word - 8
  BY <1>1, <1>3, <1>5 DEF usable
<1> QED BY <1>1, <1>4, <1>5

(* A block lies within the heap, and its header is not empty. *)
LEMMA BlockFacts ==
  ASSUME BlocksInv, NEW a \in DOMAIN heap
  PROVE  /\ a \in Nat /\ a < HEAP_SIZE /\ heap[a].size \in Nat
         /\ heap[a].is_free \in BOOLEAN /\ heap[a].next \in Address \cup {NULL}
         /\ EndIn(heap, a) = a + HEADER + heap[a].size /\ EndIn(heap, a) \in Nat
         /\ a + HEADER <= EndIn(heap, a) /\ a < EndIn(heap, a) /\ EndIn(heap, a) <= HEAP_SIZE
<1>1. a \in Nat /\ a < HEAP_SIZE /\ HEADER \in Nat \ {0} /\ HEAP_SIZE \in Nat
  BY KHeapAssumption DEF BlocksInv, Address
<1>2. heap[a] \in heap_block_t
  BY DEF BlocksInv
<1>3. /\ heap[a].size \in Nat /\ heap[a].is_free \in BOOLEAN
      /\ heap[a].next \in Address \cup {NULL}
  BY <1>1, <1>2 DEF heap_block_t
<1>4. EndIn(heap, a) = a + HEADER + heap[a].size
  BY DEF EndIn
<1>5. EndIn(heap, a) = HEAP_SIZE \/ EndIn(heap, a) < HEAP_SIZE
  <2>1. CASE heap[a].next = NULL
    BY <2>1 DEF BlocksInv
  <2>2. CASE heap[a].next # NULL
    BY <1>1, <2>2 DEF BlocksInv, Address
  <2> QED BY <2>1, <2>2
<1> QED BY <1>1, <1>3, <1>4, <1>5

-----------------------------------------------------------------------------
(* What the actions do to the list. *)

(* The steps that leave the list and what callers hold alone. *)
ListKept == heap_head' = heap_head /\ heap' = heap /\ held' = held

(* kmalloc without a split, and kfree: a block changes its owner. *)
Marked(a, f) ==
  /\ a \in DOMAIN heap
  /\ DOMAIN heap' = DOMAIN heap
  /\ heap'[a].size = heap[a].size /\ heap'[a].next = heap[a].next
  /\ heap'[a].is_free = f /\ heap'[a] \in heap_block_t
  /\ \A x \in DOMAIN heap \ {a} : heap'[x] = heap[x]

(* kmalloc with a split: block b appears in the end of block a. *)
Split(a, b) ==
  /\ a \in DOMAIN heap /\ b \notin DOMAIN heap /\ b \in Address
  /\ DOMAIN heap' = DOMAIN heap \cup {b}
  /\ size \in Nat /\ b = a + HEADER + size /\ b < EndIn(heap, a)
  /\ heap'[a].size = size /\ heap'[a].next = b /\ ~heap'[a].is_free
  /\ heap'[b].size \in Nat /\ heap'[b].next = heap[a].next /\ heap'[b].is_free
  /\ b + HEADER + heap'[b].size = EndIn(heap, a)
  /\ heap'[a] \in heap_block_t /\ heap'[b] \in heap_block_t
  /\ \A x \in DOMAIN heap \ {a} : heap'[x] = heap[x]

(* kfree's loop: block a takes in block b, the next one. *)
Joined(a, b) ==
  /\ a \in DOMAIN heap /\ b \in DOMAIN heap /\ a < b /\ b = heap[a].next
  /\ heap[a].is_free /\ heap[b].is_free
  /\ DOMAIN heap' = DOMAIN heap \ {b}
  /\ heap'[a].next = heap[b].next /\ heap'[a].is_free
  /\ heap'[a].size = heap[a].size + HEADER + heap[b].size
  /\ heap'[a] \in heap_block_t
  /\ \A x \in DOMAIN heap \ {a, b} : heap'[x] = heap[x]

(* kmalloc takes a block that is large enough, whole or in part. *)
LEMMA GrantEffect ==
  ASSUME BlocksInv, CallInv, Grant
  PROVE  /\ current \in DOMAIN heap /\ heap[current].is_free
         /\ asked \in Requests /\ size = rounded(asked) /\ size \in Nat
         /\ heap[current].size >= size
         /\ Marked(current, FALSE) \/ Split(current, current + HEADER + size)
<1>1. /\ current \in DOMAIN heap /\ heap[current].is_free
      /\ asked \in Requests /\ size = rounded(asked) /\ size \in Nat
      /\ heap[current].size >= size
  BY RoundedFacts DEF Grant, CallInv, fits
<1> DEFINE b == current + HEADER + size
<1>2. heap[current] \in heap_block_t
  BY <1>1 DEF BlocksInv
<1>3. CASE splits(current)
  <2>1. heap' = split(current)
    BY <1>3 DEF Grant
  <2>2. /\ current \in Nat /\ EndIn(heap, current) <= HEAP_SIZE /\ heap[current].size \in Nat
        /\ EndIn(heap, current) = current + HEADER + heap[current].size
        /\ heap[current].next \in Address \cup {NULL}
    BY <1>1, BlockFacts
  <2>3. /\ HEADER \in Nat \ {0} /\ HEAP_SIZE \in Nat /\ HEADER <= HEAP_SIZE
        /\ heap[current].size >= size + HEADER + 8
    BY <1>3, KHeapAssumption DEF splits
  <2>4. /\ current < b /\ b < EndIn(heap, current) /\ b \in Address
        /\ heap[current].size - size - HEADER \in 0 .. (HEAP_SIZE - HEADER)
        /\ size \in 0 .. (HEAP_SIZE - HEADER)
    BY <1>1, <2>2, <2>3 DEF Address
  <2>5. b \notin DOMAIN heap
    <3>1. b \in Nat /\ EndIn(heap, current) \in Nat
      BY <1>1, <2>2, <2>3, BlockFacts
    <3>2. b \in DOMAIN heap => EndIn(heap, current) <= b
      BY <1>1, <2>4 DEF BlocksInv
    <3> HIDE DEF b
    <3> QED BY <2>4, <3>1, <3>2
  <2>6. /\ DOMAIN heap' = DOMAIN heap \cup {b}
        /\ heap'[current] = [size |-> size, is_free |-> FALSE, next |-> b]
        /\ heap'[b] = [size |-> heap[current].size - size - HEADER, is_free |-> TRUE,
                       next |-> heap[current].next]
        /\ \A x \in DOMAIN heap \ {current} : heap'[x] = heap[x]
    <3> HIDE DEF b
    <3>1. heap' = [x \in DOMAIN heap \cup {b} |->
                     CASE x = current -> [size |-> size, is_free |-> FALSE, next |-> b]
                       [] x = b -> [size |-> heap[current].size - size - HEADER,
                                    is_free |-> TRUE, next |-> heap[current].next]
                       [] OTHER -> heap[x]]
      BY <2>1 DEF split, b
    <3>2. current # b
      BY <1>1, <2>5
    <3> QED BY <1>1, <2>5, <3>1, <3>2
  <2>7. heap'[current] \in heap_block_t /\ heap'[b] \in heap_block_t
    BY <2>2, <2>4, <2>6 DEF heap_block_t
  <2>8. b + HEADER + heap'[b].size = EndIn(heap, current)
    BY <1>1, <2>2, <2>3, <2>6
  <2>9. heap'[b].size \in Nat
    BY <2>3, <2>4, <2>6
  <2> HIDE DEF b
  <2>10. Split(current, b)
    BY <1>1, <2>4, <2>5, <2>6, <2>7, <2>8, <2>9 DEF Split, b
  <2> QED BY <1>1, <2>10 DEF b
<1>4. CASE ~splits(current)
  <2>1. heap' = [heap EXCEPT ![current].is_free = FALSE]
    BY <1>4 DEF Grant
  <2>2. Marked(current, FALSE)
    BY <1>1, <1>2, <2>1 DEF Marked, heap_block_t
  <2> QED BY <1>1, <2>2
<1> QED BY <1>3, <1>4

(* kfree marks the block behind whose header the pointer is. *)
LEMMA FreeEffect ==
  ASSUME BlocksInv, HeldInv, NEW p \in DOMAIN held, kfree(p)
  PROVE  /\ Marked(p - HEADER, TRUE)
         /\ DOMAIN held' = DOMAIN held \ {p}
         /\ \A q \in DOMAIN held \ {p} : held'[q] = held[q]
<1>1. p - HEADER \in DOMAIN heap /\ heap[p - HEADER] \in heap_block_t
  BY DEF HeldInv, BlocksInv
<1>2. Marked(p - HEADER, TRUE)
  BY <1>1 DEF kfree, Marked, heap_block_t
<1> QED BY <1>2 DEF kfree, Restrict

(* A merge is of two adjacent free blocks. *)
LEMMA MergeEffect ==
  ASSUME BlocksInv, CallInv, Merge
  PROVE  Joined(current, heap[current].next) /\ held' = held
<1> DEFINE b == heap[current].next
<1>1. /\ current \in DOMAIN heap /\ heap[current].is_free /\ b # NULL /\ b \in DOMAIN heap
      /\ heap[b].is_free /\ EndIn(heap, current) = b
  BY DEF Merge, merges, CallInv, BlocksInv
<1>2. /\ current \in Nat /\ current < b /\ b < EndIn(heap, b) /\ EndIn(heap, b) <= HEAP_SIZE
      /\ heap[current].size \in Nat /\ heap[b].size \in Nat
      /\ EndIn(heap, b) = b + HEADER + heap[b].size /\ b = current + HEADER + heap[current].size
      /\ heap[b].next \in Address \cup {NULL}
  BY <1>1, BlockFacts
<1>3. HEADER \in Nat \ {0} /\ HEAP_SIZE \in Nat
  BY KHeapAssumption
<1>4. heap[current] \in heap_block_t /\ heap[b] \in heap_block_t
  BY <1>1 DEF BlocksInv
<1>5. heap' = [x \in DOMAIN heap \ {b} |->
                IF x = current
                THEN [heap[x] EXCEPT !.size = @ + HEADER + heap[b].size, !.next = heap[b].next]
                ELSE heap[x]]
  BY DEF Merge
<1>6. /\ DOMAIN heap' = DOMAIN heap \ {b}
      /\ heap'[current] = [heap[current] EXCEPT !.size = @ + HEADER + heap[b].size,
                                                !.next = heap[b].next]
      /\ \A x \in DOMAIN heap \ {current, b} : heap'[x] = heap[x]
  <2>1. b \in Nat /\ current # b
    BY <1>1, <1>2, BlockFacts
  <2> HIDE DEF b
  <2> QED BY <1>1, <1>5, <2>1
<1>7. heap[current].size + HEADER + heap[b].size \in 0 .. (HEAP_SIZE - HEADER)
  <2> HIDE DEF b
  <2> QED BY <1>2, <1>3
<1>8. /\ heap'[current].size = heap[current].size + HEADER + heap[b].size
      /\ heap'[current].next = heap[b].next
      /\ heap'[current].is_free = heap[current].is_free
      /\ heap'[current] \in heap_block_t
  <2> HIDE DEF b
  <2> QED BY <1>2, <1>4, <1>6, <1>7 DEF heap_block_t
<1> HIDE DEF b
<1>9. Joined(current, b)
  BY <1>1, <1>2, <1>6, <1>8 DEF Joined, b
<1> QED BY <1>9 DEF b, Merge

(* The steps of the loops that only move on, and the calls themselves. *)
LEMMA StepKinds ==
  ASSUME HeapNext
  PROVE  \/ kheap_init \/ Grant \/ Merge \/ ListKept
         \/ \E p \in DOMAIN held : kfree(p)
BY DEF HeapNext, Step, kmalloc, Skip, ReturnNull, Advance, Merged, ListKept

(* The list before and after each kind of change. *)
LEMMA MarkedFacts ==
  ASSUME BlocksInv, NEW STATE a, NEW STATE f, Marked(a, f)
  PROVE  BlocksInv' /\ \A x \in DOMAIN heap : EndIn(heap', x) = EndIn(heap, x)
<1>1. \A x \in DOMAIN heap : /\ heap'[x].next = heap[x].next /\ heap'[x].size = heap[x].size
                             /\ heap'[x] \in heap_block_t
  BY DEF Marked, BlocksInv
<1>2. \A x \in DOMAIN heap : EndIn(heap', x) = EndIn(heap, x)
  BY <1>1 DEF EndIn
<1> QED BY <1>1, <1>2 DEF Marked, BlocksInv

(* A split leaves a block that ends where the new one begins. *)
LEMMA SplitFacts ==
  ASSUME BlocksInv, NEW STATE a, NEW STATE b, Split(a, b)
  PROVE  /\ BlocksInv'
         /\ EndIn(heap', a) = b /\ EndIn(heap', b) = EndIn(heap, a)
         /\ \A x \in DOMAIN heap \ {a} : EndIn(heap', x) = EndIn(heap, x)
<1>1. a \in DOMAIN heap /\ a \in Nat /\ b \in Nat /\ a < b /\ b < EndIn(heap, a) /\ EndIn(heap, a) \in Nat
  <2>1. a \in DOMAIN heap /\ b \in Address /\ b < EndIn(heap, a) /\ b = a + HEADER + size /\ size \in Nat
    BY DEF Split
  <2>2. a \in Nat /\ EndIn(heap, a) \in Nat
    BY <2>1, BlockFacts DEF Address
  <2> QED BY <2>1, <2>2, KHeapAssumption DEF Address
<1>2. /\ EndIn(heap', a) = b /\ EndIn(heap', b) = EndIn(heap, a)
      /\ \A x \in DOMAIN heap \ {a} : EndIn(heap', x) = EndIn(heap, x)
  <2>1. EndIn(heap', a) = b
    <3>1. EndIn(heap', a) = a + HEADER + heap'[a].size
      BY DEF EndIn
    <3>2. heap'[a].size = size /\ b = a + HEADER + size
      BY DEF Split
    <3> QED BY <3>1, <3>2
  <2>2. EndIn(heap', b) = EndIn(heap, a)
    BY <1>1 DEF Split, EndIn, BlocksInv
  <2>3. \A x \in DOMAIN heap \ {a} : EndIn(heap', x) = EndIn(heap, x)
    BY DEF Split, EndIn
  <2> QED BY <2>1, <2>2, <2>3
<1>3. ASSUME NEW x \in DOMAIN heap'
      PROVE  /\ heap'[x] \in heap_block_t
             /\ heap'[x].next = NULL => EndIn(heap', x) = HEAP_SIZE
             /\ heap'[x].next # NULL => heap'[x].next \in DOMAIN heap' /\ EndIn(heap', x) = heap'[x].next
  <2>1. CASE x = a
    BY <1>1, <1>2, <2>1 DEF Split, Address, NULL
  <2>2. CASE x = b
    BY <1>1, <1>2, <2>2 DEF Split, BlocksInv
  <2>3. CASE x # a /\ x # b
    BY <1>2, <1>3, <2>3 DEF Split, BlocksInv
  <2> QED BY <2>1, <2>2, <2>3
<1>4. ASSUME NEW x \in DOMAIN heap', NEW y \in DOMAIN heap', x < y PROVE EndIn(heap', x) <= y
  <2>1. DOMAIN heap' = DOMAIN heap \cup {b} /\ DOMAIN heap \subseteq Nat
    BY BlockFacts DEF Split
  <2>2. \A u, v \in DOMAIN heap : u < v => EndIn(heap, u) <= v
    BY DEF BlocksInv
  <2>3. \A u \in DOMAIN heap : EndIn(heap, u) \in Nat /\ u < EndIn(heap, u)
    BY BlockFacts
  <2>4. CASE x = b
    <3>1. y \in DOMAIN heap /\ y # a /\ a < y
      BY <1>1, <1>4, <2>1, <2>4
    <3> QED BY <1>1, <1>2, <2>2, <2>4, <3>1
  <2>5. CASE y = b
    <3>1. x \in DOMAIN heap
      BY <1>1, <1>4, <2>1, <2>5
    <3>2. CASE x = a
      BY <1>1, <1>2, <2>5, <3>2
    <3>3. CASE x # a
      <4>1. ~(a < x)
        BY <1>1, <1>4, <2>1, <2>2, <2>5, <3>1
      <4>2. EndIn(heap, x) <= a
        BY <1>1, <2>1, <2>2, <3>1, <3>3, <4>1
      <4> QED BY <1>1, <1>2, <2>3, <2>5, <3>1, <3>3, <4>2
    <3> QED BY <3>2, <3>3
  <2>6. CASE x = a /\ y # b
    BY <1>1, <1>2, <1>4, <2>1, <2>2, <2>6
  <2>7. CASE x # a /\ x # b /\ y # b
    BY <1>2, <1>4, <2>1, <2>2, <2>7
  <2> QED BY <2>4, <2>5, <2>6, <2>7
<1>5. DOMAIN heap' \subseteq Address
  BY DEF Split, BlocksInv
<1> QED BY <1>2, <1>3, <1>4, <1>5 DEF BlocksInv

(* After a merge the block ends where the one it took in ended. *)
LEMMA JoinedFacts ==
  ASSUME BlocksInv, NEW STATE a, NEW STATE b, Joined(a, b)
  PROVE  /\ BlocksInv'
         /\ EndIn(heap, a) = b /\ EndIn(heap', a) = EndIn(heap, b)
         /\ \A x \in DOMAIN heap \ {a, b} : EndIn(heap', x) = EndIn(heap, x)
<1>1. /\ a \in DOMAIN heap /\ b \in DOMAIN heap /\ a \in Nat /\ b \in Nat /\ a < b
      /\ EndIn(heap, a) \in Nat /\ EndIn(heap, b) \in Nat /\ heap[a].size \in Nat /\ heap[b].size \in Nat
  BY BlockFacts DEF Joined
<1>2. EndIn(heap, a) = b
  BY <1>1 DEF Joined, BlocksInv, NULL
<1>3. EndIn(heap', a) = EndIn(heap, b) /\ \A x \in DOMAIN heap \ {a, b} : EndIn(heap', x) = EndIn(heap, x)
  <2>1. \A x \in DOMAIN heap \ {a, b} : EndIn(heap', x) = EndIn(heap, x)
    BY DEF Joined, EndIn
  <2>2. EndIn(heap', a) = a + HEADER + (heap[a].size + HEADER + heap[b].size)
    BY DEF Joined, EndIn
  <2>3. EndIn(heap, a) = a + HEADER + heap[a].size /\ EndIn(heap, b) = b + HEADER + heap[b].size
    BY DEF EndIn
  <2> QED BY <1>1, <1>2, <2>1, <2>2, <2>3, KHeapAssumption
<1>4. ASSUME NEW x \in DOMAIN heap'
      PROVE  /\ heap'[x] \in heap_block_t
             /\ heap'[x].next = NULL => EndIn(heap', x) = HEAP_SIZE
             /\ heap'[x].next # NULL => heap'[x].next \in DOMAIN heap' /\ EndIn(heap', x) = heap'[x].next
  <2>1. x \in DOMAIN heap /\ x # b
    BY DEF Joined
  <2>2. CASE x = a
    <3>1. /\ heap[b].next = NULL => EndIn(heap, b) = HEAP_SIZE
          /\ heap[b].next # NULL => heap[b].next \in DOMAIN heap /\ EndIn(heap, b) = heap[b].next
      BY <1>1 DEF BlocksInv
    <3>2. b < EndIn(heap, b)
      BY <1>1, BlockFacts
    <3>3. heap[b].next # b
      BY <1>1, <3>1, <3>2, KHeapAssumption DEF NULL
    <3> QED BY <1>3, <2>2, <3>1, <3>3 DEF Joined
  <2>3. CASE x # a
    <3>1. heap'[x] = heap[x] /\ EndIn(heap', x) = EndIn(heap, x)
      BY <1>3, <2>1, <2>3 DEF Joined
    <3>2. /\ heap[x] \in heap_block_t
          /\ heap[x].next = NULL => EndIn(heap, x) = HEAP_SIZE
          /\ heap[x].next # NULL => heap[x].next \in DOMAIN heap /\ EndIn(heap, x) = heap[x].next
      BY <2>1 DEF BlocksInv
    <3>3. EndIn(heap, x) # b
      <4>1. x \in Nat /\ x < EndIn(heap, x) /\ EndIn(heap, x) \in Nat /\ a < EndIn(heap, a)
        BY <1>1, <2>1, BlockFacts
      <4>2. (x < a => EndIn(heap, x) <= a) /\ (a < x => EndIn(heap, a) <= x)
        BY <1>1, <2>1 DEF BlocksInv
      <4> QED BY <1>1, <1>2, <2>1, <2>3, <4>1, <4>2
    <3> QED BY <3>1, <3>2, <3>3 DEF Joined
  <2> QED BY <2>2, <2>3
<1>5. ASSUME NEW x \in DOMAIN heap', NEW y \in DOMAIN heap', x < y PROVE EndIn(heap', x) <= y
  <2>1. x \in DOMAIN heap /\ x # b /\ y \in DOMAIN heap /\ y # b /\ x \in Nat /\ y \in Nat
    BY BlockFacts DEF Joined
  <2>2. \A u, v \in DOMAIN heap : u < v => EndIn(heap, u) <= v
    BY DEF BlocksInv
  <2>3. CASE x = a
    <3>1. b <= y
      BY <1>1, <1>2, <1>5, <2>1, <2>2, <2>3
    <3>2. b < y
      BY <1>1, <2>1, <3>1
    <3> QED BY <1>1, <1>3, <2>1, <2>2, <2>3, <3>2
  <2>4. CASE x # a
    BY <1>3, <1>5, <2>1, <2>2, <2>4
  <2> QED BY <2>3, <2>4
<1>6. DOMAIN heap' \subseteq Address
  BY DEF Joined, BlocksInv
<1> QED BY <1>2, <1>3, <1>4, <1>5, <1>6 DEF BlocksInv

-----------------------------------------------------------------------------
(* Tiled. *)

(* The first block begins with the heap and is never merged into another. *)
LEMMA HeadStep ==
  ASSUME BlocksInv, CallInv, HeldInv, HeadInv, HeapNext
  PROVE  HeadInv'
<1>1. CASE kheap_init
  BY <1>1 DEF kheap_init, HeadInv
<1>2. CASE Grant
  BY <1>2, GrantEffect DEF Grant, Marked, Split, HeadInv
<1>3. CASE Merge
  <2>1. Joined(current, heap[current].next) /\ heap_head' = heap_head
    BY <1>3, MergeEffect DEF Merge
  <2>2. current \in Nat /\ current < heap[current].next
    BY <2>1, BlockFacts DEF Joined
  <2> QED BY <2>1, <2>2 DEF HeadInv, Joined
<1>4. ASSUME NEW p \in DOMAIN held, kfree(p) PROVE HeadInv'
  BY <1>4, FreeEffect DEF kfree, Marked, HeadInv
<1>5. CASE ListKept
  BY <1>5 DEF ListKept, HeadInv
<1> QED BY <1>1, <1>2, <1>3, <1>4, <1>5, StepKinds

(* Every step keeps the list a tiling. *)
LEMMA BlocksStep ==
  ASSUME BlocksInv, CallInv, HeldInv, HeadInv, HeapNext
  PROVE  BlocksInv'
<1>1. CASE kheap_init
  <2>1. DOMAIN heap' = {0} /\ heap'[0] = [size |-> HEAP_SIZE - HEADER, is_free |-> TRUE, next |-> NULL]
    BY <1>1 DEF kheap_init
  <2>2. HEAP_SIZE \in Nat /\ HEADER \in Nat \ {0} /\ HEADER <= HEAP_SIZE
    BY KHeapAssumption
  <2>3. heap'[0] \in heap_block_t
    BY <2>1, <2>2 DEF heap_block_t
  <2>4. EndIn(heap', 0) = HEAP_SIZE /\ heap'[0].next = NULL
    BY <2>1, <2>2 DEF EndIn
  <2>5. 0 \in Address
    BY <2>2 DEF Address
  <2>6. \A a, b \in DOMAIN heap' : ~(a < b)
    BY <2>1
  <2>7. \A a \in DOMAIN heap' : a = 0
    BY <2>1
  <2>8. DOMAIN heap' \subseteq Address
    BY <2>1, <2>5
  <2> QED BY <2>3, <2>4, <2>6, <2>7, <2>8 DEF BlocksInv
<1>2. CASE Grant
  BY <1>2, GrantEffect, MarkedFacts, SplitFacts
<1>3. CASE Merge
  BY <1>3, MergeEffect, JoinedFacts
<1>4. ASSUME NEW p \in DOMAIN held, kfree(p) PROVE BlocksInv'
  BY <1>4, FreeEffect, MarkedFacts
<1>5. CASE ListKept
  BY <1>5 DEF ListKept, BlocksInv, EndIn
<1> QED BY <1>1, <1>2, <1>3, <1>4, <1>5, StepKinds

(* The loops run along the list. *)
LEMMA CallStep ==
  ASSUME BlocksInv, CallInv, HeldInv, HeadInv, HeapNext
  PROVE  CallInv'
<1>1. CASE kheap_init
  BY <1>1 DEF kheap_init, CallInv
<1>2. CASE Grant \/ ReturnNull \/ Merged
  BY <1>2 DEF Grant, ReturnNull, Merged, Return, CallInv
<1>3. CASE Merge
  <2>1. Joined(current, heap[current].next)
    BY <1>3, MergeEffect
  <2>2. current \in Nat /\ heap[current].next \in Nat
    BY <2>1, BlockFacts DEF Joined
  <2>3. current \in DOMAIN heap'
    BY <2>1, <2>2 DEF Joined
  <2> QED BY <1>3, <2>3 DEF Merge, CallInv
<1>4. ASSUME NEW p \in DOMAIN held, kfree(p) PROVE CallInv'
  <2>1. DOMAIN heap' = DOMAIN heap
    BY <1>4, FreeEffect DEF Marked
  <2> QED BY <1>4, <2>1 DEF kfree, CallInv, HeadInv
<1>5. ASSUME NEW n \in Requests, kmalloc(n) PROVE CallInv'
  BY <1>5 DEF kmalloc, CallInv, HeadInv
<1>6. CASE Skip \/ Advance
  BY <1>6 DEF Skip, Advance, CallInv, BlocksInv
<1> QED BY <1>1, <1>2, <1>3, <1>4, <1>5, <1>6 DEF HeapNext, Step

(* What is handed out is in use until it is freed. *)
LEMMA HeldStep ==
  ASSUME BlocksInv, CallInv, HeldInv, HeadInv, HeapNext
  PROVE  HeldInv'
<1>1. CASE kheap_init
  BY <1>1 DEF kheap_init, HeldInv, HeadInv, NULL
<1>2. CASE Grant
  <2>1. /\ current \in DOMAIN heap /\ heap[current].is_free /\ current \in Nat
        /\ asked \in Requests /\ size = rounded(asked) /\ size \in Nat
        /\ heap[current].size >= size /\ heap[current].size \in Nat
        /\ Marked(current, FALSE) \/ Split(current, current + HEADER + size)
    BY <1>2, GrantEffect, BlockFacts
  <2>2. HEADER \in Nat
    BY KHeapAssumption
  <2>3. /\ DOMAIN held' = DOMAIN held \cup {current + HEADER}
        /\ held'[current + HEADER] = usable(asked)
        /\ \A p \in DOMAIN held : p # current + HEADER => held'[p] = held[p]
    BY <1>2 DEF Grant
  <2>4. /\ usable(asked) \in Nat /\ usable(asked) <= size
    BY <2>1, RoundedFacts
  <2>5. /\ current \in DOMAIN heap' /\ ~heap'[current].is_free
        /\ heap'[current].size \in Nat /\ usable(asked) <= heap'[current].size
    BY <2>1, <2>4 DEF Marked, Split
  <2>6. \A x \in DOMAIN heap : ~heap[x].is_free => x \in DOMAIN heap' /\ heap'[x] = heap[x]
    BY <2>1 DEF Marked, Split
  <2>7. (current + HEADER) - HEADER = current /\ current + HEADER \in Int
    BY <2>1, <2>2
  <2>8. ASSUME NEW p \in DOMAIN held'
        PROVE  /\ p \in Int /\ p - HEADER \in DOMAIN heap'
               /\ ~heap'[p - HEADER].is_free
               /\ held'[p] \in Nat /\ held'[p] <= heap'[p - HEADER].size
    <3>1. CASE p = current + HEADER
      BY <2>3, <2>4, <2>5, <2>7, <3>1
    <3>2. CASE p # current + HEADER
      BY <2>3, <2>6, <3>2 DEF HeldInv
    <3> QED BY <3>1, <3>2
  <2> QED BY <2>8 DEF HeldInv
<1>3. CASE Merge
  <2>1. Joined(current, heap[current].next) /\ held' = held
    BY <1>3, MergeEffect
  <2>2. \A x \in DOMAIN heap : ~heap[x].is_free => x \in DOMAIN heap' /\ heap'[x] = heap[x]
    BY <2>1 DEF Joined
  <2> QED BY <2>1, <2>2 DEF HeldInv
<1>4. ASSUME NEW p \in DOMAIN held, kfree(p) PROVE HeldInv'
  <2>1. /\ Marked(p - HEADER, TRUE) /\ DOMAIN held' = DOMAIN held \ {p}
        /\ \A q \in DOMAIN held \ {p} : held'[q] = held[q]
    BY <1>4, FreeEffect
  <2>2. HEADER \in Nat /\ p \in Int
    BY KHeapAssumption DEF HeldInv
  <2>3. ASSUME NEW q \in DOMAIN held'
        PROVE  /\ q \in Int /\ q - HEADER \in DOMAIN heap'
               /\ ~heap'[q - HEADER].is_free
               /\ held'[q] \in Nat /\ held'[q] <= heap'[q - HEADER].size
    <3>1. q \in DOMAIN held /\ q # p /\ q \in Int
      BY <2>1 DEF HeldInv
    <3>2. q - HEADER # p - HEADER
      BY <2>2, <3>1
    <3> QED BY <2>1, <3>1, <3>2 DEF HeldInv, Marked
  <2> QED BY <2>3 DEF HeldInv
<1>5. CASE ListKept
  BY <1>5 DEF ListKept, HeldInv
<1> QED BY <1>1, <1>2, <1>3, <1>4, <1>5, StepKinds

-----------------------------------------------------------------------------
(* No byte is lost, and free blocks are merged. *)

(* Every byte stays in a block. *)
LEMMA CoverStep ==
  ASSUME BlocksInv, CallInv, HeldInv, HeadInv, CoverInv, HeapNext
  PROVE  CoverInv'
<1> DEFINE Covers(h, x) == \E a \in DOMAIN h : a <= x /\ x < EndIn(h, a)
<1>1. CASE kheap_init
  <2>1. heap' = [a \in {0} |-> [size |-> HEAP_SIZE - HEADER, is_free |-> TRUE, next |-> NULL]]
    BY <1>1 DEF kheap_init
  <2>2. HEAP_SIZE \in Nat /\ HEADER \in Nat
    BY KHeapAssumption
  <2>3. 0 \in DOMAIN heap' /\ EndIn(heap', 0) = HEAP_SIZE
    BY <2>1, <2>2 DEF EndIn
  <2> QED BY <2>2, <2>3 DEF CoverInv, Address
<1>2. ASSUME heap_head' = heap_head, \A x \in Address : Covers(heap, x) => Covers(heap', x)
      PROVE  CoverInv'
  BY <1>2 DEF CoverInv
<1>3. ASSUME NEW STATE a, NEW STATE f, Marked(a, f), NEW x \in Address, Covers(heap, x)
      PROVE  Covers(heap', x)
  BY <1>3, MarkedFacts DEF Marked
<1>4. ASSUME NEW STATE a, NEW STATE b, Split(a, b), NEW x \in Address, Covers(heap, x)
      PROVE  Covers(heap', x)
  <2>1. /\ EndIn(heap', a) = b /\ EndIn(heap', b) = EndIn(heap, a)
        /\ \A y \in DOMAIN heap \ {a} : EndIn(heap', y) = EndIn(heap, y)
        /\ DOMAIN heap' = DOMAIN heap \cup {b}
    BY <1>4, SplitFacts DEF Split
  <2>2. x \in Nat /\ b \in Nat
    BY <1>4, KHeapAssumption DEF Split, Address
  <2> QED BY <1>4, <2>1, <2>2 DEF Split
<1>5. ASSUME NEW STATE a, NEW STATE b, Joined(a, b), NEW x \in Address, Covers(heap, x)
      PROVE  Covers(heap', x)
  <2>1. /\ EndIn(heap, a) = b /\ EndIn(heap', a) = EndIn(heap, b)
        /\ \A y \in DOMAIN heap \ {a, b} : EndIn(heap', y) = EndIn(heap, y)
        /\ DOMAIN heap' = DOMAIN heap \ {b}
    BY <1>5, JoinedFacts DEF Joined
  <2>2. /\ x \in Nat /\ a \in Nat /\ b \in Nat /\ a < b /\ b < EndIn(heap, b)
        /\ EndIn(heap, b) \in Nat /\ a \in DOMAIN heap
    BY <1>5, BlockFacts, KHeapAssumption DEF Joined, Address
  <2>3. PICK y \in DOMAIN heap : y <= x /\ x < EndIn(heap, y)
    BY <1>5
  <2>4. CASE y \in {a, b}
    <3>1. a <= x /\ x < EndIn(heap', a) /\ a \in DOMAIN heap'
      BY <2>1, <2>2, <2>3, <2>4
    <3> QED BY <3>1
  <2>5. CASE y \notin {a, b}
    BY <2>1, <2>3, <2>5
  <2> QED BY <2>4, <2>5
<1>6. CASE Grant
  <2>1. heap_head' = heap_head
    BY <1>6 DEF Grant
  <2> HIDE DEF Covers
  <2> QED BY <1>2, <1>3, <1>4, <1>6, <2>1, GrantEffect
<1>7. CASE Merge
  <2>1. heap_head' = heap_head
    BY <1>7 DEF Merge
  <2> HIDE DEF Covers
  <2> QED BY <1>2, <1>5, <1>7, <2>1, MergeEffect
<1>8. ASSUME NEW p \in DOMAIN held, kfree(p) PROVE CoverInv'
  <2>1. heap_head' = heap_head
    BY <1>8 DEF kfree
  <2> HIDE DEF Covers
  <2> QED BY <1>2, <1>3, <1>8, <2>1, FreeEffect
<1>9. CASE ListKept
  BY <1>9 DEF ListKept, CoverInv, EndIn
<1> QED BY <1>1, <1>6, <1>7, <1>8, <1>9, StepKinds

(* The loops move on only past blocks that neither do nor can be merged. *)
LEMMA NextBlock ==
  ASSUME BlocksInv, NEW a \in DOMAIN heap, NEW x \in DOMAIN heap,
         heap[a].next = NULL \/ x < heap[a].next
  PROVE  x < a \/ x = a
<1>1. /\ a \in Nat /\ x \in Nat /\ x < HEAP_SIZE /\ HEAP_SIZE \in Nat
      /\ a < x => EndIn(heap, a) <= x
  BY BlockFacts, KHeapAssumption DEF BlocksInv
<1>2. EndIn(heap, a) = HEAP_SIZE \/ (EndIn(heap, a) = heap[a].next /\ heap[a].next \in Nat)
  BY BlockFacts DEF BlocksInv
<1> QED BY <1>1, <1>2 DEF NULL

(* Two adjacent blocks are both free only where kfree's loop has yet to come. *)
LEMMA MergedStep ==
  ASSUME BlocksInv, CallInv, HeldInv, HeadInv, MergedInv, HeapNext
  PROVE  MergedInv'
<1>1. DOMAIN heap \subseteq Nat /\ \A a \in DOMAIN heap : heap[a].next # NULL =>
                                     heap[a].next \in DOMAIN heap /\ a < heap[a].next
  <2>1. \A a \in DOMAIN heap : a \in Nat /\ a < EndIn(heap, a)
    BY BlockFacts
  <2> QED BY <2>1 DEF BlocksInv
<1>2. CASE kheap_init
  BY <1>2 DEF kheap_init, MergedInv, merges
<1>3. CASE Grant
  <2> DEFINE b == current + HEADER + size
  <2>1. /\ current \in DOMAIN heap /\ heap[current].is_free
        /\ Marked(current, FALSE) \/ Split(current, b)
        /\ \A a \in DOMAIN heap : ~merges(a)
    BY <1>3, GrantEffect DEF Grant, MergedInv
  <2> HIDE DEF b
  <2>2. ASSUME Marked(current, FALSE), NEW a \in DOMAIN heap' PROVE ~merges(a)'
    BY <1>1, <2>1, <2>2 DEF Marked, merges
  <2>3. ASSUME Split(current, b), NEW a \in DOMAIN heap' PROVE ~merges(a)'
    BY <1>1, <2>1, <2>3 DEF Split, merges
  <2> QED BY <2>1, <2>2, <2>3 DEF MergedInv
<1>4. CASE Merge
  <2> DEFINE b == heap[current].next
  <2>1. Joined(current, b) /\ current' = current /\ pc = "kfree" /\ pc' = "kfree"
        /\ current # NULL
    BY <1>4, MergeEffect DEF Merge
  <2> HIDE DEF b
  <2>2. ASSUME NEW a \in DOMAIN heap', a < current PROVE ~merges(a)'
    <3>1. a \in DOMAIN heap /\ a # current /\ a # b /\ heap'[a] = heap[a] /\ ~merges(a)
      BY <1>1, <2>1, <2>2 DEF Joined, MergedInv
    <3>2. heap[a].next # NULL => heap[a].next \in DOMAIN heap /\ heap[a].next # b
      <4>1. EndIn(heap, a) <= current /\ current < b /\ current \in Nat /\ b \in Nat
        BY <1>1, <2>1, <2>2, <3>1 DEF Joined, BlocksInv
      <4> QED BY <1>1, <3>1, <4>1, BlockFacts DEF BlocksInv
    <3> QED BY <2>1, <3>1, <3>2 DEF Joined, merges
  <2> QED BY <2>1, <2>2 DEF MergedInv
<1>5. ASSUME NEW p \in DOMAIN held, kfree(p) PROVE MergedInv'
  <2>1. heap_head = 0 /\ current' = 0 /\ pc' = "kfree"
    BY <1>5 DEF kfree, HeadInv, HeldInv
  <2>2. DOMAIN heap' = DOMAIN heap
    BY <1>5, FreeEffect DEF Marked
  <2> QED BY <1>1, <2>1, <2>2 DEF MergedInv, NULL
<1>6. CASE Advance
  <2>1. \A a \in DOMAIN heap : current' = NULL \/ a < current' => ~merges(a)
    BY <1>6, NextBlock DEF Advance, MergedInv, CallInv
  <2> QED BY <1>6, <2>1 DEF Advance, MergedInv, merges
<1>7. CASE Skip \/ ReturnNull \/ Merged
  BY <1>7 DEF Skip, ReturnNull, Merged, Return, MergedInv, merges
<1>8. ASSUME NEW n \in Requests, kmalloc(n) PROVE MergedInv'
  BY <1>8 DEF kmalloc, MergedInv, merges, CallInv
<1> QED BY <1>2, <1>3, <1>4, <1>5, <1>6, <1>7, <1>8 DEF HeapNext, Step

(* kmalloc's loop misses no block. *)
LEMMA PassedStep ==
  ASSUME BlocksInv, CallInv, HeadInv, PassedInv, HeapNext
  PROVE  PassedInv'
<1>1. CASE Skip
  <2>1. \A a \in DOMAIN heap : current' = NULL \/ a < current' => ~fits(a)
    BY <1>1, NextBlock DEF Skip, PassedInv, CallInv
  <2> QED BY <1>1, <2>1 DEF Skip, PassedInv, fits
<1>2. ASSUME NEW n \in Requests, kmalloc(n) PROVE PassedInv'
  <2>1. \A a \in DOMAIN heap : a \in Nat
    BY BlockFacts
  <2> QED BY <1>2, <2>1 DEF kmalloc, PassedInv, HeadInv, NULL
<1>3. ASSUME ~Skip, ~(\E n \in Requests : kmalloc(n)) PROVE pc' # "kmalloc"
  BY <1>3 DEF HeapNext, Step, kheap_init, Grant, ReturnNull, Merge, Advance, Merged, kfree, Return
<1> QED BY <1>1, <1>2, <1>3 DEF PassedInv

-----------------------------------------------------------------------------
(* The theorems. *)

(* The heap begins without a list. *)
LEMMA InitHeap == HeapInit => HeapInv
BY DEF HeapInit, HeapInv, HeadInv, BlocksInv, CallInv, HeldInv, CoverInv, MergedInv, PassedInv,
   NULL, Address

(* Every step keeps the invariant. *)
LEMMA HeapStep == HeapInv /\ [HeapNext]_heapVars => HeapInv'
<1>1. ASSUME HeapInv, HeapNext PROVE HeapInv'
  BY <1>1, HeadStep, BlocksStep, CallStep, HeldStep, CoverStep, MergedStep, PassedStep
  DEF HeapInv
<1>2. ASSUME HeapInv, UNCHANGED heapVars PROVE HeapInv'
  BY <1>2 DEF HeapInv, HeadInv, BlocksInv, CallInv, HeldInv, CoverInv, MergedInv, PassedInv,
     EndIn, merges, fits, heapVars
<1> QED BY <1>1, <1>2

(* The invariant holds in every behaviour. *)
LEMMA HeapAlways == HeapSpec => []HeapInv
BY InitHeap, HeapStep, PTL DEF HeapSpec

(* The list of blocks tiles the heap whatever is allocated and freed, in which
   order, for every size of the heap and of the requests. *)
THEOREM HeapStaysTiled == HeapSpec => []Tiled
<1>1. HeapInv => Tiled
  BY DEF HeapInv, BlocksInv, Tiled, end, EndIn
<1> QED BY HeapAlways, <1>1, PTL

(* The memory of every caller is its own until it frees it: each step of the
   heap is a step of Allocator, or none that callers can see. *)
THEOREM HeapIsAllocator == HeapSpec => IsAllocator
<1>1. HeapInit => Callers!Init
  BY DEF HeapInit, Callers!Init
<1>2. ASSUME HeapInv, Grant PROVE Callers!Next
  <2> DEFINE p == current + HEADER
             n == usable(asked)
  <2>1. /\ current \in DOMAIN heap /\ heap[current].is_free /\ asked \in Requests
        /\ size = rounded(asked) /\ heap[current].size >= size
    BY <1>2, GrantEffect DEF HeapInv
  <2>2. /\ current \in Nat /\ heap[current].size \in Nat /\ EndIn(heap, current) <= HEAP_SIZE
        /\ EndIn(heap, current) = current + HEADER + heap[current].size
    BY <1>2, <2>1, BlockFacts DEF HeapInv
  <2>3. n \in Nat /\ n <= heap[current].size
    BY <2>1, <2>2, RoundedFacts
  <2>4. HEADER \in Nat \ {0} /\ HEAP_SIZE \in Nat
    BY KHeapAssumption
  <2>5. p \in 0 .. HEAP_SIZE /\ n \in {usable(k) : k \in Requests}
    BY <2>1, <2>2, <2>4
  <2>6. p \notin DOMAIN held
    BY <1>2, <2>1, <2>2, <2>4 DEF HeapInv, HeldInv
  <2>7. Callers!Bytes(p, n) \subseteq 0 .. (HEAP_SIZE - 1)
    <3> HIDE DEF n
    <3> QED BY <2>2, <2>3, <2>4 DEF Callers!Bytes
  <2>8. ASSUME NEW q \in DOMAIN held
        PROVE  Callers!Bytes(p, n) \cap Callers!Bytes(q, held[q]) = {}
    <3> DEFINE a == q - HEADER
    <3>1. /\ q \in Int /\ a \in DOMAIN heap /\ a # current
          /\ held[q] \in Nat /\ held[q] <= heap[a].size
      BY <1>2, <2>1 DEF HeapInv, HeldInv
    <3>2. /\ a \in Nat /\ heap[a].size \in Nat
          /\ EndIn(heap, a) = a + HEADER + heap[a].size
      BY <1>2, <3>1, BlockFacts DEF HeapInv
    <3>3. EndIn(heap, a) <= current \/ EndIn(heap, current) <= a
      BY <1>2, <2>1, <2>2, <3>1, <3>2 DEF HeapInv, BlocksInv
    <3>4. q = a + HEADER
      BY <2>4, <3>1
    <3> HIDE DEF a, n
    <3>5. q + held[q] <= current \/ p + n <= q
      BY <2>2, <2>3, <2>4, <3>1, <3>2, <3>3, <3>4
    <3> QED BY <2>2, <2>3, <2>4, <3>1, <3>5 DEF Callers!Bytes
  <2>9. held' = [q \in DOMAIN held \cup {p} |-> IF q = p THEN n ELSE held[q]]
    BY <1>2 DEF Grant
  <2> HIDE DEF p, n
  <2>10. Callers!kmalloc(p, n)
    BY <2>6, <2>7, <2>8, <2>9 DEF Callers!kmalloc
  <2> QED BY <2>5, <2>10 DEF Callers!Next
<1>3. ASSUME NEW p \in DOMAIN held, kfree(p) PROVE Callers!Next
  BY <1>3 DEF kfree, Callers!kfree, Callers!Next, Restrict, Callers!Restrict
<1>4. ASSUME HeapNext, ~Grant, ~(\E p \in DOMAIN held : kfree(p)) PROVE held' = held
  BY <1>4 DEF HeapNext, Step, kheap_init, kmalloc, Skip, ReturnNull, Merge, Advance, Merged
<1>5. HeapInv /\ [HeapNext]_heapVars => [Callers!Next]_held
  BY <1>2, <1>3, <1>4 DEF heapVars
<1> QED BY HeapAlways, <1>1, <1>5, PTL DEF HeapSpec, IsAllocator, Callers!Spec

(* kmalloc fails only when no piece of the heap so long is free, header
   included: the free bytes around a piece are one block, and the loop has seen
   every block. *)
THEOREM FailureMeansFull == HeapSpec => FailsOnlyIfFull
<1> DEFINE Failed == pc = "kmalloc" /\ pc' = "idle" /\ held' = held /\ heap_head # NULL
           Full == \A a \in 0 .. (HEAP_SIZE - HEADER - size) :
                     (a .. (a + HEADER + size - 1)) \cap Used # {}
<1>1. ASSUME HeapInv, HeapNext, Failed PROVE ReturnNull
  <2>1. ~Grant
    <3>1. ASSUME Grant PROVE FALSE
      <4>1. current \in DOMAIN heap /\ heap[current].is_free /\ current \in Int
        BY <1>1, <3>1, GrantEffect, BlockFacts DEF HeapInv
      <4>2. current + HEADER \in DOMAIN held
        BY <1>1, <3>1 DEF Grant
      <4>3. (current + HEADER) - HEADER = current
        BY <4>1, KHeapAssumption
      <4> QED BY <1>1, <4>1, <4>2, <4>3 DEF HeapInv, HeldInv
    <3> QED BY <3>1
  <2> QED BY <1>1, <2>1 DEF HeapNext, Step, kheap_init, kmalloc, Skip, Merge, Advance, Merged, kfree
<1>2. ASSUME HeapInv, ReturnNull, heap_head # NULL PROVE Full
  <2>1. \A x \in DOMAIN heap : ~fits(x) /\ ~merges(x)
    BY <1>2 DEF ReturnNull, HeapInv, PassedInv, MergedInv
  <2>2. size \in Nat /\ HEADER \in Nat \ {0} /\ HEAP_SIZE \in Nat
    BY <1>2, KHeapAssumption, RoundedFacts DEF ReturnNull, HeapInv, CallInv
  <2>3. ASSUME NEW a \in 0 .. (HEAP_SIZE - HEADER - size),
               (a .. (a + HEADER + size - 1)) \cap Used = {}
        PROVE  FALSE
    <3>1. a \in Nat /\ a + HEADER + size <= HEAP_SIZE /\ a \in Address
      BY <2>2, <2>3 DEF Address
    <3>2. PICK x \in DOMAIN heap : x <= a /\ a < EndIn(heap, x)
      BY <1>2, <3>1 DEF HeapInv, CoverInv
    <3>3. /\ x \in Nat /\ EndIn(heap, x) \in Nat /\ heap[x].size \in Nat
          /\ EndIn(heap, x) = x + HEADER + heap[x].size
      BY <1>2, BlockFacts DEF HeapInv
    <3>4. ASSUME NEW b \in DOMAIN heap, ~heap[b].is_free, NEW y \in Nat,
                 b <= y, y < EndIn(heap, b), a <= y, y < a + HEADER + size
          PROVE  FALSE
      <4>1. b \in Nat /\ EndIn(heap, b) \in Nat
        BY <1>2, BlockFacts DEF HeapInv
      <4>2. y \in b .. (EndIn(heap, b) - 1)
        BY <3>4, <4>1
      <4>3. y \in Used
        BY <3>4, <4>2 DEF Used, end, EndIn
      <4>4. y \in a .. (a + HEADER + size - 1)
        BY <2>2, <3>1, <3>4
      <4> QED BY <2>3, <4>3, <4>4
    <3>5. heap[x].is_free
      BY <2>2, <3>1, <3>2, <3>4
    <3>6. heap[x].size < size
      BY <2>1, <2>2, <3>3, <3>5 DEF fits
    <3>7. EndIn(heap, x) < a + HEADER + size
      BY <2>2, <3>1, <3>2, <3>3, <3>6
    <3>8. EndIn(heap, x) < HEAP_SIZE
      BY <2>2, <3>1, <3>3, <3>7
    <3>9. /\ heap[x].next \in DOMAIN heap /\ heap[x].next = EndIn(heap, x)
          /\ heap[x].next # NULL
      BY <1>2, <2>2, <3>3, <3>8 DEF HeapInv, BlocksInv
    <3>10. ~heap[heap[x].next].is_free
      BY <2>1, <3>5, <3>9 DEF merges
    <3>11. heap[x].next < EndIn(heap, heap[x].next)
      BY <1>2, <3>9, BlockFacts DEF HeapInv
    <3> QED BY <3>1, <3>2, <3>3, <3>4, <3>7, <3>9, <3>10, <3>11
  <2> QED BY <2>3
<1>3. HeapInv /\ [HeapNext]_heapVars => [Failed => Full]_heapVars
  BY <1>1, <1>2
<1> QED BY HeapAlways, <1>3, PTL DEF HeapSpec, FailsOnlyIfFull

=============================================================================
