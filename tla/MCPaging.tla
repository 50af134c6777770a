------------------------------ MODULE MCPaging ------------------------------
(* Paging for TLC: two directories of one page table with two pages each and two
   clients compete for two frames; frame 0 is reserved. *)
EXTENDS Paging, TLC

CONSTANTS c1, c2, d1, d2

TwoClients == {c1, c2}
TwoDirs == {d1, d2}
ClientSymmetry == Permutations(TwoClients)

(* Two mappings that differ in the frame, in PAGE_RW and in PAGE_USER. *)
kernel_page == [frame |-> 8, flags |-> {"present", "rw"}]
user_page == [frame |-> 9, flags |-> {"present", "user"}]
TwoMappings == {kernel_page, user_page}

(* Once a promise is broken only the clients go on: what is promised all the same
   is about frame_bitmap and free_frames, to which vmm_map does what Take does. *)
AfterFault == Orderly \/ UNCHANGED <<tables, processor>>

=============================================================================
