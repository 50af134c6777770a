------------------------------ MODULE MCKHeap ------------------------------
(* A heap of 92 bytes for TLC: at most seven blocks of no byte, four of 8.  With
   the headers of 12 bytes a request may be met exactly, leave a rest too small
   to split off, or leave a block; the last one wraps to 0. *)
EXTENDS KHeap

MCRequests == {8, 17, 511}

=============================================================================
