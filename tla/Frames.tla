------------------------------- MODULE Frames -------------------------------
(***************************************************************************)
(* The physical memory manager, src/src/mm/pmm.c: one bit for each frame   *)
(* of memory and a count of the free ones.  Paging composes its operators  *)
(* with those who ask for frames.  A frame is known by its number, address *)
(* \div FRAME_SIZE; frame 0 is what pmm_alloc_frame returns as NULL.       *)
(***************************************************************************)
EXTENDS Integers, FiniteSets

CONSTANTS
  first_frame,    \* the frames below hold the kernel and are marked by pmm_init
  total_frames    \* the frames pmm_alloc_frame hands out, from first_frame on

(* pmm_init(0x00400000, 0x02000000) makes them 1024 and 7168. *)
ASSUME FramesAssumption ==
  /\ first_frame \in Nat \ {0}
  /\ total_frames \in Nat \ {0}

Frame == 0 .. (first_frame + total_frames - 1)
Managed == first_frame .. (first_frame + total_frames - 1)
NoFrame == 0

VARIABLES
  frame_bitmap,   \* the frames whose bit is set
  free_frames

pmmVars == <<frame_bitmap, free_frames>>

pmm_init ==
  /\ frame_bitmap = 0 .. (first_frame - 1)
  /\ free_frames = total_frames

(* find_free_frame takes the first one. *)
is_first_free(f) ==
  /\ f \in Managed \ frame_bitmap
  /\ \A g \in Managed \ frame_bitmap : f <= g

(* Mutant: the bit of the frame is not set. *)
pmm_alloc_unmarked(f) ==
  \/ /\ free_frames > 0
     /\ is_first_free(f)
     /\ free_frames' = free_frames - 1
     /\ UNCHANGED frame_bitmap
  \/ /\ free_frames = 0 \/ Managed \subseteq frame_bitmap
     /\ f = NoFrame
     /\ UNCHANGED pmmVars

(* pmm_alloc_frame returns f. *)
pmm_alloc_frame(f) ==
  \/ /\ free_frames > 0
     /\ is_first_free(f)
     /\ frame_bitmap' = frame_bitmap \cup {f}
     /\ free_frames' = free_frames - 1
  \/ /\ free_frames = 0 \/ Managed \subseteq frame_bitmap
     /\ f = NoFrame
     /\ UNCHANGED pmmVars

(* Mutant: a frame that is not in use is counted all the same. *)
pmm_free_frame_unchecked(f) ==
  /\ frame_bitmap' = frame_bitmap \ {f}
  /\ free_frames' = free_frames + 1

pmm_free_frame(f) ==
  \/ /\ f \in frame_bitmap
     /\ frame_bitmap' = frame_bitmap \ {f}
     /\ free_frames' = free_frames + 1
  \/ /\ f \notin frame_bitmap
     /\ UNCHANGED pmmVars

=============================================================================
