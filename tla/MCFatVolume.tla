---------------------------- MODULE MCFatVolume ----------------------------
(* A small volume for TLC. A FAT of seven entries in two sectors, so that a
   chain link can fall into the sector of the entry it points at or into
   another; cluster 4 is bad, and the three that are left for data fill up
   with two files. *)
EXTENDS FatVolume

CONSTANTS a, b     \* file names

MCNames == {a, b}

(* Both directory entries in one sector. *)
OneSector == [n \in MCNames |-> 0]

=============================================================================
