----------------------------- MODULE MCFatFile -----------------------------
(* Files of up to eight bytes for TLC: two clusters of two sectors of two
   bytes, so that a call can stay in a sector, cross into the next, cross into
   the next cluster, and run out of clusters. *)
EXTENDS FatFile

MCByte == 0 .. 2

AllModes == {{"READ", "WRITE"}, {"WRITE", "APPEND"}, {"READ", "WRITE", "TRUNC"}}
ReadWrite == {{"READ", "WRITE"}}

(* One byte, and enough to cross a sector or two; no byte equals the one beside
   it or the one on the disk. *)
MCData == {<<1>>, <<1, 2, 1>>}
MCSizes == {0, 3, 8}
MCLengths == {3}
MCOffsets == {0, 3, 7}
EmptySize == {0}
FiveBytes == {5}

=============================================================================
