-------------------------- MODULE MCFatDirectory --------------------------
(* Directories of up to three clusters for TLC, with three slots to a sector:
   the two slots of a short name and the three of a long one fall into one
   sector or straddle two, and fill or overflow a cluster. *)
EXTENDS FatDirectory

CONSTANTS a, b, c     \* names; b takes two long-name slots, the others one

MCNames == {a, b, c}
MCLfns == [n \in MCNames |-> IF n = b THEN 2 ELSE 1]

(* The 8.3 forms of two names are the same: put_sfn_name turns every digit, for
   one, into an underscore. *)
MCShort == [n \in MCNames |-> IF n = c THEN "C" ELSE "A_"]

(* Directories that another system has filled to the end of the cluster: no
   slot is left for an end marker. The name without long-name slots is from a
   system that makes none. *)
FullClusters == {<<lfn(b, 2), lfn(b, 1), sfn(b)>>, <<sfn(c), lfn(a, 1), sfn(a)>>,
                 <<Free, Free, sfn(c)>>}
AnyDirectory == {<<>>} \cup FullClusters

=============================================================================
