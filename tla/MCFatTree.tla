----------------------------- MODULE MCFatTree -----------------------------
(* Four clusters beside the root directory, which two directories, one of them
   made longer, and a file fill; three entries in each, so that the first name
   in a directory below the root already needs a second cluster. Names and
   clusters are interchangeable: the properties are safety properties that name
   none. *)
EXTENDS FatTree, TLC

CONSTANTS a, b, root, none, c1, c2, c3, c4

MCNames == {a, b}
MCClusters == {root, c1, c2, c3, c4}

(* The root directory is empty, as after formatting, or holds a file that was
   copied to it, in front of entries no longer in use, or two empty ones. *)
MCInitial ==
  {<<Last>>}
  \cup {<<<<"file", n, c, "short">>, Last, Junk>> :
           n \in MCNames, c \in MCClusters \ {root}}
  \cup {<<<<"file", n[1], none, "long">>, <<"file", n[2], none, "long">>, Last>> :
           n \in {m \in MCNames \X MCNames : m[1] # m[2]}}

MCSymmetry == Permutations(MCNames) \cup Permutations(MCClusters \ {root})

=============================================================================
