------------------------------ MODULE NameTree ------------------------------
(***************************************************************************)
(* What the FAT driver promises of the tree of files and directories: a    *)
(* path comes into the tree or leaves it as a whole, a directory stays as  *)
(* long as something is in it, and after a power cut the tree is the one   *)
(* of a moment before it, short of at most the last change.  FatTree       *)
(* implements it.                                                          *)
(***************************************************************************)
EXTENDS Sequences

Seqs == INSTANCE SequencesExt

VARIABLES
  tree,               \* the paths there are, each with its kind; <<>> is the root
  stable              \* the tree that is on the disk

treeVars == <<tree, stable>>

Init == <<<<>>, "dir">> \in tree /\ stable = tree

in(p) == \E e \in tree : e[1] = p
holds(p) == \E e \in tree : e[1] # <<>> /\ Seqs!Front(e[1]) = p

(* A path comes into a directory, or leaves it. *)
Create ==
  \E e \in tree' \ tree :
    /\ tree' = tree \cup {e}
    /\ ~in(e[1]) /\ <<Seqs!Front(e[1]), "dir">> \in tree

Remove ==
  \E e \in tree \ tree' :
    /\ tree' = tree \ {e}
    /\ e[1] # <<>> /\ ~holds(e[1])

(* What was there goes to the disk before a path comes or goes. *)
Flush == stable' = tree /\ (UNCHANGED tree \/ Create \/ Remove)

Crash == tree' = stable /\ UNCHANGED stable

Next == Flush \/ Crash

Spec == Init /\ [][Next]_treeVars

=============================================================================
