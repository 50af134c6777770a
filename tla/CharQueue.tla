----------------------------- MODULE CharQueue -----------------------------
(***************************************************************************)
(* What the keyboard driver promises the shell: a first-in first-out queue *)
(* that holds at most Limit characters and hands each out once.  Keyboard  *)
(* implements it; a character that is not put in leaves no trace here, and *)
(* which may be lost is Keyboard's LosesOnlyWhenFull.                      *)
(***************************************************************************)
EXTENDS Naturals, Sequences

CONSTANTS Char, Limit

VARIABLES queue, taken   \* what waits, and what has been handed out, in order

queueVars == <<queue, taken>>

Init == queue = <<>> /\ taken = <<>>

Put(c) ==
  /\ Len(queue) < Limit
  /\ queue' = Append(queue, c)
  /\ UNCHANGED taken

Take ==
  /\ queue # <<>>
  /\ queue' = Tail(queue)
  /\ taken' = Append(taken, Head(queue))

Next == (\E c \in Char : Put(c)) \/ Take

Spec == Init /\ [][Next]_queueVars /\ WF_queueVars(Take)

=============================================================================
