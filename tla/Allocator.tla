----------------------------- MODULE Allocator -----------------------------
(***************************************************************************)
(* What kmalloc and kfree promise their callers: memory that is theirs     *)
(* until they free it.  KHeap implements it.                               *)
(***************************************************************************)
EXTENDS Naturals, Functions

CONSTANTS
  HeapBytes,    \* the bytes there are
  Requests      \* how many of them a caller may ask for

VARIABLE held   \* [pointers handed out -> the bytes asked for]

Bytes(p, n) == p .. (p + n - 1)

Init == held = [p \in {} |-> 0]

kmalloc(p, n) ==
  /\ p \notin DOMAIN held
  /\ Bytes(p, n) \subseteq 0 .. (HeapBytes - 1)
  /\ \A q \in DOMAIN held : Bytes(p, n) \cap Bytes(q, held[q]) = {}
  /\ held' = [q \in DOMAIN held \cup {p} |-> IF q = p THEN n ELSE held[q]]

kfree(p) ==
  /\ p \in DOMAIN held
  /\ held' = Restrict(held, DOMAIN held \ {p})

Next ==
  \/ \E p \in 0 .. HeapBytes, n \in Requests : kmalloc(p, n)
  \/ \E p \in DOMAIN held : kfree(p)

Spec == Init /\ [][Next]_held

=============================================================================
