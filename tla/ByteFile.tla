------------------------------ MODULE ByteFile ------------------------------
(***************************************************************************)
(* What a file handle promises its user: a sequence of bytes, a position   *)
(* and the bytes the running read has delivered.  FatFile implements it.   *)
(* The promise is the one src/src/fs/fat.c keeps: a write to an empty file *)
(* is a stuttering step, and on a full volume the bytes of a write that    *)
(* would have extended the file are dropped.                               *)
(***************************************************************************)
EXTENDS Integers, Sequences

CONSTANT Byte

VARIABLES
  content,   \* the bytes of the file
  pos,       \* the offset of the handle
  opened,    \* whether there is a handle
  out        \* what the running read has delivered so far

byteVars == <<content, pos, opened, out>>

Init ==
  /\ content \in Seq(Byte)
  /\ pos = 0 /\ opened = FALSE /\ out = <<>>

Open(truncate, append) ==
  /\ ~opened /\ opened'
  /\ content' = IF truncate THEN <<>> ELSE content
  /\ pos' = IF append THEN Len(content') ELSE 0
  /\ UNCHANGED out

Close ==
  /\ opened /\ ~opened'
  /\ pos' = 0
  /\ UNCHANGED <<content, out>>

(* An empty file has one position; a position past the end is legal. *)
Seek ==
  /\ opened
  /\ pos' \in IF content = <<>> THEN {0} ELSE Nat
  /\ UNCHANGED <<content, opened, out>>

(* A read returns what it has delivered. *)
EndRead ==
  /\ opened
  /\ out' = <<>>
  /\ UNCHANGED <<content, pos, opened>>

(* Bytes are delivered in order, none twice and none left out. The position
   stays behind only if they are the last of the file. *)
Deliver ==
  /\ opened
  /\ \E n \in 1 .. (Len(content) - pos) :
       /\ out' = out \o SubSeq(content, pos + 1, pos + n)
       /\ pos' = pos + n \/ (pos' = pos /\ pos + n = Len(content))
  /\ UNCHANGED <<content, opened>>

(* A write past the end makes the bytes in between part of the file; they are
   whatever the clusters held. *)
Extend ==
  /\ opened
  /\ pos > Len(content)
  /\ content' \in [1 .. pos -> Byte]
  /\ \A i \in 1 .. Len(content) : content'[i] = content[i]
  /\ UNCHANGED <<pos, opened, out>>

(* The bytes from the old position to the new one are written, no other byte
   of the file changes. *)
Write ==
  /\ opened /\ content # <<>>
  /\ pos' > pos
  /\ content' \in [1 .. (IF pos' > Len(content) THEN pos' ELSE Len(content)) -> Byte]
  /\ \A i \in 1 .. Len(content) :
       i \notin (pos + 1) .. pos' => content'[i] = content[i]
  /\ UNCHANGED <<opened, out>>

(* No room for the next cluster: the bytes that lie within the file are
   written and the position stays. *)
WriteFull ==
  /\ opened
  /\ content' \in [1 .. Len(content) -> Byte]
  /\ \A i \in 1 .. Len(content) : i <= pos => content'[i] = content[i]
  /\ UNCHANGED <<pos, opened, out>>

Next ==
  \/ \E truncate, append \in BOOLEAN : Open(truncate, append)
  \/ Close \/ Seek \/ EndRead \/ Deliver \/ Extend \/ Write \/ WriteFull

Spec == Init /\ [][Next]_byteVars

=============================================================================
