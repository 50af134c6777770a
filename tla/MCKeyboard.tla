----------------------------- MODULE MCKeyboard -----------------------------
(* A ring of three slots, of which two can be in use, and enough scancodes for
   it to overflow and for the indices to come round. *)
EXTENDS Keyboard

CONSTANT k
MCKeys == {k}

=============================================================================
