------------------------------ MODULE Keyboard ------------------------------
(***************************************************************************)
(* The keyboard driver, src/src/driver/keyboard.c, between the IRQ1        *)
(* handler that fills the ring buffer and the kernel thread that waits in  *)
(* keyboard_getchar, with the interrupt dispatch of idt.c that both depend *)
(* on.  The thread can be interrupted between any two of its accesses to   *)
(* the ring; a handler runs with interrupts disabled.                      *)
(*                                                                         *)
(* External: the user, the keyboard controller and the interrupt           *)
(* controller.  The keyboard controller offers one scancode at a time at   *)
(* port 0x60 and raises IRQ1 once for it; the next is offered when it has  *)
(* been read.  A letter stands for a printable key; a character carries    *)
(* the number of the key press it comes from.                              *)
(***************************************************************************)
EXTENDS Integers, Sequences

CONSTANTS
  Keys,          \* the keys with an entry in scancode_to_ascii
  Size,          \* KEYBOARD_BUFFER_SIZE
  MaxTyped       \* bound on the number of scancodes

ASSUME KeyboardAssumption ==
  /\ Size \in Nat /\ Size > 1
  /\ MaxTyped \in Nat

VARIABLES
  scancodes,     \* what the keyboard controller holds, port 0x60 first
  raised,        \* IRQ1 has been raised for the scancode at the port
  irq1,          \* the interrupt controller holds a request
  installed,     \* interrupt_handlers[33] # 0
  keyboard_buffer, buffer_read, buffer_write, shift_pressed,
  pc,            \* the kernel thread: in kmain, or where in keyboard_getchar
  c,             \* the local of keyboard_getchar
  got,           \* history: the characters it has returned
  meant,         \* history: the characters the user meant, one for each press
  shift_held,    \* whether the user holds a shift key
  typed          \* history: the number of scancodes

deviceVars == <<scancodes, raised, irq1>>
ringVars == <<keyboard_buffer, buffer_read, buffer_write, shift_pressed>>
userVars == <<meant, shift_held, typed>>
vars == <<scancodes, raised, irq1, installed, keyboard_buffer, buffer_read, buffer_write,
          shift_pressed, pc, c, got, meant, shift_held, typed>>

Char == [key : Keys, shifted : BOOLEAN, n : 1 .. MaxTyped]
NoChar == [key |-> "none", shifted |-> FALSE, n |-> 0]     \* 0 in the buffer

Init ==
  /\ scancodes = <<>> /\ raised = FALSE /\ irq1 = FALSE
  /\ installed = FALSE
  /\ keyboard_buffer = [i \in 0 .. (Size - 1) |-> NoChar]
  /\ buffer_read = 0 /\ buffer_write = 0 /\ shift_pressed = FALSE
  /\ pc = "kmain" /\ c = NoChar
  /\ got = <<>> /\ meant = <<>> /\ shift_held = FALSE /\ typed = 0

-----------------------------------------------------------------------------
(* External: the user and the keyboard controller. *)

Sends(code) ==
  /\ typed < MaxTyped
  /\ scancodes' = Append(scancodes, code)
  /\ typed' = typed + 1
  /\ UNCHANGED <<raised, irq1, installed, ringVars, pc, c, got>>

Press(k) ==
  /\ Sends([kind |-> "make", key |-> k, n |-> Len(meant) + 1])
  /\ meant' = Append(meant, [key |-> k, shifted |-> shift_held, n |-> Len(meant) + 1])
  /\ UNCHANGED shift_held

(* A key is released, or one is pressed that has no entry in the tables. *)
Other == Sends([kind |-> "other"]) /\ UNCHANGED <<meant, shift_held>>

Shift ==
  /\ Sends([kind |-> IF shift_held THEN "shift up" ELSE "shift down"])
  /\ shift_held' = ~shift_held
  /\ UNCHANGED meant

Raise ==
  /\ scancodes # <<>> /\ ~raised
  /\ raised' = TRUE /\ irq1' = TRUE
  /\ UNCHANGED <<scancodes, installed, ringVars, pc, c, got, userVars>>

-----------------------------------------------------------------------------
(* irq_handler: the interrupt is acknowledged, and the handler called if there
   is one. hlt ends with any interrupt. *)

woken == IF pc = "asleep" THEN "check" ELSE pc

(* Mutant: a full ring is not noticed. *)
store_overrun(ch) ==
  /\ keyboard_buffer' = [keyboard_buffer EXCEPT ![buffer_write] = ch]
  /\ buffer_write' = (buffer_write + 1) % Size

(* Mutant: behind the end of the buffer the ring counts as full. *)
store_unwrapped(ch) ==
  LET next_write == (buffer_write + 1) % Size IN
  IF next_write > buffer_read
    THEN /\ keyboard_buffer' = [keyboard_buffer EXCEPT ![buffer_write] = ch]
         /\ buffer_write' = next_write
    ELSE UNCHANGED <<keyboard_buffer, buffer_write>>

(* One slot stays empty, so that a full ring differs from an empty one. *)
store(ch) ==
  LET next_write == (buffer_write + 1) % Size IN
  IF next_write # buffer_read
    THEN /\ keyboard_buffer' = [keyboard_buffer EXCEPT ![buffer_write] = ch]
         /\ buffer_write' = next_write
    ELSE UNCHANGED <<keyboard_buffer, buffer_write>>

(* Mutant: the shift key counts when it is released. *)
shift_late(kind) == kind = "shift up"

(* shift_pressed after a scancode of this kind. *)
shift_after(kind) ==
  IF kind = "shift down" THEN TRUE
  ELSE IF kind = "shift up" THEN FALSE ELSE shift_pressed

keyboard_irq_handler ==
  LET code == Head(scancodes) IN
  /\ scancodes' = Tail(scancodes) /\ raised' = FALSE
  /\ shift_pressed' = shift_after(code.kind)
  /\ IF code.kind = "make"
       THEN store([key |-> code.key, shifted |-> shift_pressed, n |-> code.n])
       ELSE UNCHANGED <<keyboard_buffer, buffer_write>>
  /\ UNCHANGED buffer_read

Irq1 ==
  /\ irq1
  /\ irq1' = FALSE
  /\ IF installed THEN keyboard_irq_handler ELSE UNCHANGED <<scancodes, raised, ringVars>>
  /\ pc' = woken
  /\ UNCHANGED <<installed, c, got, userVars>>

(* Mutant: a tick does not end hlt. *)
TickMasked == pc = "asleep" /\ UNCHANGED vars

(* The timer interrupts a hundred times a second (timer_init(100)). *)
Irq0 ==
  /\ pc = "asleep"
  /\ pc' = "check"
  /\ UNCHANGED <<deviceVars, installed, ringVars, c, got, userVars>>

-----------------------------------------------------------------------------
(* The kernel thread. Interrupts are enabled (sti) before keyboard_init_irq. *)

InitIrq ==
  /\ pc = "kmain"
  /\ buffer_read' = 0 /\ buffer_write' = 0
  /\ installed' = TRUE
  /\ pc' = "check"
  /\ UNCHANGED <<deviceVars, keyboard_buffer, shift_pressed, c, got, userVars>>

Check ==
  /\ pc = "check"
  /\ pc' = IF buffer_read = buffer_write THEN "hlt" ELSE "load"
  /\ UNCHANGED <<deviceVars, installed, ringVars, c, got, userVars>>

(* An interrupt between the check and this step finds nobody to wake. *)
Hlt ==
  /\ pc = "hlt"
  /\ pc' = "asleep"
  /\ UNCHANGED <<deviceVars, installed, ringVars, c, got, userVars>>

Load ==
  /\ pc = "load"
  /\ c' = keyboard_buffer[buffer_read]
  /\ pc' = "advance"
  /\ UNCHANGED <<deviceVars, installed, ringVars, got, userVars>>

(* The slot is released and the character returned; the shell calls again. *)
Advance ==
  /\ pc = "advance"
  /\ buffer_read' = (buffer_read + 1) % Size
  /\ got' = Append(got, c)
  /\ pc' = "check"
  /\ UNCHANGED <<deviceVars, installed, keyboard_buffer, buffer_write, shift_pressed, c, userVars>>

Thread == InitIrq \/ Check \/ Hlt \/ Load \/ Advance
User == (\E k \in Keys : Press(k)) \/ Other \/ Shift
Next == User \/ Raise \/ Irq1 \/ Irq0 \/ Thread

(* The processor executes the thread, the devices raise their interrupts and
   the processor takes them. Nothing obliges the user to type. *)
Spec ==
  /\ Init /\ [][Next]_vars
  /\ WF_vars(Thread) /\ WF_vars(Raise) /\ WF_vars(Irq1) /\ WF_vars(Irq0)

-----------------------------------------------------------------------------
(* Properties. *)

Waiting == (buffer_write - buffer_read) % Size
Queued == [i \in 1 .. Waiting |-> keyboard_buffer[(buffer_read + i - 1) % Size]]

(* What the shell gets, and will get, is what the user meant, shift included,
   in the order of the key presses; each press arrives at most once. *)
AsMeant ==
  LET all == got \o Queued IN
  /\ \A i \in DOMAIN all : all[i] = meant[all[i].n]
  /\ \A i, j \in DOMAIN all : i < j => all[i].n < all[j].n

(* The ring and its two indices are a first-in first-out queue of at most Size - 1
   characters: interrupts between the load and the release of a slot never change
   what is returned, and what is in the ring is handed out. *)
Queue == INSTANCE CharQueue WITH Limit <- Size - 1, queue <- Queued, taken <- got

IsQueue == Queue!Spec

(* The handler loses a character only when Size - 1 of them wait, wherever the
   indices stand and whatever the thread is about; any other goes to the end of
   the ring, as it was meant. *)
LosesOnlyWhenFull ==
  [][Irq1 /\ installed /\ Head(scancodes).kind = "make" =>
       \/ Len(Queued) = Size - 1
       \/ /\ Queued' = Append(Queued, meant[Head(scancodes).n])
          /\ Queued'[Len(Queued')].key = Head(scancodes).key]_vars

(* A character in the ring wakes the thread. The check of the indices and hlt
   are two steps, so that the interrupt may come in between; the thread then
   sleeps until the next timer tick. *)
NoSleepForever == Waiting > 0 /\ pc = "asleep" ~> pc = "load"

=============================================================================
