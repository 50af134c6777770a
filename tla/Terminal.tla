------------------------------ MODULE Terminal ------------------------------
(***************************************************************************)
(* The text screen, src/src/driver/tty.c, as operators on the record of    *)
(* its statics.  Rows and columns count from 0.  Colours, the hardware     *)
(* cursor and the copy sent to the serial port are left out: nothing reads *)
(* them.                                                                   *)
(***************************************************************************)
EXTENDS Integers, Sequences

CONSTANTS
  VGA_WIDTH, VGA_HEIGHT,
  Glyphs              \* what a cell can show, a blank included

ASSUME TerminalAssumption ==
  /\ VGA_WIDTH \in Nat \ {0} /\ VGA_HEIGHT \in Nat \ {0}
  /\ " " \in Glyphs /\ "\n" \notin Glyphs

Rows == 0 .. (VGA_HEIGHT - 1)
Columns == 0 .. (VGA_WIDTH - 1)

BlankRow == [x \in Columns |-> " "]

terminal_clear == [row |-> 0, column |-> 0, buffer |-> [y \in Rows |-> BlankRow]]
terminal_initialize == terminal_clear

terminal_scroll(t) ==
  [t EXCEPT !.row = VGA_HEIGHT - 1,
            !.buffer = [y \in Rows |-> IF y + 1 \in Rows THEN t.buffer[y + 1] ELSE BlankRow]]

terminal_putentryat(t, c, x, y) == [t EXCEPT !.buffer[y][x] = c]

(* Mutant: the screen scrolls one row late, when it is written below it. *)
next_row_late(t) ==
  LET u == [row |-> t.row + 1, column |-> 0, buffer |-> t.buffer] IN
  IF u.row > VGA_HEIGHT THEN terminal_scroll(u) ELSE u

next_row(t) ==
  LET u == [row |-> t.row + 1, column |-> 0, buffer |-> t.buffer] IN
  IF u.row = VGA_HEIGHT THEN terminal_scroll(u) ELSE u

terminal_putchar(t, c) ==
  IF c = "\n" THEN next_row(t)
  ELSE LET u == [terminal_putentryat(t, c, t.column, t.row) EXCEPT !.column = @ + 1] IN
       IF u.column = VGA_WIDTH THEN next_row(u) ELSE u

terminal_write(t, data) ==
  LET written[k \in 0 .. Len(data)] ==
        IF k = 0 THEN t ELSE terminal_putchar(written[k - 1], data[k])
  IN  written[Len(data)]

(* In the first column the unsigned column wraps; the only caller keeps away
   from there. *)
terminal_backspace(t) ==
  LET u == [t EXCEPT !.column = @ - 1] IN terminal_putentryat(u, " ", u.column, u.row)

=============================================================================
