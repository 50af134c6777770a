------------------------------ MODULE Console ------------------------------
(***************************************************************************)
(* The line editor in shell_loop, src/src/kernel/shell.c, on the text      *)
(* screen.  A step takes one character from keyboard_getchar (Keyboard     *)
(* shows that it is a queue, so that any character may come next) and does *)
(* all the loop does with it.  What a command prints is one of Outputs;    *)
(* which command does what is in Commands.                                 *)
(***************************************************************************)
EXTENDS Terminal, SequencesExt

CONSTANTS
  Keys,               \* the printable characters that are typed
  BufSize,            \* sizeof(cmdbuf)
  Outputs,            \* what commands print
  MaxText             \* bound on the characters on the paper

ASSUME ConsoleAssumption ==
  /\ ">" \in Glyphs /\ Keys \subseteq Glyphs /\ BufSize \in Nat \ {0} /\ MaxText \in Nat
  /\ \A s \in Outputs : s \in Seq(Glyphs \cup {"\n"})

VARIABLES
  terminal,           \* the statics of tty.c
  cmdbuf,             \* its first cmdlen characters
  paper               \* history: what was printed since the screen was cleared
                      \* and not erased, as on an endless roll

vars == <<terminal, cmdbuf, paper>>

prompt == <<">", " ">>

Init ==
  /\ \E s \in Outputs :
       /\ terminal = terminal_write(terminal_initialize, s \o prompt)
       /\ paper = s \o prompt
  /\ cmdbuf = <<>>

room == Len(cmdbuf) < BufSize - 1

Type(c) ==
  /\ Len(paper) < MaxText
  /\ room
  /\ terminal' = terminal_putchar(terminal, c)
  /\ cmdbuf' = Append(cmdbuf, c)
  /\ paper' = Append(paper, c)

(* Mutant: the column is not looked at. *)
erasable_line == cmdbuf # <<>>

(* Mutant: the length of the line is not looked at. *)
erasable_column == terminal.column > 2

(* On the rows a line goes on to, its first characters can no longer be erased. *)
erasable == terminal.column > 2 /\ cmdbuf # <<>>

Backspace ==
  /\ erasable
  /\ terminal' = terminal_backspace(terminal)
  /\ cmdbuf' = SubSeq(cmdbuf, 1, Len(cmdbuf) - 1)
  /\ paper' = Front(paper)

(* The turns of the loop that change nothing: a 0, a character behind the end
   of the buffer, a backspace where the column forbids it. *)
Ignore == ~(room /\ erasable) /\ UNCHANGED vars

(* process_command runs between the new line and the next prompt; of an empty
   line it makes nothing. *)
Enter ==
  /\ Len(paper) < MaxText
  /\ \E s \in IF cmdbuf = <<>> THEN {<<>>} ELSE Outputs :
       LET out == <<"\n">> \o s \o prompt IN
       /\ terminal' = terminal_write(terminal, out)
       /\ paper' = paper \o out
  /\ cmdbuf' = <<>>

(* The command "clear". *)
EnterClear ==
  /\ cmdbuf # <<>>
  /\ terminal' = terminal_write(terminal_clear, prompt)
  /\ paper' = prompt
  /\ cmdbuf' = <<>>

Next == Backspace \/ Ignore \/ Enter \/ EnterClear \/ \E c \in Keys : Type(c)

Spec == Init /\ [][Next]_vars

-----------------------------------------------------------------------------
(* Properties. *)

(* Where each character of a text stands, counted in cells, and behind the last
   one where the next will: a new line goes on at the next multiple of the
   width. *)
Places(text) ==
  LET place[k \in 0 .. Len(text)] ==
        IF k = 0 THEN 0
        ELSE IF text[k] = "\n" THEN (place[k - 1] \div VGA_WIDTH + 1) * VGA_WIDTH
        ELSE place[k - 1] + 1
  IN  place

Shows(t, text) ==
  \E place \in {Places(text)} :
  LET end == place[Len(text)]
      y == end \div VGA_WIDTH
      top == IF y < VGA_HEIGHT THEN 0 ELSE y - (VGA_HEIGHT - 1)
      at(r, x) == {text[k] : k \in {j \in 1 .. Len(text) :
                     text[j] # "\n" /\ place[j - 1] = (top + r) * VGA_WIDTH + x}}
  IN  /\ t.row = y - top /\ t.column = end % VGA_WIDTH
      /\ t.buffer =
           [r \in Rows |-> [x \in Columns |->
              IF at(r, x) = {} THEN " " ELSE CHOOSE c \in at(r, x) : TRUE]]

(* The screen shows the last rows of the paper, the cursor where the next
   character goes: nothing printed or typed is lost, doubled or left behind by
   wrapping, scrolling and erasing, whatever column the prompt is at. *)
ScreenShowsPaper == Shows(terminal, paper)

(* What Enter hands to process_command is what stands behind the last prompt,
   and the prompt is still there. *)
LineIsShown == IsSuffix(prompt \o cmdbuf, paper) /\ Len(cmdbuf) < BufSize

=============================================================================
