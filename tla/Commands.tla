------------------------------ MODULE Commands ------------------------------
(***************************************************************************)
(* From the line that was typed to the call of the FAT driver:             *)
(* process_command in src/src/kernel/shell.c, the commands of              *)
(* src/src/kernel/commands.c and how follow_path in src/src/fs/fat.c cuts  *)
(* a path into names.  A step executes one line.                           *)
(*                                                                         *)
(* Text is a sequence of characters, but a command's word and the name of  *)
(* the volume are one character each, a tab is a blank, and the lengths at *)
(* which the buffers of 256 characters end are not reached.  The volume is *)
(* the tree of paths that FatTree implements, without short entries, and   *)
(* may refuse to create (FAT_ERR_FULL).                                    *)
(***************************************************************************)
EXTENDS Integers, Sequences, FiniteSets, SequencesExt

CONSTANTS
  Lines,              \* what is typed
  MaxChanges          \* bound on the number of paths that are created

ASSUME CommandsAssumption ==
  /\ \A s \in Lines : s \in Seq(STRING) /\ s # <<>>
  /\ MaxChanges \in Nat

VARIABLES
  g_cwd,
  tree,               \* the paths there are, each with its kind; <<>> is the root
  ran,                \* the last line, after parse_redirection
  asked,              \* the path that the driver was called with, or NoPath
  took                \* whether that call succeeded

commandsVars == <<g_cwd, tree, ran, asked, took>>

NoPath == <<>>                        \* no call
NoFile == <<"NULL">>                  \* no redirection: output_file is NULL
VOLUME_PREFIX == <<"/", "root">>

CommandsInit ==
  /\ g_cwd = VOLUME_PREFIX
  /\ tree = {<<<<>>, "dir">>}
  /\ ran = [cmd |-> <<>>, file |-> NoFile, append |-> FALSE]
  /\ asked = NoPath /\ took = FALSE

-----------------------------------------------------------------------------
(* Text. *)

skip_blanks(s) == LET k == SelectInSeq(s, LAMBDA c : c # " ") IN
                  IF k = 0 THEN <<>> ELSE SubSeq(s, k, Len(s))
cut_last(s, unwanted) == LET k == SelectLastInSeq(s, LAMBDA c : c \notin unwanted) IN
                         SubSeq(s, 1, k)
trim_whitespace(s) == cut_last(skip_blanks(s), {" "})

(* The first ">>" anywhere in the line counts before any ">". *)
parse_redirection(s) ==
  LET double == {k \in 1 .. (Len(s) - 1) : s[k] = ">" /\ s[k + 1] = ">"}
      k == IF double # {} THEN CHOOSE i \in double : \A j \in double : i <= j
           ELSE SelectInSeq(s, LAMBDA c : c = ">")
      rest == SubSeq(s, k + (IF double # {} THEN 2 ELSE 1), Len(s))
  IN  [cmd |-> trim_whitespace(IF k = 0 THEN s ELSE SubSeq(s, 1, k - 1)),
       file |-> IF k = 0 THEN NoFile
                ELSE cut_last(trim_whitespace(rest),
                              IF double # {} THEN {" "} ELSE {" ", ">"}),
       append |-> double # {}]

(* Mutant: the separator is left out. *)
build_path_bare(name) == g_cwd \o name

build_path(name) == g_cwd \o (IF Last(g_cwd) # "/" THEN <<"/">> ELSE <<>>) \o name

(* The names in a path, the volume's first: what is between slashes. Each
   character ends the name before it or goes on with it. *)
closed(t) == IF t.name = <<>> THEN t.names ELSE Append(t.names, t.name)

scanned(p) ==
  LET scan[k \in 0 .. Len(p)] ==
        IF k = 0 THEN [names |-> <<>>, name |-> <<>>]
        ELSE IF p[k] = "/" THEN [names |-> closed(scan[k - 1]), name |-> <<>>]
        ELSE [names |-> scan[k - 1].names, name |-> Append(scan[k - 1].name, p[k])]
  IN  scan

subpaths(p) == closed(scanned(p)[Len(p)])

-----------------------------------------------------------------------------
(* The calls of the driver. *)

found(p, kind) == <<Tail(subpaths(p)), kind>> \in tree
volume(p) == p[1] = "/" /\ Head(subpaths(p)) = <<"root">>

fat_dir_open(p) == volume(p) /\ found(p, "dir")

exists(p) == volume(p) /\ (found(p, "dir") \/ found(p, "file"))

(* A path that is there is opened, or left alone, whatever its kind. *)
creates(p, kind) ==
  /\ asked' = p
  /\ LET names == Tail(subpaths(p)) IN
     IF exists(p) THEN took' = TRUE /\ UNCHANGED tree
     ELSE \/ /\ <<Front(names), "dir">> \in tree
             /\ Cardinality(tree) <= MaxChanges
             /\ took' = TRUE /\ tree' = tree \cup {<<names, kind>>}
          \/ took' = FALSE /\ UNCHANGED tree

-----------------------------------------------------------------------------
(* The commands. *)

is(r, word) == r.cmd = <<word>>
starts(r, word) == Len(r.cmd) > 1 /\ SubSeq(r.cmd, 1, 2) = <<word, " ">>
arg(r) == SubSeq(r.cmd, 3, Len(r.cmd))

asks(p, ok) == asked' = p /\ took' = ok /\ UNCHANGED tree
none == asks(NoPath, FALSE)

cmd_ls(r) ==
  /\ is(r, "ls")
  /\ asks(g_cwd, fat_dir_open(g_cwd)) /\ UNCHANGED g_cwd

cmd_cat(r) ==
  /\ starts(r, "cat")
  /\ LET p == build_path(trim_whitespace(arg(r))) IN asks(p, exists(p))
  /\ UNCHANGED g_cwd

cmd_echo(r) ==
  /\ starts(r, "echo")
  /\ \/ r.file \in {NoFile, <<>>} /\ none
     \/ r.file \notin {NoFile, <<>>} /\ creates(build_path(r.file), "file")
  /\ UNCHANGED g_cwd

cmd_touch(r) == starts(r, "touch") /\ creates(build_path(arg(r)), "file") /\ UNCHANGED g_cwd
cmd_mkdir(r) == starts(r, "mkdir") /\ creates(build_path(arg(r)), "dir") /\ UNCHANGED g_cwd

(* Mutant: a slash at the end counts as a separator. *)
up_to_slash ==
  LET k == SelectLastInSeq(g_cwd, LAMBDA c : c = "/") IN
  IF k <= Len(VOLUME_PREFIX) + 1 THEN VOLUME_PREFIX ELSE SubSeq(g_cwd, 1, k - 1)

(* One slash at the end is passed over, of two the first is cut off. *)
up ==
  LET s == IF Last(g_cwd) = "/" THEN Front(g_cwd) ELSE g_cwd
      k == SelectLastInSeq(s, LAMBDA c : c = "/")
  IN  IF k <= Len(VOLUME_PREFIX) + 1 THEN VOLUME_PREFIX ELSE SubSeq(s, 1, k - 1)

(* Mutant: the current path is replaced before the directory is opened. *)
entered_first(p) == g_cwd' = p

entered(p) == g_cwd' = IF fat_dir_open(p) THEN p ELSE g_cwd

cmd_cd(r) ==
  /\ is(r, "cd") \/ starts(r, "cd")
  /\ LET stripped == trim_whitespace(arg(r))
         name == IF stripped = <<>> THEN <<"/">> ELSE stripped
         p == IF name[1] = "/" THEN VOLUME_PREFIX \o name ELSE build_path(name)
     IN  \/ name = <<".">> /\ none /\ UNCHANGED g_cwd
         \/ name = <<".", ".">> /\ none /\ g_cwd' = up
         \/ name \notin {<<".">>, <<".", ".">>} /\ asks(p, fat_dir_open(p)) /\ entered(p)

(* help, clear, pwd and whatever is no command. *)
other(r) ==
  /\ ~is(r, "ls") /\ ~is(r, "cd")
  /\ \A w \in {"cat", "echo", "touch", "mkdir", "cd"} : ~starts(r, w)
  /\ none /\ UNCHANGED g_cwd

process_command(s) ==
  LET r == parse_redirection(s) IN
  /\ ran' = r
  /\ \/ cmd_ls(r) \/ cmd_cat(r) \/ cmd_echo(r) \/ cmd_touch(r) \/ cmd_mkdir(r)
     \/ cmd_cd(r) \/ other(r)

CommandsNext == \E s \in Lines : process_command(s)

CommandsSpec == CommandsInit /\ [][CommandsNext]_commandsVars

-----------------------------------------------------------------------------
(* Properties. *)

(* The directory that g_cwd names, in terms of the tree. *)
cwd == Tail(subpaths(g_cwd))

(* The current path always leads to a directory of the volume, so that ls
   finds it: cd keeps only what it could open, and ".." cuts it at a name. *)
CwdOpens == fat_dir_open(g_cwd)

(* Where "cd s" is meant to lead from the directory d. "." and ".." are no
   names for the driver: they mean themselves only alone. *)
meant(d, s) ==
  CASE s = <<>> \/ Head(s) = "/" -> subpaths(s)
    [] s = <<".">> -> d
    [] s = <<".", ".">> -> IF d = <<>> THEN d ELSE Front(d)
    [] OTHER -> d \o subpaths(s)

(* cd leads where it is meant to if that is a directory, and else nowhere; but
   ".." stays where the current path ends in two slashes. Nothing else leads
   anywhere. *)
CdLeads ==
  LET isCd == is(ran', "cd") \/ starts(ran', "cd")
      s == trim_whitespace(arg(ran'))
      to == meant(cwd, s)
      stuck == s = <<".", ".">> /\ IsSuffix(<<"/", "/">>, g_cwd)
  IN  cwd' = IF isCd /\ ~stuck /\ <<to, "dir">> \in tree THEN to ELSE cwd

CdAsMeant == [][CdLeads]_commandsVars

(* What a command creates, opens or lists is below the current directory, under
   the names of its argument, one that begins with a slash included, and nothing
   else is created.  By an argument without blanks in front touch, mkdir, echo and
   cat mean the same path.  By one with blanks in front they need not, and do not:
   either path is allowed here, as no one has said which is right. *)
ArgumentBelow ==
  LET w == Head(ran'.cmd)
      s == IF w = "echo" THEN ran'.file ELSE arg(ran') IN
  asked' # NoPath /\ w # "cd" =>
    /\ volume(asked')
    /\ \E t \in {s, trim_whitespace(s)} : Tail(subpaths(asked')) = cwd \o subpaths(t)
    /\ \A e \in tree' \ tree : e[1] = Tail(subpaths(asked'))

ArgumentsBelowCwd == [][ArgumentBelow]_commandsVars

=============================================================================
