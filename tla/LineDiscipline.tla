---------------------------- MODULE LineDiscipline ----------------------------
(***************************************************************************)
(* What the terminal (tty.c) promises between the keyboard and a reader of *)
(* lines: keys edit a line one by one, a newline makes the line ready as a *)
(* whole, the reader gets the characters of ready lines in order, and the  *)
(* only characters lost are those of a line that do not fit in.  No tasks, *)
(* locks or rings: every action is one step.                               *)
(***************************************************************************)
EXTENDS Integers, SequencesExt

CONSTANTS
  Letters,      \* characters other than newline and backspace
  NL, BS,
  EDIT_MAX,     \* characters of a line that can be edited
  CAPACITY      \* characters that can wait for the reader

VARIABLES
  typed,        \* the keys so far
  edit,         \* the line being edited
  ready,        \* completed text that was not read yet
  delivered     \* the text that was read

vars == <<typed, edit, ready, delivered>>

Init == typed = <<>> /\ edit = <<>> /\ ready = <<>> /\ delivered = <<>>

Letter(c) ==
  /\ typed' = Append(typed, c)
  /\ edit' = IF Len(edit) < EDIT_MAX THEN Append(edit, c) ELSE edit
  /\ UNCHANGED <<ready, delivered>>

Backspace ==
  /\ typed' = Append(typed, BS)
  /\ edit' = IF edit = <<>> THEN <<>> ELSE Front(edit)
  /\ UNCHANGED <<ready, delivered>>

Newline ==
  /\ typed' = Append(typed, NL)
  /\ ready' = ready \o Append(edit, NL)
  /\ edit' = <<>>
  /\ UNCHANGED delivered

Read ==
  /\ ready # <<>>
  /\ ready' = Tail(ready)
  /\ delivered' = Append(delivered, Head(ready))
  /\ UNCHANGED <<typed, edit>>

\* The first character that does not fit is lost, and no other.
Overflow ==
  /\ Len(ready) > CAPACITY
  /\ ready' = RemoveAt(ready, CAPACITY + 1)
  /\ UNCHANGED <<typed, edit, delivered>>

Next == (\E c \in Letters : Letter(c)) \/ Backspace \/ Newline \/ Read \/ Overflow

Spec == Init /\ [][Next]_vars
=============================================================================
