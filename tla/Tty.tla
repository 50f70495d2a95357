-------------------------------- MODULE Tty --------------------------------
(***************************************************************************)
(* The terminal of the TBS kernel (tty.c), the keyboard interrupt that     *)
(* feeds it (ps2_key.c), the console task that reads lines and prints, and *)
(* the compositor task that takes the output (compositor.c).               *)
(*                                                                         *)
(*   keyboard irq -> raw -> tty_worker -> input -> console                 *)
(*                             | echo               | print                *)
(*                             +-----> output <-----+   output -> compositor*)
(*                                                                         *)
(* Tasks are preempted at any instruction with interrupts enabled, so the  *)
(* steps of READY tasks interleave freely (module Scheduler says which of  *)
(* them runs); a step of a task requires it to be READY.  A task that has  *)
(* executed block_task stops at "woken", whether it is preempted before    *)
(* its int $32 or executes it, until somebody wakes it.                    *)
(***************************************************************************)
EXTENDS Integers, SequencesExt

CONSTANTS
  KeyLimit,      \* bound of the model: keys the keyboard stores in one run
  Letters,       \* characters other than newline and backspace
  RAW_SIZE,      \* TTY_INPUT_BUFF_SIZE, of the raw ring
  INPUT_SIZE,    \* TTY_INPUT_BUFF_SIZE, of the input ring
  OUTPUT_SIZE,   \* TTY_OUTPUT_BUFF_SIZE
  EDIT_MAX,      \* characters edit_buffer takes (255)
  MAXLEN,        \* maxlen of tty_read_line (256)
  ECHO           \* tty->echo

Worker == "tty_worker"
Console == "console"
Backend == "compositor"
Task == {Worker, Console, Backend}
Writer == {Worker, Console}

NL == "newline"
BS == "backspace"
SPACE == "space"
PROMPT == "prompt"
Key == Letters \cup {NL, BS}
Char == Key \cup {SPACE, PROMPT}

ASSUME TtyAssumption ==
  /\ {KeyLimit, RAW_SIZE, INPUT_SIZE, OUTPUT_SIZE, EDIT_MAX} \subseteq Nat \ {0}
  /\ MAXLEN = EDIT_MAX + 1
  /\ ECHO \in BOOLEAN
  /\ Letters \cap {NL, BS} = {}

VARIABLES
  state,          \* task->state: READY or BLOCKED
  pc,             \* where each task stands
  raw,            \* raw_input_buff between tail and head
  input,          \* input_buff between tail and head
  output_buff, output_head, output_tail,
  input_lock, output_lock,   \* locked
  task_worker_wait,          \* the worker has registered itself
  edit,           \* edit_buffer[0 .. edit_pos-1]
  rest,           \* of the completed line, what is still to be copied
  writing,        \* what tty_write calls of a task have still to write
  next_head,      \* local variable of tty_write
  line,           \* buffer[0 .. count-1] of tty_read_line
  \* history
  accepted,       \* keys the keyboard has stored
  delivered,      \* characters tty_read_line has taken
  dropped,        \* a character of a completed line met a full ring
  stored, shown   \* characters put into and taken from the output ring

inputVars == <<raw, input, input_lock, task_worker_wait, edit, rest, line,
               accepted, delivered, dropped>>
outputVars == <<output_buff, output_head, output_tail, output_lock, next_head,
                stored, shown>>
vars == <<state, pc, inputVars, outputVars, writing>>

\* check .. woken: the wait loops.  acquire, copy, take, release: around a
\* lock.  write, fill, store, unlock: in tty_write.  register, loop, wake,
\* drained: the worker.  return: tty_read_line returns.
Label == {"check", "register", "block", "woken", "loop", "acquire", "copy", "take",
          "release", "wake", "drained", "return", "write", "fill", "store", "unlock"}

TypeOK ==
  /\ state \in [Task -> {"READY", "BLOCKED"}]
  /\ pc \in [Task -> Label]
  /\ raw \in Seq(Key) /\ Len(raw) < RAW_SIZE
  /\ input \in Seq(Key) /\ Len(input) < INPUT_SIZE
  /\ output_buff \in [0 .. OUTPUT_SIZE - 1 -> Char]
  /\ {output_head, output_tail} \subseteq 0 .. OUTPUT_SIZE - 1
  /\ {input_lock, output_lock, task_worker_wait, dropped} \subseteq BOOLEAN
  /\ edit \in Seq(Letters) /\ Len(edit) <= EDIT_MAX
  /\ rest \in Seq(Key)
  /\ writing \in [Writer -> Seq(Char)]
  /\ next_head \in [Writer -> 0 .. OUTPUT_SIZE - 1]
  /\ line \in Seq(Key) /\ Len(line) <= MAXLEN
  /\ {accepted, delivered} \subseteq Seq(Key)
  /\ {stored, shown} \subseteq Seq(Char)

-----------------------------------------------------------------------------
At(p, label) == state[p] = "READY" /\ pc[p] = label

Goto(p, label) == pc' = [pc EXCEPT ![p] = label]

wake_task(p) == state' = [state EXCEPT ![p] = "READY"]

-----------------------------------------------------------------------------
(* Keyboard interrupt: never waits, never takes a lock                     *)

kb_ring_handle_input(key) ==
  /\ Len(accepted) < KeyLimit
  /\ Len(raw) < RAW_SIZE - 1                      \* else the key is dropped
  /\ raw' = Append(raw, key)
  /\ accepted' = Append(accepted, key)
  /\ IF task_worker_wait THEN wake_task(Worker) ELSE UNCHANGED state
  /\ UNCHANGED <<pc, input, input_lock, task_worker_wait, edit, rest, line,
                 delivered, dropped, outputVars, writing>>

-----------------------------------------------------------------------------
(* The wait loops: check that a ring is empty, block_task, int $32         *)

\* block_task(current_task) and the switch away
block_task(p) ==
  /\ At(p, "block")
  /\ state' = [state EXCEPT ![p] = "BLOCKED"]
  /\ Goto(p, "woken")
  /\ UNCHANGED <<inputVars, outputVars, writing>>

\* back from int $32; the worker does not test the ring again before its loop
resume(p) ==
  /\ At(p, "woken")
  /\ Goto(p, IF p = Worker THEN "loop" ELSE "check")
  /\ UNCHANGED <<state, inputVars, outputVars, writing>>

-----------------------------------------------------------------------------
(* tty_write, by the worker's echo and by the console's printf             *)

\* spinlock_acquire spins for as long as the lock is held.
output_acquire_unlocked(p, label, next) ==
  At(p, label) /\ output_lock' = TRUE /\ Goto(p, next)

output_acquire(p, label, next) ==
  At(p, label) /\ ~output_lock /\ output_lock' = TRUE /\ Goto(p, next)

tty_write_acquire(p) ==
  /\ output_acquire(p, "write", "fill")
  /\ UNCHANGED <<state, inputVars, writing, output_buff, output_head, output_tail,
                 next_head, stored, shown>>

tty_write_fill(p) ==
  LET next == (output_head + 1) % OUTPUT_SIZE
  IN  /\ At(p, "fill")
      /\ next_head' = [next_head EXCEPT ![p] = next]
      /\ Goto(p, IF next = output_tail THEN "unlock" ELSE "store")
      /\ UNCHANGED <<state, inputVars, writing, output_buff, output_head,
                     output_tail, output_lock, stored, shown>>

tty_write_store(p) ==
  /\ At(p, "store")
  /\ output_buff' = [output_buff EXCEPT ![output_head] = Head(writing[p])]
  /\ output_head' = next_head[p]
  /\ stored' = Append(stored, Head(writing[p]))
  /\ wake_task(Backend)
  /\ Goto(p, "unlock")
  /\ UNCHANGED <<inputVars, writing, output_tail, output_lock, next_head, shown>>

\* spinlock_release; the next character, or back to the caller
tty_write_release(p) ==
  /\ At(p, "unlock")
  /\ output_lock' = FALSE
  /\ writing' = [writing EXCEPT ![p] = Tail(@)]
  /\ Goto(p, IF Len(writing[p]) > 1 THEN "write"
             ELSE IF p = Console THEN "check"
             ELSE IF writing[p] = <<NL>> THEN "wake" ELSE "loop")
  /\ UNCHANGED <<state, inputVars, output_buff, output_head, output_tail,
                 next_head, stored, shown>>

-----------------------------------------------------------------------------
(* tty_worker                                                              *)

worker_check ==
  /\ At(Worker, "check")
  /\ Goto(Worker, IF raw = <<>> THEN "register" ELSE "loop")
  /\ UNCHANGED <<state, inputVars, outputVars, writing>>

worker_register ==
  /\ At(Worker, "register")
  /\ task_worker_wait' = TRUE
  /\ Goto(Worker, "block")
  /\ UNCHANGED <<state, raw, input, input_lock, edit, rest, line, accepted,
                 delivered, dropped, outputVars, writing>>

\* Echo text, or skip the echo, and go on at label.
Echo(text, label) ==
  /\ writing' = [writing EXCEPT ![Worker] = IF ECHO THEN text ELSE <<>>]
  /\ Goto(Worker, IF ECHO THEN "write" ELSE label)

\* The worker alone takes from the raw ring; raw_input_lock is never contended.
Pop(key) ==
  /\ At(Worker, "loop") /\ raw # <<>> /\ key = Head(raw)
  /\ raw' = Tail(raw)

worker_backspace ==
  /\ Pop(BS)
  /\ IF edit = <<>>
     THEN UNCHANGED <<pc, edit, writing>>
     ELSE edit' = Front(edit) /\ Echo(<<BS, SPACE, BS>>, "loop")
  /\ UNCHANGED <<state, input, input_lock, task_worker_wait, rest, line, accepted,
                 delivered, dropped, outputVars>>

worker_newline ==
  /\ Pop(NL)
  /\ rest' = Append(edit, NL)
  /\ Goto(Worker, "acquire")
  /\ UNCHANGED <<state, input, input_lock, task_worker_wait, edit, line, accepted,
                 delivered, dropped, outputVars, writing>>

EditHasRoom_off_by_one == Len(edit) <= EDIT_MAX
EditHasRoom == Len(edit) < EDIT_MAX

worker_letter ==
  \E c \in Letters :
    /\ Pop(c)
    /\ IF EditHasRoom
       THEN edit' = Append(edit, c) /\ Echo(<<c>>, "loop")
       ELSE UNCHANGED <<pc, edit, writing>>
    /\ UNCHANGED <<state, input, input_lock, task_worker_wait, rest, line, accepted,
                   delivered, dropped, outputVars>>

\* spinlock_acquire(&tty->input_lock), by the worker and by tty_read_line
input_acquire_unlocked(p, next) ==
  /\ At(p, "acquire") /\ input_lock' = TRUE /\ Goto(p, next)

input_acquire(p, next) ==
  At(p, "acquire") /\ ~input_lock /\ input_lock' = TRUE /\ Goto(p, next)

worker_acquire ==
  /\ input_acquire(Worker, "copy")
  /\ UNCHANGED <<state, raw, input, task_worker_wait, edit, rest, line, accepted,
                 delivered, dropped, outputVars, writing>>

InputHasRoom_one_less == Len(input) < INPUT_SIZE - 2
InputHasRoom == Len(input) < INPUT_SIZE - 1

\* One character of the line, or its newline: lost without a word when the
\* ring is full.
worker_copy ==
  /\ At(Worker, "copy")
  /\ IF InputHasRoom
     THEN input' = Append(input, Head(rest)) /\ UNCHANGED dropped
     ELSE dropped' = TRUE /\ UNCHANGED input
  /\ rest' = Tail(rest)
  /\ Goto(Worker, IF Len(rest) > 1 THEN "copy" ELSE "release")
  /\ UNCHANGED <<state, raw, input_lock, task_worker_wait, edit, line, accepted,
                 delivered, outputVars, writing>>

worker_release_kept ==
  /\ At(Worker, "release")
  /\ UNCHANGED input_lock
  /\ Echo(<<NL>>, "wake")
  /\ UNCHANGED <<state, raw, input, task_worker_wait, edit, rest, line, accepted,
                 delivered, dropped, outputVars>>

worker_release ==
  /\ At(Worker, "release")
  /\ input_lock' = FALSE
  /\ Echo(<<NL>>, "wake")
  /\ UNCHANGED <<state, raw, input, task_worker_wait, edit, rest, line, accepted,
                 delivered, dropped, outputVars>>

worker_wake_keeps_edit ==
  /\ At(Worker, "wake")
  /\ UNCHANGED edit
  /\ wake_task(Console)
  /\ Goto(Worker, "loop")
  /\ UNCHANGED <<raw, input, input_lock, task_worker_wait, rest, line, accepted,
                 delivered, dropped, outputVars, writing>>

\* Reset the edit buffer and wake the reader.
worker_wake ==
  /\ At(Worker, "wake")
  /\ edit' = <<>>
  /\ wake_task(Console)
  /\ Goto(Worker, "loop")
  /\ UNCHANGED <<raw, input, input_lock, task_worker_wait, rest, line, accepted,
                 delivered, dropped, outputVars, writing>>

\* The inner loop ends on an empty ring, and wakes the reader again.
worker_empty ==
  /\ At(Worker, "loop") /\ raw = <<>>
  /\ Goto(Worker, "drained")
  /\ UNCHANGED <<state, inputVars, outputVars, writing>>

worker_drained ==
  /\ At(Worker, "drained")
  /\ wake_task(Console)
  /\ Goto(Worker, "check")
  /\ UNCHANGED <<inputVars, outputVars, writing>>

-----------------------------------------------------------------------------
(* tty_read_line, called by console_task in a loop that prints a prompt    *)

reader_check ==
  /\ At(Console, "check")
  /\ Goto(Console, IF input = <<>> THEN "block" ELSE "acquire")
  /\ UNCHANGED <<state, inputVars, outputVars, writing>>

reader_acquire ==
  /\ input_acquire(Console, "take")
  /\ UNCHANGED <<state, raw, input, task_worker_wait, edit, rest, line, accepted,
                 delivered, dropped, outputVars, writing>>

reader_take ==
  /\ At(Console, "take")
  /\ input' = Tail(input)
  /\ line' = Append(line, Head(input))
  /\ delivered' = Append(delivered, Head(input))
  /\ Goto(Console, "release")
  /\ UNCHANGED <<state, raw, input_lock, task_worker_wait, edit, rest, accepted,
                 dropped, outputVars, writing>>

LineFull_early == Len(line) = MAXLEN - 1
LineFull == Len(line) = MAXLEN

reader_release ==
  /\ At(Console, "release")
  /\ input_lock' = FALSE
  /\ Goto(Console, IF Last(line) = NL \/ LineFull THEN "return" ELSE "check")
  /\ UNCHANGED <<state, raw, input, task_worker_wait, edit, rest, line, accepted,
                 delivered, dropped, outputVars, writing>>

\* The console obeys the line, and prints before it reads the next one.
reader_return ==
  /\ At(Console, "return")
  /\ line' = <<>>
  /\ writing' = [writing EXCEPT ![Console] = <<PROMPT>>]
  /\ Goto(Console, "write")
  /\ UNCHANGED <<state, raw, input, input_lock, task_worker_wait, edit, rest,
                 accepted, delivered, dropped, outputVars>>

-----------------------------------------------------------------------------
(* read_tty_output, called by compositor_main for every character          *)

backend_check ==
  /\ At(Backend, "check")
  /\ Goto(Backend, IF output_head = output_tail THEN "block" ELSE "acquire")
  /\ UNCHANGED <<state, inputVars, outputVars, writing>>

backend_acquire ==
  /\ output_acquire(Backend, "acquire", "take")
  /\ UNCHANGED <<state, inputVars, writing, output_buff, output_head, output_tail,
                 next_head, stored, shown>>

backend_take ==
  /\ At(Backend, "take")
  /\ shown' = Append(shown, output_buff[output_tail])
  /\ output_tail' = (output_tail + 1) % OUTPUT_SIZE
  /\ Goto(Backend, "release")
  /\ UNCHANGED <<state, inputVars, writing, output_buff, output_head, output_lock,
                 next_head, stored>>

backend_release ==
  /\ At(Backend, "release")
  /\ output_lock' = FALSE
  /\ Goto(Backend, "check")
  /\ UNCHANGED <<state, inputVars, writing, output_buff, output_head, output_tail,
                 next_head, stored, shown>>

-----------------------------------------------------------------------------
\* create_tty, and the tasks as kernel_main hands them over; the console has
\* printed its first prompt
Init ==
  /\ state = [p \in Task |-> "READY"]
  /\ pc = [p \in Task |-> "check"]
  /\ raw = <<>> /\ input = <<>>
  /\ output_buff = [i \in 0 .. OUTPUT_SIZE - 1 |-> SPACE]
  /\ output_head = 0 /\ output_tail = 0
  /\ input_lock = FALSE /\ output_lock = FALSE
  /\ task_worker_wait = FALSE
  /\ edit = <<>> /\ rest = <<>> /\ line = <<>>
  /\ writing = [p \in Writer |-> <<>>]
  /\ next_head = [p \in Writer |-> 0]
  /\ accepted = <<>> /\ delivered = <<>> /\ dropped = FALSE
  /\ stored = <<>> /\ shown = <<>>

Write(p) ==
  tty_write_acquire(p) \/ tty_write_fill(p) \/ tty_write_store(p) \/ tty_write_release(p)

tty_worker ==
  \/ worker_check \/ worker_register \/ block_task(Worker) \/ resume(Worker)
  \/ worker_backspace \/ worker_newline \/ worker_letter
  \/ worker_acquire \/ worker_copy \/ worker_release \/ worker_wake
  \/ worker_empty \/ worker_drained
  \/ Write(Worker)

console_task ==
  \/ reader_check \/ block_task(Console) \/ resume(Console)
  \/ reader_acquire \/ reader_take \/ reader_release \/ reader_return
  \/ Write(Console)

compositor_main ==
  \/ backend_check \/ block_task(Backend) \/ resume(Backend)
  \/ backend_acquire \/ backend_take \/ backend_release

Next ==
  \/ \E key \in Key : kb_ring_handle_input(key)
  \/ tty_worker
  \/ console_task
  \/ compositor_main

\* The scheduler runs every READY task (Scheduler!ReadyRuns); nobody has to
\* press a key.
Spec ==
  /\ Init /\ [][Next]_vars
  /\ WF_vars(tty_worker) /\ WF_vars(console_task) /\ WF_vars(compositor_main)

-----------------------------------------------------------------------------
(* Properties                                                              *)

\* What the output ring holds, from tail to head
Output ==
  [i \in 1 .. (output_head - output_tail) % OUTPUT_SIZE |->
     output_buff[(output_tail + i - 1) % OUTPUT_SIZE]]

\* tty_write and read_tty_output: echo and printf of two tasks interleave by
\* whole characters; what was stored is shown once, in order, and nothing
\* that was not stored is shown.
OutputInOrder == stored = shown \o Output

\* The keys that the worker has taken, and whether it is done with the last of
\* them, a newline, but has not cleared its buffer.
Taken == SubSeq(accepted, 1, Len(accepted) - Len(raw))
Completing ==
  pc[Worker] \in {"acquire", "copy", "release", "wake"} \/ writing[Worker] = <<NL>>

\* tty_worker and tty_read_line implement the line discipline: a key takes
\* effect when the worker takes it, a line is ready with its newline although
\* it is copied one character at a time, and a character is lost only when the
\* input ring is full at that very step.
Discipline ==
  INSTANCE LineDiscipline WITH
    typed <- Taken, ready <- input \o rest, CAPACITY <- INPUT_SIZE - 1,
    edit <- IF Completing THEN <<>> ELSE edit
ImplementsLineDiscipline == Discipline!Spec

\* One call of tty_read_line returns one line: maxlen and the limit of the
\* edit buffer fit, unless a newline was lost in a full ring.
ReadReturnsLine ==
  pc[Console] = "return" /\ ~dropped => Last(line) = NL

\* The reader never waits inside a line: the worker hands over a whole line
\* under one acquisition of input_lock.
LineAtomic ==
  pc[Console] \in {"block", "woken"} /\ ~dropped => line = <<>>

\* A lock is held by one task, which never sleeps or blocks with it: whoever
\* spins, spins for a task that can be dispatched.
InputSection == {p \in Task : p # Backend /\ pc[p] \in {"copy", "take", "release"}}
OutputSection ==
  {p \in Writer : pc[p] \in {"fill", "store", "unlock"}}
    \cup {p \in {Backend} : pc[p] \in {"take", "release"}}
LockDiscipline ==
  /\ \A p, q \in InputSection : p = q
  /\ \A p, q \in OutputSection : p = q
  /\ input_lock <=> InputSection # {}
  /\ output_lock <=> OutputSection # {}
  /\ \A p \in InputSection \cup OutputSection : state[p] = "READY"

\* Nobody spins for ever: every acquisition of a lock succeeds.
SpinEnds ==
  \A p \in Task : (pc[p] \in {"acquire", "write"}) ~> (pc[p] \notin {"acquire", "write"})

\* tty.c 184, "Wake up reader": once the worker has handed over a line, woken
\* the reader and gone to sleep, the reader is not asleep on a ring with text.
ReaderAwake ==
  state[Worker] = "BLOCKED" /\ input # <<>> => state[Console] = "READY"
=============================================================================
