----------------------------- MODULE Scheduler -----------------------------
(***************************************************************************)
(* The preemptive round-robin scheduler of the TBS kernel, from the moment *)
(* start_multitasking has switched to the first task (task.c, sleep.c and  *)
(* the timer stub of int.asm).                                             *)
(*                                                                         *)
(* One CPU.  A task runs with interrupts enabled except between cli and    *)
(* sti, so an action of the running task is what the code does in one such *)
(* section, and the timer interrupt may fall between any two actions.  One *)
(* place is shut to it: sti holds interrupts off for one instruction more, *)
(* and in sleep_ms that instruction is int $32.                            *)
(* `int $32' enters the same stub as the timer: a voluntary yield is a     *)
(* tick too, and advances system_ticks.  The tick is the only clock there  *)
(* is here; between two interrupts of the PIT it may advance many times.   *)
(*                                                                         *)
(* Tasks are identified by their tid.  alloc_task appends at the tail of   *)
(* the ring and nothing is ever unlinked (remove_task_from_list writes to  *)
(* the static task_table, which holds no task of the ring), so the ring    *)
(* visits the tids 0 .. task_count-1 in order and closes on task_head = 0. *)
(***************************************************************************)
EXTENDS Integers, FiniteSets

CONSTANTS
  MAX_TASKS,        \* task.h: the limit alloc_task checks
  BootTasks,        \* how many tasks kernel_main created before the switch
  IdleTid,          \* tid of idle_task
  Creators,         \* tasks that call create_ktask
  Waiters,          \* tasks a tty wait pointer names: they block, and may be woken
  Sleepers,         \* tasks that call sleep_ms
  Terminators,      \* tasks terminate_task may be applied to
  ProcessTasks,     \* tasks with a parent_process
  Durations,        \* arguments of sleep_ms
  PIT_FREQUENCY,    \* pit.h: ticks per second (200)
  MS_PER_SECOND,    \* the literal 1000 of ms_to_ticks
  HALF              \* 2^(w-1), where w is the width of uint32_t (31 in the code)

WORD == 2 * HALF

\* alloc_task tests task_count before cli, so every creator but one may still
\* be past the test when the limit is reached.
TaskId == 0 .. MAX_TASKS + Cardinality(Creators) - 2

\* a process is named by the tid of its main task; NULL is no tid
NoProcess == -1
BootTid == 0 .. BootTasks - 1

ASSUME SchedulerAssumption ==
  /\ MAX_TASKS \in Nat /\ BootTasks \in 1 .. MAX_TASKS - 1
  /\ IdleTid \in BootTid
  /\ Creators \in SUBSET (BootTid \ {IdleTid})
  /\ IsFiniteSet(Creators)
  /\ Waiters \in SUBSET (BootTid \ {IdleTid})
  /\ Sleepers \in SUBSET (TaskId \ {IdleTid})
  /\ Terminators \in SUBSET (TaskId \ ({IdleTid} \cup Waiters))
  /\ ProcessTasks \in SUBSET TaskId
  /\ HALF \in Nat \ {0, 1}
  /\ PIT_FREQUENCY \in Nat \ {0} /\ MS_PER_SECOND \in Nat \ {0, 1}
  /\ Durations \in SUBSET Nat
  \* ms * PIT_FREQUENCY + 999 does not wrap: sleeps of less than six hours
  /\ \A ms \in Durations : ms * PIT_FREQUENCY + MS_PER_SECOND - 1 < WORD

VARIABLES
  current_task,     \* tid of the running task
  current_process,  \* its parent_process
  task_count,       \* tasks ever linked; also tid_count
  state,            \* task->state
  wake_tick,        \* task->wake_tick
  framed,           \* task->esp points at a frame the stub can pop
  system_ticks,     \* uint32_t tick counter
  pc,               \* where the code of the task stands
  made,             \* the task a creator has linked and not yet published
  \* history
  asked,            \* milliseconds of the last sleep
  slept,            \* ticks since it began, of the PIT and of yields,
                    \* counted to HALF
  waited            \* dispatches of other tasks since the task became READY,
                    \* counted to task_count

vars == <<current_task, current_process, task_count, state, wake_tick, framed,
          system_ticks, pc, made, asked, slept, waited>>
sleepVars == <<wake_tick, asked, slept>>

TaskState == {"BLOCKED", "SLEEPING", "READY", "EXITED"}

\* run: its own code.  parked: it has put itself off the ready tasks and has
\* still to execute int $32.  asleep: the same in sleep_ms, where sti holds
\* interrupts off until then.  checked, linked: inside create_ktask.
\* exited: after terminate_task.
ProgramCounter == {"run", "parked", "asleep", "checked", "linked", "exited"}

\* The CPU takes an interrupt before the next instruction.
Interruptible == pc[current_task] # "asleep"

Linked == 0 .. task_count - 1

parent_process(t) == IF t \in ProcessTasks THEN t ELSE NoProcess

TypeOK ==
  /\ current_task \in TaskId
  /\ current_process \in TaskId \cup {NoProcess}
  /\ task_count \in Nat
  /\ state \in [TaskId -> TaskState]
  /\ wake_tick \in [TaskId -> 0 .. WORD - 1]
  /\ framed \in [TaskId -> BOOLEAN]
  /\ system_ticks \in 0 .. WORD - 1
  /\ pc \in [TaskId -> ProgramCounter]
  /\ made \in [TaskId -> TaskId]
  /\ asked \in [TaskId -> Durations \cup {0}]
  /\ slept \in [TaskId -> Nat]
  /\ waited \in [TaskId -> Nat]

\* The history variables count no further than the properties look.
CountTo(most, n) == IF n < most THEN n + 1 ELSE n

-----------------------------------------------------------------------------
(* uint32_t arithmetic on the tick counter                                 *)

\* a + b, both below WORD
AddWord(a, b) == IF a + b < WORD THEN a + b ELSE a + b - WORD

\* a - b, both below WORD
SubWord(a, b) == IF a >= b THEN a - b ELSE a - b + WORD

\* sleep.c: round up to whole ticks, never to none
MsToTicks_rounds_down(ms) ==
  LET ticks == ((ms * PIT_FREQUENCY) % WORD) \div MS_PER_SECOND
  IN  IF ticks = 0 THEN 1 ELSE ticks

MsToTicks(ms) ==
  LET ticks == ((ms * PIT_FREQUENCY + MS_PER_SECOND - 1) % WORD) \div MS_PER_SECOND
  IN  IF ticks = 0 THEN 1 ELSE ticks

\* (int32_t)(t->wake_tick - now) <= 0
Expired_unsigned(t, now) == wake_tick[t] <= now
Expired_strict(t, now) ==
  LET d == SubWord(wake_tick[t], now) IN d >= HALF

Expired(t, now) ==
  LET d == SubWord(wake_tick[t], now) IN d = 0 \/ d >= HALF

-----------------------------------------------------------------------------
(* scheduler_tick                                                          *)

\* hops along the ring from a to reach b; a full round when they are the same
Distance(a, b) == IF b > a THEN b - a ELSE b - a + task_count

scheduler_update_time_skips_tail ==
  LET now == AddWord(system_ticks, 1)
  IN  /\ system_ticks' = now
      /\ state' = [t \in TaskId |->
                     IF t + 1 \in Linked /\ state[t] = "SLEEPING" /\ Expired(t, now)
                     THEN "READY" ELSE state[t]]
      /\ slept' = [t \in TaskId |->
                     IF state[t] = "SLEEPING" THEN CountTo(HALF, slept[t]) ELSE 0]

\* scheduler_update_time: every expired sleeper of the ring becomes READY
scheduler_update_time ==
  LET now == AddWord(system_ticks, 1)
  IN  /\ system_ticks' = now
      /\ state' = [t \in TaskId |->
                     IF t \in Linked /\ state[t] = "SLEEPING" /\ Expired(t, now)
                     THEN "READY" ELSE state[t]]
      /\ slept' = [t \in TaskId |->
                     IF state[t] = "SLEEPING" THEN CountTo(HALF, slept[t]) ELSE 0]

\* choose_next returns the first task after the running one that is READY or
\* idle; an EXITED one met on the way stays where it is in the ring.
MayRun_blocked(t) == t \in Linked /\ (state'[t] # "SLEEPING" \/ t = IdleTid)

MayRun(t) == t \in Linked /\ (state'[t] = "READY" \/ t = IdleTid)

scheduler_choose_next_from_head(next) ==
  /\ MayRun(next)
  /\ \A t \in Linked : MayRun(t) => next <= t

scheduler_choose_next(next) ==
  /\ MayRun(next)
  /\ \A t \in Linked :
       MayRun(t) => Distance(current_task, next) <= Distance(current_task, t)

\* The timer stub: save esp, tick, pop the frame of the task chosen.
scheduler_tick ==
  /\ scheduler_update_time
  /\ \E next \in Linked :
       /\ scheduler_choose_next(next)
       /\ current_task' = next
       /\ current_process' = parent_process(next)
       /\ waited' = [t \in TaskId |->
                       IF t \in Linked /\ t # next /\ state'[t] = "READY"
                       THEN CountTo(task_count, waited[t]) ELSE 0]
  /\ UNCHANGED <<task_count, wake_tick, framed, made, asked>>

\* IRQ0 falls between two instructions of the running task.
TimerTick == Interruptible /\ scheduler_tick /\ UNCHANGED pc

\* int $32 by a task that has parked itself or put itself to sleep
Yield ==
  /\ pc[current_task] \in {"parked", "asleep"}
  /\ scheduler_tick
  /\ pc' = [pc EXCEPT ![current_task] = "run"]

-----------------------------------------------------------------------------
(* What the running task does                                              *)

\* sleep_ms up to the sti, which holds until the int $32
sleep_ms(ms) ==
  /\ current_task \in Sleepers /\ pc[current_task] = "run"
  /\ wake_tick' = [wake_tick EXCEPT ![current_task] =
                     AddWord(system_ticks, MsToTicks(ms))]
  /\ state' = [state EXCEPT ![current_task] = "SLEEPING"]
  /\ pc' = [pc EXCEPT ![current_task] = "asleep"]
  /\ asked' = [asked EXCEPT ![current_task] = ms]
  /\ slept' = [slept EXCEPT ![current_task] = 0]
  /\ UNCHANGED <<current_task, current_process, task_count, framed,
                 system_ticks, made, waited>>

\* block_task(current_task), called by the three tty wait loops
block_task ==
  /\ current_task \in Waiters /\ pc[current_task] = "run"
  /\ state' = [state EXCEPT ![current_task] = "BLOCKED"]
  /\ pc' = [pc EXCEPT ![current_task] = "parked"]
  /\ UNCHANGED <<current_task, current_process, task_count, framed,
                 system_ticks, made, waited, sleepVars>>

\* wake_task(t), by the running task or by the keyboard interrupt: whatever
\* state the task is in, SLEEPING included
wake_task(t) ==
  /\ Interruptible
  /\ state' = [state EXCEPT ![t] = "READY"]
  /\ waited' = [waited EXCEPT ![t] = IF state[t] = "READY" THEN @ ELSE 0]
  /\ UNCHANGED <<current_task, current_process, task_count, framed,
                 system_ticks, pc, made, sleepVars>>

\* terminate_task(current_task).  The task runs on until the next tick.
terminate_task ==
  /\ current_task \in Terminators /\ pc[current_task] = "run"
  /\ state' = [state EXCEPT ![current_task] = "EXITED"]
  /\ pc' = [pc EXCEPT ![current_task] = "exited"]
  /\ UNCHANGED <<current_task, current_process, task_count, framed,
                 system_ticks, made, waited, sleepVars>>

check_task_count_allows_one_more ==
  /\ current_task \in Creators /\ pc[current_task] = "run"
  /\ task_count <= MAX_TASKS
  /\ pc' = [pc EXCEPT ![current_task] = "checked"]
  /\ UNCHANGED <<current_task, current_process, task_count, state, framed,
                 system_ticks, made, waited, sleepVars>>

\* alloc_task tests the limit with interrupts still enabled.
check_task_count ==
  /\ current_task \in Creators /\ pc[current_task] = "run"
  /\ task_count < MAX_TASKS
  /\ pc' = [pc EXCEPT ![current_task] = "checked"]
  /\ UNCHANGED <<current_task, current_process, task_count, state, framed,
                 system_ticks, made, waited, sleepVars>>

alloc_task_ready ==
  /\ pc[current_task] = "checked"
  /\ pc' = [pc EXCEPT ![current_task] = "linked"]
  /\ made' = [made EXCEPT ![current_task] = task_count]
  /\ state' = [state EXCEPT ![task_count] = "READY"]
  /\ framed' = [framed EXCEPT ![task_count] = FALSE]
  /\ task_count' = task_count + 1
  /\ UNCHANGED <<current_task, current_process, system_ticks, waited, sleepVars>>

\* cli .. sti: the task is zeroed, linked at the tail and BLOCKED
alloc_task ==
  /\ pc[current_task] = "checked"
  /\ pc' = [pc EXCEPT ![current_task] = "linked"]
  /\ made' = [made EXCEPT ![current_task] = task_count]
  /\ state' = [state EXCEPT ![task_count] = "BLOCKED"]
  /\ framed' = [framed EXCEPT ![task_count] = FALSE]
  /\ task_count' = task_count + 1
  /\ UNCHANGED <<current_task, current_process, system_ticks, waited, sleepVars>>

\* kmalloc returns 0, and create_ktask too
alloc_task_fails ==
  /\ pc[current_task] = "checked"
  /\ pc' = [pc EXCEPT ![current_task] = "run"]
  /\ UNCHANGED <<current_task, current_process, task_count, state, framed,
                 system_ticks, made, waited, sleepVars>>

\* create_ktask after alloc_task, cli .. sti: stack frame, esp, READY
create_ktask ==
  /\ pc[current_task] = "linked"
  /\ framed' = [framed EXCEPT ![made[current_task]] = TRUE]
  /\ state' = [state EXCEPT ![made[current_task]] = "READY"]
  /\ waited' = [waited EXCEPT ![made[current_task]] = 0]
  /\ pc' = [pc EXCEPT ![current_task] = "run"]
  /\ UNCHANGED <<current_task, current_process, task_count, system_ticks, made,
                 sleepVars>>

-----------------------------------------------------------------------------
\* start_multitasking: the first task of the ring runs, the others are READY.
Init ==
  /\ current_task = 0
  /\ current_process = NoProcess
  /\ task_count = BootTasks
  /\ state = [t \in TaskId |-> IF t \in BootTid THEN "READY" ELSE "BLOCKED"]
  /\ wake_tick = [t \in TaskId |-> 0]
  /\ framed = [t \in TaskId |-> t \in BootTid]
  /\ system_ticks = 0
  /\ pc = [t \in TaskId |-> "run"]
  /\ made = [t \in TaskId |-> 0]
  /\ asked = [t \in TaskId |-> 0]
  /\ slept = [t \in TaskId |-> 0]
  /\ waited = [t \in TaskId |-> 0]

Next ==
  \/ TimerTick
  \/ Yield
  \/ \E ms \in Durations : sleep_ms(ms)
  \/ block_task
  \/ \E t \in Waiters : wake_task(t)
  \/ terminate_task
  \/ check_task_count
  \/ alloc_task
  \/ alloc_task_fails
  \/ create_ktask

\* The PIT interrupts for ever, no task keeps interrupts disabled, and the
\* int $32 that waits behind sti is executed.
Spec == Init /\ [][Next]_vars /\ WF_vars(TimerTick) /\ WF_vars(Yield)

-----------------------------------------------------------------------------
(* Properties                                                              *)

\* The frame the timer stub pops is one that create_ktask built or an earlier
\* tick saved: a task linked by alloc_task but not yet published by
\* create_ktask is never the running one, however its creator is preempted.
RunsBuiltTask == current_task \in Linked /\ framed[current_task]

\* A task that executes its own code is READY: a sleep, a block, a wake or a
\* termination that meets the tick in any order never leaves a task running
\* while the scheduler believes it is off the processor.
RunningIsReady ==
  pc[current_task] \in {"run", "checked", "linked"} => state[current_task] = "READY"

\* Round robin: a READY task sees fewer than task_count dispatches of other
\* tasks before its own, even while tasks are created, woken and put to sleep.
BoundedWaiting ==
  \A t \in Linked : state[t] = "READY" => waited[t] < task_count

\* The limit is tested outside cli, so it may be overshot, but by no more
\* than one task for each other creator.
LimitOvershoot == task_count <= MAX_TASKS + Cardinality(Creators) - 1

\* A sleeper the tick wakes has slept the ticks its milliseconds come to,
\* rounded up, never one more and at least one, also when wake_tick and
\* system_ticks lie on different sides of the wrap of the counter.  It says
\* nothing of time: a tick is an interrupt of the PIT or the int $32 of any
\* task, and the first one counted is always the sleeper's own.
WokenOnTick ==
  [][\A t \in TaskId :
       state[t] = "SLEEPING" /\ state'[t] = "READY" /\ system_ticks' # system_ticks
         => /\ slept'[t] * MS_PER_SECOND >= asked[t] * PIT_FREQUENCY
            /\ \/ slept'[t] = 1
               \/ (slept'[t] - 1) * MS_PER_SECOND < asked[t] * PIT_FREQUENCY]_vars

\* A READY task gets the processor as long as the timer interrupts.
ReadyRuns ==
  \A t \in TaskId :
    (t \in Linked /\ state[t] = "READY") ~> (current_task = t \/ state[t] # "READY")

\* Every sleep ends.
SleeperWakes == \A t \in TaskId : (state[t] = "SLEEPING") ~> (state[t] # "SLEEPING")

-----------------------------------------------------------------------------
(* The inductive invariant behind the safety properties above              *)

\* Every task the scheduler may pick has a frame, and idle is always there.
FrameInv ==
  /\ BootTasks <= task_count
  /\ RunsBuiltTask
  /\ \A t \in BootTid : framed[t]
  /\ \A t \in TaskId : state[t] \in {"READY", "SLEEPING"} => framed[t]
  /\ \A t \in TaskId : pc[t] = "linked" => made[t] \in Linked
  /\ \A t \in TaskId \ Linked : state[t] = "BLOCKED"
  /\ state[IdleTid] = "READY"
  /\ RunningIsReady

\* What a task has already waited and what it has still to wait add up to one
\* round at most.
WaitInv ==
  \A t \in TaskId :
    IF t # current_task /\ state[t] = "READY"
    THEN waited[t] + Distance(current_task, t) <= task_count
    ELSE waited[t] = 0

\* A creator past the test of the limit holds one of the places left.
Checked == {c \in Creators : pc[c] = "checked"}
LimitInv ==
  /\ \A t \in TaskId : pc[t] = "checked" => t \in Creators
  /\ task_count + Cardinality(Checked) <= MAX_TASKS - 1 + Cardinality(Creators)

\* The ticks left of a sleep, read off the wrapping counters.
SleepInv ==
  \A t \in TaskId : state[t] = "SLEEPING" =>
    /\ asked[t] \in Durations
    /\ slept[t] < MsToTicks(asked[t])
    /\ SubWord(wake_tick[t], system_ticks) = MsToTicks(asked[t]) - slept[t]

SchedulerInv == TypeOK /\ FrameInv /\ WaitInv /\ LimitInv /\ SleepInv
=============================================================================
