--------------------------- MODULE SchedulerProofs ---------------------------
(***************************************************************************)
(* SchedulerInv is inductive, for every number of tasks, every set of      *)
(* creators, sleepers and waiters, and every width of the tick counter;    *)
(* the safety properties of Scheduler follow from it.                      *)
(***************************************************************************)
EXTENDS Scheduler, FiniteSetTheorems, TLAPS

-----------------------------------------------------------------------------
(* Lemmas about the constants and the arithmetic                           *)

\* The boot tasks are tasks.
LEMMA BootTasksFit ==
  /\ Cardinality(Creators) \in Nat
  /\ BootTid \subseteq TaskId
  /\ IdleTid \in BootTid /\ 0 \in BootTid
  /\ WORD \in Nat /\ WORD = HALF + HALF /\ HALF \in Nat /\ HALF > 1
<1>1. Cardinality(Creators) \in Nat
  BY SchedulerAssumption, FS_CardinalityType
<1> QED
  BY <1>1, SchedulerAssumption DEF TaskId, BootTid, WORD

\* A sleep takes at least one tick, and fewer than half of the range of the
\* counter, which is what the signed comparison of Expired needs.
LEMMA MsToTicksRange ==
  ASSUME NEW ms \in Durations
  PROVE  MsToTicks(ms) \in 1 .. HALF - 1
<1> DEFINE x == ms * PIT_FREQUENCY + MS_PER_SECOND - 1
           q == (x % WORD) \div MS_PER_SECOND
<1>1. ms \in Nat /\ PIT_FREQUENCY \in Nat /\ MS_PER_SECOND \in Nat /\ MS_PER_SECOND >= 2
  BY SchedulerAssumption
<1>2. WORD \in Nat /\ WORD = HALF + HALF /\ WORD > 0 /\ HALF \in Nat /\ HALF > 1
  BY BootTasksFit, SchedulerAssumption
<1>3. x \in Int
  BY <1>1
<1>4. x % WORD \in 0 .. WORD - 1
  BY <1>2, <1>3
<1>5. q \in Nat /\ q < HALF
  <2> DEFINE y == x % WORD
  <2>1. y \in Nat /\ y < HALF + HALF
    BY <1>2, <1>4
  <2> HIDE DEF y
  <2>2. q = y \div MS_PER_SECOND
    BY DEF y
  <2>3. q \in Int /\ MS_PER_SECOND * q <= y /\ y < MS_PER_SECOND * (q + 1)
    BY <1>1, <2>1, <2>2
  <2> HIDE DEF q
  <2>4. q >= 0
    BY <2>3, <2>1, <1>1
  <2>5. 2 * q <= MS_PER_SECOND * q
    BY <2>4, <2>3, <1>1
  <2> QED BY <2>1, <2>3, <2>4, <2>5, <1>1, <1>2
<1>6. MsToTicks(ms) = IF q = 0 THEN 1 ELSE q
  BY DEF MsToTicks
<1> HIDE DEF q
<1> QED BY <1>2, <1>5, <1>6

\* The rounding of ms_to_ticks: enough ticks for the milliseconds, and not one
\* too many.
LEMMA MsToTicksRounding ==
  ASSUME NEW ms \in Durations
  PROVE  /\ MsToTicks(ms) * MS_PER_SECOND >= ms * PIT_FREQUENCY
         /\ \/ MsToTicks(ms) = 1
            \/ (MsToTicks(ms) - 1) * MS_PER_SECOND < ms * PIT_FREQUENCY
<1> DEFINE p == ms * PIT_FREQUENCY
           x == p + MS_PER_SECOND - 1
           q == (x % WORD) \div MS_PER_SECOND
<1>1. p \in Nat /\ MS_PER_SECOND \in Nat /\ MS_PER_SECOND >= 2 /\ x < WORD
  BY SchedulerAssumption
<1>2. MsToTicks(ms) = IF q = 0 THEN 1 ELSE q
  BY DEF MsToTicks
<1> HIDE DEF p
<1>3. x \in 0 .. WORD - 1 /\ WORD \in Nat /\ WORD > 0
  BY <1>1, BootTasksFit
<1>4. q = x \div MS_PER_SECOND
  <2> HIDE DEF x
  <2>1. x % WORD = x
    BY <1>3
  <2> QED BY <2>1
<1>5. q \in Int /\ MS_PER_SECOND * q <= x /\ x < MS_PER_SECOND * (q + 1)
  <2>1. x \in Nat
    BY <1>3
  <2> HIDE DEF x, q
  <2> QED BY <1>1, <1>4, <2>1
<1> HIDE DEF q
<1>6. MS_PER_SECOND * (q + 1) = MS_PER_SECOND * q + MS_PER_SECOND
  BY <1>1, <1>5
<1>7. MS_PER_SECOND * q >= p /\ MS_PER_SECOND * q - MS_PER_SECOND < p
  BY <1>1, <1>5, <1>6
<1>8. q * MS_PER_SECOND = MS_PER_SECOND * q
      /\ (q - 1) * MS_PER_SECOND = MS_PER_SECOND * q - MS_PER_SECOND
  BY <1>1, <1>5
<1>9. q = 0 => p = 0 /\ 1 * MS_PER_SECOND >= p
  BY <1>1, <1>7
<1> QED BY <1>2, <1>5, <1>7, <1>8, <1>9 DEF p

\* Words stay words.
LEMMA WordArithmetic ==
  ASSUME NEW a \in 0 .. WORD - 1, NEW b \in 0 .. WORD - 1
  PROVE  /\ AddWord(a, b) \in 0 .. WORD - 1
         /\ SubWord(a, b) \in 0 .. WORD - 1
BY BootTasksFit DEF AddWord, SubWord

\* The history variables count on, up to their bounds.
LEMMA Counting ==
  ASSUME NEW most \in Nat, NEW n \in Nat
  PROVE  /\ CountTo(most, n) \in Nat
         /\ CountTo(most, n) <= n + 1
         /\ n < most => CountTo(most, n) = n + 1
BY DEF CountTo

-----------------------------------------------------------------------------
(* Type correctness                                                        *)

\* start_multitasking leaves the tasks as the invariant says.
LEMMA InitInv == Init => SchedulerInv
<1> SUFFICES ASSUME Init PROVE SchedulerInv
  OBVIOUS
<1> USE BootTasksFit
<1>1. TypeOK
  BY SchedulerAssumption DEF Init, TypeOK, TaskState, ProgramCounter
<1>2. FrameInv
  <2>1. \A t \in BootTid : framed[t]
    BY Zenon DEF Init
  <2>2. \A t \in TaskId : state[t] = IF t \in BootTid THEN "READY" ELSE "BLOCKED"
    BY DEF Init
  <2>3. Linked = BootTid
    BY DEF Init, Linked, BootTid
  <2>4. /\ current_task = 0 /\ task_count = BootTasks
        /\ \A t \in TaskId : pc[t] = "run"
    BY DEF Init
  <2>5. \A t \in TaskId : state[t] \in {"READY", "SLEEPING"} => framed[t]
    BY <2>1, <2>2
  <2>6. RunsBuiltTask /\ RunningIsReady
    BY <2>1, <2>2, <2>3, <2>4 DEF RunsBuiltTask, RunningIsReady
  <2> QED
    BY <2>1, <2>2, <2>3, <2>4, <2>5, <2>6, SchedulerAssumption DEF FrameInv
<1>3. WaitInv
  BY SchedulerAssumption DEF Init, WaitInv, Distance, BootTid, TaskId
<1>4. LimitInv
  <2>1. Checked = {}
    BY SchedulerAssumption DEF Init, Checked, TaskId, BootTid
  <2>2. Cardinality(Checked) = 0
    BY <2>1, FS_EmptySet
  <2> QED BY <2>2, SchedulerAssumption DEF Init, LimitInv
<1>5. SleepInv
  BY DEF Init, SleepInv
<1> QED BY <1>1, <1>2, <1>3, <1>4, <1>5 DEF SchedulerInv

\* Linked tasks are tasks, and the running one is linked.
LEMMA LinkedTasks ==
  ASSUME SchedulerInv
  PROVE  /\ IsFiniteSet(Checked) /\ Cardinality(Checked) \in Nat
         /\ Linked \subseteq TaskId /\ current_task \in Linked
         /\ BootTid \subseteq Linked /\ task_count \in Nat
<1>1. IsFiniteSet(Checked) /\ Cardinality(Checked) \in Nat
  BY SchedulerAssumption, FS_Subset, FS_CardinalityType DEF Checked
<1> QED
  BY <1>1, BootTasksFit, SchedulerAssumption
  DEF SchedulerInv, TypeOK, LimitInv, FrameInv, RunsBuiltTask, Linked, BootTid, TaskId

\* The place a creator past the test will fill is a task.
LEMMA PlaceLeft ==
  ASSUME SchedulerInv, pc[current_task] = "checked"
  PROVE  task_count \in TaskId /\ current_task \in Checked /\ Cardinality(Checked) >= 1
<1>1. current_task \in Checked
  BY DEF SchedulerInv, TypeOK, LimitInv, Checked
<1>2. Cardinality(Checked) # 0
  BY <1>1, LinkedTasks, FS_EmptySet
<1> QED
  BY <1>1, <1>2, LinkedTasks, BootTasksFit, SchedulerAssumption
  DEF SchedulerInv, LimitInv, TaskId

\* What a tick leaves behind, from the choice of the next task.
LEMMA TickChoice ==
  ASSUME SchedulerInv, scheduler_tick
  PROVE  /\ current_task' \in Linked /\ MayRun(current_task')
         /\ \A t \in Linked :
              MayRun(t) => Distance(current_task, current_task') <= Distance(current_task, t)
         /\ current_process' = parent_process(current_task')
         /\ waited' = [t \in TaskId |->
                         IF t \in Linked /\ t # current_task' /\ state'[t] = "READY"
                         THEN CountTo(task_count, waited[t]) ELSE 0]
BY DEF scheduler_tick, scheduler_choose_next

\* Every step keeps the types.
LEMMA TypeStep ==
  ASSUME SchedulerInv, [Next]_vars
  PROVE  TypeOK'
<1> USE BootTasksFit, LinkedTasks
<1>0. TypeOK
  BY DEF SchedulerInv
<1>1. ASSUME scheduler_tick,
             pc' = pc \/ pc' = [pc EXCEPT ![current_task] = "run"]
      PROVE  TypeOK'
  <2>1. system_ticks' \in 0 .. WORD - 1
    BY <1>0, <1>1 DEF scheduler_tick, scheduler_update_time, AddWord, TypeOK
  <2>2. state' \in [TaskId -> TaskState] /\ slept' \in [TaskId -> Nat]
    BY <1>0, <1>1, Counting, SchedulerAssumption
    DEF scheduler_tick, scheduler_update_time, TypeOK, TaskState
  <2>3. current_task' \in TaskId
    BY <1>0, <1>1, TickChoice DEF TypeOK
  <2>6. waited' \in [TaskId -> Nat]
    <3>1. task_count \in Nat /\ \A t \in TaskId : waited[t] \in Nat
      BY <1>0 DEF TypeOK
    <3>2. \A t \in TaskId : CountTo(task_count, waited[t]) \in Nat
      BY <3>1, Counting
    <3> QED BY <1>1, <3>2, TickChoice
  <2>4. current_process' \in TaskId \cup {NoProcess}
    BY <1>1, <2>3, TickChoice DEF parent_process
  <2>5. pc' \in [TaskId -> ProgramCounter]
    BY <1>0, <1>1 DEF TypeOK, ProgramCounter
  <2> QED
    BY <1>0, <1>1, <2>1, <2>2, <2>3, <2>4, <2>5, <2>6 DEF scheduler_tick, TypeOK
<1>2. ASSUME NEW ms \in Durations, sleep_ms(ms)
      PROVE  TypeOK'
  <2>0. MsToTicks(ms) \in 0 .. WORD - 1
    BY MsToTicksRange, SchedulerAssumption
  <2>1. AddWord(system_ticks, MsToTicks(ms)) \in 0 .. WORD - 1
    BY <1>0, <2>0, WordArithmetic DEF TypeOK
  <2> QED BY <1>0, <1>2, <2>1 DEF sleep_ms, TypeOK, TaskState, ProgramCounter
<1>3. CASE block_task \/ terminate_task \/ check_task_count \/ alloc_task_fails
  BY <1>0, <1>3
  DEF block_task, terminate_task, check_task_count, alloc_task_fails, sleepVars,
      TypeOK, TaskState, ProgramCounter
<1>4. ASSUME NEW t \in Waiters, wake_task(t)
      PROVE  TypeOK'
  BY <1>0, <1>4 DEF wake_task, sleepVars, TypeOK, TaskState
<1>5. CASE alloc_task
  <2>1. task_count \in TaskId
    BY <1>5, PlaceLeft DEF alloc_task
  <2>2. UNCHANGED <<current_task, current_process, system_ticks, waited, sleepVars>>
    BY <1>5 DEF alloc_task
  <2>3. /\ pc' \in [TaskId -> ProgramCounter] /\ made' \in [TaskId -> TaskId]
        /\ state' \in [TaskId -> TaskState] /\ framed' \in [TaskId -> BOOLEAN]
        /\ task_count' \in Nat
    BY <1>0, <1>5, <2>1 DEF alloc_task, TypeOK, TaskState, ProgramCounter
  <2> QED BY <1>0, <2>2, <2>3 DEF sleepVars, TypeOK
<1>6. CASE create_ktask
  BY <1>0, <1>6 DEF create_ktask, sleepVars, TypeOK, TaskState, ProgramCounter
<1>7. CASE UNCHANGED vars
  BY <1>0, <1>7 DEF vars, TypeOK
<1> QED
  BY <1>1, <1>2, <1>3, <1>4, <1>5, <1>6, <1>7 DEF Next, TimerTick, Yield

-----------------------------------------------------------------------------
(* Frames and states                                                       *)

\* Every step keeps a frame under every task the scheduler may pick: between
\* alloc_task and create_ktask the new task is BLOCKED, and nobody wakes it.
LEMMA FrameStep ==
  ASSUME SchedulerInv, [Next]_vars
  PROVE  FrameInv'
<1> USE BootTasksFit, LinkedTasks
<1>0. /\ TypeOK /\ FrameInv
      /\ IdleTid \notin Waiters \cup Sleepers \cup Terminators
      /\ Waiters \subseteq BootTid
  BY SchedulerAssumption DEF SchedulerInv
<1>1. ASSUME scheduler_tick,
             pc' = pc \/ pc' = [pc EXCEPT ![current_task] = "run"]
      PROVE  FrameInv'
  <2>1. /\ UNCHANGED <<task_count, framed, made>> /\ Linked' = Linked
        /\ \A t \in TaskId :
             \/ state'[t] = state[t]
             \/ t \in Linked /\ state[t] = "SLEEPING" /\ state'[t] = "READY"
    BY <1>0, <1>1 DEF scheduler_tick, scheduler_update_time, TypeOK, Linked
  <2>2. state'[IdleTid] = "READY"
    BY <1>0, <2>1 DEF FrameInv
  <2>3. state'[current_task'] = "READY" /\ current_task' \in Linked
    BY <1>1, <2>2, TickChoice DEF MayRun
  <2>4. framed'[current_task']
    BY <1>0, <2>1, <2>3 DEF FrameInv
  <2>5. \A t \in TaskId : pc'[t] = "linked" => pc[t] = "linked"
    BY <1>0, <1>1 DEF TypeOK
  <2> QED
    BY <1>0, <2>1, <2>2, <2>3, <2>4, <2>5
    DEF FrameInv, RunsBuiltTask, RunningIsReady, Linked
<1>2. ASSUME NEW ms \in Durations, sleep_ms(ms)
      PROVE  FrameInv'
  BY <1>0, <1>2
  DEF sleep_ms, TypeOK, FrameInv, RunsBuiltTask, RunningIsReady, Linked
<1>3. CASE block_task
  BY <1>0, <1>3
  DEF block_task, sleepVars, TypeOK, FrameInv, RunsBuiltTask, RunningIsReady, Linked
<1>4. CASE terminate_task
  BY <1>0, <1>4
  DEF terminate_task, sleepVars, TypeOK, FrameInv, RunsBuiltTask, RunningIsReady, Linked
<1>5. CASE check_task_count \/ alloc_task_fails
  BY <1>0, <1>5
  DEF check_task_count, alloc_task_fails, sleepVars, TypeOK, FrameInv,
      RunsBuiltTask, RunningIsReady, Linked
<1>6. ASSUME NEW t \in Waiters, wake_task(t)
      PROVE  FrameInv'
  BY <1>0, <1>6
  DEF wake_task, sleepVars, TypeOK, FrameInv, RunsBuiltTask, RunningIsReady, Linked
<1>7. CASE alloc_task
  <2>1. /\ task_count \in TaskId \ Linked /\ task_count' = task_count + 1
        /\ Linked' = Linked \cup {task_count} /\ task_count' \in Nat
        /\ UNCHANGED current_task /\ current_task # task_count
    BY <1>7, PlaceLeft DEF alloc_task, Linked
  <2>2. /\ BootTasks <= task_count'
        /\ \A t \in BootTid : framed'[t]
        /\ \A t \in TaskId : state'[t] \in {"READY", "SLEEPING"} => framed'[t]
    <3>1. BootTasks <= task_count' /\ BootTid \subseteq Linked
      BY <1>0, <2>1, SchedulerAssumption DEF FrameInv
    <3>2. \A t \in TaskId : t # task_count =>
            state'[t] = state[t] /\ (framed'[t] <=> framed[t])
      BY <1>0, <1>7, <2>1 DEF alloc_task, TypeOK
    <3>3. state'[task_count] = "BLOCKED"
      BY <1>0, <1>7, <2>1 DEF alloc_task, TypeOK
    <3> QED BY <1>0, <2>1, <3>1, <3>2, <3>3 DEF FrameInv
  <2>3. \A t \in TaskId : pc'[t] = "linked" => made'[t] \in Linked'
    BY <1>0, <1>7, <2>1 DEF alloc_task, TypeOK, FrameInv
  <2>4. /\ \A t \in TaskId \ Linked' : state'[t] = "BLOCKED"
        /\ state'[IdleTid] = "READY"
    BY <1>0, <1>7, <2>1 DEF alloc_task, TypeOK, FrameInv
  <2>5. /\ current_task' \in Linked' /\ framed'[current_task']
        /\ state'[current_task'] = "READY"
    BY <1>0, <1>7, <2>1 DEF alloc_task, TypeOK, FrameInv, RunsBuiltTask, RunningIsReady
  <2> QED BY <2>2, <2>3, <2>4, <2>5 DEF FrameInv, RunsBuiltTask, RunningIsReady
<1>8. CASE create_ktask
  BY <1>0, <1>8
  DEF create_ktask, sleepVars, TypeOK, FrameInv, RunsBuiltTask, RunningIsReady, Linked
<1>9. CASE UNCHANGED vars
  BY <1>0, <1>9 DEF vars, FrameInv, RunsBuiltTask, RunningIsReady, Linked
<1> QED
  BY <1>1, <1>2, <1>3, <1>4, <1>5, <1>6, <1>7, <1>8, <1>9 DEF Next, TimerTick, Yield

-----------------------------------------------------------------------------
(* Bounded waiting                                                         *)

\* Every tick takes from the way still to go what it adds to the wait.
LEMMA WaitStep ==
  ASSUME SchedulerInv, [Next]_vars
  PROVE  WaitInv'
<1> USE BootTasksFit, LinkedTasks
<1>0. /\ TypeOK /\ FrameInv /\ WaitInv /\ Waiters \subseteq BootTid
      /\ \A t \in TaskId : state[t] = "READY" => t \in Linked
  BY SchedulerAssumption DEF SchedulerInv, FrameInv
<1>1. CASE scheduler_tick
  <2>1. /\ UNCHANGED task_count
        /\ \A t \in TaskId :
             \/ state'[t] = state[t]
             \/ t \in Linked /\ state[t] = "SLEEPING" /\ state'[t] = "READY"
    BY <1>0, <1>1 DEF scheduler_tick, scheduler_update_time, TypeOK
  <2> SUFFICES ASSUME NEW t \in TaskId, t # current_task', state'[t] = "READY"
               PROVE  waited'[t] + Distance(current_task, t)' <= task_count
    BY <1>0, <1>1, <2>1, TickChoice DEF WaitInv
  <2>2. t \in Linked /\ MayRun(t) /\ current_task' \in Linked
    BY <1>0, <1>1, <2>1, TickChoice DEF MayRun
  <2>3. /\ waited'[t] \in Nat /\ waited[t] \in Nat
        /\ waited'[t] <= waited[t] + 1
    <3>1. waited[t] \in Nat /\ task_count \in Nat
      BY <1>0 DEF TypeOK
    <3>2. waited'[t] = CountTo(task_count, waited[t]) \/ waited'[t] = 0
      BY <1>1, TickChoice
    <3>3. /\ CountTo(task_count, waited[t]) \in Nat
          /\ CountTo(task_count, waited[t]) <= waited[t] + 1
      BY <3>1, Counting
    <3> HIDE DEF Linked
    <3> QED BY ONLY <3>1, <3>2, <3>3
  <2>4. Distance(current_task, current_task') <= Distance(current_task, t)
    BY <1>1, <2>2, TickChoice
  <2>5. waited[t] = 0 \/ (t # current_task /\ waited[t] + Distance(current_task, t) <= task_count)
    BY <1>0, <2>1 DEF WaitInv
  <2> QED
    BY <2>1, <2>2, <2>3, <2>4, <2>5 DEF Linked, Distance
<1>2. ASSUME NEW ms \in Durations, sleep_ms(ms)
      PROVE  WaitInv'
  BY <1>0, <1>2 DEF sleep_ms, TypeOK, WaitInv, Distance
<1>3. CASE block_task \/ terminate_task
  BY <1>0, <1>3 DEF block_task, terminate_task, sleepVars, TypeOK, WaitInv, Distance
<1>4. CASE check_task_count \/ alloc_task_fails
  BY <1>0, <1>4
  DEF check_task_count, alloc_task_fails, sleepVars, TypeOK, WaitInv, Distance
<1>5. ASSUME NEW t \in Waiters, wake_task(t)
      PROVE  WaitInv'
  BY <1>0, <1>5 DEF wake_task, sleepVars, TypeOK, WaitInv, Distance, Linked
<1>6. CASE alloc_task
  BY <1>0, <1>6, PlaceLeft
  DEF alloc_task, sleepVars, TypeOK, FrameInv, WaitInv, Distance, Linked
<1>7. CASE create_ktask
  BY <1>0, <1>7 DEF create_ktask, sleepVars, TypeOK, FrameInv, WaitInv, Distance, Linked
<1>8. CASE UNCHANGED vars
  BY <1>0, <1>8 DEF vars, WaitInv, Distance
<1> QED
  BY <1>1, <1>2, <1>3, <1>4, <1>5, <1>6, <1>7, <1>8 DEF Next, TimerTick, Yield

-----------------------------------------------------------------------------
(* The task limit                                                          *)

\* Past the test one creator more, past alloc_task one less.
LEMMA LimitStep ==
  ASSUME SchedulerInv, [Next]_vars
  PROVE  LimitInv'
<1> USE BootTasksFit, LinkedTasks
<1>0. TypeOK /\ LimitInv
  BY DEF SchedulerInv
<1>1. ASSUME pc' = pc \/ \E v \in ProgramCounter \ {"checked"} :
                           pc' = [pc EXCEPT ![current_task] = v],
             task_count' = task_count
      PROVE  LimitInv'
  <2>1. \A t \in TaskId : pc'[t] = "checked" => pc[t] = "checked"
    BY <1>0, <1>1 DEF TypeOK
  <2>2. Checked' \subseteq Checked
    BY <2>1, SchedulerAssumption DEF Checked, BootTid, TaskId
  <2>3. Cardinality(Checked') \in Nat /\ Cardinality(Checked') <= Cardinality(Checked)
    BY <2>2, FS_Subset, FS_CardinalityType
  <2> QED
    BY <1>0, <1>1, <2>1, <2>3, SchedulerAssumption DEF LimitInv, Checked
<1>2. CASE check_task_count
  <2>1. /\ \A t \in TaskId : pc'[t] = "checked" => t \in Creators
        /\ task_count' = task_count /\ task_count <= MAX_TASKS - 1
    BY <1>0, <1>2, SchedulerAssumption DEF check_task_count, TypeOK, LimitInv
  <2>2. Checked' \subseteq Creators
    BY DEF Checked
  <2>3. Cardinality(Checked') \in Nat /\ Cardinality(Checked') <= Cardinality(Creators)
    BY <2>2, SchedulerAssumption, FS_Subset, FS_CardinalityType
  <2> QED BY <2>1, <2>3, SchedulerAssumption DEF LimitInv, Checked
<1>3. CASE alloc_task
  <2>1. /\ current_task \in Checked /\ task_count' = task_count + 1
        /\ \A t \in TaskId :
             (pc'[t] = "checked") <=> (pc[t] = "checked" /\ t # current_task)
    BY <1>0, <1>3, PlaceLeft DEF alloc_task, TypeOK
  <2>2. Checked' = Checked \ {current_task}
    BY <2>1, SchedulerAssumption DEF Checked, BootTid, TaskId
  <2>3. Cardinality(Checked') = Cardinality(Checked) - 1
    BY <2>1, <2>2, FS_RemoveElement
  <2> QED BY <1>0, <2>1, <2>3, SchedulerAssumption DEF LimitInv, Checked
<1>4. CASE TimerTick \/ Yield
  BY <1>1, <1>4 DEF TimerTick, Yield, scheduler_tick, ProgramCounter
<1>5. ASSUME NEW ms \in Durations, sleep_ms(ms)
      PROVE  LimitInv'
  BY <1>1, <1>5 DEF sleep_ms, ProgramCounter
<1>6. CASE block_task \/ terminate_task \/ alloc_task_fails \/ create_ktask
  BY <1>1, <1>6
  DEF block_task, terminate_task, alloc_task_fails, create_ktask, ProgramCounter
<1>7. ASSUME NEW t \in Waiters, wake_task(t)
      PROVE  LimitInv'
  BY <1>1, <1>7 DEF wake_task
<1>8. CASE UNCHANGED vars
  BY <1>1, <1>8 DEF vars
<1> QED
  BY <1>2, <1>3, <1>4, <1>5, <1>6, <1>7, <1>8 DEF Next

-----------------------------------------------------------------------------
(* Sleeping                                                                *)

\* Every tick takes one from the ticks left and adds one to those slept.
LEMMA SleepStep ==
  ASSUME SchedulerInv, [Next]_vars
  PROVE  SleepInv'
<1> USE BootTasksFit, LinkedTasks
<1>0. TypeOK /\ SleepInv
  BY DEF SchedulerInv
<1>1. ASSUME UNCHANGED <<wake_tick, asked, slept, system_ticks>>,
             \A t \in TaskId : state'[t] = "SLEEPING" => state[t] = "SLEEPING"
      PROVE  SleepInv'
  BY <1>0, <1>1 DEF SleepInv, MsToTicks
<1>2. CASE scheduler_tick
  <2> SUFFICES ASSUME NEW t \in TaskId, state'[t] = "SLEEPING"
               PROVE  /\ asked'[t] \in Durations
                      /\ slept'[t] < MsToTicks(asked'[t])
                      /\ SubWord(wake_tick'[t], system_ticks')
                           = MsToTicks(asked'[t]) - slept'[t]
    BY DEF SleepInv, MsToTicks, SubWord
  <2> DEFINE n == MsToTicks(asked[t])
             now == AddWord(system_ticks, 1)
  <2>1. /\ state[t] = "SLEEPING" /\ t \in Linked /\ ~Expired(t, now)
        /\ system_ticks' = now /\ slept'[t] = CountTo(HALF, slept[t])
        /\ UNCHANGED <<wake_tick, asked>>
    BY <1>0, <1>2 DEF scheduler_tick, scheduler_update_time, TypeOK, SchedulerInv, FrameInv
  <2>2. /\ asked[t] \in Durations /\ n \in 1 .. HALF - 1 /\ slept[t] < n
        /\ SubWord(wake_tick[t], system_ticks) = n - slept[t]
    BY <1>0, <2>1, MsToTicksRange DEF SleepInv
  <2>3. /\ wake_tick[t] \in 0 .. WORD - 1 /\ system_ticks \in 0 .. WORD - 1
        /\ slept[t] \in Nat
    BY <1>0 DEF TypeOK
  <2> HIDE DEF n
  <2>6. slept'[t] = slept[t] + 1
    <3>1. slept[t] \in Nat /\ slept[t] < HALF
      BY <2>2, <2>3
    <3> QED BY <2>1, <3>1, Counting
  <2>4. now \in 0 .. WORD - 1 /\ SubWord(wake_tick[t], now) = n - slept[t] - 1
    BY <2>2, <2>3 DEF SubWord, AddWord
  <2>5. n - slept[t] - 1 # 0
    BY <2>1, <2>4 DEF Expired
  <2> QED BY <2>1, <2>2, <2>3, <2>4, <2>5, <2>6 DEF n
<1>3. ASSUME NEW ms \in Durations, sleep_ms(ms)
      PROVE  SleepInv'
  <2> SUFFICES ASSUME NEW t \in TaskId, state'[t] = "SLEEPING"
               PROVE  /\ asked'[t] \in Durations
                      /\ slept'[t] < MsToTicks(asked'[t])
                      /\ SubWord(wake_tick'[t], system_ticks')
                           = MsToTicks(asked'[t]) - slept'[t]
    BY DEF SleepInv, MsToTicks, SubWord
  <2>1. UNCHANGED system_ticks
    BY <1>3 DEF sleep_ms
  <2>2. CASE t = current_task
    <3> DEFINE n == MsToTicks(ms)
    <3>1. /\ asked'[t] = ms /\ slept'[t] = 0
          /\ wake_tick'[t] = AddWord(system_ticks, n)
      BY <1>0, <1>3, <2>2 DEF sleep_ms, TypeOK
    <3>2. n \in 1 .. HALF - 1 /\ system_ticks \in 0 .. WORD - 1
      BY <1>0, MsToTicksRange DEF TypeOK
    <3> HIDE DEF n
    <3>3. SubWord(AddWord(system_ticks, n), system_ticks) = n
      BY <3>2 DEF SubWord, AddWord
    <3> QED BY <2>1, <3>1, <3>2, <3>3 DEF n
  <2>3. CASE t # current_task
    BY <1>0, <1>3, <2>1, <2>3 DEF sleep_ms, TypeOK, SleepInv
  <2> QED BY <2>2, <2>3
<1>4. CASE block_task \/ terminate_task
  <2>1. \A t \in TaskId : state'[t] = "SLEEPING" => state[t] = "SLEEPING"
    BY <1>0, <1>4 DEF block_task, terminate_task, TypeOK
  <2> QED BY <1>1, <1>4, <2>1 DEF block_task, terminate_task, sleepVars
<1>5. CASE check_task_count \/ alloc_task_fails \/ UNCHANGED vars
  BY <1>1, <1>5 DEF check_task_count, alloc_task_fails, sleepVars, vars
<1>6. ASSUME NEW u \in Waiters, wake_task(u)
      PROVE  SleepInv'
  <2>1. \A t \in TaskId : state'[t] = "SLEEPING" => state[t] = "SLEEPING"
    BY <1>0, <1>6 DEF wake_task, TypeOK
  <2> QED BY <1>1, <1>6, <2>1 DEF wake_task, sleepVars
<1>7. CASE alloc_task
  <2>1. \A t \in TaskId : state'[t] = "SLEEPING" => state[t] = "SLEEPING"
    BY <1>0, <1>7, PlaceLeft DEF alloc_task, TypeOK
  <2> QED BY <1>1, <1>7, <2>1 DEF alloc_task, sleepVars
<1>8. CASE create_ktask
  <2>1. \A t \in TaskId : state'[t] = "SLEEPING" => state[t] = "SLEEPING"
    BY <1>0, <1>8 DEF create_ktask, TypeOK
  <2> QED BY <1>1, <1>8, <2>1 DEF create_ktask, sleepVars
<1> QED
  BY <1>2, <1>3, <1>4, <1>5, <1>6, <1>7, <1>8 DEF Next, TimerTick, Yield

-----------------------------------------------------------------------------
(* Theorems                                                                *)

\* SchedulerInv holds in every reachable state.
THEOREM Invariance == Spec => []SchedulerInv
<1>1. SchedulerInv /\ [Next]_vars => SchedulerInv'
  BY TypeStep, FrameStep, WaitStep, LimitStep, SleepStep DEF SchedulerInv
<1> QED BY InitInv, <1>1, PTL DEF Spec

\* task.c: the variables of the scheduler keep their types, so no tid, tick
\* or program counter leaves its range.
THEOREM TypeCorrect == Spec => []TypeOK
<1>1. SchedulerInv => TypeOK
  BY DEF SchedulerInv
<1> QED BY Invariance, <1>1, PTL

\* task.c 117-128: the running task always has a frame built by create_ktask.
THEOREM DispatchSafe == Spec => [](RunsBuiltTask /\ RunningIsReady)
<1>1. SchedulerInv => RunsBuiltTask /\ RunningIsReady
  BY DEF SchedulerInv, FrameInv
<1> QED BY Invariance, <1>1, PTL

\* task.c 91-115: no READY task waits for as many dispatches as there are tasks.
THEOREM RoundRobin == Spec => []BoundedWaiting
<1>1. SchedulerInv => BoundedWaiting
  BY LinkedTasks DEF SchedulerInv, TypeOK, WaitInv, BoundedWaiting, Distance, Linked
<1> QED BY Invariance, <1>1, PTL

\* task.c 131: the unprotected test lets at most one task too many per other
\* creator through.
THEOREM LimitBound == Spec => []LimitOvershoot
<1>1. SchedulerInv => LimitOvershoot
  BY LinkedTasks, BootTasksFit, SchedulerAssumption
  DEF SchedulerInv, LimitInv, LimitOvershoot
<1> QED BY Invariance, <1>1, PTL

\* sleep.c 7-24 and task.c 82: a sleeper the tick wakes has slept exactly the
\* ticks ms_to_ticks makes of its milliseconds, whatever the width of the
\* counter and wherever it wraps.  Ticks, not time: those of the PIT and
\* those of every yield, its own first.
THEOREM SleepExact == Spec => WokenOnTick
<1>1. ASSUME SchedulerInv, [Next]_vars,
             NEW t \in TaskId, state[t] = "SLEEPING", state'[t] = "READY",
             system_ticks' # system_ticks
      PROVE  /\ slept'[t] * MS_PER_SECOND >= asked[t] * PIT_FREQUENCY
             /\ \/ slept'[t] = 1
                \/ (slept'[t] - 1) * MS_PER_SECOND < asked[t] * PIT_FREQUENCY
  <2> DEFINE n == MsToTicks(asked[t])
             now == AddWord(system_ticks, 1)
  <2>1. scheduler_tick
    BY <1>1 DEF Next, TimerTick, Yield, sleep_ms, block_task, wake_task,
                terminate_task, check_task_count, alloc_task, alloc_task_fails,
                create_ktask, vars
  <2>2. TypeOK /\ SleepInv
    BY <1>1 DEF SchedulerInv
  <2>3. Expired(t, now) /\ slept'[t] = CountTo(HALF, slept[t])
    BY <1>1, <2>1, <2>2 DEF scheduler_tick, scheduler_update_time, TypeOK
  <2>4. /\ asked[t] \in Durations /\ n \in 1 .. HALF - 1 /\ slept[t] < n
        /\ SubWord(wake_tick[t], system_ticks) = n - slept[t]
    BY <1>1, <2>2, MsToTicksRange DEF SleepInv
  <2>5. /\ wake_tick[t] \in 0 .. WORD - 1 /\ system_ticks \in 0 .. WORD - 1
        /\ slept[t] \in Nat
    BY <2>2 DEF TypeOK
  <2>6. slept'[t] = n
    <3> HIDE DEF n
    <3>2. slept[t] \in Nat /\ slept[t] < HALF /\ HALF \in Nat
      BY <2>4, <2>5, BootTasksFit
    <3>3. slept'[t] = slept[t] + 1
      BY <2>3, <3>2, Counting
    <3>1. SubWord(wake_tick[t], now) = n - slept[t] - 1
      BY <2>4, <2>5, BootTasksFit DEF SubWord, AddWord
    <3> QED BY <2>3, <2>4, <2>5, <3>1, <3>3, BootTasksFit DEF Expired
  <2> QED BY <2>4, <2>6, MsToTicksRounding
<1>2. SchedulerInv /\ [Next]_vars =>
        [\A t \in TaskId :
           state[t] = "SLEEPING" /\ state'[t] = "READY" /\ system_ticks' # system_ticks
             => /\ slept'[t] * MS_PER_SECOND >= asked[t] * PIT_FREQUENCY
                /\ \/ slept'[t] = 1
                   \/ (slept'[t] - 1) * MS_PER_SECOND < asked[t] * PIT_FREQUENCY]_vars
  BY <1>1
<1> QED BY Invariance, <1>2, PTL DEF Spec, WokenOnTick
=============================================================================
