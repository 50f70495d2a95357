SPECIFICATION Spec
CONSTANTS
  MAX_TASKS = 5
  BootTasks = 4
  IdleTid = 1
  Creators = {2, 3}
  Waiters = {0, 3}
  Sleepers = {}
  Terminators = {2}
  ProcessTasks = {2}
  Durations = {1}
  PIT_FREQUENCY = 1
  MS_PER_SECOND = 2
  HALF = 2
INVARIANTS
  TypeOK
  RunsBuiltTask
  BoundedWaiting
  LimitOvershoot
PROPERTIES
  ReadyRuns
