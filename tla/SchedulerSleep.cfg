SPECIFICATION Spec
CONSTANTS
  MAX_TASKS = 4
  BootTasks = 3
  IdleTid = 1
  Creators = {}
  Waiters = {0}
  Sleepers = {0, 2}
  Terminators = {}
  ProcessTasks = {2}
  Durations = {0, 3, 5}
  PIT_FREQUENCY = 1
  MS_PER_SECOND = 2
  HALF = 4
INVARIANTS
  SchedulerInv
PROPERTIES
  WokenOnTick
  SleeperWakes
