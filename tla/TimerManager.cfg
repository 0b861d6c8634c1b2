CONSTANTS
  Timers = {t1, t2}
  Tasks = {1, 2, 3}
  UserTasks = {id1, id2}
  Delays = {0, 1, 2}
  MaxTime = 3
  NULL = NULL
SPECIFICATION FairSpec
INVARIANTS MapOwnsTimers
PROPERTIES ImplementsAlarms
CHECK_DEADLOCK FALSE
