CONSTANTS
  Timers = {t1}
  Tasks = {1, 2, 3}
  UserTasks = {u}
  Delays = {0, 1, 2}
  MaxTime = 4
  NULL = NULL
SPECIFICATION FairSpec
INVARIANTS LinksAgree
PROPERTIES ImplementsAlarm
CHECK_DEADLOCK FALSE
