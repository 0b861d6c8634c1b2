CONSTANTS
  Fd = {1, 2, 3, 4}
  NULL = NULL
  MaxTasks = 2
  MaxCalls = 7
  MaxFails = 5
  Careful = TRUE
  MayRefuse = TRUE
SPECIFICATION FairSpec
INVARIANTS OneAttempt StateMatchesSocket NoStraySocket NothingFindsDeleted
PROPERTIES WantedIsConnected
CHECK_DEADLOCK FALSE
