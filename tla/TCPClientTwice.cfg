CONSTANTS
  Fd = {1, 2, 3}
  NULL = NULL
  MaxTasks = 2
  MaxCalls = 4
  MaxFails = 2
  Careful = FALSE
  MayRefuse = FALSE
SPECIFICATION Spec
INVARIANT NoStraySocket
CHECK_DEADLOCK FALSE
