CONSTANTS
  PoolSize = 3
  Conns = {c1, c2, c3, c4}
  MaxFail = 1
  QUIT = QUIT
SPECIFICATION FairSpec
INVARIANTS EveryAcceptedIsAnnounced Balanced NoThreadOutlivesPool
PROPERTIES ShutdownReturns BacklogIsServed
CHECK_DEADLOCK FALSE
