CONSTANTS
  Thread = {t1, t2}
  NoOne = NoOne
  Fd = {f1, f2}
  PipeCap = 1
  Delay = {0, 1, 2}
  MaxPosts = 2
  MaxArrivals = 2
  MaxTime = 3
SPECIFICATION FairSpec
INVARIANTS NoLostWakeup RunsOnceInTurn SleepsUntilDue PumpOutlivesPost
PROPERTIES PostedRuns QuitReturns ReadyIsHandled
CHECK_DEADLOCK FALSE
