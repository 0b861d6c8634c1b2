CONSTANTS
  Handle = {h1, h2, h3, h4}
  MaxConn = 4
  MinConn = 2
  NULL = NULL
  Writes = {w1, w2}
  MaxTxn = 2
  MaxFaults = 2
SPECIFICATION DatabaseSpec
INVARIANTS StatesTellTruth ToldIsTrue RepeatedOnlyIfAnswerLost NoTransactionLeftOpen NullOnlyIfLostInSetUp
PROPERTIES ImplementsLease CallsReturn
CHECK_DEADLOCK FALSE
