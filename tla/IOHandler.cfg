CONSTANTS
  Conn = {c1}
  Thread = {t1, t2}
  Byte <- MCByte
  Payload <- MCPayload
  Garbage = Garbage
  Wrap <- MCWrap
  MaxSends = 3
  MaxTasks = 3
SPECIFICATION FairSpec
INVARIANTS StreamIntegrity WatchedWhileUnsent UpcallOrder ObjectLifetime
PROPERTIES UnsentIsFlushed
CHECK_DEADLOCK FALSE
