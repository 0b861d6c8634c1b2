CONSTANTS
  Conn = {c1}
  Thread = {t1}
  Byte <- MCByte
  Payload <- MCPayload
  Garbage = Garbage
  Wrap <- MCWrap
  MaxSends = 2
  MaxTasks = 2
SPECIFICATION Spec
INVARIANTS RemainingWithinData
CHECK_DEADLOCK FALSE
