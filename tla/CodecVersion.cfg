CONSTANTS
  Radix = 4
  LimitOf <- MCLimitOf
  Type = {1, 2}
  Version = {0, 1}
  Body <- MCBody
  BadLength <- MCBadLength
  MaxPackets = 3
SPECIFICATION Spec
INVARIANTS VersionChecked
CHECK_DEADLOCK FALSE
