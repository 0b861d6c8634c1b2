CONSTANTS
  Byte = {1, 2}
  Blank = Blank
  kCheapPrepend = 1
  InitialSize = 2
  ShrinkSize = 1
  ExtraSize = 1
  MaxLen = 2
  MaxReadable = 5
  MaxReserve = 1
SPECIFICATION Spec
INVARIANTS CapacityBounded
PROPERTIES ImplementsDeque
CHECK_DEADLOCK FALSE
