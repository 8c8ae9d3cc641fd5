CONSTANTS
  MaxLength = 1
  Byte = {1, 2, 3, 4, 5, 6, 7, 8}
SPECIFICATION Spec
CHECK_DEADLOCK FALSE
INVARIANTS TypeOK BufferOwnership NothingLost
PROPERTIES OnlyOverrunHalts EchoedOrHalted
