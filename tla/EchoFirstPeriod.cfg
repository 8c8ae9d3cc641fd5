CONSTANTS
  MaxLength = 3
  Byte = {1, 2, 3, 4, 5, 6, 7}
  Sender = "free"
  Periodic = FALSE
  LPTIM1_TICK_HZ = 250
  MaxTicks = 65536
SPECIFICATION Spec
CHECK_DEADLOCK FALSE
INVARIANTS BufferOwnership EchoInOrder
PROPERTY OnlyOverrunHalts
