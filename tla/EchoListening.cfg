CONSTANTS
  MaxLength = 2
  Byte = {1, 2, 3}
  Sender = "listening"
  Periodic = TRUE
  LPTIM1_TICK_HZ = 250
  MaxTicks = 65536
SPECIFICATION Spec
CHECK_DEADLOCK FALSE
INVARIANT BufferOwnership
