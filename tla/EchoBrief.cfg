CONSTANTS
  MaxLength = 3
  Byte = {1, 2, 3, 4, 5}
  Sender = "brief"
  Periodic = TRUE
  LPTIM1_TICK_HZ = 250
  MaxTicks = 65536
SPECIFICATION Spec
CHECK_DEADLOCK FALSE
INVARIANTS TypeOK WaitsWithReceive EchoInOrder
PROPERTIES EveryByteEchoed PeriodIsGreeted OnlyOverrunHalts
