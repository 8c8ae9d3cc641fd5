CONSTANTS
  TickRange = 8
  Limits = {0, 1, 3, 6, 7}
SPECIFICATION Spec
INVARIANTS TypeOK NoWaitEndsEarly WaitEndsInTime
PROPERTIES TimeNeverJumps TaskWaitEnds
