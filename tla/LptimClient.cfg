CONSTANTS
  LPTIM1_TICK_HZ = 250
  MaxTicks = 3
  Periods = {0, 1, 4, 5, 12, 13}
  Tables = {1, 2}
SPECIFICATION Spec
INVARIANTS TypeOK InterruptFindsHandle CallbackMatches PeriodHonoured
PROPERTY KeepsElapsing
