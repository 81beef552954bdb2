SPECIFICATION LiveSpec
CONSTANTS
  Timers = {t1, t2, t3}
  Null = Null
  TTL = 2
  MaxNow = 5
  ClockBack = FALSE
INVARIANTS TypeOK AllListed Sorted NoDangling
PROPERTIES CallReturns ImplementsTimerSet
