SPECIFICATION FairSpec
CONSTANTS
  Threads = {t1, t2}
  LogicalMax = 1
  MaxDrift = 0
  Phys = {0, 1}
  MaxCalls = 3
  MaxRestarts = 1
INVARIANTS TicksIncrease ObservesIncrease
PROPERTIES ImplementsAtomic CallsReturn
CHECK_DEADLOCK FALSE
