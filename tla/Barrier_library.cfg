SPECIFICATION FairSpec
CONSTANTS
  Clients = {t1, t2, t3, t4}
  threshold = 3
  INT_MAX = 2
  ULONG_MAX = 15
  MaxCycles = 2
  MaxWaitFailures = 1
INVARIANTS
  BarrierInv
PROPERTIES
  Implements
  ReleasedReturn
CHECK_DEADLOCK FALSE
