SPECIFICATION MFairSpec
CONSTANTS
  Clients = {0, 1, 2}
  threshold = 3
  INT_MAX = 7
  ULONG_MAX = 31
  MaxCycles = 7
  MaxWaitFailures = 1
  ARRAY = 2
  INLOOPS = 1
  OUTLOOPS = 1
INVARIANTS
  RoundsKept
  ResultsExact
PROPERTIES
  Terminates
CHECK_DEADLOCK FALSE
