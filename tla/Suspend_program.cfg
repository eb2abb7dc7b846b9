SPECIFICATION FairSpec
CONSTANTS
  Callers = {c1, c2}
  Targets = {t1, t2}
  Mortal = {t1}
  bottom = 1
  MaxCalls = 6
  NULL = NULL
INVARIANTS
  SuspendInv
PROPERTIES
  ContinueResumes
  SuspendReturns
CHECK_DEADLOCK FALSE
