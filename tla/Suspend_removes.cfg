SPECIFICATION FairSpec
CONSTANTS
  Callers = {c1, c2}
  Targets = {t1, t2}
  Mortal = {}
  bottom = 2
  MaxCalls = 4
  NULL = NULL
PROPERTIES
  ContinueRemoves
CHECK_DEADLOCK FALSE
