SPECIFICATION FairSpec
CONSTANTS
  Servers = {s1, s2}
  Callers = {main, helper}
  Main = main
  ITERATIONS = 2
  parallelism = 2
  MaxWaitFailures = 1
  NULL = NULL
INVARIANTS
  QueueInv
  NoStrandedWork
  RequestsAccounted
PROPERTIES
  Terminates
CHECK_DEADLOCK FALSE
