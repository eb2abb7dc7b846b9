SPECIFICATION Spec
CONSTANTS
  Servers = {s1, s2, s3}
  Callers = {main, helper}
  Main = main
  ITERATIONS = 2
  parallelism = 2
  MaxWaitFailures = 0
  NULL = NULL
SYMMETRY ServerSymmetry
INVARIANTS
  AddNeverFaults
CHECK_DEADLOCK FALSE
