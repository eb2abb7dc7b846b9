SPECIFICATION FairSpec
CONSTANTS
  Workers = {w1, w2}
  Callers = {a, b, c}
  a = a
  Paths <- Tree
  Kind <- TreeKind
  Entries <- TreeEntries
  Root <- TreeRoot
  Matching = {"file"}
  MaxFailures = 1
  None = None
INVARIANTS
  CrewInv
  SearchExact
PROPERTIES
  SearchEnds
CHECK_DEADLOCK FALSE
