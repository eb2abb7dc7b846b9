SPECIFICATION FairSpec
CONSTANTS
  CLIENT_THREADS = 2
  Loops = 2
  MaxLines = 3
INVARIANTS
  TtyInv
  OutputComplete
PROPERTIES
  ServerResponds
CHECK_DEADLOCK FALSE
