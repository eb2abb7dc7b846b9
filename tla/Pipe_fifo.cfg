SPECIFICATION FairSpec
CONSTANTS
  stages = 3
  Values = {0, 5}
  QueueSize = 2
  MaxStarts = 5
INVARIANTS
  PipeSound
PROPERTIES
  ImplementsFifo
  CallsReturn
CHECK_DEADLOCK FALSE
