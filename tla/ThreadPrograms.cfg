SPECIFICATION Spec
CONSTANTS
  LastThread = 4
  None = None
  TestEvery = 5
  SleepEvery = 3
  TeamSize = 3
  TCOUNT = 4
  COUNT_LIMIT = 5
  Increase = 6
  Interrupts = 3
  SPIN = 3
  Rounds = 3
  MaxMisses = 3
  NUMTHRDS = 4
  VECLEN = 2
  MinPerThread = 2
  MaxLength = 9
  Waits = 5
  MaxTicks = 4
  DataSize = 7
  BufferSize = 2
  LineLength = 2
  Messages = 3
  Connections = 2
  Addresses = 2
INVARIANTS
  ForkInv
  CancellationInv
  ConditionInv
  SharedResults
  OnceInv
  SemaphoreInv
  StreamInv
  ProcessInv
PROPERTIES
  ProgramsEnd
CHECK_DEADLOCK FALSE
