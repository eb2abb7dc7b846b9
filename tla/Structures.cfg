SPECIFICATION StructuresSpec
CONSTANTS
  MaxKeys = 13
  MaxCalls = 4
  NULL = NULL
  NoCall = NoCall
  AvlKeys = {1, 2, 3, 4, 5, 6, 7, 8, 9}
  AvlNodes = 9
  AvlSmall = 6
  RbKeys = {1, 2, 3, 4, 5, 6, 7}
  MaxGarbage = 2
  MedianValues <- SmallValues
  MAX_HEAP_SIZE = 4
  INT_LIMIT = 8
  HeapKeys <- BothSides
  HeapNodes = 12
  SmallHeap = 10
  StaleCalls = 2
INVARIANTS
  TreeInv
  SetOfKeysKept
  AvlInv
  RbInv
  MedianInv
  HeapInv
CHECK_DEADLOCK FALSE
