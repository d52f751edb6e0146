CONSTANTS
  Fan = 4
  Depth = 2
  PageWords = 4
  StackPages = 2
  StacksStart = 16
  StacksEnd = 30
  HeapStart = 50
  HeapEnd = 53
  Pool0 <- MCPool
  MaxStacks = 2
  MaxAlloc = 2
SPECIFICATION PagingSpec
INVARIANTS
  OneRole
  Reachable
  NeverRemapped
  Usable
PROPERTY HeapStable
CHECK_DEADLOCK FALSE
