CONSTANTS
  Fan = 4
  Depth = 2
  PageWords = 4
  StackPages = 2
  StacksStart = 16
  StacksEnd = 20
  HeapStart = 50
  HeapEnd = 51
  Pool0 <- MCPool
  MaxStacks = 3
  MaxAlloc = 1
SPECIFICATION PagingSpec
INVARIANT StacksInRegion
CHECK_DEADLOCK FALSE
