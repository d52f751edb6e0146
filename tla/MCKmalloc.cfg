CONSTANTS
  PAGE_SIZE = 4
  Header = 2
  BlockSizes <- MCBlockSizes
  POOL_PAGE_INCREASE = 2
  HeapPages = 6
  Requests = {2, 6, 8, 11}
SPECIFICATION Spec
INVARIANTS
  BlocksApart
  BlockOnce
  UsersApart
CHECK_DEADLOCK FALSE
