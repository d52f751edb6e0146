CONSTANTS
  PAGE_SIZE = 2
  WORD = 16
  MAX_SECTS = 3
  Inputs <- MCInputs
  JUNK = JUNK
SPECIFICATION Spec
INVARIANTS
  FreeIsRest
  ListIntact
  FrameOnce
PROPERTIES
  BootEnds
  ImplementsPool
CHECK_DEADLOCK FALSE
