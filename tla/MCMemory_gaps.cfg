CONSTANTS
  PAGE_SIZE = 2
  WORD = 16
  MAX_SECTS = 3
  Inputs <- MCInputs
  JUNK = JUNK
SPECIFICATION Spec
INVARIANT KernelNeverFree
CHECK_DEADLOCK FALSE
