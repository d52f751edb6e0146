CONSTANTS
  Readers = {r1, r2}
  Keys = {k}
  Size = 3
  MaxLen = 2
  MaxChars = 4
  Main = Main
  NONE = NONE
SPECIFICATION Spec
INVARIANTS
  SleepersHaveNothing
  ReadsInOrder
PROPERTY ReadReturns
