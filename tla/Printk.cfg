CONSTANTS
  width = 2
  height = 2
  Word = 16
  MaxText = 10
  Dec = 3
  Hex = 4
  ShortSize = 4
  IntSize = 16
  LongSize = 64
SPECIFICATION Spec
INVARIANTS
  CursorOnScreen
  ScreenShowsPaper
  NumbersExact
PROPERTY NewLineBelow
CHECK_DEADLOCK FALSE
