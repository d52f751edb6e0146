CONSTANTS
  Lines = {0, 4, 14}
  Size = 3
  NONE = NONE
  MaxText = 3
  MaxError = 2
  MaxStr = 2
  MaxDisk = 2
SPECIFICATION Spec
INVARIANTS
  SerialInOrder
  NeverStuck
  WriterInOrder
  NoneUnhandled
  ServiceEnds
PROPERTY EverythingSent
