\* One process that may exit.
CONSTANTS
  Spawner = p1
  SpawnSet = {}
  BootSet = {p2}
  Exiting = {p2}
  AllQueues = {kbd}
  HeadQueues = {disk}
  Main = Main
  NULL = NULL
  SemMax = 7
  MaxNest = 2
SPECIFICATION Spec
INVARIANT ShiftRequestedMasked
CHECK_DEADLOCK FALSE
