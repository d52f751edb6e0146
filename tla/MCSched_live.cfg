\* One of three processes may exit; no symmetry, the properties are temporal.
CONSTANTS
  Spawner = p1
  SpawnSet = {}
  BootSet = {p2, p3}
  Exiting = {p3}
  AllQueues = {kbd}
  HeadQueues = {disk}
  Main = Main
  NULL = NULL
  SemMax = 7
  MaxNest = 2
SPECIFICATION FairSpec
PROPERTIES
  ReadyRuns
  InterruptsReturn
  ImplementsDispatcher
CHECK_DEADLOCK FALSE
