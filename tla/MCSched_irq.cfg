\* stress_test creates two processes, kmain two more; a keyboard-like and a
\* disk-like queue; every process but stress_test may exit.
CONSTANTS
  Spawner = p1
  SpawnSet = {p2, p3}
  BootSet = {p4, p5}
  Exiting = {p2, p3, p4, p5}
  AllQueues = {kbd}
  HeadQueues = {disk}
  Main = Main
  NULL = NULL
  SemMax = 7
  MaxNest = 2
SPECIFICATION Spec
SYMMETRY Symmetry
INVARIANTS
  IrqDiscipline
  LinkedOnce
  NoProcessLost
  CreateUndisturbed
  ResumedOnlyWhenWoken
\* A context loaded from freed memory runs nothing the model knows of.
CHECK_DEADLOCK FALSE
