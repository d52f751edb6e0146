CONSTANTS
  p1 = p1
  p2 = p2
  p3 = p3
  Procs = {p1, p2, p3}
  FSP = p1
  Disks = {1, 2}
  Reads <- MCReads
  MaxSlots = 2
  Machines <- MCMachines
  Main = Main
  NULL = NULL
SPECIFICATION Spec
INVARIANTS
  ReadsOwnBlock
  QueuesAgree
  DeviceServesHead
  FindsEveryDevice
  InsidePartition
PROPERTY ReadReturns
CHECK_DEADLOCK FALSE
