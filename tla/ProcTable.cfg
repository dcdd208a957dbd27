SPECIFICATION Spec
CONSTANTS
  Pid = {p1, p2}
  NoPid = NoPid
  OldPid = OldPid
  MAX_EXEC_HANGING = 2
  Std = Std
  NoTable = NoTable
INVARIANTS
  TypeOK
  UniquePid
  LeavesNothing
  RestoredOwn
PROPERTIES
  CallEnds
CHECK_DEADLOCK FALSE
