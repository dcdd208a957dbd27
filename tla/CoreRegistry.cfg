SPECIFICATION Spec
CONSTANTS
  Proc = {p1, p2, p3}
  NoProc = NoProc
  ncores = 2
  Cpu = {0, 1}
INVARIANTS
  TypeOK
  CachedEntryMine
CHECK_DEADLOCK FALSE
