SPECIFICATION FairSpec
CONSTANTS
  Proc = {p1, p2, p3}
  NoProc = NoProc
  DATA_BUCKETS_STEP = 1
  MAX_DATA_BUCKETS_STEPS = 2
  Builds = {TRUE, FALSE}
  Truncating = {p1, p2}
  CounterMod = 4
  ReturnBound = 3
INVARIANTS
  TypeOK
  MappedExist
  IndexIsBucket
PROPERTIES
  GrowsWhenFull
  CallEnds
CHECK_DEADLOCK FALSE
