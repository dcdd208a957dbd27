SPECIFICATION Spec
CONSTANTS
  Proc = {p1, p2}
  NoProc = NoProc
  DATA_BUCKETS_STEP = 2
  MAX_DATA_BUCKETS_STEPS = 2
  Builds = {FALSE}
  Truncating = {p1}
  CounterMod = 16
  ReturnBound = 2
INVARIANT ExitsWhenFull
CHECK_DEADLOCK FALSE
