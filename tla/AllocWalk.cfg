SPECIFICATION FairSpec
CONSTANTS
  Proc = {p1, p2}
  NoProc = NoProc
  Tot = 4
  NCores = 2
  Methods = {"all_random", "all_rough_ind", "all_per_core_random", "all_per_core_rough_ind"}
  AllowRelease = FALSE
  CounterMod = 6
INVARIANTS
  TypeOK
  Exclusive
  InUseIffHeld
  OverUseJustified
PROPERTY
  CallEnds
CHECK_DEADLOCK FALSE
