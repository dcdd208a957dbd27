SPECIFICATION Spec
CONSTANTS
  Proc = {p1, p2}
  NoProc = NoProc
  Tot = 2
  NCores = 1
  Methods = {"all_random", "all_rough_ind", "all_per_core_random", "all_per_core_rough_ind"}
  AllowRelease = TRUE
  CounterMod = 4
PROPERTY
  ImplementsAllocator
CHECK_DEADLOCK FALSE
