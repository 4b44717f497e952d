SPECIFICATION Spec
CONSTANTS
  Cpus = 2
  Pids = {p1, p2, p3}
  NoPid = NoPid
  MaxCalls = 2
INVARIANTS OnlyBurnersSignalled NoBurnerLeft
PROPERTIES BurnersStop
