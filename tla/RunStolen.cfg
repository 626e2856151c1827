SPECIFICATION Spec
CONSTANTS
  Run = {r0, r1, r2, r3}
  Root = r0
  Worker = {w1, w2}
  NoRun = NoRun
  MaxDepth = 2
  MaxParks = 1
  MaxSweeps = 1
  MaxFaults = 1
INVARIANTS
  HealthyRunIsKept
CHECK_DEADLOCK FALSE
