SPECIFICATION SpecAll
CONSTANTS
  Run = {r1}
  Task = {t1, t2}
  Handler = {h1}
  Gate = {g1, g2}
  NoRun = NoRun
  NoCkpt = NoCkpt
  NoJob = NoJob
  NoReq = NoReq
  ApiOps = {"cancel", "decide"}
  MaxSteps = 2
  MaxCalls = 2
  MaxRequeues = 1
  MaxCrashes = 1
  MaxLost = 1
  MaxBusFails = 0
  Durable = TRUE
  Timely = TRUE
  Kin = {k0, k1, k2, k3}
  Root = k0
  Holder = {w1, w2}
  MaxDepth = 2
  MaxParks = 1
  MaxSweeps = 1
  MaxFaults = 1
SYMMETRY Symmetry
INVARIANTS
  SingleDriver
  StepLogInOrder
  StepBudget
  OneAnswer
  KeptRunsAreResumable
  InlineGatesHold
  TreeIsShallow
  
PROPERTIES
  SettledRunStays
  ImplementsRunStatus
CHECK_DEADLOCK FALSE
