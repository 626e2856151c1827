SPECIFICATION FairSpecAll
CONSTANTS
  Run = {r1}
  Task = {t1, t2}
  Handler = {h1, h2}
  Gate = {g1}
  NoRun = NoRun
  NoCkpt = NoCkpt
  NoJob = NoJob
  NoReq = NoReq
  ApiOps = {"decide"}
  MaxSteps = 1
  MaxCalls = 1
  MaxRequeues = 1
  MaxCrashes = 1
  MaxLost = 0
  MaxBusFails = 1
  Durable = TRUE
  Timely = TRUE
  Provider = {"A", "B"}
  Caller = {c1, c2}
  Alias = {"x", "y"}
  Chain <- Chains
  NoProvider = "?"
  Threshold = 2
  Attempts = 2
  MaxFaults = 1
  Dialect = {"anthropic", "openai", "gemini"}
  MaxText = 1
  Shapes <- TurnShapes
INVARIANTS
  
  StreamIsParsed
  NoHalfCall
PROPERTIES
  RunSettles
  Readmitted
CHECK_DEADLOCK FALSE
