SPECIFICATION FairSpec
CONSTANTS
  Run = {r1}
  Task = {t1, t2}
  Handler = {h1}
  Gate = {g1}
  NoRun = NoRun
  NoCkpt = NoCkpt
  NoJob = NoJob
  NoReq = NoReq
  ApiOps = {}
  MaxSteps = 1
  MaxCalls = 1
  MaxRequeues = 1
  MaxCrashes = 1
  MaxLost = 1
  MaxBusFails = 0
  Durable = TRUE
  Timely = TRUE
PROPERTIES
  StartedRunSettles
CHECK_DEADLOCK FALSE
