SPECIFICATION FairSpec
CONSTANTS
  Run = {r1}
  Task = {t1, t2}
  Handler = {h1}
  Gate = {g1}
  NoRun = NoRun
  NoCkpt = NoCkpt
  NoJob = NoJob
  NoReq = NoReq
  ApiOps = {"cancel", "decide"}
  MaxSteps = 1
  MaxCalls = 1
  MaxRequeues = 1
  MaxCrashes = 0
  MaxLost = 0
  MaxBusFails = 0
  Durable = TRUE
  Timely = TRUE
PROPERTIES
  CancelSettles
CHECK_DEADLOCK FALSE
