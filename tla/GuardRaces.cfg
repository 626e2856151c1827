SPECIFICATION SpecAll
CONSTANTS
  c1 = c1
  c2 = c2
  key = key
  unit = unit
  Change = {c1}
  Operator = {o1, o2}
  Sweeper = sweeper
  Key = {}
  ExtraKey = {}
  Unit = {unit}
  Value = {v0, v1}
  TargetOf <- OneUnit
  NoRequest = NoRequest
  MaxCrashes = 1
  MaxFails = 1
  MaxLate = 1
  LongWindows = FALSE
  Call = {k1, k2}
  NoCall = NoCall
  Ops <- SomeCalls
  Allowlist = {"fs.listed"}
  Backlog = 2
  Hosts <- SomeHosts
  Conditions <- SomeConditions
  NumberOf <- SomeNumbers
  Truthy = {"1", "true", "yes", "active", "on"}
  ProcessLimit = 2
  Terminal = {t1}
  Window = w1
  MaxRuns = 2
  MaxGates = 2
  MaxOdd = 1
INVARIANTS
  ArmedIsSwept
  
  LaterCallPrevails
  
  RunIsDriven
  ExitTells
  
CHECK_DEADLOCK FALSE
