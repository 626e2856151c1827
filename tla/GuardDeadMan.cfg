SPECIFICATION FairSpec
CONSTANTS
  c1 = c1
  c2 = c2
  key = key
  unit = unit
  Change = {c1}
  Operator = {}
  Sweeper = sweeper
  Key = {key}
  ExtraKey = {}
  Unit = {}
  Value = {v0, v1}
  TargetOf <- OneKey
  NoRequest = NoRequest
  MaxCrashes = 0
  MaxFails = 0
  MaxLate = 0
  LongWindows = TRUE
PROPERTIES
  DeadManFires
CHECK_DEADLOCK FALSE
