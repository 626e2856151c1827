SPECIFICATION FairSpec
CONSTANTS
  c1 = c1
  c2 = c2
  key = key
  unit = unit
  Change = {c1, c2}
  Operator = {}
  Sweeper = sweeper
  Key = {key}
  ExtraKey = {}
  Unit = {unit}
  Value = {v0, v1}
  TargetOf <- Apart
  NoRequest = NoRequest
  MaxCrashes = 1
  MaxFails = 1
  MaxLate = 0
  LongWindows = TRUE
INVARIANTS
  
  RevertedIsUndone
PROPERTIES
  ImplementsLedger
  ExpiredIsSettled
  GuardConcludes
CHECK_DEADLOCK FALSE
