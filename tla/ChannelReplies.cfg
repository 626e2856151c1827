SPECIFICATION FairSpecAll
CONSTANTS
  m1 = m1
  chat = chat
  Msg = {m1}
  Conversation = {chat}
  ConvOf <- OneChat
  Hook = {h1}
  Run = {r1}
  Dispatcher = {d1, d2}
  NoMsg = NoMsg
  NoRun = NoRun
  MaxAttempts = 3
  MaxDeliveries = 3
  MaxCrashes = 1
  MaxFails = 1
  Viewer = {v1}
  Submitter = {c1}
  Watcher = {}
  Limit = 2
  MaxEvents = 2
  MaxLost = 1
INVARIANTS
  NoEarlyEventMissed
  OneMessagePerClaim
PROPERTIES
  
  
  StreamEnds
CHECK_DEADLOCK FALSE
