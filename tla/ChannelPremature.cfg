SPECIFICATION Spec
CONSTANTS
  m1 = m1
  chat = chat
  Msg = {m1}
  Conversation = {chat}
  ConvOf <- OneChat
  Hook = {h1}
  Run = {r1}
  Dispatcher = {d1}
  NoMsg = NoMsg
  NoRun = NoRun
  MaxAttempts = 2
  MaxDeliveries = 1
  MaxCrashes = 0
  MaxFails = 0
INVARIANTS
  NothingPremature
CHECK_DEADLOCK FALSE
