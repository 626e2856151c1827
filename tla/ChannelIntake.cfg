SPECIFICATION SpecAll
CONSTANTS
  m1 = m1
  chat = chat
  Msg = {m1}
  Conversation = {chat}
  ConvOf <- OneChat
  Hook = {h1, h2}
  Run = {r1, r2, r3}
  Dispatcher = {}
  NoMsg = NoMsg
  NoRun = NoRun
  MaxAttempts = 2
  MaxDeliveries = 3
  MaxCrashes = 1
  MaxFails = 1
  Client = {c1}
  Worker = {w1, w2}
  Schedule = {"s1", "s2"}
  Key = {"k"}
  NoKey = "none"
  DueAt <- DueNow
  MaxActive = 1
  MaxRecent = 2
  LastMinute = 1
  MaxSubmits = 1
  MaxFaults = 1
  NoCursor = NoCursor
  MaxMail = 3
  MaxHiccups = 1
  MaxDrops = 1
  User = {u1, u2}
  Handler = {g1, g2}
  NoRow = NoRow
  NoUser = NoUser
  Asked = {"member", "owner"}
  MaxWrites = 2
  Doc = {d1}
  Texts <- SomeTexts
  ChunkSize = 7
  Overlap = 4
  Batch = 2
  MaxTries = 2
INVARIANTS
  AckedIsOwed
  DuplicatesAreConcurrent
  
  
  
  OwnerRemains
  TrailExplains
  ReadyIsWhole
SYMMETRY Symmetry
CHECK_DEADLOCK FALSE
