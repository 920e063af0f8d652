SPECIFICATION WorkerSpec
CONSTANTS
  w1 = w1
  q1 = q1
  q2 = q2
  t1 = t1
  t2 = t2
  e1 = e1
  e2 = e2
  Workers = {w1}
  Questions = {q1, q2}
  Engines = {e1, e2}
  Panels <- CannedNumbers
  CategoryOf <- CannedCategories
  Twins <- CannedTwins
  Alphabetical <- CannedOrder
  Counts <- FewToAll
  MaxQuestions = 500
  Terminals = {t1}
  Queries <- OneQuestion
  EngineLists <- TwoEngines
  Answers <- AnyReply
  Bounds <- CommandsAndEdit
  Concurrency = 1
  MaxTries = 2
  MaxCalls = 2
  MaxCrashes = 1
  Faults = {"invalid", "key", "disk", "spawn", "fatal"}
  Bodies <- WhoFixNameSlot
  Unfit = {"name"}
  Seeking = {"slot"}
  Slotted = {"slot"}
  Writings <- ThreeOfSeven
  MinGenerated = 2
  MaxGenerated = 2
  MaxHops = 1
  MaxGenerations = 2
  Snapshots <- OneOrAll
INVARIANTS OnePlace ProcessObeysItsCall SnapshotsAreSound ReportsAgree
PROPERTIES ImplementsPanelCall EveryCallEnds CapHoldsAtClaim
CHECK_DEADLOCK FALSE
