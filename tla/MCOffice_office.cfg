SPECIFICATION OfficeSpec
SYMMETRY Symmetry
CONSTRAINT Bounded
CHECK_DEADLOCK FALSE
CONSTANTS
  l1 = l1
  l2 = l2
  ann = ann
  bob = bob
  pat = pat
  t1 = t1
  t2 = t2
  q1 = q1
  q2 = q2
  c1 = c1
  c2 = c2
  None = None
  Leads = {l1, l2}
  Returning = {l1}
  Workers = {t1, t2}
  Slots = {q1, q2}
  MaxPerDay = 1
  MaxAttempts = 2
  MaxNights = 1
  Panels <- CannedNumbers
  CategoryOf <- CannedCategories
  Twins <- CannedTwins
  Alphabetical <- CannedOrder
  Counts <- FewToAll
  MaxQuestions = 500
  Terminals = {t1, t2}
  Queries = {q1, q2}
  EngineLists <- OneEngine
  Answers <- TwoReplies
  Bounds <- CommandsOrEdit
  Sources <- ShopAndTill
  Lasting <- Shop
  Keys <- OrdersAndCash
  Derived <- Cash
  Running <- Cash
  Mappings <- BothProvideOrders
  Mode <- RowsOrSums
  Responses <- ThreeAnswers
  MaxPeriod = 3
  Typed <- OneOrder
  Tasks = {t1, t2}
  MaxStarts = 3
  Rules <- DropAndTarget
  Target <- TwoOfEach
  Watches = {t1, t2}
  Editors = {t1, t2}
  Wordings <- FiveTexts
  Askable <- FourTexts
  Draftable <- ThreeTexts
  Key <- IgnoringCase
  Enough <- WithACost
  Hosts <- ThreeHosts
  Common <- OneCommon
  Within <- WithinYelp
  Names <- TwoNames
  Outputs <- ThreeOutputs
  MinDraft = 2
  MaxDrafts = 2
  MaxVersion = 3
  Events = {"lost", "crash", "panel", "delete"}
  Bodies <- WhoFixNameSlot
  Unfit = {"name"}
  Seeking = {"slot"}
  Slotted = {"slot"}
  Writings <- ThreeOfSeven
  MinGenerated = 2
  MaxGenerated = 2
  MaxHops = 1
  MaxGenerations = 2
  Snapshots <- OneOrAll
INVARIANTS
  RecheckedOnceByEach CeilingHoldsForEach NoUnexcusedDuplicate UnsubscribeLinksWork
  EditsAreSound DraftsAreSound WatchIsSound AdminsAreTrusted
  StoreIsSound
PROPERTIES DecisionIsFinal PaidAnswersAreKept
