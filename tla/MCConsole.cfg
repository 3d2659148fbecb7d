SPECIFICATION ConsoleSpec
CONSTANTS
  Null = Null
  Swaps = {s1}
  FirstNow = 3
  MaxNow = 5
  MoveKinds <- SomeMoves
  MaxEvents = 2
  MaxFaults = 1
  Threshold = 2
  ChunkSize = 1
  PriceHistories <- SomePrices
  NoValue = NoValue
  Values <- SomeValues
  EventKinds <- SomeEvents
  Periods = {2}
  FirstDay = 2
  LastDay = 3
  MaxCapital = 1
  MaxWrites = 1
  Absent = Absent
  Readers = {r1, r2}
  Tags <- SomeTags
  CacheTtl = 1
  FetchTimeout = 1
  LastClock = 3
  Callers = {c1, c2, c3}
  Applies = {c1, c2}
  PoolSize = 2
  MaxCalls = 3
  NoFetch = NoFetch
  MaxChanges = 2
  MaxFetches = 1
  NoPassword = NoPassword
  Setters = {w1, w2, w3}
  Passwords = {p, q}
  MaxSets = 4
  RuleSets = {some, others}
  Unread = Unread
  MaxEdits = 2
  MaxFailures = 2
  Answers <- SomeAnswers
  NoPrice = NoPrice
  Minute = 2
CHECK_DEADLOCK FALSE
INVARIANTS ConsoleTypeOK ReconstructionMeetsHistory HistoryReachesBack
INVARIANTS LiveRowsCountOnce  ReadoutMatchesSeries LifetimeAgreesWithAttribution
INVARIANTS StuckNeedsApplies HealthyMeansWell AlarmHasCause
INVARIANTS ServedIsRecent UpdatesAreOffered RotationDecides
PROPERTIES EveryCallEnds RulesFollow PricesComeBack
