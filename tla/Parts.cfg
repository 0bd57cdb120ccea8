SPECIFICATION PartsSpec
CONSTANTS
  Clients = {c1}
  Checks = {k1, k2}
  Limits <- TwoLimits
  Unit = 3
  MaxRate = 3
  MaxBurst = 4
  PRUNE_ABOVE = 0
  IDLE = 3
  LastInstant = 4
  CARD_DIGITS = {2, 3}
  PHONE_DIGITS = {2, 3}
  Texts <- ShortTexts
  Merge <- DeepMerge
  Flat <- Flatten
  MAX_DEPTH = 2
  MAX_FUTURE = 1
  MaxEvents = 2
  MaxPropertyKeys = 2
  MaxContextKeys = 2
  MaxKeyParts = 2
  Devices = {d1}
  KeyOf <- OneKey
  Bodies <- SomeBodies
  Connections = {n1, n2}
  Editions = {"v1", "v2"}
  KeysOf <- EditionKeys
  AgeOf <- EditionAges
  Offsets <- TwoOffsets
  LastTime = 2
  MaxPosts = 2
  MaxOutages = 1
  Publishable = {"v1", "v2"}
  MaxPublications = 3
  MaxMishaps = 2
  Wrapped = TRUE
  RESPAWN_LIMIT = 2
  MaxSpawns = 4
  MaxStarts = 2
  MaxFaults = 2
  Releases = {"1.0", "1.1"}
  SceneBased = TRUE
  MaxRecorded = 6
  MaxEntries = 4
  MaxFailed = 2
  Threads = {t1, t2}
  ExternalIds = {"ann", "invalid"}
  TraitKeys = {"plan", "team"}
  Changes <- TraitChanges
  HostContexts = {"host"}
  MaxEffects = 3
  MaxTracked = 1
  MaxDeaths = 1
  Messages = {1, 2, 3, 4, 5}
  ExternalOf <- Externals
  NameOf <- EventNames
  DayOf <- EventDays
  MillisecondOf <- Milliseconds
  Days = {3, 4, 6}
  Jobs = {j1}
  Periods <- ReportPeriods
  CHUNK_EVENTS = 2
  ROTATION_PAGE = 2
  WEEK = 2
  MONTH = 3
  MonthDays = 2
  YearMonths = 2
CHECK_DEADLOCK FALSE
INVARIANTS
  AdmissionBounded
  RetryAfterSuffices
  ContextsMerge
  SanitizerFinds
  NothingSwallowed
  ClockCorrected
  ReportedOnce
  NoneForgotten
  LaunchesAreTold
  EventsCarryTheirActor
  RotatedOnce
  SummariesAgree
  ActivesAreRight
PROPERTIES
  SettingsArrive
  PortIsFreed
  ServesAgain
  RotationCatchesUp
