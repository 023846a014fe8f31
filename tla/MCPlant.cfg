CONSTANTS
  Capacity = 4
  Samples = {s1, s2}
  NoSample = NoSample
  MaxPos = 9
  MaxFail = 3
  MaxAttempts = 20
  MaxWrites = 4
  Topics = {p1, p2}
  BaseMs = 5000
  MaxMs = 60000
  MaxInt = 2147483647
  HeartbeatSecs = 30
  MaxTries = 20
  MaxWills = 2
  Files <- HubFiles
  Services = {"fieldbus", "alarm", "history", "mqtt"}
  IidOf <- Declared
  Companion <- Companions
  NoPlugin = NoPlugin
  MaxLoaded = 5
  Ids = {1, 2, 3}
  Names = {n1, n2}
  Addresses = {a1, a2}
  IdsPerDevice = 2
  NoTag = NoTag
  SampledTags = {t1, t2}
  MaxRecords = 2
  MaxRounds = 4
  PlantTags <- BothTags
  SpTag <- PvAndSp
  NoSp = NoSp
  EngLow = 0
  EngHigh = 8
  MaxRaw = 15
  Threshold <- FourLimits
  Deadband = 1
  RocLimit = 2
  Gaps = {0, 1, 25}
  DeviationLimit = 2
  None = None
  Register <- Registers
  MaxBatches = 2
  BatchLength = 2
  Events = {e1}
  KpiSnapshots = {k1}
  KnownTags = {known}
  UnknownTags = {unknown}
  FloatFields = {"highLimit"}
  DelayFields = {"onDelayMs"}
  OtherFields = {"limit"}
  Entered = {25, 130}
  Priorities = {1, 2}
  MaxChanges = 2
  MaxMade = 3
SPECIFICATION PlantSpec
INVARIANTS
  OneReconnect
  PolledWhileConnected
  GivesUpAfterMaxFailures
  WritesInOrder
  SubscribedWhileOnline
  LibrariesAccounted
  ServicesAlive
  SwitchedIsResolved
  OnlyNullObjectsDangle
  DestroyedStopped
  IndexesTruthful
  UnsharedFound
  DeviceIndexExact
  ArchivedInOrder
  RecentIsLatest
  NoChatterInBand
  AutoSendsOwnSetPoint
  SentReadsBack
  BatchIsTransaction
  ChangesChained
PROPERTIES
  ImplementsQueue
  EverySampleTaken
  LostIsRetried
  OnlineIsShown
  LossIsRetried
  SampledIsArchived
