SPECIFICATION BridgesSpec
CONSTANTS
  u1 = u1
  u2 = u2
  OllamaCall = {ol1, ol2}
  Explicit = {ol2}
  HostedCall = {hc1}
  RequestedUrl = u2
  OwnUrl = u1
  FallbackUrls <- MCFallbacks
  MaxEndpoints = 2
  EndpointPermits = 1
  TotalTimeout = 2
  QueueTimeout = 1
  FallbackReserve = 1
  SaturationBackoff = 1
  FamilyBackoff = TRUE
  AllowPull = FALSE
  RequestedModel = 2
  DefaultModel = 1
  Second = 2
  PostRetries = 1
  ReplayEnabled = TRUE
  ModelFloor = 0
  Hushed = {ol2}
  Exchange = {x1, x2, x3}
  Speech = {x3}
  BusCapacity = 1
  BusWorkers = 2
  HttpAttempts = 2
  Sustained = 3
  HistoryWindow = 4
  RecentWindow = 2
  SessionBound = 4
  BridgeFaults = 2
  TrainRows = 2
  TrainAttempts = 2
  MinRows = 1
  MaxRows = 2
  RotateKeep = 1
  Retention = 2
  Targets = 1
  SnapshotBound = 3
  TrainerFaults = 1
  TradingArm = {a1}
  Cash = cash
  FirstArm = a1
  LedgerSize = 2
  Window = 2
  TuningSamples = 2
  TuningInterval = 2
  MigrationSamples = 1
  RequiredStreak = 2
  ExpiryCycles = 1
  PauseOnFailure = TRUE
  Observations = 3
  SaveFaults = 1
  Fingerprint = {"m1","m2"}
  Overrides = 1
  Events = 2
  HistoryCap = 3
  BaselineRuns = 1
  ValidationRuns = 2
  ConfiguredMin = 1
  ConfiguredMax = 2
  LargestSize = 2
  GateSteps = 1
  Replays = 4
  Markets = {"m1","m2"}
  Horizons = {1,2}
  Grace = 2
  EdgeLedger = 3
  MinEdgeSamples = 2
  MarkoutHorizon = 2
  MarkoutLedger = 1
  LastTick = 6
  Training = 2
  Embargo = 1
  Validation = 2
  Holding = 3
  Symbols = {"s1","s2"}
  LastFrame = 10
CONSTRAINT OneAdapter
INVARIANTS
  OverByDeadline
  ForgottenCacheTolerated
  AnswersRecorded
  DeploymentIsSound
  NoSessionStampede
  PromotionIsSustained
  QuantIsDurable
  TasksTakeTurns
  TuningIsSound
  EvidenceIsIndependent
CHECK_DEADLOCK FALSE
