SPECIFICATION EdgesSpec
CONSTANTS
  e1 = e1
  e2 = e2
  v1 = v1
  v2 = v2
  d1 = d1
  d2 = d2
  Ways = 2
  Selling = TRUE
  SellTries = 1
  Amount = 2
  Calls = 2
  Rivals = 1
  Exchange = {e1, e2}
  PlanKey = {"k1"}
  NoKey = "none"
  MaxInFlight = 1
  AssessmentSlots = 1
  MaxPlans = 1
  LocalFallback = FALSE
  Vias = {"chat", "audio", "internal", "assess"}
  Voice = {v1, v2}
  PendingTtl = 1
  MaxPending = 1
  MaxTurns = 1
  LastBeat = 1
  MaxAsks = 3
  Client = {d1, d2}
  Account = {"a1", "a2"}
  Secret = {"s1"}
  VaultKey = {"k1", "k2"}
  NoSecret = "none"
  VaultCalls = 3
  LakeSymbol = {"x1", "x2"}
  LakeReader = {"r1"}
  BucketSeconds = 2
  LastSecond = 3
  LongWindow = 2
  ShortWindow = 1
  Retention = 2
  MinSamples = 2
  FrameInterval = 3
  MirrorQueue = 1
  Ingests = 2
  LakeRestarts = 1
  Build = {1, 2}
  MetaStops = 3
  Universe <- MCUniverse
  Configured <- MCConfigured
  StatusRows <- MCStatusRows
  HeldMarkets = {"b"}
  ScanLimit = 3
  ProbeLimit = 1
  Parallel = 2
  Attempts = 2
  BreakerThreshold = 2
  BreakerMax = 2
  CoolMax = 2
  BlackStrikes = 2
  BlackTime = 3
  LastHour = 2
  MaxOutages = 2
  ScanRestarts = 1
  Pair = {"p1"}
  StructuralSkip = 2
  TransientSkip = 1
  RestartCool = 2
  LastMinute = 3
  ApiJobs = 2
  Route = {"r1"}
  Trouble = {"quota", "timeout"}
  Hint = {1}
  SaveInterval = 1
  MaxDirty = 2
  BaseCool = 1
  MaxCool = 1
  LastTick = 1
  Observations = 3
  RegistryStops = 1
INVARIANTS
  OneOrderPerCall
  MarketIsSeenTruly
  RegistriesAreTrue
  FrontIsGoverned
  VoiceIsTrue
  NoSaveIsLost
CHECK_DEADLOCK FALSE
