SPECIFICATION ServingSpec
CONSTANTS
  c1 = c1
  c2 = c2
  h1 = h1
  cpu = cpu
  ram = ram
  interactive = interactive
  trading = trading
  NoHost = NoHost
  Unlimited = Unlimited
  Task = {t1, t2}
  Cand = {c1, c2}
  Host = {h1}
  Class = {interactive, trading}
  Res = {cpu, ram}
  hostGroup <- MCHostGroup
  maxConcurrent <- MCMaxConcurrent
  cost <- MCCost
  budget <- MCBudget
  poolSize <- MCPoolSize
  AbortAt <- MCGuardedPoints
  Caller = {k1, k2, k3}
  Refresher = {r1, r2}
  Provider = {p1}
  Enabled = TRUE
  None = None
  MaxProbes = 4
  DropAt = {"lock", "wait"}
  a1 = a1
  o1 = o1
  A = A
  O = O
  Candidate = {a1, o1}
  Known = {a1, o1}
  family <- MCFamily
  model <- MCModel
  local <- MCLocal
  NoCand = NoCand
  familyBackoff <- MCFamilyBackoff
  Ranks <- MCRanks
  WaveSize = 2
  Modes = {"balanced", "fastest"}
  DedupModels = TRUE
  EarlySuccess = TRUE
  Caps = {TRUE, FALSE}
  ProbeTransient = TRUE
  ProbeCandidates = 2
  Degrade = TRUE
  SaveMayFail = TRUE
INVARIANTS
  Accounting
  SingleRefresh
  NoLostNotification
PROPERTIES
  EveryCallEnds
CHECK_DEADLOCK FALSE
