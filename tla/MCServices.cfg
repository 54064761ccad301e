SPECIFICATION ServicesSpec
CONSTANTS
  c1 = c1
  c2 = c2
  h1 = h1
  cpu = cpu
  ram = ram
  interactive = interactive
  trading = trading
  NoHost = NoHost
  Unlimited = Unlimited
  Task = {t1, t2, t3}
  Cand = {c1, c2}
  Host = {h1}
  Class = {interactive, trading}
  Res = {cpu, ram}
  hostGroup <- MCHostGroup
  maxConcurrent <- MCMaxConcurrent
  cost <- MCCost
  budget <- MCBudget
  poolSize <- MCPoolSize
  AbortAt <- AwaitPoints
  Tracked = {r1, r2}
  Measured = {m1}
  Profile = {p1}
  Source = {llm}
  Nobody = Nobody
  Absent = Absent
  Torn = Torn
  MaxCrash = 1
  a1 = a1
  a2 = a2
  b1 = b1
  b2 = b2
  o1 = o1
  A = A
  B = B
  O = O
  MaxWave = 3
  Known <- Five
  Candidate = {a1, a2, o1}
  family <- MCFamily
  model <- MCModel
  local <- MCLocal
  NoCand = NoCand
  familyBackoff <- MCFamilyBackoff
  Ranks <- MCRanks
  WaveSize = 2
  Modes = {"balanced", "fastest"}
  DedupModels = TRUE
  EarlySuccess = TRUE
  Caps = {TRUE}
  ProbeTransient = TRUE
  ProbeCandidates = 2
  Degrade = TRUE
  SaveMayFail = TRUE
SYMMETRY MCSymmetry
INVARIANTS
  NeverOversubscribed
  CapacityIsSafe
  MetricsAreSound
  WavesAreLawful
  ThrottledFamilyRests
  ResponseIffUseful
  BlamedForOwnFailure
  GivesUpLast
CHECK_DEADLOCK FALSE
