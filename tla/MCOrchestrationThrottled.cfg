CONSTANTS
  a1 = a1
  a2 = a2
  o1 = o1
  A = A
  O = O
  Candidate = {a1, a2, o1}
  Known = {a1, a2, o1}
  family <- MCFamily
  model <- MCModel
  local <- MCLocal
  NoCand = NoCand
  familyBackoff <- MCFamilyBackoff
  Ranks <- MCRanks
  WaveSize = 2
  Modes = {"balanced", "fastest"}
  DedupModels = TRUE
  EarlySuccess = TRUE
  Caps = {TRUE, FALSE}
  ProbeTransient = TRUE
  ProbeCandidates = 2
  Degrade = TRUE
  SaveMayFail = TRUE
SPECIFICATION RequestSpec
INVARIANT
  FailedFamilyThrottled
CHECK_DEADLOCK FALSE
