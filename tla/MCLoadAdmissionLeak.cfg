CONSTANTS
  c1 = c1
  c2 = c2
  h1 = h1
  cpu = cpu
  ram = ram
  interactive = interactive
  trading = trading
  NoHost = NoHost
  Unlimited = Unlimited
  Task = {t1, t2, t3}
  Cand = {c1, c2}
  Host = {h1}
  Class = {interactive, trading}
  Res = {cpu, ram}
  hostGroup <- MCHostGroup
  maxConcurrent <- MCMaxConcurrent
  cost <- MCCost
  budget <- MCBudget
  poolSize <- MCPoolSize
  AbortAt <- AwaitPoints
SPECIFICATION LoadSpec
SYMMETRY Symmetry
INVARIANTS
  Accounting
CHECK_DEADLOCK FALSE
