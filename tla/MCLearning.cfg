SPECIFICATION LearningSpec
CONSTANTS
  m1 = m1  m2 = m2  s1 = s1   k1 = k1  r1 = r1  r2 = r2
  d1 = d1  d2 = d2  wk = wk  op = op  f1 = f1  f2 = f2
  Record = {i1, i2}
  Unanswered = {i2}
  Concealed = {}
  QueueCapacity = 1
  BatchSize = 2
  MirrorAttempts = 2
  MinSamples = 2
  RateNum = 2
  RateDen = 3
  Snapshots = 2
  LedgerFaults = 1
  NoModel = NoModel
  Models <- TwoModels
  Processes <- AllProcesses
  Fixtures = {}
  Schema <- OneSchema
  Keys <- FailureAndAdminKeys
  MaxCanary = 1
  Dataset <- OwnDatasets
  Gates = {g1}
  Worker = wk
  Servers = {s1}
  Mirrors = {k1}
  Requests = {r1, r2}
  KeyOf <- FailureKeys
  AdminKey = op
  Seeded = m1
  RetryLimit = 0
  FailureLimit = 1
  MaxFaults = 1
SYMMETRY SymmetricRequests
CONSTRAINT FewSamples
INVARIANTS
  MirroredMeansDelivered
  ReplaysBounded
  AdmissionEarned
  CanaryBudget
  ServedWasQualified
  OneInfluential
  CompletedHasModel
PROPERTIES
  ImplementsStore
CHECK_DEADLOCK FALSE
