SPECIFICATION FairSpec
CONSTANTS
  r1 = r1
  r2 = r2
  role = role
  instance = instance
  snapshot = snapshot
  cluster = cluster
  Types = {role, instance}
  Kind <- TwoRegionKind
  Global = {role}
  Probes = {instance}
  Ids = {1, 2}
  Managed <- ServiceLinked
  Enabled <- R1R2
  Named <- R1
  Wants = {"named", "all", "prompt", "none"}
  Accounts <- SparseAccounts
  Concurrency = 2
  Growth <- Meanwhile
  CtxMayEnd = TRUE
INVARIANT TypeOK
INVARIANT NoSilentLoss
INVARIANT WarningTruthful
INVARIANT SkippedAccounted
PROPERTY DiscoverReturns
