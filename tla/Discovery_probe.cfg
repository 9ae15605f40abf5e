SPECIFICATION FairSpec
CONSTANTS
  r1 = r1
  r2 = r2
  role = role
  instance = instance
  snapshot = snapshot
  cluster = cluster
  Types = {role, instance}
  Kind <- TwoRegionKind
  Global = {role}
  Probes = {instance}
  Ids = {1, 2}
  Managed <- NoneManaged
  Enabled <- R1R2
  Named <- R1
  Wants = {"all"}
  Accounts <- SparseAccounts
  Concurrency = 1
  Growth = {}
  CtxMayEnd = FALSE
INVARIANT FailedProbeKept
