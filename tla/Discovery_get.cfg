SPECIFICATION FairSpec
CONSTANTS
  r1 = r1
  r2 = r2
  role = role
  instance = instance
  snapshot = snapshot
  cluster = cluster
  Types = {role, instance, snapshot, cluster}
  Kind <- OneRegionKind
  Global = {role}
  Probes = {instance}
  Ids = {1, 2}
  Managed <- NoneManaged
  Enabled <- R1
  Named <- R1
  Wants = {"named"}
  Accounts <- OneRegionAccounts
  Concurrency = 1
  Growth = {}
  CtxMayEnd = FALSE
INVARIANT FailureCostsOne
