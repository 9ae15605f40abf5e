SPECIFICATION BuildFairSpec
CONSTANTS
  Concurrency = 2
  MaxN = 2
  CtxMayEnd = TRUE
INVARIANT BuildTypeOK
INVARIANT MissesExact
INVARIANT AbortsExactly
PROPERTY BuildReturns
