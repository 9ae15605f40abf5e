SPECIFICATION FairSpec
CONSTANTS
  Concurrency = 3
  MaxN = 4
INVARIANT NoLeak
PROPERTY ImplementsCall
PROPERTY CallReturns
