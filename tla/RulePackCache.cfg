SPECIFICATION FairSpec
CONSTANTS
  p1 = p1
  p2 = p2
  Procs = {p1, p2}
  MaxVersion = 2
  MaxTime = 2
  Grace = 0
  EngineOK <- MixedEngines
  Requests <- SharedRequests
  MayCrash = TRUE
  WritesMayFail = TRUE
INVARIANT TypeOK
INVARIANT PinHonoured
INVARIANT FetchedAtHonest
INVARIANT FreshOrFlagged
INVARIANT EngineSound
INVARIANT WarmCacheCarries
PROPERTY CallsReturn
