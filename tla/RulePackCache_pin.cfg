SPECIFICATION FairSpec
CONSTANTS
  p1 = p1
  p2 = p2
  Procs = {p2}
  MaxVersion = 2
  MaxTime = 2
  Grace = 0
  EngineOK <- MixedEngines
  Requests <- SharedRequests
  MayCrash = FALSE
  WritesMayFail = TRUE
INVARIANT PinExact
