SPECIFICATION Spec
CONSTANTS
    MaxFiles = 1
    MaxResources = 2
    MaxBytes = 4
    Requests <- SomeRequests
    Versions <- SomeVersions
    Words = {"info", "high"}
    Answers <- SomeAnswers
INVARIANTS
    OutcomesKept
    NeverFalselyClean
PROPERTY
    ScanReturns
CHECK_DEADLOCK FALSE
