SPECIFICATION Spec
CONSTANTS
    API = {"codex"}
    CLI = {"codex", "claude-code"}
    DefaultModel <- Std
    Replacement <- Retired
    Procs = {p1, p2}
    EnvURL <- FromEnv
    Commands <- SomeCommands
    Files <- ThreeFiles
    Keys <- TheirKeys
    MaxCommands = 2
INVARIANTS
    StoresAgree
    AllOrNothing
    PinRespected
PROPERTY
    CommandReturns
