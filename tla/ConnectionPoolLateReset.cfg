CONSTANTS
    NConns = 2
    MaxItems = 1
    MaxCmds = 2
    MaxRetries = 0
    WireCap = 2
    CounterMod = 8
    Kinds <- AnsweredKinds
    Faults = {"late_reset"}
SPECIFICATION Spec
INVARIANTS
    NothingBeforeSent
CHECK_DEADLOCK FALSE
