CONSTANTS
    NConns = 2
    MaxItems = 2
    MaxCmds = 2
    MaxRetries = 1
    WireCap = 3
    CounterMod = 8
    Kinds <- AnsweredKinds
    Faults = {"unasked_line"}
SPECIFICATION Spec
INVARIANTS
    ResultsArePrefix
PROPERTIES
    ResendCostsRetry
CHECK_DEADLOCK FALSE
