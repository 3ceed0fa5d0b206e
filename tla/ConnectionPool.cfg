CONSTANTS
    NConns = 2
    MaxItems = 1
    MaxCmds = 2
    MaxRetries = 1
    WireCap = 2
    CounterMod = 8
    Kinds <- AllKinds
    Faults = {}
SPECIFICATION FairSpec
INVARIANTS
    TypeOK
    ActiveCountsPending
    OkMeansComplete
    CleanAtReturn
PROPERTIES
    CommandReturns
CHECK_DEADLOCK FALSE
