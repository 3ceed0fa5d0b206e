CONSTANTS
    HashMod = 4
    Hashings <- MCHashings
    Pools <- MCPools
    NoAlias = NoAlias
    RetryTimeout = 2
    MaxWait = 3

SPECIFICATION Spec

INVARIANTS
    TypeOK
    LiveOwnerChosen
    NearestAlias
    TriedOncePerBackoff
