CONSTANTS
    u1 = u1
    u2 = u2
    u3 = u3
    hostsA = hostsA
    hostsB = hostsB
    Users <- TwoUsers
    Admin = Admin
    Grower = Grower
    NoThread = NoThread
    ServerLists <- Lists
    NoServers = NoServers
    Size <- SameSize
    Ops <- AllCalls
    ConfigValues = {1, 2}
    InitialClients = 1
    MaxClients = 2
    MaxGrowth = 1
    Python = FALSE
    MaxWorkers = 6
    MaxGrowers = 2
    MaxOps = 2
SPECIFICATION Spec
INVARIANTS
    ClientsCurrent
PROPERTIES
    UsesLockPool
CHECK_DEADLOCK FALSE
