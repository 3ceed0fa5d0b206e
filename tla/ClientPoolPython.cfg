CONSTANTS
    u1 = u1
    u2 = u2
    u3 = u3
    hostsA = hostsA
    hostsB = hostsB
    Users <- TwoUsers
    Admin = Admin
    Grower = Grower
    NoThread = NoThread
    ServerLists <- Lists
    NoServers = NoServers
    Size <- SameSize
    Ops <- OnlyUpdates
    ConfigValues = {1}
    InitialClients = 1
    MaxClients = 2
    MaxGrowth = 1
    Python = TRUE
    MaxWorkers = 2
    MaxGrowers = 2
    MaxOps = 1
SPECIFICATION FairSpec
PROPERTIES
    CallReturns
CHECK_DEADLOCK FALSE
