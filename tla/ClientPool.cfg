CONSTANTS
    u1 = u1
    u2 = u2
    u3 = u3
    hostsA = hostsA
    hostsB = hostsB
    Users <- ThreeUsers
    Admin = Admin
    Grower = Grower
    NoThread = NoThread
    ServerLists <- Lists
    NoServers = NoServers
    Size <- SameSize
    Ops <- OnlyUpdates
    ConfigValues = {1}
    InitialClients = 1
    MaxClients = 3
    MaxGrowth = 4
    Python = FALSE
    MaxWorkers = 4
    MaxGrowers = 2
    MaxOps = 1
SPECIFICATION FairSpec
INVARIANTS
    TypeOK
    SizeWithinMax
PROPERTIES
    UnchangedWhileUsed
    ClientAcquired
    CallReturns
