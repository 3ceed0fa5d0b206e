CONSTANTS
    t1 = t1
    t2 = t2
    t3 = t3
    t4 = t4
    Threads <- FourThreads
    NoThread = NoThread
    MaxWorkers = 3
    SpuriousWakeups = FALSE
SPECIFICATION FairSpec
INVARIANTS
    TypeOK
    NoEmptyPop
    WorkersDisjoint
    NoLostWakeup
    QueueIsWaiters
PROPERTIES
    ServedInOrder
    WaiterServed
