----------------------------- MODULE ClientPool -----------------------------
(***************************************************************************)
(* The ClientPool class: a LockPool whose workers are Clients.  Threads    *)
(* acquire and release clients; detached autoGrow threads make more of     *)
(* them when all are taken; a thread of its own calls init, updateServers  *)
(* and config.  The locks are m_fifo_access (holder), one mutex for each   *)
(* client, m_pool_lock and the shared m_acquiring_growth.  Users hold the  *)
(* last one only while they look, so only its exclusive owner is kept.     *)
(***************************************************************************)
EXTENDS Integers, Sequences, FiniteSetsExt

CONSTANTS
    Users,              \* threads that use clients
    Admin,              \* the thread that configures the pool
    Grower,             \* the autoGrow thread that has m_acquiring_growth
    NoThread,           \* nobody
    ServerLists,        \* arguments of init and updateServers
    NoServers,          \* the list of a Client that is not set up
    Size,               \* the number of servers of each list
    Ops,                \* what Admin calls, of AllOps
    ConfigValues,       \* the values it passes to config
    InitialClients, MaxClients, MaxGrowth,   \* the defaults of the options
    Python,             \* is the pool used through the Python extension?
    MaxWorkers,         \* bound: clients of the pool
    MaxGrowers,         \* bound: autoGrow threads that have not begun
    MaxOps              \* bound: calls of Admin after init

PoolOptions == {"CFG_INITIAL_CLIENTS", "CFG_MAX_CLIENTS", "CFG_MAX_GROWTH"}
AllOps == PoolOptions \cup {"updateServers", "client_option"}

ASSUME ClientPoolAssumption ==
    /\ Admin # Grower /\ NoThread \notin {Admin, Grower}
    /\ {Admin, Grower, NoThread} \cap Users = {}
    /\ NoServers \notin ServerLists
    /\ Size \in [ServerLists \cup {NoServers} -> Nat] /\ Size[NoServers] = 0
    /\ Ops \subseteq AllOps
    /\ ConfigValues \subseteq Nat
    /\ Python \in BOOLEAN
    /\ {InitialClients, MaxClients, MaxGrowth, MaxWorkers} \subseteq Nat \ {0}
    /\ {MaxGrowers, MaxOps} \subseteq Nat

VARIABLES
    holder, fifo, notified, locked, available, nWorkers, pc, work, \* LockPool
    user,       \* the step of _acquire or _release each user is at
    mutex,      \* owner of each mutex of m_thread_workers
    growth,     \* exclusive owner of m_acquiring_growth
    poolLock,   \* owner of m_pool_lock
    growers,    \* autoGrow threads started and not over
    gpc,        \* the step of the one that has m_acquiring_growth
    clients,    \* m_clients: the servers and the option value of each
    cfg,        \* m_hosts, m_opt_value and the three options of the pool
    apc,        \* the step Admin is at
    stage,      \* "new", "init" while init runs, "ready" after it
    next,       \* the client updateServers comes to next
    ops         \* calls Admin has made

lockVars == <<holder, fifo, notified, locked, available, nWorkers, pc, work>>
adminVars == <<apc, stage, next, ops>>
vars == <<lockVars, user, mutex, growth, poolLock, growers, gpc, clients, cfg,
          adminVars>>

L == INSTANCE LockPool WITH Threads <- Users, SpuriousWakeups <- FALSE

Init ==
    /\ L!Init
    /\ user = [t \in Users |-> "idle"]
    /\ mutex = [w \in L!Workers |-> NoThread]
    /\ growth = NoThread /\ poolLock = NoThread
    /\ growers = 0 /\ gpc = "none"
    /\ clients = <<>>
    /\ cfg = [hosts |-> NoServers, option |-> 0, initial |-> InitialClients,
              max |-> MaxClients, maxGrowth |-> MaxGrowth]
    /\ apc = "idle" /\ stage = "new" /\ next = 0 /\ ops = 0

-----------------------------------------------------------------------------
(* _acquire and _release.                                                  *)

\* The extension calls init, updateServers and config with the interpreter
\* lock held; a user needs it before _acquire and before _release, which run
\* without it.
Interpreter == Python => apc = "idle"

ShouldGrow == Len(clients) < cfg.max /\ locked

\* The look under lock_shared, and the detached thread.
Look(t) ==
    /\ stage = "ready" /\ user[t] = "idle" /\ growth = NoThread /\ Interpreter
    /\ \/ /\ ShouldGrow /\ growers < MaxGrowers
          /\ growers' = growers + 1
       \/ ~ShouldGrow /\ UNCHANGED growers
    /\ user' = [user EXCEPT ![t] = "acquiring"]
    /\ UNCHANGED <<lockVars, mutex, growth, poolLock, gpc, clients, cfg,
                   adminVars>>

AcquireWorker(t) ==
    /\ user[t] = "acquiring"
    /\ L!Acquire(t)
    /\ UNCHANGED <<user, mutex, growth, poolLock, growers, gpc, clients, cfg,
                   adminVars>>

\* m_thread_workers[idx]->lock(), and the address of m_clients[idx].
LockWorker(t) ==
    /\ user[t] = "acquiring" /\ pc[t] = "holding"
    /\ mutex[work[t]] = NoThread
    /\ mutex' = [mutex EXCEPT ![work[t]] = t]
    /\ user' = [user EXCEPT ![t] = "using"]
    /\ UNCHANGED <<lockVars, growth, poolLock, growers, gpc, clients, cfg,
                   adminVars>>

\* Mutant: the worker is unlocked under m_fifo_access, in releaseWorker.
UnlockWorkerUnderFifo(t) ==
    /\ user[t] = "using" /\ Interpreter /\ holder = NoThread
    /\ mutex' = [mutex EXCEPT ![work[t]] = NoThread]
    /\ user' = [user EXCEPT ![t] = "releasing"]
    /\ UNCHANGED <<lockVars, growth, poolLock, growers, gpc, clients, cfg,
                   adminVars>>

\* Mutant: the worker stays locked.
UnlockWorkerForgets(t) ==
    /\ user[t] = "using" /\ Interpreter
    /\ user' = [user EXCEPT ![t] = "releasing"]
    /\ UNCHANGED <<lockVars, mutex, growth, poolLock, growers, gpc, clients, cfg,
                   adminVars>>

UnlockWorker(t) ==
    /\ user[t] = "using" /\ Interpreter
    /\ mutex' = [mutex EXCEPT ![work[t]] = NoThread]
    /\ user' = [user EXCEPT ![t] = "releasing"]
    /\ UNCHANGED <<lockVars, growth, poolLock, growers, gpc, clients, cfg,
                   adminVars>>

ReleaseWorker(t) ==
    /\ user[t] = "releasing"
    /\ L!ReleaseWorker(t)
    /\ user' = [user EXCEPT ![t] = "idle"]
    /\ UNCHANGED <<mutex, growth, poolLock, growers, gpc, clients, cfg,
                   adminVars>>

-----------------------------------------------------------------------------
(* autoGrow.  growPool is two steps: its caller has begun to resize        *)
(* m_clients, and it is done.                                              *)

\* Mutant: a new client is not given the options that were changed.
GrowPoolUnconfigured(by) ==
    /\ clients' = clients \o
         [i \in 1 .. by |-> [servers |-> cfg.hosts, option |-> 0]]
    /\ L!AddWorkers(by)

\* growPool, with setup of each new client and addWorkers.
GrowPool(by) ==
    /\ clients' = clients \o
         [i \in 1 .. by |-> [servers |-> cfg.hosts, option |-> cfg.option]]
    /\ L!AddWorkers(by)

\* Mutant: the pool at most doubles, whatever its maximum.
GrowthStepUnbounded == Min({cfg.maxGrowth, Len(clients)})

GrowthStep ==
    Min({cfg.max - Len(clients), cfg.maxGrowth, Len(clients)})

\* Mutant: the thread does not look again once it has the lock.
AutoGrowUnchecked ==
    /\ growers > 0 /\ gpc = "none" /\ growth = NoThread
    /\ growth' = Grower /\ gpc' = "pool"
    /\ UNCHANGED <<lockVars, user, mutex, poolLock, growers, clients, cfg,
                   adminVars>>

\* Mutant: the thread ends when it begins.
AutoGrowEnds ==
    /\ growers > 0 /\ gpc = "none" /\ growth = NoThread
    /\ growers' = growers - 1
    /\ IF ShouldGrow THEN growth' = Grower /\ gpc' = "pool"
                     ELSE UNCHANGED <<growth, gpc>>
    /\ UNCHANGED <<lockVars, user, mutex, poolLock, clients, cfg, adminVars>>

\* A thread gets m_acquiring_growth and looks again.
AutoGrow ==
    /\ growers > 0 /\ gpc = "none" /\ growth = NoThread
    /\ IF ShouldGrow
         THEN growth' = Grower /\ gpc' = "pool" /\ UNCHANGED growers
         ELSE growers' = growers - 1 /\ UNCHANGED <<growth, gpc>>
    /\ UNCHANGED <<lockVars, user, mutex, poolLock, clients, cfg, adminVars>>

AutoGrowLocksPool ==
    /\ gpc = "pool" /\ poolLock = NoThread
    /\ poolLock' = Grower
    /\ gpc' = "growing"
    /\ UNCHANGED <<lockVars, user, mutex, growth, growers, clients, cfg,
                   adminVars>>

AutoGrowEnd ==
    /\ gpc = "growing"
    /\ GrowPool(GrowthStep)
    /\ growth' = NoThread /\ poolLock' = NoThread
    /\ growers' = growers - 1
    /\ gpc' = "none"
    /\ UNCHANGED <<user, mutex, cfg, adminVars>>

-----------------------------------------------------------------------------
(* updateServers, init and config.                                         *)

\* updateServers, alone or as the first step of init, takes m_pool_lock.
UpdateBegins(list) ==
    /\ apc = "idle" /\ poolLock = NoThread
    /\ \/ stage = "new" /\ stage' = "init" /\ UNCHANGED ops
       \/ /\ stage = "ready" /\ "updateServers" \in Ops /\ ops < MaxOps
          /\ ops' = ops + 1 /\ UNCHANGED stage
    /\ poolLock' = Admin
    /\ cfg' = [cfg EXCEPT !.hosts = list]
    /\ apc' = "fifo"
    /\ UNCHANGED <<lockVars, user, mutex, growth, growers, gpc, clients, next>>

UpdateLocksFifo ==
    /\ apc = "fifo" /\ holder = NoThread
    /\ holder' = Admin
    /\ next' = 1
    /\ apc' = "clients"
    /\ UNCHANGED <<fifo, notified, locked, available, nWorkers, pc, work, user,
                   mutex, growth, poolLock, growers, gpc, clients, cfg, stage,
                   ops>>

\* ConnectionPool::updateServers refuses a list of another length.
Accepted(client) ==
    IF Size[client.servers] = Size[cfg.hosts]
      THEN [client EXCEPT !.servers = cfg.hosts] ELSE client

\* Mutant: the client is updated without its mutex.
UpdateClientUnlocked ==
    /\ apc = "clients" /\ next <= Len(clients)
    /\ clients' = [clients EXCEPT ![next] = Accepted(@)]
    /\ next' = next + 1
    /\ UNCHANGED <<lockVars, user, mutex, growth, poolLock, growers, gpc, cfg,
                   apc, stage, ops>>

UpdateClient ==
    /\ apc = "clients" /\ next <= Len(clients)
    /\ mutex[next - 1] = NoThread
    /\ clients' = [clients EXCEPT ![next] = Accepted(@)]
    /\ next' = next + 1
    /\ UNCHANGED <<lockVars, user, mutex, growth, poolLock, growers, gpc, cfg,
                   apc, stage, ops>>

UpdateEnds ==
    /\ apc = "clients" /\ next > Len(clients)
    /\ holder' = NoThread /\ poolLock' = NoThread
    /\ apc' = IF stage = "init" THEN "growth" ELSE "idle"
    /\ UNCHANGED <<fifo, notified, locked, available, nWorkers, pc, work, user,
                   mutex, growth, growers, gpc, clients, cfg, stage, next, ops>>

InitLocksGrowth ==
    /\ apc = "growth" /\ growth = NoThread
    /\ growth' = Admin
    /\ apc' = "pool"
    /\ UNCHANGED <<lockVars, user, mutex, poolLock, growers, gpc, clients, cfg,
                   stage, next, ops>>

InitLocksPool ==
    /\ apc = "pool" /\ poolLock = NoThread
    /\ poolLock' = Admin
    /\ apc' = "growing"
    /\ UNCHANGED <<lockVars, user, mutex, growth, growers, gpc, clients, cfg,
                   stage, next, ops>>

\* init and config(CFG_INITIAL_CLIENTS) both grow the pool by
\* m_initial_clients, and let go of both locks.
InitialGrowth ==
    /\ apc = "growing"
    /\ GrowPool(cfg.initial)
    /\ growth' = NoThread /\ poolLock' = NoThread
    /\ apc' = "idle"
    /\ stage' = IF stage = "init" THEN "ready" ELSE stage
    /\ UNCHANGED <<user, mutex, growers, gpc, cfg, next, ops>>

ConfigBegins ==
    /\ apc = "idle" /\ poolLock = NoThread
    /\ Ops \ {"updateServers"} # {} /\ ops < MaxOps
    /\ ops' = ops + 1
    /\ poolLock' = Admin
    /\ apc' = "config"
    /\ UNCHANGED <<lockVars, user, mutex, growth, growers, gpc, clients, cfg,
                   stage, next>>

\* An option of the clients is set in each, without its mutex.
ConfigClients(val) ==
    /\ apc = "config" /\ "client_option" \in Ops
    /\ cfg' = [cfg EXCEPT !.option = val]
    /\ clients' = [i \in DOMAIN clients |-> [clients[i] EXCEPT !.option = val]]
    /\ poolLock' = NoThread
    /\ apc' = "idle"
    /\ UNCHANGED <<lockVars, user, mutex, growth, growers, gpc, stage, next,
                   ops>>

\* An option of the pool needs m_acquiring_growth too.
ConfigPool(opt, val) ==
    /\ apc = "config" /\ opt \in Ops /\ growth = NoThread
    /\ cfg' = CASE opt = "CFG_INITIAL_CLIENTS" ->
                     [cfg EXCEPT !.initial = val, !.max = Max({@, val})]
                [] opt = "CFG_MAX_CLIENTS" -> [cfg EXCEPT !.max = val]
                [] opt = "CFG_MAX_GROWTH" -> [cfg EXCEPT !.maxGrowth = val]
    /\ IF opt = "CFG_INITIAL_CLIENTS" /\ Len(clients) < val
         THEN growth' = Admin /\ apc' = "growing" /\ UNCHANGED poolLock
         ELSE apc' = "idle" /\ poolLock' = NoThread /\ UNCHANGED growth
    /\ UNCHANGED <<lockVars, user, mutex, growers, gpc, clients, stage, next,
                   ops>>

-----------------------------------------------------------------------------
UserStep(t) ==
    \/ AcquireWorker(t) \/ LockWorker(t) \/ UnlockWorker(t) \/ ReleaseWorker(t)

GrowerStep == AutoGrow \/ AutoGrowLocksPool \/ AutoGrowEnd

AdminStep ==
    \/ UpdateLocksFifo \/ UpdateClient \/ UpdateEnds
    \/ InitLocksGrowth \/ InitLocksPool \/ InitialGrowth
    \/ \E val \in ConfigValues :
         \/ ConfigClients(val)
         \/ \E opt \in PoolOptions : ConfigPool(opt, val)

Next ==
    \/ \E t \in Users : Look(t) \/ UserStep(t)
    \/ GrowerStep
    \/ AdminStep
    \/ \E list \in ServerLists : UpdateBegins(list)
    \/ ConfigBegins

Spec == Init /\ [][Next]_vars

\* Users give their clients back; threads that can go on do.  The pool is
\* initialised once, and Admin ends the calls it began.
Fairness ==
    /\ \A t \in Users : WF_vars(UserStep(t))
    /\ WF_vars(GrowerStep)
    /\ WF_vars(AdminStep)
    /\ WF_vars(stage = "new" /\ \E list \in ServerLists : UpdateBegins(list))

FairSpec == Spec /\ Fairness

-----------------------------------------------------------------------------
(* Properties.                                                             *)

Clients == [servers : ServerLists \cup {NoServers}, option : Nat]
Settings == [hosts : ServerLists \cup {NoServers}, option : Nat,
             initial : Nat, max : Nat, maxGrowth : Nat]

\* Every variable that LockPool does not have has its type.
TypeOK ==
    /\ user \in [Users -> {"idle", "acquiring", "using", "releasing"}]
    /\ mutex \in [L!Workers -> Users \cup {NoThread}]
    /\ growth \in {NoThread, Admin, Grower}
    /\ poolLock \in {NoThread, Admin, Grower}
    /\ growers \in 0 .. MaxGrowers
    /\ gpc \in {"none", "pool", "growing"}
    /\ clients \in Seq(Clients)
    /\ cfg \in Settings
    /\ apc \in {"idle", "fifo", "clients", "growth", "pool", "growing",
                "config"}
    /\ stage \in {"new", "init", "ready"}
    /\ next \in 0 .. MaxWorkers + 1
    /\ ops \in 0 .. MaxOps

\* The pool uses LockPool as LockPool promises: growth, updates under
\* m_fifo_access and the users' own locks never make a step that LockPool
\* has not, such as opening the lock when no worker was added.
FreeOfAdmin == INSTANCE LockPool WITH
    Threads <- Users, SpuriousWakeups <- FALSE,
    holder <- IF holder = Admin THEN NoThread ELSE holder

UsesLockPool == FreeOfAdmin!Spec

\* Several autoGrow threads that all saw the pool exhausted do not take it
\* past m_max_clients (ClientPool.cpp:8).
SizeWithinMax == Len(clients) <= cfg.max

\* When nobody has m_pool_lock every client has the servers and the option
\* value of the last calls, those made by a concurrent autoGrow included.
\* Clients made by config before init have no servers, and never get any.
ClientsCurrent ==
    poolLock = NoThread /\ stage = "ready" =>
      \A i \in DOMAIN clients :
        /\ clients[i].option = cfg.option
        /\ clients[i].servers \in {cfg.hosts, NoServers}

\* A client is not changed by another thread while a user has it.
UnchangedWhileUsed ==
    [][\A t \in Users : user[t] = "using" =>
         clients'[work[t] + 1] = clients[work[t] + 1]]_vars

\* A thread in the queue of the lock gets a client, whatever updates and
\* growth go on meanwhile: nobody who stands in its way waits for ever.
ClientAcquired == \A t \in Users : pc[t] = "waiting" ~> user[t] = "using"

\* A call of init, updateServers or config returns, at the latest when no
\* more threads come for clients: those that have one and those in the queue
\* do not wait for the caller while the caller waits for them.
UsersStop == <>[][\A t \in Users : ~Look(t)]_vars

CallReturns == UsersStop => (apc # "idle" ~> apc = "idle")

\* config and autoGrow do not wait for each other's lock.  They may:
\* ClientPool.cpp:27 and :116 take the two locks in opposite orders.
NoCircularWait == ~(apc = "config" /\ growth = Grower /\ gpc = "pool"
                                   /\ poolLock = Admin)

\* No thread is about to index m_thread_workers and m_clients while growPool
\* appends to them.  It may be: ClientPool.cpp:135 holds no lock.
IndexedWhenStable ==
    \A t \in Users :
      user[t] = "acquiring" /\ pc[t] = "holding" =>
        gpc # "growing" /\ apc # "growing"
=============================================================================
