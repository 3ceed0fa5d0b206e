------------------------- MODULE ClientPool_proofs -------------------------
(***************************************************************************)
(* ClientPool uses its LockPool as LockPool promises, and what is proved   *)
(* of LockPool holds in it: no client is with two users.  No client is     *)
(* changed by updateServers while it is used, the pool stays within its    *)
(* maximum, and every client has the current servers and options, for any  *)
(* number of users, autoGrow threads, clients and calls.                   *)
(***************************************************************************)
EXTENDS ClientPool, SequenceTheorems, TLAPS

\* What is proved of LockPool, with m_fifo_access free while Admin has it:
\* Admin does to the pool what a thread that only takes the mutex does.
P == INSTANCE LockPool_proofs WITH
    Threads <- Users, SpuriousWakeups <- FALSE,
    holder <- IF holder = Admin THEN NoThread ELSE holder

\* No option of the pool is set to 0.  With a growth of 0 the model, as the
\* code without assertions, opens the lock of an empty pool.
PositiveOptions == 0 \notin ConfigValues

-----------------------------------------------------------------------------
(* The inductive invariant.                                                *)

\* Who has which lock is told by the step he is at.
LocksHeld ==
    /\ growth = Grower <=> gpc # "none"
    /\ growth = Admin <=> apc \in {"pool", "growing"}
    /\ poolLock = Grower <=> gpc = "growing"
    /\ poolLock = Admin <=> apc \in {"fifo", "clients", "growing", "config"}
    /\ holder = Admin <=> apc = "clients"

\* A user has a worker when its step says so, and its mutex while it uses it.
UserState ==
    \A t \in Users :
      /\ user[t] = "idle" => pc[t] = "out"
      /\ user[t] \in {"using", "releasing"} => pc[t] = "holding"
      /\ user[t] = "using" => mutex[work[t]] = t

\* The stages of the life of the pool: it is ready when it has clients, and
\* not before does anybody ask for a client or for growth.
Stages ==
    /\ stage = "new" => apc \notin {"fifo", "clients"}
    /\ stage = "init" =>
         apc \in {"fifo", "clients", "growth", "pool", "growing"}
    /\ apc \in {"growth", "pool"} => stage = "init"
    /\ growers > 0 => stage = "ready"
    /\ stage = "ready" => clients # <<>>
    /\ gpc # "none" => growers > 0 /\ Len(clients) < cfg.max

OptionsPositive == cfg.initial > 0 /\ cfg.max > 0 /\ cfg.maxGrowth > 0

\* updateServers goes through the clients that there are.
NextInPool == apc = "clients" => next \in 1 .. Len(clients) + 1

\* What ClientPool adds to the state of its LockPool.
OwnState ==
    /\ TypeOK
    /\ holder \in Users \cup {NoThread, Admin}
    /\ nWorkers = Len(clients)
    /\ LocksHeld
    /\ UserState
    /\ Stages
    /\ OptionsPositive
    /\ NextInPool

IInv == P!IInv /\ OwnState

-----------------------------------------------------------------------------
(* The pool and its LockPool.                                              *)

\* The step of a growth is at least one client and stays below the maximum.
LEMMA GrowthStepBounds ==
  ASSUME TypeOK, OptionsPositive, clients # <<>>, Len(clients) < cfg.max
  PROVE  GrowthStep \in 1 .. cfg.max - Len(clients)
  <1> DEFINE S == {cfg.max - Len(clients), cfg.maxGrowth, Len(clients)}
  <1>1. S \subseteq Nat \ {0}
    BY DEF TypeOK, OptionsPositive, Settings
  <1>2. \E x \in S : \A y \in S : x <= y
    BY <1>1
  <1>3. PICK x \in S : x = Min(S) /\ \A y \in S : x <= y
    BY <1>2 DEF Min
  <1>4. QED
    BY <1>1, <1>3 DEF GrowthStep, TypeOK, Settings

\* A user goes through LockPool's steps.
LEMMA AcquireWorkerLock ==
  ASSUME NEW t \in Users, AcquireWorker(t)
  PROVE  P!Acquire(t)
  BY ClientPoolAssumption
  DEF AcquireWorker, L!Acquire, L!LockOpen, L!LockWait, L!Wake, L!TakeWorker,
      L!Unlock, P!Acquire, P!LockOpen, P!LockWait, P!Wake, P!TakeWorker,
      P!Unlock

LEMMA ReleaseWorkerLock ==
  ASSUME NEW t \in Users, ReleaseWorker(t)
  PROVE  P!ReleaseWorker(t)
  BY ClientPoolAssumption
  DEF ReleaseWorker, L!ReleaseWorker, L!Unlock, L!NoWorker,
      P!ReleaseWorker, P!Unlock, P!NoWorker

LEMMA GrowPoolLock ==
  ASSUME NEW by \in Nat \ {0}, nWorkers \in Nat, GrowPool(by)
  PROVE  by \in 1 .. MaxWorkers /\ P!AddWorkers(by)
  BY ClientPoolAssumption
  DEF GrowPool, L!AddWorkers, L!Unlock, P!AddWorkers, P!Unlock

\* Every step of ClientPool is one of LockPool or none to it.
LEMMA LockStep ==
  ASSUME IInv, [Next]_vars
  PROVE  [P!Next]_(P!vars)
  <1> SUFFICES P!Next \/ UNCHANGED P!vars
    OBVIOUS
  <1> USE ClientPoolAssumption
  <1>1. ASSUME NEW t \in Users, Look(t) \/ LockWorker(t) \/ UnlockWorker(t)
        PROVE  UNCHANGED P!vars
    BY <1>1 DEF Look, LockWorker, UnlockWorker, lockVars, P!vars
  <1>2. ASSUME NEW t \in Users, AcquireWorker(t) \/ ReleaseWorker(t)
        PROVE  P!Next
    BY <1>2, AcquireWorkerLock, ReleaseWorkerLock DEF P!Next
  <1>3. CASE AutoGrow \/ AutoGrowLocksPool
    BY <1>3 DEF AutoGrow, AutoGrowLocksPool, lockVars, P!vars
  <1>4. CASE AutoGrowEnd
    <2>1. GrowthStep \in Nat \ {0}
      <3>1. TypeOK /\ OptionsPositive /\ clients # <<>> /\ Len(clients) < cfg.max
        BY <1>4 DEF AutoGrowEnd, IInv, OwnState, Stages
      <3>2. cfg.max - Len(clients) \in Int
        BY <3>1 DEF TypeOK, Settings
      <3>3. QED
        BY <3>1, <3>2, GrowthStepBounds
    <2>2. P!AddWorkers(GrowthStep) /\ GrowthStep \in 1 .. MaxWorkers
      BY <1>4, <2>1, GrowPoolLock DEF AutoGrowEnd, IInv, OwnState, TypeOK
    <2>3. QED
      BY <2>2 DEF P!Next
  <1>5. CASE InitialGrowth
    <2>1. cfg.initial \in Nat \ {0}
      BY DEF IInv, OwnState, OptionsPositive, TypeOK, Settings
    <2>2. P!AddWorkers(cfg.initial) /\ cfg.initial \in 1 .. MaxWorkers
      BY <1>5, <2>1, GrowPoolLock DEF InitialGrowth, IInv, OwnState, TypeOK
    <2>3. QED
      BY <2>2 DEF P!Next
  <1>6. CASE UpdateLocksFifo \/ UpdateClient \/ UpdateEnds
    BY <1>6 DEF UpdateLocksFifo, UpdateClient, UpdateEnds, lockVars, P!vars,
                IInv, OwnState, LocksHeld
  <1>7. CASE InitLocksGrowth \/ InitLocksPool \/ ConfigBegins
    BY <1>7 DEF InitLocksGrowth, InitLocksPool, ConfigBegins, lockVars, P!vars
  <1>8. ASSUME NEW val \in ConfigValues, ConfigClients(val)
        PROVE  UNCHANGED P!vars
    BY <1>8 DEF ConfigClients, lockVars, P!vars
  <1>9. ASSUME NEW val \in ConfigValues, NEW opt \in PoolOptions,
               ConfigPool(opt, val)
        PROVE  UNCHANGED P!vars
    BY <1>9 DEF ConfigPool, lockVars, P!vars
  <1>10. ASSUME NEW list \in ServerLists, UpdateBegins(list)
         PROVE  UNCHANGED P!vars
    BY <1>10 DEF UpdateBegins, lockVars, P!vars
  <1>11. CASE UNCHANGED vars
    BY <1>11 DEF vars, lockVars, P!vars
  <1>12. QED
    BY <1>1, <1>2, <1>3, <1>4, <1>5, <1>6, <1>7, <1>8, <1>9, <1>10, <1>11
    DEF Next, UserStep, GrowerStep, AdminStep

-----------------------------------------------------------------------------
(* One lemma for each kind of step: ClientPool keeps its own part of the   *)
(* invariant.                                                              *)

\* What the steps of ClientPool need to know of its LockPool.
LEMMA LockPoolState ==
  ASSUME IInv
  PROVE  /\ pc \in [Users -> {"out", "waiting", "inside", "holding"}]
         /\ work \in [Users -> L!Workers \cup {L!NoWorker}]
         /\ \A t \in Users : pc[t] = "holding" =>
              /\ work[t] \in 0 .. nWorkers - 1
              /\ \A s \in Users : s # t => work[s] # work[t]
         /\ \A t \in Users : pc[t] = "inside" => holder = t
         /\ nWorkers \in 0 .. MaxWorkers
  BY ClientPoolAssumption
  DEF IInv, P!IInv, P!TypeOK, P!ThreadState, P!WorkersExist,
      P!WorkersDisjoint, P!Workers, P!NoWorker, L!Workers, L!NoWorker

\* What a growth does to the clients.
LEMMA GrowPoolClients ==
  ASSUME TypeOK, NEW by \in Nat \ {0}, GrowPool(by), nWorkers = Len(clients)
  PROVE  /\ clients' \in Seq(Clients)
         /\ Len(clients') = Len(clients) + by
         /\ \A i \in 1 .. Len(clients) : clients'[i] = clients[i]
         /\ \A i \in Len(clients) + 1 .. Len(clients') :
              clients'[i] = [servers |-> cfg.hosts, option |-> cfg.option]
         /\ nWorkers' = nWorkers + by
         /\ holder = NoThread
         /\ UNCHANGED <<holder, pc, work>>
  <1> DEFINE new == [i \in 1 .. by |-> [servers |-> cfg.hosts,
                                       option |-> cfg.option]]
  <1>1. new \in Seq(Clients)
        /\ Len(new) = by
    BY DEF TypeOK, Clients, Settings
  <1>2. clients' = clients \o new
    BY DEF GrowPool
  <1>3. \A i \in 1 .. by : new[i] = [servers |-> cfg.hosts,
                                     option |-> cfg.option]
    OBVIOUS
  <1> HIDE DEF new
  <1>4. clients \in Seq(Clients)
    BY DEF TypeOK
  <1>5. /\ clients' \in Seq(Clients)
        /\ Len(clients') = Len(clients) + by
        /\ \A i \in 1 .. Len(clients) : clients'[i] = clients[i]
        /\ \A i \in Len(clients) + 1 .. Len(clients') :
             clients'[i] = new[i - Len(clients)]
    <2>2. /\ clients' \in Seq(Clients)
          /\ Len(clients') = Len(clients) + Len(new)
          /\ \A i \in 1 .. Len(clients) + Len(new) :
               clients'[i] = IF i <= Len(clients) THEN clients[i]
                             ELSE new[i - Len(clients)]
      BY <1>1, <1>2, <1>4, ConcatProperties
    <2>3. Len(clients) \in Nat
      BY <1>4
    <2>5. \A i \in 1 .. Len(clients) : clients'[i] = clients[i]
      BY <1>1, <2>2, <2>3
    <2>6. ASSUME NEW i \in Len(clients) + 1 .. Len(clients')
          PROVE  clients'[i] = new[i - Len(clients)]
      BY <1>1, <2>2, <2>3
    <2>7. QED
      BY <1>1, <2>2, <2>5, <2>6
  <1>6. nWorkers' = nWorkers + by /\ holder = NoThread
        /\ UNCHANGED <<holder, pc, work>>
    BY DEF GrowPool, L!AddWorkers
  <1>7. \A i \in Len(clients) + 1 .. Len(clients') :
          clients'[i] = [servers |-> cfg.hosts, option |-> cfg.option]
    <2>1. Len(clients) \in Nat
      BY <1>4
    <2>2. ASSUME NEW i \in Len(clients) + 1 .. Len(clients')
          PROVE  i - Len(clients) \in 1 .. by
      BY <1>5, <2>1
    <2>3. QED
      BY <1>3, <1>5, <2>2
  <1>8. QED
    BY <1>5, <1>6, <1>7

LEMMA InitInvariant == Init => IInv
  <1> SUFFICES ASSUME Init PROVE IInv
    OBVIOUS
  <1> USE ClientPoolAssumption
  <1>1. P!IInv
    <2>1. P!Init
      BY DEF Init, L!Init, P!Init, L!NoWorker, P!NoWorker
    <2>2. QED
      BY <2>1, P!InitInvariant
  <1>2. TypeOK
    BY DEF Init, TypeOK, Settings, Clients
  <1>3. OwnState
    BY <1>2 DEF Init, L!Init, OwnState, LocksHeld, UserState, Stages,
                OptionsPositive, NextInPool
  <1>4. QED
    BY <1>1, <1>3 DEF IInv

\* The steps of a user.
LEMMA LookInvariant ==
  ASSUME IInv, NEW t \in Users, Look(t)
  PROVE  OwnState'
  <1> USE ClientPoolAssumption DEF Look, IInv, OwnState, lockVars, adminVars
  <1>1. TypeOK' /\ UserState'
    BY LockPoolState DEF TypeOK, UserState
  <1>2. LocksHeld' /\ OptionsPositive' /\ NextInPool'
    BY DEF LocksHeld, OptionsPositive, NextInPool
  <1>3. Stages'
    BY DEF Stages, TypeOK
  <1>4. QED
    BY <1>1, <1>2, <1>3

\* _acquire goes through LockPool.
LEMMA AcquireWorkerInvariant ==
  ASSUME IInv, NEW t \in Users, AcquireWorker(t)
  PROVE  OwnState'
  <1> USE ClientPoolAssumption DEF IInv, OwnState
  <1>1. /\ UNCHANGED <<user, mutex, growth, poolLock, growers, gpc, clients,
                       cfg, adminVars, nWorkers>>
        /\ holder # Admin /\ holder' \in Users \cup {NoThread}
        /\ user[t] = "acquiring" /\ pc[t] # "holding"
        /\ \A s \in Users \ {t} : pc'[s] = pc[s] /\ work'[s] = work[s]
    BY LockPoolState
    DEF AcquireWorker, L!Acquire, L!LockOpen, L!LockWait, L!Wake, L!TakeWorker
  <1>2. TypeOK'
    BY <1>1 DEF TypeOK, adminVars
  <1>3. UserState'
    BY <1>1 DEF UserState
  <1>4. LocksHeld' /\ Stages' /\ OptionsPositive' /\ NextInPool'
    BY <1>1 DEF LocksHeld, Stages, OptionsPositive, NextInPool, adminVars
  <1>5. QED
    BY <1>1, <1>2, <1>3, <1>4

\* A user takes the mutex of its client.
LEMMA LockWorkerInvariant ==
  ASSUME IInv, NEW t \in Users, LockWorker(t)
  PROVE  OwnState'
  <1> USE ClientPoolAssumption DEF LockWorker, IInv, OwnState, lockVars, adminVars
  <1>1. work[t] \in L!Workers
    BY LockPoolState DEF L!Workers
  <1>2. TypeOK'
    BY <1>1 DEF TypeOK
  <1>3. ASSUME NEW s \in Users
        PROVE  UserState!(s)'
    <2>1. mutex'[work[t]] = t /\ user'[t] = "using" /\ pc[t] = "holding"
      BY <1>1 DEF TypeOK
    <2>2. ASSUME s # t
          PROVE  /\ user'[s] = user[s]
                 /\ user[s] = "using" => mutex'[work[s]] = mutex[work[s]]
      BY <1>1, <2>2, LockPoolState DEF TypeOK, UserState
    <2>3. QED
      BY <2>1, <2>2 DEF UserState
  <1>4. UserState'
    BY <1>3 DEF UserState
  <1>5. LocksHeld' /\ OptionsPositive' /\ NextInPool' /\ Stages'
    BY DEF LocksHeld, OptionsPositive, NextInPool, Stages
  <1>6. QED
    BY <1>2, <1>4, <1>5

\* A user lets go of the mutex of its client, which is no one else's.
LEMMA UnlockWorkerInvariant ==
  ASSUME IInv, NEW t \in Users, UnlockWorker(t)
  PROVE  OwnState'
  <1> USE ClientPoolAssumption DEF UnlockWorker, IInv, OwnState, lockVars, adminVars
  <1>1. work[t] \in L!Workers /\ \A s \in Users : s # t => work[s] # work[t]
    BY LockPoolState DEF L!Workers, UserState
  <1>2. TypeOK'
    BY <1>1 DEF TypeOK
  <1>3. ASSUME NEW s \in Users
        PROVE  UserState!(s)'
    <2>1. user'[t] = "releasing" /\ pc[t] = "holding"
      BY <1>1 DEF TypeOK, UserState
    <2>2. ASSUME s # t
          PROVE  /\ user'[s] = user[s]
                 /\ user[s] = "using" => mutex'[work[s]] = mutex[work[s]]
      BY <1>1, <2>2, LockPoolState DEF TypeOK, UserState
    <2>3. QED
      BY <2>1, <2>2 DEF UserState
  <1>4. UserState'
    BY <1>3 DEF UserState
  <1>5. LocksHeld' /\ OptionsPositive' /\ NextInPool' /\ Stages'
    BY DEF LocksHeld, OptionsPositive, NextInPool, Stages
  <1>6. QED
    BY <1>2, <1>4, <1>5

\* A user gives its worker back.
LEMMA ReleaseWorkerInvariant ==
  ASSUME IInv, NEW t \in Users, ReleaseWorker(t)
  PROVE  OwnState'
  <1> USE ClientPoolAssumption DEF IInv, OwnState
  <1>1. /\ UNCHANGED <<mutex, growth, poolLock, growers, gpc, clients, cfg,
                       adminVars, nWorkers, holder>>
        /\ user' = [user EXCEPT ![t] = "idle"]
        /\ pc'[t] = "out"
        /\ \A s \in Users \ {t} : pc'[s] = pc[s] /\ work'[s] = work[s]
    BY LockPoolState DEF ReleaseWorker, L!ReleaseWorker
  <1>2. TypeOK'
    BY <1>1 DEF TypeOK, adminVars
  <1>3. UserState'
    BY <1>1 DEF UserState, TypeOK
  <1>4. LocksHeld' /\ Stages' /\ OptionsPositive' /\ NextInPool'
    BY <1>1 DEF LocksHeld, Stages, OptionsPositive, NextInPool, adminVars
  <1>5. QED
    BY <1>1, <1>2, <1>3, <1>4

\* autoGrow looks again and takes its locks.
LEMMA AutoGrowInvariant ==
  ASSUME IInv, AutoGrow \/ AutoGrowLocksPool
  PROVE  OwnState'
  <1> USE ClientPoolAssumption DEF AutoGrow, AutoGrowLocksPool, ShouldGrow,
           IInv, OwnState, lockVars, adminVars
  <1>1. TypeOK'
    <2>1. growers' \in 0 .. MaxGrowers
      BY DEF TypeOK
    <2>2. QED
      BY <2>1 DEF TypeOK
  <1>2. UserState' /\ OptionsPositive' /\ NextInPool'
    BY DEF UserState, OptionsPositive, NextInPool
  <1>3. LocksHeld'
    BY DEF LocksHeld, TypeOK
  <1>4. Stages'
    BY DEF Stages, TypeOK
  <1>5. QED
    BY <1>1, <1>2, <1>3, <1>4

\* autoGrow grows the pool.
LEMMA AutoGrowEndInvariant ==
  ASSUME IInv, AutoGrowEnd
  PROVE  OwnState'
  <1> USE ClientPoolAssumption DEF IInv, OwnState
  <1>1. TypeOK /\ OptionsPositive /\ clients # <<>> /\ Len(clients) < cfg.max
    BY DEF AutoGrowEnd, Stages
  <1>2. GrowthStep \in Nat \ {0}
    <2>1. cfg.max - Len(clients) \in Int
      BY <1>1 DEF TypeOK, Settings
    <2>2. QED
      BY <1>1, <2>1, GrowthStepBounds
  <1>3. GrowPool(GrowthStep)
    BY DEF AutoGrowEnd
  <1>4. /\ clients' \in Seq(Clients)
        /\ Len(clients') > Len(clients) /\ nWorkers' = Len(clients')
        /\ UNCHANGED <<holder, pc, work>> /\ holder = NoThread
    <2>1. /\ clients' \in Seq(Clients)
          /\ Len(clients') = Len(clients) + GrowthStep
          /\ nWorkers' = nWorkers + GrowthStep
          /\ UNCHANGED <<holder, pc, work>> /\ holder = NoThread
      BY <1>2, <1>3, GrowPoolClients
    <2>2. Len(clients) \in Nat
      BY DEF TypeOK
    <2>3. QED
      BY <1>2, <2>1, <2>2
  <1> USE <1>4 DEF AutoGrowEnd, adminVars
  <1>5. TypeOK'
    <2>1. growers' \in 0 .. MaxGrowers
      BY DEF TypeOK, Stages
    <2>2. QED
      BY <2>1 DEF TypeOK
  <1>6. UserState' /\ OptionsPositive' /\ NextInPool'
    BY DEF UserState, OptionsPositive, NextInPool, LocksHeld, TypeOK
  <1>7. LocksHeld' /\ Stages'
    BY DEF LocksHeld, Stages, TypeOK
  <1>8. QED
    BY <1>5, <1>6, <1>7

\* init and config grow the pool.
LEMMA InitialGrowthInvariant ==
  ASSUME IInv, InitialGrowth
  PROVE  OwnState'
  <1> USE ClientPoolAssumption DEF IInv, OwnState
  <1>1. cfg.initial \in Nat \ {0} /\ GrowPool(cfg.initial)
    BY DEF InitialGrowth, OptionsPositive, TypeOK, Settings
  <1>2. /\ clients' \in Seq(Clients)
        /\ Len(clients') > Len(clients) /\ nWorkers' = Len(clients')
        /\ UNCHANGED <<holder, pc, work>> /\ holder = NoThread
    <2>1. /\ clients' \in Seq(Clients)
          /\ Len(clients') = Len(clients) + cfg.initial
          /\ nWorkers' = nWorkers + cfg.initial
          /\ UNCHANGED <<holder, pc, work>> /\ holder = NoThread
      BY <1>1, GrowPoolClients
    <2>2. Len(clients) \in Nat
      BY DEF TypeOK
    <2>3. QED
      BY <1>1, <2>1, <2>2
  <1> USE <1>2 DEF InitialGrowth
  <1>3. TypeOK'
    BY DEF TypeOK
  <1>4. UserState' /\ OptionsPositive' /\ NextInPool'
    BY DEF UserState, OptionsPositive, NextInPool
  <1>5. LocksHeld' /\ Stages'
    BY DEF LocksHeld, Stages, TypeOK
  <1>6. QED
    BY <1>3, <1>4, <1>5

\* updateServers takes its locks, m_fifo_access the second.
LEMMA UpdateBeginsInvariant ==
  ASSUME IInv, NEW list \in ServerLists, UpdateBegins(list)
  PROVE  OwnState'
  <1> USE ClientPoolAssumption DEF UpdateBegins, IInv, OwnState, lockVars
  <1>1. cfg' \in Settings /\ OptionsPositive'
        /\ cfg'.max = cfg.max
    BY DEF TypeOK, Settings, OptionsPositive
  <1>2. ops' \in 0 .. MaxOps
    BY DEF TypeOK
  <1>3. TypeOK'
    BY <1>1, <1>2 DEF TypeOK
  <1>4. UserState' /\ NextInPool' /\ LocksHeld'
    BY DEF UserState, NextInPool, LocksHeld
  <1>5. Stages'
    BY <1>1 DEF Stages
  <1>6. QED
    BY <1>1, <1>3, <1>4, <1>5

LEMMA UpdateLocksFifoInvariant ==
  ASSUME IInv, UpdateLocksFifo
  PROVE  OwnState'
  <1> USE ClientPoolAssumption DEF UpdateLocksFifo, IInv, OwnState
  <1>1. TypeOK' /\ NextInPool'
    BY DEF TypeOK, NextInPool
  <1>2. UserState' /\ OptionsPositive' /\ LocksHeld' /\ Stages'
    BY DEF UserState, OptionsPositive, LocksHeld, Stages
  <1>3. QED
    BY <1>1, <1>2

\* updateServers lets go of both.
LEMMA UpdateEndsInvariant ==
  ASSUME IInv, UpdateEnds
  PROVE  OwnState'
  <1> USE ClientPoolAssumption DEF UpdateEnds, IInv, OwnState
  <1>1. TypeOK' /\ NextInPool'
    BY DEF TypeOK, NextInPool
  <1>2. UserState' /\ OptionsPositive' /\ LocksHeld'
    BY DEF UserState, OptionsPositive, LocksHeld
  <1>3. Stages'
    BY DEF Stages, TypeOK
  <1>4. QED
    BY <1>1, <1>2, <1>3

\* updateServers changes one client.
LEMMA UpdateClientInvariant ==
  ASSUME IInv, UpdateClient
  PROVE  OwnState'
  <1> USE ClientPoolAssumption DEF UpdateClient, IInv, OwnState, lockVars
  <1>1. clients' \in Seq(Clients)
        /\ Len(clients') = Len(clients)
    <2>1. next \in 1 .. Len(clients) /\ clients \in Seq(Clients)
      BY DEF TypeOK, NextInPool
    <2>2. Accepted(clients[next]) \in Clients
      <3>1. clients[next] \in Clients
        BY <2>1
      <3>2. QED
        BY <3>1 DEF Accepted, Clients, TypeOK, Settings
    <2>3. clients' = [clients EXCEPT ![next] = Accepted(clients[next])]
      OBVIOUS
    <2>4. QED
      BY <2>1, <2>2, <2>3
  <1>2. next' \in 0 .. MaxWorkers + 1 /\ NextInPool'
    BY <1>1, LockPoolState DEF TypeOK, NextInPool
  <1>3. TypeOK'
    BY <1>1, <1>2 DEF TypeOK
  <1>4. UserState' /\ OptionsPositive' /\ LocksHeld'
    BY DEF UserState, OptionsPositive, LocksHeld
  <1>5. Stages'
    BY <1>1 DEF Stages, TypeOK
  <1>6. QED
    BY <1>1, <1>2, <1>3, <1>4, <1>5

\* init takes its locks, and config m_pool_lock.
LEMMA AdminLocksInvariant ==
  ASSUME IInv, InitLocksGrowth \/ InitLocksPool \/ ConfigBegins
  PROVE  OwnState'
  <1> USE ClientPoolAssumption DEF InitLocksGrowth, InitLocksPool, ConfigBegins,
           IInv, OwnState, lockVars
  <1>1. TypeOK'
    <2>1. ops' \in 0 .. MaxOps
      BY DEF TypeOK
    <2>2. QED
      BY <2>1 DEF TypeOK
  <1>2. UserState' /\ OptionsPositive' /\ NextInPool'
    BY DEF UserState, OptionsPositive, NextInPool
  <1>3. LocksHeld'
    BY DEF LocksHeld, TypeOK
  <1>4. Stages'
    BY DEF Stages, TypeOK
  <1>5. QED
    BY <1>1, <1>2, <1>3, <1>4

\* A function on 1 .. n is a sequence of length n.
LEMMA FunctionSequence ==
  ASSUME NEW S, NEW n \in Nat, NEW f \in [1 .. n -> S]
  PROVE  f \in Seq(S) /\ Len(f) = n
  OBVIOUS

\* config sets an option of the clients.
LEMMA ConfigClientsInvariant ==
  ASSUME IInv, NEW val \in ConfigValues, ConfigClients(val)
  PROVE  OwnState'
  <1> USE ClientPoolAssumption DEF ConfigClients, IInv, OwnState, lockVars
  <1>1. clients' \in Seq(Clients)
        /\ Len(clients') = Len(clients)
    <2>1. clients \in Seq(Clients) /\ val \in Nat
      BY DEF TypeOK
    <2>2. \A c \in Clients : [c EXCEPT !.option = val] \in Clients
      BY <2>1 DEF Clients
    <2>3. clients' = [i \in 1 .. Len(clients) |->
                       [clients[i] EXCEPT !.option = val]]
      BY <2>1
    <2>4. clients' \in [1 .. Len(clients) -> Clients]
      BY <2>1, <2>2, <2>3, \A i \in 1 .. Len(clients) : clients[i] \in Clients
    <2>5. Len(clients) \in Nat
      BY <2>1
    <2>6. QED
      BY ONLY <2>4, <2>5, FunctionSequence
  <1>2. TypeOK' /\ OptionsPositive' /\ cfg'.max = cfg.max
    BY <1>1 DEF TypeOK, Settings, OptionsPositive
  <1>3. UserState' /\ NextInPool'
    BY <1>1 DEF UserState, NextInPool
  <1>4. LocksHeld'
    BY DEF LocksHeld, TypeOK
  <1>5. Stages'
    BY <1>1, <1>2 DEF Stages, TypeOK
  <1>6. QED
    BY <1>1, <1>2, <1>3, <1>4, <1>5

\* A positive value of an option leaves all three positive.
LEMMA OptionChanged ==
  ASSUME NEW c \in Settings, NEW n \in Nat \ {0}, NEW m \in Nat \ {0},
         c.initial > 0, c.max > 0, c.maxGrowth > 0,
         NEW d, \/ d = [c EXCEPT !.initial = n, !.max = m]
                \/ d = [c EXCEPT !.max = n]
                \/ d = [c EXCEPT !.maxGrowth = n]
  PROVE  d \in Settings /\ d.initial > 0 /\ d.max > 0 /\ d.maxGrowth > 0
  <1> USE DEF Settings
  <1>1. CASE d = [c EXCEPT !.initial = n, !.max = m]
    <2>1. d \in Settings
      BY <1>1
    <2>2. d.initial = n /\ d.max = m /\ d.maxGrowth = c.maxGrowth
      BY <1>1
    <2>3. QED
      BY <2>1, <2>2
  <1>2. CASE d = [c EXCEPT !.max = n]
    <2>1. d \in Settings
      BY <1>2
    <2>2. d.initial = c.initial /\ d.max = n /\ d.maxGrowth = c.maxGrowth
      BY <1>2
    <2>3. QED
      BY <2>1, <2>2
  <1>3. CASE d = [c EXCEPT !.maxGrowth = n]
    <2>1. d \in Settings
      BY <1>3
    <2>2. d.initial = c.initial /\ d.max = c.max /\ d.maxGrowth = n
      BY <1>3
    <2>3. QED
      BY <2>1, <2>2
  <1>4. QED
    BY <1>1, <1>2, <1>3

\* config sets an option of the pool.
LEMMA ConfigPoolInvariant ==
  ASSUME IInv, PositiveOptions, NEW val \in ConfigValues,
         NEW opt \in PoolOptions, ConfigPool(opt, val)
  PROVE  OwnState'
  <1> USE ClientPoolAssumption DEF ConfigPool, IInv, OwnState, lockVars
  <1>1. val \in Nat \ {0}
    BY DEF PositiveOptions
  <1>2. Max({cfg.max, val}) \in Nat \ {0} /\ Max({cfg.max, val}) >= cfg.max
    <2> DEFINE S == {cfg.max, val}
    <2>1. S \subseteq Nat \ {0} /\ cfg.max \in S
      BY <1>1 DEF OptionsPositive, TypeOK, Settings
    <2>2. \E x \in S : \A y \in S : x >= y
      BY <2>1
    <2>3. Max(S) \in S /\ \A y \in S : Max(S) >= y
      BY <2>2 DEF Max
    <2>4. QED
      BY <2>1, <2>3
  <1>3. cfg' \in Settings /\ OptionsPositive'
    <2>1. \/ cfg' = [cfg EXCEPT !.initial = val, !.max = Max({cfg.max, val})]
          \/ cfg' = [cfg EXCEPT !.max = val]
          \/ cfg' = [cfg EXCEPT !.maxGrowth = val]
      BY DEF PoolOptions
    <2>2. cfg \in Settings
      BY DEF TypeOK
    <2>3. Max({cfg.max, val}) \in Nat \ {0}
      BY <1>2
    <2>4. cfg.initial > 0 /\ cfg.max > 0 /\ cfg.maxGrowth > 0
      BY DEF OptionsPositive
    <2>5. QED
      BY ONLY <1>1, <2>1, <2>2, <2>3, <2>4, OptionChanged DEF OptionsPositive
  <1>4. TypeOK'
    BY <1>3 DEF TypeOK
  <1>5. UserState' /\ NextInPool'
    BY DEF UserState, NextInPool
  <1>6. LocksHeld'
    BY DEF LocksHeld, TypeOK
  <1>7. Stages'
    BY DEF Stages, TypeOK, LocksHeld
  <1>8. QED
    BY <1>3, <1>4, <1>5, <1>6, <1>7

\* The inductive invariant, with no option set to 0.
LEMMA StepInvariant ==
  ASSUME PositiveOptions, IInv, [Next]_vars
  PROVE  IInv'
  <1> USE ClientPoolAssumption
  <1>1. P!IInv'
    <2>1. [P!Next]_(P!vars)
      BY LockStep
    <2>2. QED
      BY <2>1, P!StepInvariant DEF IInv
  <1>2. OwnState'
    <2>1. CASE \E t \in Users : Look(t) \/ UserStep(t)
      BY <2>1, LookInvariant, AcquireWorkerInvariant, LockWorkerInvariant,
         UnlockWorkerInvariant, ReleaseWorkerInvariant DEF UserStep
    <2>2. CASE GrowerStep
      BY <2>2, AutoGrowInvariant, AutoGrowEndInvariant DEF GrowerStep
    <2>3. CASE AdminStep
      BY <2>3, UpdateLocksFifoInvariant, UpdateClientInvariant,
         UpdateEndsInvariant, AdminLocksInvariant, InitialGrowthInvariant,
         ConfigClientsInvariant, ConfigPoolInvariant DEF AdminStep
    <2>4. CASE \E list \in ServerLists : UpdateBegins(list)
      BY <2>4, UpdateBeginsInvariant
    <2>5. CASE ConfigBegins
      BY <2>5, AdminLocksInvariant
    <2>6. CASE UNCHANGED vars
      BY <2>6 DEF vars, lockVars, adminVars, IInv, OwnState, TypeOK, LocksHeld,
                  UserState, Stages, OptionsPositive, NextInPool
    <2>7. QED
      BY <2>1, <2>2, <2>3, <2>4, <2>5, <2>6 DEF Next
  <1>3. QED
    BY <1>1, <1>2 DEF IInv

-----------------------------------------------------------------------------
(* The theorems.                                                           *)

\* The inductive invariant holds in every reachable state.
THEOREM Invariant == PositiveOptions => (Spec => []IInv)
  <1> SUFFICES ASSUME PositiveOptions PROVE Spec => []IInv
    OBVIOUS
  <1>1. Init => IInv
    BY InitInvariant
  <1>2. IInv /\ [Next]_vars => IInv'
    BY StepInvariant
  <1>3. QED
    BY <1>1, <1>2, PTL DEF Spec

\* Every variable has its type.
THEOREM TypeCorrect == PositiveOptions => (Spec => []TypeOK)
  <1> SUFFICES ASSUME PositiveOptions PROVE Spec => []TypeOK
    OBVIOUS
  <1>1. IInv => TypeOK
    BY DEF IInv, OwnState
  <1>2. QED
    BY <1>1, Invariant, PTL

\* With the mutex free while Admin has it, ClientPool is a LockPool: every
\* theorem of LockPool is one of ClientPool.
THEOREM LockPoolUsed == PositiveOptions => (Spec => UsesLockPool)
  <1> SUFFICES ASSUME PositiveOptions PROVE Spec => UsesLockPool
    OBVIOUS
  <1>1. Init => FreeOfAdmin!Init
    BY ClientPoolAssumption
    DEF Init, L!Init, FreeOfAdmin!Init, L!NoWorker, FreeOfAdmin!NoWorker
  <1>2. IInv /\ [Next]_vars => [FreeOfAdmin!Next]_(FreeOfAdmin!vars)
    <2> SUFFICES ASSUME IInv, [Next]_vars
                 PROVE  [FreeOfAdmin!Next]_(FreeOfAdmin!vars)
      OBVIOUS
    <2>1. [P!Next]_(P!vars)
      BY LockStep
    <2>2. UNCHANGED P!vars => UNCHANGED FreeOfAdmin!vars
      BY DEF P!vars, FreeOfAdmin!vars
    <2>3. P!Next => FreeOfAdmin!Next
      BY DEF P!Next, P!Acquire, P!LockOpen, P!LockWait, P!Wake, P!TakeWorker,
         P!ReleaseWorker, P!AddWorkers, P!Unlock, P!NoWorker,
         FreeOfAdmin!Next, FreeOfAdmin!Acquire, FreeOfAdmin!LockOpen,
         FreeOfAdmin!LockWait, FreeOfAdmin!Wake, FreeOfAdmin!TakeWorker,
         FreeOfAdmin!ReleaseWorker, FreeOfAdmin!AddWorkers,
         FreeOfAdmin!Unlock, FreeOfAdmin!NoWorker
    <2>4. QED
      BY <2>1, <2>2, <2>3
  <1>3. QED
    BY <1>1, <1>2, Invariant, PTL DEF Spec, UsesLockPool, FreeOfAdmin!Spec

\* No client is with two users: the one that has the mutex of a worker is the
\* one LockPool gave it to.
ClientsDisjoint ==
    \A s, t \in Users :
      s # t /\ user[s] = "using" /\ user[t] = "using" => work[s] # work[t]

\* No two users use one client.
THEOREM MutualExclusion == PositiveOptions => (Spec => []ClientsDisjoint)
  <1> SUFFICES ASSUME PositiveOptions PROVE Spec => []ClientsDisjoint
    OBVIOUS
  <1>1. IInv => ClientsDisjoint
    BY LockPoolState DEF IInv, OwnState, UserState, ClientsDisjoint
  <1>2. QED
    BY <1>1, Invariant, PTL

-----------------------------------------------------------------------------
(* A client in use.                                                        *)

\* config(CFG_...) of an option of the clients sets it without their mutexes.
NoClientOption == "client_option" \notin Ops

\* updateServers changes a client only under its mutex, and growth adds
\* clients behind those that there are.
LEMMA StepLeavesClient ==
  ASSUME PositiveOptions, NoClientOption, IInv, [Next]_vars,
         NEW t \in Users, user[t] = "using"
  PROVE  clients'[work[t] + 1] = clients[work[t] + 1]
  <1> USE ClientPoolAssumption
  <1>1. /\ clients \in Seq(Clients) /\ Len(clients) \in Nat
        /\ work[t] + 1 \in 1 .. Len(clients) /\ work[t] \in Nat
        /\ mutex[work[t]] = t
    BY LockPoolState DEF IInv, OwnState, UserState, TypeOK
  <1>2. CASE UpdateClient
    <2>1. next \in Nat /\ next \in DOMAIN clients
      BY <1>1, <1>2 DEF UpdateClient, IInv, OwnState, NextInPool, TypeOK
    <2>2. next - 1 # work[t]
      BY <1>1, <1>2 DEF UpdateClient
    <2>3. work[t] + 1 # next
      BY <1>1, <2>1, <2>2
    <2>4. QED
      BY <1>1, <1>2, <2>1, <2>3 DEF UpdateClient
  <1>3. ASSUME NEW by \in Nat \ {0}, GrowPool(by)
        PROVE  clients'[work[t] + 1] = clients[work[t] + 1]
    BY <1>1, <1>3, GrowPoolClients DEF IInv, OwnState
  <1>4. CASE AutoGrowEnd
    <2>1. TypeOK /\ OptionsPositive /\ clients # <<>> /\ Len(clients) < cfg.max
      BY <1>4 DEF AutoGrowEnd, IInv, OwnState, Stages
    <2>2. cfg.max - Len(clients) \in Int
      BY <2>1 DEF TypeOK, Settings
    <2>3. QED
      BY <1>3, <1>4, <2>1, <2>2, GrowthStepBounds DEF AutoGrowEnd
  <1>5. CASE InitialGrowth
    BY <1>3, <1>5 DEF InitialGrowth, IInv, OwnState, OptionsPositive, TypeOK,
                      Settings
  <1>6. UNCHANGED clients \/ UpdateClient \/ AutoGrowEnd \/ InitialGrowth
    BY DEF Next, UserStep, GrowerStep, AdminStep, Look, AcquireWorker,
           LockWorker, UnlockWorker, ReleaseWorker, AutoGrow,
           AutoGrowLocksPool, UpdateLocksFifo, UpdateEnds, InitLocksGrowth,
           InitLocksPool, ConfigClients, ConfigPool, UpdateBegins,
           ConfigBegins, NoClientOption, vars
  <1>7. QED
    BY <1>2, <1>4, <1>5, <1>6

\* No other thread changes a client while a user has it, as long as no
\* option of the clients is set.
THEOREM Unchanged ==
  PositiveOptions /\ NoClientOption => (Spec => UnchangedWhileUsed)
  <1> SUFFICES ASSUME PositiveOptions, NoClientOption
               PROVE  Spec => UnchangedWhileUsed
    OBVIOUS
  <1> DEFINE Left == \A t \in Users : user[t] = "using" =>
                       clients'[work[t] + 1] = clients[work[t] + 1]
  <1>1. IInv /\ [Next]_vars => [Left]_vars
    BY StepLeavesClient
  <1>2. QED
    BY <1>1, Invariant, PTL DEF Spec, UnchangedWhileUsed

-----------------------------------------------------------------------------
(* The clients and the settings.                                           *)

\* ConnectionPool::updateServers takes a list only in place of one of the
\* same length.
OneLength == \A a, b \in ServerLists : Size[a] = Size[b]

\* updateServers and config leave no client behind, but for those that the
\* updateServers that is going on has not come to.
Reached(i) == apc # "fifo" /\ (apc = "clients" => i < next)

Current ==
    /\ apc \in {"fifo", "clients"} => cfg.hosts \in ServerLists
    /\ \A i \in 1 .. Len(clients) :
         /\ clients[i].option = cfg.option
         /\ clients[i].servers \in ServerLists \cup {NoServers}
         /\ Reached(i) => clients[i].servers \in {cfg.hosts, NoServers}

LEMMA InitCurrent == Init => Current
  BY DEF Init, Current

LEMMA GrowPoolCurrent ==
  ASSUME IInv, Current, NEW by \in Nat \ {0}, GrowPool(by),
         UNCHANGED cfg, apc \notin {"fifo", "clients"},
         apc' \notin {"fifo", "clients"}
  PROVE  Current'
  <1>1. TypeOK /\ nWorkers = Len(clients) /\ Len(clients) \in Nat
        /\ cfg.hosts \in ServerLists \cup {NoServers}
    BY DEF IInv, OwnState, TypeOK, Settings
  <1>2. /\ Len(clients') = Len(clients) + by
        /\ \A i \in 1 .. Len(clients) : clients'[i] = clients[i]
        /\ \A i \in Len(clients) + 1 .. Len(clients') :
             clients'[i] = [servers |-> cfg.hosts, option |-> cfg.option]
    BY <1>1, GrowPoolClients
  <1>3. ASSUME NEW i \in 1 .. Len(clients')
        PROVE  /\ clients'[i].option = cfg.option
               /\ clients'[i].servers \in ServerLists \cup {NoServers}
               /\ clients'[i].servers \in {cfg.hosts, NoServers}
    <2>1. CASE i \in 1 .. Len(clients)
      BY <1>2, <2>1 DEF Current, Reached
    <2>2. CASE i \in Len(clients) + 1 .. Len(clients')
      BY <1>1, <1>2, <2>2
    <2>3. QED
      BY <1>1, <1>2, <2>1, <2>2
  <1>4. QED
    BY <1>3 DEF Current

LEMMA StepCurrent ==
  ASSUME OneLength, PositiveOptions, IInv, Current, [Next]_vars
  PROVE  Current'
  <1> USE ClientPoolAssumption
  <1>1. /\ clients \in Seq(Clients) /\ Len(clients) \in Nat /\ cfg \in Settings
    BY DEF IInv, OwnState, TypeOK
  <1>2. ASSUME NEW list \in ServerLists, UpdateBegins(list)
        PROVE  Current'
    BY <1>1, <1>2 DEF UpdateBegins, Current, Settings, Reached
  <1>3. CASE UpdateLocksFifo
    BY <1>1, <1>3 DEF UpdateLocksFifo, Current, Reached
  <1>4. CASE UpdateClient
    <2>1. next \in 1 .. Len(clients) /\ next' = next + 1
      BY <1>4 DEF UpdateClient, IInv, OwnState, NextInPool, TypeOK
    <2>2. clients' = [clients EXCEPT ![next] = Accepted(clients[next])]
          /\ UNCHANGED <<cfg, apc>> /\ apc = "clients"
      BY <1>4 DEF UpdateClient
    <2>3. /\ Len(clients') = Len(clients)
          /\ \A i \in 1 .. Len(clients) : i # next => clients'[i] = clients[i]
          /\ clients'[next] = Accepted(clients[next])
      BY <1>1, <2>1, <2>2
    <2>4. LET a == Accepted(clients[next])
          IN  /\ a.option = cfg.option
              /\ a.servers \in {cfg.hosts, NoServers}
              /\ a.servers \in ServerLists \cup {NoServers}
      <3>1. clients[next] \in Clients /\ clients[next].option = cfg.option
            /\ cfg.hosts \in ServerLists
        BY <1>1, <2>1, <2>2 DEF Current
      <3>2. Size[clients[next].servers] # Size[cfg.hosts]
              => clients[next].servers = NoServers
        BY <3>1 DEF OneLength, Clients
      <3>3. QED
        BY <3>1, <3>2 DEF Accepted, Clients
    <2>5. ASSUME NEW i \in 1 .. Len(clients'), i < next'
          PROVE  i = next \/ i < next
      BY <2>1, <2>3, <2>5
    <2>6. QED
      BY <2>1, <2>2, <2>3, <2>4, <2>5 DEF Current, Reached
  <1>5. CASE UpdateEnds
    BY <1>1, <1>5 DEF UpdateEnds, Current, Reached, IInv, OwnState, TypeOK
  <1>6. ASSUME NEW val \in ConfigValues, ConfigClients(val)
        PROVE  Current'
    <2>1. Len(clients') = Len(clients)
      BY <1>1, <1>6, ConfigClientsInvariant DEF IInv, OwnState, ConfigClients,
                                                lockVars
    <2>2. \A i \in 1 .. Len(clients) :
            clients'[i] = [clients[i] EXCEPT !.option = val]
      <3>1. DOMAIN clients = 1 .. Len(clients)
        BY <1>1
      <3>2. clients' = [i \in 1 .. Len(clients) |->
                         [clients[i] EXCEPT !.option = val]]
        BY <1>6, <3>1 DEF ConfigClients
      <3>3. QED
        BY ONLY <3>2
    <2>3. \A c \in Clients : /\ [c EXCEPT !.option = val].option = val
                             /\ [c EXCEPT !.option = val].servers = c.servers
      BY DEF Clients
    <2>4. cfg'.option = val /\ cfg'.hosts = cfg.hosts
          /\ apc = "config" /\ apc' = "idle"
      BY <1>1, <1>6 DEF ConfigClients, Settings
    <2>5. \A i \in 1 .. Len(clients) : clients[i] \in Clients
      BY <1>1
    <2>6. ASSUME NEW i \in 1 .. Len(clients)
          PROVE  /\ clients'[i].option = cfg'.option
                 /\ clients'[i].servers = clients[i].servers
      BY <2>2, <2>3, <2>4, <2>5
    <2>7. QED
      BY <2>1, <2>4, <2>6 DEF Current, Reached
  <1>7. ASSUME NEW val \in ConfigValues, NEW opt \in PoolOptions,
               ConfigPool(opt, val)
        PROVE  Current'
    <2>1. cfg'.hosts = cfg.hosts /\ cfg'.option = cfg.option
      BY <1>1, <1>7 DEF ConfigPool, PoolOptions, Settings
    <2>2. UNCHANGED clients /\ apc = "config" /\ apc' \in {"idle", "growing"}
      BY <1>7 DEF ConfigPool
    <2>3. QED
      BY <2>1, <2>2 DEF Current, Reached
  <1>8. CASE AutoGrowEnd
    <2>1. TypeOK /\ OptionsPositive /\ clients # <<>> /\ Len(clients) < cfg.max
      BY <1>8 DEF AutoGrowEnd, IInv, OwnState, Stages
    <2>2. cfg.max - Len(clients) \in Int
      BY <2>1 DEF TypeOK, Settings
    <2>3. apc \notin {"fifo", "clients"} /\ UNCHANGED <<cfg, apc>>
      BY <1>8 DEF AutoGrowEnd, adminVars, IInv, OwnState, LocksHeld
    <2>4. QED
      BY <1>8, <2>1, <2>2, <2>3, GrowthStepBounds, GrowPoolCurrent
      DEF AutoGrowEnd
  <1>9. CASE InitialGrowth
    <2>1. cfg.initial \in Nat \ {0}
      BY DEF IInv, OwnState, OptionsPositive, TypeOK, Settings
    <2>2. QED
      BY <1>9, <2>1, GrowPoolCurrent DEF InitialGrowth
  <1>10. ASSUME UNCHANGED <<cfg, clients>>,
                UNCHANGED <<apc, next>> \/ {apc, apc'} \cap {"fifo", "clients"} = {}
         PROVE  Current'
    BY <1>10 DEF Current, Reached
  <1>11. CASE \/ InitLocksGrowth \/ InitLocksPool \/ ConfigBegins
    BY <1>10, <1>11 DEF InitLocksGrowth, InitLocksPool, ConfigBegins
  <1>12. ASSUME NEW t \in Users, Look(t) \/ UserStep(t)
         PROVE  Current'
    BY <1>10, <1>12 DEF UserStep, Look, AcquireWorker, LockWorker,
                        UnlockWorker, ReleaseWorker, adminVars
  <1>13. CASE AutoGrow \/ AutoGrowLocksPool
    BY <1>10, <1>13 DEF AutoGrow, AutoGrowLocksPool, adminVars
  <1>14. CASE UNCHANGED vars
    BY <1>10, <1>14 DEF vars, adminVars
  <1>15. QED
    BY <1>2, <1>3, <1>4, <1>5, <1>6, <1>7, <1>8, <1>9, <1>11, <1>12, <1>13,
       <1>14 DEF Next, GrowerStep, AdminStep

\* When nobody is at it, every client has the servers and the option value
\* of the last calls, for lists of one length.
THEOREM CurrentTheorem ==
  OneLength /\ PositiveOptions => (Spec => []ClientsCurrent)
  <1> SUFFICES ASSUME OneLength, PositiveOptions
               PROVE  Spec => []ClientsCurrent
    OBVIOUS
  <1>1. IInv /\ Current => ClientsCurrent
    BY ClientPoolAssumption
    DEF IInv, OwnState, LocksHeld, TypeOK, Current, Reached, ClientsCurrent
  <1>2. IInv /\ Current /\ [Next]_vars => Current'
    BY StepCurrent
  <1>3. QED
    BY <1>1, <1>2, InitCurrent, Invariant, PTL DEF Spec

-----------------------------------------------------------------------------
(* The size of the pool.                                                   *)

\* CFG_INITIAL_CLIENTS and CFG_MAX_CLIENTS stay what they are, and init asks
\* for no more than the maximum: config neither grows the pool past it nor
\* sets it below the size.
FixedMaximum ==
    /\ "CFG_INITIAL_CLIENTS" \notin Ops /\ "CFG_MAX_CLIENTS" \notin Ops
    /\ InitialClients <= MaxClients

Bounded ==
    /\ cfg.initial = InitialClients /\ cfg.max = MaxClients
    /\ Len(clients) <= MaxClients
    /\ apc = "growing" => stage = "init"
    /\ stage # "ready" => clients = <<>>

LEMMA StepBounded ==
  ASSUME FixedMaximum, PositiveOptions, IInv, Bounded, [Next]_vars
  PROVE  Bounded'
  <1> USE ClientPoolAssumption
  <1>1. clients \in Seq(Clients) /\ Len(clients) \in Nat /\ cfg \in Settings
        /\ TypeOK /\ nWorkers = Len(clients)
    BY DEF IInv, OwnState, TypeOK
  <1>2. ASSUME NEW list \in ServerLists, UpdateBegins(list)
        PROVE  Bounded'
    BY <1>1, <1>2 DEF UpdateBegins, Bounded, Settings
  <1>3. CASE UpdateClient
    <2>1. Len(clients') = Len(clients) /\ clients # <<>>
      BY <1>1, <1>3 DEF UpdateClient, IInv, OwnState, NextInPool
    <2>2. QED
      BY <1>1, <1>3, <2>1 DEF UpdateClient, Bounded
  <1>4. ASSUME NEW val \in ConfigValues, ConfigClients(val)
        PROVE  Bounded'
    <2>1. Len(clients') = Len(clients)
      BY <1>1, <1>4, ConfigClientsInvariant DEF IInv, OwnState, ConfigClients,
                                                lockVars
    <2>2. cfg'.initial = cfg.initial /\ cfg'.max = cfg.max
          /\ apc' = "idle" /\ stage' = stage
      BY <1>1, <1>4 DEF ConfigClients, Settings
    <2>3. clients = <<>> => clients' = <<>>
      BY <1>4 DEF ConfigClients
    <2>4. QED
      BY <2>1, <2>2, <2>3 DEF Bounded
  <1>5. ASSUME NEW val \in ConfigValues, NEW opt \in PoolOptions,
               ConfigPool(opt, val)
        PROVE  Bounded'
    <2>1. cfg' = [cfg EXCEPT !.maxGrowth = val] /\ apc' = "idle"
          /\ UNCHANGED <<clients, stage>>
      BY <1>5 DEF ConfigPool, PoolOptions, FixedMaximum
    <2>2. QED
      BY <1>1, <2>1 DEF Bounded, Settings
  <1>6. CASE AutoGrowEnd
    <2>1. OptionsPositive /\ clients # <<>> /\ Len(clients) < cfg.max
          /\ apc # "growing" /\ stage = "ready"
      BY <1>6 DEF AutoGrowEnd, IInv, OwnState, Stages, LocksHeld
    <2>2. GrowthStep \in 1 .. cfg.max - Len(clients)
      BY <1>1, <2>1, GrowthStepBounds
    <2>3. cfg.max \in Nat
      BY <1>1 DEF Settings
    <2>4. GrowthStep \in Nat \ {0} /\ Len(clients) + GrowthStep <= cfg.max
      BY <1>1, <2>2, <2>3
    <2>5. Len(clients') = Len(clients) + GrowthStep
      BY <1>1, <1>6, <2>4, GrowPoolClients DEF AutoGrowEnd
    <2>6. QED
      BY <1>6, <2>1, <2>4, <2>5 DEF AutoGrowEnd, adminVars, Bounded
  <1>7. CASE InitialGrowth
    <2>1. cfg.initial \in Nat \ {0} /\ GrowPool(cfg.initial)
      BY <1>7 DEF InitialGrowth, IInv, OwnState, OptionsPositive, TypeOK,
                  Settings
    <2>2. Len(clients') = Len(clients) + cfg.initial /\ clients = <<>>
          /\ stage = "init"
      BY <1>1, <1>7, <2>1, GrowPoolClients DEF InitialGrowth, Bounded
    <2>3. QED
      BY <1>7, <2>2 DEF InitialGrowth, Bounded, FixedMaximum
  <1>8. ASSUME UNCHANGED <<cfg, clients, stage>>,
               apc' = "growing" => apc = "growing" \/ stage = "init"
        PROVE  Bounded'
    BY <1>8 DEF Bounded
  <1>9. CASE \/ UpdateLocksFifo \/ UpdateEnds \/ InitLocksGrowth
             \/ InitLocksPool \/ ConfigBegins
    BY <1>8, <1>9 DEF UpdateLocksFifo, UpdateEnds, InitLocksGrowth,
                      InitLocksPool, ConfigBegins, IInv, OwnState, Stages
  <1>10. ASSUME NEW t \in Users, Look(t) \/ UserStep(t)
         PROVE  Bounded'
    BY <1>8, <1>10 DEF UserStep, Look, AcquireWorker, LockWorker,
                       UnlockWorker, ReleaseWorker, adminVars
  <1>11. CASE AutoGrow \/ AutoGrowLocksPool
    BY <1>8, <1>11 DEF AutoGrow, AutoGrowLocksPool, adminVars
  <1>12. CASE UNCHANGED vars
    BY <1>8, <1>12 DEF vars, adminVars
  <1>13. QED
    BY <1>2, <1>3, <1>4, <1>5, <1>6, <1>7, <1>9, <1>10, <1>11, <1>12
    DEF Next, GrowerStep, AdminStep

\* Any number of autoGrow threads keeps the pool within a maximum that is
\* not changed meanwhile.
THEOREM WithinMax ==
  FixedMaximum /\ PositiveOptions => (Spec => []SizeWithinMax)
  <1> SUFFICES ASSUME FixedMaximum, PositiveOptions
               PROVE  Spec => []SizeWithinMax
    OBVIOUS
  <1>1. Init => Bounded
    BY ClientPoolAssumption DEF Init, Bounded
  <1>2. IInv /\ Bounded /\ [Next]_vars => Bounded'
    BY StepBounded
  <1>3. Bounded => SizeWithinMax
    BY DEF Bounded, SizeWithinMax
  <1>4. QED
    BY <1>1, <1>2, <1>3, Invariant, PTL DEF Spec
=============================================================================
