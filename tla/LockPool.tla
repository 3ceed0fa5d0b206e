------------------------------ MODULE LockPool ------------------------------
(***************************************************************************)
(* The OrderedLock and LockPool classes: a pool of workers handed to the   *)
(* threads of a program in the order of their requests.  Every operation   *)
(* runs under the mutex m_fifo_access; what a thread does while it holds   *)
(* the mutex without waiting is one step, except in acquireWorker, where   *)
(* the lock() of OrderedLock and the taking of the worker are two, since   *)
(* m_locked is read elsewhere without the mutex.                           *)
(***************************************************************************)
EXTENDS Integers, Sequences

CONSTANTS
    Threads,            \* threads that acquire and release workers
    NoThread,           \* nobody
    MaxWorkers,         \* bound: workers the pool grows to
    SpuriousWakeups     \* may a condition variable wake without a notify?

ASSUME LockPoolAssumption ==
    /\ NoThread \notin Threads
    /\ MaxWorkers \in Nat \ {0}
    /\ SpuriousWakeups \in BOOLEAN

VARIABLES
    holder,     \* the thread that holds m_fifo_access
    fifo,       \* m_fifo_locks: a condition variable belongs to one thread
    notified,   \* threads notified that have not resumed yet
    locked,     \* m_locked
    available,  \* m_available
    nWorkers,   \* size of m_thread_workers
    pc,         \* where each thread is
    work        \* the worker each thread was given

vars == <<holder, fifo, notified, locked, available, nWorkers, pc, work>>

Workers == 0 .. MaxWorkers - 1
NoWorker == -1

Init ==
    /\ holder = NoThread
    /\ fifo = <<>>
    /\ notified = {}
    /\ locked = TRUE
    /\ available = <<>>
    /\ nWorkers = 0
    /\ pc = [t \in Threads |-> "out"]
    /\ work = [t \in Threads |-> NoWorker]

-----------------------------------------------------------------------------
\* Mutant: the newest waiter is told.
UnlockNewest ==
    IF fifo = <<>>
      THEN locked' = FALSE /\ UNCHANGED notified
      ELSE notified' = notified \cup {fifo[Len(fifo)]} /\ UNCHANGED locked

\* Mutant: the lock is left open whoever waits.
UnlockForgetsWaiters == locked' = FALSE /\ UNCHANGED notified

\* OrderedLock::unlock: pass the lock to the oldest waiter, or leave it open.
Unlock ==
    IF fifo = <<>>
      THEN locked' = FALSE /\ UNCHANGED notified
      ELSE notified' = notified \cup {Head(fifo)} /\ UNCHANGED locked

\* OrderedLock::lock finds the lock open.
LockOpen(t) ==
    /\ pc[t] = "out" /\ holder = NoThread /\ ~locked
    /\ locked' = TRUE
    /\ holder' = t
    /\ pc' = [pc EXCEPT ![t] = "inside"]
    /\ UNCHANGED <<fifo, notified, available, nWorkers, work>>

\* OrderedLock::lock queues and waits, which lets go of the mutex.
LockWait(t) ==
    /\ pc[t] = "out" /\ holder = NoThread /\ locked
    /\ fifo' = Append(fifo, t)
    /\ pc' = [pc EXCEPT ![t] = "waiting"]
    /\ UNCHANGED <<holder, notified, locked, available, nWorkers, work>>

\* Mutant: the condition variable stays in m_fifo_locks.
WakeKeepsTicket(t) ==
    /\ pc[t] = "waiting" /\ holder = NoThread
    /\ t \in notified \/ SpuriousWakeups
    /\ holder' = t
    /\ notified' = notified \ {t}
    /\ pc' = [pc EXCEPT ![t] = "inside"]
    /\ UNCHANGED <<fifo, locked, available, nWorkers, work>>

\* The wait ends.  The code does not look why: it pops the oldest condition
\* variable, which is its own only if it was notified.
Wake(t) ==
    /\ pc[t] = "waiting" /\ holder = NoThread
    /\ t \in notified \/ SpuriousWakeups
    /\ holder' = t
    /\ fifo' = IF fifo = <<>> THEN <<>> ELSE Tail(fifo)
    /\ notified' = notified \ {t}
    /\ pc' = [pc EXCEPT ![t] = "inside"]
    /\ UNCHANGED <<locked, available, nWorkers, work>>

\* Mutant: the lock is passed on after the last worker too.
TakeWorkerUnlocks(t) ==
    /\ pc[t] = "inside" /\ available # <<>>
    /\ work' = [work EXCEPT ![t] = Head(available)]
    /\ available' = Tail(available)
    /\ Unlock
    /\ holder' = NoThread
    /\ pc' = [pc EXCEPT ![t] = "holding"]
    /\ UNCHANGED <<fifo, nWorkers>>

\* Mutant: front() without pop_front().
TakeWorkerKeeps(t) ==
    /\ pc[t] = "inside" /\ available # <<>>
    /\ work' = [work EXCEPT ![t] = Head(available)]
    /\ Unlock
    /\ holder' = NoThread
    /\ pc' = [pc EXCEPT ![t] = "holding"]
    /\ UNCHANGED <<fifo, available, nWorkers>>

\* The rest of acquireWorker: front() and pop_front() are undefined on an
\* empty m_available, NoEmptyPop.  The lock stays closed on the last worker.
TakeWorker(t) ==
    /\ pc[t] = "inside" /\ available # <<>>
    /\ work' = [work EXCEPT ![t] = Head(available)]
    /\ available' = Tail(available)
    /\ IF Tail(available) = <<>> THEN UNCHANGED <<locked, notified>> ELSE Unlock
    /\ holder' = NoThread
    /\ pc' = [pc EXCEPT ![t] = "holding"]
    /\ UNCHANGED <<fifo, nWorkers>>

\* Mutant: releaseWorker without unlock().
ReleaseWorkerSilently(t) ==
    /\ pc[t] = "holding" /\ holder = NoThread
    /\ available' = <<work[t]>> \o available
    /\ work' = [work EXCEPT ![t] = NoWorker]
    /\ pc' = [pc EXCEPT ![t] = "out"]
    /\ UNCHANGED <<holder, fifo, nWorkers, locked, notified>>

ReleaseWorker(t) ==
    /\ pc[t] = "holding" /\ holder = NoThread
    /\ available' = <<work[t]>> \o available
    /\ work' = [work EXCEPT ![t] = NoWorker]
    /\ Unlock
    /\ pc' = [pc EXCEPT ![t] = "out"]
    /\ UNCHANGED <<holder, fifo, nWorkers>>

\* Mutant: the new workers are numbered from one too many.
AddWorkersOffByOne(n) ==
    /\ holder = NoThread
    /\ nWorkers + n <= MaxWorkers
    /\ available' = available \o [i \in 1 .. n |-> nWorkers + i]
    /\ nWorkers' = nWorkers + n
    /\ Unlock
    /\ UNCHANGED <<holder, fifo, pc, work>>

AddWorkers(n) ==
    /\ holder = NoThread
    /\ nWorkers + n <= MaxWorkers
    /\ available' = available \o [i \in 1 .. n |-> nWorkers + i - 1]
    /\ nWorkers' = nWorkers + n
    /\ Unlock
    /\ UNCHANGED <<holder, fifo, pc, work>>

Acquire(t) == LockOpen(t) \/ LockWait(t) \/ Wake(t) \/ TakeWorker(t)

Next ==
    \/ \E t \in Threads : Acquire(t) \/ ReleaseWorker(t)
    \/ \E n \in 1 .. MaxWorkers : AddWorkers(n)

Spec == Init /\ [][Next]_vars

\* A thread that is notified, or that has the mutex, goes on; a thread that
\* has a worker gives it back; the pool gets its first workers (init).
Fairness ==
    /\ \A t \in Threads : /\ WF_vars(Wake(t))
                          /\ WF_vars(TakeWorker(t))
                          /\ WF_vars(ReleaseWorker(t))
    /\ WF_vars(nWorkers = 0 /\ \E n \in 1 .. MaxWorkers : AddWorkers(n))

FairSpec == Spec /\ Fairness

-----------------------------------------------------------------------------
(* Properties.                                                             *)

\* Every variable has its type.
TypeOK ==
    /\ holder \in Threads \cup {NoThread}
    /\ fifo \in Seq(Threads)
    /\ notified \in SUBSET Threads
    /\ locked \in BOOLEAN
    /\ available \in Seq(Workers)
    /\ nWorkers \in 0 .. MaxWorkers
    /\ pc \in [Threads -> {"out", "waiting", "inside", "holding"}]
    /\ work \in [Threads -> Workers \cup {NoWorker}]

\* acquireWorker comes out of lock() only when there is a worker to take:
\* front() and pop_front() never run on an empty deque, whatever threads
\* arrive, leave or grow the pool in the meantime.
NoEmptyPop ==
    \A t \in Threads : pc[t] = "inside" => available # <<>>

\* No worker is with two threads, with a thread and in m_available, or twice
\* in m_available: two threads never use one Client.
WorkersDisjoint ==
    /\ \A s, t \in Threads :
         s # t /\ work[s] = work[t] => work[s] = NoWorker
    /\ \A t \in Threads, i \in 1 .. Len(available) : available[i] # work[t]
    /\ \A i, j \in 1 .. Len(available) :
         available[i] = available[j] => i = j

\* No wakeup is lost: when a worker is available and nobody is in the
\* middle of taking one, then the lock is open or its oldest waiter has been
\* told.  Nobody sleeps beside an idle worker.
NoLostWakeup ==
    holder = NoThread /\ available # <<>> =>
      \/ ~locked /\ fifo = <<>>
      \/ fifo # <<>> /\ Head(fifo) \in notified

\* The waiters are exactly the queue, each once: the condition variable at
\* the front of m_fifo_locks is on the stack of a thread still waiting.
QueueIsWaiters ==
    /\ \A t \in Threads :
         pc[t] = "waiting" <=> \E i \in 1 .. Len(fifo) : fifo[i] = t
    /\ \A i, j \in 1 .. Len(fifo) : fifo[i] = fifo[j] => i = j

\* Requests are served in order: LockPool implements FairPool.
Queue == (IF holder = NoThread THEN <<>> ELSE <<holder>>) \o fifo
Free == {available[i] : i \in 1 .. Len(available)}

Abstract == INSTANCE FairPool WITH queue <- Queue, free <- Free, owned <- work

ServedInOrder == Abstract!Spec

\* A thread that waits for a worker gets one.
WaiterServed ==
    \A t \in Threads : pc[t] = "waiting" ~> pc[t] = "holding"
=============================================================================
