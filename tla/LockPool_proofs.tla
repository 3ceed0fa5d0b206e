-------------------------- MODULE LockPool_proofs --------------------------
(***************************************************************************)
(* LockPool is safe for any number of threads and workers, as long as no   *)
(* condition variable wakes on its own: no pop from an empty m_available,  *)
(* no worker given twice, no wakeup lost.                                  *)
(***************************************************************************)
EXTENDS LockPool, SequenceTheorems, TLAPS

\* The mutex is with the thread that is inside acquireWorker, and the
\* threads out of it are those that have a worker.
ThreadState ==
    \A t \in Threads : /\ pc[t] = "inside" <=> holder = t
                       /\ pc[t] = "holding" <=> work[t] # NoWorker

\* The lock travels with a worker: it is open, or passed to the one thread
\* notified, or taken by the one inside, only when there is a worker to take.
LockHasWorker ==
    /\ ~locked => fifo = <<>> /\ available # <<>>
    /\ holder # NoThread => locked /\ notified = {} /\ available # <<>>
    /\ \A t \in notified : /\ fifo # <<>> /\ t = Head(fifo)
                           /\ available # <<>>

\* A worker's number is the size of the pool at some time before.
WorkersExist ==
    /\ \A i \in 1 .. Len(available) : available[i] < nWorkers
    /\ \A t \in Threads : work[t] < nWorkers

\* The inductive invariant.
IInv ==
    /\ TypeOK
    /\ ThreadState
    /\ QueueIsWaiters
    /\ LockHasWorker
    /\ NoLostWakeup
    /\ WorkersExist
    /\ WorkersDisjoint
-----------------------------------------------------------------------------
(* One lemma for each action: it preserves the inductive invariant.        *)

\* The pool starts with the lock closed and nothing behind it.
LEMMA InitInvariant == Init => IInv
  BY LockPoolAssumption
  DEF Init, IInv, TypeOK, ThreadState, QueueIsWaiters, LockHasWorker,
      NoLostWakeup, WorkersExist, WorkersDisjoint, Workers, NoWorker

\* lock() on an open lock.
LEMMA LockOpenInvariant ==
  ASSUME IInv, NEW t \in Threads, LockOpen(t)
  PROVE  IInv'
  <1> USE LockPoolAssumption DEF LockOpen, IInv
  <1>1. TypeOK'
    BY DEF TypeOK
  <1>2. ThreadState'
    BY DEF ThreadState, TypeOK
  <1>3. QueueIsWaiters'
    BY DEF QueueIsWaiters, TypeOK
  <1>4. LockHasWorker'
    BY DEF LockHasWorker, TypeOK
  <1>5. NoLostWakeup'
    BY DEF NoLostWakeup, TypeOK
  <1>6. WorkersExist' /\ WorkersDisjoint'
    BY DEF WorkersExist, WorkersDisjoint
  <1>7. QED
    BY <1>1, <1>2, <1>3, <1>4, <1>5, <1>6

\* lock() on a closed lock: a new waiter at the end of the queue.
LEMMA LockWaitInvariant ==
  ASSUME IInv, NEW t \in Threads, LockWait(t)
  PROVE  IInv'
  <1> USE LockPoolAssumption DEF LockWait, IInv
  <1>1. TypeOK'
    BY DEF TypeOK
  <1>2. ThreadState'
    BY DEF ThreadState, TypeOK
  <1>3. QueueIsWaiters'
    BY DEF QueueIsWaiters, TypeOK
  <1>4. LockHasWorker'
    BY DEF LockHasWorker, TypeOK
  <1>5. NoLostWakeup'
    BY DEF NoLostWakeup, TypeOK
  <1>6. WorkersExist' /\ WorkersDisjoint'
    BY DEF WorkersExist, WorkersDisjoint
  <1>7. QED
    BY <1>1, <1>2, <1>3, <1>4, <1>5, <1>6

\* A notified waiter resumes: it is the head of the queue, so the condition
\* variable it pops is its own.
LEMMA WakeInvariant ==
  ASSUME IInv, ~SpuriousWakeups, NEW t \in Threads, Wake(t)
  PROVE  IInv'
  <1> USE LockPoolAssumption DEF Wake, IInv
  <1>1. fifo # <<>> /\ t = Head(fifo) /\ available # <<>> /\ fifo' = Tail(fifo)
    BY DEF LockHasWorker, TypeOK
  <1>2. TypeOK'
    BY <1>1 DEF TypeOK
  <1>3. ThreadState'
    BY DEF ThreadState, TypeOK
  <1>4. QueueIsWaiters'
    <2>1. /\ Len(fifo') = Len(fifo) - 1
          /\ \A i \in 1 .. Len(fifo') : fifo'[i] = fifo[i + 1]
          /\ fifo[1] = t
      BY <1>1 DEF TypeOK
    <2>2. \A i, j \in 1 .. Len(fifo') : fifo'[i] = fifo'[j] => i = j
      BY <2>1 DEF QueueIsWaiters, TypeOK
    <2>3. ASSUME NEW s \in Threads
          PROVE  pc'[s] = "waiting" <=> \E i \in 1 .. Len(fifo') : fifo'[i] = s
      <3>1. CASE s = t
        BY <2>1, <3>1 DEF QueueIsWaiters, TypeOK
      <3>2. CASE s # t
        <4>1. pc'[s] = pc[s]
          BY <3>2 DEF TypeOK
        <4>2. ASSUME NEW i \in 1 .. Len(fifo), fifo[i] = s
              PROVE  i - 1 \in 1 .. Len(fifo') /\ fifo'[i - 1] = s
          BY <2>1, <3>2, <4>2 DEF TypeOK
        <4>3. ASSUME NEW i \in 1 .. Len(fifo'), fifo'[i] = s
              PROVE  i + 1 \in 1 .. Len(fifo) /\ fifo[i + 1] = s
          BY <2>1, <4>3 DEF TypeOK
        <4>4. (\E i \in 1 .. Len(fifo) : fifo[i] = s)
                <=> \E i \in 1 .. Len(fifo') : fifo'[i] = s
          BY <4>2, <4>3
        <4>5. pc[s] = "waiting" <=> \E i \in 1 .. Len(fifo) : fifo[i] = s
          BY DEF QueueIsWaiters
        <4>6. QED
          BY <4>1, <4>4, <4>5
      <3>3. QED
        BY <3>1, <3>2
    <2>4. QED
      BY <2>2, <2>3 DEF QueueIsWaiters
  <1>5. LockHasWorker'
    BY <1>1 DEF LockHasWorker, TypeOK
  <1>6. NoLostWakeup'
    BY DEF NoLostWakeup, TypeOK
  <1>7. WorkersExist' /\ WorkersDisjoint'
    BY DEF WorkersExist, WorkersDisjoint
  <1>8. QED
    BY <1>2, <1>3, <1>4, <1>5, <1>6, <1>7

\* What unlock() does to the part of the state that says who may go next.
LEMMA UnlockPasses ==
  ASSUME TypeOK, Unlock
  PROVE  /\ fifo = <<>> => ~locked' /\ notified' = notified
         /\ fifo # <<>> => /\ locked' = locked
                           /\ notified' = notified \cup {Head(fifo)}
                           /\ Head(fifo) \in Threads
         /\ locked' \in BOOLEAN
         /\ notified' \in SUBSET Threads
  <1>1. CASE fifo = <<>>
    BY <1>1 DEF Unlock, TypeOK
  <1>2. CASE fifo # <<>>
    <2>1. Head(fifo) \in Threads
      BY <1>2 DEF TypeOK
    <2>2. locked' = locked /\ notified' = notified \cup {Head(fifo)}
      BY <1>2 DEF Unlock
    <2>3. QED
      BY <1>2, <2>1, <2>2 DEF TypeOK
  <1>3. QED
    BY <1>1, <1>2

\* front() and pop_front(), and the lock passed on when a worker is left.
LEMMA TakeWorkerInvariant ==
  ASSUME IInv, NEW t \in Threads, TakeWorker(t)
  PROVE  IInv'
  <1> USE LockPoolAssumption DEF IInv
  <1>1. /\ pc[t] = "inside"
        /\ holder = t /\ holder # NoThread /\ holder' = NoThread
        /\ locked /\ notified = {}
        /\ fifo' = fifo /\ nWorkers' = nWorkers
        /\ pc' = [pc EXCEPT ![t] = "holding"]
        /\ work' = [work EXCEPT ![t] = Head(available)]
        /\ available' = Tail(available)
        /\ available # <<>> /\ Head(available) \in Workers
    BY DEF TakeWorker, ThreadState, LockHasWorker, TypeOK
  <1>2. \/ available' = <<>> /\ locked' = locked /\ notified' = notified
        \/ available' # <<>> /\ Unlock
    BY DEF TakeWorker
  <1>3. /\ Len(available') = Len(available) - 1
        /\ \A i \in 1 .. Len(available') : available'[i] = available[i + 1]
        /\ Head(available) = available[1]
    BY <1>1 DEF TypeOK
  <1>4. TypeOK'
    <2>1. locked' \in BOOLEAN /\ notified' \in SUBSET Threads
      BY <1>2, UnlockPasses DEF TypeOK
    <2>2. QED
      BY <1>1, <2>1 DEF TypeOK
  <1>5. ThreadState'
    <2>1. Head(available) # NoWorker
      BY <1>1 DEF Workers, NoWorker
    <2>2. ASSUME NEW s \in Threads
          PROVE  /\ pc'[s] = "inside" <=> holder' = s
                 /\ pc'[s] = "holding" <=> work'[s] # NoWorker
      <3>1. CASE s = t
        BY <1>1, <2>1, <3>1 DEF TypeOK
      <3>2. CASE s # t
        BY <1>1, <3>2 DEF ThreadState, TypeOK
      <3>3. QED
        BY <3>1, <3>2
    <2>3. QED
      BY <2>2 DEF ThreadState
  <1>6. QueueIsWaiters'
    BY <1>1 DEF QueueIsWaiters, TypeOK
  <1>7. LockHasWorker' /\ NoLostWakeup'
    BY <1>1, <1>2, UnlockPasses DEF LockHasWorker, NoLostWakeup
  <1>8. WorkersExist'
    BY <1>1, <1>3 DEF WorkersExist, TypeOK
  <1>9. WorkersDisjoint'
    <2>1. \A r, s \in Threads :
             r # s /\ work'[r] = work'[s] => work'[r] = NoWorker
      BY <1>1, <1>3 DEF WorkersDisjoint, TypeOK
    <2>2. ASSUME NEW s \in Threads, NEW i \in 1 .. Len(available')
          PROVE  available'[i] # work'[s]
      BY <1>1, <1>3 DEF WorkersDisjoint, TypeOK
    <2>3. \A i, j \in 1 .. Len(available') :
             available'[i] = available'[j] => i = j
      BY <1>1, <1>3 DEF WorkersDisjoint, TypeOK
    <2>4. QED
      BY <2>1, <2>2, <2>3 DEF WorkersDisjoint
  <1>10. QED
    BY <1>4, <1>5, <1>6, <1>7, <1>8, <1>9

\* A worker comes back to the front of m_available.
LEMMA ReleaseWorkerInvariant ==
  ASSUME IInv, NEW t \in Threads, ReleaseWorker(t)
  PROVE  IInv'
  <1> USE LockPoolAssumption DEF IInv
  <1>1. /\ pc[t] = "holding" /\ holder = NoThread /\ holder' = NoThread
        /\ fifo' = fifo /\ nWorkers' = nWorkers
        /\ pc' = [pc EXCEPT ![t] = "out"]
        /\ work' = [work EXCEPT ![t] = NoWorker]
        /\ available' = <<work[t]>> \o available
        /\ Unlock
        /\ work[t] \in Workers
    BY DEF ReleaseWorker, ThreadState, TypeOK
  <1>2. /\ available' \in Seq(Workers)
        /\ available' # <<>>
        /\ Len(available') = Len(available) + 1
        /\ available'[1] = work[t]
        /\ \A i \in 2 .. Len(available') : available'[i] = available[i - 1]
    BY <1>1 DEF TypeOK
  <1>3. TypeOK'
    BY <1>1, <1>2, UnlockPasses DEF TypeOK
  <1>4. ThreadState'
    BY <1>1 DEF ThreadState, TypeOK
  <1>5. QueueIsWaiters'
    BY <1>1 DEF QueueIsWaiters, TypeOK
  <1>6. LockHasWorker' /\ NoLostWakeup'
    BY <1>1, <1>2, UnlockPasses DEF LockHasWorker, NoLostWakeup
  <1>7. WorkersExist'
    BY <1>1, <1>2 DEF WorkersExist, TypeOK, NoWorker
  <1>8. WorkersDisjoint'
    <2>1. \A r, s \in Threads :
             r # s /\ work'[r] = work'[s] => work'[r] = NoWorker
      BY <1>1 DEF WorkersDisjoint, TypeOK
    <2>2. ASSUME NEW s \in Threads, NEW i \in 1 .. Len(available')
          PROVE  available'[i] # work'[s]
      <3>1. available'[i] \in Workers
        BY <1>2
      <3>2. CASE s = t
        BY <1>1, <3>1, <3>2 DEF TypeOK, Workers, NoWorker
      <3>3. CASE s # t
        BY <1>1, <1>2, <3>1, <3>3 DEF WorkersDisjoint, TypeOK, Workers, NoWorker
      <3>4. QED
        BY <3>2, <3>3
    <2>3. \A i, j \in 1 .. Len(available') :
             available'[i] = available'[j] => i = j
      BY <1>1, <1>2 DEF WorkersDisjoint, TypeOK
    <2>4. QED
      BY <2>1, <2>2, <2>3 DEF WorkersDisjoint
  <1>9. QED
    BY <1>3, <1>4, <1>5, <1>6, <1>7, <1>8

\* The pool grows: the new workers are numbered from its old size.
LEMMA AddWorkersInvariant ==
  ASSUME IInv, NEW n \in 1 .. MaxWorkers, AddWorkers(n)
  PROVE  IInv'
  <1> USE LockPoolAssumption DEF IInv
  <1> DEFINE new == [i \in 1 .. n |-> nWorkers + i - 1]
  <1>1. /\ holder = NoThread /\ holder' = NoThread
        /\ fifo' = fifo /\ nWorkers' = nWorkers + n
        /\ nWorkers + n <= MaxWorkers
        /\ pc' = pc /\ work' = work
        /\ available' = available \o new
        /\ Unlock
    BY DEF AddWorkers
  <1>2. new \in Seq(Workers) /\ Len(new) = n
    BY <1>1 DEF TypeOK, Workers
  <1>3. \A i \in 1 .. n : new[i] = nWorkers + i - 1
    OBVIOUS
  <1> HIDE DEF new
  <1>4. /\ available' \in Seq(Workers)
        /\ available' # <<>>
        /\ Len(available) \in Nat
        /\ Len(available') = Len(available) + n
        /\ \A i \in 1 .. Len(available) : available'[i] = available[i]
        /\ \A i \in Len(available) + 1 .. Len(available') :
              available'[i] = new[i - Len(available)]
    <2>1. available \in Seq(Workers) /\ n \in Nat \ {0}
      BY DEF TypeOK
    <2>2. /\ available' \in Seq(Workers)
          /\ Len(available) \in Nat
          /\ Len(available') = Len(available) + n
      <3>1. /\ available \o new \in Seq(Workers)
            /\ Len(available \o new) = Len(available) + Len(new)
        BY <1>2, <2>1, ConcatProperties
      <3>2. Len(available) \in Nat
        BY <2>1
      <3>3. QED
        BY <1>1, <1>2, <3>1, <3>2
    <2>3. \A i \in 1 .. Len(available') :
             available'[i] = IF i <= Len(available)
                               THEN available[i] ELSE new[i - Len(available)]
      BY <1>1, <1>2, <2>1
    <2>4. QED
      BY <2>1, <2>2, <2>3
  <1>5. \A i \in Len(available) + 1 .. Len(available') :
           available'[i] = nWorkers + (i - Len(available)) - 1
    BY <1>3, <1>4 DEF TypeOK
  <1>6. TypeOK'
    BY <1>1, <1>4, UnlockPasses DEF TypeOK
  <1>7. ThreadState'
    BY <1>1 DEF ThreadState
  <1>8. QueueIsWaiters'
    BY <1>1 DEF QueueIsWaiters
  <1>9. LockHasWorker' /\ NoLostWakeup'
    BY <1>1, <1>4, UnlockPasses DEF LockHasWorker, NoLostWakeup
  <1>10. WorkersExist'
    <2>1. ASSUME NEW s \in Threads
          PROVE  work'[s] < nWorkers'
      <3>1. work'[s] = work[s] /\ work[s] \in Int /\ work[s] < nWorkers /\ nWorkers \in Nat
        BY <1>1 DEF WorkersExist, TypeOK, Workers, NoWorker
      <3>2. nWorkers' = nWorkers + n /\ n \in Nat
        BY <1>1
      <3>3. QED
        BY ONLY <3>1, <3>2
    <2>2. ASSUME NEW i \in 1 .. Len(available')
          PROVE  available'[i] < nWorkers'
      <3>1. CASE i <= Len(available)
        BY <1>1, <1>4, <3>1 DEF WorkersExist, TypeOK, Workers
      <3>2. CASE i > Len(available)
        BY <1>1, <1>4, <1>5, <3>2 DEF TypeOK
      <3>3. QED
        BY <3>1, <3>2, <1>4 DEF TypeOK
    <2>3. QED
      BY <2>1, <2>2 DEF WorkersExist
  <1>11. WorkersDisjoint'
    <2>1. ASSUME NEW s \in Threads, NEW i \in 1 .. Len(available')
          PROVE  available'[i] # work'[s]
      <3>1. CASE i <= Len(available)
        BY <1>1, <1>4, <3>1 DEF WorkersDisjoint, TypeOK
      <3>2. CASE i > Len(available)
        BY <1>1, <1>4, <1>5, <3>2 DEF WorkersExist, TypeOK, Workers, NoWorker
      <3>3. QED
        BY <3>1, <3>2, <1>4 DEF TypeOK
    <2>2. ASSUME NEW i \in 1 .. Len(available'), NEW j \in 1 .. Len(available'),
                 available'[i] = available'[j], i < j
          PROVE  FALSE
      <3>1. CASE j <= Len(available)
        BY <1>4, <2>2, <3>1 DEF WorkersDisjoint, TypeOK
      <3>2. CASE i <= Len(available) /\ j > Len(available)
        <4>1. i \in 1 .. Len(available)
          BY <1>4, <3>2
        <4>2. available[i] \in Workers /\ available[i] < nWorkers
          BY <4>1 DEF WorkersExist, TypeOK
        <4>3. j - Len(available) >= 1 /\ available'[j] >= nWorkers
          BY <1>4, <1>5, <3>2 DEF TypeOK
        <4>4. available[i] = available'[j] /\ nWorkers \in Nat
          BY <1>4, <2>2, <4>1 DEF TypeOK
        <4>5. available'[j] < nWorkers
          BY <4>2, <4>4
        <4>6. available'[j] \in Nat
          BY <4>2, <4>4 DEF Workers
        <4>7. QED
          BY <4>3, <4>4, <4>5, <4>6
      <3>3. CASE i > Len(available)
        <4>1. /\ available'[i] = nWorkers + (i - Len(available)) - 1
              /\ available'[j] = nWorkers + (j - Len(available)) - 1
          BY <1>4, <1>5, <2>2, <3>3
        <4>2. /\ i \in Nat /\ j \in Nat /\ i < j
              /\ nWorkers \in Nat /\ Len(available) \in Nat
          BY <1>4, <2>2 DEF TypeOK
        <4>3. nWorkers + (i - Len(available)) - 1 = nWorkers + (j - Len(available)) - 1
          BY <2>2, <4>1
        <4>4. QED
          BY <4>2, <4>3
      <3>4. QED
        BY <3>1, <3>2, <3>3, <1>4, <2>2 DEF TypeOK
    <2>3. \A r, s \in Threads :
             r # s /\ work'[r] = work'[s] => work'[r] = NoWorker
      BY <1>1 DEF WorkersDisjoint
    <2>4. QED
      BY <2>1, <2>2, <2>3, <1>4 DEF WorkersDisjoint, TypeOK
  <1>12. QED
    BY <1>6, <1>7, <1>8, <1>9, <1>10, <1>11

\* Every step preserves the inductive invariant.
LEMMA StepInvariant ==
  ASSUME ~SpuriousWakeups
  PROVE  IInv /\ [Next]_vars => IInv'
  <1> SUFFICES ASSUME IInv, [Next]_vars
               PROVE  IInv'
    OBVIOUS
  <1>1. ASSUME NEW t \in Threads, Acquire(t)
        PROVE  IInv'
    BY <1>1, LockOpenInvariant, LockWaitInvariant, WakeInvariant,
       TakeWorkerInvariant DEF Acquire
  <1>2. ASSUME NEW t \in Threads, ReleaseWorker(t)
        PROVE  IInv'
    BY <1>2, ReleaseWorkerInvariant
  <1>3. ASSUME NEW n \in 1 .. MaxWorkers, AddWorkers(n)
        PROVE  IInv'
    BY <1>3, AddWorkersInvariant
  <1>4. CASE UNCHANGED vars
    BY <1>4 DEF vars, IInv, TypeOK, ThreadState, QueueIsWaiters, LockHasWorker,
                NoLostWakeup, WorkersExist, WorkersDisjoint
  <1>5. QED
    BY <1>1, <1>2, <1>3, <1>4 DEF Next

-----------------------------------------------------------------------------
(* The theorems.                                                           *)

\* The inductive invariant holds in every state that LockPool reaches.
THEOREM Invariant ==
  ASSUME ~SpuriousWakeups
  PROVE  Spec => []IInv
  <1>1. Init => IInv
    BY InitInvariant
  <1>2. IInv /\ [Next]_vars => IInv'
    BY StepInvariant
  <1>3. QED
    BY <1>1, <1>2, PTL DEF Spec

\* LockPool's variables keep their types: in particular m_available only
\* ever holds indices of m_thread_workers.
THEOREM TypeCorrect ==
  ASSUME ~SpuriousWakeups
  PROVE  Spec => []TypeOK
  <1>1. IInv => TypeOK
    BY DEF IInv
  <1>2. QED
    BY <1>1, Invariant, PTL

\* acquireWorker never takes from an empty m_available.
THEOREM NoEmptyPopTheorem ==
  ASSUME ~SpuriousWakeups
  PROVE  Spec => []NoEmptyPop
  <1>1. IInv => NoEmptyPop
    BY LockPoolAssumption
    DEF IInv, NoEmptyPop, ThreadState, LockHasWorker
  <1>2. QED
    BY <1>1, Invariant, PTL

\* No worker, and so no Client of the pool, is ever with two threads.
THEOREM MutualExclusion ==
  ASSUME ~SpuriousWakeups
  PROVE  Spec => []WorkersDisjoint
  <1>1. IInv => WorkersDisjoint
    BY DEF IInv
  <1>2. QED
    BY <1>1, Invariant, PTL

\* No thread sleeps unnoticed beside an available worker.
THEOREM NoLostWakeupTheorem ==
  ASSUME ~SpuriousWakeups
  PROVE  Spec => []NoLostWakeup
  <1>1. IInv => NoLostWakeup
    BY DEF IInv
  <1>2. QED
    BY <1>1, Invariant, PTL

\* The condition variables in m_fifo_locks are those of the threads that
\* wait, each once: none of them has left the stack it is on.
THEOREM QueueTheorem ==
  ASSUME ~SpuriousWakeups
  PROVE  Spec => []QueueIsWaiters
  <1>1. IInv => QueueIsWaiters
    BY DEF IInv
  <1>2. QED
    BY <1>1, Invariant, PTL

-----------------------------------------------------------------------------
(* LockPool implements FairPool: whatever the threads do, workers go to    *)
(* them in the order in which they asked.  The thread that has the mutex   *)
(* in acquireWorker stands at the head of the abstract queue.              *)

\* With nobody inside acquireWorker, the abstract queue is m_fifo_locks.
LEMMA QueueOutside ==
  ASSUME TypeOK, holder = NoThread
  PROVE  Queue = fifo
  BY ConcatEmptySeq DEF Queue, TypeOK

\* With a thread inside, that thread comes first.
LEMMA QueueInside ==
  ASSUME TypeOK, holder # NoThread
  PROVE  Queue # <<>> /\ Head(Queue) = holder /\ Tail(Queue) = fifo
  <1>1. <<holder>> \in Seq(Threads) /\ fifo \in Seq(Threads) /\ Len(<<holder>>) = 1
    BY DEF TypeOK
  <1>2. Queue = <<holder>> \o fifo
    BY DEF Queue
  <1>3. /\ Queue \in Seq(Threads)
        /\ Len(Queue) = Len(fifo) + 1
        /\ Queue[1] = holder
        /\ \A i \in 1 .. Len(fifo) : Queue[i + 1] = fifo[i]
    <2>1. Len(fifo) \in Nat
      BY <1>1
    <2>2. \A i \in 1 .. 1 + Len(fifo) :
             Queue[i] = IF i <= 1 THEN <<holder>>[i] ELSE fifo[i - 1]
      BY <1>1, <1>2, ConcatProperties
    <2>3. ASSUME NEW i \in 1 .. Len(fifo)
          PROVE  Queue[i + 1] = fifo[i]
      <3>1. i + 1 \in 1 .. 1 + Len(fifo) /\ ~(i + 1 <= 1) /\ (i + 1) - 1 = i
        BY <2>1
      <3>2. QED
        BY <2>2, <3>1
    <2>4. Queue \in Seq(Threads) /\ Len(Queue) = Len(fifo) + 1
      BY <1>1, <1>2, <2>1, ConcatProperties
    <2>5. Queue[1] = holder
      BY <2>1, <2>2
    <2>6. QED
      BY <2>3, <2>4, <2>5
  <1>4. Queue # <<>>
    BY <1>1, <1>3
  <1>5. Head(Queue) = holder
    BY <1>3, <1>4
  <1>6. Tail(Queue) = fifo
    <2>1. /\ Tail(Queue) \in Seq(Threads)
          /\ Len(Tail(Queue)) = Len(fifo)
          /\ \A i \in 1 .. Len(fifo) : Tail(Queue)[i] = fifo[i]
      BY <1>1, <1>3, <1>4, HeadTailProperties
    <2>2. QED
      BY <1>1, <2>1, SeqEqual
  <1>7. QED
    BY <1>4, <1>5, <1>6

\* A sequence is its head before its tail.
LEMMA HeadBeforeTail ==
  ASSUME NEW S, NEW s \in Seq(S), s # <<>>
  PROVE  s = <<Head(s)>> \o Tail(s)
  <1>1. /\ SubSeq(s, 1, Len(s)) = <<s[1]>> \o SubSeq(s, 2, Len(s))
        /\ SubSeq(s, 1, Len(s)) = s
        /\ SubSeq(s, 2, Len(s)) = Tail(s)
    <2>1. Len(s) \in Nat \ {0}
      BY EmptySeq
    <2>2. 1 \in 1 .. Len(s) /\ Len(s) \in 1 .. Len(s) /\ 1 + 1 = 2
      BY <2>1
    <2>3. QED
      BY <2>2, SubSeqRecursiveFirst, SubSeqFull, TailIsSubSeq
  <1>2. Head(s) = s[1]
    OBVIOUS
  <1>3. QED
    BY <1>1, <1>2

-----------------------------------------------------------------------------
(* What each action does to the abstract state.                            *)

\* A thread that finds the lock open has asked, and is first.
LEMMA LockOpenAsks ==
  ASSUME IInv, IInv', NEW t \in Threads, LockOpen(t)
  PROVE  Abstract!Ask(t)
  <1>1. holder = NoThread /\ fifo = <<>> /\ fifo' = fifo /\ holder' = t /\ t # NoThread
    BY LockPoolAssumption DEF LockOpen, IInv, LockHasWorker
  <1>2. Queue = <<>>
    BY <1>1, QueueOutside DEF IInv
  <1>3. Queue' = <<t>>
    <2>1. Queue' = <<t>> \o <<>>
      BY <1>1 DEF Queue
    <2>2. <<t>> \in Seq(Threads)
      OBVIOUS
    <2>3. QED
      BY <2>1, <2>2, ConcatEmptySeq
  <1>4. Queue' = Append(Queue, t)
    BY <1>2, <1>3
  <1>5. work[t] = NoWorker
    BY DEF LockOpen, IInv, ThreadState
  <1>6. Free' = Free /\ work' = work
    BY DEF LockOpen, Free
  <1>7. \A i \in 1 .. Len(Queue) : Queue[i] # t
    BY <1>2
  <1>8. QED
    BY <1>4, <1>5, <1>6, <1>7 DEF Abstract!Ask, NoWorker, Abstract!vars

\* A thread that starts to wait has asked, and is last.
LEMMA LockWaitAsks ==
  ASSUME IInv, IInv', NEW t \in Threads, LockWait(t)
  PROVE  Abstract!Ask(t)
  <1>1. holder = NoThread /\ holder' = NoThread /\ fifo' = Append(fifo, t)
    BY DEF LockWait
  <1>2. Queue = fifo
    BY <1>1, QueueOutside DEF IInv
  <1>3. Queue' = fifo'
    <2>1. Queue' = <<>> \o fifo'
      BY <1>1 DEF Queue
    <2>2. fifo' \in Seq(Threads)
      BY DEF IInv, TypeOK
    <2>3. QED
      BY <2>1, <2>2, ConcatEmptySeq
  <1>4. work[t] = NoWorker
    BY DEF LockWait, IInv, ThreadState
  <1>5. Free' = Free /\ work' = work
    BY DEF LockWait, Free
  <1>6. \A i \in 1 .. Len(Queue) : Queue[i] # t
    BY <1>2 DEF LockWait, IInv, QueueIsWaiters
  <1>7. QED
    BY <1>1, <1>2, <1>3, <1>4, <1>5, <1>6 DEF Abstract!Ask

\* The oldest waiter only moves from m_fifo_locks to inside the lock.
LEMMA WakeStutters ==
  ASSUME IInv, ~SpuriousWakeups, NEW t \in Threads, Wake(t)
  PROVE  UNCHANGED <<Queue, Free, work>>
  <1>1. /\ holder = NoThread /\ holder' = t /\ t # NoThread
        /\ fifo # <<>> /\ t = Head(fifo) /\ fifo' = Tail(fifo)
        /\ fifo \in Seq(Threads)
    BY LockPoolAssumption DEF Wake, IInv, LockHasWorker, TypeOK
  <1>2. Queue = fifo
    BY <1>1, QueueOutside DEF IInv
  <1>3. Queue' = <<Head(fifo)>> \o Tail(fifo)
    BY <1>1 DEF Queue
  <1>4. Queue' = Queue
    BY <1>1, <1>2, <1>3, HeadBeforeTail
  <1>5. QED
    BY <1>4 DEF Wake, Free

\* The thread inside the lock is the first, and is granted its worker.
LEMMA TakeWorkerGrants ==
  ASSUME IInv, IInv', NEW t \in Threads, TakeWorker(t)
  PROVE  \E w \in Free : Abstract!Grant(w)
  <1>1. /\ holder = t /\ holder # NoThread /\ holder' = NoThread
        /\ fifo' = fifo /\ fifo \in Seq(Threads)
        /\ available # <<>> /\ available \in Seq(Workers)
        /\ available' = Tail(available)
        /\ work' = [work EXCEPT ![t] = Head(available)]
    BY LockPoolAssumption DEF TakeWorker, IInv, ThreadState, TypeOK
  <1>2. Queue # <<>> /\ Head(Queue) = t /\ Tail(Queue) = fifo
    BY <1>1, QueueInside DEF IInv
  <1>3. Queue' = fifo
    BY <1>1, ConcatEmptySeq DEF Queue
  <1>4. /\ Len(available) \in Nat \ {0}
        /\ Head(available) = available[1]
        /\ Len(available') = Len(available) - 1
        /\ \A i \in 1 .. Len(available') : available'[i] = available[i + 1]
    BY <1>1, HeadTailProperties, EmptySeq
  <1>5. Head(available) \in Free
    BY <1>4 DEF Free
  <1>6. Free' = Free \ {Head(available)}
    <2>1. ASSUME NEW w \in Free'
          PROVE  w \in Free /\ w # Head(available)
      <3>1. PICK i \in 1 .. Len(available') : w = available'[i]
        BY DEF Free
      <3>2. i + 1 \in 1 .. Len(available) /\ w = available[i + 1] /\ i + 1 # 1
        BY <1>4, <3>1
      <3>3. 1 \in 1 .. Len(available)
        BY <1>4
      <3>4. QED
        BY <1>4, <3>2, <3>3 DEF Free, IInv, WorkersDisjoint
    <2>2. ASSUME NEW w \in Free, w # Head(available)
          PROVE  w \in Free'
      <3>1. PICK i \in 1 .. Len(available) : w = available[i]
        BY DEF Free
      <3>2. i # 1
        BY <1>4, <2>2, <3>1
      <3>3. i - 1 \in 1 .. Len(available') /\ w = available'[i - 1]
        BY <1>4, <3>1, <3>2
      <3>4. QED
        BY <3>3 DEF Free
    <2>3. QED
      BY <2>1, <2>2
  <1>7. QED
    BY <1>1, <1>2, <1>3, <1>5, <1>6 DEF Abstract!Grant

\* releaseWorker gives back a worker that was not free.
LEMMA ReleaseWorkerGivesBack ==
  ASSUME IInv, IInv', NEW t \in Threads, ReleaseWorker(t)
  PROVE  Abstract!GiveBack(t)
  <1>1. /\ holder = NoThread /\ holder' = holder /\ fifo' = fifo
        /\ work[t] # NoWorker /\ work[t] \in Workers
        /\ available' = <<work[t]>> \o available
        /\ available \in Seq(Workers)
        /\ work' = [work EXCEPT ![t] = NoWorker]
    BY DEF ReleaseWorker, IInv, ThreadState, TypeOK
  <1>2. Queue' = Queue
    BY <1>1 DEF Queue
  <1>3. /\ Len(available) \in Nat
        /\ Len(available') = Len(available) + 1
        /\ available'[1] = work[t]
        /\ \A i \in 2 .. Len(available') : available'[i] = available[i - 1]
    BY <1>1 DEF IInv, TypeOK
  <1>4. Free' = Free \cup {work[t]}
    <2>1. ASSUME NEW w \in Free'
          PROVE  w \in Free \cup {work[t]}
      <3>1. PICK i \in 1 .. Len(available') : w = available'[i]
        BY DEF Free
      <3>2. CASE i = 1
        BY <1>3, <3>1, <3>2
      <3>3. CASE i # 1
        <4>1. i - 1 \in 1 .. Len(available) /\ w = available[i - 1]
          BY <1>3, <3>1, <3>3
        <4>2. QED
          BY <4>1 DEF Free
      <3>4. QED
        BY <3>2, <3>3
    <2>2. ASSUME NEW w \in Free
          PROVE  w \in Free'
      <3>1. PICK i \in 1 .. Len(available) : w = available[i]
        BY DEF Free
      <3>2. i + 1 \in 2 .. Len(available') /\ (i + 1) - 1 = i
        BY <1>3
      <3>3. i + 1 \in 1 .. Len(available') /\ w = available'[i + 1]
        BY <1>3, <3>1, <3>2
      <3>4. QED
        BY <3>3 DEF Free
    <2>3. work[t] \in Free'
      <3>1. 1 \in 1 .. Len(available')
        BY <1>3
      <3>2. QED
        BY <1>3, <3>1 DEF Free
    <2>4. QED
      BY <2>1, <2>2, <2>3
  <1>5. QED
    BY <1>1, <1>2, <1>4 DEF Abstract!GiveBack, NoWorker

\* The workers addWorkers makes are free, and new.
LEMMA AddWorkersGrows ==
  ASSUME IInv, IInv', NEW n \in 1 .. MaxWorkers, AddWorkers(n)
  PROVE  Abstract!Grow
  <1> DEFINE new == [i \in 1 .. n |-> nWorkers + i - 1]
  <1>1. /\ available \in Seq(Workers) /\ new \in Seq(Workers)
        /\ Len(new) = n /\ n \in Nat \ {0}
        /\ available' = available \o new
        /\ holder' = holder /\ fifo' = fifo /\ work' = work
        /\ nWorkers \in Nat
    BY LockPoolAssumption DEF AddWorkers, IInv, TypeOK, Workers
  <1>2. Queue' = Queue
    BY <1>1 DEF Queue
  <1>3. new[1] = nWorkers
    BY <1>1
  <1> HIDE DEF new
  <1>4. /\ Len(available) \in Nat
        /\ Len(available') = Len(available) + n
        /\ \A i \in 1 .. Len(available) + n :
             available'[i] = IF i <= Len(available)
                               THEN available[i] ELSE new[i - Len(available)]
    <2>1. /\ available \in Seq(Workers) /\ new \in Seq(Workers)
          /\ Len(available) \in Nat
          /\ Len(new) = n /\ available' = available \o new
      BY <1>1
    <2>2. /\ Len(available \o new) = Len(available) + Len(new)
          /\ \A i \in 1 .. Len(available) + Len(new) :
               (available \o new)[i] = IF i <= Len(available)
                 THEN available[i] ELSE new[i - Len(available)]
      BY <2>1, ConcatProperties
    <2>3. QED
      BY <2>1, <2>2
  <1>5. Free \subseteq Free'
    BY <1>1, <1>4 DEF Free
  <1>6. nWorkers \in Free'
    <2>1. /\ Len(available) + 1 \in 1 .. Len(available')
          /\ available'[Len(available) + 1] = new[1]
      BY <1>1, <1>4
    <2>2. QED
      BY <1>3, <2>1 DEF Free
  <1>7. nWorkers \notin Free
    <2>1. ASSUME NEW i \in 1 .. Len(available)
          PROVE  available[i] # nWorkers
      <3>1. available[i] \in Workers /\ available[i] < nWorkers
        BY <1>1 DEF IInv, WorkersExist
      <3>2. QED
        BY <1>1, <3>1 DEF Workers
    <2>2. QED
      BY <2>1 DEF Free
  <1>8. NoWorker \notin Free'
    <2>1. available' \in Seq(Workers)
      BY DEF IInv, TypeOK
    <2>2. ASSUME NEW i \in 1 .. Len(available')
          PROVE  available'[i] # NoWorker
      <3>1. available'[i] \in Workers
        BY <2>1, ElementOfSeq
      <3>2. QED
        BY <3>1 DEF Workers, NoWorker
    <2>3. QED
      BY <2>2 DEF Free
  <1>9. \A t \in Threads : work[t] \notin Free'
    BY <1>1 DEF Free, IInv, WorkersDisjoint
  <1>10. QED
    BY <1>1, <1>2, <1>5, <1>6, <1>7, <1>8, <1>9 DEF Abstract!Grow, NoWorker

-----------------------------------------------------------------------------
\* LockPool's first state is FairPool's.
LEMMA RefinesInit ==
  Init => Abstract!Init
  <1> SUFFICES ASSUME Init
               PROVE  Abstract!Init
    OBVIOUS
  <1>1. Queue = <<>>
    <2>1. Queue = <<>> \o <<>>
      BY DEF Init, Queue
    <2>2. <<>> \in Seq(Threads)
      OBVIOUS
    <2>3. QED
      BY <2>1, <2>2, ConcatEmptySeq
  <1>2. Free = {}
    BY DEF Init, Free
  <1>3. QED
    BY <1>1, <1>2 DEF Init, Abstract!Init, NoWorker

\* Every step of LockPool is a step of FairPool or leaves its state alone.
LEMMA RefinesStep ==
  ASSUME ~SpuriousWakeups
  PROVE  IInv /\ IInv' /\ [Next]_vars => [Abstract!Next]_(Abstract!vars)
  <1> SUFFICES ASSUME IInv, IInv', [Next]_vars
               PROVE  Abstract!Next \/ UNCHANGED <<Queue, Free, work>>
    BY DEF Abstract!vars
  <1>1. ASSUME NEW t \in Threads, Acquire(t)
        PROVE  Abstract!Next \/ UNCHANGED <<Queue, Free, work>>
    BY <1>1, LockOpenAsks, LockWaitAsks, WakeStutters, TakeWorkerGrants
    DEF Acquire, Abstract!Next
  <1>2. ASSUME NEW t \in Threads, ReleaseWorker(t)
        PROVE  Abstract!Next
    BY <1>2, ReleaseWorkerGivesBack DEF Abstract!Next
  <1>3. ASSUME NEW n \in 1 .. MaxWorkers, AddWorkers(n)
        PROVE  Abstract!Next
    BY <1>3, AddWorkersGrows DEF Abstract!Next
  <1>4. CASE UNCHANGED vars
    BY <1>4 DEF vars, Queue, Free
  <1>5. QED
    BY <1>1, <1>2, <1>3, <1>4 DEF Next

\* LockPool hands out its workers in the order of the requests.
THEOREM Refinement ==
  ASSUME ~SpuriousWakeups
  PROVE  Spec => ServedInOrder
  <1>1. Init => Abstract!Init
    BY RefinesInit
  <1>2. IInv /\ IInv' /\ [Next]_vars => [Abstract!Next]_(Abstract!vars)
    BY RefinesStep
  <1>3. Spec => []IInv
    BY Invariant
  <1>4. QED
    BY <1>1, <1>2, <1>3, PTL DEF Spec, ServedInOrder, Abstract!Spec
=============================================================================
