------------------------------ MODULE FairPool ------------------------------
(***************************************************************************)
(* What LockPool promises its users, without the locks: a pool of workers  *)
(* handed out in the order in which threads ask for one.                   *)
(***************************************************************************)
EXTENDS Integers, Sequences

CONSTANTS Threads, NoWorker

VARIABLES
    queue,    \* the threads that have asked and have no worker yet
    free,     \* the workers nobody has
    owned     \* the worker each thread has, or NoWorker

vars == <<queue, free, owned>>

Init ==
    /\ queue = <<>>
    /\ free = {}
    /\ owned = [t \in Threads |-> NoWorker]

Ask(t) ==
    /\ owned[t] = NoWorker
    /\ \A i \in 1 .. Len(queue) : queue[i] # t
    /\ queue' = Append(queue, t)
    /\ UNCHANGED <<free, owned>>

\* Only the thread that has waited longest is served.
Grant(w) ==
    /\ queue # <<>>
    /\ w \in free
    /\ owned' = [owned EXCEPT ![Head(queue)] = w]
    /\ queue' = Tail(queue)
    /\ free' = free \ {w}

GiveBack(t) ==
    /\ owned[t] # NoWorker
    /\ free' = free \cup {owned[t]}
    /\ owned' = [owned EXCEPT ![t] = NoWorker]
    /\ UNCHANGED queue

\* New workers are different from all that exist.
Grow ==
    /\ free \subseteq free' /\ free' # free
    /\ NoWorker \notin free'
    /\ \A t \in Threads : owned[t] \notin free'
    /\ UNCHANGED <<queue, owned>>

Next ==
    \/ \E t \in Threads : Ask(t) \/ GiveBack(t)
    \/ \E w \in free : Grant(w)
    \/ Grow

Spec == Init /\ [][Next]_vars
=============================================================================
