------------------------------- MODULE GoPool -------------------------------
(***************************************************************************)
(* The connection pool of the Go client.  Goroutines take a connection,    *)
(* use it for a command and put it back; connectionOpener opens those that *)
(* others wait for; connectionCleaner closes those that are too old; Quit  *)
(* closes everything.  A step is what a goroutine does between taking and  *)
(* leaving client.lk, with what it does next to nothing shared.  The       *)
(* closing of a connection (conn.quit) talks to servers with no lock held: *)
(* todo has what each goroutine is closing.                                *)
(***************************************************************************)
EXTENDS Integers, Sequences, FiniteSetsExt, Functions

CONSTANTS
    Callers,            \* goroutines that run commands
    Opener, Cleaner, Quitter,   \* connectionOpener, connectionCleaner, Quit
    Conns,              \* connections; one that is closed may be used again
    NoConn, Closed,     \* no connection; what a closed channel gives
    MaxOpens,           \* arguments of SetConnMaxOpen, 0 for no limit
    Lifetimes,          \* arguments of SetConnMaxLifetime, 0 for ever
    ServersValid,       \* do the ports of all servers parse?
    DiscardErrors       \* may client_quit end with an error?

ASSUME GoPoolAssumption ==
    /\ Opener # Cleaner /\ Opener # Quitter /\ Cleaner # Quitter
    /\ {Opener, Cleaner, Quitter} \cap Callers = {}
    /\ NoConn # Closed /\ {NoConn, Closed} \cap Conns = {}
    /\ IsFiniteSet(Callers) /\ IsFiniteSet(Conns)
    /\ MaxOpens \subseteq Nat /\ Lifetimes \subseteq Nat
    /\ ServersValid \in BOOLEAN /\ DiscardErrors \in BOOLEAN

Goroutines == Callers \cup {Opener, Cleaner, Quitter}

VARIABLES
    closed, numOpen, maxOpen, maxLifetime,      \* as in Client
    freeConns,      \* the idle connections
    requests,       \* callers with a channel in connRequests
    answer,         \* what is in the channel of each of them
    openerCh,       \* the number of connections asked of connectionOpener
    cleanerCh,      \* "none" for nil, "open" or "closed"
    open,           \* connections that have not been closed
    old,            \* those of them older than the lifetimes
    pc, has,        \* the step of each caller and its connection
    opener,         \* the step of connectionOpener
    quitter,        \* the step of Quit
    todo            \* the connections each goroutine is closing

limits == <<maxOpen, maxLifetime>>
poolVars == <<freeConns, requests, answer, cleanerCh>>
connVars == <<open, old>>
vars == <<closed, numOpen, limits, poolVars, openerCh, connVars, pc, has,
          opener, quitter, todo>>

Init ==
    /\ closed = FALSE /\ numOpen = 0 /\ maxOpen = 1 /\ maxLifetime = 0
    /\ freeConns = <<>> /\ requests = {} /\ openerCh = 0 /\ cleanerCh = "none"
    /\ answer = [t \in Callers |-> NoConn]
    /\ open = {} /\ old = {}
    /\ pc = [t \in Callers |-> "idle"] /\ has = [t \in Callers |-> NoConn]
    /\ opener = "idle" /\ quitter = "none"
    /\ todo = [g \in Goroutines |-> <<>>]

-----------------------------------------------------------------------------
(* What several handlers do under client.lk.                               *)

\* newConn, which fails for all connections or for none.
NewConn == CHOOSE c \in Conns : c \notin open
CanConnect == open # Conns

\* Mutant: waiting callers are served whatever the limit.
ToOpenUnlimited(n) == IF closed THEN 0 ELSE Cardinality(requests)

\* maybeOpenNewConnections when numOpen is n: how many it asks for.
ToOpen(n) ==
    IF closed THEN 0
    ELSE IF maxOpen > 0
      THEN Max({0, Min({Cardinality(requests), maxOpen - n})})
      ELSE Cardinality(requests)

\* Mutant: numOpen only counts connections that are open.
MaybeOpenUncounted(n) ==
    /\ numOpen' = n
    /\ openerCh' = openerCh + ToOpen(n)

MaybeOpen(n) ==
    /\ numOpen' = n + ToOpen(n)
    /\ openerCh' = openerCh + ToOpen(n)

\* startCleanerLocked.
Started(lifetime) ==
    IF lifetime > 0 /\ numOpen > 0 /\ cleanerCh = "none"
      THEN "open" ELSE cleanerCh

\* Mutant: connections are kept after Quit.
KeptAlways == ~(maxOpen > 0 /\ maxOpen < numOpen)

\* putConnLocked returns true.
Kept == ~closed /\ ~(maxOpen > 0 /\ maxOpen < numOpen)

\* putConnLocked: some waiting caller gets c, or nobody waits.
Put(c) ==
    IF requests # {}
      THEN \E t \in requests :
             /\ requests' = requests \ {t}
             /\ answer' = [answer EXCEPT ![t] = c]
             /\ UNCHANGED <<freeConns, cleanerCh>>
      ELSE /\ freeConns' = Append(freeConns, c)
           /\ cleanerCh' = Started(maxLifetime)
           /\ UNCHANGED <<requests, answer>>

-----------------------------------------------------------------------------
(* Client.conn.                                                            *)

Expired(c) == maxLifetime > 0 /\ c \in old

\* _conn(ctx, true) with an idle connection; conn asks again without the
\* idle ones if it has expired.
TakeFree(t) ==
    /\ pc[t] = "idle" /\ todo[t] = <<>> /\ ~closed /\ freeConns # <<>>
    /\ freeConns' = Tail(freeConns)
    /\ LET c == Head(freeConns) IN
       IF Expired(c)
         THEN /\ todo' = [todo EXCEPT ![t] = <<c>>]
              /\ pc' = [pc EXCEPT ![t] = "again"]
              /\ UNCHANGED has
         ELSE /\ has' = [has EXCEPT ![t] = c]
              /\ pc' = [pc EXCEPT ![t] = "using"]
              /\ UNCHANGED todo
    /\ UNCHANGED <<closed, numOpen, limits, requests, answer, cleanerCh,
                   openerCh, connVars, opener, quitter>>

AskNew(t) ==
    /\ todo[t] = <<>> /\ ~closed
    /\ \/ pc[t] = "again"
       \/ pc[t] = "idle" /\ freeConns = <<>>

Full == maxOpen > 0 /\ maxOpen <= numOpen

Request(t) ==
    /\ AskNew(t) /\ Full
    /\ requests' = requests \cup {t}
    /\ pc' = [pc EXCEPT ![t] = "waiting"]
    /\ UNCHANGED <<closed, numOpen, limits, freeConns, answer, cleanerCh,
                   openerCh, connVars, has, opener, quitter, todo>>

CountNew(t) ==
    /\ AskNew(t) /\ ~Full
    /\ numOpen' = numOpen + 1
    /\ pc' = [pc EXCEPT ![t] = "creating"]
    /\ UNCHANGED <<closed, limits, poolVars, openerCh, connVars, has, opener,
                   quitter, todo>>

\* newConn at the end of _conn.
Create(t) ==
    /\ pc[t] = "creating"
    /\ IF ServersValid
         THEN /\ CanConnect
              /\ open' = open \cup {NewConn}
              /\ has' = [has EXCEPT ![t] = NewConn]
              /\ pc' = [pc EXCEPT ![t] = "using"]
              /\ UNCHANGED <<numOpen, openerCh>>
         ELSE /\ MaybeOpen(numOpen - 1)
              /\ pc' = [pc EXCEPT ![t] = "idle"]
              /\ UNCHANGED <<open, has>>
    /\ UNCHANGED <<closed, limits, poolVars, old, opener, quitter, todo>>

\* The client is closed or the context done: conn returns an error.
Refuse(t) ==
    /\ pc[t] \in {"idle", "again"} /\ todo[t] = <<>>
    /\ pc' = [pc EXCEPT ![t] = "idle"]
    /\ UNCHANGED <<closed, numOpen, limits, poolVars, openerCh, connVars, has,
                   opener, quitter, todo>>

\* The channel of a waiting caller has a connection or was closed by Quit.
Receive(t) ==
    /\ pc[t] = "waiting" /\ answer[t] # NoConn
    /\ IF answer[t] = Closed
         THEN pc' = [pc EXCEPT ![t] = "idle"] /\ UNCHANGED has
         ELSE /\ has' = [has EXCEPT ![t] = answer[t]]
              /\ pc' = [pc EXCEPT ![t] = "using"]
    /\ answer' = [answer EXCEPT ![t] = NoConn]
    /\ UNCHANGED <<closed, numOpen, limits, freeConns, requests, cleanerCh,
                   openerCh, connVars, opener, quitter, todo>>

\* The context is done, whether or not the channel has something.
Cancel(t) ==
    /\ pc[t] = "waiting"
    /\ requests' = requests \ {t}
    /\ pc' = [pc EXCEPT ![t] = "cancelled"]
    /\ UNCHANGED <<closed, numOpen, limits, freeConns, answer, cleanerCh,
                   openerCh, connVars, has, opener, quitter, todo>>

-----------------------------------------------------------------------------
(* Client.putConn and conn.quit.                                           *)

\* putConn(c, err) by t, where bad is isBadConnErr(err).
PutConn(t, c, bad) ==
    IF bad \/ ~Kept
      THEN todo' = [todo EXCEPT ![t] = <<c>>] /\ UNCHANGED poolVars
      ELSE Put(c) /\ UNCHANGED todo

\* A command ends.  Some commands tell putConn their error, others keep it
\* to themselves, and a cancelled caller has none.
Return(t, bad) ==
    /\ pc[t] \in {"using", "returning"}
    /\ pc[t] = "returning" => ~bad
    /\ PutConn(t, has[t], bad)
    /\ has' = [has EXCEPT ![t] = NoConn]
    /\ pc' = [pc EXCEPT ![t] = "idle"]
    /\ UNCHANGED <<closed, numOpen, limits, openerCh, connVars, opener,
                   quitter>>

\* Mutant: a cancelled caller does not look at its channel again.
CancelledLeaves(t) ==
    /\ pc[t] = "cancelled"
    /\ answer' = [answer EXCEPT ![t] = NoConn]
    /\ pc' = [pc EXCEPT ![t] = "idle"]
    /\ UNCHANGED <<closed, numOpen, limits, freeConns, requests, cleanerCh,
                   openerCh, connVars, has, opener, quitter, todo>>

\* A cancelled caller puts back what it was given all the same.
Cancelled(t) ==
    /\ pc[t] = "cancelled"
    /\ IF answer[t] \in Conns
         THEN /\ has' = [has EXCEPT ![t] = answer[t]]
              /\ pc' = [pc EXCEPT ![t] = "returning"]
         ELSE pc' = [pc EXCEPT ![t] = "idle"] /\ UNCHANGED has
    /\ answer' = [answer EXCEPT ![t] = NoConn]
    /\ UNCHANGED <<closed, numOpen, limits, freeConns, requests, cleanerCh,
                   openerCh, connVars, opener, quitter, todo>>

\* Mutant: nobody is told that a connection may be opened now.
QuitConnSilently(g) ==
    /\ todo[g] # <<>>
    /\ todo' = [todo EXCEPT ![g] = Tail(@)]
    /\ LET c == Head(todo[g]) IN
       IF c \in open
         THEN /\ open' = open \ {c} /\ old' = old \ {c}
              /\ numOpen' = numOpen - 1
              /\ UNCHANGED openerCh
         ELSE UNCHANGED <<connVars, numOpen, openerCh>>
    /\ UNCHANGED <<closed, limits, poolVars, pc, has, opener, quitter>>

\* conn.quit.  A second quit of a connection does nothing; new ones are
\* opened only if client_quit ends well or with the connection closed.
QuitConn(g) ==
    /\ todo[g] # <<>>
    /\ todo' = [todo EXCEPT ![g] = Tail(@)]
    /\ LET c == Head(todo[g]) IN
       IF c \in open
         THEN /\ open' = open \ {c} /\ old' = old \ {c}
              /\ \/ MaybeOpen(numOpen - 1)
                 \/ /\ DiscardErrors
                    /\ numOpen' = numOpen - 1 /\ UNCHANGED openerCh
         ELSE UNCHANGED <<connVars, numOpen, openerCh>>
    /\ UNCHANGED <<closed, limits, poolVars, pc, has, opener, quitter>>

-----------------------------------------------------------------------------
(* connectionOpener.                                                       *)

\* openNewConnection reads closed without the lock, to decide what to do.
OpenerTakes ==
    /\ opener = "idle" /\ todo[Opener] = <<>> /\ openerCh > 0
    /\ openerCh' = openerCh - 1
    /\ opener' = IF closed THEN "drop" ELSE "new"
    /\ UNCHANGED <<closed, numOpen, limits, poolVars, connVars, pc, has,
                   quitter, todo>>

OpenerDrops ==
    /\ opener = "drop"
    /\ numOpen' = numOpen - 1
    /\ opener' = "idle"
    /\ UNCHANGED <<closed, limits, poolVars, openerCh, connVars, pc, has,
                   quitter, todo>>

\* Mutant: numOpen is decremented although conn.quit will do it.
OpenerOpensCountsTwice ==
    /\ opener = "new" /\ CanConnect
    /\ opener' = "idle"
    /\ open' = open \cup {NewConn}
    /\ PutConn(Opener, NewConn, FALSE)
    /\ numOpen' = IF Kept THEN numOpen ELSE numOpen - 1
    /\ UNCHANGED <<closed, limits, openerCh, old, pc, has, quitter>>

OpenerOpens ==
    /\ opener = "new"
    /\ opener' = "idle"
    /\ IF ServersValid
         THEN /\ CanConnect
              /\ open' = open \cup {NewConn}
              /\ PutConn(Opener, NewConn, FALSE)
              /\ UNCHANGED <<numOpen, openerCh>>
         ELSE /\ MaybeOpen(numOpen - 1)
              /\ UNCHANGED <<open, poolVars, todo>>
    /\ UNCHANGED <<closed, limits, old, pc, has, quitter>>

-----------------------------------------------------------------------------
(* connectionCleaner.  Its timer may fire at any time, so that its being   *)
(* woken early by SetConnMaxLifetime changes nothing.                      *)

\* The idle connections brought into another order.
Arrangements ==
    {[i \in DOMAIN freeConns |-> freeConns[p[i]]] :
       p \in Bijection(DOMAIN freeConns, DOMAIN freeConns)}

\* The sweep moves the expired connections behind the others, of which the
\* last takes the place of each, and cuts them off: n are left.  The order,
\* which no property depends on, is left open.
Clean ==
    /\ cleanerCh # "none" /\ todo[Cleaner] = <<>>
    /\ IF closed \/ numOpen = 0 \/ maxLifetime = 0
         THEN cleanerCh' = "none" /\ UNCHANGED <<freeConns, todo>>
         ELSE \E conns \in Arrangements, n \in 0 .. Len(freeConns) :
                /\ \A i \in DOMAIN conns : Expired(conns[i]) <=> i > n
                /\ freeConns' = SubSeq(conns, 1, n)
                /\ todo' = [todo EXCEPT ![Cleaner] =
                              SubSeq(conns, n + 1, Len(conns))]
                /\ UNCHANGED cleanerCh
    /\ UNCHANGED <<closed, numOpen, limits, requests, answer, openerCh,
                   connVars, pc, has, opener, quitter>>

-----------------------------------------------------------------------------
(* Quit and the setters.                                                   *)

QuitBegins ==
    /\ ~closed
    /\ closed' = TRUE
    /\ cleanerCh' = IF cleanerCh = "open" THEN "closed" ELSE cleanerCh
    /\ answer' = [t \in Callers |->
                    IF t \in requests THEN Closed ELSE answer[t]]
    /\ quitter' = "read"
    /\ UNCHANGED <<numOpen, limits, freeConns, requests, openerCh, connVars,
                   pc, has, opener, todo>>

\* The list of idle connections is read with no lock held.
QuitReads ==
    /\ quitter = "read"
    /\ todo' = [todo EXCEPT ![Quitter] = freeConns]
    /\ quitter' = "closing"
    /\ UNCHANGED <<closed, numOpen, limits, poolVars, openerCh, connVars, pc,
                   has, opener>>

QuitEnds ==
    /\ quitter = "closing" /\ todo[Quitter] = <<>>
    /\ freeConns' = <<>>
    /\ quitter' = "done"
    /\ UNCHANGED <<closed, numOpen, limits, requests, answer, cleanerCh,
                   openerCh, connVars, pc, has, opener, todo>>

SetConnMaxOpen(n) ==
    /\ maxOpen' = n
    /\ UNCHANGED <<closed, numOpen, maxLifetime, poolVars, openerCh, connVars,
                   pc, has, opener, quitter, todo>>

\* Mutant: the cleaner is left to the next putConn.
SetConnMaxLifetimeOnly(d) ==
    /\ ~closed
    /\ maxLifetime' = d
    /\ UNCHANGED <<closed, numOpen, maxOpen, poolVars, openerCh, connVars, pc,
                   has, opener, quitter, todo>>

\* Nobody is expected to call it after Quit.
SetConnMaxLifetime(d) ==
    /\ ~closed
    /\ maxLifetime' = d
    /\ cleanerCh' = Started(d)
    /\ UNCHANGED <<closed, numOpen, maxOpen, freeConns, requests, answer,
                   openerCh, connVars, pc, has, opener, quitter, todo>>

\* A connection grows old.
Age(c) ==
    /\ c \in open \ old
    /\ old' = old \cup {c}
    /\ UNCHANGED <<closed, numOpen, limits, poolVars, openerCh, open, pc, has,
                   opener, quitter, todo>>

-----------------------------------------------------------------------------
Ask(t) == TakeFree(t) \/ (pc[t] = "idle" /\ (Request(t) \/ CountNew(t)))

AskAgain(t) == pc[t] = "again" /\ (Request(t) \/ CountNew(t) \/ Refuse(t))

CallerStep(t) ==
    \/ AskAgain(t) \/ Create(t) \/ Receive(t) \/ Cancelled(t)
    \/ \E bad \in BOOLEAN : Return(t, bad)

OpenerStep == OpenerTakes \/ OpenerDrops \/ OpenerOpens

QuitStep == QuitReads \/ QuitEnds

Next ==
    \/ \E t \in Callers : Ask(t) \/ CallerStep(t) \/ Cancel(t)
    \/ \E g \in Goroutines : QuitConn(g)
    \/ OpenerStep \/ Clean \/ QuitBegins \/ QuitStep
    \/ \E n \in MaxOpens : SetConnMaxOpen(n)
    \/ \E d \in Lifetimes : SetConnMaxLifetime(d)
    \/ \E c \in Conns : Age(c)

Spec == Init /\ [][Next]_vars

\* Commands end, goroutines that can go on do, the timer of the cleaner fires.
Fairness ==
    /\ \A t \in Callers : WF_vars(CallerStep(t))
    /\ \A g \in Goroutines : WF_vars(QuitConn(g))
    /\ WF_vars(OpenerStep) /\ WF_vars(Clean) /\ WF_vars(QuitStep)

FairSpec == Spec /\ Fairness

-----------------------------------------------------------------------------
(* Properties.                                                             *)

\* Every variable has its type; no count is negative.
TypeOK ==
    /\ closed \in BOOLEAN /\ numOpen \in Nat /\ openerCh \in Nat
    /\ maxOpen \in MaxOpens \cup {1} /\ maxLifetime \in Lifetimes \cup {0}
    /\ freeConns \in Seq(Conns)
    /\ requests \subseteq Callers
    /\ answer \in [Callers -> Conns \cup {NoConn, Closed}]
    /\ cleanerCh \in {"none", "open", "closed"}
    /\ open \subseteq Conns /\ old \subseteq open
    /\ pc \in [Callers -> {"idle", "again", "creating", "waiting",
                           "cancelled", "returning", "using"}]
    /\ has \in [Callers -> Conns \cup {NoConn}]
    /\ opener \in {"idle", "drop", "new"}
    /\ quitter \in {"none", "read", "closing", "done"}
    /\ todo \in [Goroutines -> Seq(Conns)]

\* numOpen is the number of opened and pending open connections, whoever is
\* opening or closing them at the moment (golibmc.go:125).
NumOpenExact ==
    numOpen = Cardinality(open) + openerCh
              + Cardinality({t \in Callers : pc[t] = "creating"})
              + (IF opener = "idle" THEN 0 ELSE 1)

\* Where a connection is.  Quit leaves in freeConns, until it ends, what it
\* is closing.
Places(c) ==
    {<<"idle", i>> : i \in {i \in DOMAIN freeConns :
                              freeConns[i] = c /\ quitter # "closing"}}
    \cup {<<"caller", t>> : t \in {t \in Callers : has[t] = c}}
    \cup {<<"answer", t>> : t \in {t \in Callers : answer[t] = c}}
    \cup UNION {{<<g, i>> : i \in {i \in DOMAIN todo[g] : todo[g][i] = c}} :
                  g \in Goroutines}

\* A connection that is open has one owner: it is idle, on its way to one
\* caller, used by one, or being closed by one goroutine.  None is lost when
\* a caller is cancelled while it is served, none is closed twice, none is
\* used after it was closed, whatever Quit and the cleaner close meanwhile.
OneOwner ==
    \A c \in Conns : Cardinality(Places(c)) = IF c \in open THEN 1 ELSE 0

\* There is a cleaner whenever there are idle connections that may expire.
CleanerWatches ==
    maxLifetime > 0 /\ freeConns # <<>> /\ ~closed => cleanerCh = "open"

\* A step that adds connections does not take them past the limit, even if
\* several goroutines open connections and the limit was lowered.
LimitRespected ==
    [][numOpen' > numOpen /\ maxOpen > 0 => numOpen' <= maxOpen]_vars

\* When no more calls come, a caller that waits is not forgotten: it is given
\* a connection or told of Quit, if there are no idle connections.
CallsStop == <>[][(\A t \in Callers : ~Ask(t)) /\ UNCHANGED maxOpen]_vars

WaiterAnswered ==
    CallsStop => \A t \in Callers :
      (pc[t] = "waiting" ~> pc[t] # "waiting" \/ freeConns # <<>>)

\* After Quit every connection is closed in the end, those that were in use,
\* on their way to a caller or asked of the opener included.
AllClosed == closed ~> numOpen = 0
=============================================================================
