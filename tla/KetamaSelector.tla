--------------------------- MODULE KetamaSelector ---------------------------
(***************************************************************************)
(* Which server a key belongs to: the ring of hashkit::KetamaSelector over *)
(* the connections of a ConnectionPool, and its walk past the dead ones.   *)
(* The walk connects as it goes, so it is one action for each point: time  *)
(* passes and back-offs end meanwhile.                                     *)
(*                                                                         *)
(* A hash is a number; what a key and a name hash to is arbitrary, and     *)
(* several points may have the same hash.                                  *)
(***************************************************************************)
EXTENDS Integers, Sequences, FiniteSets, SequencesExt, FiniteSetsExt

CONSTANTS
    HashMod,        \* hashes are 0 .. HashMod - 1, 2^32 in the code
    Hashings,       \* what MD5 may be: functions from a name to the hashes
                    \* of its s_pointerPerServer points
    Pools,          \* the lists of servers that the client may be given
    NoAlias,        \* the alias of a server that has none
    RetryTimeout,   \* CFG_RETRY_TIMEOUT
    MaxWait         \* bound: ticks of the clock during a selection

ASSUME KetamaSelectorAssumption ==
    /\ HashMod \in Nat \ {0}
    /\ RetryTimeout \in Nat
    /\ MaxWait \in Nat
    /\ \A f \in Hashings : \A name \in DOMAIN f :
         f[name] # {} /\ f[name] \subseteq 0 .. HashMod - 1

VARIABLES
    md5,          \* one of Hashings
    servers,      \* m_conns: the host and the alias of each
    continuum,    \* m_continuum; its length is 0 when m_nServers is
    useFailover,  \* m_useFailover
    alive,        \* m_alive of each connection
    backoff,      \* seconds until m_deadUntil, 0 if it is past
    walk,         \* getServerIt: its stage, its arguments and its variables
    tried,        \* connect() calls to each server in this selection
    waited        \* ticks of the clock in this selection

poolVars == <<md5, servers, continuum, useFailover>>
vars == <<poolVars, alive, backoff, walk, tried, waited>>

Hashes == 0 .. HashMod - 1
Conns == 1 .. Len(servers)
None == 0

\* What the points of a server are computed from.
HashName(server) == IF server.alias = NoAlias THEN server.host ELSE server.alias

ASSUME PoolsAssumption ==
    \A pool \in Pools :
      /\ pool \in Seq(ToSet(pool))
      /\ \A f \in Hashings, c \in DOMAIN pool : HashName(pool[c]) \in DOMAIN f

\* What addServers fills m_continuum with.
Points(f, pool) ==
    UNION {{[hash |-> h, conn |-> c] : h \in f[HashName(pool[c])]} :
           c \in DOMAIN pool}

\* Mutant: compare is the wrong way round.
SortedDown(points) ==
    {ring \in Bijection(1 .. Cardinality(points), points) :
       \A i, j \in DOMAIN ring : i < j => ring[i].hash >= ring[j].hash}

\* The results of std::sort: points with the same hash come in any order.
Sorted(points) ==
    {ring \in Bijection(1 .. Cardinality(points), points) :
       \A i, j \in DOMAIN ring : i < j => ring[i].hash <= ring[j].hash}

\* The rings there may be for each pool.
Rings ==
    UNION {{[md5 |-> f, servers |-> pool, continuum |-> ring] :
              ring \in Sorted(Points(f, pool))} :
           f \in Hashings, pool \in Pools}

NotWalking == [stage |-> "idle", hash |-> 0, check |-> FALSE, it |-> 1,
               left |-> 0, choice |-> None]

Init ==
    /\ md5 \in Hashings
    /\ servers = <<>> /\ continuum = <<>> /\ useFailover = FALSE
    /\ alive = <<>> /\ backoff = <<>>
    /\ walk = NotWalking
    /\ tried = <<>> /\ waited = 0

-----------------------------------------------------------------------------
(* The pool.                                                               *)

Idle == walk.stage = "idle"

\* ConnectionPool::init: the ring is built anew by addServers.
InitPool(pool) ==
    /\ Idle
    /\ servers' = pool
    /\ \E r \in Rings : /\ r.md5 = md5 /\ r.servers = pool
                        /\ continuum' = r.continuum
    /\ alive' = [c \in DOMAIN pool |-> FALSE]
    /\ backoff' = [c \in DOMAIN pool |-> 0]
    /\ tried' = [c \in DOMAIN pool |-> 0]
    /\ UNCHANGED <<md5, useFailover, walk, waited>>

\* ConnectionPool::updateServers: as many servers with the same aliases, or
\* nothing is done.  A connection that gets another address is closed and
\* takes it with its alias; the others, and the ring, stay what they are.
\* The callers always give a list of aliases: one that lacks the alias of a
\* server that has one is compared with NULL, which no Pools may lead to.
UpdateServers(pool) ==
    /\ Idle
    /\ Len(pool) = Len(servers)
    /\ \A c \in Conns : servers[c].alias \in {NoAlias, pool[c].alias}
    /\ servers' = [c \in Conns |-> IF pool[c].host = servers[c].host
                                     THEN servers[c] ELSE pool[c]]
    /\ alive' = [c \in Conns |-> alive[c] /\ pool[c].host = servers[c].host]
    /\ backoff' = [c \in Conns |-> IF alive[c] THEN 0 ELSE backoff[c]]
    /\ UNCHANGED <<md5, continuum, useFailover, walk, tried, waited>>

\* enableFailover and disableFailover.
SetFailover ==
    /\ Idle
    /\ useFailover' = ~useFailover
    /\ UNCHANGED <<md5, servers, continuum, alive, backoff, walk, tried, waited>>

\* A command loses its connection: markDead.
Break(c) ==
    /\ Idle /\ alive[c]
    /\ alive' = [alive EXCEPT ![c] = FALSE]
    /\ backoff' = [backoff EXCEPT ![c] = 0]
    /\ UNCHANGED <<poolVars, walk, tried, waited>>

Tick ==
    /\ Idle \/ waited < MaxWait
    /\ backoff' = [c \in Conns |-> Max({0, backoff[c] - 1})]
    /\ waited' = IF Idle THEN waited ELSE waited + 1
    /\ UNCHANGED <<poolVars, alive, walk, tried>>

-----------------------------------------------------------------------------
(* getServerIt.                                                            *)

\* Mutant: a connection that fails gets no back-off.
TryReconnectAgain(c, up) ==
    \/ /\ alive[c] /\ up
       /\ UNCHANGED <<alive, backoff, tried>>
    \/ /\ ~alive[c] /\ backoff[c] = 0
       /\ alive' = [alive EXCEPT ![c] = up]
       /\ UNCHANGED backoff
       /\ tried' = [tried EXCEPT ![c] = @ + 1]

\* tryReconnect(false) leaves c alive or not: it connects a dead connection
\* whose back-off is over.
TryReconnect(c, up) ==
    \/ /\ alive[c] /\ up
       /\ UNCHANGED <<alive, backoff, tried>>
    \/ /\ ~alive[c] /\ backoff[c] > 0 /\ ~up
       /\ UNCHANGED <<alive, backoff, tried>>
    \/ /\ ~alive[c] /\ backoff[c] = 0
       /\ alive' = [alive EXCEPT ![c] = up]
       /\ backoff' = [backoff EXCEPT ![c] = IF up THEN 0 ELSE RetryTimeout]
       /\ tried' = [tried EXCEPT ![c] = @ + 1]

\* Mutant: std::upper_bound.
LowerBoundAfter(h) ==
    LET i == SelectInSeq(continuum, LAMBDA p : p.hash > h)
    IN  IF Len(servers) = 1 \/ i = 0 THEN 1 ELSE i

\* std::lower_bound, or begin() when that is end() or there is one server.
LowerBound(h) ==
    LET i == SelectInSeq(continuum, LAMBDA p : p.hash >= h)
    IN  IF Len(servers) = 1 \/ i = 0 THEN 1 ELSE i

Owner == continuum[LowerBound(walk.hash)].conn

Return(c) == walk' = [walk EXCEPT !.stage = "chosen", !.choice = c]

\* A key that hashes to h is asked for; there may be no server.
Ask(h, check) ==
    /\ Idle
    /\ walk' = [NotWalking EXCEPT !.hash = h, !.check = check,
                  !.stage = IF continuum = <<>> THEN "chosen" ELSE "origin"]
    /\ UNCHANGED <<poolVars, alive, backoff, tried, waited>>

\* The server that the key belongs to, when its liveness is not asked for.
TakeOwner ==
    /\ walk.stage = "origin" /\ ~walk.check
    /\ Return(Owner)
    /\ UNCHANGED <<poolVars, alive, backoff, tried, waited>>

\* That server is alive, or the walk begins, or there is no failover.
TryOwner ==
    /\ walk.stage = "origin" /\ walk.check
    /\ \E up \in BOOLEAN :
         /\ TryReconnect(Owner, up)
         /\ IF up THEN Return(Owner)
            ELSE IF useFailover
              THEN walk' = [walk EXCEPT !.stage = "walking",
                              !.it = LowerBound(walk.hash),
                              !.left = Len(continuum)]
            ELSE Return(None)
    /\ UNCHANGED <<poolVars, waited>>

\* Mutant: the walk ends where the ring does.
WalkToEnd ==
    /\ walk.stage = "walking"
    /\ IF walk.it = Len(continuum)
         THEN Return(None) /\ UNCHANGED <<alive, backoff, tried>>
         ELSE LET c == continuum[walk.it + 1].conn
              IN  \E up \in BOOLEAN :
                    /\ IF c = Owner THEN ~up /\ UNCHANGED <<alive, backoff, tried>>
                                    ELSE TryReconnect(c, up)
                    /\ IF up THEN Return(c)
                       ELSE walk' = [walk EXCEPT !.it = @ + 1]
    /\ UNCHANGED <<poolVars, waited>>

\* The next point of the ring, if it is not of the server that is dead.
Walk ==
    /\ walk.stage = "walking"
    /\ LET next == (walk.it % Len(continuum)) + 1
           c == continuum[next].conn
       IN  \E up \in BOOLEAN :
             /\ IF c = Owner THEN ~up /\ UNCHANGED <<alive, backoff, tried>>
                             ELSE TryReconnect(c, up)
             /\ IF up THEN Return(c)
                ELSE IF walk.left = 1 THEN Return(None)
                ELSE walk' = [walk EXCEPT !.it = next, !.left = @ - 1]
    /\ UNCHANGED <<poolVars, waited>>

\* The caller has its connection.
Use ==
    /\ walk.stage = "chosen"
    /\ walk' = NotWalking
    /\ tried' = [c \in Conns |-> 0]
    /\ waited' = 0
    /\ UNCHANGED <<poolVars, alive, backoff>>

Next ==
    \/ \E pool \in Pools : InitPool(pool) \/ UpdateServers(pool)
    \/ SetFailover
    \/ \E c \in Conns : Break(c)
    \/ Tick
    \/ \E h \in Hashes, check \in BOOLEAN : Ask(h, check)
    \/ TakeOwner \/ TryOwner \/ Walk \/ Use

Spec == Init /\ [][Next]_vars

-----------------------------------------------------------------------------
(* Properties.                                                             *)

TypeOK ==
    /\ \A i \in 1 .. Len(continuum) - 1 :
         continuum[i].hash <= continuum[i + 1].hash
    /\ \A p \in ToSet(continuum) : p.hash \in Hashes /\ p.conn \in Conns
    /\ alive \in [Conns -> BOOLEAN]
    /\ backoff \in [Conns -> 0 .. RetryTimeout]
    /\ walk.stage \in {"idle", "origin", "walking", "chosen"}
    /\ walk.choice \in Conns \cup {None}
    /\ walk.left \in 0 .. Len(continuum)
    /\ walk.stage = "walking" => walk.it \in DOMAIN continuum

\* The ring from the point that a key falls on, all the way round.
Round(h) ==
    SubSeq(continuum, LowerBound(h), Len(continuum))
    \o SubSeq(continuum, 1, LowerBound(h) - 1)

\* Consistent failover: a selection ends with the server that the key would
\* belong to if the ring held the servers alive and no other.  So the keys of
\* a server that lives stay where they are whichever others die, those of a
\* dead one all go to the same place, and there is none only if none is alive
\* (or, without failover, if the one the key belongs to is not) - although
\* back-offs end, and servers come back, during the walk.
LiveOwnerChosen ==
    walk.stage = "chosen" /\ walk.check =>
      LET live == {c \in Conns : alive[c] /\ (useFailover \/ c = Owner)}
          i == SelectInSeq(Round(walk.hash), LAMBDA p : p.conn \in live)
      IN  walk.choice = IF i = 0 THEN None ELSE Round(walk.hash)[i].conn

\* Clockwise from h to the nearest point of a name.
Distance(h, name) == Min({(g - h + HashMod) % HashMod : g \in md5[name]})

\* README.rst:82 computes the hash of a server from its alias: the server a
\* key belongs to is the one with the nearest hash of its alias, also after
\* updateServers, which does not build the ring again.  (A server that gets
\* its first alias by updateServers stays where its host was put: the
\* property is about Pools that do not do this.)
NearestAlias ==
    walk.stage = "chosen" /\ ~walk.check /\ servers # <<>>
      /\ (\A c \in Conns : servers[c].alias # NoAlias)
      => \A c \in Conns :
           \/ Len(servers) = 1
           \/ Distance(walk.hash, servers[walk.choice].alias)
                <= Distance(walk.hash, servers[c].alias)

\* A dead server has many points on the ring and a connect() that fails may
\* last: a selection does not try it again at each of them, only after its
\* back-off of RetryTimeout, if there is one.
TriedOncePerBackoff ==
    RetryTimeout > 0 =>
      \A c \in Conns : tried[c] <= 1 + (waited \div RetryTimeout)
=============================================================================
