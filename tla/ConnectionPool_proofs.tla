------------------------ MODULE ConnectionPool_proofs ------------------------
(***************************************************************************)
(* The count of waitPoll, and what a command leaves behind, for any number *)
(* of servers, keys, commands and retries.  The types hold whatever the    *)
(* servers do; the rest as long as no connection that has its answer is    *)
(* reset, and none is closed or refused during a command without answer.   *)
(***************************************************************************)
EXTENDS ConnectionPool, SequenceLemmas, FiniteSetTheorems, SequenceTheorems, TLAPS

AllKinds == {"retrieval", "storage", "noreply", "broadcast", "quit"}
Silent == {"noreply", "quit"}

\* What the servers are assumed not to do.
Survivable ==
    /\ "late_reset" \notin Faults
    /\ Faults = {} \/ Kinds \cap Silent = {}

Packets == [cmd : Nat, item : Nat, type : {"VALUE", "END", "MSG", "ERR"}]
Pieces == [cmd : Nat, kind : AllKinds, n : Nat, item : Nat, half : {1, 2}]

Connections ==
    [alive : BOOLEAN, backoff : BOOLEAN, retires : Nat, counter : Nat,
     items : Nat, sent : Nat, got : Seq(Packets),
     events : SUBSET {"in", "out"}, revents : SUBSET {"hup", "peek", "in", "out"}]

Sockets == [sock : {"none", "open", "fin", "rst"}, wire : Seq(Pieces),
            replies : Seq(Packets)]

\* The part of the invariant that holds whatever the servers do.
Typed(k, p, kd) ==
    /\ k.items <= MaxItems
    /\ k.counter <= k.items
    /\ k.sent <= Parts(kd, k.items)
    /\ k.retires <= MaxRetries + 1
    /\ k.alive => k.retires <= MaxRetries
    /\ k.alive <=> p.sock # "none"
    /\ k.revents # {} => k.alive
    /\ p.sock = "rst" => p.wire = <<>>

Cleared(k) ==
    /\ k.items = 0 /\ k.counter = 0 /\ k.sent = 0 /\ k.retires = 0
    /\ k.got = <<>> /\ k.events = {} /\ k.revents = {}

TypeInv ==
    /\ pc \in {"idle", "poll", "collect"}
    /\ cmd \in 0 .. MaxCmds
    /\ kind \in Kinds \cup {"quit"}
    /\ active \subseteq Conns
    /\ pc = "idle" => active = {}
    /\ pc # "idle" => kind \in Kinds
    /\ nActive \in 0 .. CounterMod - 1
    /\ ret \in Errors \cup {"OK"}
    /\ conn \in [Conns -> Connections] /\ peer \in [Conns -> Sockets]
    /\ \A c \in Conns : Typed(conn[c], peer[c], kind)
    /\ \A c \in Conns \ active : Cleared(conn[c])

-----------------------------------------------------------------------------
(* The answer that is due, packet by packet.                               *)

AnswerLength(kd, n) ==
    CASE kd = "storage"   -> n
      [] kd = "retrieval" -> n + 1
      [] kd = "broadcast" -> 1
      [] OTHER            -> 0

Due(m, kd, n, i) ==
    CASE kd = "storage"             -> [cmd |-> m, item |-> i, type |-> "MSG"]
      [] kd = "retrieval" /\ i <= n -> [cmd |-> m, item |-> i, type |-> "VALUE"]
      [] OTHER                      -> [cmd |-> m, item |-> 1, type |-> "END"]

Right(s, m, kd, n) ==
    /\ Len(s) <= AnswerLength(kd, n)
    /\ \A i \in 1 .. Len(s) : s[i] = Due(m, kd, n, i)

Piece(m, kd, n, i) ==
    [cmd |-> m, kind |-> kd, n |-> n, item |-> (i + 1) \div 2, half |-> 2 - (i % 2)]

\* A request part and the next, of an item without an answer.
Pair(p, q) == p.kind \in Silent /\ q = [p EXCEPT !.half = 2]
Pairs(wire, length) ==
    /\ length % 2 = 0
    /\ \A i \in 1 .. length : i % 2 = 1 => Pair(wire[i], wire[i + 1])

\* n parts of a command stand on the wire behind the first at.
Follow(wire, at, n, m, kd, items, from) ==
    \A j \in 1 .. n : wire[at + j] = Piece(m, kd, items, from + j)

\* The parts of this command that the server has still to read.
Unread(k, p, kd) ==
    CASE kd \in Silent  -> k.sent % 2
      [] kd = "storage" -> k.sent - 2 * (Len(k.got) + Len(p.replies))
      [] OTHER          -> IF k.got = <<>> /\ p.replies = <<>> THEN k.sent ELSE 0

Wired(k, p, m, kd) ==
    LET u == Unread(k, p, kd)
        read == Len(p.wire) - u
    IN  /\ u >= 0 /\ read >= 0
        /\ Pairs(p.wire, read)
        /\ Follow(p.wire, read, u, m, kd, k.items, k.sent - u)

\* What waits to be read goes on where the parser is, but for refusals.
Continues(k, p, m, kd) ==
    /\ Len(k.got) + Len(p.replies) <= AnswerLength(kd, k.items)
    /\ \A i \in DOMAIN p.replies :
         \/ p.replies[i] = Due(m, kd, k.items, Len(k.got) + i)
         \/ p.replies[i].type = "ERR"
    /\ kd \in {"retrieval", "broadcast"} /\ (k.got # <<>> \/ p.replies # <<>>) =>
         /\ k.sent = 2
         /\ \/ /\ Len(k.got) + Len(p.replies) = AnswerLength(kd, k.items)
               /\ \A i \in DOMAIN p.replies : p.replies[i].type # "ERR"
            \/ k.got = <<>> /\ Len(p.replies) = 1 /\ p.replies[1].type = "ERR"

Refused(k, p) ==
    /\ p.sock \in {"fin", "rst"}
    /\ k.got = <<>> /\ Len(p.replies) = 1 /\ p.replies[1].type = "ERR"
    /\ k.counter > 0

InStep(k, p, m, kd) ==
    /\ Continues(k, p, m, kd)
    /\ Unread(k, p, kd) >= 0
    /\ p.sock # "rst" => Wired(k, p, m, kd)

AllSent(k, kd) == k.sent = Parts(kd, k.items)

Whole(k, p, kd) ==
    /\ Len(k.got) + Len(p.replies) = AnswerLength(kd, k.items)
    /\ \A i \in DOMAIN p.replies : p.replies[i].type # "ERR"

Loaded(k, kd) ==
    /\ k.items > 0
    /\ k.counter = IF kd \in Silent THEN 0 ELSE k.items
    /\ IsBroadcast(kd) => k.items = 1

Busy(k, p, m, kd) ==
    /\ Loaded(k, kd)
    /\ Right(k.got, m, kd, k.items)
    /\ k.alive => Refused(k, p) \/ InStep(k, p, m, kd)

Owes(k, kd) ==
    /\ k.alive
    /\ \/ ~AllSent(k, kd)
       \/ k.counter > 0 /\ Len(k.got) # AnswerLength(kd, k.items)

Polled(k, p, kd) ==
    /\ ~k.alive => k.events = {} /\ k.revents = {}
    /\ k.alive => ("out" \in k.events <=> ~AllSent(k, kd))
    /\ k.revents # {} => Owes(k, kd)
    /\ Owes(k, kd) /\ AllSent(k, kd) => "in" \in k.events
    /\ k.counter > 0 /\ ~Owes(k, kd) => k.events = {}
    /\ "peek" \in k.revents => k.sent = 0
    /\ "out" \in k.revents => ~AllSent(k, kd)
    /\ k.alive /\ p.sock = "rst" => ~(AllSent(k, kd) /\ Whole(k, p, kd))
    /\ k.alive /\ kd \in Silent =>
         /\ p.replies = <<>>
         /\ "in" \in k.revents => k.revents \cap {"hup", "peek"} # {}
         /\ AllSent(k, kd) => p.sock = "open"
         /\ p.sock = "fin" => /\ k.sent = 0 /\ k.events = {"in", "out"}
                              /\ k.revents = {} \/ "peek" \in k.revents

Rest(p) == p.replies = <<>> /\ Pairs(p.wire, Len(p.wire))

Owing == {c \in active : Owes(conn[c], kind)}

ActiveInv == \A c \in active : Busy(conn[c], peer[c], cmd, kind)
RestInv == \A c \in Conns \ active : conn[c].alive => Rest(peer[c])

PollInv ==
    pc = "poll" => /\ \A c \in active : Polled(conn[c], peer[c], kind)
                   /\ nActive = Cardinality(Owing)
                   /\ ret = "OK" <=> \A c \in active : conn[c].alive

CollectInv ==
    pc = "collect" =>
      /\ Owing = {}
      /\ active # {} => (ret = "OK" <=> \A c \in active : conn[c].alive)

Inv == ActiveInv /\ RestInv /\ PollInv /\ CollectInv
IInv == TypeInv /\ Inv


-----------------------------------------------------------------------------
(* Types, whatever the servers do.                                         *)

\* One connection and its socket change.
Local(c, k, p) ==
    /\ conn' = [conn EXCEPT ![c] = k]
    /\ peer' = [peer EXCEPT ![c] = p]

commandVars == <<pc, cmd, kind, active>>

LEMMA PartsType ==
  ASSUME NEW kd, NEW n \in Nat
  PROVE  Parts(kd, n) \in Nat
  BY DEF Parts

LEMMA CounterType ==
  /\ NConns \in Nat /\ NConns > 0 /\ CounterMod \in Nat /\ CounterMod > NConns
  /\ MaxItems \in Nat /\ MaxCmds \in Nat /\ MaxRetries \in Nat
  /\ \A n \in 0 .. CounterMod - 1 : Decrement(n) \in 0 .. CounterMod - 1
  BY ConnectionPoolAssumption DEF Decrement

LEMMA DecrementExact ==
  ASSUME NEW n \in Nat, n > 0, n < CounterMod
  PROVE  Decrement(n) = n - 1
  BY ConnectionPoolAssumption DEF Decrement

LEMMA ConnsFinite ==
  IsFiniteSet(Conns) /\ Cardinality(Conns) = NConns
  <1>1. NConns \in Nat
    BY CounterType
  <1>2. QED
    BY <1>1, FS_Interval DEF Conns

LEMMA ActiveCounted ==
  ASSUME NEW S, S \subseteq Conns
  PROVE  /\ IsFiniteSet(S)
         /\ Cardinality(S) \in Nat
         /\ Cardinality(S) <= NConns
  BY ConnsFinite, FS_Subset, FS_CardinalityType

LEMMA SocketsType ==
  NoSocket \in Sockets /\ NewSocket \in Sockets
  <1>1. <<>> \in Seq(Pieces) /\ <<>> \in Seq(Packets)
    OBVIOUS
  <1>2. QED
    BY <1>1 DEF NoSocket, NewSocket, Sockets

LEMMA Fields ==
  ASSUME NEW k \in Connections
  PROVE  /\ k.alive \in BOOLEAN /\ k.backoff \in BOOLEAN
         /\ k.retires \in Nat /\ k.counter \in Nat
         /\ k.items \in Nat /\ k.sent \in Nat /\ k.got \in Seq(Packets)
         /\ k.events \subseteq {"in", "out"}
         /\ k.revents \subseteq {"hup", "peek", "in", "out"}
  BY DEF Connections

LEMMA NewSocketFields ==
  /\ NoSocket.sock = "none" /\ NoSocket.wire = <<>> /\ NoSocket.replies = <<>>
  /\ NewSocket.sock = "open" /\ NewSocket.wire = <<>> /\ NewSocket.replies = <<>>
  BY DEF NoSocket, NewSocket

LEMMA InitTypes == Init => TypeInv
  <1> SUFFICES ASSUME Init PROVE TypeInv
    OBVIOUS
  <1>1. conn \in [Conns -> Connections] /\ peer \in [Conns -> Sockets]
    BY SocketsType DEF Init, Connections
  <1>2. ASSUME NEW c \in Conns
        PROVE  Typed(conn[c], peer[c], kind) /\ Cleared(conn[c])
    BY CounterType, PartsType DEF Init, Typed, Cleared, NoSocket, Parts
  <1>3. QED
    BY <1>1, <1>2, CounterType DEF Init, TypeInv

LEMMA LocalTypes ==
  ASSUME TypeInv, NEW c \in Conns, NEW k \in Connections, NEW p \in Sockets,
         Local(c, k, p), UNCHANGED commandVars,
         Typed(k, p, kind), c \notin active => Cleared(k),
         nActive' \in 0 .. CounterMod - 1, ret' \in Errors \cup {"OK"}
  PROVE  TypeInv'
  <1>1. conn' \in [Conns -> Connections] /\ peer' \in [Conns -> Sockets]
    BY DEF Local, TypeInv
  <1>2. ASSUME NEW d \in Conns
        PROVE  Typed(conn'[d], peer'[d], kind')
               /\ (d \notin active' => Cleared(conn'[d]))
    BY DEF Local, TypeInv, commandVars
  <1>3. QED
    BY <1>1, <1>2 DEF TypeInv, commandVars

LEMMA ConnectedType ==
  ASSUME NEW k \in Connections
  PROVE  Connected(k) \in Connections
  BY DEF Connected, Connections

LEMMA LoadedType ==
  ASSUME NEW k \in Connections, NEW n \in Nat, NEW m \in Nat
  PROVE  [Connected(k) EXCEPT !.items = n, !.counter = m,
                              !.events = {"in", "out"}] \in Connections
  <1>1. Connected(k) \in Connections
    BY ConnectedType
  <1>2. QED
    BY <1>1 DEF Connections

\* What a dispatch does, with its choices named.
Dispatched(k, load, up) ==
    /\ pc = "idle" /\ cmd < MaxCmds /\ cmd' = cmd + 1 /\ kind' = k
    /\ active' \subseteq Conns /\ nActive' = Cardinality(active')
    /\ up \subseteq active'
    /\ \A c \in active' : conn[c].alive <=> c \notin up
    /\ \A c \in active' : load[c] > 0
    /\ IsBroadcast(k) => \A c \in Conns : load[c] = 1
    /\ \A c \in active' :
         /\ conn'[c] = [Connected(conn[c]) EXCEPT
                          !.items = load[c],
                          !.counter = IF k \in {"noreply", "quit"}
                                        THEN 0 ELSE load[c],
                          !.events = {"in", "out"}]
         /\ peer'[c] = IF c \in up THEN NewSocket ELSE peer[c]
    /\ \A c \in Conns \ active' :
         /\ \E later \in BOOLEAN : conn'[c] = [conn[c] EXCEPT !.backoff = later]
         /\ peer'[c] = peer[c]
    /\ pc' = IF active' = {} THEN "collect" ELSE "poll"
    /\ ret' \in Errors \cup {"OK"}
    /\ active' # {} => ret' = "OK"

LEMMA DispatchShape ==
  ASSUME TypeInv, Dispatch
  PROVE  /\ \E k \in Kinds, load \in [Conns -> 0 .. MaxItems],
               up \in SUBSET Conns : Dispatched(k, load, up)
         /\ conn' \in [Conns -> Connections] /\ peer' \in [Conns -> Sockets]
  <1>1. PICK k \in Kinds, invalid \in BOOLEAN, load \in [Conns -> 0 .. MaxItems] :
          LET wanted == WantedBy(k, load)
              tried  == {c \in wanted : ~conn[c].alive /\ ~conn[c].backoff}
          IN  /\ IsBroadcast(k) => /\ \A c \in Conns : load[c] = 1
                                   /\ ~invalid
              /\ \E up \in SUBSET tried :
                   /\ active' = {c \in wanted : conn[c].alive} \cup up
                   /\ conn' = [c \in Conns |->
                        IF c \in active'
                          THEN [Connected(conn[c]) EXCEPT
                                  !.items = load[c],
                                  !.counter = IF k \in {"noreply", "quit"}
                                                THEN 0 ELSE load[c],
                                  !.events = {"in", "out"}]
                          ELSE [conn[c] EXCEPT !.backoff = @ \/ c \in tried]]
                   /\ peer' = [c \in Conns |->
                        IF c \in up THEN NewSocket ELSE peer[c]]
              /\ kind' = k
              /\ nActive' = Cardinality(active')
              /\ IF active' = {}
                   THEN /\ pc' = "collect"
                        /\ ret' = IF invalid THEN "INVALID_KEY_ERR"
                                             ELSE "MC_SERVER_ERR"
                   ELSE /\ pc' = "poll"
                        /\ ret' = "OK"
    BY DEF Dispatch
  <1> DEFINE wanted == WantedBy(k, load)
             tried  == {c \in wanted : ~conn[c].alive /\ ~conn[c].backoff}
  <1>2. PICK up \in SUBSET tried :
          /\ active' = {c \in wanted : conn[c].alive} \cup up
          /\ conn' = [c \in Conns |->
               IF c \in active'
                 THEN [Connected(conn[c]) EXCEPT
                         !.items = load[c],
                         !.counter = IF k \in {"noreply", "quit"}
                                       THEN 0 ELSE load[c],
                         !.events = {"in", "out"}]
                 ELSE [conn[c] EXCEPT !.backoff = @ \/ c \in tried]]
          /\ peer' = [c \in Conns |-> IF c \in up THEN NewSocket ELSE peer[c]]
    BY <1>1
  <1>3. wanted \subseteq Conns /\ tried \subseteq wanted
        /\ \A c \in wanted : load[c] > 0
    <2>1. \A c \in wanted : c \in Conns /\ (IsBroadcast(k) \/ load[c] > 0)
      BY DEF WantedBy
    <2>2. IsBroadcast(k) => \A c \in Conns : load[c] > 0
      <3>1. IsBroadcast(k) => \A c \in Conns : load[c] = 1
        BY <1>1
      <3>2. QED
        BY <3>1
    <2>3. QED
      BY <2>1, <2>2
  <1>4. conn \in [Conns -> Connections] /\ peer \in [Conns -> Sockets]
    BY DEF TypeInv
  <1>5. conn' \in [Conns -> Connections]
    <2>1. ASSUME NEW c \in Conns
          PROVE  [Connected(conn[c]) EXCEPT !.items = load[c],
                    !.counter = IF k \in {"noreply", "quit"} THEN 0 ELSE load[c],
                    !.events = {"in", "out"}] \in Connections
      <3>1. load[c] \in Nat
        BY CounterType
      <3>2. (IF k \in {"noreply", "quit"} THEN 0 ELSE load[c]) \in Nat
        BY <3>1
      <3>3. conn[c] \in Connections
        BY <1>4
      <3>4. QED
        BY <3>1, <3>2, <3>3, LoadedType
    <2>2. ASSUME NEW c \in Conns, NEW b \in BOOLEAN
          PROVE  [conn[c] EXCEPT !.backoff = b] \in Connections
      BY <1>4 DEF Connections
    <2>3. \A c \in Conns : (conn[c].backoff \/ c \in tried) \in BOOLEAN
      OBVIOUS
    <2>4. QED
      BY <1>2, <2>1, <2>2, <2>3
  <1>6. peer' \in [Conns -> Sockets]
    BY <1>2, <1>4, SocketsType
  <1>7. Dispatched(k, load, up)
    <2>1. active' \subseteq Conns /\ up \subseteq active'
          /\ \A c \in active' : load[c] > 0
      BY <1>2, <1>3
    <2>2. \A c \in active' : conn[c].alive <=> c \notin up
      BY <1>2, <1>3
    <2>3. ASSUME NEW c \in Conns \ active'
          PROVE  /\ \E later \in BOOLEAN : conn'[c] = [conn[c] EXCEPT !.backoff = later]
                 /\ peer'[c] = peer[c]
      <3>1. conn'[c] = [conn[c] EXCEPT !.backoff = @ \/ c \in tried]
        BY <1>2
      <3>2. (conn[c].backoff \/ c \in tried) \in BOOLEAN
        OBVIOUS
      <3>3. QED
        BY <1>2, <2>1, <3>1, <3>2
    <2>4. ASSUME NEW c \in active'
          PROVE  /\ conn'[c] = [Connected(conn[c]) EXCEPT
                          !.items = load[c],
                          !.counter = IF k \in {"noreply", "quit"}
                                        THEN 0 ELSE load[c],
                          !.events = {"in", "out"}]
                 /\ peer'[c] = IF c \in up THEN NewSocket ELSE peer[c]
      BY <1>2, <2>1
    <2>5. pc = "idle" /\ cmd < MaxCmds /\ cmd' = cmd + 1
      BY DEF Dispatch
    <2>6. /\ pc' = IF active' = {} THEN "collect" ELSE "poll"
          /\ ret' \in Errors \cup {"OK"}
          /\ active' # {} => ret' = "OK"
          /\ kind' = k /\ nActive' = Cardinality(active')
          /\ IsBroadcast(k) => \A c \in Conns : load[c] = 1
      BY <1>1 DEF Errors
    <2>7. QED
      BY <2>1, <2>2, <2>3, <2>4, <2>5, <2>6 DEF Dispatched
  <1>8. QED
    BY <1>3, <1>5, <1>6, <1>7

LEMMA DispatchTypes ==
  ASSUME TypeInv, Dispatch
  PROVE  TypeInv'
  <1>1. PICK k \in Kinds, load \in [Conns -> 0 .. MaxItems], up \in SUBSET Conns :
          Dispatched(k, load, up)
    BY DispatchShape
  <1>2. conn' \in [Conns -> Connections] /\ peer' \in [Conns -> Sockets]
    BY DispatchShape
  <1>3. /\ pc' \in {"idle", "poll", "collect"} /\ pc' # "idle"
        /\ cmd' \in 0 .. MaxCmds
        /\ kind' \in Kinds /\ active' \subseteq Conns
        /\ ret' \in Errors \cup {"OK"}
    <2>1. cmd \in 0 .. MaxCmds /\ MaxCmds \in Nat
      BY CounterType DEF TypeInv
    <2>2. cmd < MaxCmds /\ cmd' = cmd + 1
      BY <1>1 DEF Dispatched
    <2>3. cmd' \in 0 .. MaxCmds
      BY <2>1, <2>2
    <2>4. QED
      BY <1>1, <2>3 DEF Dispatched
  <1>4. nActive' \in 0 .. CounterMod - 1
    <2>1. nActive' = Cardinality(active')
      BY <1>1 DEF Dispatched
    <2>2. QED
      BY <1>3, <2>1, ActiveCounted, CounterType
  <1>5. ASSUME NEW c \in Conns
        PROVE  Typed(conn[c], peer[c], kind) /\ Cleared(conn[c])
               /\ conn[c] \in Connections /\ peer[c] \in Sockets
    <2>1. pc = "idle"
      BY <1>1 DEF Dispatched
    <2>2. QED
      BY <2>1 DEF TypeInv
  <1>6. ASSUME NEW c \in active'
        PROVE  Typed(conn'[c], peer'[c], kind')
    <2>1. c \in Conns
      BY <1>3
    <2>2. /\ conn'[c].items = load[c] /\ conn'[c].counter \in {0, load[c]}
          /\ conn'[c].sent = conn[c].sent /\ conn'[c].alive = TRUE
          /\ conn'[c].retires = conn[c].retires
          /\ conn'[c].revents = conn[c].revents
      <3>1. conn'[c] = [Connected(conn[c]) EXCEPT
                          !.items = load[c],
                          !.counter = IF k \in {"noreply", "quit"}
                                        THEN 0 ELSE load[c],
                          !.events = {"in", "out"}]
        BY <1>1 DEF Dispatched
      <3>2. conn[c] \in Connections
        BY <1>5, <2>1
      <3>3. QED
        BY <3>1, <3>2 DEF Connections, Connected
    <2>3. conn[c].sent = 0 /\ conn[c].retires = 0 /\ conn[c].revents = {}
      BY <1>5, <2>1 DEF Cleared
    <2>4. load[c] \in 0 .. MaxItems
      BY <2>1
    <2>5. Parts(kind', load[c]) \in Nat
      BY <2>4, PartsType
    <2>6. peer'[c].sock # "none" /\ (peer'[c].sock = "rst" => peer'[c].wire = <<>>)
      <3>1. conn[c].alive => c \notin up
        BY <1>1 DEF Dispatched
      <3>2. CASE c \in up
        <4>1. peer'[c] = NewSocket
          BY <1>1, <3>2 DEF Dispatched
        <4>2. QED
          BY <4>1 DEF NewSocket, NoSocket
      <3>3. CASE c \notin up
        <4>1. peer'[c] = peer[c] /\ conn[c].alive
          BY <1>1, <3>3 DEF Dispatched
        <4>2. QED
          BY <4>1, <1>5, <2>1 DEF Typed
      <3>4. QED
        BY <3>2, <3>3
    <2>7. QED
      BY <2>2, <2>3, <2>4, <2>5, <2>6, CounterType DEF Typed
  <1>7. ASSUME NEW c \in Conns \ active'
        PROVE  Typed(conn'[c], peer'[c], kind') /\ Cleared(conn'[c])
    <2>1. peer'[c] = peer[c]
      BY <1>1 DEF Dispatched
    <2>2. PICK later \in BOOLEAN : conn'[c] = [conn[c] EXCEPT !.backoff = later]
      BY <1>1 DEF Dispatched
    <2>3. conn[c] \in Connections /\ Cleared(conn[c])
          /\ Typed(conn[c], peer[c], kind)
      BY <1>5
    <2>4. Cleared(conn'[c])
      BY <2>2, <2>3 DEF Cleared, Connections
    <2>5. Typed(conn'[c], peer[c], kind')
      <3>1. conn'[c].alive = conn[c].alive
        BY <2>2, <2>3 DEF Connections
      <3>2. 0 <= Parts(kind', 0)
        BY PartsType
      <3>3. QED
        BY <2>3, <2>4, <3>1, <3>2, CounterType DEF Typed, Cleared
    <2>6. QED
      BY <2>1, <2>4, <2>5
  <1>8. QED
    BY <1>2, <1>3, <1>4, <1>6, <1>7 DEF TypeInv

LEMMA ReventsType ==
  ASSUME NEW c
  PROVE  /\ Revents(c) \subseteq {"hup", "peek", "in", "out"}
         /\ Revents(c) # {} => conn[c].alive
  BY DEF Revents

LEMMA PollTypes ==
  ASSUME TypeInv, Poll
  PROVE  TypeInv'
  <1>1. /\ pc = "poll" /\ UNCHANGED <<pc, cmd, kind, active, nActive, ret, peer>>
        /\ conn' = [c \in Conns |-> IF c \in active
                      THEN [conn[c] EXCEPT !.revents = Revents(c)] ELSE conn[c]]
    BY DEF Poll
  <1>2. ASSUME NEW c \in Conns
        PROVE  /\ conn'[c] \in Connections
               /\ Typed(conn'[c], peer[c], kind)
               /\ c \notin active => Cleared(conn'[c])
    <2>1. conn[c] \in Connections /\ Typed(conn[c], peer[c], kind)
          /\ (c \notin active => Cleared(conn[c]))
      BY DEF TypeInv
    <2>2. CASE c \in active
      <3>1. conn'[c] = [conn[c] EXCEPT !.revents = Revents(c)]
        BY <1>1, <2>2
      <3>2. QED
        BY <2>1, <2>2, <3>1, ReventsType DEF Connections, Typed
    <2>3. CASE c \notin active
      BY <1>1, <2>1, <2>3
    <2>4. QED
      BY <2>2, <2>3
  <1>3. conn' \in [Conns -> Connections]
    BY <1>1, <1>2
  <1>4. QED
    BY <1>1, <1>2, <1>3 DEF TypeInv

LEMMA DeadType ==
  ASSUME NEW k \in Connections
  PROVE  /\ Dead(k) \in Connections /\ Dead(k).alive = FALSE
         /\ Dead(k).items = k.items /\ Dead(k).counter = k.counter
         /\ Dead(k).sent = k.sent /\ Dead(k).retires = k.retires
         /\ Dead(k).got = k.got /\ Dead(k).events = k.events
         /\ Dead(k).revents = k.revents
  BY DEF Dead, Connections

\* poll reports nothing, or fails.
LEMMA MarkedTypes ==
  ASSUME TypeInv, MarkDeadAll(Waiting), Served, pc = "poll", pc' = "collect",
         ret' \in Errors, UNCHANGED <<cmd, kind, active, nActive>>
  PROVE  TypeInv'
  <1>1. ASSUME NEW c \in Conns
        PROVE  /\ conn'[c] \in Connections /\ peer'[c] \in Sockets
               /\ Typed(conn'[c], peer'[c], kind)
               /\ c \notin active => Cleared(conn'[c])
    <2>1. conn[c] \in Connections /\ peer[c] \in Sockets
          /\ Typed(conn[c], peer[c], kind)
          /\ (c \notin active => Cleared(conn[c]))
      BY DEF TypeInv
    <2>2. CASE c \in Waiting
      <3>1. conn'[c] = Dead(conn[c]) /\ peer'[c] = NoSocket /\ c \in active
        BY <2>2 DEF MarkDeadAll, Waiting
      <3>2. conn[c].revents = {}
        BY <3>1 DEF Served
      <3>3. Typed(conn'[c], peer'[c], kind)
        <4>1. /\ conn'[c].alive = FALSE /\ conn'[c].items = conn[c].items
              /\ conn'[c].counter = conn[c].counter
              /\ conn'[c].sent = conn[c].sent /\ conn'[c].revents = {}
              /\ conn'[c].retires = conn[c].retires
          BY <2>1, <3>1, <3>2, DeadType
        <4>2. QED
          BY <2>1, <3>1, <4>1, NewSocketFields DEF Typed
      <3>4. QED
        BY <2>1, <3>1, <3>3, DeadType, SocketsType
    <2>3. CASE c \notin Waiting
      BY <2>1, <2>3 DEF MarkDeadAll
    <2>4. QED
      BY <2>2, <2>3
  <1>2. conn' \in [Conns -> Connections] /\ peer' \in [Conns -> Sockets]
    BY <1>1 DEF MarkDeadAll
  <1>3. QED
    BY <1>1, <1>2 DEF TypeInv

LEMMA PollTimeoutTypes ==
  ASSUME TypeInv, PollTimeout
  PROVE  TypeInv'
  BY MarkedTypes DEF PollTimeout, Errors

LEMMA PollErrorTypes ==
  ASSUME TypeInv, PollError
  PROVE  TypeInv'
  BY MarkedTypes DEF PollError, Errors

\* The same part of the command.
Same(k, old) == k.items = old.items /\ k.counter = old.counter /\ k.sent = old.sent

LEMMA GiveUpTypes ==
  ASSUME TypeInv, NEW c \in active, NEW k \in Connections, NEW err \in Errors,
         GiveUp(c, k, err), UNCHANGED commandVars,
         k.alive = FALSE, Same(k, conn[c]), k.retires <= MaxRetries + 1
  PROVE  TypeInv'
  <1> DEFINE new == [k EXCEPT !.events = {}, !.revents = {}]
  <1>1. c \in Conns /\ Typed(conn[c], peer[c], kind) /\ nActive \in 0 .. CounterMod - 1
    BY DEF TypeInv
  <1>2. new \in Connections /\ new.alive = FALSE /\ Same(new, conn[c])
        /\ new.retires = k.retires /\ new.revents = {}
    BY DEF Connections, Same
  <1>3. Local(c, new, NoSocket)
    BY DEF Local, GiveUp
  <1>4. Typed(new, NoSocket, kind)
    <2> HIDE DEF new
    <2>1. QED
      BY <1>1, <1>2 DEF Typed, Same, NoSocket
  <1>5. nActive' \in 0 .. CounterMod - 1 /\ ret' \in Errors \cup {"OK"}
    BY <1>1, CounterType DEF GiveUp
  <1>6. QED
    <2> HIDE DEF new
    <2>1. QED
      BY <1>1, <1>2, <1>3, <1>4, <1>5, SocketsType, LocalTypes

\* The request is to be sent again, on another socket.
Fresh(k, old) ==
    /\ k.alive = TRUE /\ k.items = old.items /\ k.counter = old.counter
    /\ k.sent = 0 /\ k.got = <<>> /\ k.events = {"out"} /\ k.revents = {}
    /\ k.retires = old.retires + 1 /\ k.retires <= MaxRetries

Retried(c) ==
    \E k \in Connections : /\ Fresh(k, conn[c])
                           /\ Local(c, k, NewSocket)
                           /\ UNCHANGED <<nActive, ret>>

Lost(c, err) ==
    \E k \in Connections : /\ k.alive = FALSE /\ Same(k, conn[c])
                           /\ k.got = conn[c].got
                           /\ k.retires = conn[c].retires + 1
                           /\ GiveUp(c, k, err)

LEMMA RetryShape ==
  ASSUME TypeInv, NEW c \in Conns, NEW err, RetryOrGiveUp(c, err)
  PROVE  Retried(c) \/ Lost(c, err)
  <1> DEFINE dead == [Dead(conn[c]) EXCEPT !.retires = @ + 1]
             again == [Rewound(Connected(dead)) EXCEPT !.revents = {}]
             later == [dead EXCEPT !.backoff = TRUE]
  <1>1. conn[c] \in Connections
    BY DEF TypeInv
  <1>2. /\ dead \in Connections /\ dead.alive = FALSE /\ Same(dead, conn[c])
        /\ dead.got = conn[c].got /\ dead.retires = conn[c].retires + 1
    <2> DEFINE plain == Dead(conn[c])
    <2>1. /\ plain \in Connections /\ plain.retires \in Nat
          /\ plain.alive = FALSE /\ plain.items = conn[c].items
          /\ plain.counter = conn[c].counter /\ plain.sent = conn[c].sent
          /\ plain.retires = conn[c].retires /\ plain.got = conn[c].got
      BY <1>1, DeadType, Fields
    <2>2. dead = [plain EXCEPT !.retires = plain.retires + 1]
      OBVIOUS
    <2> HIDE DEF plain, dead
    <2>3. dead \in Connections
      BY <2>1, <2>2 DEF Connections
    <2>4. /\ dead.alive = FALSE /\ dead.items = plain.items
          /\ dead.counter = plain.counter /\ dead.sent = plain.sent
          /\ dead.got = plain.got /\ dead.retires = plain.retires + 1
      BY <2>1, <2>2 DEF Connections
    <2>5. QED
      BY <2>1, <2>3, <2>4 DEF Same
  <1>3. \/ /\ dead.retires <= MaxRetries
           /\ conn' = [conn EXCEPT ![c] = again]
           /\ peer' = [peer EXCEPT ![c] = NewSocket]
           /\ UNCHANGED <<nActive, ret>>
        \/ GiveUp(c, later, err)
        \/ GiveUp(c, dead, err)
    BY DEF RetryOrGiveUp
  <1> HIDE DEF dead
  <1>4. CASE GiveUp(c, dead, err)
    BY <1>2, <1>4 DEF Lost
  <1>5. CASE GiveUp(c, later, err)
    <2>1. later \in Connections /\ later.alive = FALSE /\ Same(later, conn[c])
          /\ later.got = dead.got /\ later.retires = dead.retires
      BY <1>2 DEF Connections, Same
    <2> HIDE DEF later
    <2>2. QED
      BY <1>2, <1>5, <2>1 DEF Lost
  <1>6. CASE /\ dead.retires <= MaxRetries
             /\ conn' = [conn EXCEPT ![c] = again]
             /\ peer' = [peer EXCEPT ![c] = NewSocket]
             /\ UNCHANGED <<nActive, ret>>
    <2>1. Connected(dead) \in Connections /\ Connected(dead).alive = TRUE
          /\ Same(Connected(dead), conn[c]) /\ Connected(dead).retires = dead.retires
      BY <1>2 DEF Connected, Connections, Same
    <2>2. again \in Connections
      <3>1. <<>> \in Seq(Packets)
        OBVIOUS
      <3>2. Rewound(Connected(dead)) \in Connections
        BY <2>1, <3>1 DEF Rewound, Connections
      <3>3. QED
        BY <3>2 DEF Connections
    <2>3. Fresh(again, conn[c])
      BY <1>2, <1>6, <2>1 DEF Fresh, Rewound, Connections, Same
    <2> HIDE DEF again
    <2>4. QED
      BY <1>6, <2>2, <2>3 DEF Retried, Local
  <1>7. QED
    BY <1>3, <1>4, <1>5, <1>6

LEMMA RetryTypes ==
  ASSUME TypeInv, NEW c \in active, NEW err \in Errors, RetryOrGiveUp(c, err),
         conn[c].alive, UNCHANGED commandVars
  PROVE  TypeInv'
  <1>1. c \in Conns /\ Typed(conn[c], peer[c], kind) /\ conn[c] \in Connections
        /\ nActive \in 0 .. CounterMod - 1 /\ ret \in Errors \cup {"OK"}
    BY DEF TypeInv
  <1>2. CASE Retried(c)
    <2>1. PICK k \in Connections : /\ Fresh(k, conn[c])
                                   /\ Local(c, k, NewSocket)
                                   /\ UNCHANGED <<nActive, ret>>
      BY <1>2 DEF Retried
    <2>2. Parts(kind, k.items) \in Nat
      BY PartsType, Fields
    <2>3. Typed(k, NewSocket, kind)
      <3>1. /\ k.items <= MaxItems /\ k.counter <= k.items /\ k.alive = TRUE
            /\ k.sent = 0 /\ k.retires <= MaxRetries /\ k.retires \in Nat
        BY <1>1, <2>1, Fields DEF Typed, Fresh
      <3>2. k.retires <= MaxRetries + 1 /\ k.sent <= Parts(kind, k.items)
        BY <2>2, <3>1, CounterType
      <3>3. QED
        BY <3>1, <3>2, NewSocketFields DEF Typed
    <2>4. QED
      BY <1>1, <2>1, <2>3, SocketsType, LocalTypes
  <1>3. CASE Lost(c, err)
    <2>1. PICK k \in Connections : /\ k.alive = FALSE /\ Same(k, conn[c])
                                   /\ k.retires = conn[c].retires + 1
                                   /\ GiveUp(c, k, err)
      BY <1>3 DEF Lost
    <2>2. k.retires <= MaxRetries + 1
      <3>1. conn[c].retires \in Nat /\ conn[c].retires <= MaxRetries
        BY <1>1, Fields DEF Typed
      <3>2. QED
        BY <2>1, <3>1, CounterType
    <2>3. QED
      BY <2>1, <2>2, GiveUpTypes
  <1>4. QED
    BY <1>1, <1>2, <1>3, RetryShape

-----------------------------------------------------------------------------
(* Sequences.                                                              *)

LEMMA TakenFirst ==
  ASSUME NEW S, NEW s \in Seq(S), NEW n \in 0 .. Len(s)
  PROVE  /\ SubSeq(s, 1, n) \in Seq(S) /\ Len(SubSeq(s, 1, n)) = n
         /\ \A i \in 1 .. n : SubSeq(s, 1, n)[i] = s[i]
  <1>1. Len(s) \in Nat /\ \A i \in 1 .. n : s[i] \in S
    BY LenProperties, ElementOfSeq
  <1>2. QED
    BY <1>1, SubSeqProperties

LEMMA LeftOver ==
  ASSUME NEW S, NEW s \in Seq(S), NEW n \in 0 .. Len(s)
  PROVE  /\ SubSeq(s, n + 1, Len(s)) \in Seq(S)
         /\ Len(SubSeq(s, n + 1, Len(s))) = Len(s) - n
         /\ \A i \in 1 .. Len(s) - n : SubSeq(s, n + 1, Len(s))[i] = s[n + i]
  <1>1. Len(s) \in Nat /\ \A i \in n + 1 .. Len(s) : s[i] \in S
    BY LenProperties, ElementOfSeq
  <1> DEFINE rest == SubSeq(s, n + 1, Len(s))
  <1>2. /\ rest \in Seq(S)
        /\ Len(rest) = IF n + 1 <= Len(s) THEN Len(s) - (n + 1) + 1 ELSE 0
        /\ \A i \in 1 .. Len(s) - (n + 1) + 1 : rest[i] = s[n + 1 + i - 1]
    BY <1>1, SubSeqProperties
  <1>3. \A i \in 1 .. Len(s) - n : n + 1 + i - 1 = n + i
    BY <1>1
  <1>4. QED
    BY <1>1, <1>2, <1>3

LEMMA ListedType ==
  ASSUME NEW S, NEW n \in Nat, NEW f \in [1 .. n -> S]
  PROVE  f \in Seq(S) /\ Len(f) = n
  <1>1. f \in Seq(S)
    BY SeqDef
  <1>2. DOMAIN f = 1 .. n /\ DOMAIN f = 1 .. Len(f) /\ Len(f) \in Nat
    BY <1>1, LenProperties
  <1>3. QED
    BY <1>1, <1>2

-----------------------------------------------------------------------------
(* The branches of the loop, a field at a time.                            *)

Keeps(k, old) ==
    /\ k.alive = old.alive /\ k.retires = old.retires
    /\ k.items = old.items /\ k.counter = old.counter

LEMMA PieceType ==
  ASSUME TypeInv, NEW c \in Conns, NEW i \in Nat
  PROVE  /\ Part(c, i) = Piece(cmd, kind, conn[c].items, i)
         /\ Part(c, i) \in Pieces
  <1>1. cmd \in Nat /\ conn[c].items \in Nat
    BY CounterType, Fields DEF TypeInv
  <1>2. kind \in AllKinds
    BY ConnectionPoolAssumption DEF TypeInv, AllKinds
  <1>3. (i + 1) \div 2 \in Nat /\ 2 - (i % 2) \in {1, 2}
    OBVIOUS
  <1>4. QED
    BY <1>1, <1>2, <1>3 DEF Part, Piece, Pieces

Sent(c, n, k, p) ==
    /\ Local(c, k, p) /\ Keeps(k, conn[c]) /\ k.got = conn[c].got
    /\ k.sent = conn[c].sent + n
    /\ k.events = {"in"} \cup IF AllSent(k, kind) THEN {} ELSE {"out"}
    /\ k.revents = conn[c].revents \ {"out"}
    /\ p.sock = peer[c].sock /\ p.replies = peer[c].replies
    /\ p.wire = peer[c].wire \o [i \in 1 .. n |-> Part(c, conn[c].sent + i)]
    /\ nActive' = IF AllSent(k, kind) /\ k.counter = 0
                    THEN Decrement(nActive) ELSE nActive

LEMMA SendShape ==
  ASSUME TypeInv, NEW c \in Conns, Send(c)
  PROVE  \E n \in 1 .. Parts(kind, conn[c].items) - conn[c].sent,
            k \in Connections, p \in Sockets : Sent(c, n, k, p)
  <1>1. /\ conn[c] \in Connections /\ peer[c] \in Sockets
        /\ conn \in [Conns -> Connections] /\ peer \in [Conns -> Sockets]
    BY DEF TypeInv
  <1>2. PICK n \in 1 .. Parts(kind, conn[c].items) - conn[c].sent :
         LET sent == conn[c].sent + n
             all  == sent = Parts(kind, conn[c].items)
         IN  /\ conn' = [conn EXCEPT
                  ![c].sent = sent,
                  ![c].events = {"in"} \cup IF all THEN {} ELSE {"out"},
                  ![c].revents = @ \ {"out"}]
             /\ peer' = [peer EXCEPT ![c].wire =
                  @ \o [i \in 1 .. n |-> Part(c, conn[c].sent + i)]]
             /\ nActive' = IF all /\ conn[c].counter = 0
                             THEN Decrement(nActive) ELSE nActive
    BY DEF Send
  <1> DEFINE sent == conn[c].sent + n
             all  == sent = Parts(kind, conn[c].items)
             ev == {"in"} \cup IF all THEN {} ELSE {"out"}
             rev == conn[c].revents \ {"out"}
             more == [i \in 1 .. n |-> Part(c, conn[c].sent + i)]
             wire == peer[c].wire \o more
             k == [conn[c] EXCEPT !.sent = sent, !.events = ev, !.revents = rev]
             p == [peer[c] EXCEPT !.wire = wire]
  <1>3. conn[c].sent \in Nat /\ n \in Nat /\ sent \in Nat
    <2>1. conn[c].sent \in Nat /\ Parts(kind, conn[c].items) \in Nat
      BY <1>1, Fields, PartsType
    <2>2. QED
      BY <2>1
  <1>4. Local(c, k, p)
    BY <1>1, <1>2 DEF Local
  <1>5. more \in Seq(Pieces) /\ Len(more) = n
    <2>1. \A i \in 1 .. n : Part(c, conn[c].sent + i) \in Pieces
      BY <1>3, PieceType
    <2>2. more \in [1 .. n -> Pieces]
      BY <2>1
    <2>3. QED
      BY <1>3, <2>2, ListedType
  <1>6. wire \in Seq(Pieces)
    <2>1. peer[c].wire \in Seq(Pieces)
      BY <1>1 DEF Sockets
    <2> HIDE DEF more
    <2>2. QED
      BY <1>5, <2>1, ConcatProperties
  <1> HIDE DEF wire
  <1>7. p \in Sockets /\ p.sock = peer[c].sock /\ p.replies = peer[c].replies
        /\ p.wire = wire
    BY <1>1, <1>6 DEF Sockets
  <1>8. ev \in SUBSET {"in", "out"} /\ rev \in SUBSET {"hup", "peek", "in", "out"}
    BY <1>1, Fields
  <1>9. nActive' = IF all /\ conn[c].counter = 0
                     THEN Decrement(nActive) ELSE nActive
    BY <1>2
  <1> HIDE DEF ev, rev, sent
  <1>10. /\ k \in Connections /\ Keeps(k, conn[c]) /\ k.got = conn[c].got
         /\ k.sent = sent /\ k.events = ev /\ k.revents = rev
    BY <1>1, <1>3, <1>8 DEF Connections, Keeps
  <1> HIDE DEF k, p
  <1>11. AllSent(k, kind) <=> all
    BY <1>10 DEF AllSent, Keeps
  <1>12. Sent(c, n, k, p)
    BY <1>4, <1>7, <1>9, <1>10, <1>11 DEF Sent, Keeps, ev, rev, sent, wire
  <1>13. QED
    BY <1>7, <1>10, <1>12

\* What Recv parses of the packets that wait to be read.
Parsed(c, i) == conn[c].got \o SubSeq(peer[c].replies, 1, i)
Bad(c, i) == i > 0 /\ peer[c].replies[i].type = "ERR"

\* The parser stops at packet s of the n received.
StopsAt(c, n, s) ==
    /\ s \in 0 .. n
    /\ CanEnd(c, Parsed(c, s)) \/ Bad(c, s) \/ s = n
    /\ \A i \in 0 .. n : i < s => ~CanEnd(c, Parsed(c, i)) /\ ~Bad(c, i)

Refusal(c, s) ==
    /\ Bad(c, s)
    /\ \E k \in Connections, err \in Errors :
         /\ k.alive = FALSE /\ Same(k, conn[c])
         /\ k.retires = conn[c].retires
         /\ k.got = Parsed(c, s - 1)
         /\ GiveUp(c, k, err)

Received(c, n, s, k, p) ==
    /\ ~Bad(c, s)
    /\ Local(c, k, p) /\ Keeps(k, conn[c]) /\ k.sent = conn[c].sent
    /\ k.got = Parsed(c, s) /\ k.revents = {}
    /\ k.events = IF CanEnd(c, Parsed(c, s)) THEN conn[c].events \ {"in"}
                                             ELSE conn[c].events
    /\ p.sock = peer[c].sock /\ p.wire = peer[c].wire
    /\ p.replies = SubSeq(peer[c].replies, n + 1, Len(peer[c].replies))
    /\ nActive' = IF CanEnd(c, Parsed(c, s)) THEN Decrement(nActive) ELSE nActive
    /\ ret' = ret

LEMMA ParsedType ==
  ASSUME TypeInv, NEW c \in Conns, NEW i \in 0 .. Len(peer[c].replies)
  PROVE  /\ Parsed(c, i) \in Seq(Packets)
         /\ Len(Parsed(c, i)) = Len(conn[c].got) + i
         /\ \A j \in 1 .. Len(conn[c].got) : Parsed(c, i)[j] = conn[c].got[j]
         /\ \A j \in 1 .. i : Parsed(c, i)[Len(conn[c].got) + j] = peer[c].replies[j]
  <1> DEFINE g == conn[c].got
             r == peer[c].replies
             first == SubSeq(r, 1, i)
  <1>1. g \in Seq(Packets) /\ r \in Seq(Packets)
    BY DEF TypeInv, Connections, Sockets
  <1>2. /\ Len(g) \in Nat /\ Len(r) \in Nat /\ i \in Nat
    BY <1>1, LenProperties
  <1>3. first \in Seq(Packets) /\ Len(first) = i
        /\ \A j \in 1 .. i : first[j] = r[j]
    <2> HIDE DEF r
    <2>1. QED
      BY <1>1, TakenFirst DEF r
  <1> HIDE DEF first, g, r
  <1>4. /\ g \o first \in Seq(Packets)
        /\ Len(g \o first) = Len(g) + Len(first)
        /\ \A j \in 1 .. Len(g) + Len(first) : (g \o first)[j] =
             IF j <= Len(g) THEN g[j] ELSE first[j - Len(g)]
    BY <1>1, <1>3, ConcatProperties
  <1>5. \A j \in 1 .. Len(g) : (g \o first)[j] = g[j]
    BY <1>2, <1>3, <1>4
  <1>6. \A j \in 1 .. i : (g \o first)[Len(g) + j] = r[j]
    <2> TAKE j \in 1 .. i
    <2>1. /\ Len(g) + j \in 1 .. Len(g) + Len(first) /\ ~(Len(g) + j <= Len(g))
          /\ Len(g) + j - Len(g) = j
      BY <1>2, <1>3
    <2>2. QED
      BY <1>3, <1>4, <2>1
  <1>7. QED
    BY <1>3, <1>4, <1>5, <1>6 DEF Parsed, g, r, first

LEMMA RecvShape ==
  ASSUME TypeInv, NEW c \in Conns, Recv(c)
  PROVE  \E n \in 1 .. Len(peer[c].replies) : \E s \in 0 .. n :
           /\ StopsAt(c, n, s)
           /\ \/ Refusal(c, s)
              \/ \E k \in Connections, p \in Sockets : Received(c, n, s, k, p)
  <1>1. /\ conn[c] \in Connections /\ peer[c] \in Sockets
        /\ conn \in [Conns -> Connections] /\ peer \in [Conns -> Sockets]
        /\ Len(peer[c].replies) \in Nat
    <2>1. conn \in [Conns -> Connections] /\ peer \in [Conns -> Sockets]
      BY DEF TypeInv
    <2>2. peer[c].replies \in Seq(Packets)
      BY <2>1 DEF Sockets
    <2>3. QED
      BY <2>1, <2>2, LenProperties
  <1>2. PICK n \in 1 .. Len(peer[c].replies) :
         LET taken(i) == conn[c].got \o SubSeq(peer[c].replies, 1, i)
             bad(i) == i > 0 /\ peer[c].replies[i].type = "ERR"
             stop == Min({i \in 0 .. n : CanEnd(c, taken(i)) \/ bad(i) \/ i = n})
             done == CanEnd(c, taken(stop)) /\ ~bad(stop)
         IN  \/ /\ bad(stop)
                /\ \E err \in {"PROGRAMMING_ERR", "MC_SERVER_ERR"} :
                     GiveUp(c, [Dead(conn[c]) EXCEPT !.got = taken(stop - 1)], err)
             \/ /\ ~bad(stop)
                /\ conn' = [conn EXCEPT
                     ![c].got = taken(stop),
                     ![c].events = IF done THEN @ \ {"in"} ELSE @,
                     ![c].revents = {}]
                /\ peer' = [peer EXCEPT ![c].replies = SubSeq(@, n + 1, Len(@))]
                /\ nActive' = IF done THEN Decrement(nActive) ELSE nActive
                /\ UNCHANGED ret
    BY DEF Recv
  <1> DEFINE stops == {i \in 0 .. n : CanEnd(c, Parsed(c, i)) \/ Bad(c, i) \/ i = n}
             s == Min(stops)
             done == CanEnd(c, Parsed(c, s)) /\ ~Bad(c, s)
  <1>3. \/ /\ Bad(c, s)
           /\ \E err \in {"PROGRAMMING_ERR", "MC_SERVER_ERR"} :
                GiveUp(c, [Dead(conn[c]) EXCEPT !.got = Parsed(c, s - 1)], err)
        \/ /\ ~Bad(c, s)
           /\ conn' = [conn EXCEPT
                ![c].got = Parsed(c, s),
                ![c].events = IF done THEN @ \ {"in"} ELSE @,
                ![c].revents = {}]
           /\ peer' = [peer EXCEPT ![c].replies = SubSeq(@, n + 1, Len(@))]
           /\ nActive' = IF done THEN Decrement(nActive) ELSE nActive
           /\ UNCHANGED ret
    BY <1>2 DEF Parsed, Bad
  <1>4. StopsAt(c, n, s)
    <2>1. stops \in SUBSET Nat /\ n \in stops
      BY <1>1
    <2> HIDE DEF stops
    <2>2. s \in stops /\ \A i \in stops : s <= i
      BY <2>1, Least
    <2> HIDE DEF s
    <2>3. s \in 0 .. n /\ (CanEnd(c, Parsed(c, s)) \/ Bad(c, s) \/ s = n)
      BY <2>2 DEF stops
    <2>4. ASSUME NEW i \in 0 .. n, i < s
          PROVE  ~CanEnd(c, Parsed(c, i)) /\ ~Bad(c, i)
      <3>1. i \notin stops
        BY <2>2, <2>3, <2>4
      <3>2. QED
        BY <3>1 DEF stops
    <2>5. QED
      BY <2>3, <2>4 DEF StopsAt
  <1> HIDE DEF s
  <1>5. s \in 0 .. n /\ s \in 0 .. Len(peer[c].replies) /\ n \in 0 .. Len(peer[c].replies)
    BY <1>1, <1>4 DEF StopsAt
  <1>6. CASE /\ Bad(c, s)
             /\ \E err \in {"PROGRAMMING_ERR", "MC_SERVER_ERR"} :
                  GiveUp(c, [Dead(conn[c]) EXCEPT !.got = Parsed(c, s - 1)], err)
    <2> DEFINE dead == Dead(conn[c])
               k == [dead EXCEPT !.got = Parsed(c, s - 1)]
    <2>1. PICK err \in Errors : GiveUp(c, k, err)
      BY <1>6 DEF Errors
    <2>2. s - 1 \in 0 .. Len(peer[c].replies)
      BY <1>1, <1>5, <1>6 DEF Bad
    <2>3. Parsed(c, s - 1) \in Seq(Packets)
      BY <2>2, ParsedType
    <2>4. /\ dead \in Connections /\ dead.alive = FALSE /\ Same(dead, conn[c])
          /\ dead.retires = conn[c].retires
      BY <1>1, DeadType DEF Same
    <2> HIDE DEF dead
    <2>5. /\ k \in Connections /\ k.alive = FALSE /\ Same(k, conn[c])
          /\ k.retires = conn[c].retires /\ k.got = Parsed(c, s - 1)
      BY <2>3, <2>4 DEF Connections, Same
    <2> HIDE DEF k
    <2>6. Refusal(c, s)
      BY <1>6, <2>1, <2>5 DEF Refusal
    <2>7. QED
      BY <1>4, <1>5, <2>6
  <1>7. CASE /\ ~Bad(c, s)
             /\ conn' = [conn EXCEPT
                  ![c].got = Parsed(c, s),
                  ![c].events = IF done THEN @ \ {"in"} ELSE @,
                  ![c].revents = {}]
             /\ peer' = [peer EXCEPT ![c].replies = SubSeq(@, n + 1, Len(@))]
             /\ nActive' = IF done THEN Decrement(nActive) ELSE nActive
             /\ UNCHANGED ret
    <2> DEFINE got == Parsed(c, s)
               ev == IF done THEN conn[c].events \ {"in"} ELSE conn[c].events
               rest == SubSeq(peer[c].replies, n + 1, Len(peer[c].replies))
               k == [conn[c] EXCEPT !.got = got, !.events = ev, !.revents = {}]
               p == [peer[c] EXCEPT !.replies = rest]
    <2>1. Local(c, k, p)
      BY <1>1, <1>7 DEF Local
    <2>2. got \in Seq(Packets) /\ ev \in SUBSET {"in", "out"}
      BY <1>1, <1>5, ParsedType, Fields
    <2>3. rest \in Seq(Packets)
      <3>1. peer[c].replies \in Seq(Packets)
        BY <1>1 DEF Sockets
      <3>2. QED
        BY <1>5, <3>1, LeftOver
    <2>4. done <=> CanEnd(c, got)
      BY <1>7
    <2>5. /\ nActive' = IF done THEN Decrement(nActive) ELSE nActive
          /\ ret' = ret
      BY <1>7
    <2> HIDE DEF got, ev, rest
    <2>6. /\ k \in Connections /\ Keeps(k, conn[c]) /\ k.sent = conn[c].sent
          /\ k.got = got /\ k.events = ev /\ k.revents = {}
      BY <1>1, <2>2 DEF Connections, Keeps
    <2>7. /\ p \in Sockets /\ p.sock = peer[c].sock /\ p.wire = peer[c].wire
          /\ p.replies = rest
      BY <1>1, <2>3 DEF Sockets
    <2> HIDE DEF k, p, done
    <2>8. Received(c, n, s, k, p)
      BY <1>7, <2>1, <2>4, <2>5, <2>6, <2>7 DEF Received, got, ev, rest
    <2>9. QED
      BY <1>4, <1>5, <2>6, <2>7, <2>8
  <1>8. QED
    BY <1>3, <1>6, <1>7

\* The connection died while idle, and another takes its place.
Reopened(c, k) ==
    /\ Local(c, k, NewSocket) /\ k.alive = TRUE /\ k.retires = conn[c].retires
    /\ Same(k, conn[c]) /\ k.got = conn[c].got
    /\ k.events = {"out"} /\ k.revents = {}
    /\ UNCHANGED <<nActive, ret>>

Closed(c) ==
    \E k \in Connections : /\ k.alive = FALSE /\ Same(k, conn[c])
                           /\ k.got = conn[c].got
                           /\ k.retires = conn[c].retires
                           /\ GiveUp(c, k, "RECV_ERR")

LEMMA PeekClosedShape ==
  ASSUME TypeInv, NEW c \in Conns, PeekClosed(c)
  PROVE  (\E k \in Connections : Reopened(c, k)) \/ Closed(c)
  <1>1. conn[c] \in Connections
    BY DEF TypeInv
  <1> DEFINE again == [Connected(conn[c]) EXCEPT !.events = {"out"}, !.revents = {}]
             dead == Dead(conn[c])
             later == [dead EXCEPT !.backoff = TRUE]
  <1>2. CASE /\ conn' = [conn EXCEPT ![c] = [Connected(@) EXCEPT
                                           !.events = {"out"}, !.revents = {}]]
             /\ peer' = [peer EXCEPT ![c] = NewSocket]
             /\ UNCHANGED <<nActive, ret>>
    <2>1. conn \in [Conns -> Connections]
      BY DEF TypeInv
    <2>2. conn' = [conn EXCEPT ![c] = again]
      BY <1>2, <2>1
    <2>3. Connected(conn[c]) \in Connections
      BY <1>1, ConnectedType
    <2>4. /\ Connected(conn[c]).alive = TRUE /\ Same(Connected(conn[c]), conn[c])
          /\ Connected(conn[c]).retires = conn[c].retires
          /\ Connected(conn[c]).got = conn[c].got
      BY <1>1 DEF Connected, Connections, Same
    <2>5. /\ again \in Connections /\ again.alive = TRUE /\ Same(again, conn[c])
          /\ again.retires = conn[c].retires /\ again.got = conn[c].got
          /\ again.events = {"out"} /\ again.revents = {}
      BY <2>3, <2>4 DEF Connections, Same
    <2> HIDE DEF again
    <2>6. Reopened(c, again)
      BY <1>2, <2>2, <2>5 DEF Reopened, Local
    <2>7. QED
      BY <2>5, <2>6
  <1>3. CASE GiveUp(c, later, "RECV_ERR")
    <2>1. /\ dead \in Connections /\ dead.alive = FALSE /\ Same(dead, conn[c])
          /\ dead.retires = conn[c].retires /\ dead.got = conn[c].got
      BY <1>1, DeadType DEF Same
    <2> HIDE DEF dead
    <2>2. /\ later \in Connections /\ later.alive = FALSE /\ Same(later, conn[c])
          /\ later.retires = conn[c].retires /\ later.got = conn[c].got
      BY <2>1 DEF Connections, Same
    <2> HIDE DEF later
    <2>3. QED
      BY <1>3, <2>2 DEF Closed
  <1>4. QED
    BY <1>2, <1>3 DEF PeekClosed

\* There is something to read: POLLIN is not asked for until all is sent.
Peeked(c, k) ==
    /\ Local(c, k, peer[c]) /\ Keeps(k, conn[c]) /\ k.got = conn[c].got
    /\ k.sent = conn[c].sent
    /\ k.events = conn[c].events \ {"in"} /\ k.revents = conn[c].revents \ {"peek"}
    /\ UNCHANGED <<nActive, ret>>

LEMMA PeekDataShape ==
  ASSUME TypeInv, NEW c \in Conns, PeekData(c)
  PROVE  \E k \in Connections : Peeked(c, k)
  <1>1. conn[c] \in Connections /\ conn \in [Conns -> Connections]
        /\ peer \in [Conns -> Sockets]
    BY DEF TypeInv
  <1> DEFINE ev == conn[c].events \ {"in"}
             rev == conn[c].revents \ {"peek"}
             k == [conn[c] EXCEPT !.events = ev, !.revents = rev]
  <1>2. conn' = [conn EXCEPT ![c] = k] /\ peer' = peer /\ UNCHANGED <<nActive, ret>>
    BY <1>1 DEF PeekData
  <1>3. ev \in SUBSET {"in", "out"} /\ rev \in SUBSET {"hup", "peek", "in", "out"}
    BY <1>1, Fields
  <1> HIDE DEF ev, rev
  <1>4. /\ k \in Connections /\ Keeps(k, conn[c]) /\ k.got = conn[c].got
        /\ k.sent = conn[c].sent /\ k.events = ev /\ k.revents = rev
    BY <1>1, <1>3 DEF Connections, Keeps
  <1> HIDE DEF k
  <1>5. peer' = [peer EXCEPT ![c] = peer[c]]
    BY <1>1, <1>2
  <1>6. Peeked(c, k)
    BY <1>2, <1>4, <1>5 DEF Peeked, Local, ev, rev
  <1>7. QED
    BY <1>4, <1>6

LEMMA ServedAlive ==
  ASSUME TypeInv, NEW c \in Conns, Turn(c)
  PROVE  conn[c].alive /\ c \in active /\ pc = "poll"
  BY DEF TypeInv, Typed, Turn

LEMMA ServeTypes ==
  ASSUME TypeInv, NEW c \in Conns, Serve(c)
  PROVE  TypeInv'
  <1>1. UNCHANGED commandVars
    BY DEF Serve, HandleHup, PeekClosed, PeekData, SendFails, Send, RecvFails,
           Recv, commandVars
  <1>2. Turn(c)
    BY DEF Serve, HandleHup, PeekClosed, PeekData, SendFails, Send, RecvFails,
           Recv, Peeking, Sending, Receiving
  <1>3. conn[c].alive /\ c \in active
    BY <1>2, ServedAlive
  <1>4. /\ conn[c] \in Connections /\ peer[c] \in Sockets
        /\ Typed(conn[c], peer[c], kind) /\ nActive \in 0 .. CounterMod - 1
        /\ Decrement(nActive) \in 0 .. CounterMod - 1
        /\ ret \in Errors \cup {"OK"}
    BY CounterType DEF TypeInv
  <1>5. CASE HandleHup(c) \/ SendFails(c) \/ RecvFails(c)
    <2>1. PICK err \in Errors : RetryOrGiveUp(c, err)
      BY <1>5 DEF HandleHup, SendFails, RecvFails, Errors
    <2>2. QED
      BY <1>1, <1>3, <2>1, RetryTypes
  <1>6. CASE PeekClosed(c)
    <2>1. ASSUME NEW k \in Connections, Reopened(c, k)
          PROVE  TypeInv'
      <3>1. Typed(k, NewSocket, kind)
        <4>1. /\ k.alive = TRUE /\ k.retires = conn[c].retires
              /\ k.items = conn[c].items /\ k.counter = conn[c].counter
              /\ k.sent = conn[c].sent /\ k.revents = {}
          BY <2>1 DEF Reopened, Same
        <4>2. QED
          BY <1>3, <1>4, <4>1, NewSocketFields DEF Typed
      <3>2. QED
        BY <1>1, <1>3, <1>4, <2>1, <3>1, SocketsType, LocalTypes DEF Reopened
    <2>2. ASSUME Closed(c)
          PROVE  TypeInv'
      <3>1. PICK k \in Connections : /\ k.alive = FALSE /\ Same(k, conn[c])
                                     /\ k.retires = conn[c].retires
                                     /\ GiveUp(c, k, "RECV_ERR")
        BY <2>2 DEF Closed
      <3>2. k.retires <= MaxRetries + 1 /\ "RECV_ERR" \in Errors
        BY <1>4, <3>1 DEF Typed, Errors
      <3>3. QED
        BY <1>1, <1>3, <3>1, <3>2, GiveUpTypes
    <2>3. QED
      BY <1>6, <2>1, <2>2, PeekClosedShape
  <1>7. CASE PeekData(c)
    <2>1. PICK k \in Connections : Peeked(c, k)
      BY <1>7, PeekDataShape
    <2>2. Typed(k, peer[c], kind)
      <3>1. /\ k.alive = conn[c].alive /\ k.retires = conn[c].retires
            /\ k.items = conn[c].items /\ k.counter = conn[c].counter
            /\ k.sent = conn[c].sent
        BY <2>1 DEF Peeked, Keeps
      <3>2. QED
        BY <1>3, <1>4, <3>1 DEF Typed
    <2>3. QED
      BY <1>1, <1>3, <1>4, <2>1, <2>2, LocalTypes DEF Peeked
  <1>8. CASE Send(c)
    <2>1. PICK n \in 1 .. Parts(kind, conn[c].items) - conn[c].sent,
               k \in Connections, p \in Sockets : Sent(c, n, k, p)
      BY <1>8, SendShape
    <2>2. Typed(k, p, kind)
      <3>1. /\ k.alive = conn[c].alive /\ k.retires = conn[c].retires
            /\ k.items = conn[c].items /\ k.counter = conn[c].counter
            /\ k.sent = conn[c].sent + n /\ p.sock = peer[c].sock
        BY <2>1 DEF Sent, Keeps
      <3>2. k.sent <= Parts(kind, k.items)
        <4>1. conn[c].sent \in Nat /\ Parts(kind, conn[c].items) \in Nat
          BY <1>4, Fields, PartsType
        <4>2. QED
          BY <3>1, <4>1
      <3>3. p.sock # "rst"
        BY <1>8, <3>1 DEF Send
      <3>4. QED
        BY <1>3, <1>4, <3>1, <3>2, <3>3 DEF Typed
    <2>3. nActive' \in 0 .. CounterMod - 1 /\ ret' = ret
      BY <1>4, <1>8, <2>1 DEF Sent, Send
    <2>4. QED
      BY <1>1, <1>3, <1>4, <2>1, <2>2, <2>3, LocalTypes DEF Sent
  <1>9. CASE Recv(c)
    <2>1. PICK n \in 1 .. Len(peer[c].replies) : \E s \in 0 .. n :
             \/ Refusal(c, s)
             \/ \E k \in Connections, p \in Sockets : Received(c, n, s, k, p)
      BY <1>9, RecvShape
    <2>2. PICK s \in 0 .. n :
             \/ Refusal(c, s)
             \/ \E k \in Connections, p \in Sockets : Received(c, n, s, k, p)
      BY <2>1
    <2>3. ASSUME NEW k \in Connections, NEW p \in Sockets, Received(c, n, s, k, p)
          PROVE  TypeInv'
      <3>1. /\ k.alive = conn[c].alive /\ k.retires = conn[c].retires
            /\ k.items = conn[c].items /\ k.counter = conn[c].counter
            /\ k.sent = conn[c].sent /\ p.sock = peer[c].sock
            /\ p.wire = peer[c].wire
        BY <2>3 DEF Received, Keeps
      <3>2. Typed(k, p, kind)
        BY <1>3, <1>4, <3>1 DEF Typed
      <3>3. nActive' \in 0 .. CounterMod - 1 /\ ret' = ret
        BY <1>4, <2>3 DEF Received
      <3>4. QED
        BY <1>1, <1>3, <1>4, <2>3, <3>2, <3>3, LocalTypes DEF Received
    <2>4. ASSUME Refusal(c, s)
          PROVE  TypeInv'
      <3>1. PICK k \in Connections, err \in Errors :
               /\ k.alive = FALSE /\ Same(k, conn[c])
               /\ k.retires = conn[c].retires
               /\ GiveUp(c, k, err)
        BY <2>4 DEF Refusal
      <3>2. k.retires <= MaxRetries + 1
        BY <1>4, <3>1 DEF Typed
      <3>3. QED
        BY <1>1, <1>3, <3>1, <3>2, GiveUpTypes
    <2>5. QED
      BY <2>2, <2>3, <2>4
  <1>10. QED
    BY <1>5, <1>6, <1>7, <1>8, <1>9 DEF Serve

LEMMA ResetType ==
  ASSUME NEW k \in Connections
  PROVE  /\ Reset(k) \in Connections /\ Cleared(Reset(k))
         /\ Reset(k).alive = k.alive
  <1>1. <<>> \in Seq(Packets)
    OBVIOUS
  <1>2. QED
    BY <1>1 DEF Reset, Connections, Cleared

LEMMA ClearedTyped ==
  ASSUME NEW k \in Connections, NEW p \in Sockets, NEW kd, Cleared(k),
         k.alive <=> p.sock # "none", p.sock = "rst" => p.wire = <<>>
  PROVE  Typed(k, p, kd)
  <1>1. 0 <= Parts(kd, 0)
    BY PartsType
  <1>2. QED
    BY <1>1, CounterType DEF Typed, Cleared

LEMMA CollectTypes ==
  ASSUME TypeInv, Collect
  PROVE  TypeInv'
  <1>1. ASSUME NEW c \in Conns
        PROVE  /\ conn'[c] \in Connections /\ peer'[c] \in Sockets
               /\ Typed(conn'[c], peer'[c], kind) /\ Cleared(conn'[c])
    <2>1. /\ conn[c] \in Connections /\ peer[c] \in Sockets
          /\ Typed(conn[c], peer[c], kind) /\ (c \notin active => Cleared(conn[c]))
      BY DEF TypeInv
    <2>2. CASE c \in ClosedByQuit
      <3>1. conn'[c] = Reset(Dead(conn[c])) /\ peer'[c] = NoSocket
        BY <2>2 DEF Collect
      <3>2. Dead(conn[c]) \in Connections /\ Dead(conn[c]).alive = FALSE
        BY <2>1, DeadType
      <3>3. conn'[c] \in Connections /\ Cleared(conn'[c]) /\ conn'[c].alive = FALSE
        BY <3>1, <3>2, ResetType
      <3>4. QED
        BY <3>1, <3>3, SocketsType, NewSocketFields, ClearedTyped
    <2>3. CASE c \in active \ ClosedByQuit
      <3>1. conn'[c] = Reset(conn[c]) /\ peer'[c] = peer[c]
        BY <2>3 DEF Collect
      <3>2. conn'[c] \in Connections /\ Cleared(conn'[c])
            /\ conn'[c].alive = conn[c].alive
        BY <2>1, <3>1, ResetType
      <3>3. QED
        BY <2>1, <3>1, <3>2, ClearedTyped DEF Typed
    <2>4. CASE c \notin active
      <3>1. c \notin ClosedByQuit
        BY <2>4 DEF ClosedByQuit
      <3>2. conn'[c] = conn[c] /\ peer'[c] = peer[c]
        BY <2>4, <3>1 DEF Collect
      <3>3. QED
        BY <2>1, <2>4, <3>2
    <2>5. QED
      BY <2>2, <2>3, <2>4
  <1>2. conn' \in [Conns -> Connections] /\ peer' \in [Conns -> Sockets]
    BY <1>1 DEF Collect
  <1>3. QED
    BY <1>1, <1>2, CounterType DEF TypeInv, Collect

LEMMA UpdateServersTypes ==
  ASSUME TypeInv, UpdateServers
  PROVE  TypeInv'
  <1>1. PICK changed \in SUBSET Conns :
         /\ conn' = [c \in Conns |->
              CASE c \in changed /\ conn[c].alive -> Reset(Dead(conn[c]))
                [] c \in changed /\ ~conn[c].alive -> Reset(conn[c])
                [] OTHER -> conn[c]]
         /\ peer' = [c \in Conns |->
              IF c \in changed THEN NoSocket ELSE peer[c]]
    BY DEF UpdateServers
  <1>2. pc = "idle" /\ UNCHANGED <<pc, cmd, kind, active, nActive, ret>>
    BY DEF UpdateServers
  <1>3. ASSUME NEW c \in Conns
        PROVE  /\ conn'[c] \in Connections /\ peer'[c] \in Sockets
               /\ Typed(conn'[c], peer'[c], kind) /\ Cleared(conn'[c])
    <2>1. /\ conn[c] \in Connections /\ peer[c] \in Sockets
          /\ Typed(conn[c], peer[c], kind) /\ Cleared(conn[c])
      BY <1>2 DEF TypeInv
    <2>2. CASE c \in changed
      <3>1. Dead(conn[c]) \in Connections /\ Dead(conn[c]).alive = FALSE
        BY <2>1, DeadType
      <3>2. \E k \in Connections : k.alive = FALSE /\ conn'[c] = Reset(k)
        <4>1. CASE conn[c].alive
          <5>1. conn'[c] = Reset(Dead(conn[c]))
            BY <1>1, <2>2, <4>1
          <5>2. QED
            BY <3>1, <5>1
        <4>2. CASE ~conn[c].alive
          <5>1. conn'[c] = Reset(conn[c])
            BY <1>1, <2>2, <4>2
          <5>2. conn[c].alive = FALSE
            BY <2>1, <4>2, Fields
          <5>3. QED
            BY <2>1, <5>1, <5>2
        <4>3. QED
          BY <4>1, <4>2
      <3>3. conn'[c] \in Connections /\ Cleared(conn'[c]) /\ conn'[c].alive = FALSE
        BY <3>2, ResetType
      <3>4. peer'[c] = NoSocket
        BY <1>1, <2>2
      <3>5. QED
        BY <3>3, <3>4, SocketsType, NewSocketFields, ClearedTyped
    <2>3. CASE c \notin changed
      <3>1. conn'[c] = conn[c] /\ peer'[c] = peer[c]
        BY <1>1, <2>3
      <3>2. QED
        BY <2>1, <3>1
    <2>4. QED
      BY <2>2, <2>3
  <1>4. conn' \in [Conns -> Connections] /\ peer' \in [Conns -> Sockets]
    BY <1>1, <1>3
  <1>5. QED
    BY <1>2, <1>3, <1>4 DEF TypeInv

LEMMA ReturnTypes ==
  ASSUME TypeInv, Return
  PROVE  TypeInv'
  BY DEF TypeInv, Return

-----------------------------------------------------------------------------
(* The environment changes one socket, or ends a back-off.                 *)

\* The socket of c becomes p.
Answering(c, p, answer) ==
    /\ p.sock = "open" /\ Len(peer[c].wire) > 1
    /\ peer[c].sock = "open"
    /\ answer \in Answers(peer[c].wire[1], peer[c].wire[2])
    /\ p.wire = SubSeq(peer[c].wire, 3, Len(peer[c].wire))
    /\ p.replies = peer[c].replies \o answer

Refusing(c, p) ==
    /\ "unasked_line" \in Faults /\ pc = "poll" /\ c \in active
    /\ peer[c].sock = "open" /\ peer[c].replies = <<>> /\ conn[c].sent = 0
    /\ p.sock = "fin" /\ p.wire = <<>>
    /\ Len(p.replies) = 1 /\ p.replies[1].type = "ERR"

Closing(c, p) ==
    /\ InNoreply(c) => "noreply_close" \in Faults
    /\ peer[c].sock = "open"
    /\ p.sock = "fin" /\ p.wire = peer[c].wire /\ p.replies = peer[c].replies

Resetting(c, p) ==
    /\ Answered(c) => "late_reset" \in Faults
    /\ peer[c].sock \in {"open", "fin"}
    /\ p.sock = "rst" /\ p.wire = <<>> /\ p.replies = peer[c].replies

LEMMA AnswerType ==
  ASSUME NEW p \in Pieces
  PROVE  Answer(p) \in Seq(Packets) /\ <<Packet(p, "ERR")>> \in Seq(Packets)
  <1>1. ASSUME NEW t \in {"VALUE", "END", "MSG", "ERR"}
        PROVE  Packet(p, t) \in Packets
    BY DEF Packet, Packets, Pieces
  <1>2. ASSUME NEW t \in {"VALUE", "END", "MSG", "ERR"}
        PROVE  <<Packet(p, t)>> \in Seq(Packets)
    BY <1>1
  <1>3. <<>> \in Seq(Packets)
    OBVIOUS
  <1>4. ASSUME p.kind = "retrieval"
        PROVE  Answer(p) \in Seq(Packets)
    <2>1. p.n \in Nat
      BY DEF Pieces
    <2>2. ASSUME NEW i \in 1 .. p.n + 1
          PROVE  (IF i <= p.n THEN Packet([p EXCEPT !.item = i], "VALUE")
                              ELSE Packet(p, "END")) \in Packets
      <3>1. [p EXCEPT !.item = i] \in Pieces
        BY <2>1 DEF Pieces
      <3>2. Packet([p EXCEPT !.item = i], "VALUE") \in Packets
        BY <3>1 DEF Packet, Packets, Pieces
      <3>3. QED
        BY <1>1, <3>2
    <2> DEFINE f == [i \in 1 .. p.n + 1 |->
              IF i <= p.n THEN Packet([p EXCEPT !.item = i], "VALUE")
                          ELSE Packet(p, "END")]
    <2>3. f \in [1 .. p.n + 1 -> Packets] /\ p.n + 1 \in Nat
      BY <2>1, <2>2
    <2>4. f \in Seq(Packets)
      <3> HIDE DEF f
      <3>1. QED
        BY <2>3, ListedType
    <2>5. Answer(p) = f
      BY <1>4 DEF Answer
    <2>6. QED
      BY <2>4, <2>5
  <1>5. ASSUME p.kind # "retrieval"
        PROVE  Answer(p) \in {<<Packet(p, "MSG")>>, <<Packet(p, "END")>>, <<>>}
    BY <1>5 DEF Answer
  <1>6. QED
    BY <1>2, <1>3, <1>4, <1>5

OneSocketChanges(c, p) ==
    /\ peer' = [peer EXCEPT ![c] = p]
    /\ UNCHANGED <<pc, cmd, kind, active, nActive, ret, conn>>

LEMMA AnswersType ==
  ASSUME NEW p \in Pieces, NEW q \in Pieces, NEW answer \in Answers(p, q)
  PROVE  /\ answer \in Seq(Packets)
         /\ answer = <<Packet(q, "ERR")>> \/ answer = Answer(q)
  BY AnswerType DEF Answers

LEMMA ServerShape ==
  ASSUME TypeInv, NEW c \in Conns,
         \/ ServerAnswers(c) \/ ServerRefuses(c) \/ PeerCloses(c) \/ PeerResets(c)
  PROVE  \E p \in Sockets :
           /\ OneSocketChanges(c, p)
           /\ \/ \E answer \in Seq(Packets) : Answering(c, p, answer)
              \/ Refusing(c, p) \/ Closing(c, p) \/ Resetting(c, p)
  <1>1. peer[c] \in Sockets /\ peer \in [Conns -> Sockets]
    BY DEF TypeInv
  <1>2. peer[c].wire \in Seq(Pieces) /\ peer[c].replies \in Seq(Packets)
    BY <1>1 DEF Sockets
  <1>3. CASE ServerAnswers(c)
    <2> DEFINE w == peer[c].wire
    <2>1. PICK answer \in Answers(w[1], w[2]) :
            peer' = [peer EXCEPT ![c].wire = SubSeq(@, 3, Len(@)),
                                 ![c].replies = @ \o answer]
      BY <1>3 DEF ServerAnswers
    <2>2. peer[c].sock = "open" /\ Len(w) > 1
          /\ UNCHANGED <<pc, cmd, kind, active, nActive, ret, conn>>
      BY <1>3 DEF ServerAnswers
    <2>3. Len(w) \in Nat /\ w[1] \in Pieces /\ w[2] \in Pieces
      <3>1. Len(w) \in Nat
        BY <1>2, LenProperties
      <3>2. 1 \in 1 .. Len(w) /\ 2 \in 1 .. Len(w)
        BY <2>2, <3>1
      <3>3. QED
        BY <1>2, <3>1, <3>2, ElementOfSeq
    <2>4. answer \in Seq(Packets)
      BY <2>1, <2>3, AnswersType
    <2> DEFINE wire == SubSeq(w, 3, Len(w))
               replies == peer[c].replies \o answer
               p == [peer[c] EXCEPT !.wire = wire, !.replies = replies]
    <2>5. wire \in Seq(Pieces)
      <3>1. 2 \in 0 .. Len(w)
        BY <2>2, <2>3
      <3>2. SubSeq(w, 2 + 1, Len(w)) \in Seq(Pieces)
        <4> HIDE DEF w
        <4>1. QED
          BY <1>2, <3>1, LeftOver DEF w
      <3>3. QED
        BY <3>2
    <2>6. replies \in Seq(Packets)
      BY <1>2, <2>4, ConcatProperties
    <2>7. peer' = [peer EXCEPT ![c] = p]
      BY <1>1, <2>1
    <2> HIDE DEF wire, replies
    <2>8. /\ p \in Sockets /\ p.sock = peer[c].sock /\ p.wire = wire
          /\ p.replies = replies
      BY <1>1, <2>5, <2>6 DEF Sockets
    <2> HIDE DEF p
    <2>9. Answering(c, p, answer)
      BY <2>1, <2>2, <2>8 DEF Answering, wire, replies
    <2>10. QED
      BY <2>2, <2>4, <2>7, <2>8, <2>9 DEF OneSocketChanges
  <1>4. CASE ServerRefuses(c)
    <2> DEFINE e == [cmd |-> cmd, item |-> 0, type |-> "ERR"]
               replies == <<e>>
               p == [peer[c] EXCEPT !.sock = "fin", !.replies = replies]
    <2>1. e \in Packets /\ e.type = "ERR"
      BY CounterType DEF Packets, TypeInv
    <2>2. replies \in Seq(Packets) /\ Len(replies) = 1 /\ replies[1].type = "ERR"
      <3> HIDE DEF e
      <3>1. QED
        BY <2>1
    <2>3. peer' = [peer EXCEPT ![c] = p]
      BY <1>1, <1>4 DEF ServerRefuses
    <2> HIDE DEF replies
    <2>4. /\ p \in Sockets /\ p.sock = "fin" /\ p.wire = peer[c].wire
          /\ p.replies = replies
      BY <1>1, <2>2 DEF Sockets
    <2> HIDE DEF p
    <2>5. Refusing(c, p) /\ OneSocketChanges(c, p)
      BY <1>4, <2>2, <2>3, <2>4 DEF Refusing, ServerRefuses, OneSocketChanges
    <2>6. QED
      BY <2>4, <2>5
  <1>5. CASE PeerCloses(c)
    <2> DEFINE p == [peer[c] EXCEPT !.sock = "fin"]
    <2>1. peer' = [peer EXCEPT ![c] = p]
      BY <1>1, <1>5 DEF PeerCloses
    <2>2. /\ p \in Sockets /\ p.sock = "fin" /\ p.wire = peer[c].wire
          /\ p.replies = peer[c].replies
      BY <1>1 DEF Sockets
    <2> HIDE DEF p
    <2>3. Closing(c, p) /\ OneSocketChanges(c, p)
      BY <1>5, <2>1, <2>2 DEF Closing, PeerCloses, OneSocketChanges
    <2>4. QED
      BY <2>2, <2>3
  <1>6. CASE PeerResets(c)
    <2> DEFINE p == [peer[c] EXCEPT !.sock = "rst", !.wire = <<>>]
    <2>1. peer' = [peer EXCEPT ![c] = p]
      BY <1>1, <1>6 DEF PeerResets
    <2>2. <<>> \in Seq(Pieces)
      OBVIOUS
    <2>3. /\ p \in Sockets /\ p.sock = "rst" /\ p.wire = <<>>
          /\ p.replies = peer[c].replies
      BY <1>1, <2>2 DEF Sockets
    <2> HIDE DEF p
    <2>4. Resetting(c, p) /\ OneSocketChanges(c, p)
      BY <1>6, <2>1, <2>3 DEF Resetting, PeerResets, OneSocketChanges
    <2>5. QED
      BY <2>3, <2>4
  <1>7. QED
    BY <1>3, <1>4, <1>5, <1>6

LEMMA ServerTypes ==
  ASSUME TypeInv, NEW c \in Conns,
         \/ ServerAnswers(c) \/ ServerRefuses(c) \/ PeerCloses(c) \/ PeerResets(c)
  PROVE  TypeInv'
  <1>1. PICK p \in Sockets :
           /\ OneSocketChanges(c, p)
           /\ \/ \E answer \in Seq(Packets) : Answering(c, p, answer)
              \/ Refusing(c, p) \/ Closing(c, p) \/ Resetting(c, p)
    BY ServerShape
  <1>2. /\ peer[c].sock # "none" /\ p.sock # "none"
        /\ p.sock = "rst" => p.wire = <<>>
    BY <1>1 DEF Answering, Refusing, Closing, Resetting
  <1>3. /\ conn \in [Conns -> Connections] /\ Typed(conn[c], peer[c], kind)
        /\ nActive \in 0 .. CounterMod - 1 /\ ret \in Errors \cup {"OK"}
        /\ c \notin active => Cleared(conn[c])
    BY DEF TypeInv
  <1>4. Typed(conn[c], p, kind)
    BY <1>2, <1>3 DEF Typed
  <1>5. Local(c, conn[c], p) /\ UNCHANGED <<pc, cmd, kind, active, nActive, ret>>
    BY <1>1, <1>3 DEF OneSocketChanges, Local
  <1>6. QED
    BY <1>3, <1>4, <1>5, LocalTypes DEF commandVars

LEMMA BackoffEndsShape ==
  ASSUME TypeInv, NEW c \in Conns, BackoffEnds(c)
  PROVE  /\ pc = "idle" /\ UNCHANGED <<pc, cmd, kind, active, nActive, ret, peer>>
         /\ Local(c, [conn[c] EXCEPT !.backoff = FALSE], peer[c])
         /\ [conn[c] EXCEPT !.backoff = FALSE] \in Connections
         /\ [conn[c] EXCEPT !.backoff = FALSE].alive = conn[c].alive
         /\ Cleared([conn[c] EXCEPT !.backoff = FALSE])
  <1>1. /\ conn \in [Conns -> Connections] /\ peer \in [Conns -> Sockets]
        /\ Cleared(conn[c])
    BY DEF TypeInv, BackoffEnds
  <1> DEFINE k == [conn[c] EXCEPT !.backoff = FALSE]
  <1>2. conn' = [conn EXCEPT ![c] = k] /\ peer' = [peer EXCEPT ![c] = peer[c]]
    BY <1>1 DEF BackoffEnds
  <1>3. k \in Connections /\ k.alive = conn[c].alive /\ Cleared(k)
    BY <1>1 DEF Connections, Cleared
  <1>4. QED
    BY <1>2, <1>3 DEF Local, BackoffEnds

LEMMA BackoffEndsTypes ==
  ASSUME TypeInv, NEW c \in Conns, BackoffEnds(c)
  PROVE  TypeInv'
  <1> DEFINE k == [conn[c] EXCEPT !.backoff = FALSE]
  <1>1. /\ UNCHANGED <<pc, cmd, kind, active, nActive, ret>> /\ Local(c, k, peer[c])
        /\ k \in Connections /\ k.alive = conn[c].alive /\ Cleared(k)
    BY BackoffEndsShape
  <1> HIDE DEF k
  <1>2. /\ peer[c] \in Sockets /\ Typed(conn[c], peer[c], kind)
        /\ nActive \in 0 .. CounterMod - 1 /\ ret \in Errors \cup {"OK"}
    BY DEF TypeInv
  <1>3. Typed(k, peer[c], kind)
    BY <1>1, <1>2, ClearedTyped DEF Typed
  <1>4. QED
    BY <1>1, <1>2, <1>3, LocalTypes DEF commandVars

\* Whatever the servers do, the fields of a connection stay within what its
\* part of the command allows, and what is not in the command is cleared.
THEOREM Types == Spec => []TypeInv
  <1>1. ASSUME TypeInv, UNCHANGED vars
        PROVE  TypeInv'
    BY <1>1 DEF TypeInv, vars
  <1>2. ASSUME TypeInv, Next
        PROVE  TypeInv'
    <2>1. CASE Dispatch
      BY <1>2, <2>1, DispatchTypes
    <2>2. CASE UpdateServers
      BY <1>2, <2>2, UpdateServersTypes
    <2>3. CASE ClientStep
      BY <1>2, <2>3, PollTypes, PollTimeoutTypes, PollErrorTypes, ServeTypes,
         ReturnTypes, CollectTypes DEF ClientStep
    <2>4. CASE Environment
      BY <1>2, <2>4, ServerTypes, BackoffEndsTypes DEF Environment
    <2>5. QED
      BY <1>2, <2>1, <2>2, <2>3, <2>4 DEF Next
  <1>3. QED
    BY <1>1, <1>2, InitTypes, PTL DEF Spec

\* TypeOK: the counters stay within their bounds whatever the servers do, a
\* command retries a connection at most MaxRetries times, and a connection is
\* alive exactly while it has a socket.
THEOREM TypeCorrect == Spec => []TypeOK
  <1>1. ASSUME TypeInv
        PROVE  TypeOK
    <2>1. ASSUME NEW c \in Conns
          PROVE  /\ conn[c].alive \in BOOLEAN /\ conn[c].backoff \in BOOLEAN
                 /\ conn[c].retires \in 0 .. MaxRetries + 1
                 /\ conn[c].items \in 0 .. MaxItems
                 /\ conn[c].counter \in 0 .. conn[c].items
                 /\ conn[c].sent \in 0 .. Parts(kind, conn[c].items)
                 /\ conn[c].events \subseteq {"in", "out"}
                 /\ conn[c].revents \subseteq {"hup", "peek", "in", "out"}
                 /\ conn[c].alive <=> peer[c].sock # "none"
      <3>1. conn[c] \in Connections /\ Typed(conn[c], peer[c], kind)
        BY <1>1 DEF TypeInv
      <3>2. Parts(kind, conn[c].items) \in Nat
        BY <3>1, Fields, PartsType
      <3>3. QED
        BY <3>1, <3>2, Fields, CounterType DEF Typed
    <2>2. QED
      BY <1>1, <2>1 DEF TypeOK, TypeInv
  <1>2. QED
    BY <1>1, Types, PTL

-----------------------------------------------------------------------------
(* The count and the answers, when servers do what can be survived.        *)

LEMMA KindType ==
  ASSUME TypeInv
  PROVE  /\ cmd \in Nat /\ kind \in AllKinds
         /\ pc # "idle" => kind \in Kinds
         /\ \A c \in Conns : /\ conn[c] \in Connections /\ peer[c] \in Sockets
                             /\ Typed(conn[c], peer[c], kind)
         /\ active \subseteq Conns
  BY CounterType, ConnectionPoolAssumption DEF TypeInv, AllKinds

\* A step of the loop at a connection that still had something to do.
LEMMA LocalStep ==
  ASSUME TypeInv, Inv, pc = "poll", NEW c \in active, NEW k \in Connections,
         NEW p \in Sockets, Local(c, k, p), UNCHANGED commandVars,
         Owes(conn[c], kind), Busy(k, p, cmd, kind), Polled(k, p, kind),
         IF Owes(k, kind) THEN nActive' = nActive
                          ELSE nActive' = Decrement(nActive),
         IF k.alive THEN ret' = ret ELSE ret' # "OK"
  PROVE  Inv'
  <1>1. /\ c \in Conns /\ active \subseteq Conns
        /\ conn \in [Conns -> Connections] /\ peer \in [Conns -> Sockets]
    BY DEF TypeInv
  <1>2. /\ pc' = pc /\ cmd' = cmd /\ kind' = kind /\ active' = active
        /\ conn'[c] = k /\ peer'[c] = p
        /\ \A d \in Conns : d # c => conn'[d] = conn[d] /\ peer'[d] = peer[d]
    BY <1>1 DEF Local, commandVars
  <1>3. ActiveInv'
    BY <1>1, <1>2 DEF Inv, ActiveInv
  <1>4. RestInv'
    BY <1>1, <1>2 DEF Inv, RestInv
  <1>5. \A d \in active : Polled(conn'[d], peer'[d], kind)
    BY <1>1, <1>2 DEF Inv, PollInv
  <1>6. ret' = "OK" <=> \A d \in active : conn'[d].alive
    <2>1. ret = "OK" <=> \A d \in active : conn[d].alive
      BY DEF Inv, PollInv
    <2>2. conn[c].alive
      BY DEF Owes
    <2>3. CASE k.alive
      BY <1>1, <1>2, <2>1, <2>2, <2>3
    <2>4. CASE ~k.alive
      BY <1>1, <1>2, <2>4
    <2>5. QED
      BY <2>3, <2>4
  <1>7. nActive' = Cardinality(Owing')
    <2>1. nActive = Cardinality(Owing)
      BY DEF Inv, PollInv
    <2>2. /\ Owing \subseteq Conns /\ c \in Owing
          /\ IsFiniteSet(Owing) /\ Cardinality(Owing) \in Nat
          /\ Cardinality(Owing) <= NConns
      BY <1>1, ActiveCounted DEF Owing
    <2>3. CASE Owes(k, kind)
      <3>1. Owing' = Owing
        BY <1>1, <1>2, <2>3 DEF Owing
      <3>2. QED
        BY <2>1, <2>3, <3>1
    <2>4. CASE ~Owes(k, kind)
      <3>1. Owing' = Owing \ {c}
        BY <1>1, <1>2, <2>4 DEF Owing
      <3>2. Cardinality(Owing \ {c}) = Cardinality(Owing) - 1
        BY <2>2, FS_RemoveElement
      <3>3. Cardinality(Owing) > 0
        <4>1. Owing # {}
          BY <2>2
        <4>2. Cardinality(Owing) # 0
          BY <2>2, <4>1, FS_EmptySet
        <4>3. QED
          BY <2>2, <4>2
      <3>4. Decrement(nActive) = nActive - 1
        BY <2>1, <2>2, <3>3, CounterType, DecrementExact
      <3>5. QED
        BY <2>1, <2>4, <3>1, <3>2, <3>4
    <2>5. QED
      BY <2>3, <2>4
  <1>8. PollInv'
    BY <1>2, <1>5, <1>6, <1>7 DEF PollInv
  <1>9. CollectInv'
    BY <1>2 DEF CollectInv
  <1>10. QED
    BY <1>3, <1>4, <1>8, <1>9 DEF Inv

LEMMA Alone ==
  ASSUME NEW k \in Connections, NEW old \in Connections, NEW kd, Same(k, old)
  PROVE  /\ Loaded(k, kd) <=> Loaded(old, kd)
         /\ AllSent(k, kd) <=> AllSent(old, kd)
  BY DEF Loaded, AllSent, Same

\* A connection that is given up.
LEMMA GiveUpStep ==
  ASSUME TypeInv, Inv, pc = "poll", NEW c \in active, NEW k \in Connections,
         NEW err \in Errors, GiveUp(c, k, err), UNCHANGED commandVars,
         Owes(conn[c], kind), k.alive = FALSE, Same(k, conn[c]),
         Right(k.got, cmd, kind, k.items)
  PROVE  Inv'
  <1> DEFINE new == [k EXCEPT !.events = {}, !.revents = {}]
  <1>1. c \in Conns /\ conn[c] \in Connections /\ Busy(conn[c], peer[c], cmd, kind)
    BY DEF TypeInv, Inv, ActiveInv
  <1>2. new \in Connections /\ new.alive = FALSE /\ Same(new, conn[c])
        /\ new.got = k.got /\ new.items = k.items
        /\ new.events = {} /\ new.revents = {}
    BY DEF Connections, Same
  <1>3. Local(c, new, NoSocket) /\ nActive' = Decrement(nActive) /\ ret' = err
    BY DEF Local, GiveUp
  <1> HIDE DEF new
  <1>4. Busy(new, NoSocket, cmd, kind)
    BY <1>1, <1>2, Alone DEF Busy
  <1>5. ~Owes(new, kind)
    BY <1>2 DEF Owes
  <1>6. Polled(new, NoSocket, kind)
    BY <1>2, <1>5 DEF Polled
  <1>7. ret' # "OK"
    BY <1>3 DEF Errors
  <1>8. QED
    BY <1>2, <1>3, <1>4, <1>5, <1>6, <1>7, SocketsType, LocalStep

LEMMA UnreadCases ==
  ASSUME NEW k, NEW p, NEW kd
  PROVE  /\ kd \in Silent => Unread(k, p, kd) = k.sent % 2
         /\ kd = "storage" =>
              Unread(k, p, kd) = k.sent - 2 * (Len(k.got) + Len(p.replies))
         /\ kd \notin Silent \cup {"storage"} =>
              Unread(k, p, kd) = IF k.got = <<>> /\ p.replies = <<>>
                                   THEN k.sent ELSE 0
  BY DEF Unread, Silent

\* A connection that begins its part of the command on a new socket.
LEMMA BeginStep ==
  ASSUME NEW k \in Connections, NEW m \in Nat, NEW kd \in AllKinds,
         Loaded(k, kd), k.alive, k.sent = 0, k.got = <<>>,
         k.events = {"out"}, k.revents = {}
  PROVE  /\ Busy(k, NewSocket, m, kd)
         /\ Polled(k, NewSocket, kd)
         /\ Owes(k, kd)
  <1>1. k.items \in Nat /\ k.items > 0
    BY Fields DEF Loaded
  <1>2. ~AllSent(k, kd)
    BY <1>1 DEF AllSent, Parts
  <1>3. Owes(k, kd)
    BY <1>2 DEF Owes
  <1>4. AnswerLength(kd, k.items) \in Nat
    BY <1>1 DEF AnswerLength
  <1>5. Len(<<>>) = 0 /\ DOMAIN <<>> = {}
    OBVIOUS
  <1>6. Right(k.got, m, kd, k.items)
    BY <1>4, <1>5 DEF Right
  <1>7. Unread(k, NewSocket, kd) = 0
    <2>1. Len(k.got) = 0 /\ Len(NewSocket.replies) = 0
      BY <1>5, NewSocketFields
    <2>2. k.sent - 2 * (Len(k.got) + Len(NewSocket.replies)) = 0
      <3>1. Len(k.got) + Len(NewSocket.replies) = 0
        BY <2>1
      <3>2. 0 - 2 * 0 = 0
        OBVIOUS
      <3>3. QED
        BY <3>1, <3>2
    <2>3. k.sent % 2 = 0
      OBVIOUS
    <2>4. QED
      BY <2>2, <2>3, UnreadCases DEF AllKinds
  <1>8. Continues(k, NewSocket, m, kd)
    BY <1>4, <1>5, NewSocketFields DEF Continues
  <1>9. Pairs(<<>>, 0)
    BY DEF Pairs
  <1>10. Wired(k, NewSocket, m, kd)
    BY <1>5, <1>7, <1>9, NewSocketFields DEF Wired, Follow
  <1>11. Busy(k, NewSocket, m, kd)
    BY <1>6, <1>7, <1>8, <1>10 DEF Busy, InStep
  <1>12. Polled(k, NewSocket, kd)
    BY <1>2, <1>3, NewSocketFields DEF Polled
  <1>13. QED
    BY <1>3, <1>11, <1>12

LEMMA TurnFacts ==
  ASSUME TypeInv, Inv, NEW c \in Conns, Turn(c)
  PROVE  /\ pc = "poll" /\ c \in active
         /\ conn[c].alive = TRUE /\ Owes(conn[c], kind)
         /\ Busy(conn[c], peer[c], cmd, kind)
         /\ Polled(conn[c], peer[c], kind)
         /\ Loaded(conn[c], kind)
         /\ Right(conn[c].got, cmd, kind, conn[c].items)
         /\ Refused(conn[c], peer[c]) \/ InStep(conn[c], peer[c], cmd, kind)
  <1>1. pc = "poll" /\ c \in active /\ conn[c].revents # {}
    BY DEF Turn
  <1>2. Busy(conn[c], peer[c], cmd, kind) /\ Polled(conn[c], peer[c], kind)
    BY <1>1 DEF Inv, ActiveInv, PollInv
  <1>3. conn[c].alive = TRUE /\ Owes(conn[c], kind)
    <2>1. conn[c].alive \in BOOLEAN
      BY KindType, Fields
    <2>2. Owes(conn[c], kind)
      BY <1>1, <1>2 DEF Polled
    <2>3. QED
      BY <2>1, <2>2 DEF Owes
  <1>4. QED
    BY <1>1, <1>2, <1>3 DEF Busy

LEMMA RetryStep ==
  ASSUME TypeInv, Inv, NEW c \in Conns, Turn(c), NEW err \in Errors,
         RetryOrGiveUp(c, err), UNCHANGED commandVars
  PROVE  Inv'
  <1>1. /\ pc = "poll" /\ c \in active /\ Owes(conn[c], kind)
        /\ Loaded(conn[c], kind)
        /\ Right(conn[c].got, cmd, kind, conn[c].items)
    BY TurnFacts
  <1>2. CASE Retried(c)
    <2>1. PICK k \in Connections : /\ Fresh(k, conn[c])
                                   /\ Local(c, k, NewSocket)
                                   /\ UNCHANGED <<nActive, ret>>
      BY <1>2 DEF Retried
    <2>2. Loaded(k, kind)
      BY <1>1, <2>1 DEF Loaded, Fresh
    <2>3. /\ Busy(k, NewSocket, cmd, kind) /\ Polled(k, NewSocket, kind)
          /\ Owes(k, kind)
      BY <2>1, <2>2, KindType, BeginStep DEF Fresh
    <2>4. k.alive
      BY <2>1 DEF Fresh
    <2>5. QED
      BY <1>1, <2>1, <2>3, <2>4, SocketsType, LocalStep
  <1>3. CASE Lost(c, err)
    <2>1. PICK k \in Connections : /\ k.alive = FALSE /\ Same(k, conn[c])
                                   /\ k.got = conn[c].got
                                   /\ GiveUp(c, k, err)
      BY <1>3 DEF Lost
    <2>2. Right(k.got, cmd, kind, k.items)
      BY <1>1, <2>1 DEF Same
    <2>3. QED
      BY <1>1, <2>1, <2>2, GiveUpStep
  <1>4. QED
    BY <1>2, <1>3, RetryShape

\* The lengths of what was and what will be parsed are numbers.
LEMMA Lengths ==
  ASSUME NEW k \in Connections, NEW p \in Sockets
  PROVE  /\ k.got \in Seq(Packets) /\ p.replies \in Seq(Packets)
         /\ p.wire \in Seq(Pieces)
         /\ Len(k.got) \in Nat /\ DOMAIN k.got = 1 .. Len(k.got)
         /\ Len(p.replies) \in Nat /\ DOMAIN p.replies = 1 .. Len(p.replies)
         /\ Len(p.wire) \in Nat
         /\ k.got = <<>> <=> Len(k.got) = 0
         /\ p.replies = <<>> <=> Len(p.replies) = 0
         /\ p.wire = <<>> <=> Len(p.wire) = 0
  <1>1. /\ k.got \in Seq(Packets) /\ p.replies \in Seq(Packets)
        /\ p.wire \in Seq(Pieces)
    BY DEF Connections, Sockets
  <1>2. QED
    BY <1>1, LenProperties, EmptySeq

LEMMA NoneOfTwo ==
  ASSUME NEW a \in Nat, NEW b \in Nat, a + b <= 0 \/ 0 - 2 * (a + b) >= 0
  PROVE  a = 0 /\ b = 0
  OBVIOUS

\* Before anything is sent there is nothing of the answer.
LEMMA NothingSent ==
  ASSUME NEW k \in Connections, NEW p \in Sockets, NEW m, NEW kd \in AllKinds,
         Refused(k, p) \/ InStep(k, p, m, kd), k.sent = 0
  PROVE  k.got = <<>> /\ (Refused(k, p) \/ p.replies = <<>>)
  <1>1. CASE Refused(k, p)
    BY <1>1 DEF Refused
  <1>2. CASE InStep(k, p, m, kd)
    <2>1. /\ Unread(k, p, kd) >= 0
          /\ Len(k.got) + Len(p.replies) <= AnswerLength(kd, k.items)
          /\ kd \in {"retrieval", "broadcast"} /\ (k.got # <<>> \/ p.replies # <<>>)
               => k.sent = 2
      BY <1>2 DEF InStep, Continues
    <2>2. Len(k.got) \in Nat /\ Len(p.replies) \in Nat
      BY Lengths
    <2>3. CASE kd \in Silent
      <3>1. AnswerLength(kd, k.items) = 0
        BY <2>3 DEF AnswerLength, Silent
      <3>2. Len(k.got) = 0 /\ Len(p.replies) = 0
        BY <2>1, <2>2, <3>1, NoneOfTwo
      <3>3. QED
        BY <3>2, Lengths
    <2>4. CASE kd = "storage"
      <3>1. 0 - 2 * (Len(k.got) + Len(p.replies)) >= 0
        BY <2>1, <2>4, UnreadCases
      <3>2. Len(k.got) = 0 /\ Len(p.replies) = 0
        BY <2>2, <3>1, NoneOfTwo
      <3>3. QED
        BY <3>2, Lengths
    <2>5. CASE kd \in {"retrieval", "broadcast"}
      BY <2>1, <2>5
    <2>6. QED
      BY <2>3, <2>4, <2>5 DEF AllKinds, Silent
  <1>3. QED
    BY <1>1, <1>2

LEMMA PeekClosedStep ==
  ASSUME TypeInv, Inv, NEW c \in Conns, PeekClosed(c)
  PROVE  Inv'
  <1>1. /\ Turn(c) /\ "peek" \in conn[c].revents /\ peer[c].replies = <<>>
        /\ UNCHANGED commandVars
    BY DEF PeekClosed, Peeking, commandVars
  <1>2. /\ pc = "poll" /\ c \in active /\ Owes(conn[c], kind)
        /\ Loaded(conn[c], kind) /\ Polled(conn[c], peer[c], kind)
        /\ Right(conn[c].got, cmd, kind, conn[c].items)
        /\ Refused(conn[c], peer[c]) \/ InStep(conn[c], peer[c], cmd, kind)
    BY <1>1, TurnFacts
  <1>3. conn[c].sent = 0 /\ conn[c].got = <<>>
    <2>1. conn[c].sent = 0
      BY <1>1, <1>2 DEF Polled
    <2>2. QED
      BY <1>2, <2>1, KindType, NothingSent
  <1>4. ASSUME NEW k \in Connections, Reopened(c, k)
        PROVE  Inv'
    <2>1. Loaded(k, kind)
      BY <1>2, <1>4, KindType, Alone DEF Reopened
    <2>2. k.sent = 0 /\ k.got = <<>> /\ k.alive = TRUE
          /\ k.events = {"out"} /\ k.revents = {}
      BY <1>3, <1>4 DEF Reopened, Same
    <2>3. /\ Busy(k, NewSocket, cmd, kind) /\ Polled(k, NewSocket, kind)
          /\ Owes(k, kind)
      BY <2>1, <2>2, KindType, BeginStep
    <2>4. QED
      BY <1>1, <1>2, <1>4, <2>2, <2>3, SocketsType, LocalStep DEF Reopened
  <1>5. ASSUME Closed(c)
        PROVE  Inv'
    <2>1. PICK k \in Connections : /\ k.alive = FALSE /\ Same(k, conn[c])
                                   /\ k.got = conn[c].got
                                   /\ GiveUp(c, k, "RECV_ERR")
      BY <1>5 DEF Closed
    <2>2. Right(k.got, cmd, kind, k.items) /\ "RECV_ERR" \in Errors
      BY <1>2, <2>1 DEF Same, Errors
    <2>3. QED
      BY <1>1, <1>2, <2>1, <2>2, GiveUpStep
  <1>6. QED
    BY <1>4, <1>5, PeekClosedShape

LEMMA BusySame ==
  ASSUME NEW k, NEW old, NEW p, NEW m, NEW kd, Keeps(k, old),
         k.sent = old.sent, k.got = old.got, Busy(old, p, m, kd)
  PROVE  Busy(k, p, m, kd)
  <1>1. Loaded(k, kd) /\ Right(k.got, m, kd, k.items)
    BY DEF Busy, Loaded, Keeps
  <1>2. Refused(old, p) => Refused(k, p)
    BY DEF Refused, Keeps
  <1>3. Unread(k, p, kd) = Unread(old, p, kd)
    BY DEF Unread
  <1>4. InStep(old, p, m, kd) => InStep(k, p, m, kd)
    BY <1>3 DEF InStep, Continues, Wired, Keeps
  <1>5. QED
    BY <1>1, <1>2, <1>4 DEF Busy, Keeps

LEMMA OwesSame ==
  ASSUME NEW k, NEW old, NEW kd, Keeps(k, old), k.sent = old.sent, k.got = old.got
  PROVE  /\ Owes(k, kd) <=> Owes(old, kd)
         /\ AllSent(k, kd) <=> AllSent(old, kd)
         /\ \A p : Whole(k, p, kd) <=> Whole(old, p, kd)
  BY DEF Owes, AllSent, Whole, Keeps

LEMMA PeekDataStep ==
  ASSUME TypeInv, Inv, NEW c \in Conns, PeekData(c)
  PROVE  Inv'
  <1>1. /\ Turn(c) /\ "peek" \in conn[c].revents /\ peer[c].replies # <<>>
        /\ UNCHANGED commandVars
    BY DEF PeekData, Peeking, commandVars
  <1>2. /\ pc = "poll" /\ c \in active /\ Owes(conn[c], kind)
        /\ conn[c].alive = TRUE
        /\ Loaded(conn[c], kind) /\ Polled(conn[c], peer[c], kind)
        /\ Busy(conn[c], peer[c], cmd, kind)
    BY <1>1, TurnFacts
  <1>3. PICK k \in Connections : Peeked(c, k)
    BY PeekDataShape
  <1>4. /\ Keeps(k, conn[c]) /\ k.sent = conn[c].sent /\ k.got = conn[c].got
        /\ k.events = conn[c].events \ {"in"}
        /\ k.revents = conn[c].revents \ {"peek"}
        /\ Local(c, k, peer[c]) /\ UNCHANGED <<nActive, ret>>
    BY <1>3 DEF Peeked
  <1>5. Busy(k, peer[c], cmd, kind)
    BY <1>2, <1>4, BusySame
  <1>6. Owes(k, kind) /\ k.alive = TRUE
    BY <1>2, <1>4, OwesSame DEF Keeps
  <1>7. Polled(k, peer[c], kind)
    <2>1. kind \notin Silent
      BY <1>1, <1>2 DEF Polled
    <2>2. ~AllSent(conn[c], kind)
      <3>1. conn[c].sent = 0 /\ conn[c].items \in Nat /\ conn[c].items > 0
        BY <1>1, <1>2, KindType, Fields DEF Polled, Loaded
      <3>2. QED
        BY <3>1 DEF AllSent, Parts
    <2>3. ~AllSent(k, kind)
      BY <1>4, <2>2, OwesSame
    <2>4. "out" \in k.events
      BY <1>2, <1>4, <2>2 DEF Polled
    <2>5. QED
      BY <1>4, <1>6, <2>1, <2>3, <2>4 DEF Polled
  <1>8. peer[c] \in Sockets
    BY KindType
  <1>9. QED
    BY <1>1, <1>2, <1>4, <1>5, <1>6, <1>7, <1>8, LocalStep

-----------------------------------------------------------------------------
(* Sending keeps the parts on the wire in order.                           *)

LEMMA PairOfPieces ==
  ASSUME NEW m, NEW kd \in Silent, NEW n, NEW q \in Nat, q % 2 = 1
  PROVE  Pair(Piece(m, kd, n, q), Piece(m, kd, n, q + 1))
  <1>1. /\ (q + 1 + 1) \div 2 = (q + 1) \div 2
        /\ 2 - (q % 2) = 1 /\ 2 - ((q + 1) % 2) = 2
    OBVIOUS
  <1> DEFINE x == (q + 1) \div 2
             first == [cmd |-> m, kind |-> kd, n |-> n, item |-> x, half |-> 1]
             second == [cmd |-> m, kind |-> kd, n |-> n, item |-> x, half |-> 2]
  <1>2. Piece(m, kd, n, q) = first /\ Piece(m, kd, n, q + 1) = second
    BY <1>1 DEF Piece
  <1> HIDE DEF x
  <1>3. second = [first EXCEPT !.half = 2] /\ first.kind = kd
    OBVIOUS
  <1> HIDE DEF first, second
  <1>4. QED
    BY <1>2, <1>3 DEF Pair

LEMMA PairsLonger ==
  ASSUME NEW w, NEW v, NEW length \in Nat, Pairs(w, length),
         \A i \in 1 .. length : v[i] = w[i]
  PROVE  Pairs(v, length)
  <1>1. length % 2 = 0
    BY DEF Pairs
  <1>2. ASSUME NEW i \in 1 .. length, i % 2 = 1
        PROVE  Pair(v[i], v[i + 1])
    <2>1. i + 1 \in 1 .. length
      BY <1>1, <1>2
    <2>2. Pair(w[i], w[i + 1])
      BY <1>2 DEF Pairs
    <2>3. QED
      BY <2>1, <2>2
  <1>3. QED
    BY <1>1, <1>2 DEF Pairs

AsFar(v, w, n) == \A i \in 1 .. n : v[i] = w[i]

\* What follows on the wire: u parts of the command stood behind read others,
\* and n more are sent.
LEMMA PiecesFollow ==
  ASSUME NEW w, NEW v, NEW m, NEW kd, NEW items,
         NEW read \in Nat, NEW u \in Nat, NEW sent \in Nat, NEW n \in Nat,
         AsFar(v, w, read + u),
         Follow(w, read, u, m, kd, items, sent - u),
         Follow(v, read + u, n, m, kd, items, sent)
  PROVE  Follow(v, read, u + n, m, kd, items, sent - u)
  <1> SUFFICES ASSUME NEW j \in 1 .. u + n
               PROVE  v[read + j] = Piece(m, kd, items, sent - u + j)
    BY DEF Follow
  <1>1. CASE j <= u
    <2>1. j \in 1 .. u /\ read + j \in 1 .. read + u
      BY <1>1
    <2>2. v[read + j] = w[read + j]
      BY <2>1 DEF AsFar
    <2>3. QED
      BY <2>1, <2>2 DEF Follow
  <1>2. CASE ~(j <= u)
    <2> DEFINE i == j - u
    <2>1. i \in 1 .. n /\ read + u + i = read + j /\ sent + i = sent - u + j
      BY <1>2
    <2> HIDE DEF i
    <2>2. v[read + u + i] = Piece(m, kd, items, sent + i)
      BY <2>1 DEF Follow
    <2>3. QED
      BY <2>1, <2>2
  <1>3. QED
    BY <1>1, <1>2

\* Of a command without an answer at most half an item is left unread.
LEMMA SilentPiecesFollow ==
  ASSUME NEW v, NEW m, NEW kd \in Silent, NEW items,
         NEW read \in Nat, NEW u \in Nat, NEW sent \in Nat, NEW n \in Nat,
         NEW later \in Nat, NEW before \in Nat,
         u = sent % 2, later = (sent + n) % 2, before + later = read + u + n,
         Pairs(v, read), Follow(v, read, u + n, m, kd, items, sent - u)
  PROVE  /\ Pairs(v, before)
         /\ Follow(v, before, later, m, kd, items, sent + n - later)
  <1>1. read % 2 = 0
    BY DEF Pairs
  <1>2. /\ later \in {0, 1} /\ u \in {0, 1} /\ u <= sent
        /\ before % 2 = 0 /\ before <= read + u + n
        /\ u + n = 0 => later = 0
    BY <1>1
  <1>3. ASSUME NEW i \in 1 .. before, i % 2 = 1
        PROVE  Pair(v[i], v[i + 1])
    <2>1. i \in Nat /\ i + 1 <= before
      BY <1>2, <1>3
    <2>2. CASE i <= read
      BY <1>3, <2>2 DEF Pairs
    <2>3. CASE ~(i <= read)
      <3> DEFINE j == i - read
                 q == sent - u + j
      <3>1. /\ j \in 1 .. u + n /\ j + 1 \in 1 .. u + n
            /\ read + j = i /\ read + (j + 1) = i + 1
            /\ q \in Nat /\ q % 2 = 1 /\ sent - u + (j + 1) = q + 1
        BY <1>1, <1>2, <1>3, <2>1, <2>3
      <3> HIDE DEF j
      <3>2. v[i] = Piece(m, kd, items, q)
        BY <3>1 DEF Follow
      <3> HIDE DEF q
      <3>3. v[i + 1] = Piece(m, kd, items, q + 1)
        BY <3>1 DEF Follow
      <3>4. QED
        BY <3>1, <3>2, <3>3, PairOfPieces
    <2>4. QED
      BY <2>2, <2>3
  <1>4. Pairs(v, before)
    BY <1>2, <1>3 DEF Pairs
  <1>5. ASSUME NEW j \in 1 .. later
        PROVE  v[before + j] = Piece(m, kd, items, sent + n - later + j)
    <2>1. j = 1 /\ later = 1 /\ before + j = read + (u + n)
          /\ u + n \in 1 .. u + n
          /\ sent + n - later + j = sent - u + (u + n)
      BY <1>2, <1>5
    <2>2. QED
      BY <2>1 DEF Follow
  <1>6. QED
    BY <1>4, <1>5 DEF Follow

LEMMA MoreOnTheWire ==
  ASSUME NEW w, NEW v, NEW m, NEW kd, NEW items,
         NEW read \in Nat, NEW u \in Nat, NEW sent \in Nat, NEW n \in Nat,
         NEW after \in Nat, NEW before \in Nat, before + after = read + u + n,
         Pairs(w, read), AsFar(v, w, read + u),
         Follow(w, read, u, m, kd, items, sent - u),
         Follow(v, read + u, n, m, kd, items, sent),
         \/ kd \in Silent /\ u = sent % 2 /\ after = (sent + n) % 2
         \/ after = u + n
  PROVE  /\ Pairs(v, before)
         /\ Follow(v, before, after, m, kd, items, sent + n - after)
  <1>1. Follow(v, read, u + n, m, kd, items, sent - u)
    BY PiecesFollow
  <1>2. Pairs(v, read)
    <2>1. \A i \in 1 .. read : v[i] = w[i]
      BY DEF AsFar
    <2>2. QED
      BY <2>1, PairsLonger
  <1>3. CASE kd \in Silent /\ u = sent % 2 /\ after = (sent + n) % 2
    BY <1>1, <1>2, <1>3, SilentPiecesFollow
  <1>4. CASE after = u + n
    <2>1. before = read /\ sent - u = sent + n - after
      BY <1>4
    <2>2. QED
      BY <1>1, <1>2, <1>4, <2>1
  <1>5. QED
    BY <1>3, <1>4

LEMMA KindCases ==
  ASSUME NEW kd \in AllKinds
  PROVE  /\ kd \in Silent \/ kd = "storage" \/ kd \in {"retrieval", "broadcast"}
         /\ kd \in Silent => kd \notin {"storage", "retrieval", "broadcast"}
         /\ kd \in {"retrieval", "broadcast"} => kd \notin Silent \cup {"storage"}
         /\ \A n : kd \in {"retrieval", "broadcast"} => Parts(kd, n) = 2
         /\ \A n : kd = "storage" => Parts(kd, n) = 2 * n
         /\ \A n : kd = "storage" => AnswerLength(kd, n) = n
         /\ \A n : kd \in Silent => AnswerLength(kd, n) = 0
         /\ \A n \in Nat \ {0} : kd \in {"retrieval", "broadcast"} =>
                       AnswerLength(kd, n) \in Nat /\ AnswerLength(kd, n) > 0
  BY DEF AllKinds, Silent, Parts, AnswerLength

LEMMA StorageUnread ==
  ASSUME NEW k, NEW p, NEW x \in Nat, NEW a \in Nat, NEW b \in Nat,
         k.sent = x, Len(k.got) = a, Len(p.replies) = b
  PROVE  Unread(k, p, "storage") = x - 2 * (a + b)
  <1>1. Unread(k, p, "storage") = k.sent - 2 * (Len(k.got) + Len(p.replies))
    BY UnreadCases
  <1>2. QED
    BY <1>1

\* x parts are sent, a packets parsed, b wait to be read, l parts are on the
\* wire.
Sizes(k, p, x, a, b, l) ==
    k.sent = x /\ Len(k.got) = a /\ Len(p.replies) = b /\ Len(p.wire) = l

LEMMA SizesExist ==
  ASSUME NEW k \in Connections, NEW p \in Sockets
  PROVE  \E x, a, b, l \in Nat : Sizes(k, p, x, a, b, l)
  <1>1. k.sent \in Nat
    BY Fields
  <1>2. Len(k.got) \in Nat /\ Len(p.replies) \in Nat /\ Len(p.wire) \in Nat
    BY Lengths
  <1>3. QED
    BY <1>1, <1>2 DEF Sizes

\* n parts of the request are sent.
Grown(k, p, old, oldp, n) ==
    /\ k.items = old.items /\ k.got = old.got /\ p.replies = oldp.replies
    /\ \A x \in Nat : old.sent = x => k.sent = x + n
    /\ \A l \in Nat : Len(oldp.wire) = l => Len(p.wire) = l + n

\* From u parts unread of x to after of x + n.
Later(kd, u, after, x, n) ==
    \/ kd \in Silent /\ u = x % 2 /\ after = (x + n) % 2
    \/ after = u + n

LEMMA UnreadGrows ==
  ASSUME NEW k, NEW old, NEW p, NEW oldp, NEW m, NEW kd \in AllKinds,
         NEW n \in Nat, n > 0, NEW x \in Nat, NEW a \in Nat, NEW b \in Nat,
         NEW l \in Nat, Sizes(old, oldp, x, a, b, l), Grown(k, p, old, oldp, n),
         k.sent <= Parts(kd, k.items),
         Continues(old, oldp, m, kd), Unread(old, oldp, kd) >= 0
  PROVE  \E u, after \in Nat :
           /\ Unread(old, oldp, kd) = u /\ Unread(k, p, kd) = after
           /\ Later(kd, u, after, x, n)
           /\ Continues(k, p, m, kd)
  <1> USE DEF Sizes, Grown, Later
  <1>1. CASE kd \in Silent
    <2>1. Unread(old, oldp, kd) = x % 2 /\ Unread(k, p, kd) = (x + n) % 2
      BY <1>1, UnreadCases
    <2>2. Continues(k, p, m, kd)
      BY <1>1, KindCases DEF Continues
    <2>3. x % 2 \in Nat /\ (x + n) % 2 \in Nat
      OBVIOUS
    <2>4. QED
      BY <1>1, <2>1, <2>2, <2>3
  <1>2. CASE kd = "storage"
    <2>1. Unread(old, oldp, kd) = x - 2 * (a + b)
      BY <1>2, StorageUnread
    <2>2. Unread(k, p, kd) = x + n - 2 * (a + b)
      <3>1. x + n \in Nat /\ Len(k.got) = a /\ Len(p.replies) = b
        OBVIOUS
      <3>2. QED
        BY <1>2, <3>1, StorageUnread
    <2>3. Continues(k, p, m, kd)
      BY <1>2 DEF Continues
    <2>4. PICK u \in Nat : u = x - 2 * (a + b)
      BY <2>1
    <2>5. u + n = x + n - 2 * (a + b) /\ u + n \in Nat
      BY <2>4
    <2>6. QED
      BY <2>1, <2>2, <2>3, <2>4, <2>5
  <1>3. CASE kd \in {"retrieval", "broadcast"}
    <2>1. old.got = <<>> /\ oldp.replies = <<>>
      <3>1. SUFFICES ASSUME old.got # <<>> \/ oldp.replies # <<>> PROVE FALSE
        OBVIOUS
      <3>2. x = 2
        BY <1>3, <3>1 DEF Continues
      <3>3. x + n <= 2
        BY <1>3, KindCases
      <3>4. QED
        BY <3>2, <3>3
    <2>2. Unread(old, oldp, kd) = x /\ Unread(k, p, kd) = x + n
      <3>1. kd \notin Silent \cup {"storage"}
        BY <1>3, KindCases
      <3>2. Unread(old, oldp, kd) = IF old.got = <<>> /\ oldp.replies = <<>>
                                      THEN old.sent ELSE 0
        BY ONLY <3>1, UnreadCases
      <3>3. Unread(k, p, kd) = IF k.got = <<>> /\ p.replies = <<>> THEN k.sent ELSE 0
        BY ONLY <3>1, UnreadCases
      <3>4. old.sent = x /\ k.sent = x + n
        BY ONLY Sizes(old, oldp, x, a, b, l), Grown(k, p, old, oldp, n)
      <3>6. k.got = <<>> /\ p.replies = <<>>
        BY <2>1
      <3>5. QED
        BY ONLY <2>1, <3>2, <3>3, <3>4, <3>6
    <2>3. Continues(k, p, m, kd)
      BY <2>1 DEF Continues
    <2>4. x + n \in Nat
      OBVIOUS
    <2>5. QED
      BY <2>2, <2>3, <2>4
  <1>4. QED
    BY <1>1, <1>2, <1>3, KindCases

LEMMA WireGrows ==
  ASSUME NEW w, NEW v, NEW m, NEW kd, NEW items, NEW x \in Nat, NEW n \in Nat,
         NEW l \in Nat, NEW u \in Nat, NEW after \in Nat, NEW read \in Nat, NEW from,
         read = l - u, from = x - u, Pairs(w, read), AsFar(v, w, l),
         Follow(w, read, u, m, kd, items, from),
         Follow(v, l, n, m, kd, items, x), Later(kd, u, after, x, n)
  PROVE  \E before \in Nat : /\ before = l + n - after
                             /\ Pairs(v, before)
                             /\ Follow(v, before, after, m, kd, items, x + n - after)
  <1>1. read + u = l
    OBVIOUS
  <1>2. Follow(v, read + u, n, m, kd, items, x) /\ AsFar(v, w, read + u)
    BY <1>1
  <1>3. PICK before \in Nat : before = l + n - after
    BY DEF Later
  <1>4. before + after = read + u + n
    BY <1>1, <1>3
  <1>5. Follow(w, read, u, m, kd, items, x - u)
    OBVIOUS
  <1>6. Pairs(v, before) /\ Follow(v, before, after, m, kd, items, x + n - after)
    BY <1>2, <1>4, <1>5, MoreOnTheWire DEF Later
  <1>7. QED
    BY <1>3, <1>6

LEMMA SendBusy ==
  ASSUME NEW k \in Connections, NEW old \in Connections, NEW p \in Sockets,
         NEW oldp \in Sockets, NEW m, NEW kd \in AllKinds, NEW n \in Nat, n > 0,
         Keeps(k, old), Grown(k, p, old, oldp, n),
         k.sent <= Parts(kd, k.items), p.sock = oldp.sock, oldp.sock # "rst",
         AsFar(p.wire, oldp.wire, Len(oldp.wire)),
         Follow(p.wire, Len(oldp.wire), n, m, kd, k.items, old.sent),
         Busy(old, oldp, m, kd), old.alive
  PROVE  Busy(k, p, m, kd)
  <1>1. Loaded(k, kd) /\ Right(k.got, m, kd, k.items) /\ k.items = old.items
    BY DEF Busy, Loaded, Keeps, Grown
  <1>2. CASE Refused(old, oldp)
    <2>1. Refused(k, p)
      BY <1>2 DEF Refused, Keeps, Grown
    <2>2. QED
      BY <1>1, <2>1 DEF Busy
  <1>3. CASE InStep(old, oldp, m, kd)
    <2>1. PICK x, a, b, l \in Nat : Sizes(old, oldp, x, a, b, l)
      BY SizesExist
    <2>2. /\ Wired(old, oldp, m, kd) /\ Continues(old, oldp, m, kd)
          /\ Unread(old, oldp, kd) >= 0
      BY <1>3 DEF InStep
    <2>10. old.sent = x /\ Len(oldp.wire) = l /\ Len(p.wire) = l + n /\ k.sent = x + n
      BY <2>1 DEF Sizes, Grown
    <2>3. PICK u \in Nat, after \in Nat :
            /\ Unread(old, oldp, kd) = u /\ Unread(k, p, kd) = after
            /\ Later(kd, u, after, x, n)
            /\ Continues(k, p, m, kd)
      BY ONLY <2>1, <2>2, Grown(k, p, old, oldp, n), k.sent <= Parts(kd, k.items),
              n > 0, UnreadGrows
    <2>4. PICK read \in Nat, from \in Int :
            /\ read = l - u /\ from = x - u /\ Pairs(oldp.wire, read)
            /\ Follow(oldp.wire, read, u, m, kd, k.items, from)
      BY <1>1, <2>10, <2>2, <2>3 DEF Wired
    <2>5. AsFar(p.wire, oldp.wire, l) /\ Follow(p.wire, l, n, m, kd, k.items, x)
      BY <2>10
    <2>6. PICK before \in Nat :
            /\ before = l + n - after
            /\ Pairs(p.wire, before)
            /\ Follow(p.wire, before, after, m, kd, k.items, x + n - after)
      BY ONLY <2>3, <2>4, <2>5, WireGrows
    <2>7. Wired(k, p, m, kd) /\ Unread(k, p, kd) >= 0
      BY ONLY <2>3, <2>6, <2>10 DEF Wired
    <2>8. QED
      BY <1>1, <2>3, <2>7 DEF Busy, InStep
  <1>4. QED
    BY <1>2, <1>3 DEF Busy

\* A whole answer is to a whole request.
LEMMA AnsweredIsSent ==
  ASSUME NEW k \in Connections, NEW p \in Sockets, NEW m, NEW kd \in AllKinds,
         Refused(k, p) \/ InStep(k, p, m, kd), Loaded(k, kd), k.counter > 0,
         k.sent <= Parts(kd, k.items), Len(k.got) = AnswerLength(kd, k.items)
  PROVE  AllSent(k, kd)
  <1>1. PICK x, a, b, l \in Nat : Sizes(k, p, x, a, b, l)
    BY SizesExist
  <1>2. k.sent = x /\ Len(k.got) = a /\ Len(p.replies) = b
    BY <1>1 DEF Sizes
  <1>3. PICK n \in Nat : n = k.items /\ n > 0
    BY Fields DEF Loaded
  <1>4. kd \notin Silent
    BY DEF Loaded
  <1>5. k.got # <<>>
    <2>1. AnswerLength(kd, n) \in Nat /\ AnswerLength(kd, n) > 0
      BY <1>3, <1>4, KindCases
    <2>2. SUFFICES ASSUME k.got = <<>> PROVE FALSE
      OBVIOUS
    <2>3. Len(k.got) = 0
      BY <2>2
    <2>4. QED
      BY <1>3, <2>1, <2>3
  <1>6. InStep(k, p, m, kd)
    BY <1>5 DEF Refused
  <1>7. CASE kd = "storage"
    <2>1. Unread(k, p, kd) = x - 2 * (a + b) /\ Unread(k, p, kd) >= 0
      BY <1>2, <1>6, <1>7, StorageUnread DEF InStep
    <2>2. a = n /\ x <= 2 * n /\ Parts(kd, k.items) = 2 * n
      BY <1>2, <1>3, <1>7, KindCases
    <2>3. x = 2 * n
      BY <2>1, <2>2
    <2>4. QED
      BY <1>2, <2>2, <2>3 DEF AllSent
  <1>8. CASE kd \in {"retrieval", "broadcast"}
    <2>1. k.sent = 2
      BY <1>5, <1>6, <1>8 DEF InStep, Continues
    <2>2. QED
      BY <1>8, <2>1, KindCases DEF AllSent
  <1>9. QED
    BY <1>4, <1>7, <1>8, KindCases

LEMMA SentPieces ==
  ASSUME TypeInv, NEW c \in Conns, NEW n \in Nat, NEW k \in Connections,
         NEW p \in Sockets, Sent(c, n, k, p)
  PROVE  /\ Grown(k, p, conn[c], peer[c], n)
         /\ AsFar(p.wire, peer[c].wire, Len(peer[c].wire))
         /\ Follow(p.wire, Len(peer[c].wire), n, cmd, kind, k.items, conn[c].sent)
  <1>1. PICK x, a, b, l \in Nat : Sizes(conn[c], peer[c], x, a, b, l)
    BY KindType, SizesExist
  <1>2. conn[c].sent = x /\ Len(peer[c].wire) = l
    BY <1>1 DEF Sizes
  <1> DEFINE more == [i \in 1 .. n |-> Part(c, x + i)]
             v == peer[c].wire \o more
  <1>3. /\ Keeps(k, conn[c]) /\ k.got = conn[c].got /\ k.sent = x + n
        /\ p.replies = peer[c].replies /\ p.wire = v
    BY <1>2 DEF Sent
  <1>4. \A i \in 1 .. n : more[i] = Piece(cmd, kind, k.items, x + i)
    <2>1. k.items = conn[c].items
      BY <1>3 DEF Keeps
    <2>2. \A i \in 1 .. n : x + i \in Nat
      OBVIOUS
    <2>3. QED
      BY <2>1, <2>2, PieceType
  <1>5. more \in Seq(Pieces) /\ Len(more) = n
    <2>1. \A i \in 1 .. n : Part(c, x + i) \in Pieces
      BY PieceType
    <2>2. more \in [1 .. n -> Pieces]
      BY <2>1
    <2> HIDE DEF more
    <2>3. QED
      BY <2>2, ListedType
  <1>6. peer[c].wire \in Seq(Pieces)
    BY KindType, Lengths
  <1> HIDE DEF more
  <1>7. /\ Len(v) = l + n
        /\ \A i \in 1 .. l + n : v[i] = IF i <= l THEN peer[c].wire[i] ELSE more[i - l]
    BY <1>2, <1>5, <1>6, ConcatProperties
  <1> HIDE DEF v
  <1>8. Grown(k, p, conn[c], peer[c], n)
    BY <1>2, <1>3, <1>7 DEF Grown, Keeps
  <1>9. AsFar(v, peer[c].wire, l)
    BY <1>7 DEF AsFar
  <1>10. Follow(v, l, n, cmd, kind, k.items, x)
    <2>1. ASSUME NEW j \in 1 .. n
          PROVE  v[l + j] = Piece(cmd, kind, k.items, x + j)
      <3>1. l + j \in 1 .. l + n /\ ~(l + j <= l) /\ l + j - l = j
        OBVIOUS
      <3>2. v[l + j] = more[j]
        BY <1>7, <3>1
      <3>3. QED
        BY <1>4, <3>2
    <2>2. QED
      BY <2>1 DEF Follow
  <1>11. QED
    BY <1>2, <1>3, <1>8, <1>9, <1>10

LEMMA SendStep ==
  ASSUME TypeInv, Inv, NEW c \in Conns, Send(c)
  PROVE  Inv'
  <1> DEFINE old == conn[c]
  <1>1. /\ Turn(c) /\ UNCHANGED commandVars /\ peer[c].sock # "rst" /\ ret' = ret
        /\ "hup" \notin old.revents /\ "peek" \notin old.revents
        /\ "out" \in old.revents
    BY DEF Send, Sending, commandVars
  <1>2. /\ pc = "poll" /\ c \in active /\ Owes(old, kind) /\ old.alive = TRUE
        /\ Loaded(old, kind) /\ Polled(old, peer[c], kind)
        /\ Busy(old, peer[c], cmd, kind)
        /\ Refused(old, peer[c]) \/ InStep(old, peer[c], cmd, kind)
    BY <1>1, TurnFacts
  <1>3. PICK n \in 1 .. Parts(kind, old.items) - old.sent, k \in Connections,
             p \in Sockets : Sent(c, n, k, p)
    BY SendShape
  <1>4. /\ old \in Connections /\ peer[c] \in Sockets /\ cmd \in Nat
        /\ kind \in AllKinds /\ Typed(old, peer[c], kind)
    BY KindType
  <1>5. old.sent \in Nat /\ Parts(kind, old.items) \in Nat
    BY <1>4, Fields, PartsType
  <1>6. n \in Nat /\ n > 0 /\ old.sent + n <= Parts(kind, old.items)
    BY <1>5
  <1>7. /\ Local(c, k, p) /\ Keeps(k, old) /\ k.got = old.got /\ k.sent = old.sent + n
        /\ k.events = {"in"} \cup IF AllSent(k, kind) THEN {} ELSE {"out"}
        /\ k.revents = old.revents \ {"out"}
        /\ p.sock = peer[c].sock /\ p.replies = peer[c].replies
        /\ nActive' = IF AllSent(k, kind) /\ k.counter = 0
                        THEN Decrement(nActive) ELSE nActive
    BY <1>3 DEF Sent
  <1>8. k.alive = TRUE /\ k.items = old.items /\ k.counter = old.counter
    BY <1>2, <1>7 DEF Keeps
  <1>9. Busy(k, p, cmd, kind)
    <2>1. k.sent <= Parts(kind, k.items)
      BY <1>6, <1>7, <1>8
    <2>2. /\ Grown(k, p, old, peer[c], n)
          /\ AsFar(p.wire, peer[c].wire, Len(peer[c].wire))
          /\ Follow(p.wire, Len(peer[c].wire), n, cmd, kind, k.items, old.sent)
      BY <1>3, <1>6, SentPieces
    <2> HIDE DEF old
    <2>3. QED
      BY <1>1, <1>2, <1>4, <1>6, <1>7, <2>1, <2>2, SendBusy
  <1>10. ~AllSent(old, kind)
    BY <1>1, <1>2 DEF Polled
  <1>11. k.counter > 0 => Len(k.got) # AnswerLength(kind, k.items)
    <2> HIDE DEF old
    <2>1. old.sent <= Parts(kind, old.items)
      BY <1>4 DEF Typed
    <2>2. old.counter > 0 => Len(old.got) # AnswerLength(kind, old.items)
      BY <1>2, <1>4, <1>10, <2>1, AnsweredIsSent
    <2>3. QED
      BY <1>7, <1>8, <2>2
  <1>12. k.counter = 0 \/ k.counter > 0
    BY Fields
  <1>13. Owes(k, kind) <=> ~(AllSent(k, kind) /\ k.counter = 0)
    BY <1>8, <1>11, <1>12 DEF Owes
  <1>14. Polled(k, p, kind)
    <2>1. k.counter = 0 => kind \in Silent
      BY <1>2, <1>8 DEF Loaded
    <2>2. kind \in Silent => k.revents = {}
      <3>1. old.revents \subseteq {"hup", "peek", "in", "out"}
        BY <1>4, Fields
      <3>2. kind \in Silent => "in" \notin old.revents
        BY <1>1, <1>2 DEF Polled
      <3>3. QED
        BY <1>1, <1>7, <3>1, <3>2
    <2>3. k.revents # {} => Owes(k, kind)
      BY <1>13, <2>1, <2>2
    <2>4. kind \in Silent => p.replies = <<>> /\ p.sock = "open"
      <3>1. peer[c].sock \in {"none", "open", "fin", "rst"} /\ peer[c].sock # "none"
        BY <1>2, <1>4 DEF Sockets, Typed
      <3>2. QED
        BY <1>1, <1>2, <1>7, <3>1 DEF Polled
    <2>5. "out" \in k.events <=> ~AllSent(k, kind)
      BY <1>7
    <2>6. k.counter > 0 => Owes(k, kind)
      BY <1>13
    <2>7. "in" \in k.events /\ "out" \notin k.revents /\ "peek" \notin k.revents
      BY <1>1, <1>7
    <2>8. p.sock # "rst"
      BY <1>1, <1>7
    <2> HIDE DEF old
    <2>9. QED
      BY <1>8, <2>2, <2>3, <2>4, <2>5, <2>6, <2>7, <2>8 DEF Polled
  <1>15. IF Owes(k, kind) THEN nActive' = nActive ELSE nActive' = Decrement(nActive)
    BY <1>7, <1>13
  <1>16. QED
    BY <1>1, <1>2, <1>7, <1>8, <1>9, <1>14, <1>15, LocalStep

-----------------------------------------------------------------------------
(* Receiving: the end test of the parser counts the packets of the answer. *)

LEMMA AnswerLengthType ==
  ASSUME NEW k \in Connections, NEW kd \in AllKinds, Loaded(k, kd), k.counter > 0
  PROVE  /\ AnswerLength(kd, k.items) \in Nat /\ AnswerLength(kd, k.items) > 0
         /\ k.counter = k.items /\ kd \notin Silent
  <1>1. PICK n \in Nat : n = k.items /\ n > 0
    BY Fields DEF Loaded
  <1>2. kd \notin Silent /\ k.counter = n
    BY <1>1 DEF Loaded
  <1>3. AnswerLength(kd, n) \in Nat /\ AnswerLength(kd, n) > 0
    <2>1. kd = "storage" => AnswerLength(kd, n) = n
      BY KindCases
    <2>2. QED
      BY <1>1, <1>2, <2>1, KindCases
  <1>4. QED
    BY <1>1, <1>2, <1>3

LEMMA DueCases ==
  ASSUME NEW m, NEW n \in Nat, NEW i \in Nat
  PROVE  /\ Due(m, "storage", n, i) = [cmd |-> m, item |-> i, type |-> "MSG"]
         /\ i <= n => Due(m, "retrieval", n, i) = [cmd |-> m, item |-> i, type |-> "VALUE"]
         /\ i > n => Due(m, "retrieval", n, i) = [cmd |-> m, item |-> 1, type |-> "END"]
         /\ Due(m, "broadcast", n, i) = [cmd |-> m, item |-> 1, type |-> "END"]
  <1>1. Due(m, "storage", n, i) = [cmd |-> m, item |-> i, type |-> "MSG"]
    BY DEF Due
  <1>2. i <= n => Due(m, "retrieval", n, i) = [cmd |-> m, item |-> i, type |-> "VALUE"]
    BY DEF Due
  <1>3. i > n => Due(m, "retrieval", n, i) = [cmd |-> m, item |-> 1, type |-> "END"]
    BY DEF Due
  <1>4. Due(m, "broadcast", n, i) = [cmd |-> m, item |-> 1, type |-> "END"]
    BY DEF Due
  <1>5. QED
    BY <1>1, <1>2, <1>3, <1>4

LEMMA EndTest ==
  ASSUME NEW c, conn[c] \in Connections, NEW m, kind \in AllKinds,
         Loaded(conn[c], kind), conn[c].counter > 0, NEW q \in Seq(Packets),
         Right(q, m, kind, conn[c].items)
  PROVE  CanEnd(c, q) <=> Len(q) = AnswerLength(kind, conn[c].items)
  <1>1. PICK n \in Nat : n = conn[c].items /\ n > 0
    BY Fields DEF Loaded
  <1>2. PICK l \in Nat : l = Len(q)
    BY LenProperties
  <1>3. kind \notin Silent /\ conn[c].counter = n
    BY <1>1, AnswerLengthType
  <1>4. l <= AnswerLength(kind, n) /\ \A i \in 1 .. l : q[i] = Due(m, kind, n, i)
    BY <1>1, <1>2 DEF Right
  <1>5. DOMAIN q = 1 .. l /\ (q = <<>> <=> l = 0)
    <2>1. DOMAIN q = 1 .. Len(q)
      BY LenProperties
    <2>2. q = <<>> <=> Len(q) = 0
      BY EmptySeq
    <2>3. QED
      BY <1>2, <2>1, <2>2
  <1>6. CASE kind = "storage"
    <2>1. \A i \in 1 .. l : q[i].type = "MSG"
      <3> SUFFICES ASSUME NEW i \in 1 .. l PROVE q[i].type = "MSG"
        OBVIOUS
      <3>1. q[i] = Due(m, "storage", n, i)
        BY <1>4, <1>6
      <3>2. q[i] = [cmd |-> m, item |-> i, type |-> "MSG"]
        BY ONLY <3>1, i \in 1 .. l, l \in Nat, n \in Nat, DueCases
      <3>3. QED
        BY <3>2
    <2>2. Messages(q) = 1 .. l
      BY <1>5, <2>1 DEF Messages
    <2>3. Cardinality(1 .. l) = l
      BY FS_Interval
    <2>4. CanEnd(c, q) <=> l >= n
      BY <1>3, <1>6, <2>2, <2>3 DEF CanEnd, Counting
    <2>5. AnswerLength(kind, n) = n
      BY <1>6, KindCases
    <2>6. QED
      BY <1>1, <1>2, <1>4, <2>4, <2>5
  <1>7. CASE kind \in {"retrieval", "broadcast"}
    <2>1. CanEnd(c, q) <=> q # <<>> /\ Last(q).type = "END"
      BY <1>7 DEF CanEnd, Counting
    <2>2. Last(q) = q[l]
      BY <1>2 DEF Last
    <2>3. CASE kind = "retrieval"
      <3>1. AnswerLength(kind, n) = n + 1
        BY <2>3 DEF AnswerLength
      <3>2. \A i \in 1 .. l : q[i].type = "END" <=> ~(i <= n)
        <4> SUFFICES ASSUME NEW i \in 1 .. l PROVE q[i].type = "END" <=> ~(i <= n)
          OBVIOUS
        <4>1. q[i] = Due(m, "retrieval", n, i) /\ i \in Nat
          BY <1>4, <2>3
        <4>2. CASE i <= n
          BY <4>1, <4>2, DueCases
        <4>3. CASE i > n
          BY <4>1, <4>3, DueCases
        <4>4. QED
          BY <4>1, <4>2, <4>3
      <3>3. l # 0 => l \in 1 .. l
        BY <1>2
      <3>4. QED
        BY <1>1, <1>2, <1>4, <1>5, <2>1, <2>2, <3>1, <3>2, <3>3
    <2>4. CASE kind = "broadcast"
      <3>1. AnswerLength(kind, n) = 1
        BY <2>4 DEF AnswerLength
      <3>2. \A i \in 1 .. l : q[i].type = "END"
        BY <1>4, <2>4 DEF Due
      <3>3. l # 0 => l \in 1 .. l
        BY <1>2
      <3>4. QED
        BY <1>1, <1>2, <1>4, <1>5, <2>1, <2>2, <3>1, <3>2, <3>3
    <2>5. QED
      BY <1>7, <2>3, <2>4
  <1>8. QED
    BY <1>3, <1>6, <1>7, KindCases

\* What is parsed before a refusal is right.
LEMMA ParsedRight ==
  ASSUME TypeInv, NEW c \in Conns, Loaded(conn[c], kind), conn[c].counter > 0,
         Right(conn[c].got, cmd, kind, conn[c].items),
         Refused(conn[c], peer[c]) \/ InStep(conn[c], peer[c], cmd, kind),
         NEW i \in Nat, i <= Len(peer[c].replies),
         \A j \in 1 .. i : peer[c].replies[j].type # "ERR"
  PROVE  Right(Parsed(c, i), cmd, kind, conn[c].items)
  <1>1. PICK x, a, b, l \in Nat : Sizes(conn[c], peer[c], x, a, b, l)
    BY KindType, SizesExist
  <1>2. Len(conn[c].got) = a /\ Len(peer[c].replies) = b
    BY <1>1 DEF Sizes
  <1>3. i \in 0 .. Len(peer[c].replies) /\ i <= b
    BY <1>2
  <1>4. /\ Parsed(c, i) \in Seq(Packets)
        /\ Len(Parsed(c, i)) = a + i
        /\ \A j \in 1 .. a : Parsed(c, i)[j] = conn[c].got[j]
        /\ \A j \in 1 .. i : Parsed(c, i)[a + j] = peer[c].replies[j]
    BY <1>2, <1>3, ParsedType
  <1>5. PICK al \in Nat : al = AnswerLength(kind, conn[c].items) /\ al > 0
    BY KindType, AnswerLengthType
  <1>6. /\ a <= al
        /\ \A j \in 1 .. a : conn[c].got[j] = Due(cmd, kind, conn[c].items, j)
    BY <1>2, <1>5 DEF Right
  <1>7. /\ a + i <= al
        /\ \A j \in 1 .. i : peer[c].replies[j] = Due(cmd, kind, conn[c].items, a + j)
    <2>1. CASE Refused(conn[c], peer[c])
      <3>1. b = 1 /\ peer[c].replies[1].type = "ERR"
        BY <1>2, <2>1 DEF Refused
      <3>2. i = 0
        <4>1. SUFFICES ASSUME i # 0 PROVE FALSE
          OBVIOUS
        <4>2. 1 \in 1 .. i
          BY <4>1
        <4>3. QED
          BY <3>1, <4>2
      <3>3. QED
        BY <1>6, <3>2
    <2>2. CASE InStep(conn[c], peer[c], cmd, kind)
      <3>1. Continues(conn[c], peer[c], cmd, kind)
        BY <2>2 DEF InStep
      <3>2. a + b <= al
        BY <1>2, <1>5, <3>1 DEF Continues
      <3>3. DOMAIN peer[c].replies = 1 .. b
        BY <1>2, KindType, Lengths
      <3>4. \A j \in 1 .. b : \/ peer[c].replies[j] = Due(cmd, kind, conn[c].items, a + j)
                              \/ peer[c].replies[j].type = "ERR"
        BY <1>2, <3>1, <3>3 DEF Continues
      <3>5. \A j \in 1 .. i : j \in 1 .. b
        BY <1>3
      <3>6. QED
        BY <1>3, <3>2, <3>4, <3>5
    <2>3. QED
      BY <2>1, <2>2
  <1>8. ASSUME NEW j \in 1 .. a + i
        PROVE  Parsed(c, i)[j] = Due(cmd, kind, conn[c].items, j)
    <2>1. CASE j <= a
      <3>1. j \in 1 .. a
        BY <2>1
      <3>2. QED
        BY <1>4, <1>6, <3>1
    <2>2. CASE ~(j <= a)
      <3>1. PICK h \in 1 .. i : a + h = j
        <4>1. j - a \in 1 .. i /\ a + (j - a) = j
          BY <2>2
        <4>2. QED
          BY <4>1
      <3>2. QED
        BY <1>4, <1>7, <3>1
    <2>3. QED
      BY <2>1, <2>2
  <1>9. QED
    BY <1>4, <1>5, <1>7, <1>8 DEF Right

\* The parser stops at an error line, or has all that was received.
LEMMA StopFacts ==
  ASSUME TypeInv, Inv, NEW c \in Conns, Turn(c), conn[c].revents = {"in"},
         NEW n \in 1 .. Len(peer[c].replies), NEW s \in 0 .. n, StopsAt(c, n, s)
  PROVE  /\ Loaded(conn[c], kind) /\ conn[c].counter > 0
         /\ Bad(c, s) => s > 0 /\ Right(Parsed(c, s - 1), cmd, kind, conn[c].items)
         /\ ~Bad(c, s) =>
              /\ s = n /\ InStep(conn[c], peer[c], cmd, kind)
              /\ \A j \in 1 .. n : peer[c].replies[j].type # "ERR"
              /\ Right(Parsed(c, n), cmd, kind, conn[c].items)
  <1>1. /\ pc = "poll" /\ c \in active /\ Owes(conn[c], kind) /\ conn[c].alive = TRUE
        /\ Loaded(conn[c], kind) /\ Polled(conn[c], peer[c], kind)
        /\ Right(conn[c].got, cmd, kind, conn[c].items)
        /\ Refused(conn[c], peer[c]) \/ InStep(conn[c], peer[c], cmd, kind)
    BY TurnFacts
  <1>2. kind \notin Silent
    BY <1>1 DEF Polled
  <1>3. conn[c] \in Connections /\ peer[c] \in Sockets /\ kind \in AllKinds
        /\ Typed(conn[c], peer[c], kind)
    BY KindType
  <1>4. conn[c].counter > 0
    BY <1>1, <1>2, <1>3, Fields DEF Loaded
  <1>5. PICK x, a, b, l \in Nat : Sizes(conn[c], peer[c], x, a, b, l)
    BY <1>3, SizesExist
  <1>6. Len(conn[c].got) = a /\ Len(peer[c].replies) = b
    BY <1>5 DEF Sizes
  <1>7. PICK al \in Nat : al = AnswerLength(kind, conn[c].items) /\ al > 0
    BY <1>1, <1>3, <1>4, AnswerLengthType
  <1>8. a # al
    <2>1. SUFFICES ASSUME a = al PROVE FALSE
      OBVIOUS
    <2>2. conn[c].sent <= Parts(kind, conn[c].items)
      BY <1>3 DEF Typed
    <2>3. AllSent(conn[c], kind)
      BY <1>1, <1>3, <1>4, <1>6, <1>7, <2>1, <2>2, AnsweredIsSent
    <2>4. QED
      BY <1>1, <1>6, <1>7, <2>1, <2>3 DEF Owes
  <1>9. n \in 1 .. b /\ s \in 0 .. b
    BY <1>6
  <1>10. /\ CanEnd(c, Parsed(c, s)) \/ Bad(c, s) \/ s = n
         /\ \A i \in 0 .. n : i < s => ~Bad(c, i)
    BY DEF StopsAt
  <1>11. \A j \in 1 .. n : j < s => peer[c].replies[j].type # "ERR"
    BY <1>10 DEF Bad
  <1>12. ASSUME Bad(c, s)
         PROVE  s > 0 /\ Right(Parsed(c, s - 1), cmd, kind, conn[c].items)
    <2>1. s > 0
      BY <1>12 DEF Bad
    <2>2. PICK i \in Nat : i = s - 1
      BY <2>1
    <2>3. i <= Len(peer[c].replies) /\ \A j \in 1 .. i : j \in 1 .. n /\ j < s
      BY <1>6, <1>9, <2>2
    <2>4. \A j \in 1 .. i : peer[c].replies[j].type # "ERR"
      BY <1>11, <2>3
    <2>5. Right(Parsed(c, i), cmd, kind, conn[c].items)
      BY <1>1, <1>4, <2>3, <2>4, ParsedRight
    <2>6. QED
      BY <2>1, <2>2, <2>5
  <1>13. ASSUME ~Bad(c, s)
         PROVE  /\ s = n /\ InStep(conn[c], peer[c], cmd, kind)
                /\ \A j \in 1 .. n : peer[c].replies[j].type # "ERR"
                /\ Right(Parsed(c, n), cmd, kind, conn[c].items)
    <2>1. \A j \in 1 .. s : peer[c].replies[j].type # "ERR"
      <3> SUFFICES ASSUME NEW j \in 1 .. s PROVE peer[c].replies[j].type # "ERR"
        OBVIOUS
      <3>1. CASE j < s
        BY <1>11, <3>1
      <3>2. CASE j = s
        BY <1>13, <3>2 DEF Bad
      <3>3. QED
        BY <3>1, <3>2
    <2>2. s \in Nat /\ s <= Len(peer[c].replies)
      BY <1>6, <1>9
    <2>3. Right(Parsed(c, s), cmd, kind, conn[c].items)
      BY <1>1, <1>4, <2>1, <2>2, ParsedRight
    <2>4. Parsed(c, s) \in Seq(Packets) /\ Len(Parsed(c, s)) = a + s
      <3>1. s \in 0 .. Len(peer[c].replies)
        BY <2>2
      <3>2. QED
        BY <1>6, <3>1, ParsedType
    <2>5. CanEnd(c, Parsed(c, s)) <=> a + s = al
      BY <1>1, <1>3, <1>4, <1>7, <2>3, <2>4, EndTest
    <2>6. s # 0
      BY <1>8, <1>10, <1>13, <2>5
    <2>7. InStep(conn[c], peer[c], cmd, kind)
      <3>1. ~Refused(conn[c], peer[c])
        <4>1. 1 \in 1 .. s
          BY <2>2, <2>6
        <4>2. QED
          BY <2>1, <4>1 DEF Refused
      <3>2. QED
        BY <1>1, <3>1
    <2>8. a + b <= al
      BY <1>6, <1>7, <2>7 DEF InStep, Continues
    <2>9. s = n
      BY <1>9, <1>10, <1>13, <2>5, <2>8
    <2>10. QED
      BY <2>1, <2>3, <2>7, <2>9
  <1>14. QED
    BY <1>1, <1>4, <1>12, <1>13

\* Packets that have been parsed rather than wait to be read.
LEMMA RecvInStep ==
  ASSUME NEW k \in Connections, NEW old \in Connections, NEW p \in Sockets,
         NEW oldp \in Sockets, NEW m, NEW kd \in AllKinds, NEW n \in Nat, n > 0,
         NEW x \in Nat, NEW a \in Nat, NEW b \in Nat, NEW l \in Nat,
         Sizes(old, oldp, x, a, b, l), kd \notin Silent,
         InStep(old, oldp, m, kd), Keeps(k, old), k.sent = old.sent, n <= b,
         Len(k.got) = a + n, Len(p.replies) = b - n,
         \A i \in 1 .. b - n : p.replies[i] = oldp.replies[n + i],
         \A j \in 1 .. n : oldp.replies[j].type # "ERR",
         p.wire = oldp.wire, p.sock = oldp.sock
  PROVE  /\ InStep(k, p, m, kd)
         /\ Whole(k, p, kd) => Whole(old, oldp, kd)
  <1>1. /\ k.items = old.items /\ k.sent = x /\ old.sent = x
        /\ Len(old.got) = a /\ Len(oldp.replies) = b
    BY DEF Keeps, Sizes
  <1>2. DOMAIN oldp.replies = 1 .. b /\ DOMAIN p.replies = 1 .. b - n
    BY <1>1, Lengths
  <1>3. Continues(old, oldp, m, kd)
    BY DEF InStep
  <1>4. k.got # <<>> /\ oldp.replies # <<>>
    <2>1. Len(k.got) # 0 /\ Len(oldp.replies) # 0
      BY <1>1
    <2>2. QED
      BY <2>1, Lengths
  <1>5. PICK c \in Nat : c = b - n
    OBVIOUS
  <1>6. Continues(k, p, m, kd)
    <2>1. Len(k.got) + Len(p.replies) = a + b
      BY <1>5
    <2>2. a + b <= AnswerLength(kd, old.items)
      BY <1>1, <1>3 DEF Continues
    <2>3. ASSUME NEW i \in 1 .. c
          PROVE  \/ p.replies[i] = Due(m, kd, k.items, Len(k.got) + i)
                 \/ p.replies[i].type = "ERR"
      <3>1. n + i \in 1 .. b /\ a + (n + i) = a + n + i /\ i \in 1 .. b - n
        BY <1>5
      <3>2. \/ oldp.replies[n + i] = Due(m, kd, old.items, a + (n + i))
            \/ oldp.replies[n + i].type = "ERR"
        BY <1>1, <1>2, <1>3, <3>1 DEF Continues
      <3>3. p.replies[i] = oldp.replies[n + i]
        BY <3>1
      <3>4. QED
        BY <1>1, <3>1, <3>2, <3>3
    <2>4. ASSUME kd \in {"retrieval", "broadcast"}
          PROVE  /\ k.sent = 2 /\ a + b = AnswerLength(kd, k.items)
                 /\ \A i \in 1 .. c : p.replies[i].type # "ERR"
      <3>1. /\ old.sent = 2
            /\ \/ /\ a + b = AnswerLength(kd, old.items)
                  /\ \A i \in 1 .. b : oldp.replies[i].type # "ERR"
               \/ oldp.replies[1].type = "ERR"
        BY <1>1, <1>2, <1>3, <1>4, <2>4 DEF Continues
      <3>2. oldp.replies[1].type # "ERR"
        <4>1. 1 \in 1 .. n
          OBVIOUS
        <4>2. QED
          BY <4>1
      <3>3. \A i \in 1 .. c : n + i \in 1 .. b /\ p.replies[i] = oldp.replies[n + i]
        BY <1>5
      <3>4. QED
        BY <1>1, <3>1, <3>2, <3>3
    <2>5. QED
      BY <1>1, <1>2, <1>5, <2>1, <2>2, <2>3, <2>4 DEF Continues
  <1>7. Unread(k, p, kd) = Unread(old, oldp, kd)
    <2>1. CASE kd = "storage"
      <3>1. Unread(old, oldp, kd) = x - 2 * (a + b)
        BY <1>1, <2>1, StorageUnread
      <3>2. a + n \in Nat /\ c \in Nat /\ Len(p.replies) = c
        BY <1>5
      <3>3. Unread(k, p, kd) = x - 2 * ((a + n) + c)
        BY <1>1, <2>1, <3>2, StorageUnread
      <3>4. (a + n) + c = a + b
        BY <1>5
      <3>5. QED
        BY <3>1, <3>3, <3>4
    <2>2. CASE kd \in {"retrieval", "broadcast"}
      <3>1. kd \notin Silent \cup {"storage"}
        BY <2>2, KindCases
      <3>2. Unread(old, oldp, kd) = IF old.got = <<>> /\ oldp.replies = <<>>
                                      THEN old.sent ELSE 0
        BY ONLY <3>1, UnreadCases
      <3>3. Unread(k, p, kd) = IF k.got = <<>> /\ p.replies = <<>> THEN k.sent ELSE 0
        BY ONLY <3>1, UnreadCases
      <3>4. QED
        BY ONLY <1>4, <3>2, <3>3
    <2>3. QED
      BY <2>1, <2>2, KindCases
  <1>8. InStep(k, p, m, kd)
    <2>1. old.sent = k.sent /\ old.items = k.items
      BY <1>1
    <2>2. Unread(k, p, kd) >= 0
      BY <1>7 DEF InStep
    <2>3. p.sock # "rst" => Wired(k, p, m, kd)
      BY <1>7, <2>1 DEF InStep, Wired
    <2>4. QED
      BY <1>6, <2>2, <2>3 DEF InStep
  <1>9. ASSUME Whole(k, p, kd)
        PROVE  Whole(old, oldp, kd)
    <2>1. a + b = AnswerLength(kd, old.items)
      <3>1. (a + n) + c = AnswerLength(kd, old.items)
        BY <1>1, <1>5, <1>9 DEF Whole
      <3>2. (a + n) + c = a + b
        BY <1>5
      <3>3. QED
        BY <3>1, <3>2
    <2>2. ASSUME NEW i \in 1 .. b
          PROVE  oldp.replies[i].type # "ERR"
      <3>1. CASE i <= n
        <4>1. i \in 1 .. n
          BY <3>1
        <4>2. QED
          BY <4>1
      <3>2. CASE ~(i <= n)
        <4>1. PICK j \in 1 .. c : n + j = i
          <5>1. i - n \in 1 .. c /\ n + (i - n) = i
            BY <1>5, <3>2
          <5>2. QED
            BY <5>1
        <4>2. p.replies[j].type # "ERR"
          BY <1>2, <1>5, <1>9 DEF Whole
        <4>3. p.replies[j] = oldp.replies[i]
          BY <1>5, <4>1
        <4>4. QED
          BY <4>2, <4>3
      <3>3. QED
        BY <3>1, <3>2
    <2>3. QED
      BY <1>1, <1>2, <2>1, <2>2 DEF Whole
  <1>10. QED
    BY <1>8, <1>9

LEMMA ReceivedStep ==
  ASSUME TypeInv, Inv, NEW c \in Conns, Turn(c), conn[c].revents = {"in"},
         UNCHANGED commandVars,
         NEW n \in 1 .. Len(peer[c].replies), NEW s \in 0 .. n, StopsAt(c, n, s),
         NEW k \in Connections, NEW p \in Sockets, Received(c, n, s, k, p)
  PROVE  Inv'
  <1> DEFINE old == conn[c]
  <1>1. /\ pc = "poll" /\ c \in active /\ Owes(old, kind) /\ old.alive = TRUE
        /\ Polled(old, peer[c], kind)
    BY TurnFacts
  <1>2. old \in Connections /\ peer[c] \in Sockets /\ kind \in AllKinds
        /\ Typed(old, peer[c], kind)
    BY KindType
  <1>3. PICK x, a, b, l \in Nat : Sizes(old, peer[c], x, a, b, l)
    BY <1>2, SizesExist
  <1>4. Len(old.got) = a /\ Len(peer[c].replies) = b
    BY <1>3 DEF Sizes
  <1>5. n \in Nat /\ n > 0 /\ n <= b
    BY <1>4
  <1>6. /\ Loaded(old, kind) /\ old.counter > 0
        /\ s = n /\ InStep(old, peer[c], cmd, kind)
        /\ \A j \in 1 .. n : peer[c].replies[j].type # "ERR"
        /\ Right(Parsed(c, n), cmd, kind, old.items)
    BY StopFacts DEF Received
  <1>7. PICK al \in Nat : al = AnswerLength(kind, old.items) /\ al > 0
    BY <1>2, <1>6, AnswerLengthType
  <1>8. Parsed(c, n) \in Seq(Packets) /\ Len(Parsed(c, n)) = a + n
    <2>1. n \in 0 .. Len(peer[c].replies)
      BY <1>4, <1>5
    <2>2. QED
      BY <1>4, <2>1, ParsedType
  <1>9. CanEnd(c, Parsed(c, n)) <=> a + n = al
    BY <1>2, <1>6, <1>7, <1>8, EndTest
  <1> DEFINE done == a + n = al
  <1>10. /\ Local(c, k, p) /\ Keeps(k, old) /\ k.sent = old.sent
         /\ k.got = Parsed(c, n) /\ k.revents = {}
         /\ k.events = IF done THEN old.events \ {"in"} ELSE old.events
         /\ p.sock = peer[c].sock /\ p.wire = peer[c].wire
         /\ p.replies = SubSeq(peer[c].replies, n + 1, Len(peer[c].replies))
         /\ nActive' = IF done THEN Decrement(nActive) ELSE nActive
         /\ ret' = ret
    BY <1>6, <1>9 DEF Received
  <1>11. k.alive = TRUE /\ k.items = old.items /\ k.counter = old.counter
    BY <1>1, <1>10 DEF Keeps
  <1>12. Len(p.replies) = b - n
         /\ \A i \in 1 .. b - n : p.replies[i] = peer[c].replies[n + i]
    <2>1. peer[c].replies \in Seq(Packets) /\ n \in 0 .. Len(peer[c].replies)
      BY <1>2, <1>4, <1>5, Lengths
    <2>2. QED
      BY <1>4, <1>10, <2>1, LeftOver
  <1>13. kind \notin Silent
    BY <1>2, <1>6, AnswerLengthType
  <1>14. /\ InStep(k, p, cmd, kind)
         /\ Whole(k, p, kind) => Whole(old, peer[c], kind)
    <2>1. Len(k.got) = a + n
      BY <1>8, <1>10
    <2> HIDE DEF old, done
    <2>2. QED
      BY <1>2, <1>3, <1>5, <1>6, <1>10, <1>12, <1>13, <2>1, RecvInStep
  <1>15. Loaded(k, kind)
    BY <1>6, <1>11 DEF Loaded
  <1>16. Busy(k, p, cmd, kind)
    BY <1>6, <1>10, <1>11, <1>14, <1>15 DEF Busy
  <1>17. AllSent(k, kind) <=> AllSent(old, kind)
    BY <1>10, <1>11 DEF AllSent
  <1>18. done => AllSent(k, kind)
    <2>1. k.sent <= Parts(kind, k.items)
      BY <1>2, <1>10, <1>11 DEF Typed
    <2>2. done => Len(k.got) = AnswerLength(kind, k.items)
      BY <1>7, <1>8, <1>10, <1>11
    <2> HIDE DEF done, old
    <2>3. QED
      BY <1>2, <1>6, <1>11, <1>14, <1>15, <2>1, <2>2, AnsweredIsSent
  <1>19. Owes(k, kind) <=> ~done
    <2>1. Len(k.got) = a + n /\ AnswerLength(kind, k.items) = al
      BY <1>7, <1>8, <1>10, <1>11
    <2>2. QED
      BY <1>6, <1>11, <1>18, <2>1 DEF Owes
  <1> HIDE DEF done
  <1>20. Polled(k, p, kind)
    <2>1. "out" \in k.events <=> ~AllSent(k, kind)
      <3>1. "out" \in old.events <=> ~AllSent(old, kind)
        BY <1>1 DEF Polled
      <3>2. QED
        BY <1>10, <1>17, <3>1
    <2>2. Owes(k, kind) /\ AllSent(k, kind) => "in" \in k.events
      <3>1. AllSent(old, kind) => "in" \in old.events
        BY <1>1 DEF Polled
      <3>2. QED
        BY <1>10, <1>17, <1>19, <3>1
    <2>3. ~Owes(k, kind) => k.events = {}
      <3>1. k.events \subseteq {"in", "out"}
        BY Fields
      <3>2. ~Owes(k, kind) => "in" \notin k.events /\ "out" \notin k.events
        BY <1>10, <1>18, <1>19, <2>1
      <3>3. QED
        BY <3>1, <3>2
    <2>4. p.sock = "rst" => ~(AllSent(k, kind) /\ Whole(k, p, kind))
      <3>1. peer[c].sock = "rst" =>
              ~(AllSent(old, kind) /\ Whole(old, peer[c], kind))
        BY <1>1 DEF Polled
      <3>2. QED
        BY <1>10, <1>14, <1>17, <3>1
    <2>5. k.revents = {}
      BY <1>10
    <2>6. QED
      BY <1>11, <1>13, <2>1, <2>2, <2>3, <2>4, <2>5 DEF Polled
  <1>21. IF Owes(k, kind) THEN nActive' = nActive ELSE nActive' = Decrement(nActive)
    BY <1>10, <1>19
  <1>22. QED
    BY <1>1, <1>10, <1>11, <1>16, <1>20, <1>21, LocalStep

LEMMA RecvStep ==
  ASSUME TypeInv, Inv, NEW c \in Conns, Recv(c)
  PROVE  Inv'
  <1>1. Turn(c) /\ conn[c].revents = {"in"} /\ UNCHANGED commandVars
    BY DEF Recv, Receiving, commandVars
  <1>2. PICK n \in 1 .. Len(peer[c].replies) : \E s \in 0 .. n :
           /\ StopsAt(c, n, s)
           /\ \/ Refusal(c, s)
              \/ \E k \in Connections, p \in Sockets : Received(c, n, s, k, p)
    BY RecvShape
  <1>3. PICK s \in 0 .. n :
           /\ StopsAt(c, n, s)
           /\ \/ Refusal(c, s)
              \/ \E k \in Connections, p \in Sockets : Received(c, n, s, k, p)
    BY <1>2
  <1>4. CASE Refusal(c, s)
    <2>1. PICK k \in Connections, err \in Errors :
            /\ k.alive = FALSE /\ Same(k, conn[c])
            /\ k.got = Parsed(c, s - 1) /\ GiveUp(c, k, err)
      BY <1>4 DEF Refusal
    <2>2. Bad(c, s)
      BY <1>4 DEF Refusal
    <2>3. Right(Parsed(c, s - 1), cmd, kind, conn[c].items)
      BY <1>1, <1>3, <2>2, StopFacts
    <2>4. Right(k.got, cmd, kind, k.items)
      BY <2>1, <2>3 DEF Same
    <2>5. pc = "poll" /\ c \in active /\ Owes(conn[c], kind)
      BY <1>1, TurnFacts
    <2>6. QED
      BY <1>1, <2>1, <2>4, <2>5, GiveUpStep
  <1>5. CASE \E k \in Connections, p \in Sockets : Received(c, n, s, k, p)
    <2>1. PICK k \in Connections, p \in Sockets : Received(c, n, s, k, p)
      BY <1>5
    <2>2. QED
      BY <1>1, <1>3, <2>1, ReceivedStep
  <1>6. QED
    BY <1>3, <1>4, <1>5

LEMMA ServeStep ==
  ASSUME TypeInv, Inv, NEW c \in Conns, Serve(c)
  PROVE  Inv'
  <1>1. CASE HandleHup(c)
    <2>1. Turn(c) /\ RetryOrGiveUp(c, "CONN_POLL_ERR") /\ UNCHANGED commandVars
      BY <1>1 DEF HandleHup, commandVars
    <2>2. QED
      BY <2>1, RetryStep DEF Errors
  <1>2. CASE SendFails(c)
    <2>1. Turn(c) /\ RetryOrGiveUp(c, "SEND_ERR") /\ UNCHANGED commandVars
      BY <1>2 DEF SendFails, Sending, commandVars
    <2>2. QED
      BY <2>1, RetryStep DEF Errors
  <1>3. CASE RecvFails(c)
    <2>1. Turn(c) /\ RetryOrGiveUp(c, "RECV_ERR") /\ UNCHANGED commandVars
      BY <1>3 DEF RecvFails, Receiving, commandVars
    <2>2. QED
      BY <2>1, RetryStep DEF Errors
  <1>4. CASE PeekClosed(c) \/ PeekData(c)
    BY <1>4, PeekClosedStep, PeekDataStep
  <1>5. CASE Send(c) \/ Recv(c)
    BY <1>5, SendStep, RecvStep
  <1>6. QED
    BY <1>1, <1>2, <1>3, <1>4, <1>5 DEF Serve

-----------------------------------------------------------------------------
(* What a server does with one socket.                                     *)

LEMMA SocketStep ==
  ASSUME TypeInv, Inv, NEW c \in Conns, NEW p \in Sockets, OneSocketChanges(c, p),
         c \in active => Busy(conn[c], p, cmd, kind),
         c \in active /\ pc = "poll" => Polled(conn[c], p, kind),
         c \notin active /\ conn[c].alive => Rest(p)
  PROVE  Inv'
  <1>1. /\ UNCHANGED <<pc, cmd, kind, active, nActive, ret, conn>>
        /\ peer'[c] = p /\ active \subseteq Conns
        /\ \A d \in Conns : d # c => peer'[d] = peer[d]
    BY DEF OneSocketChanges, TypeInv
  <1>2. Owing' = Owing
    BY <1>1 DEF Owing
  <1>3. ActiveInv'
    BY <1>1 DEF Inv, ActiveInv
  <1>4. RestInv'
    BY <1>1 DEF Inv, RestInv
  <1>5. PollInv'
    <2>1. pc = "poll" => \A d \in active : Polled(conn[d], peer'[d], kind)
      BY <1>1 DEF Inv, PollInv
    <2>2. QED
      BY <1>1, <1>2, <2>1 DEF Inv, PollInv
  <1>6. CollectInv'
    BY <1>1, <1>2 DEF Inv, CollectInv
  <1>7. QED
    BY <1>3, <1>4, <1>5, <1>6 DEF Inv

\* The rest of what is polled does not depend on the socket.
LEMMA PolledStill ==
  ASSUME NEW k, NEW oldp, NEW p, NEW kd, Polled(k, oldp, kd),
         k.alive /\ p.sock = "rst" => ~(AllSent(k, kd) /\ Whole(k, p, kd)),
         k.alive /\ kd \in Silent =>
           /\ p.replies = <<>>
           /\ AllSent(k, kd) => p.sock = "open"
           /\ p.sock # "fin"
  PROVE  Polled(k, p, kd)
  BY DEF Polled

LEMMA ClosingStep ==
  ASSUME Survivable, TypeInv, Inv, NEW c \in Conns, NEW p \in Sockets,
         OneSocketChanges(c, p), Closing(c, p)
  PROVE  Inv'
  <1>1. /\ peer[c].sock = "open" /\ p.sock = "fin" /\ p.wire = peer[c].wire
        /\ p.replies = peer[c].replies
    BY DEF Closing
  <1>2. ASSUME c \in active
        PROVE  Busy(conn[c], p, cmd, kind)
    <2>1. Busy(conn[c], peer[c], cmd, kind)
      BY <1>2 DEF Inv, ActiveInv
    <2>2. ~Refused(conn[c], peer[c])
      BY <1>1 DEF Refused
    <2>3. Unread(conn[c], p, kind) = Unread(conn[c], peer[c], kind)
      BY <1>1 DEF Unread
    <2>4. InStep(conn[c], peer[c], cmd, kind) => InStep(conn[c], p, cmd, kind)
      BY <1>1, <2>3 DEF InStep, Continues, Wired
    <2>5. QED
      BY <2>1, <2>2, <2>4 DEF Busy
  <1>3. ASSUME c \in active, pc = "poll"
        PROVE  Polled(conn[c], p, kind)
    <2>1. Polled(conn[c], peer[c], kind) /\ Loaded(conn[c], kind)
      BY <1>3 DEF Inv, ActiveInv, PollInv, Busy
    <2>2. kind \notin Silent
      <3>1. SUFFICES ASSUME kind \in Silent PROVE FALSE
        OBVIOUS
      <3>2. conn[c].counter = 0
        BY <2>1, <3>1 DEF Loaded
      <3>3. "noreply_close" \in Faults
        BY <1>3, <3>2 DEF Closing, InNoreply
      <3>4. kind \in Kinds
        BY <1>3, KindType
      <3>5. QED
        BY <3>1, <3>3, <3>4 DEF Survivable
    <2>3. QED
      BY <1>1, <2>1, <2>2, PolledStill
  <1>4. c \notin active /\ conn[c].alive => Rest(p)
    BY <1>1 DEF Inv, RestInv, Rest
  <1>5. QED
    BY <1>2, <1>3, <1>4, SocketStep

LEMMA RefusingStep ==
  ASSUME Survivable, TypeInv, Inv, NEW c \in Conns, NEW p \in Sockets,
         OneSocketChanges(c, p), Refusing(c, p)
  PROVE  Inv'
  <1>1. /\ "unasked_line" \in Faults /\ pc = "poll" /\ c \in active
        /\ peer[c].sock = "open" /\ conn[c].sent = 0
        /\ p.sock = "fin" /\ Len(p.replies) = 1 /\ p.replies[1].type = "ERR"
    BY DEF Refusing
  <1>2. /\ conn[c] \in Connections /\ peer[c] \in Sockets /\ kind \in AllKinds
        /\ kind \in Kinds /\ Typed(conn[c], peer[c], kind)
    BY <1>1, KindType
  <1>3. Busy(conn[c], peer[c], cmd, kind) /\ Polled(conn[c], peer[c], kind)
    BY <1>1 DEF Inv, ActiveInv, PollInv
  <1>4. kind \notin Silent
    BY <1>1, <1>2 DEF Survivable
  <1>5. conn[c].counter > 0
    BY <1>2, <1>3, <1>4, Fields DEF Busy, Loaded
  <1>6. conn[c].got = <<>>
    <2>1. conn[c].alive
      BY <1>1, <1>2 DEF Typed
    <2>2. Refused(conn[c], peer[c]) \/ InStep(conn[c], peer[c], cmd, kind)
      BY <1>3, <2>1 DEF Busy
    <2>3. QED
      BY <1>1, <1>2, <2>2, NothingSent
  <1>7. Busy(conn[c], p, cmd, kind)
    BY <1>1, <1>3, <1>5, <1>6 DEF Busy, Refused
  <1>8. Polled(conn[c], p, kind)
    BY <1>1, <1>3, <1>4, PolledStill
  <1>9. QED
    BY <1>1, <1>7, <1>8, SocketStep

\* A connection that has sent all and has its whole answer needs the server
\* no more.
LEMMA WholeIsAnswered ==
  ASSUME TypeInv, Inv, NEW c \in active, pc = "poll", conn[c].alive,
         AllSent(conn[c], kind),
         conn[c].counter > 0 => Whole(conn[c], peer[c], kind)
  PROVE  Answered(c)
  <1>1. /\ c \in Conns /\ conn[c] \in Connections /\ peer[c] \in Sockets
        /\ kind \in AllKinds
    BY KindType
  <1>2. ~Unsent(c)
    <2>1. conn[c].sent \in Nat
      BY <1>1, Fields
    <2>2. QED
      BY <2>1 DEF AllSent, Unsent
  <1>3. ASSUME conn[c].counter > 0
        PROVE  CanEnd(c, conn[c].got \o peer[c].replies)
    <2>1. /\ Loaded(conn[c], kind) /\ Right(conn[c].got, cmd, kind, conn[c].items)
          /\ Refused(conn[c], peer[c]) \/ InStep(conn[c], peer[c], cmd, kind)
      BY DEF Inv, ActiveInv, Busy
    <2>2. PICK x, a, b, l \in Nat : Sizes(conn[c], peer[c], x, a, b, l)
      BY <1>1, SizesExist
    <2>3. Len(conn[c].got) = a /\ Len(peer[c].replies) = b
      BY <2>2 DEF Sizes
    <2>4. DOMAIN peer[c].replies = 1 .. b
      BY <1>1, <2>3, Lengths
    <2>5. /\ a + b = AnswerLength(kind, conn[c].items)
          /\ \A j \in 1 .. b : peer[c].replies[j].type # "ERR"
      BY <1>3, <2>3, <2>4 DEF Whole
    <2>6. b <= Len(peer[c].replies)
      BY <2>3
    <2>7. Right(Parsed(c, b), cmd, kind, conn[c].items)
      BY <1>1, <1>3, <2>1, <2>5, <2>6, ParsedRight
    <2>8. Parsed(c, b) \in Seq(Packets) /\ Len(Parsed(c, b)) = a + b
      <3>1. b \in 0 .. Len(peer[c].replies)
        BY <2>3
      <3>2. QED
        BY <1>1, <2>3, <3>1, ParsedType
    <2>9. CanEnd(c, Parsed(c, b))
      BY <1>1, <1>3, <2>1, <2>5, <2>7, <2>8, EndTest
    <2>10. Parsed(c, b) = conn[c].got \o peer[c].replies
      <3>1. peer[c].replies \in Seq(Packets)
        BY <1>1, Lengths
      <3>2. SubSeq(peer[c].replies, 1, b) = peer[c].replies
        BY <2>3, <3>1, SubSeqFull
      <3>3. QED
        BY <3>2 DEF Parsed
    <2>11. QED
      BY <2>9, <2>10
  <1>4. QED
    BY <1>2, <1>3 DEF Answered

LEMMA ResettingStep ==
  ASSUME Survivable, TypeInv, Inv, NEW c \in Conns, NEW p \in Sockets,
         OneSocketChanges(c, p), Resetting(c, p)
  PROVE  Inv'
  <1>1. /\ peer[c].sock \in {"open", "fin"} /\ p.sock = "rst" /\ p.wire = <<>>
        /\ p.replies = peer[c].replies /\ ~Answered(c)
    BY DEF Resetting, Survivable
  <1>2. ASSUME c \in active
        PROVE  Busy(conn[c], p, cmd, kind)
    <2>1. Busy(conn[c], peer[c], cmd, kind)
      BY <1>2 DEF Inv, ActiveInv
    <2>2. Refused(conn[c], peer[c]) => Refused(conn[c], p)
      BY <1>1 DEF Refused
    <2>3. Unread(conn[c], p, kind) = Unread(conn[c], peer[c], kind)
      BY <1>1 DEF Unread
    <2>4. InStep(conn[c], peer[c], cmd, kind) => InStep(conn[c], p, cmd, kind)
      BY <1>1, <2>3 DEF InStep, Continues
    <2>5. QED
      BY <2>1, <2>2, <2>4 DEF Busy
  <1>3. ASSUME c \in active, pc = "poll"
        PROVE  Polled(conn[c], p, kind)
    <2>1. Polled(conn[c], peer[c], kind) /\ Loaded(conn[c], kind)
      BY <1>3 DEF Inv, ActiveInv, PollInv, Busy
    <2>2. Whole(conn[c], p, kind) <=> Whole(conn[c], peer[c], kind)
      BY <1>1 DEF Whole
    <2>3. conn[c].alive => ~(AllSent(conn[c], kind) /\ Whole(conn[c], p, kind))
      BY <1>1, <1>3, <2>2, WholeIsAnswered
    <2>4. ASSUME conn[c].alive, kind \in Silent
          PROVE  p.replies = <<>> /\ ~AllSent(conn[c], kind)
      <3>1. conn[c].counter = 0
        BY <2>1, <2>4 DEF Loaded
      <3>2. ~(conn[c].counter > 0)
        BY <3>1
      <3>3. ~AllSent(conn[c], kind)
        BY <1>1, <1>3, <2>4, <3>2, WholeIsAnswered
      <3>4. QED
        BY <1>1, <2>1, <2>4, <3>3 DEF Polled
    <2>5. QED
      BY <1>1, <2>1, <2>3, <2>4, PolledStill
  <1>4. c \notin active /\ conn[c].alive => Rest(p)
    <2>1. Len(p.wire) = 0 /\ Pairs(p.wire, 0)
      BY <1>1 DEF Pairs
    <2>2. QED
      BY <1>1, <2>1 DEF Inv, RestInv, Rest
  <1>5. QED
    BY <1>2, <1>3, <1>4, SocketStep

-----------------------------------------------------------------------------
(* The server reads two parts and answers the item they make up.           *)

Shifted(v, w, n) == \A i \in 1 .. n : v[i] = w[2 + i]

LEMMA ShiftedLess ==
  ASSUME NEW v, NEW w, NEW n \in Nat, NEW m \in Nat, Shifted(v, w, n + m)
  PROVE  Shifted(v, w, n)
  <1>1. \A i \in 1 .. n : i \in 1 .. n + m
    OBVIOUS
  <1>2. QED
    BY <1>1 DEF Shifted

LEMMA PairsShift ==
  ASSUME NEW w, NEW v, NEW read \in Nat, NEW left \in Nat, read = left + 2,
         Pairs(w, read), Shifted(v, w, left)
  PROVE  Pairs(v, left)
  <1>1. left % 2 = 0
    BY DEF Pairs
  <1>2. ASSUME NEW i \in 1 .. left, i % 2 = 1
        PROVE  Pair(v[i], v[i + 1])
    <2>1. i + 1 \in 1 .. left /\ 2 + i \in 1 .. read /\ (2 + i) % 2 = 1
          /\ 2 + (i + 1) = (2 + i) + 1
      BY <1>1, <1>2
    <2>2. Pair(w[2 + i], w[(2 + i) + 1])
      BY <2>1 DEF Pairs
    <2>3. v[i] = w[2 + i] /\ v[i + 1] = w[2 + (i + 1)]
      BY <2>1 DEF Shifted
    <2>4. QED
      BY <2>1, <2>2, <2>3
  <1>3. QED
    BY <1>1, <1>2 DEF Pairs

LEMMA FollowShift ==
  ASSUME NEW w, NEW v, NEW m, NEW kd, NEW items, NEW from, NEW u \in Nat,
         NEW read \in Nat, NEW left \in Nat, read = left + 2,
         Follow(w, read, u, m, kd, items, from), Shifted(v, w, left + u)
  PROVE  Follow(v, left, u, m, kd, items, from)
  <1>1. ASSUME NEW j \in 1 .. u
        PROVE  v[left + j] = Piece(m, kd, items, from + j)
    <2>1. left + j \in 1 .. left + u /\ 2 + (left + j) = read + j
      OBVIOUS
    <2>2. v[left + j] = w[2 + (left + j)]
      BY <2>1 DEF Shifted
    <2>3. QED
      BY <2>1, <2>2 DEF Follow
  <1>2. QED
    BY <1>1 DEF Follow

LEMMA FollowRest ==
  ASSUME NEW w, NEW v, NEW m, NEW kd, NEW items, NEW from \in Int, NEW u \in Nat,
         NEW left \in Nat, u = left + 2,
         Follow(w, 0, u, m, kd, items, from), Shifted(v, w, left)
  PROVE  Follow(v, 0, left, m, kd, items, from + 2)
  <1>1. ASSUME NEW j \in 1 .. left
        PROVE  v[0 + j] = Piece(m, kd, items, from + 2 + j)
    <2>1. 2 + j \in 1 .. u /\ 0 + (2 + j) = 2 + j /\ 0 + j = j
          /\ from + (2 + j) = from + 2 + j
      OBVIOUS
    <2>2. v[j] = w[2 + j]
      BY DEF Shifted
    <2>3. w[0 + (2 + j)] = Piece(m, kd, items, from + (2 + j))
      BY <2>1 DEF Follow
    <2>4. QED
      BY <2>1, <2>2, <2>3
  <1>2. QED
    BY <1>1 DEF Follow

LEMMA AnswerCases ==
  ASSUME NEW q
  PROVE  /\ q.kind \in Silent => Answer(q) = <<>>
         /\ q.kind = "storage" => Answer(q) = <<Packet(q, "MSG")>>
         /\ q.kind = "broadcast" => Answer(q) = <<Packet(q, "END")>>
         /\ q.kind = "retrieval" => Answer(q) = [i \in 1 .. q.n + 1 |->
              IF i <= q.n THEN Packet([q EXCEPT !.item = i], "VALUE")
                          ELSE Packet(q, "END")]
  <1>1. q.kind \in Silent => Answer(q) = <<>>
    BY DEF Answer, Silent
  <1>2. q.kind = "storage" => Answer(q) = <<Packet(q, "MSG")>>
    BY DEF Answer
  <1>3. q.kind = "broadcast" => Answer(q) = <<Packet(q, "END")>>
    BY DEF Answer
  <1>4. q.kind = "retrieval" => Answer(q) = [i \in 1 .. q.n + 1 |->
              IF i <= q.n THEN Packet([q EXCEPT !.item = i], "VALUE")
                          ELSE Packet(q, "END")]
    BY DEF Answer
  <1>5. QED
    BY <1>1, <1>2, <1>3, <1>4

LEMMA SilentAnswer ==
  ASSUME NEW q1 \in Pieces, NEW q2, Pair(q1, q2), NEW answer \in Answers(q1, q2)
  PROVE  answer = <<>>
  <1>1. q2 = [q1 EXCEPT !.half = 2] /\ q1.kind \in Silent
    BY DEF Pair
  <1>2. q2.kind = q1.kind
    BY <1>1 DEF Pieces
  <1>3. Answer(q2) = <<>>
    BY <1>1, <1>2, AnswerCases
  <1>4. QED
    BY <1>1, <1>3 DEF Answers

\* An answer, and not a refusal.
Granted(answer, m, kd, n, z, length) ==
    /\ Len(answer) = length
    /\ \A i \in 1 .. length : /\ answer[i] = Due(m, kd, n, z + i)
                              /\ answer[i].type # "ERR"

Denied(answer) == Len(answer) = 1 /\ answer[1].type = "ERR"

LEMMA StorageAnswer ==
  ASSUME NEW m, NEW n \in Nat, NEW z \in Nat, NEW answer,
         answer \in Answers(Piece(m, "storage", n, 2 * z + 1),
                            Piece(m, "storage", n, 2 * z + 2))
  PROVE  Granted(answer, m, "storage", n, z, 1) \/ Denied(answer)
  <1> DEFINE q1 == Piece(m, "storage", n, 2 * z + 1)
             q2 == Piece(m, "storage", n, 2 * z + 2)
  <1>1. /\ (2 * z + 2 + 1) \div 2 = z + 1 /\ (2 * z + 1 + 1) \div 2 = z + 1
        /\ 2 - ((2 * z + 2) % 2) = 2 /\ 2 - ((2 * z + 1) % 2) = 1
    OBVIOUS
  <1>2. q2 = [cmd |-> m, kind |-> "storage", n |-> n, item |-> z + 1, half |-> 2]
    BY <1>1 DEF Piece
  <1>3. q1 = [cmd |-> m, kind |-> "storage", n |-> n, item |-> z + 1, half |-> 1]
    BY <1>1 DEF Piece
  <1>4. q2 = [q1 EXCEPT !.half = 2]
    BY <1>2, <1>3
  <1>5. answer \in {<<Packet(q2, "ERR")>>, Answer(q2)}
    BY DEF Answers
  <1> HIDE DEF q1, q2
  <1>6. Answer(q2) = <<Packet(q2, "MSG")>>
    BY <1>2, AnswerCases
  <1>7. Packet(q2, "MSG") = [cmd |-> m, item |-> z + 1, type |-> "MSG"]
    BY <1>2 DEF Packet
  <1>8. Packet(q2, "ERR").type = "ERR"
    BY DEF Packet
  <1>9. Due(m, "storage", n, z + 1) = [cmd |-> m, item |-> z + 1, type |-> "MSG"]
    <2>1. z + 1 \in Nat
      OBVIOUS
    <2>2. QED
      BY <2>1, DueCases
  <1>10. CASE answer = <<Packet(q2, "ERR")>>
    BY <1>8, <1>10 DEF Denied
  <1>11. CASE answer = <<Packet(q2, "MSG")>>
    <2>1. /\ Len(answer) = 1 /\ answer[1] = Due(m, "storage", n, z + 1)
          /\ answer[1].type # "ERR"
      BY <1>7, <1>9, <1>11
    <2>2. QED
      BY <2>1 DEF Granted
  <1>12. QED
    BY <1>5, <1>6, <1>10, <1>11

LEMMA OtherAnswer ==
  ASSUME NEW m, NEW n \in Nat, NEW kd \in {"retrieval", "broadcast"}, NEW answer,
         answer \in Answers(Piece(m, kd, n, 1), Piece(m, kd, n, 2))
  PROVE  Granted(answer, m, kd, n, 0, AnswerLength(kd, n)) \/ Denied(answer)
  <1> DEFINE q1 == Piece(m, kd, n, 1)
             q2 == Piece(m, kd, n, 2)
  <1>1. /\ (2 + 1) \div 2 = 1 /\ (1 + 1) \div 2 = 1
        /\ 2 - (2 % 2) = 2 /\ 2 - (1 % 2) = 1
    OBVIOUS
  <1>2. q2 = [cmd |-> m, kind |-> kd, n |-> n, item |-> 1, half |-> 2]
    BY <1>1 DEF Piece
  <1>3. q1 = [cmd |-> m, kind |-> kd, n |-> n, item |-> 1, half |-> 1]
    BY <1>1 DEF Piece
  <1>4. q2 = [q1 EXCEPT !.half = 2]
    BY <1>2, <1>3
  <1>5. answer \in {<<Packet(q2, "ERR")>>, Answer(q2)}
    BY DEF Answers
  <1> HIDE DEF q1, q2
  <1>6. Packet(q2, "END") = [cmd |-> m, item |-> 1, type |-> "END"]
    BY <1>2 DEF Packet
  <1>7. Packet(q2, "ERR").type = "ERR"
    BY DEF Packet
  <1>8. CASE answer = <<Packet(q2, "ERR")>>
    BY <1>7, <1>8 DEF Denied
  <1>9. CASE answer = Answer(q2) /\ kd = "broadcast"
    <2>1. answer = <<Packet(q2, "END")>>
      BY <1>2, <1>9, AnswerCases
    <2>2. Due(m, "broadcast", n, 1) = [cmd |-> m, item |-> 1, type |-> "END"]
      BY DueCases
    <2>3. /\ Len(answer) = 1 /\ answer[1] = Due(m, "broadcast", n, 1)
          /\ answer[1].type # "ERR"
      BY <1>6, <2>1, <2>2
    <2>4. AnswerLength(kd, n) = 1
      BY <1>9 DEF AnswerLength
    <2>5. QED
      BY <1>9, <2>3, <2>4 DEF Granted
  <1>10. CASE answer = Answer(q2) /\ kd = "retrieval"
    <2>1. q2.kind = "retrieval" /\ q2.n = n
      BY <1>2, <1>10
    <2>2. answer = [i \in 1 .. n + 1 |->
                      IF i <= n THEN Packet([q2 EXCEPT !.item = i], "VALUE")
                                ELSE Packet(q2, "END")]
      BY <1>10, <2>1, AnswerCases
    <2>3. Len(answer) = n + 1
      BY <2>2
    <2>4. ASSUME NEW i \in 1 .. n + 1
          PROVE  answer[i] = Due(m, kd, n, i) /\ answer[i].type # "ERR"
      <3>1. CASE i <= n
        <4>1. answer[i] = Packet([q2 EXCEPT !.item = i], "VALUE")
          BY <2>2, <3>1
        <4>2. Packet([q2 EXCEPT !.item = i], "VALUE")
                = [cmd |-> m, item |-> i, type |-> "VALUE"]
          BY <1>2 DEF Packet
        <4>3. Due(m, "retrieval", n, i) = [cmd |-> m, item |-> i, type |-> "VALUE"]
          BY <3>1, DueCases
        <4>4. QED
          BY <1>10, <4>1, <4>2, <4>3
      <3>2. CASE i > n
        <4>1. answer[i] = Packet(q2, "END")
          BY <2>2, <3>2
        <4>2. Due(m, "retrieval", n, i) = [cmd |-> m, item |-> 1, type |-> "END"]
          BY <3>2, DueCases
        <4>3. QED
          BY <1>6, <1>10, <4>1, <4>2
      <3>3. QED
        BY <3>1, <3>2
    <2>5. AnswerLength(kd, n) = n + 1
      BY <1>10 DEF AnswerLength
    <2>6. \A i \in 1 .. n + 1 : 0 + i = i
      OBVIOUS
    <2>7. QED
      BY <2>3, <2>4, <2>5, <2>6 DEF Granted
  <1>11. QED
    BY <1>5, <1>8, <1>9, <1>10

LEMMA UnreadIsNat ==
  ASSUME NEW k, NEW p, NEW kd \in AllKinds, NEW x \in Nat, NEW a \in Nat,
         NEW b \in Nat, NEW l \in Nat, Sizes(k, p, x, a, b, l), Unread(k, p, kd) >= 0
  PROVE  \E u \in Nat : /\ Unread(k, p, kd) = u
                        /\ kd \in Silent => u <= 1
                        /\ kd = "storage" => u = x - 2 * (a + b)
                        /\ kd \in {"retrieval", "broadcast"} =>
                             u = IF k.got = <<>> /\ p.replies = <<>> THEN x ELSE 0
  <1>1. k.sent = x /\ Len(k.got) = a /\ Len(p.replies) = b
    BY DEF Sizes
  <1>2. CASE kd \in Silent
    <2>1. Unread(k, p, kd) = x % 2
      BY <1>1, <1>2, UnreadCases
    <2>2. x % 2 \in Nat /\ x % 2 <= 1
      OBVIOUS
    <2>3. QED
      BY <1>2, <2>1, <2>2, KindCases
  <1>3. CASE kd = "storage"
    <2>1. Unread(k, p, kd) = x - 2 * (a + b)
      BY <1>1, <1>3, StorageUnread
    <2>2. PICK u \in Nat : u = x - 2 * (a + b)
      BY <2>1
    <2>3. QED
      BY <1>3, <2>1, <2>2, KindCases
  <1>4. CASE kd \in {"retrieval", "broadcast"}
    <2>1. kd \notin Silent \cup {"storage"}
      BY <1>4, KindCases
    <2>2. Unread(k, p, kd) = IF k.got = <<>> /\ p.replies = <<>> THEN k.sent ELSE 0
      BY ONLY <2>1, UnreadCases
    <2>3. QED
      BY <1>1, <2>1, <2>2
  <1>5. QED
    BY <1>2, <1>3, <1>4, KindCases

LEMMA WiredHas ==
  ASSUME NEW k, NEW p, NEW m, NEW kd, NEW x \in Nat, NEW a \in Nat,
         NEW b \in Nat, NEW l \in Nat, Sizes(k, p, x, a, b, l), NEW u \in Nat,
         Unread(k, p, kd) = u, Wired(k, p, m, kd)
  PROVE  \E read \in Nat : /\ l = read + u /\ Pairs(p.wire, read)
                           /\ Follow(p.wire, read, u, m, kd, k.items, x - u)
  <1>1. k.sent = x /\ Len(p.wire) = l
    BY DEF Sizes
  <1>2. /\ Len(p.wire) - Unread(k, p, kd) >= 0
        /\ Pairs(p.wire, Len(p.wire) - Unread(k, p, kd))
        /\ Follow(p.wire, Len(p.wire) - Unread(k, p, kd), Unread(k, p, kd), m, kd,
                  k.items, k.sent - Unread(k, p, kd))
    BY DEF Wired
  <1>3. /\ l - u >= 0 /\ Pairs(p.wire, l - u)
        /\ Follow(p.wire, l - u, u, m, kd, k.items, x - u)
    BY ONLY <1>1, <1>2, Unread(k, p, kd) = u
  <1>4. l - u \in Nat /\ l = (l - u) + u
    BY ONLY <1>3, l \in Nat, u \in Nat
  <1>5. QED
    BY ONLY <1>3, <1>4

LEMMA WiredIs ==
  ASSUME NEW k, NEW p, NEW m, NEW kd, NEW x \in Nat, NEW a \in Nat,
         NEW b \in Nat, NEW l \in Nat, Sizes(k, p, x, a, b, l), NEW u \in Nat,
         Unread(k, p, kd) = u, NEW read \in Nat, l = read + u,
         Pairs(p.wire, read), Follow(p.wire, read, u, m, kd, k.items, x - u)
  PROVE  Wired(k, p, m, kd)
  <1>1. k.sent = x /\ Len(p.wire) = l
    BY DEF Sizes
  <1>2. l - u = read /\ u >= 0 /\ read >= 0
    OBVIOUS
  <1>3. QED
    BY ONLY <1>1, <1>2, Unread(k, p, kd) = u, Pairs(p.wire, read),
       Follow(p.wire, read, u, m, kd, k.items, x - u) DEF Wired

LEMMA Appended ==
  ASSUME NEW s \in Seq(Packets), NEW t \in Seq(Packets)
  PROVE  /\ Len(s \o t) = Len(s) + Len(t)
         /\ \A i \in 1 .. Len(s) : (s \o t)[i] = s[i]
         /\ \A i \in 1 .. Len(t) : (s \o t)[Len(s) + i] = t[i]
  <1>1. PICK b \in Nat, d \in Nat : Len(s) = b /\ Len(t) = d
    BY LenProperties
  <1>2. /\ Len(s \o t) = b + d
        /\ \A i \in 1 .. b + d : (s \o t)[i] = IF i <= b THEN s[i] ELSE t[i - b]
    BY <1>1, ConcatProperties
  <1>3. ASSUME NEW i \in 1 .. b
        PROVE  (s \o t)[i] = s[i]
    <2>1. i \in 1 .. b + d /\ i <= b
      OBVIOUS
    <2>2. QED
      BY ONLY <1>2, <2>1
  <1>4. ASSUME NEW i \in 1 .. d
        PROVE  (s \o t)[b + i] = t[i]
    <2>1. b + i \in 1 .. b + d /\ ~(b + i <= b) /\ (b + i) - b = i
      OBVIOUS
    <2>2. (s \o t)[b + i] = t[(b + i) - b]
      BY ONLY <1>2, <2>1
    <2>3. QED
      BY ONLY <2>1, <2>2
  <1>5. QED
    BY ONLY <1>1, <1>2, <1>3, <1>4

\* The server takes two parts off the wire and writes an answer of d packets.
TwoRead(p, oldp, answer, b, d, left) ==
    /\ Len(oldp.wire) = left + 2 /\ Len(p.wire) = left
    /\ Shifted(p.wire, oldp.wire, left)
    /\ p.replies = oldp.replies \o answer
    /\ Len(oldp.replies) = b /\ Len(answer) = d /\ Len(p.replies) = b + d
    /\ DOMAIN oldp.replies = 1 .. b /\ DOMAIN p.replies = 1 .. b + d
    /\ \A i \in 1 .. b : p.replies[i] = oldp.replies[i]
    /\ \A i \in 1 .. d : p.replies[b + i] = answer[i]

LEMMA TwoReadExists ==
  ASSUME NEW k \in Connections, NEW p \in Sockets, NEW oldp \in Sockets,
         NEW answer \in Seq(Packets), Len(oldp.wire) > 1,
         p.wire = SubSeq(oldp.wire, 3, Len(oldp.wire)),
         p.replies = oldp.replies \o answer, NEW b \in Nat, Len(oldp.replies) = b
  PROVE  \E d, left \in Nat : TwoRead(p, oldp, answer, b, d, left)
  <1>1. PICK l \in Nat : l = Len(oldp.wire)
    BY Lengths
  <1>2. PICK left \in Nat : l = left + 2
    <2>1. l - 2 \in Nat /\ l = (l - 2) + 2
      BY <1>1
    <2>2. QED
      BY <2>1
  <1>3. PICK d \in Nat : Len(answer) = d
    BY LenProperties
  <1>4. Len(p.wire) = left /\ Shifted(p.wire, oldp.wire, left)
    <2>1. oldp.wire \in Seq(Pieces) /\ 2 \in 0 .. Len(oldp.wire) /\ 3 = 2 + 1
      BY <1>1, <1>2, Lengths
    <2>2. /\ Len(SubSeq(oldp.wire, 2 + 1, Len(oldp.wire))) = Len(oldp.wire) - 2
          /\ \A i \in 1 .. Len(oldp.wire) - 2 :
               SubSeq(oldp.wire, 2 + 1, Len(oldp.wire))[i] = oldp.wire[2 + i]
      BY <2>1, LeftOver
    <2>3. l - 2 = left /\ p.wire = SubSeq(oldp.wire, 2 + 1, Len(oldp.wire))
      BY <1>2, <2>1
    <2>4. QED
      BY <1>1, <2>2, <2>3 DEF Shifted
  <1>5. oldp.replies \in Seq(Packets)
    BY Lengths
  <1>6. /\ Len(oldp.replies \o answer) = b + d
        /\ \A i \in 1 .. b : (oldp.replies \o answer)[i] = oldp.replies[i]
        /\ \A i \in 1 .. d : (oldp.replies \o answer)[b + i] = answer[i]
    <2>1. /\ Len(oldp.replies \o answer) = Len(oldp.replies) + Len(answer)
          /\ \A i \in 1 .. Len(oldp.replies) : (oldp.replies \o answer)[i] = oldp.replies[i]
          /\ \A i \in 1 .. Len(answer) :
               (oldp.replies \o answer)[Len(oldp.replies) + i] = answer[i]
      BY ONLY <1>5, answer \in Seq(Packets), Appended
    <2>2. QED
      BY ONLY <1>3, Len(oldp.replies) = b, <2>1
  <1>7. /\ Len(p.replies) = b + d
        /\ \A i \in 1 .. b : p.replies[i] = oldp.replies[i]
        /\ \A i \in 1 .. d : p.replies[b + i] = answer[i]
    BY <1>6
  <1>8. DOMAIN oldp.replies = 1 .. b /\ DOMAIN p.replies = 1 .. b + d
    BY <1>7, Lengths
  <1>9. TwoRead(p, oldp, answer, b, d, left)
    BY <1>1, <1>2, <1>3, <1>4, <1>7, <1>8 DEF TwoRead
  <1>10. QED
    BY <1>9

\* The two parts are an item of an earlier command that has no answer, or of
\* this one.
LEMMA SilentInStep ==
  ASSUME NEW k \in Connections, NEW p \in Sockets, NEW oldp \in Sockets, NEW m,
         NEW kd \in AllKinds, NEW answer \in Seq(Packets),
         Continues(k, oldp, m, kd), NEW x \in Nat, NEW a \in Nat, NEW b \in Nat,
         NEW l \in Nat, Sizes(k, oldp, x, a, b, l),
         NEW d \in Nat, NEW left \in Nat, TwoRead(p, oldp, answer, b, d, left),
         answer \in Answers(oldp.wire[1], oldp.wire[2]),
         NEW u \in Nat, Unread(k, oldp, kd) = u,
         NEW read \in Nat, l = read + u, read > 0, Pairs(oldp.wire, read),
         Follow(oldp.wire, read, u, m, kd, k.items, x - u)
  PROVE  InStep(k, p, m, kd) /\ p.replies = oldp.replies
  <1>1. k.sent = x /\ Len(k.got) = a /\ Len(oldp.replies) = b /\ Len(oldp.wire) = l
    BY DEF Sizes
  <1>2. read % 2 = 0
    BY DEF Pairs
  <1>3. PICK rest \in Nat : read = rest + 2
    <2>1. read - 2 \in Nat /\ read = (read - 2) + 2
      BY ONLY read \in Nat, read > 0, <1>2
    <2>2. QED
      BY <2>1
  <1>4. Pair(oldp.wire[1], oldp.wire[2])
    <2>1. 1 \in 1 .. read /\ 1 % 2 = 1 /\ 1 + 1 = 2
      OBVIOUS
    <2>2. Pair(oldp.wire[1], oldp.wire[1 + 1])
      BY <2>1 DEF Pairs
    <2>3. QED
      BY <2>1, <2>2
  <1>5. answer = <<>>
    <2>1. oldp.wire \in Seq(Pieces) /\ 1 \in 1 .. Len(oldp.wire)
      BY Lengths DEF TwoRead
    <2>2. oldp.wire[1] \in Pieces
      BY ONLY <2>1, ElementOfSeq
    <2>3. QED
      BY <1>4, <2>2, SilentAnswer
  <1>6. p.replies = oldp.replies
    <2>1. p.replies = oldp.replies \o <<>> /\ oldp.replies \in Seq(Packets)
      BY <1>5, Lengths DEF TwoRead
    <2>2. QED
      BY ONLY <2>1, ConcatEmptySeq
  <1>7. Continues(k, p, m, kd) /\ Unread(k, p, kd) = u
    BY ONLY Continues(k, oldp, m, kd), Unread(k, oldp, kd) = u, <1>6 DEF Continues, Unread
  <1>8. Len(oldp.wire) = left + 2 /\ Len(p.wire) = left /\ Shifted(p.wire, oldp.wire, left)
    BY DEF TwoRead
  <1>9. left = rest + u
    <2>1. l = left + 2
      BY ONLY <1>1, <1>8
    <2>2. QED
      BY ONLY <1>3, <2>1, l = read + u, left \in Nat, rest \in Nat, u \in Nat,
         read \in Nat, l \in Nat
  <1>10. Pairs(p.wire, rest)
    <2>1. Shifted(p.wire, oldp.wire, rest + u)
      BY ONLY <1>8, <1>9
    <2>2. Shifted(p.wire, oldp.wire, rest)
      BY ONLY <2>1, rest \in Nat, u \in Nat, ShiftedLess
    <2>3. QED
      BY <1>3, <2>2, PairsShift
  <1>11. Follow(p.wire, rest, u, m, kd, k.items, x - u)
    <2>1. Shifted(p.wire, oldp.wire, rest + u)
      BY ONLY <1>8, <1>9
    <2>2. QED
      BY ONLY <1>3, <2>1, Follow(oldp.wire, read, u, m, kd, k.items, x - u),
         u \in Nat, read \in Nat, rest \in Nat, FollowShift
  <1>12. Sizes(k, p, x, a, b, left)
    BY ONLY <1>1, <1>6, <1>8 DEF Sizes
  <1>13. Wired(k, p, m, kd)
    BY <1>7, <1>9, <1>10, <1>11, <1>12, WiredIs
  <1>14. Unread(k, p, kd) >= 0
    BY ONLY <1>7, u \in Nat
  <1>15. QED
    BY ONLY <1>6, <1>7, <1>13, <1>14 DEF InStep

LEMMA StorageInStep ==
  ASSUME NEW k \in Connections, NEW p \in Sockets, NEW oldp \in Sockets, NEW m,
         NEW answer \in Seq(Packets), NEW n \in Nat, n = k.items,
         k.sent <= 2 * n,
         Continues(k, oldp, m, "storage"), NEW x \in Nat, NEW a \in Nat, NEW b \in Nat,
         NEW l \in Nat, Sizes(k, oldp, x, a, b, l),
         NEW d \in Nat, NEW left \in Nat, TwoRead(p, oldp, answer, b, d, left),
         answer \in Answers(oldp.wire[1], oldp.wire[2]),
         NEW u \in Nat, Unread(k, oldp, "storage") = u, u = x - 2 * (a + b), l = u,
         Follow(oldp.wire, 0, u, m, "storage", n, x - u)
  PROVE  InStep(k, p, m, "storage")
  <1>1. k.sent = x /\ Len(k.got) = a /\ Len(oldp.replies) = b /\ Len(oldp.wire) = l
    BY DEF Sizes
  <1>2. Len(oldp.wire) = left + 2 /\ Len(p.wire) = left /\ Shifted(p.wire, oldp.wire, left)
    BY DEF TwoRead
  <1>3. /\ u = left + 2 /\ x - u = 2 * (a + b) /\ x = left + 2 * (a + b) + 2
        /\ x - u \in Int
    <2>1. l = left + 2
      BY ONLY <1>1, <1>2
    <2>2. QED
      BY ONLY <2>1, u = x - 2 * (a + b), l = u, left \in Nat, x \in Nat,
         u \in Nat, a \in Nat, b \in Nat, l \in Nat
  <1>4. PICK z \in Nat : z = a + b
    OBVIOUS
  <1>5. /\ oldp.wire[1] = Piece(m, "storage", n, 2 * z + 1)
        /\ oldp.wire[2] = Piece(m, "storage", n, 2 * z + 2)
    <2>1. 1 \in 1 .. u /\ 2 \in 1 .. u /\ 0 + 1 = 1 /\ 0 + 2 = 2 /\ x - u = 2 * z
      BY ONLY <1>3, <1>4, left \in Nat, u \in Nat
    <2>2. \A j \in 1 .. u : oldp.wire[0 + j] = Piece(m, "storage", n, (x - u) + j)
      BY DEF Follow
    <2>3. /\ oldp.wire[0 + 1] = Piece(m, "storage", n, (x - u) + 1)
          /\ oldp.wire[0 + 2] = Piece(m, "storage", n, (x - u) + 2)
      BY ONLY <2>1, <2>2
    <2>4. QED
      BY ONLY <2>1, <2>3
  <1>6. Granted(answer, m, "storage", n, z, 1) \/ Denied(answer)
    BY <1>5, StorageAnswer
  <1>7. d = 1 /\ (answer[1] = Due(m, "storage", n, z + 1) \/ answer[1].type = "ERR")
    <2>1. Len(answer) = d /\ 1 \in 1 .. 1
      BY DEF TwoRead
    <2>2. QED
      BY ONLY <1>6, <2>1 DEF Granted, Denied
  <1>8. Len(p.replies) = b + 1 /\ DOMAIN p.replies = 1 .. b + 1
        /\ (\A i \in 1 .. b : p.replies[i] = oldp.replies[i])
        /\ p.replies[b + 1] = answer[1] /\ DOMAIN oldp.replies = 1 .. b
    <2>1. 1 \in 1 .. d
      BY ONLY <1>7
    <2>2. QED
      BY ONLY <1>7, <2>1, TwoRead(p, oldp, answer, b, d, left) DEF TwoRead
  <1>9. Continues(k, p, m, "storage")
    <2>1. Len(k.got) + Len(p.replies) <= AnswerLength("storage", k.items)
      <3>1. AnswerLength("storage", k.items) = n
        BY DEF AnswerLength
      <3>2. a + (b + 1) <= n
        BY ONLY <1>1, <1>3, k.sent <= 2 * n, n \in Nat, a \in Nat, b \in Nat,
           left \in Nat, x \in Nat
      <3>3. QED
        BY ONLY <1>1, <1>8, <3>1, <3>2
    <2>2. ASSUME NEW i \in DOMAIN p.replies
          PROVE  \/ p.replies[i] = Due(m, "storage", k.items, Len(k.got) + i)
                 \/ p.replies[i].type = "ERR"
      <3>1. i \in 1 .. b \/ i = b + 1
        BY ONLY i \in DOMAIN p.replies, <1>8, b \in Nat
      <3>2. CASE i \in 1 .. b
        BY ONLY <1>8, <3>2, Continues(k, oldp, m, "storage") DEF Continues
      <3>3. CASE i = b + 1
        <4>1. Len(k.got) + i = z + 1
          BY ONLY <1>1, <1>4, <3>3, a \in Nat, b \in Nat, z \in Nat
        <4>2. QED
          BY ONLY <1>7, <1>8, <3>3, <4>1, n = k.items
      <3>4. QED
        BY ONLY <3>1, <3>2, <3>3
    <2>3. "storage" \notin {"retrieval", "broadcast"}
      OBVIOUS
    <2>4. QED
      BY ONLY <2>1, <2>2, <2>3 DEF Continues
  <1>10. b + 1 \in Nat /\ Sizes(k, p, x, a, b + 1, left)
    BY <1>1, <1>2, <1>8 DEF Sizes
  <1>11. Unread(k, p, "storage") = left
    <2>1. Unread(k, p, "storage") = x - 2 * (a + (b + 1))
      <3>1. Unread(k, p, "storage") = k.sent - 2 * (Len(k.got) + Len(p.replies))
        BY UnreadCases
      <3>2. QED
        BY ONLY <1>1, <1>8, <3>1
    <2>2. QED
      BY ONLY <1>3, <2>1, x \in Nat, a \in Nat, b \in Nat, left \in Nat
  <1>12. Follow(p.wire, 0, left, m, "storage", k.items, x - left)
    <2>1. (x - u) + 2 = x - left
      BY ONLY <1>3, x \in Nat, u \in Nat, left \in Nat
    <2>2. Follow(p.wire, 0, left, m, "storage", n, (x - u) + 2)
      BY <1>2, <1>3, FollowRest
    <2>3. QED
      BY ONLY <2>1, <2>2, n = k.items
  <1>13. Pairs(p.wire, 0) /\ left = 0 + left
    BY DEF Pairs
  <1>14. Wired(k, p, m, "storage")
    BY <1>10, <1>11, <1>12, <1>13, WiredIs
  <1>15. Unread(k, p, "storage") >= 0
    BY ONLY <1>11, left \in Nat
  <1>16. QED
    BY ONLY <1>9, <1>14, <1>15 DEF InStep

LEMMA OtherInStep ==
  ASSUME NEW k \in Connections, NEW p \in Sockets, NEW oldp \in Sockets, NEW m,
         NEW kd \in {"retrieval", "broadcast"},
         NEW answer \in Seq(Packets), k.items > 0,
         k.sent <= 2, NEW x \in Nat, NEW a \in Nat, NEW b \in Nat,
         Sizes(k, oldp, x, a, b, x),
         NEW d \in Nat, NEW left \in Nat, TwoRead(p, oldp, answer, b, d, left),
         answer \in Answers(oldp.wire[1], oldp.wire[2]),
         k.got = <<>>, oldp.replies = <<>>,
         Follow(oldp.wire, 0, x, m, kd, k.items, 0)
  PROVE  InStep(k, p, m, kd)
  <1> PICK n \in Nat : n = k.items /\ n > 0
    BY Fields
  <1>1. k.sent = x /\ Len(k.got) = a /\ Len(oldp.replies) = b /\ Len(oldp.wire) = x
    BY DEF Sizes
  <1>2. Len(oldp.wire) = left + 2 /\ Len(p.wire) = left
    BY DEF TwoRead
  <1>3. x = 2 /\ left = 0 /\ a = 0 /\ b = 0
    <2>1. a = 0 /\ b = 0
      BY <1>1
    <2>2. x = left + 2 /\ x <= 2
      BY ONLY <1>1, <1>2, k.sent <= 2
    <2>3. QED
      BY ONLY <2>1, <2>2, x \in Nat, left \in Nat
  <1>4. oldp.wire[1] = Piece(m, kd, n, 1) /\ oldp.wire[2] = Piece(m, kd, n, 2)
    <2>1. 1 \in 1 .. x /\ 2 \in 1 .. x /\ 0 + 1 = 1 /\ 0 + 2 = 2
      BY ONLY <1>3
    <2>2. QED
      BY ONLY <2>1, Follow(oldp.wire, 0, x, m, kd, k.items, 0), n = k.items DEF Follow
  <1>5. Granted(answer, m, kd, n, 0, AnswerLength(kd, n)) \/ Denied(answer)
    BY <1>4, OtherAnswer
  <1>6. PICK al \in Nat : al = AnswerLength(kd, n) /\ al > 0
    BY DEF AnswerLength
  <1>7. Len(p.replies) = d /\ DOMAIN p.replies = 1 .. d
        /\ (\A i \in 1 .. d : p.replies[i] = answer[i]) /\ Len(answer) = d
    <2>1. 0 + d = d /\ \A i \in 1 .. d : 0 + i = i
      OBVIOUS
    <2>2. Len(p.replies) = 0 + d /\ DOMAIN p.replies = 1 .. 0 + d
          /\ (\A i \in 1 .. d : p.replies[0 + i] = answer[i]) /\ Len(answer) = d
      BY ONLY <1>3, TwoRead(p, oldp, answer, b, d, left) DEF TwoRead
    <2>3. QED
      BY ONLY <2>1, <2>2
  <1>8. \/ /\ d = al
           /\ \A i \in 1 .. d : p.replies[i] = Due(m, kd, n, i)
           /\ \A i \in 1 .. d : p.replies[i].type # "ERR"
        \/ d = 1 /\ p.replies[1].type = "ERR"
    <2>1. CASE Granted(answer, m, kd, n, 0, al)
      <3>1. d = al /\ \A i \in 1 .. d : /\ answer[i] = Due(m, kd, n, 0 + i)
                                        /\ answer[i].type # "ERR"
        BY ONLY <1>7, <2>1 DEF Granted
      <3>2. \A i \in 1 .. d : 0 + i = i
        OBVIOUS
      <3>3. \A i \in 1 .. d : p.replies[i] = Due(m, kd, n, i)
        BY ONLY <1>7, <3>1, <3>2
      <3>4. \A i \in 1 .. d : p.replies[i].type # "ERR"
        BY ONLY <1>7, <3>1
      <3>5. QED
        BY ONLY <3>1, <3>3, <3>4
    <2>2. CASE Denied(answer)
      <3>1. d = 1 /\ answer[1].type = "ERR" /\ 1 \in 1 .. 1
        BY ONLY <1>7, <2>2 DEF Denied
      <3>2. QED
        BY ONLY <1>7, <3>1
    <2>3. QED
      BY ONLY <1>5, <1>6, <2>1, <2>2
  <1>9. d > 0 /\ d <= al
    BY ONLY <1>6, <1>8, d \in Nat, al \in Nat
  <1>10. Len(k.got) + Len(p.replies) = d /\ \A i \in 1 .. d : Len(k.got) + i = i
    BY ONLY <1>1, <1>3, <1>7, d \in Nat
  <1>11. \A i \in 1 .. d : \/ p.replies[i] = Due(m, kd, n, i)
                           \/ p.replies[i].type = "ERR"
    <2>1. CASE d = 1 /\ p.replies[1].type = "ERR"
      <3>1. \A i \in 1 .. d : i = 1
        BY ONLY <2>1
      <3>2. QED
        BY ONLY <2>1, <3>1
    <2>2. CASE \A i \in 1 .. d : p.replies[i] = Due(m, kd, n, i)
      BY ONLY <2>2
    <2>3. QED
      BY ONLY <1>8, <2>1, <2>2
  <1>12. Continues(k, p, m, kd)
    <2>1. Len(k.got) + Len(p.replies) <= AnswerLength(kd, k.items)
      BY ONLY <1>6, <1>9, <1>10, n = k.items
    <2>2. ASSUME NEW i \in DOMAIN p.replies
          PROVE  \/ p.replies[i] = Due(m, kd, k.items, Len(k.got) + i)
                 \/ p.replies[i].type = "ERR"
      <3>1. i \in 1 .. d
        BY ONLY <1>7, i \in DOMAIN p.replies
      <3>2. Len(k.got) + i = i
        BY ONLY <1>10, <3>1
      <3>3. QED
        BY ONLY <1>11, <3>1, <3>2, n = k.items
    <2>3. k.sent = 2
      BY <1>1, <1>3
    <2>4. \/ /\ Len(k.got) + Len(p.replies) = AnswerLength(kd, k.items)
             /\ \A i \in DOMAIN p.replies : p.replies[i].type # "ERR"
          \/ k.got = <<>> /\ Len(p.replies) = 1 /\ p.replies[1].type = "ERR"
      BY ONLY <1>6, <1>7, <1>8, <1>10, n = k.items, k.got = <<>>
    <2>5. QED
      BY ONLY <2>1, <2>2, <2>3, <2>4 DEF Continues
  <1>13. Sizes(k, p, x, a, d, left)
    BY ONLY <1>1, <1>2, <1>7 DEF Sizes
  <1>14. Unread(k, p, kd) = 0
    <2>1. kd \notin Silent \cup {"storage"}
      BY DEF Silent
    <2>2. Unread(k, p, kd) = IF k.got = <<>> /\ p.replies = <<>> THEN k.sent ELSE 0
      BY ONLY <2>1, UnreadCases
    <2>3. p.replies # <<>>
      <3>1. Len(p.replies) # 0
        BY ONLY <1>7, <1>9, d \in Nat
      <3>2. QED
        BY <3>1
    <2>4. QED
      BY ONLY <2>2, <2>3
  <1>15. Pairs(p.wire, 0) /\ Follow(p.wire, 0, 0, m, kd, k.items, x - 0) /\ 0 = 0 + 0
    BY DEF Pairs, Follow
  <1>16. Wired(k, p, m, kd)
    BY <1>3, <1>13, <1>14, <1>15, WiredIs
  <1>17. Unread(k, p, kd) >= 0
    BY ONLY <1>14
  <1>18. QED
    BY ONLY <1>12, <1>16, <1>17 DEF InStep

LEMMA AnsweringInStep ==
  ASSUME NEW k \in Connections, NEW p \in Sockets, NEW oldp \in Sockets, NEW m,
         NEW kd \in AllKinds, NEW answer \in Seq(Packets), Loaded(k, kd),
         k.sent <= Parts(kd, k.items), InStep(k, oldp, m, kd),
         oldp.sock = "open", Len(oldp.wire) > 1,
         answer \in Answers(oldp.wire[1], oldp.wire[2]),
         p.wire = SubSeq(oldp.wire, 3, Len(oldp.wire)),
         p.replies = oldp.replies \o answer
  PROVE  InStep(k, p, m, kd) /\ (kd \in Silent => p.replies = oldp.replies)
  <1>1. PICK x, a, b, l \in Nat : Sizes(k, oldp, x, a, b, l)
    BY SizesExist
  <1>2. k.sent = x /\ Len(k.got) = a /\ Len(oldp.replies) = b /\ Len(oldp.wire) = l
    BY <1>1 DEF Sizes
  <1>3. PICK d, left \in Nat : TwoRead(p, oldp, answer, b, d, left)
    BY <1>2, TwoReadExists
  <1>4. Continues(k, oldp, m, kd) /\ Wired(k, oldp, m, kd) /\ Unread(k, oldp, kd) >= 0
    BY DEF InStep
  <1>5. PICK u \in Nat :
          /\ Unread(k, oldp, kd) = u
          /\ kd \in Silent => u <= 1
          /\ kd = "storage" => u = x - 2 * (a + b)
          /\ kd \in {"retrieval", "broadcast"} =>
               u = IF k.got = <<>> /\ oldp.replies = <<>> THEN x ELSE 0
    BY ONLY kd \in AllKinds, <1>1, x \in Nat, a \in Nat, b \in Nat, l \in Nat,
       <1>4, UnreadIsNat
  <1>6. PICK read \in Nat : /\ l = read + u /\ Pairs(oldp.wire, read)
                            /\ Follow(oldp.wire, read, u, m, kd, k.items, x - u)
    BY ONLY <1>1, <1>4, <1>5, x \in Nat, a \in Nat, b \in Nat, l \in Nat,
       u \in Nat, WiredHas
  <1>7. CASE read > 0
    BY <1>1, <1>3, <1>4, <1>5, <1>6, <1>7, SilentInStep
  <1>8. CASE read = 0
    <2>1. l = u /\ u > 1 /\ kd \notin Silent
      BY ONLY <1>2, <1>5, <1>6, <1>8, Len(oldp.wire) > 1, l \in Nat, u \in Nat
    <2>2. Follow(oldp.wire, 0, u, m, kd, k.items, x - u)
      BY ONLY <1>6, <1>8
    <2>3. PICK n \in Nat : n = k.items /\ n > 0
      BY Fields DEF Loaded
    <2>4. CASE kd = "storage"
      <3>1. k.sent <= 2 * n
        BY <2>3, <2>4, KindCases
      <3>2. u = x - 2 * (a + b)
        BY ONLY <1>5, <2>4
      <3>3. Follow(oldp.wire, 0, u, m, "storage", n, x - u)
        BY ONLY <2>2, <2>3, <2>4
      <3>4. Continues(k, oldp, m, "storage") /\ Unread(k, oldp, "storage") = u
        BY ONLY <1>4, <1>5, <2>4
      <3>5. InStep(k, p, m, "storage")
        BY <1>1, <1>3, <2>1, <2>3, <3>1, <3>2, <3>3, <3>4, StorageInStep
      <3>6. QED
        BY ONLY <2>1, <2>4, <3>5
    <2>5. CASE kd \in {"retrieval", "broadcast"}
      <3>1. k.sent <= 2
        <4>1. Parts(kd, k.items) = 2
          BY ONLY <2>5, kd \in AllKinds, KindCases
        <4>2. QED
          BY ONLY <4>1, k.sent <= Parts(kd, k.items)
      <3>2. k.got = <<>> /\ oldp.replies = <<>> /\ u = x
        BY ONLY <1>5, <2>1, <2>5, u \in Nat
      <3>3. Follow(oldp.wire, 0, x, m, kd, k.items, 0)
        <4>1. x - u = 0
          BY ONLY <3>2, x \in Nat
        <4>2. QED
          BY ONLY <2>2, <3>2, <4>1
      <3>4. Sizes(k, oldp, x, a, b, x)
        BY ONLY <1>1, <2>1, <3>2
      <3>5. InStep(k, p, m, kd)
        BY ONLY <1>3, <2>3, <2>5, <3>1, <3>2, <3>3, <3>4,
           k \in Connections, p \in Sockets, oldp \in Sockets,
           answer \in Seq(Packets), x \in Nat, a \in Nat, b \in Nat,
           d \in Nat, left \in Nat, answer \in Answers(oldp.wire[1], oldp.wire[2]), OtherInStep
      <3>6. QED
        BY ONLY <2>1, <3>5
    <2>6. QED
      BY ONLY <2>1, <2>4, <2>5, kd \in AllKinds, KindCases
  <1>9. QED
    BY ONLY <1>7, <1>8, read \in Nat

LEMMA AnsweringStep ==
  ASSUME TypeInv, Inv, NEW c \in Conns, NEW p \in Sockets,
         OneSocketChanges(c, p), NEW answer \in Seq(Packets), Answering(c, p, answer)
  PROVE  Inv'
  <1>1. /\ p.sock = "open" /\ Len(peer[c].wire) > 1 /\ peer[c].sock = "open"
        /\ answer \in Answers(peer[c].wire[1], peer[c].wire[2])
        /\ p.wire = SubSeq(peer[c].wire, 3, Len(peer[c].wire))
        /\ p.replies = peer[c].replies \o answer
    BY DEF Answering
  <1>2. /\ conn[c] \in Connections /\ peer[c] \in Sockets /\ kind \in AllKinds
        /\ conn[c].sent <= Parts(kind, conn[c].items) /\ conn[c].alive
    BY <1>1, KindType DEF Typed
  <1>3. ASSUME c \in active
        PROVE  /\ Busy(conn[c], p, cmd, kind)
               /\ kind \in Silent => p.replies = peer[c].replies
    <2>1. Busy(conn[c], peer[c], cmd, kind)
      BY <1>3 DEF Inv, ActiveInv
    <2>2. ~Refused(conn[c], peer[c])
      BY <1>1 DEF Refused
    <2>3. InStep(conn[c], peer[c], cmd, kind) /\ Loaded(conn[c], kind)
      BY <1>2, <2>1, <2>2 DEF Busy
    <2>4. InStep(conn[c], p, cmd, kind) /\ (kind \in Silent => p.replies = peer[c].replies)
      BY <1>1, <1>2, <2>3, AnsweringInStep
    <2>5. QED
      BY <2>1, <2>4 DEF Busy
  <1>4. ASSUME c \in active, pc = "poll"
        PROVE  Polled(conn[c], p, kind)
    <2>1. Polled(conn[c], peer[c], kind)
      BY <1>4 DEF Inv, PollInv
    <2>2. kind \in Silent => p.replies = <<>>
      BY <1>2, <1>3, <1>4, <2>1 DEF Polled
    <2>3. QED
      BY <1>1, <2>1, <2>2, PolledStill
  <1>5. ASSUME c \notin active
        PROVE  Rest(p)
    <2>1. peer[c].replies = <<>> /\ Pairs(peer[c].wire, Len(peer[c].wire))
      BY <1>2, <1>5 DEF Inv, RestInv, Rest
    <2>2. PICK b \in Nat : Len(peer[c].replies) = b
      BY <1>2, Lengths
    <2>3. PICK d, left \in Nat : TwoRead(p, peer[c], answer, b, d, left)
      BY <1>1, <1>2, <2>2, TwoReadExists
    <2>4. /\ Len(peer[c].wire) = left + 2 /\ Len(p.wire) = left
          /\ Shifted(p.wire, peer[c].wire, left)
      BY <2>3 DEF TwoRead
    <2>5. PICK read \in Nat : read = left + 2
      OBVIOUS
    <2>6. Pairs(peer[c].wire, read)
      BY ONLY <2>1, <2>4, <2>5
    <2>7. Pairs(p.wire, left)
      BY <2>4, <2>5, <2>6, PairsShift
    <2>8. Pair(peer[c].wire[1], peer[c].wire[2])
      <3>1. 1 \in 1 .. read /\ 1 % 2 = 1 /\ 1 + 1 = 2
        BY <2>5
      <3>2. Pair(peer[c].wire[1], peer[c].wire[1 + 1])
        BY ONLY <2>6, <3>1 DEF Pairs
      <3>3. QED
        BY ONLY <3>1, <3>2
    <2>9. peer[c].wire[1] \in Pieces
      <3>1. peer[c].wire \in Seq(Pieces) /\ 1 \in 1 .. Len(peer[c].wire)
        BY <1>2, <2>4, Lengths
      <3>2. QED
        BY ONLY <3>1, ElementOfSeq
    <2>10. answer = <<>>
      BY <1>1, <2>8, <2>9, SilentAnswer
    <2>11. p.replies = <<>>
      BY <1>1, <2>1, <2>10, ConcatEmptySeq
    <2>12. QED
      BY <2>4, <2>7, <2>11 DEF Rest
  <1>6. QED
    BY <1>3, <1>4, <1>5, SocketStep

LEMMA ServerStep ==
  ASSUME Survivable, TypeInv, Inv, NEW c \in Conns,
         \/ ServerAnswers(c) \/ ServerRefuses(c) \/ PeerCloses(c) \/ PeerResets(c)
  PROVE  Inv'
  BY ServerShape, AnsweringStep, RefusingStep, ClosingStep, ResettingStep

-----------------------------------------------------------------------------
(* The loop begins, polls and ends.                                        *)

\* A connection that owes nothing more has its whole answer, and nothing of
\* it is on its way.
LEMMA FinishedRests ==
  ASSUME NEW k \in Connections, NEW p \in Sockets, NEW m, NEW kd \in AllKinds,
         Busy(k, p, m, kd), k.alive, ~Owes(k, kd), p.sock = "rst" => p.wire = <<>>
  PROVE  /\ Len(k.got) = AnswerLength(kd, k.items) /\ AllSent(k, kd)
         /\ Whole(k, p, kd) /\ Rest(p)
  <1>1. Loaded(k, kd) /\ (Refused(k, p) \/ InStep(k, p, m, kd))
    BY DEF Busy
  <1>2. AllSent(k, kd) /\ (k.counter > 0 => Len(k.got) = AnswerLength(kd, k.items))
    BY DEF Owes
  <1>3. InStep(k, p, m, kd)
    <2>1. SUFFICES ASSUME Refused(k, p) PROVE FALSE
      BY <1>1
    <2>2. k.counter > 0 /\ k.got = <<>>
      BY <2>1 DEF Refused
    <2>3. Len(k.got) = 0
      BY <2>2
    <2>4. QED
      BY <1>1, <1>2, <2>2, <2>3, AnswerLengthType
  <1>4. Continues(k, p, m, kd)
    BY <1>3 DEF InStep
  <1>5. PICK x, a, b, l \in Nat : Sizes(k, p, x, a, b, l)
    BY SizesExist
  <1>6. k.sent = x /\ Len(k.got) = a /\ Len(p.replies) = b /\ Len(p.wire) = l
    BY <1>5 DEF Sizes
  <1>7. PICK n \in Nat : n = k.items /\ n > 0
    BY <1>1, Fields DEF Loaded
  <1>8. a + b <= AnswerLength(kd, n)
    BY ONLY <1>4, <1>6, <1>7 DEF Continues
  <1>9. a = AnswerLength(kd, n)
    <2>1. CASE k.counter > 0
      BY ONLY <1>2, <1>6, <1>7, <2>1
    <2>2. CASE ~(k.counter > 0)
      <3>1. kd \in Silent
        BY <1>1, <1>7, <2>2 DEF Loaded
      <3>2. AnswerLength(kd, n) = 0
        BY <3>1, KindCases
      <3>3. QED
        BY ONLY <1>8, <3>2, a \in Nat, b \in Nat
    <2>3. QED
      BY <2>1, <2>2
  <1>10. b = 0 /\ p.replies = <<>>
    <2>1. b = 0
      BY ONLY <1>8, <1>9, a \in Nat, b \in Nat
    <2>2. QED
      BY <1>6, <2>1, Lengths
  <1>11. Whole(k, p, kd)
    <2>1. Len(k.got) + Len(p.replies) = AnswerLength(kd, k.items)
      BY ONLY <1>6, <1>7, <1>9, <1>10, a \in Nat
    <2>2. DOMAIN p.replies = {}
      BY <1>10
    <2>3. QED
      BY ONLY <2>1, <2>2 DEF Whole
  <1>12. Unread(k, p, kd) = 0
    <2>1. CASE kd \in Silent
      <3>1. Unread(k, p, kd) = x % 2
        BY ONLY <1>6, <2>1, UnreadCases
      <3>2. x = 2 \/ x = 2 * n
        BY ONLY <1>2, <1>6, <1>7 DEF AllSent, Parts
      <3>3. x % 2 = 0
        BY ONLY <3>2, n \in Nat
      <3>4. QED
        BY ONLY <3>1, <3>3
    <2>2. CASE kd = "storage"
      <3>1. Unread(k, p, kd) = k.sent - 2 * (Len(k.got) + Len(p.replies))
        BY ONLY <2>2, UnreadCases
      <3>2. k.sent = 2 * n
        BY <1>2, <1>7, <2>2 DEF AllSent, Parts
      <3>3. a = n
        BY <1>9, <2>2 DEF AnswerLength
      <3>4. 2 * n - 2 * (n + 0) = 0
        OBVIOUS
      <3>5. QED
        BY ONLY <1>6, <1>10, <3>1, <3>2, <3>3, <3>4
    <2>3. CASE kd \in {"retrieval", "broadcast"}
      <3>1. kd \notin Silent \cup {"storage"}
        BY <2>3, KindCases
      <3>2. Unread(k, p, kd) = IF k.got = <<>> /\ p.replies = <<>> THEN k.sent ELSE 0
        BY ONLY <3>1, UnreadCases
      <3>3. AnswerLength(kd, n) > 0
        BY <1>7, <2>3, KindCases
      <3>4. a # 0
        BY ONLY <1>9, <3>3
      <3>5. k.got # <<>>
        BY <1>6, <3>4, Lengths
      <3>6. QED
        BY ONLY <3>2, <3>5
    <2>4. QED
      BY <2>1, <2>2, <2>3, KindCases
  <1>13. Pairs(p.wire, Len(p.wire))
    <2>1. CASE p.sock = "rst"
      <3>1. p.wire = <<>> /\ Len(p.wire) = 0
        BY <2>1
      <3>2. QED
        BY <3>1 DEF Pairs
    <2>2. CASE p.sock # "rst"
      <3>1. Wired(k, p, m, kd)
        BY <1>3, <2>2 DEF InStep
      <3>2. Pairs(p.wire, Len(p.wire) - Unread(k, p, kd))
        BY <3>1 DEF Wired
      <3>3. Len(p.wire) - Unread(k, p, kd) = Len(p.wire)
        BY ONLY <1>6, <1>12, l \in Nat
      <3>4. QED
        BY ONLY <3>2, <3>3
    <2>3. QED
      BY <2>1, <2>2
  <1>14. QED
    BY <1>2, <1>6, <1>7, <1>9, <1>10, <1>11, <1>13 DEF Rest

LEMMA ReventsFacts ==
  ASSUME NEW c
  PROVE  /\ ~conn[c].alive => Revents(c) = {}
         /\ "hup" \in Revents(c) <=> conn[c].alive /\ peer[c].sock = "rst"
         /\ "in" \in Revents(c) <=>
              conn[c].alive /\ "in" \in conn[c].events /\ Readable(c)
         /\ "peek" \in Revents(c) <=>
              /\ conn[c].alive /\ "in" \in conn[c].events /\ Readable(c)
              /\ conn[c].sent = 0
         /\ "out" \in Revents(c) => conn[c].alive /\ "out" \in conn[c].events
         /\ Revents(c) \subseteq {"hup", "peek", "in", "out"}
  BY DEF Revents

LEMMA PollStep ==
  ASSUME TypeInv, Inv, Poll
  PROVE  Inv'
  <1>1. /\ pc = "poll" /\ UNCHANGED <<pc, cmd, kind, active, nActive, ret, peer>>
        /\ conn' = [c \in Conns |-> IF c \in active
                      THEN [conn[c] EXCEPT !.revents = Revents(c)] ELSE conn[c]]
        /\ \A c \in active : conn[c].revents = {}
    BY DEF Poll, Served
  <1>2. active \subseteq Conns
    BY DEF TypeInv
  <1>3. ASSUME NEW c \in active
        PROVE  /\ Busy(conn'[c], peer[c], cmd, kind) /\ Polled(conn'[c], peer[c], kind)
               /\ Owes(conn'[c], kind) <=> Owes(conn[c], kind)
               /\ conn'[c].alive = conn[c].alive
    <2>1. /\ conn[c] \in Connections /\ peer[c] \in Sockets /\ kind \in AllKinds
          /\ Typed(conn[c], peer[c], kind)
      BY <1>2, KindType
    <2>2. Busy(conn[c], peer[c], cmd, kind) /\ Polled(conn[c], peer[c], kind)
      BY <1>1 DEF Inv, ActiveInv, PollInv
    <2>3. conn'[c] = [conn[c] EXCEPT !.revents = Revents(c)]
      BY <1>1, <1>2
    <2>4. /\ Keeps(conn'[c], conn[c]) /\ conn'[c].sent = conn[c].sent
          /\ conn'[c].got = conn[c].got /\ conn'[c].events = conn[c].events
          /\ conn'[c].revents = Revents(c)
      BY <2>1, <2>3 DEF Connections, Keeps
    <2>5. Busy(conn'[c], peer[c], cmd, kind)
      BY <2>2, <2>4, BusySame
    <2>6. /\ Owes(conn'[c], kind) <=> Owes(conn[c], kind)
          /\ AllSent(conn'[c], kind) <=> AllSent(conn[c], kind)
          /\ Whole(conn'[c], peer[c], kind) <=> Whole(conn[c], peer[c], kind)
          /\ conn'[c].alive = conn[c].alive /\ conn'[c].counter = conn[c].counter
      BY <2>4, OwesSame DEF Keeps
    <2>7. ASSUME conn[c].alive, kind \in Silent, "in" \in Revents(c)
          PROVE  /\ Revents(c) \cap {"hup", "peek"} # {}
                 /\ peer[c].sock = "fin" => "peek" \in Revents(c)
      <3>1. peer[c].replies = <<>>
        BY <2>2, <2>7 DEF Polled
      <3>2. peer[c].sock \in {"fin", "rst"}
        BY <2>7, <3>1, ReventsFacts DEF Readable
      <3>3. CASE peer[c].sock = "rst"
        <4>1. "hup" \in Revents(c)
          BY <2>7, <3>3, ReventsFacts
        <4>2. QED
          BY <3>3, <4>1
      <3>4. CASE peer[c].sock = "fin"
        <4>1. conn[c].sent = 0
          BY <2>2, <2>7, <3>4 DEF Polled
        <4>2. "peek" \in Revents(c)
          BY <2>7, <4>1, ReventsFacts
        <4>3. QED
          BY <4>2
      <3>5. QED
        BY <3>2, <3>3, <3>4
    <2>8. ASSUME Revents(c) # {}
          PROVE  Owes(conn[c], kind)
      <3>1. SUFFICES ASSUME ~Owes(conn[c], kind) PROVE FALSE
        OBVIOUS
      <3>2. conn[c].alive
        BY <2>8, ReventsFacts
      <3>3. AllSent(conn[c], kind) /\ Whole(conn[c], peer[c], kind)
            /\ peer[c].replies = <<>>
        BY <2>1, <2>2, <3>1, <3>2, FinishedRests DEF Typed, Rest
      <3>4. peer[c].sock # "rst" /\ "out" \notin conn[c].events
        BY <2>2, <3>2, <3>3 DEF Polled
      <3>5. "hup" \notin Revents(c) /\ "out" \notin Revents(c)
        BY <3>4, ReventsFacts
      <3>6. "in" \in conn[c].events /\ Readable(c)
        BY <2>8, <3>5, ReventsFacts
      <3>7. conn[c].counter = 0
        <4>1. ~(conn[c].counter > 0)
          BY <2>2, <3>1, <3>6 DEF Polled
        <4>2. QED
          BY <2>1, <4>1, Fields
      <3>8. kind \in Silent
        BY <2>1, <2>2, <3>7, Fields DEF Busy, Loaded
      <3>9. peer[c].sock = "open"
        BY <2>2, <3>2, <3>3, <3>8 DEF Polled
      <3>10. QED
        BY <3>3, <3>6, <3>9 DEF Readable
    <2>9. Polled(conn'[c], peer[c], kind)
      <3>1. ~conn[c].alive => conn'[c].events = {} /\ conn'[c].revents = {}
        BY <2>2, <2>4, ReventsFacts DEF Polled
      <3>2. conn[c].alive => ("out" \in conn[c].events <=> ~AllSent(conn[c], kind))
        BY <2>2 DEF Polled
      <3>3. "peek" \in Revents(c) => conn[c].sent = 0
        BY ReventsFacts
      <3>4. "out" \in Revents(c) => ~AllSent(conn[c], kind)
        BY <3>2, ReventsFacts
      <3>5. /\ Owes(conn[c], kind) /\ AllSent(conn[c], kind) => "in" \in conn[c].events
            /\ conn[c].counter > 0 /\ ~Owes(conn[c], kind) => conn[c].events = {}
            /\ conn[c].alive /\ peer[c].sock = "rst" =>
                 ~(AllSent(conn[c], kind) /\ Whole(conn[c], peer[c], kind))
        BY <2>2 DEF Polled
      <3>6. ASSUME conn[c].alive, kind \in Silent
            PROVE  /\ peer[c].replies = <<>>
                   /\ "in" \in Revents(c) => Revents(c) \cap {"hup", "peek"} # {}
                   /\ AllSent(conn[c], kind) => peer[c].sock = "open"
                   /\ peer[c].sock = "fin" => /\ conn[c].sent = 0
                                              /\ conn[c].events = {"in", "out"}
                                              /\ "peek" \in Revents(c)
        <4>1. /\ peer[c].replies = <<>>
              /\ AllSent(conn[c], kind) => peer[c].sock = "open"
              /\ peer[c].sock = "fin" => /\ conn[c].sent = 0
                                         /\ conn[c].events = {"in", "out"}
          BY <2>2, <3>6 DEF Polled
        <4>2. peer[c].sock = "fin" => "in" \in Revents(c)
          BY <3>6, <4>1, ReventsFacts DEF Readable
        <4>3. QED
          BY <2>7, <3>6, <4>1, <4>2
      <3>7. QED
        BY <2>4, <2>6, <2>8, <3>1, <3>2, <3>3, <3>4, <3>5, <3>6 DEF Polled
    <2>10. QED
      BY <2>5, <2>6, <2>9
  <1>4. ActiveInv'
    BY <1>1, <1>3 DEF ActiveInv
  <1>5. RestInv'
    BY <1>1 DEF Inv, RestInv
  <1>6. PollInv'
    <2>1. Owing' = Owing
      BY <1>1, <1>3 DEF Owing
    <2>2. nActive = Cardinality(Owing) /\ (ret = "OK" <=> \A c \in active : conn[c].alive)
      BY <1>1 DEF Inv, PollInv
    <2>3. \A c \in active : Polled(conn'[c], peer'[c], kind')
      BY <1>1, <1>3
    <2>4. ret' = "OK" <=> \A c \in active' : conn'[c].alive
      BY <1>1, <1>3, <2>2
    <2>5. QED
      BY <1>1, <2>1, <2>2, <2>3, <2>4 DEF PollInv
  <1>7. CollectInv'
    BY <1>1 DEF CollectInv
  <1>8. QED
    BY <1>4, <1>5, <1>6, <1>7 DEF Inv

LEMMA OweingIsPolled ==
  ASSUME NEW k, NEW p, NEW kd, Polled(k, p, kd), Owes(k, kd)
  PROVE  k.events # {}
  BY DEF Polled, Owes

\* The count is that of the connections that still owe something.
LEMMA CountedOwing ==
  ASSUME TypeInv, Inv, pc = "poll"
  PROVE  nActive = 0 <=> Owing = {}
  <1>1. nActive = Cardinality(Owing) /\ Owing \subseteq Conns
    BY DEF Inv, PollInv, Owing, TypeInv
  <1>2. IsFiniteSet(Owing)
    BY <1>1, ActiveCounted
  <1>3. QED
    BY <1>1, <1>2, FS_EmptySet

\* poll reports nothing, or fails: what it waited for is closed.
LEMMA MarkedStep ==
  ASSUME TypeInv, Inv, MarkDeadAll(Waiting), pc = "poll", pc' = "collect",
         nActive # 0, ret' \in Errors, UNCHANGED <<cmd, kind, active, nActive>>
  PROVE  Inv'
  <1>1. active \subseteq Conns /\ Waiting \subseteq active
    BY DEF TypeInv, Waiting
  <1>2. \A c \in Conns : IF c \in Waiting
          THEN conn'[c] = Dead(conn[c]) /\ peer'[c] = NoSocket
          ELSE conn'[c] = conn[c] /\ peer'[c] = peer[c]
    BY DEF MarkDeadAll
  <1>3. ASSUME NEW c \in active
        PROVE  /\ Busy(conn'[c], peer'[c], cmd, kind)
               /\ ~Owes(conn'[c], kind)
               /\ c \in Waiting => ~conn'[c].alive
    <2>1. /\ conn[c] \in Connections /\ Busy(conn[c], peer[c], cmd, kind)
          /\ Polled(conn[c], peer[c], kind)
      BY <1>1, KindType DEF Inv, ActiveInv, PollInv
    <2>2. CASE c \in Waiting
      <3>1. conn'[c] = Dead(conn[c])
        BY <1>1, <1>2, <2>2
      <3>2. /\ conn'[c].alive = FALSE /\ conn'[c].items = conn[c].items
            /\ conn'[c].counter = conn[c].counter /\ conn'[c].got = conn[c].got
        BY <2>1, <3>1, DeadType
      <3>3. QED
        BY <2>1, <3>2 DEF Busy, Loaded, Owes
    <2>3. CASE c \notin Waiting
      <3>1. conn'[c] = conn[c] /\ peer'[c] = peer[c]
        BY <1>1, <1>2, <2>3
      <3>2. conn[c].events = {}
        BY <2>3 DEF Waiting
      <3>3. ~Owes(conn[c], kind)
        BY <2>1, <3>2, OweingIsPolled
      <3>4. QED
        BY <2>1, <2>3, <3>1, <3>3
    <2>4. QED
      BY <2>2, <2>3
  <1>4. ActiveInv'
    BY <1>3 DEF ActiveInv
  <1>5. RestInv'
    BY <1>1, <1>2 DEF Inv, RestInv
  <1>6. PollInv'
    BY DEF PollInv
  <1>7. CollectInv'
    <2>1. Owing' = {}
      BY <1>3 DEF Owing
    <2>2. PICK c \in active : Owes(conn[c], kind)
      BY CountedOwing DEF Owing
    <2>3. conn[c].events # {}
      BY <2>2, OweingIsPolled DEF Inv, PollInv
    <2>4. ~conn'[c].alive
      BY <1>3, <2>2, <2>3 DEF Waiting
    <2>5. ret' # "OK"
      BY DEF Errors
    <2>6. QED
      BY <2>1, <2>4, <2>5 DEF CollectInv
  <1>8. QED
    BY <1>4, <1>5, <1>6, <1>7 DEF Inv

LEMMA ReturnStep ==
  ASSUME TypeInv, Inv, Return
  PROVE  Inv'
  <1>1. /\ pc = "poll" /\ nActive = 0 /\ pc' = "collect"
        /\ UNCHANGED <<cmd, kind, active, nActive, ret, conn, peer>>
    BY DEF Return
  <1>2. Owing' = {}
    BY <1>1, CountedOwing DEF Owing
  <1>3. ActiveInv' /\ RestInv' /\ PollInv'
    BY <1>1 DEF Inv, ActiveInv, RestInv, PollInv
  <1>4. CollectInv'
    BY <1>1, <1>2 DEF Inv, PollInv, CollectInv
  <1>5. QED
    BY <1>3, <1>4 DEF Inv

\* What the next command finds on a connection.
LEMMA CollectStep ==
  ASSUME TypeInv, Inv, Collect
  PROVE  Inv'
  <1>1. pc = "collect" /\ pc' = "idle" /\ active' = {}
    BY DEF Collect
  <1>2. ASSUME NEW c \in Conns, conn'[c].alive
        PROVE  Rest(peer'[c])
    <2>1. /\ conn[c] \in Connections /\ peer[c] \in Sockets /\ kind \in AllKinds
          /\ Typed(conn[c], peer[c], kind)
      BY KindType
    <2>2. CASE c \in ClosedByQuit
      <3>1. conn'[c] = Reset(Dead(conn[c]))
        BY <2>2 DEF Collect
      <3>2. Dead(conn[c]) \in Connections /\ Dead(conn[c]).alive = FALSE
        BY <2>1, DeadType
      <3>3. conn'[c].alive = FALSE
        BY <3>1, <3>2, ResetType
      <3>4. QED
        BY <1>2, <3>3
    <2>3. CASE c \in active \ ClosedByQuit
      <3>1. conn'[c] = Reset(conn[c]) /\ peer'[c] = peer[c]
        BY <2>3 DEF Collect
      <3>2. conn[c].alive
        BY <1>2, <2>1, <3>1, ResetType
      <3>3. ~Owes(conn[c], kind) /\ Busy(conn[c], peer[c], cmd, kind)
        BY <1>1, <2>3 DEF Inv, CollectInv, ActiveInv, Owing
      <3>4. QED
        BY <2>1, <3>1, <3>2, <3>3, FinishedRests DEF Typed
    <2>4. CASE c \notin active
      <3>1. c \notin ClosedByQuit
        BY <2>4 DEF ClosedByQuit
      <3>2. conn'[c] = conn[c] /\ peer'[c] = peer[c]
        BY <2>4, <3>1 DEF Collect
      <3>3. QED
        BY <1>2, <2>4, <3>2 DEF Inv, RestInv
    <2>5. QED
      BY <2>2, <2>3, <2>4
  <1>3. QED
    BY <1>1, <1>2 DEF Inv, ActiveInv, RestInv, PollInv, CollectInv

\* A connection that begins its part of a command, on its old socket or a
\* new one.
LEMMA DispatchedBegins ==
  ASSUME NEW k \in Connections, NEW p \in Sockets, NEW m \in Nat, NEW kd \in AllKinds,
         Loaded(k, kd), k.alive, k.sent = 0, k.got = <<>>,
         k.events = {"in", "out"}, k.revents = {}, Rest(p)
  PROVE  /\ Busy(k, p, m, kd)
         /\ Polled(k, p, kd)
         /\ Owes(k, kd)
  <1>1. k.items \in Nat /\ k.items > 0
    BY Fields DEF Loaded
  <1>2. ~AllSent(k, kd)
    BY <1>1 DEF AllSent, Parts
  <1>3. Owes(k, kd)
    BY <1>2 DEF Owes
  <1>4. AnswerLength(kd, k.items) \in Nat
    BY <1>1 DEF AnswerLength
  <1>5. Len(<<>>) = 0 /\ DOMAIN <<>> = {}
    OBVIOUS
  <1>6. Right(k.got, m, kd, k.items)
    BY <1>4, <1>5 DEF Right
  <1>7. p.replies = <<>> /\ Pairs(p.wire, Len(p.wire))
    BY DEF Rest
  <1>8. PICK x, a, b, l \in Nat : Sizes(k, p, x, a, b, l)
    BY SizesExist
  <1>9. x = 0 /\ a = 0 /\ b = 0
    BY <1>5, <1>7, <1>8 DEF Sizes
  <1>10. Unread(k, p, kd) = 0
    <2>1. Len(k.got) = 0 /\ Len(p.replies) = 0
      BY <1>5, <1>7
    <2>2. k.sent - 2 * (Len(k.got) + Len(p.replies)) = 0
      <3>1. Len(k.got) + Len(p.replies) = 0
        BY <2>1
      <3>2. 0 - 2 * 0 = 0
        OBVIOUS
      <3>3. QED
        BY <3>1, <3>2
    <2>3. k.sent % 2 = 0
      OBVIOUS
    <2>4. QED
      BY <2>2, <2>3, UnreadCases DEF AllKinds
  <1>11. Continues(k, p, m, kd)
    BY <1>4, <1>5, <1>7 DEF Continues
  <1>12. Wired(k, p, m, kd)
    <2>1. l = l + 0 /\ Pairs(p.wire, l)
      BY <1>7, <1>8 DEF Sizes
    <2>2. Follow(p.wire, l, 0, m, kd, k.items, x - 0)
      BY DEF Follow
    <2>3. QED
      BY <1>8, <1>10, <2>1, <2>2, WiredIs
  <1>13. Busy(k, p, m, kd)
    BY <1>6, <1>10, <1>11, <1>12 DEF Busy, InStep
  <1>14. Polled(k, p, kd)
    BY <1>2, <1>3, <1>7 DEF Polled
  <1>15. QED
    BY <1>3, <1>13, <1>14

LEMMA DispatchStep ==
  ASSUME TypeInv, Inv, Dispatch
  PROVE  Inv'
  <1>1. PICK k \in Kinds, load \in [Conns -> 0 .. MaxItems], up \in SUBSET Conns :
          Dispatched(k, load, up)
    BY DispatchShape
  <1>2. /\ conn' \in [Conns -> Connections] /\ peer' \in [Conns -> Sockets]
        /\ TypeInv'
    BY DispatchShape, DispatchTypes
  <1>3. /\ pc = "idle" /\ active = {} /\ kind' = k /\ active' \subseteq Conns
        /\ nActive' = Cardinality(active') /\ cmd' \in Nat /\ k \in AllKinds
    <2>1. pc = "idle" /\ kind' = k /\ active' \subseteq Conns
          /\ nActive' = Cardinality(active')
      BY <1>1 DEF Dispatched
    <2>2. cmd' \in Nat
      BY <1>2, CounterType DEF TypeInv
    <2>3. k \in AllKinds
      BY ConnectionPoolAssumption DEF AllKinds
    <2>4. QED
      BY <2>1, <2>2, <2>3 DEF TypeInv
  <1>4. ASSUME NEW c \in Conns
        PROVE  /\ Cleared(conn[c]) /\ conn[c] \in Connections /\ peer[c] \in Sockets
               /\ conn[c].alive => Rest(peer[c])
    BY <1>3, KindType DEF TypeInv, Inv, RestInv
  <1>5. ASSUME NEW c \in active'
        PROVE  /\ Busy(conn'[c], peer'[c], cmd', kind')
               /\ Polled(conn'[c], peer'[c], kind')
               /\ Owes(conn'[c], kind') /\ conn'[c].alive = TRUE
    <2>1. c \in Conns /\ conn'[c] \in Connections /\ peer'[c] \in Sockets
      BY <1>2, <1>3
    <2>2. /\ conn'[c].items = load[c] /\ conn'[c].sent = conn[c].sent
          /\ conn'[c].counter = IF k \in {"noreply", "quit"} THEN 0 ELSE load[c]
          /\ conn'[c].got = conn[c].got /\ conn'[c].alive = TRUE
          /\ conn'[c].events = {"in", "out"}
          /\ conn'[c].revents = conn[c].revents
      <3>1. conn'[c] = [Connected(conn[c]) EXCEPT
                          !.items = load[c],
                          !.counter = IF k \in {"noreply", "quit"}
                                        THEN 0 ELSE load[c],
                          !.events = {"in", "out"}]
        BY <1>1 DEF Dispatched
      <3>2. conn[c] \in Connections
        BY <1>4, <2>1
      <3>3. QED
        BY <3>1, <3>2 DEF Connections, Connected
    <2>3. conn[c].sent = 0 /\ conn[c].got = <<>> /\ conn[c].revents = {}
      BY <1>4, <2>1 DEF Cleared
    <2>4. Loaded(conn'[c], k)
      <3>1. load[c] > 0 /\ (IsBroadcast(k) => load[c] = 1)
        BY <1>1, <2>1 DEF Dispatched
      <3>2. QED
        BY <2>2, <3>1 DEF Loaded, Silent
    <2>5. Rest(peer'[c])
      <3>1. CASE c \in up
        <4>1. peer'[c] = NewSocket
          BY <1>1, <3>1 DEF Dispatched
        <4>2. Len(<<>>) = 0 /\ Pairs(<<>>, 0)
          BY DEF Pairs
        <4>3. QED
          BY <4>1, <4>2, NewSocketFields DEF Rest
      <3>2. CASE c \notin up
        <4>1. peer'[c] = peer[c] /\ conn[c].alive
          BY <1>1, <3>2 DEF Dispatched
        <4>2. QED
          BY <1>4, <2>1, <4>1
      <3>3. QED
        BY <3>1, <3>2
    <2>6. QED
      BY <1>3, <2>1, <2>2, <2>3, <2>4, <2>5, DispatchedBegins
  <1>6. ActiveInv'
    BY <1>5 DEF ActiveInv
  <1>7. RestInv'
    <2>1. ASSUME NEW c \in Conns \ active', conn'[c].alive
          PROVE  Rest(peer'[c])
      <3>1. peer'[c] = peer[c]
        BY <1>1 DEF Dispatched
      <3>2. PICK later \in BOOLEAN : conn'[c] = [conn[c] EXCEPT !.backoff = later]
        BY <1>1 DEF Dispatched
      <3>3. conn[c].alive
        BY <1>4, <2>1, <3>2 DEF Connections
      <3>4. QED
        BY <1>4, <3>1, <3>3
    <2>2. QED
      BY <2>1 DEF RestInv
  <1>8. Owing' = active'
    BY <1>5 DEF Owing
  <1>9. active' # {} => ret' = "OK"
    BY <1>1 DEF Dispatched
  <1>10. pc' = IF active' = {} THEN "collect" ELSE "poll"
    BY <1>1 DEF Dispatched
  <1>11. PollInv'
    BY <1>3, <1>5, <1>8, <1>9, <1>10 DEF PollInv
  <1>12. CollectInv'
    BY <1>8, <1>10 DEF CollectInv
  <1>13. QED
    BY <1>6, <1>7, <1>11, <1>12 DEF Inv

\* Between commands only live connections matter, and they stay as they are.
LEMMA IdleStep ==
  ASSUME TypeInv, Inv, pc = "idle", UNCHANGED <<pc, active>>,
         \A c \in Conns : conn'[c].alive => conn[c].alive /\ peer'[c] = peer[c]
  PROVE  Inv'
  BY DEF TypeInv, Inv, ActiveInv, RestInv, PollInv, CollectInv

LEMMA UpdateServersStep ==
  ASSUME TypeInv, Inv, UpdateServers
  PROVE  Inv'
  <1>1. PICK changed \in SUBSET Conns :
         /\ conn' = [c \in Conns |->
              CASE c \in changed /\ conn[c].alive -> Reset(Dead(conn[c]))
                [] c \in changed /\ ~conn[c].alive -> Reset(conn[c])
                [] OTHER -> conn[c]]
         /\ peer' = [c \in Conns |->
              IF c \in changed THEN NoSocket ELSE peer[c]]
    BY DEF UpdateServers
  <1>2. pc = "idle" /\ UNCHANGED <<pc, active>>
    BY DEF UpdateServers
  <1>3. ASSUME NEW c \in Conns, conn'[c].alive
        PROVE  conn[c].alive /\ peer'[c] = peer[c]
    <2>1. conn[c] \in Connections
      BY KindType
    <2>2. CASE c \in changed
      <3>1. CASE conn[c].alive
        <4>1. conn'[c] = Reset(Dead(conn[c]))
          BY <1>1, <2>2, <3>1
        <4>2. Dead(conn[c]) \in Connections /\ Dead(conn[c]).alive = FALSE
          BY <2>1, DeadType
        <4>3. conn'[c].alive = FALSE
          BY <4>1, <4>2, ResetType
        <4>4. QED
          BY <1>3, <4>3
      <3>2. CASE ~conn[c].alive
        <4>1. conn'[c] = Reset(conn[c])
          BY <1>1, <2>2, <3>2
        <4>2. conn'[c].alive = conn[c].alive
          BY <2>1, <4>1, ResetType
        <4>3. QED
          BY <1>3, <3>2, <4>2
      <3>3. QED
        BY <3>1, <3>2
    <2>3. CASE c \notin changed
      BY <1>1, <1>3, <2>3
    <2>4. QED
      BY <2>2, <2>3
  <1>4. QED
    BY <1>2, <1>3, IdleStep

LEMMA BackoffEndsStep ==
  ASSUME TypeInv, Inv, NEW c \in Conns, BackoffEnds(c)
  PROVE  Inv'
  <1> DEFINE k == [conn[c] EXCEPT !.backoff = FALSE]
  <1>1. /\ pc = "idle" /\ UNCHANGED <<pc, cmd, kind, active, nActive, ret, peer>>
        /\ Local(c, k, peer[c]) /\ k.alive = conn[c].alive
    BY BackoffEndsShape
  <1> HIDE DEF k
  <1>2. conn \in [Conns -> Connections] /\ conn' = [conn EXCEPT ![c] = k]
    BY <1>1 DEF TypeInv, Local
  <1>3. \A d \in Conns : conn'[d].alive => conn[d].alive /\ peer'[d] = peer[d]
    BY <1>1, <1>2
  <1>4. QED
    BY <1>1, <1>3, IdleStep

LEMMA InitInv ==
  ASSUME Init
  PROVE  IInv
  <1>1. TypeInv
    BY InitTypes
  <1>2. \A c \in Conns : conn[c].alive = FALSE
    BY DEF Init
  <1>3. pc = "idle" /\ active = {}
    BY DEF Init
  <1>4. QED
    BY <1>1, <1>2, <1>3 DEF IInv, Inv, ActiveInv, RestInv, PollInv, CollectInv

\* The inductive invariant, as long as no connection that has its answer is
\* reset and none is closed or refused during a command that has no answer.
THEOREM Invariant ==
  ASSUME Survivable
  PROVE  Spec => []IInv
  <1>1. ASSUME IInv, UNCHANGED vars
        PROVE  IInv'
    <2>1. Inv /\ TypeInv
      BY <1>1 DEF IInv
    <2>2. Owing' = Owing
      BY <1>1 DEF vars, Owing
    <2>3. Inv'
      BY <1>1, <2>1, <2>2 DEF vars, Inv, ActiveInv, RestInv, PollInv, CollectInv
    <2>4. TypeInv'
      BY <1>1, <2>1 DEF TypeInv, vars
    <2>5. QED
      BY <2>3, <2>4 DEF IInv
  <1>2. ASSUME IInv, TypeInv', Next
        PROVE  IInv'
    <2>1. TypeInv /\ Inv
      BY <1>2 DEF IInv
    <2>2. CASE Dispatch
      BY <2>1, <2>2, DispatchStep, <1>2 DEF IInv
    <2>3. CASE UpdateServers
      BY <2>1, <2>3, UpdateServersStep, <1>2 DEF IInv
    <2>4. CASE ClientStep
      <3>1. CASE Poll
        BY <2>1, <3>1, PollStep, <1>2 DEF IInv
      <3>2. CASE PollTimeout
        BY <2>1, <3>2, MarkedStep, <1>2 DEF IInv, PollTimeout, Errors
      <3>3. CASE PollError
        BY <2>1, <3>3, MarkedStep, <1>2 DEF IInv, PollError, Errors
      <3>4. CASE \E c \in Conns : Serve(c)
        BY <2>1, <3>4, ServeStep, <1>2 DEF IInv
      <3>5. CASE Return \/ Collect
        BY <2>1, <3>5, ReturnStep, CollectStep, <1>2 DEF IInv
      <3>6. QED
        BY <2>4, <3>1, <3>2, <3>3, <3>4, <3>5 DEF ClientStep
    <2>5. CASE Environment
      BY <2>1, <2>5, ServerStep, BackoffEndsStep, <1>2 DEF IInv, Environment
    <2>6. QED
      BY <1>2, <2>2, <2>3, <2>4, <2>5 DEF Next
  <1>3. Init => IInv
    BY InitInv
  <1>4. QED
    BY <1>1, <1>2, <1>3, Types, PTL DEF Spec

-----------------------------------------------------------------------------
(* What the command is promised.                                           *)

\* An unfinished connection, in the words of the code and of the invariant.
LEMMA OwesIsPending ==
  ASSUME TypeInv, Inv, NEW c \in active
  PROVE  Pending(c) <=> Owes(conn[c], kind)
  <1>1. /\ conn[c] \in Connections /\ kind \in AllKinds
        /\ Typed(conn[c], peer[c], kind) /\ Busy(conn[c], peer[c], cmd, kind)
    BY KindType DEF Inv, ActiveInv
  <1>2. Unsent(c) <=> ~AllSent(conn[c], kind)
    <2>1. conn[c].sent \in Nat /\ Parts(kind, conn[c].items) \in Nat
      BY <1>1, Fields, PartsType
    <2>2. QED
      BY <1>1, <2>1 DEF Unsent, AllSent, Typed
  <1>3. ASSUME conn[c].counter > 0
        PROVE  CanEnd(c, conn[c].got)
                 <=> Len(conn[c].got) = AnswerLength(kind, conn[c].items)
    <2>1. /\ Loaded(conn[c], kind) /\ conn[c].got \in Seq(Packets)
          /\ Right(conn[c].got, cmd, kind, conn[c].items)
      BY <1>1, Fields DEF Busy
    <2>2. QED
      BY <1>1, <1>3, <2>1, EndTest
  <1>4. QED
    BY <1>2, <1>3 DEF Pending, Owes

\* The count of waitPoll is that of the connections it has to wait for, as
\* long as no connection that has its answer is reset (markDeadConn is called
\* again for one that was counted off already) and none is closed during a
\* command that has no answer.
THEOREM CountTheorem ==
  ASSUME Survivable
  PROVE  Spec => []ActiveCountsPending
  <1>1. ASSUME IInv
        PROVE  ActiveCountsPending
    <2>1. SUFFICES ASSUME pc = "poll"
                   PROVE  nActive = Cardinality({c \in active : Pending(c)})
      BY DEF ActiveCountsPending
    <2>2. TypeInv /\ Inv
      BY <1>1 DEF IInv
    <2>3. \A c \in active : Pending(c) <=> Owes(conn[c], kind)
      BY <2>2, OwesIsPending
    <2>4. {c \in active : Pending(c)} = Owing
      BY <2>3 DEF Owing
    <2>5. QED
      BY <2>1, <2>2, <2>4 DEF Inv, PollInv
  <1>2. QED
    BY <1>1, Invariant, PTL

LEMMA ListedAnswer ==
  ASSUME NEW n \in Nat, NEW f \in [1 .. n -> Packets]
  PROVE  f \in Seq(Packets) /\ Len(f) = n
  BY ListedType

\* The answer that is expected, packet by packet.
LEMMA ExpectedIs ==
  ASSUME TypeInv, NEW c \in Conns, Loaded(conn[c], kind)
  PROVE  /\ Expected(c) \in Seq(Packets)
         /\ Len(Expected(c)) = AnswerLength(kind, conn[c].items)
         /\ \A i \in 1 .. AnswerLength(kind, conn[c].items) :
              Expected(c)[i] = Due(cmd, kind, conn[c].items, i)
  <1>1. cmd \in Nat /\ kind \in AllKinds /\ conn[c] \in Connections
    BY KindType
  <1>2. PICK n \in Nat : n = conn[c].items /\ n > 0
    BY <1>1, Fields DEF Loaded
  <1>3. /\ Part(c, 2) = [cmd |-> cmd, kind |-> kind, n |-> n, item |-> 1, half |-> 2]
        /\ Part(c, 2).kind = kind /\ Part(c, 2).n = n /\ Part(c, 2).cmd = cmd
        /\ Part(c, 2).item = 1
    <2>1. (2 + 1) \div 2 = 1 /\ 2 - (2 % 2) = 2
      OBVIOUS
    <2>2. Part(c, 2) = [cmd |-> cmd, kind |-> kind, n |-> n, item |-> 1, half |-> 2]
      BY <1>2, <2>1 DEF Part
    <2>3. QED
      BY ONLY <2>2
  <1>4. CASE kind \in Silent
    <2>1. kind # "storage" /\ Expected(c) = Answer(Part(c, 2))
      BY <1>4 DEF Silent, Expected
    <2>2. Expected(c) = <<>>
      BY ONLY <1>3, <1>4, <2>1, AnswerCases
    <2>3. AnswerLength(kind, n) = 0
      BY <1>1, <1>4, KindCases
    <2>4. <<>> \in Seq(Packets) /\ Len(<<>>) = 0
      OBVIOUS
    <2>5. QED
      BY <1>2, <2>2, <2>3, <2>4
  <1>5. CASE kind = "storage"
    <2> DEFINE f == [i \in 1 .. n |-> [cmd |-> cmd, item |-> i, type |-> "MSG"]]
    <2>1. Expected(c) = f
      <3>1. Expected(c) = [i \in 1 .. n |-> Packet(Part(c, 2 * i), "MSG")]
        BY <1>2, <1>5 DEF Expected
      <3>2. ASSUME NEW i \in 1 .. n
            PROVE  Packet(Part(c, 2 * i), "MSG") = [cmd |-> cmd, item |-> i, type |-> "MSG"]
        <4>1. (2 * i + 1) \div 2 = i
          OBVIOUS
        <4>2. Part(c, 2 * i).cmd = cmd /\ Part(c, 2 * i).item = i
          BY <4>1 DEF Part
        <4>3. QED
          BY ONLY <4>2 DEF Packet
      <3>3. QED
        BY ONLY <3>1, <3>2
    <2>2. f \in [1 .. n -> Packets]
      BY <1>1 DEF Packets
    <2>3. /\ f \in Seq(Packets) /\ Len(f) = n
      BY <2>2, ListedAnswer
    <2>4. AnswerLength(kind, n) = n
      BY <1>1, <1>5, KindCases
    <2>5. \A i \in 1 .. n : f[i] = Due(cmd, kind, n, i)
      BY <1>5, DueCases
    <2> HIDE DEF f
    <2>6. QED
      BY ONLY <1>2, <2>1, <2>3, <2>4, <2>5
  <1>6. CASE kind = "broadcast"
    <2>1. Expected(c) = Answer(Part(c, 2))
      BY <1>6 DEF Expected
    <2>2. Expected(c) = <<Packet(Part(c, 2), "END")>>
      BY ONLY <1>3, <1>6, <2>1, AnswerCases
    <2> DEFINE e == [cmd |-> cmd, item |-> 1, type |-> "END"]
    <2>3. Packet(Part(c, 2), "END") = e
      BY ONLY <1>3 DEF Packet
    <2>4. e \in Packets /\ e = Due(cmd, kind, n, 1)
      BY <1>1, <1>6, DueCases DEF Packets
    <2>5. AnswerLength(kind, n) = 1
      BY <1>6 DEF AnswerLength
    <2> HIDE DEF e
    <2>6. /\ <<e>> \in Seq(Packets) /\ Len(<<e>>) = 1 /\ <<e>>[1] = e
          /\ \A i \in 1 .. 1 : i = 1
      BY <2>4
    <2>7. QED
      BY ONLY <1>2, <2>2, <2>3, <2>4, <2>5, <2>6
  <1>7. CASE kind = "retrieval"
    <2> DEFINE f == [i \in 1 .. n + 1 |->
                       IF i <= n THEN [cmd |-> cmd, item |-> i, type |-> "VALUE"]
                                 ELSE [cmd |-> cmd, item |-> 1, type |-> "END"]]
    <2>1. Expected(c) = Answer(Part(c, 2))
      BY <1>7 DEF Expected
    <2>2. Expected(c) = [i \in 1 .. n + 1 |->
              IF i <= n THEN Packet([Part(c, 2) EXCEPT !.item = i], "VALUE")
                        ELSE Packet(Part(c, 2), "END")]
      BY ONLY <1>3, <1>7, <2>1, AnswerCases
    <2>3. Packet(Part(c, 2), "END") = [cmd |-> cmd, item |-> 1, type |-> "END"]
      BY ONLY <1>3 DEF Packet
    <2>4. \A i \in 1 .. n + 1 : Packet([Part(c, 2) EXCEPT !.item = i], "VALUE")
                          = [cmd |-> cmd, item |-> i, type |-> "VALUE"]
      BY ONLY <1>3 DEF Packet
    <2>5. Expected(c) = f
      BY ONLY <2>2, <2>3, <2>4
    <2>6. f \in [1 .. n + 1 -> Packets]
      BY <1>1 DEF Packets
    <2>7. f \in Seq(Packets) /\ Len(f) = n + 1
      <3>1. n + 1 \in Nat
        OBVIOUS
      <3> HIDE DEF f
      <3>2. QED
        BY <2>6, <3>1, ListedAnswer
    <2>8. AnswerLength(kind, n) = n + 1
      BY <1>7 DEF AnswerLength
    <2>9. ASSUME NEW i \in 1 .. n + 1
          PROVE  f[i] = Due(cmd, kind, n, i)
      <3>1. CASE i <= n
        BY <1>7, <3>1, DueCases
      <3>2. CASE i > n
        BY <1>7, <3>2, DueCases
      <3>3. QED
        BY <3>1, <3>2
    <2> HIDE DEF f
    <2>10. QED
      BY ONLY <1>2, <2>5, <2>7, <2>8, <2>9
  <1>8. QED
    BY <1>1, <1>4, <1>5, <1>6, <1>7, KindCases

LEMMA RightIsExpected ==
  ASSUME TypeInv, NEW c \in Conns, Loaded(conn[c], kind),
         Right(conn[c].got, cmd, kind, conn[c].items)
  PROVE  /\ IsPrefix(conn[c].got, Expected(c))
         /\ Len(conn[c].got) = AnswerLength(kind, conn[c].items) =>
              conn[c].got = Expected(c)
  <1> DEFINE s == conn[c].got
             t == Expected(c)
  <1>1. /\ t \in Seq(Packets) /\ Len(t) = AnswerLength(kind, conn[c].items)
        /\ \A i \in 1 .. AnswerLength(kind, conn[c].items) :
             t[i] = Due(cmd, kind, conn[c].items, i)
    BY ExpectedIs
  <1>2. s \in Seq(Packets)
    BY KindType, Fields
  <1> HIDE DEF s, t
  <1>3. /\ Len(s) <= AnswerLength(kind, conn[c].items)
        /\ \A i \in 1 .. Len(s) : s[i] = Due(cmd, kind, conn[c].items, i)
    BY DEF Right, s
  <1>4. PICK a \in Nat, b \in Nat : Len(s) = a /\ Len(t) = b
    BY <1>1, <1>2, LenProperties
  <1>5. a <= b /\ \A i \in 1 .. a : s[i] = t[i]
    <2>1. a <= b
      BY ONLY <1>1, <1>3, <1>4
    <2>2. ASSUME NEW i \in 1 .. a
          PROVE  s[i] = t[i]
      <3>1. i \in 1 .. b
        BY <2>1
      <3>2. QED
        BY ONLY <1>1, <1>3, <1>4, <2>2, <3>1
    <2>3. QED
      BY <2>1, <2>2
  <1>6. SubSeq(s, 1, a) = SubSeq(t, 1, a)
    <2>1. /\ SubSeq(s, 1, a) \in Seq(Packets) /\ Len(SubSeq(s, 1, a)) = a
          /\ \A i \in 1 .. a : SubSeq(s, 1, a)[i] = s[i]
      <3>1. a \in 0 .. Len(s)
        BY <1>4
      <3>2. QED
        BY <1>2, <3>1, TakenFirst
    <2>2. /\ SubSeq(t, 1, a) \in Seq(Packets) /\ Len(SubSeq(t, 1, a)) = a
          /\ \A i \in 1 .. a : SubSeq(t, 1, a)[i] = t[i]
      <3>1. a \in 0 .. Len(t)
        BY <1>4, <1>5
      <3>2. QED
        BY <1>1, <3>1, TakenFirst
    <2>3. QED
      BY <1>5, <2>1, <2>2, SeqEqual
  <1>7. IsPrefix(s, t)
    BY <1>4, <1>5, <1>6 DEF IsPrefix
  <1>8. Len(s) = AnswerLength(kind, conn[c].items) => s = t
    <2>1. SUFFICES ASSUME a = b PROVE s = t
      BY <1>1, <1>4
    <2>2. QED
      BY <1>1, <1>2, <1>4, <1>5, <2>1, SeqEqual
  <1>9. QED
    BY <1>7, <1>8 DEF s, t

\* What a connection has parsed is the beginning of the answer to the current
\* command, after any number of resends and with whatever was left on the
\* wire by commands that have no answer.
THEOREM PrefixTheorem ==
  ASSUME Survivable
  PROVE  Spec => []ResultsArePrefix
  <1>1. ASSUME IInv
        PROVE  ResultsArePrefix
    <2>1. TypeInv /\ Inv
      BY <1>1 DEF IInv
    <2>2. ASSUME NEW c \in active
          PROVE  IsPrefix(conn[c].got, Expected(c))
      <3>1. c \in Conns /\ Busy(conn[c], peer[c], cmd, kind)
        BY <2>1, KindType DEF Inv, ActiveInv
      <3>2. Loaded(conn[c], kind) /\ Right(conn[c].got, cmd, kind, conn[c].items)
        BY <3>1 DEF Busy
      <3>3. QED
        BY <2>1, <3>1, <3>2, RightIsExpected
    <2>3. QED
      BY <2>2 DEF ResultsArePrefix
  <1>2. QED
    BY <1>1, Invariant, PTL

\* RET_OK is returned exactly when no connection of the command was lost, and
\* then every one of them has sent its whole request and has its whole answer.
THEOREM CompleteTheorem ==
  ASSUME Survivable
  PROVE  Spec => []OkMeansComplete
  <1>1. ASSUME IInv
        PROVE  OkMeansComplete
    <2>1. TypeInv /\ Inv
      BY <1>1 DEF IInv
    <2>2. SUFFICES ASSUME pc = "collect", active # {}
                   PROVE  IF ret = "OK"
                            THEN \A c \in active : /\ conn[c].alive
                                                   /\ ~Unsent(c)
                                                   /\ conn[c].got = Expected(c)
                            ELSE \E c \in active : ~conn[c].alive
      BY DEF OkMeansComplete
    <2>3. /\ Owing = {}
          /\ ret = "OK" <=> \A c \in active : conn[c].alive
      BY <2>1, <2>2 DEF Inv, CollectInv
    <2>4. ASSUME NEW c \in active, conn[c].alive
          PROVE  ~Unsent(c) /\ conn[c].got = Expected(c)
      <3>1. /\ c \in Conns /\ conn[c] \in Connections /\ peer[c] \in Sockets
            /\ kind \in AllKinds /\ Typed(conn[c], peer[c], kind)
            /\ Busy(conn[c], peer[c], cmd, kind) /\ ~Owes(conn[c], kind)
        BY <2>1, <2>3, KindType DEF Inv, ActiveInv, Owing
      <3>2. /\ Len(conn[c].got) = AnswerLength(kind, conn[c].items)
            /\ AllSent(conn[c], kind)
        BY <2>4, <3>1, FinishedRests DEF Typed
      <3>3. Loaded(conn[c], kind) /\ Right(conn[c].got, cmd, kind, conn[c].items)
        BY <3>1 DEF Busy
      <3>4. conn[c].got = Expected(c)
        BY <2>1, <3>1, <3>2, <3>3, RightIsExpected
      <3>5. ~Unsent(c)
        <4>1. conn[c].sent \in Nat
          BY <3>1, Fields
        <4>2. QED
          BY <3>2, <4>1 DEF AllSent, Unsent
      <3>6. QED
        BY <3>4, <3>5
    <2>5. QED
      BY <2>3, <2>4
  <1>2. QED
    BY <1>1, Invariant, PTL

LEMMA PairsAreSilent ==
  ASSUME NEW wire \in Seq(Pieces), Pairs(wire, Len(wire)), NEW i \in 1 .. Len(wire)
  PROVE  Answer(wire[i]) = <<>>
  <1>1. PICK l \in Nat : l = Len(wire)
    BY LenProperties
  <1>2. l % 2 = 0 /\ \A j \in 1 .. l : j % 2 = 1 => Pair(wire[j], wire[j + 1])
    BY ONLY <1>1, Pairs(wire, Len(wire)) DEF Pairs
  <1>3. CASE i % 2 = 1
    <2>1. Pair(wire[i], wire[i + 1])
      BY <1>1, <1>2, <1>3
    <2>2. QED
      BY <2>1, AnswerCases DEF Pair
  <1>4. CASE i % 2 = 0
    <2>1. PICK j \in 1 .. l : j + 1 = i /\ j % 2 = 1
      <3>1. i \in 1 .. l
        BY <1>1
      <3>2. i - 1 \in 1 .. l /\ (i - 1) + 1 = i /\ (i - 1) % 2 = 1
        BY ONLY <3>1, <1>4, l \in Nat
      <3>3. QED
        BY <3>2
    <2>2. Pair(wire[j], wire[j + 1])
      BY <1>2, <2>1
    <2>3. wire[j] \in Pieces
      <3>1. j \in 1 .. Len(wire)
        BY <1>1
      <3>2. QED
        BY <3>1, ElementOfSeq
    <2>4. wire[i].kind \in Silent
      BY <2>1, <2>2, <2>3 DEF Pair, Pieces
    <2>5. QED
      BY <2>4, AnswerCases
  <1>5. QED
    BY <1>1, <1>3, <1>4

\* Between commands a live connection has nothing unread and nothing still
\* to be answered: the next command takes what arrives for its own answer.
THEOREM CleanTheorem ==
  ASSUME Survivable
  PROVE  Spec => []CleanAtReturn
  <1>1. ASSUME IInv
        PROVE  CleanAtReturn
    <2>1. TypeInv /\ Inv
      BY <1>1 DEF IInv
    <2>2. ASSUME pc # "poll", NEW c \in Conns, conn[c].alive
          PROVE  /\ peer[c].replies = <<>>
                 /\ Len(peer[c].wire) % 2 = 0
                 /\ \A i \in DOMAIN peer[c].wire : Answer(peer[c].wire[i]) = <<>>
      <3>1. /\ conn[c] \in Connections /\ peer[c] \in Sockets /\ kind \in AllKinds
            /\ Typed(conn[c], peer[c], kind)
        BY <2>1, KindType
      <3>2. Rest(peer[c])
        <4>1. CASE c \in active
          <5>1. pc = "collect"
            BY <2>1, <2>2, <4>1 DEF TypeInv
          <5>2. Busy(conn[c], peer[c], cmd, kind) /\ ~Owes(conn[c], kind)
            BY <2>1, <4>1, <5>1 DEF Inv, ActiveInv, CollectInv, Owing
          <5>3. QED
            BY <2>2, <3>1, <5>2, FinishedRests DEF Typed
        <4>2. CASE c \notin active
          BY <2>1, <2>2, <4>2 DEF Inv, RestInv
        <4>3. QED
          BY <4>1, <4>2
      <3>3. peer[c].wire \in Seq(Pieces) /\ DOMAIN peer[c].wire = 1 .. Len(peer[c].wire)
        <4>1. peer[c].wire \in Seq(Pieces)
          BY <3>1, Lengths
        <4>2. QED
          BY <4>1, LenProperties
      <3>4. Pairs(peer[c].wire, Len(peer[c].wire)) /\ peer[c].replies = <<>>
        BY <3>2 DEF Rest
      <3>5. Len(peer[c].wire) % 2 = 0
        BY <3>4 DEF Pairs
      <3>6. QED
        BY <3>3, <3>4, <3>5, PairsAreSilent
    <2>3. QED
      BY <2>2 DEF CleanAtReturn
  <1>2. QED
    BY <1>1, Invariant, PTL

\* Serving a connection sends less of its request only by a counted retry.
SendsOn(c) ==
    /\ \A d \in Conns : d # c => conn'[d] = conn[d]
    /\ \/ conn'[c].sent >= conn[c].sent
       \/ conn'[c].retires = conn[c].retires + 1 /\ conn'[c].retires <= MaxRetries

LEMMA ServeSends ==
  ASSUME TypeInv, Inv, NEW c \in Conns, Serve(c)
  PROVE  /\ pc = "poll" /\ c \in active /\ Owes(conn[c], kind)
         /\ SendsOn(c)
  <1>1. Turn(c)
    BY DEF Serve, HandleHup, PeekClosed, PeekData, SendFails, Send, RecvFails, Recv,
           Peeking, Sending, Receiving
  <1>2. pc = "poll" /\ c \in active /\ Owes(conn[c], kind)
    BY <1>1, TurnFacts
  <1> SUFFICES SendsOn(c)
    BY <1>2
  <1>3. conn \in [Conns -> Connections] /\ conn[c] \in Connections /\ conn[c].sent \in Nat
    <2>1. conn \in [Conns -> Connections]
      BY DEF TypeInv
    <2>2. QED
      BY <2>1, Fields
  <1>4. ASSUME NEW k \in Connections, NEW p, Local(c, k, p),
               \/ k.sent >= conn[c].sent
               \/ k.retires = conn[c].retires + 1 /\ k.retires <= MaxRetries
        PROVE  SendsOn(c)
    <2>1. conn'[c] = k /\ \A d \in Conns : d # c => conn'[d] = conn[d]
      BY <1>3, <1>4 DEF Local
    <2>2. QED
      BY <1>4, <2>1 DEF SendsOn
  <1>5. ASSUME NEW k \in Connections, NEW err, GiveUp(c, k, err), k.sent = conn[c].sent
        PROVE  SendsOn(c)
    <2>1. conn' = [conn EXCEPT ![c] = [k EXCEPT !.events = {}, !.revents = {}]]
      BY <1>5 DEF GiveUp
    <2>2. [k EXCEPT !.events = {}, !.revents = {}].sent = conn[c].sent
      BY <1>5 DEF Connections
    <2>3. conn'[c].sent = conn[c].sent /\ \A d \in Conns : d # c => conn'[d] = conn[d]
      BY <1>3, <2>1, <2>2
    <2>4. QED
      BY <1>3, <2>3 DEF SendsOn
  <1>6. ASSUME NEW err, RetryOrGiveUp(c, err)
        PROVE  SendsOn(c)
    <2>1. CASE Retried(c)
      BY <1>4, <2>1 DEF Retried, Fresh
    <2>2. CASE Lost(c, err)
      BY <1>5, <2>2 DEF Lost, Same
    <2>3. QED
      BY <1>6, <2>1, <2>2, RetryShape
  <1>7. CASE HandleHup(c) \/ SendFails(c) \/ RecvFails(c)
    BY <1>6, <1>7 DEF HandleHup, SendFails, RecvFails
  <1>8. CASE PeekClosed(c)
    <2>1. ASSUME NEW k \in Connections, Reopened(c, k)
          PROVE  SendsOn(c)
      <3>1. k.sent = conn[c].sent /\ Local(c, k, NewSocket)
        BY <2>1 DEF Reopened, Same
      <3>2. k.sent >= conn[c].sent
        BY <1>3, <3>1
      <3>3. QED
        BY <1>4, <3>1, <3>2
    <2>2. ASSUME Closed(c)
          PROVE  SendsOn(c)
      BY <1>5, <2>2 DEF Closed, Same
    <2>3. QED
      BY <1>8, <2>1, <2>2, PeekClosedShape
  <1>9. CASE PeekData(c)
    <2>1. PICK k \in Connections : Peeked(c, k)
      BY <1>9, PeekDataShape
    <2>2. k.sent = conn[c].sent /\ Local(c, k, peer[c])
      BY <2>1 DEF Peeked
    <2>3. k.sent >= conn[c].sent
      BY <1>3, <2>2
    <2>4. QED
      BY <1>4, <2>2, <2>3
  <1>10. CASE Send(c)
    <2>1. PICK n \in 1 .. Parts(kind, conn[c].items) - conn[c].sent,
             k \in Connections, p \in Sockets : Sent(c, n, k, p)
      BY <1>10, SendShape
    <2>2. k.sent = conn[c].sent + n /\ Local(c, k, p)
      BY <2>1 DEF Sent
    <2>3. k.sent >= conn[c].sent
      BY <1>3, <2>2, KindType, Fields, PartsType
    <2>4. QED
      BY <1>4, <2>2, <2>3
  <1>11. CASE Recv(c)
    <2>1. PICK n \in 1 .. Len(peer[c].replies) : \E s \in 0 .. n :
           /\ StopsAt(c, n, s)
           /\ \/ Refusal(c, s)
              \/ \E k \in Connections, p \in Sockets : Received(c, n, s, k, p)
      BY <1>11, RecvShape
    <2>2. PICK s \in 0 .. n :
              \/ Refusal(c, s)
              \/ \E k \in Connections, p \in Sockets : Received(c, n, s, k, p)
      BY <2>1
    <2>3. CASE Refusal(c, s)
      BY <1>5, <2>3 DEF Refusal, Same
    <2>4. ASSUME NEW k \in Connections, NEW p \in Sockets, Received(c, n, s, k, p)
          PROVE  SendsOn(c)
      <3>1. k.sent = conn[c].sent /\ Local(c, k, p)
        BY <2>4 DEF Received
      <3>2. k.sent >= conn[c].sent
        BY <1>3, <3>1
      <3>3. QED
        BY <1>4, <3>1, <3>2
    <2>5. QED
      BY <2>2, <2>3, <2>4
  <1>12. QED
    BY <1>7, <1>8, <1>9, <1>10, <1>11 DEF Serve

\* A request that has begun to go out is begun again only by a connection
\* that still has something to do, and by spending one of its retries.
THEOREM RetryTheorem ==
  ASSUME Survivable
  PROVE  Spec => ResendCostsRetry
  <1> DEFINE Resend ==
        \A c \in Conns :
          /\ pc = "poll" /\ pc' = "poll"
          /\ conn[c].sent > 0 /\ conn'[c].sent < conn[c].sent
          => /\ Pending(c)
             /\ conn'[c].retires = conn[c].retires + 1
             /\ conn'[c].retires <= MaxRetries
  <1>1. ASSUME IInv, [Next]_vars
        PROVE  Resend
    <2>1. SUFFICES ASSUME NEW c \in Conns, pc = "poll", pc' = "poll",
                          conn'[c].sent < conn[c].sent
                   PROVE  /\ Pending(c)
                          /\ conn'[c].retires = conn[c].retires + 1
                          /\ conn'[c].retires <= MaxRetries
      OBVIOUS
    <2>2. TypeInv /\ Inv
      BY <1>1 DEF IInv
    <2>3. conn[c] \in Connections /\ conn[c].sent \in Nat
      <3>1. conn[c] \in Connections
        BY <2>2, KindType
      <3>2. QED
        BY <3>1, Fields
    <2>4. conn'[c] # conn[c]
      <3>1. SUFFICES ASSUME conn'[c] = conn[c] PROVE FALSE
        OBVIOUS
      <3>2. conn[c].sent < conn[c].sent
        BY <2>1, <3>1
      <3>3. QED
        BY <2>3, <3>2
    <2>5. CASE UNCHANGED vars
      BY <2>4, <2>5 DEF vars
    <2>6. CASE Dispatch \/ UpdateServers \/ Environment
      BY <2>1, <2>4, <2>6 DEF Dispatch, UpdateServers, Environment, ServerAnswers,
         ServerRefuses, PeerCloses, PeerResets, BackoffEnds
    <2>7. CASE PollTimeout \/ PollError \/ Return \/ Collect
      BY <2>1, <2>7 DEF PollTimeout, PollError, Return, Collect
    <2>8. CASE Poll
      <3>1. conn'[c] = IF c \in active THEN [conn[c] EXCEPT !.revents = Revents(c)]
                                       ELSE conn[c]
        BY <2>8 DEF Poll
      <3>2. conn'[c].sent = conn[c].sent
        BY <2>3, <3>1 DEF Connections
      <3>3. conn[c].sent < conn[c].sent
        BY <2>1, <3>2
      <3>4. QED
        BY <2>3, <3>3
    <2>9. ASSUME NEW d \in Conns, Serve(d)
          PROVE  /\ Pending(c)
                 /\ conn'[c].retires = conn[c].retires + 1
                 /\ conn'[c].retires <= MaxRetries
      <3>1. /\ d \in active /\ Owes(conn[d], kind)
            /\ \A e \in Conns : e # d => conn'[e] = conn[e]
            /\ \/ conn'[d].sent >= conn[d].sent
               \/ conn'[d].retires = conn[d].retires + 1 /\ conn'[d].retires <= MaxRetries
        BY <2>2, <2>9, ServeSends DEF SendsOn
      <3>2. c = d
        BY <2>4, <3>1
      <3>3. conn'[c] \in Connections
        <4>1. TypeInv'
          BY <2>2, <2>9, ServeTypes
        <4>2. QED
          BY <4>1 DEF TypeInv
      <3>4. ~(conn'[c].sent >= conn[c].sent)
        <4>1. conn'[c].sent \in Nat
          BY <3>3, Fields
        <4>2. QED
          BY <2>1, <2>3, <4>1
      <3>5. Pending(c)
        BY <2>2, <3>1, <3>2, OwesIsPending
      <3>6. QED
        BY <3>1, <3>2, <3>4, <3>5
    <2>10. QED
      BY <1>1, <2>5, <2>6, <2>7, <2>8, <2>9 DEF Next, ClientStep
  <1>2. IInv /\ [Next]_vars => [Resend]_vars
    BY <1>1
  <1>3. QED
    BY <1>2, Invariant, PTL DEF Spec, ResendCostsRetry

=============================================================================
