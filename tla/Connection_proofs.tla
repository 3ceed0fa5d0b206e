-------------------------- MODULE Connection_proofs --------------------------
(***************************************************************************)
(* A Connection, for any conversations, addresses, polls and block sizes:  *)
(* no descriptor of a TCP connection is lost or closed twice, whatever     *)
(* fails; the references of the blocks are exact; a request arrives whole  *)
(* and in order, however it is cut and begun again; and the parser is      *)
(* always where in the answer the bytes are that it has not read.          *)
(***************************************************************************)
EXTENDS Connection, PacketParser_proofs

Progress == [address : Nat, fd : Fds \cup {NoFd}, polls : 0 .. ConnectPolls - 1,
             for : {"idle", "rewind", "resend"}]

SocketTypes ==
    /\ pc \in {"idle", "polling", "connecting", "done"}
    /\ fd \in Fds \cup {NoFd} /\ open \subseteq Fds
    /\ alive \in BOOLEAN /\ unix \in BOOLEAN
    /\ connect \in Progress
    /\ connect.address <= Candidates + 1

\* A command is on a socket, or connect() is getting it another.
Stages ==
    /\ pc = "polling" => alive
    /\ pc = "connecting" => ~alive
    /\ pc # "connecting" => connect.fd = NoFd
    /\ connect.fd # NoFd => connect.address <= Candidates

\* A dead connection knows no descriptor.
Descriptors ==
    /\ alive <=> fd # NoFd
    /\ fd # NoFd => fd \in open
    /\ connect.fd # NoFd => connect.fd \in open
    /\ ~unix => open \subseteq {fd, connect.fd}

IInv == SocketTypes /\ Stages /\ Descriptors

socketVars == <<pc, fd, alive, unix, connect, open>>

-----------------------------------------------------------------------------
LEMMA CandidatesType ==
  Candidates \in Nat
  BY ConnectionAssumption DEF Candidates

Begun(what) == [NotConnecting EXCEPT !.address = 1, !.for = what]

LEMMA NoFdFree == NoFd \notin Fds
  BY ConnectionAssumption DEF NoFd

LEMMA NotConnectingType ==
  NotConnecting \in Progress /\ NotConnecting.fd = NoFd
  /\ NotConnecting.address = 0
  <1>1. 0 \in 0 .. ConnectPolls - 1
    BY ConnectionAssumption
  <1>2. QED
    BY <1>1 DEF Progress, NotConnecting

LEMMA BegunType ==
  ASSUME NEW what \in {"idle", "rewind", "resend"}
  PROVE  Begun(what) \in Progress /\ Begun(what).fd = NoFd
         /\ Begun(what).address = 1
  BY NotConnectingType DEF Begun, Progress

LEMMA InitInvariant == Init => IInv
  <1> SUFFICES ASSUME Init PROVE IInv
    OBVIOUS
  <1>1. pc = "idle" /\ fd = NoFd /\ alive = FALSE /\ unix \in BOOLEAN
        /\ connect = NotConnecting /\ open = {}
    BY DEF Init
  <1>2. connect \in Progress /\ connect.fd = NoFd /\ connect.address = 0
    BY <1>1, NotConnectingType
  <1>3. SocketTypes
    <2>1. connect.address <= Candidates + 1
      BY <1>2, CandidatesType
    <2>2. QED
      BY <1>1, <1>2, <2>1 DEF SocketTypes
  <1>4. Stages /\ Descriptors
    BY <1>1, <1>2 DEF Stages, Descriptors
  <1>5. QED
    BY <1>3, <1>4 DEF IInv

LEMMA Quiet ==
  ASSUME IInv, UNCHANGED socketVars
  PROVE  IInv'
  BY DEF IInv, SocketTypes, Stages, Descriptors, socketVars, Candidates

\* The socket is closed, and another is connected or not.
LEMMA ReconnectInvariant ==
  ASSUME IInv, pc = "polling", NEW what \in {"rewind", "resend"},
         Reconnect(what), unix' = unix
  PROVE  IInv'
  <1>1. /\ open' = open \ {fd} /\ fd' = NoFd /\ alive' = FALSE
        /\ connect.fd = NoFd /\ fd \in Fds
    BY DEF Reconnect, IInv, SocketTypes, Stages, Descriptors
  <1>2. \/ /\ pc' = "connecting"
           /\ connect' = Begun(what)
        \/ pc' = "done" /\ connect' = connect
    BY DEF Reconnect, Begun
  <1>3. connect' \in Progress /\ connect'.fd = NoFd
        /\ connect'.address <= Candidates + 1
    BY <1>1, <1>2, BegunType, CandidatesType DEF IInv, SocketTypes
  <1>4. SocketTypes'
    BY <1>1, <1>2, <1>3 DEF IInv, SocketTypes, Candidates
  <1>5. Stages'
    BY <1>1, <1>2, <1>3 DEF Stages
  <1>6. Descriptors'
    BY <1>1, <1>3 DEF IInv, Descriptors
  <1>7. QED
    BY <1>4, <1>5, <1>6 DEF IInv

\* The socket is closed, and the command ends.
LEMMA ClosedInvariant ==
  ASSUME IInv, pc = "polling", pc' = "done", fd' = NoFd, alive' = FALSE,
         open' = open \ {fd}, UNCHANGED <<unix, connect>>
  PROVE  IInv'
  <1>1. connect.fd = NoFd
    BY DEF IInv, Stages
  <1>2. SocketTypes'
    BY DEF IInv, SocketTypes, Candidates
  <1>3. QED
    BY <1>1, <1>2 DEF IInv, Stages, Descriptors, Candidates

\* connect() is done with f, the only descriptor it had.
LEMMA EstablishedInvariant ==
  ASSUME IInv, pc = "connecting", NEW f \in Fds, Established(f),
         ~unix => open \subseteq {f}
  PROVE  IInv'
  <1>1. /\ fd' = f /\ alive' = TRUE /\ open' = open \cup {f} /\ unix' = unix
        /\ connect' = NotConnecting /\ pc' \in {"idle", "polling"}
    BY DEF Established
  <1>2. /\ f # NoFd /\ connect' \in Progress /\ connect'.fd = NoFd
        /\ connect'.address <= Candidates + 1
    BY <1>1, NotConnectingType, NoFdFree, CandidatesType
  <1>3. SocketTypes'
    BY <1>1, <1>2 DEF IInv, SocketTypes, Candidates
  <1>4. QED
    BY <1>1, <1>2, <1>3 DEF IInv, Stages, Descriptors, Candidates

\* A TCP socket that does not do is closed.
LEMMA NotEstablishedInvariant ==
  ASSUME IInv, Connecting, NEW f \in Fds \cup {NoFd}, NEW closed \in BOOLEAN,
         NotEstablished(f, closed), f = NoFd => closed,
         ~unix => closed /\ open \subseteq {f}
  PROVE  IInv'
  <1>1. /\ open' = IF closed THEN open \ {f} ELSE open \cup {f}
        /\ connect' = [connect EXCEPT !.address = @ + 1, !.fd = NoFd,
                                      !.polls = 0]
        /\ UNCHANGED <<pc, fd, alive, unix>>
    BY DEF NotEstablished
  <1>2. /\ pc = "connecting" /\ ~alive /\ fd = NoFd
        /\ connect \in Progress /\ connect.address <= Candidates
    BY DEF Connecting, IInv, Stages, Descriptors, SocketTypes
  <1>3. /\ connect' \in Progress /\ connect'.fd = NoFd
        /\ connect'.address <= Candidates + 1
    <2>1. connect.address + 1 \in Nat /\ 0 \in 0 .. ConnectPolls - 1
          /\ connect.address + 1 <= Candidates + 1
      BY <1>2, CandidatesType, ConnectionAssumption DEF Progress
    <2>2. QED
      BY <1>1, <1>2, <2>1 DEF Progress
  <1>4. open' \subseteq Fds
    BY <1>1 DEF IInv, SocketTypes
  <1>5. SocketTypes'
    BY <1>1, <1>3, <1>4 DEF IInv, SocketTypes, Candidates
  <1>6. QED
    BY <1>1, <1>2, <1>3, <1>5 DEF IInv, Stages, Descriptors, Candidates

\* The lowest free descriptor is taken, connected, refused or waited for.
LEMMA ConnectSocketInvariant ==
  ASSUME IInv, ConnectSocket
  PROVE  IInv'
  <1> DEFINE f == Min(Fds \ open)
  <1>1. f \in Fds /\ f \notin open
    <2>1. Fds \ open \in SUBSET Nat /\ Fds \ open # {}
      BY ConnectionAssumption DEF ConnectSocket
    <2>2. QED
      BY <2>1, Least
  <1>2. /\ Connecting /\ connect.fd = NoFd
        /\ \/ Established(f)
           \/ NotEstablished(f, ~unix)
           \/ /\ open' = open \cup {f}
              /\ connect' = [connect EXCEPT !.fd = f]
              /\ UNCHANGED <<pc, fd, alive, unix>>
    BY DEF ConnectSocket
  <1> HIDE DEF f
  <1>3. /\ pc = "connecting" /\ ~alive /\ fd = NoFd /\ unix \in BOOLEAN
        /\ connect \in Progress /\ f # NoFd
        /\ ~unix => open = {}
    BY <1>1, <1>2, NoFdFree
    DEF Connecting, IInv, Stages, Descriptors, SocketTypes
  <1>4. CASE Established(f)
    BY <1>1, <1>3, <1>4, EstablishedInvariant
  <1>5. CASE NotEstablished(f, ~unix)
    <2>1. CASE unix
      <3>1. NotEstablished(f, FALSE)
        BY <1>5, <2>1
      <3>2. QED
        BY <1>1, <1>2, <1>3, <2>1, <3>1, NotEstablishedInvariant
    <2>2. CASE ~unix
      <3>1. NotEstablished(f, TRUE)
        BY <1>5, <2>2
      <3>2. QED
        BY <1>1, <1>2, <1>3, <2>2, <3>1, NotEstablishedInvariant
    <2>3. QED
      BY <2>1, <2>2
  <1>6. CASE /\ open' = open \cup {f}
             /\ connect' = [connect EXCEPT !.fd = f]
             /\ UNCHANGED <<pc, fd, alive, unix>>
    <2>1. /\ connect' \in Progress /\ connect'.fd = f
          /\ connect'.address = connect.address
      BY <1>1, <1>3, <1>6 DEF Progress
    <2>2. SocketTypes'
      BY <1>1, <1>6, <2>1 DEF IInv, SocketTypes, Candidates
    <2>3. QED
      BY <1>2, <1>3, <1>6, <2>1, <2>2
      DEF IInv, Stages, Descriptors, Candidates, Connecting
  <1>7. QED
    BY <1>2, <1>4, <1>5, <1>6

LEMMA PollConnectInvariant ==
  ASSUME IInv, PollConnect
  PROVE  IInv'
  <1> DEFINE f == connect.fd
  <1>1. /\ Connecting /\ f # NoFd
        /\ \/ Established(f)
           \/ NotEstablished(f, ~unix)
           \/ /\ connect.polls + 1 < ConnectPolls
              /\ connect' = [connect EXCEPT !.polls = connect.polls + 1]
              /\ UNCHANGED <<pc, fd, alive, unix, open>>
    BY DEF PollConnect
  <1>2. /\ pc = "connecting" /\ ~alive /\ fd = NoFd /\ unix \in BOOLEAN
        /\ connect \in Progress /\ f \in Fds /\ f \in open
        /\ ~unix => open \subseteq {f}
    BY <1>1, NoFdFree
    DEF Connecting, IInv, Stages, Descriptors, SocketTypes, Progress
  <1> HIDE DEF f
  <1>3. CASE Established(f)
    BY <1>2, <1>3, EstablishedInvariant
  <1>4. CASE NotEstablished(f, ~unix)
    <2>1. CASE unix
      <3>1. NotEstablished(f, FALSE)
        BY <1>4, <2>1
      <3>2. QED
        BY <1>1, <1>2, <2>1, <3>1, NotEstablishedInvariant
    <2>2. CASE ~unix
      <3>1. NotEstablished(f, TRUE)
        BY <1>4, <2>2
      <3>2. QED
        BY <1>1, <1>2, <2>2, <3>1, NotEstablishedInvariant
    <2>3. QED
      BY <2>1, <2>2
  <1>5. CASE /\ connect.polls + 1 < ConnectPolls
             /\ connect' = [connect EXCEPT !.polls = connect.polls + 1]
             /\ UNCHANGED <<pc, fd, alive, unix, open>>
    <2>1. /\ connect' \in Progress /\ connect'.fd = connect.fd
          /\ connect'.address = connect.address
      BY <1>2, <1>5, ConnectionAssumption DEF Progress
    <2>2. SocketTypes'
      BY <1>5, <2>1 DEF IInv, SocketTypes, Candidates
    <2>3. QED
      BY <1>5, <2>1, <2>2 DEF IInv, Stages, Descriptors, Candidates
  <1>6. QED
    BY <1>1, <1>3, <1>4, <1>5

LEMMA StepInvariant == IInv /\ [Next]_vars => IInv'
  <1> SUFFICES ASSUME IInv, [Next]_vars PROVE IInv'
    OBVIOUS
  <1>1. CASE NoUsableSocket
    <2>1. Connecting /\ connect.fd = NoFd /\ NotEstablished(NoFd, TRUE)
      BY <1>1 DEF NoUsableSocket
    <2>2. ~unix => open \subseteq {NoFd}
      BY <2>1 DEF Connecting, IInv, Stages, Descriptors
    <2>3. QED
      BY <2>1, <2>2, NotEstablishedInvariant
  <1>2. CASE ConnectSocket
    BY <1>2, ConnectSocketInvariant
  <1>3. CASE PollConnect
    BY <1>3, PollConnectInvariant
  <1>4. CASE ConnectFails
    <2>1. /\ pc = "connecting" /\ pc' \in {"idle", "done"}
          /\ connect' = NotConnecting
          /\ UNCHANGED <<fd, alive, unix, open>>
          /\ connect.address > Candidates
      BY <1>4 DEF ConnectFails
    <2>2. /\ connect' \in Progress /\ connect'.fd = NoFd
          /\ connect'.address <= Candidates + 1
      BY <2>1, NotConnectingType, CandidatesType
    <2>3. SocketTypes'
      BY <2>1, <2>2 DEF IInv, SocketTypes, Candidates
    <2>4. connect.fd = NoFd
      <3>1. ~ (connect.address <= Candidates)
        BY <2>1, CandidatesType DEF IInv, SocketTypes, Progress
      <3>2. QED
        BY <3>1 DEF IInv, Stages
    <2>5. Stages' /\ Descriptors'
      BY <2>1, <2>2, <2>4 DEF IInv, Stages, Descriptors, Candidates
    <2>6. QED
      BY <2>3, <2>5 DEF IInv
  <1>5. CASE Select
    <2>1. /\ pc = "idle" /\ ~alive /\ pc' = "connecting"
          /\ connect' = [NotConnecting EXCEPT !.address = 1]
          /\ UNCHANGED <<fd, alive, unix, open>>
      BY <1>5 DEF Select
    <2>2. /\ connect' \in Progress /\ connect'.fd = NoFd
          /\ connect'.address = 1
      BY <2>1, NotConnectingType DEF Progress
    <2>3. connect'.address <= Candidates + 1 /\ connect.fd = NoFd
      BY <2>1, <2>2, CandidatesType DEF IInv, Stages
    <2>4. QED
      BY <2>1, <2>2, <2>3 DEF IInv, SocketTypes, Stages, Descriptors, Candidates
  <1>6. CASE Send \/ Recv \/ ServerAnswers \/ ServerCloses \/ Process
             \/ UNCHANGED vars
    <2>1. UNCHANGED socketVars
      BY <1>6 DEF Send, Recv, ServerAnswers, ServerCloses, Process,
                  vars, connectionVars, socketVars
    <2>2. QED
      BY <2>1, Quiet
  <1>7. CASE SendFails \/ RecvFails
    <2>1. pc = "polling" /\ Reconnect("rewind") /\ unix' = unix
      BY <1>7 DEF SendFails, RecvFails, Waiting
    <2>2. QED
      BY <2>1, ReconnectInvariant
  <1>8. CASE PeekFails
    <2>1. pc = "polling" /\ Reconnect("resend") /\ unix' = unix
      BY <1>8 DEF PeekFails, Waiting
    <2>2. QED
      BY <2>1, ReconnectInvariant
  <1>9. CASE Dispatch
    <2>1. /\ pc = "idle" /\ alive /\ pc' = "polling"
          /\ UNCHANGED <<fd, alive, unix, connect, open>>
      BY <1>9 DEF Dispatch
    <2>2. QED
      BY <2>1 DEF IInv, SocketTypes, Stages, Descriptors, Candidates
  <1>10. CASE Finish \/ GiveUp
    <2>1. /\ pc = "polling" /\ pc' = "done" /\ UNCHANGED <<unix, connect>>
          /\ \/ UNCHANGED <<fd, alive, open>>
             \/ fd' = NoFd /\ alive' = FALSE /\ open' = open \ {fd}
      BY <1>10 DEF Finish, GiveUp, Waiting
    <2>2. CASE UNCHANGED <<fd, alive, open>>
      BY <2>1, <2>2 DEF IInv, SocketTypes, Stages, Descriptors, Candidates
    <2>3. CASE fd' = NoFd /\ alive' = FALSE /\ open' = open \ {fd}
      BY <2>1, <2>3, ClosedInvariant
    <2>4. QED
      BY <2>1, <2>2, <2>3
  <1>11. CASE Reset
    <2>1. /\ pc = "done" /\ pc' = "idle"
          /\ UNCHANGED <<fd, alive, unix, connect, open>>
      BY <1>11 DEF Reset
    <2>2. QED
      BY <2>1 DEF IInv, SocketTypes, Stages, Descriptors, Candidates
  <1>12. QED
    BY <1>1, <1>2, <1>3, <1>4, <1>5, <1>6, <1>7, <1>8, <1>9, <1>10, <1>11
    DEF Next, ClientStep

-----------------------------------------------------------------------------
\* The invariant of the socket.
THEOREM Invariant == Spec => []IInv
  BY InitInvariant, StepInvariant, PTL DEF Spec

\* A connection that is alive has its socket open, and a TCP connection has
\* no other descriptor open, whatever fails in connect() or after it.
THEOREM OneSocketTheorem == Spec => []OneSocket
  <1>1. IInv => OneSocket
    BY NoFdFree DEF IInv, SocketTypes, Stages, Descriptors, OneSocket
  <1>2. QED
    BY <1>1, Invariant, PTL

-----------------------------------------------------------------------------
(* The blocks that results hold.                                           *)

\* The tokens of some values.
TokensIn(values) == [i \in DOMAIN values |-> values[i].key \o values[i].data]
KeptBy(values) == FlattenSeq(TokensIn(values))

LEMMA TokensType ==
  ASSUME NEW s \in Seq(Retrieval)
  PROVE  /\ TokensIn(s) \in Seq(Seq(Slice)) /\ Len(TokensIn(s)) = Len(s)
         /\ KeptBy(s) \in Seq(Slice)
  <1>1. \A i \in 1 .. Len(s) : s[i].key \o s[i].data \in Seq(Slice)
    <2>1. SUFFICES ASSUME NEW i \in 1 .. Len(s) PROVE s[i].key \o s[i].data \in Seq(Slice)
      OBVIOUS
    <2>2. PICK x \in Seq(Slice), y \in Seq(Slice) : x = s[i].key /\ y = s[i].data
      <3>1. s[i] \in Retrieval
        OBVIOUS
      <3>2. QED
        BY <3>1 DEF Retrieval
    <2>3. x \o y \in Seq(Slice)
      BY HeldJoin
    <2>4. QED
      BY <2>2, <2>3
  <1>2. TokensIn(s) \in [1 .. Len(s) -> Seq(Slice)]
    BY <1>1 DEF TokensIn
  <1>3. TokensIn(s) \in Seq(Seq(Slice)) /\ Len(TokensIn(s)) = Len(s)
    BY <1>2, SeqMade, SMTT(20)
  <1>4. QED
    BY <1>3, FlattenType DEF KeptBy

LEMMA TokensAppend ==
  ASSUME NEW s \in Seq(Retrieval), NEW kv \in Retrieval
  PROVE  /\ kv.key \in Seq(Slice) /\ kv.data \in Seq(Slice)
         /\ KeptBy(Append(s, kv)) = KeptBy(s) \o (kv.key \o kv.data)
  <1>1. PICK n \in Nat : n = Len(s)
    OBVIOUS
  <1>2. PICK p \in Seq(Seq(Slice)) : p = TokensIn(s) /\ Len(p) = n
    BY <1>1, TokensType
  <1>3. PICK x \in Seq(Slice) : x = kv.key \o kv.data
    <2>1. kv.key \o kv.data \in Seq(Slice)
      BY HeldJoin DEF Retrieval
    <2>2. QED
      BY <2>1
  <1>4. PICK z \in Seq(Retrieval) : /\ z = Append(s, kv) /\ Len(z) = n + 1 /\ z[n + 1] = kv
                                    /\ \A i \in 1 .. n : z[i] = s[i]
    <2>1. PICK z \in Seq(Retrieval) : Extended(z, s, kv, Len(s))
      BY AppendParts
    <2>2. QED
      BY <1>1, <2>1, Zenon DEF Extended
  <1>5. PICK q \in Seq(Seq(Slice)) : q = TokensIn(z) /\ Len(q) = n + 1
    BY <1>4, TokensType
  <1>6. PICK a \in Seq(Seq(Slice)) : /\ a = Append(p, x) /\ Len(a) = n + 1 /\ a[n + 1] = x
                                     /\ \A i \in 1 .. n : a[i] = p[i]
    <2>1. PICK a \in Seq(Seq(Slice)) : Extended(a, p, x, Len(p))
      BY AppendParts
    <2>2. QED
      BY <1>2, <2>1, Zenon DEF Extended
  <1>7. \A i \in 1 .. n + 1 : q[i] = z[i].key \o z[i].data
    <2>1. DOMAIN z = 1 .. n + 1
      BY <1>4
    <2>2. q = [i \in 1 .. n + 1 |-> z[i].key \o z[i].data]
      BY <1>5, <2>1, Zenon DEF TokensIn
    <2>3. QED
      BY <2>2
  <1>8. \A i \in 1 .. n : p[i] = s[i].key \o s[i].data
    <2>1. DOMAIN s = 1 .. n
      BY <1>1
    <2>2. p = [i \in 1 .. n |-> s[i].key \o s[i].data]
      BY <1>2, <2>1, Zenon DEF TokensIn
    <2>3. QED
      BY <2>2
  <1>9. \A i \in 1 .. n + 1 : q[i] = a[i]
    <2>1. SUFFICES ASSUME NEW i \in 1 .. n + 1 PROVE q[i] = a[i]
      OBVIOUS
    <2>2. CASE i = n + 1
      BY <1>3, <1>4, <1>6, <1>7, <2>2
    <2>3. CASE i # n + 1
      <3>1. i \in 1 .. n
        BY <2>3
      <3>2. QED
        BY <1>4, <1>6, <1>7, <1>8, <3>1
    <2>4. QED
      BY <2>2, <2>3
  <1>10. q = a
    BY <1>5, <1>6, <1>9, SeqEqual
  <1>11. FlattenSeq(a) = FlattenSeq(p) \o x
    BY <1>6, FlattenAppend
  <1>12. kv.key \in Seq(Slice) /\ kv.data \in Seq(Slice)
    BY DEF Retrieval
  <1>13. QED
    BY <1>2, <1>3, <1>4, <1>5, <1>10, <1>11, <1>12, Zenon DEF KeptBy

LEMMA KeptHeld ==
  ASSUME NEW s \in Seq(Retrieval), NEW kv \in Retrieval, NEW b
  PROVE  /\ HeldIn(b, KeptBy(s)) \in Nat /\ HeldIn(b, kv.key) \in Nat /\ HeldIn(b, kv.data) \in Nat
         /\ HeldIn(b, KeptBy(Append(s, kv)))
              = HeldIn(b, KeptBy(s)) + (HeldIn(b, kv.key) + HeldIn(b, kv.data))
  <1>1. /\ kv.key \in Seq(Slice) /\ kv.data \in Seq(Slice) /\ KeptBy(s) \in Seq(Slice)
        /\ KeptBy(Append(s, kv)) = KeptBy(s) \o (kv.key \o kv.data)
    BY TokensType, TokensAppend
  <1>2. /\ kv.key \o kv.data \in Seq(Slice)
        /\ HeldIn(b, kv.key \o kv.data) = HeldIn(b, kv.key) + HeldIn(b, kv.data)
    BY <1>1, HeldJoin
  <1>3. HeldIn(b, KeptBy(s) \o (kv.key \o kv.data)) = HeldIn(b, KeptBy(s)) + HeldIn(b, kv.key \o kv.data)
    BY <1>1, <1>2, HeldJoin
  <1>4. HeldIn(b, KeptBy(s)) \in Nat /\ HeldIn(b, kv.key) \in Nat /\ HeldIn(b, kv.data) \in Nat
    BY <1>1, HeldType
  <1>5. QED
    BY <1>1, <1>2, <1>3, <1>4, Zenon

LEMMA ResultsHeld ==
  ASSUME NEW rs, ResultsOK(rs), NEW b
  PROVE  /\ TokensOf(rs) \in Seq(Slice)
         /\ HeldIn(b, KeptBy(rs.retrieval)) \in Nat /\ HeldIn(b, FlattenSeq(rs.line)) \in Nat
         /\ HeldIn(b, TokensOf(rs))
              = HeldIn(b, KeptBy(rs.retrieval)) + HeldIn(b, FlattenSeq(rs.line))
  <1>1. rs.retrieval \in Seq(Retrieval) /\ rs.line \in Seq(Seq(Slice))
    BY DEF ResultsOK
  <1>2. KeptBy(rs.retrieval) \in Seq(Slice) /\ FlattenSeq(rs.line) \in Seq(Slice)
    BY <1>1, TokensType, FlattenType
  <1>3. TokensOf(rs) = KeptBy(rs.retrieval) \o FlattenSeq(rs.line)
    BY DEF TokensOf, KeptBy, TokensIn
  <1>4. QED
    BY <1>2, <1>3, HeldJoin, HeldType

\* rs2 is a list of results that holds what rs does, and a token.
Holds(rs, rs2, token) ==
    /\ ResultsOK(rs2)
    /\ \A b \in Nat : HeldIn(b, TokensOf(rs2)) = HeldIn(b, TokensOf(rs)) + HeldIn(b, token)

LEMMA HoldsSame ==
  ASSUME NEW rs, ResultsOK(rs), NEW rs2, ResultsOK(rs2),
         \A b \in Nat : HeldIn(b, KeptBy(rs2.retrieval)) = HeldIn(b, KeptBy(rs.retrieval)),
         \A b \in Nat : HeldIn(b, FlattenSeq(rs2.line)) = HeldIn(b, FlattenSeq(rs.line))
  PROVE  Holds(rs, rs2, <<>>)
  <1>1. ASSUME NEW b \in Nat
        PROVE  HeldIn(b, TokensOf(rs2)) = HeldIn(b, TokensOf(rs)) + HeldIn(b, <<>>)
    <2>1. PICK x \in Nat, y \in Nat : /\ x = HeldIn(b, KeptBy(rs.retrieval))
                                      /\ y = HeldIn(b, FlattenSeq(rs.line))
      BY ResultsHeld
    <2>2. HeldIn(b, TokensOf(rs2)) = x + y /\ HeldIn(b, TokensOf(rs)) = x + y
      <3>1. HeldIn(b, TokensOf(rs2))
              = HeldIn(b, KeptBy(rs2.retrieval)) + HeldIn(b, FlattenSeq(rs2.line))
        BY ResultsHeld
      <3>2. HeldIn(b, TokensOf(rs))
              = HeldIn(b, KeptBy(rs.retrieval)) + HeldIn(b, FlattenSeq(rs.line))
        BY ResultsHeld
      <3>3. /\ HeldIn(b, KeptBy(rs2.retrieval)) = HeldIn(b, KeptBy(rs.retrieval))
            /\ HeldIn(b, FlattenSeq(rs2.line)) = HeldIn(b, FlattenSeq(rs.line))
        OBVIOUS
      <3>4. QED
        BY <2>1, <3>1, <3>2, <3>3, Zenon
    <2>3. x + y = (x + y) + 0
      OBVIOUS
    <2>4. QED
      BY <2>2, <2>3, HeldEmpty, Zenon
  <1>2. QED
    BY <1>1 DEF Holds

\* The results but for the values, and but for the lines.
LEMMA ResultsChanged ==
  ASSUME NEW rs, ResultsOK(rs)
  PROVE  /\ \A v \in Seq(Retrieval) : /\ ResultsOK([rs EXCEPT !.retrieval = v])
                                      /\ [rs EXCEPT !.retrieval = v].retrieval = v
                                      /\ [rs EXCEPT !.retrieval = v].line = rs.line
         /\ \A l \in Seq(Seq(Slice)) : /\ ResultsOK([rs EXCEPT !.line = l])
                                       /\ [rs EXCEPT !.line = l].line = l
                                       /\ [rs EXCEPT !.line = l].retrieval = rs.retrieval
         /\ \A m : /\ ResultsOK([rs EXCEPT !.message = m]) /\ ResultsOK([rs EXCEPT !.unsigned = m])
                   /\ [rs EXCEPT !.message = m].line = rs.line
                   /\ [rs EXCEPT !.message = m].retrieval = rs.retrieval
                   /\ [rs EXCEPT !.unsigned = m].line = rs.line
                   /\ [rs EXCEPT !.unsigned = m].retrieval = rs.retrieval
  BY DEF ResultsOK

\* Nothing is held by a message, a number, a new value or a new line.
LEMMA NothingMore ==
  ASSUME NEW rs, ResultsOK(rs), NEW m
  PROVE  /\ Holds(rs, rs, <<>>)
         /\ Holds(rs, [rs EXCEPT !.message = m], <<>>)
         /\ Holds(rs, [rs EXCEPT !.unsigned = m], <<>>)
         /\ NewRetrieval \in Retrieval
         /\ Holds(rs, [rs EXCEPT !.retrieval = Append(@, NewRetrieval)], <<>>)
         /\ Holds(rs, [rs EXCEPT !.line = Append(@, <<>>)], <<>>)
  <1>1. Holds(rs, rs, <<>>)
    BY HoldsSame
  <1>2. PICK rm : rm = [rs EXCEPT !.message = m]
    OBVIOUS
  <1>3. PICK ru : ru = [rs EXCEPT !.unsigned = m]
    OBVIOUS
  <1>4. /\ ResultsOK(rm) /\ rm.retrieval = rs.retrieval /\ rm.line = rs.line
        /\ ResultsOK(ru) /\ ru.retrieval = rs.retrieval /\ ru.line = rs.line
    BY <1>2, <1>3, ResultsChanged
  <1>5. Holds(rs, rm, <<>>) /\ Holds(rs, ru, <<>>)
    BY <1>4, HoldsSame
  <1>6. NewRetrieval \in Retrieval /\ NewRetrieval.key = <<>> /\ NewRetrieval.data = <<>>
    <2>1. <<>> \in Seq(Slice)
      OBVIOUS
    <2>2. QED
      BY <2>1 DEF NewRetrieval, Retrieval
  <1>7. rs.retrieval \in Seq(Retrieval) /\ rs.line \in Seq(Seq(Slice))
    BY DEF ResultsOK
  <1>8. PICK v \in Seq(Retrieval) : v = Append(rs.retrieval, NewRetrieval)
    BY <1>6, <1>7, AppendProperties
  <1>9. Holds(rs, [rs EXCEPT !.retrieval = v], <<>>)
    <2>1. PICK rv : rv = [rs EXCEPT !.retrieval = v]
      OBVIOUS
    <2>2. ResultsOK(rv) /\ rv.retrieval = v /\ rv.line = rs.line
      BY <2>1, ResultsChanged
    <2>3. ASSUME NEW b \in Nat
          PROVE  HeldIn(b, KeptBy(rv.retrieval)) = HeldIn(b, KeptBy(rs.retrieval))
      <3>1. /\ HeldIn(b, KeptBy(rs.retrieval)) \in Nat
            /\ HeldIn(b, KeptBy(Append(rs.retrieval, NewRetrieval)))
                 = HeldIn(b, KeptBy(rs.retrieval))
                     + (HeldIn(b, NewRetrieval.key) + HeldIn(b, NewRetrieval.data))
        BY <1>6, <1>7, KeptHeld
      <3>2. PICK x \in Nat : x = HeldIn(b, KeptBy(rs.retrieval))
        BY <3>1
      <3>3. x + (0 + 0) = x
        OBVIOUS
      <3>4. HeldIn(b, NewRetrieval.key) = 0 /\ HeldIn(b, NewRetrieval.data) = 0
        BY <1>6, HeldEmpty
      <3>5. QED
        BY <1>8, <2>2, <3>1, <3>2, <3>3, <3>4, Zenon
    <2>4. \A b \in Nat : HeldIn(b, FlattenSeq(rv.line)) = HeldIn(b, FlattenSeq(rs.line))
      BY <2>2
    <2>5. QED
      BY <2>1, <2>2, <2>3, <2>4, HoldsSame
  <1>10. PICK l \in Seq(Seq(Slice)) : l = Append(rs.line, <<>>)
    <2>1. <<>> \in Seq(Slice)
      OBVIOUS
    <2>2. QED
      BY <1>7, <2>1, AppendProperties
  <1>11. Holds(rs, [rs EXCEPT !.line = l], <<>>)
    <2>1. PICK rl : rl = [rs EXCEPT !.line = l]
      OBVIOUS
    <2>2. ResultsOK(rl) /\ rl.line = l /\ rl.retrieval = rs.retrieval
      BY <2>1, ResultsChanged
    <2>3. FlattenSeq(l) = FlattenSeq(rs.line)
      <3>1. <<>> \in Seq(Slice)
        OBVIOUS
      <3>2. FlattenSeq(Append(rs.line, <<>>)) = FlattenSeq(rs.line) \o <<>>
        BY <1>7, <3>1, FlattenAppend
      <3>3. FlattenSeq(rs.line) \in Seq(Slice)
        BY <1>7, FlattenType
      <3>4. QED
        BY <1>10, <3>2, <3>3, ConcatEmptySeq
    <2>4. QED
      BY <2>1, <2>2, <2>3, HoldsSame
  <1>12. QED
    BY <1>1, <1>2, <1>3, <1>5, <1>6, <1>8, <1>9, <1>10, <1>11

\* The last value is replaced by one with a token more.
LEMMA LastValue ==
  ASSUME NEW rs, ResultsOK(rs), rs.retrieval # <<>>, NEW kv \in Retrieval, NEW token \in Seq(Slice),
         \/ kv.key = Last(rs.retrieval).key /\ Last(rs.retrieval).data = <<>> /\ kv.data = token
         \/ kv.data = Last(rs.retrieval).data /\ Last(rs.retrieval).key = <<>> /\ kv.key = token
         \/ /\ kv.key = Last(rs.retrieval).key /\ kv.data = Last(rs.retrieval).data
            /\ token = <<>>
  PROVE  /\ Holds(rs, [rs EXCEPT !.retrieval = Append(Front(@), kv)], token)
         /\ [rs EXCEPT !.retrieval = Append(Front(@), kv)].retrieval # <<>>
         /\ Last([rs EXCEPT !.retrieval = Append(Front(@), kv)].retrieval) = kv
         /\ [rs EXCEPT !.retrieval = Append(Front(@), kv)].line = rs.line
  <1>1. rs.retrieval \in Seq(Retrieval)
    BY DEF ResultsOK
  <1>2. PICK s \in Seq(Retrieval), f \in Seq(Retrieval), old \in Retrieval :
          /\ s = rs.retrieval /\ f = Front(s) /\ old = Last(s) /\ s = Append(f, old)
    <2>1. /\ Front(rs.retrieval) \in Seq(Retrieval) /\ Last(rs.retrieval) \in Retrieval
          /\ rs.retrieval = Append(Front(rs.retrieval), Last(rs.retrieval))
      BY <1>1, FrontLast
    <2>2. QED
      BY <1>1, <2>1, Zenon
  <1>3. PICK v \in Seq(Retrieval) : v = Append(f, kv) /\ v # <<>> /\ Last(v) = kv
    <2>1. PICK v \in Seq(Retrieval) : Extended(v, f, kv, Len(f))
      BY AppendParts
    <2>2. v = Append(f, kv) /\ Len(v) = Len(f) + 1 /\ v[Len(f) + 1] = kv
      BY <2>1 DEF Extended
    <2>3. v # <<>>
      BY <2>2, SMTT(20)
    <2>4. Last(v) = kv
      BY <2>2 DEF Last
    <2>5. QED
      BY <2>2, <2>3, <2>4
  <1>4. PICK rv : rv = [rs EXCEPT !.retrieval = v]
    OBVIOUS
  <1>5. ResultsOK(rv) /\ rv.retrieval = v /\ rv.line = rs.line
    BY <1>4, ResultsChanged
  <1>6. ASSUME NEW b \in Nat
        PROVE  HeldIn(b, TokensOf(rv)) = HeldIn(b, TokensOf(rs)) + HeldIn(b, token)
    <2>1. /\ HeldIn(b, KeptBy(f)) \in Nat /\ HeldIn(b, kv.key) \in Nat /\ HeldIn(b, kv.data) \in Nat
          /\ HeldIn(b, KeptBy(v)) = HeldIn(b, KeptBy(f)) + (HeldIn(b, kv.key) + HeldIn(b, kv.data))
      BY <1>3, KeptHeld
    <2>2. /\ HeldIn(b, old.key) \in Nat /\ HeldIn(b, old.data) \in Nat
          /\ HeldIn(b, KeptBy(s)) = HeldIn(b, KeptBy(f)) + (HeldIn(b, old.key) + HeldIn(b, old.data))
      <3>1. /\ HeldIn(b, old.key) \in Nat /\ HeldIn(b, old.data) \in Nat
            /\ HeldIn(b, KeptBy(Append(f, old)))
                 = HeldIn(b, KeptBy(f)) + (HeldIn(b, old.key) + HeldIn(b, old.data))
        BY KeptHeld
      <3>2. QED
        BY <1>2, <3>1, Zenon
    <2>3. /\ HeldIn(b, FlattenSeq(rs.line)) \in Nat
          /\ HeldIn(b, TokensOf(rs)) = HeldIn(b, KeptBy(s)) + HeldIn(b, FlattenSeq(rs.line))
          /\ HeldIn(b, TokensOf(rv)) = HeldIn(b, KeptBy(v)) + HeldIn(b, FlattenSeq(rs.line))
      <3>1. /\ HeldIn(b, FlattenSeq(rs.line)) \in Nat
            /\ HeldIn(b, TokensOf(rs)) = HeldIn(b, KeptBy(rs.retrieval)) + HeldIn(b, FlattenSeq(rs.line))
        BY ResultsHeld
      <3>2. HeldIn(b, TokensOf(rv)) = HeldIn(b, KeptBy(rv.retrieval)) + HeldIn(b, FlattenSeq(rv.line))
        BY <1>5, ResultsHeld
      <3>3. QED
        BY <1>2, <1>5, <3>1, <3>2, Zenon
    <2>4. HeldIn(b, token) \in Nat
      BY HeldType
    <2>5. \/ kv.key = old.key /\ old.data = <<>> /\ kv.data = token
          \/ kv.data = old.data /\ old.key = <<>> /\ kv.key = token
          \/ kv.key = old.key /\ kv.data = old.data /\ token = <<>>
      BY <1>2
    <2>6. HeldIn(b, kv.key) + HeldIn(b, kv.data)
            = (HeldIn(b, old.key) + HeldIn(b, old.data)) + HeldIn(b, token)
      <3>1. CASE kv.key = old.key /\ old.data = <<>> /\ kv.data = token
        <4>1. HeldIn(b, old.data) = 0 /\ HeldIn(b, kv.key) = HeldIn(b, old.key)
              /\ HeldIn(b, kv.data) = HeldIn(b, token)
          BY <3>1, HeldEmpty
        <4>2. QED
          BY <2>2, <2>4, <4>1
      <3>2. CASE kv.data = old.data /\ old.key = <<>> /\ kv.key = token
        <4>1. HeldIn(b, old.key) = 0 /\ HeldIn(b, kv.data) = HeldIn(b, old.data)
              /\ HeldIn(b, kv.key) = HeldIn(b, token)
          BY <3>2, HeldEmpty
        <4>2. QED
          BY <2>2, <2>4, <4>1
      <3>3. CASE kv.key = old.key /\ kv.data = old.data /\ token = <<>>
        <4>1. HeldIn(b, kv.key) = HeldIn(b, old.key) /\ HeldIn(b, kv.data) = HeldIn(b, old.data)
              /\ HeldIn(b, token) = 0
          BY <3>3, HeldEmpty
        <4>2. QED
          BY <2>2, <4>1
      <3>4. QED
        BY <2>5, <3>1, <3>2, <3>3
    <2>7. PICK kf \in Nat, kk \in Nat, kd \in Nat, ok2 \in Nat, od \in Nat, ln \in Nat, tk \in Nat :
            /\ kf = HeldIn(b, KeptBy(f)) /\ kk = HeldIn(b, kv.key) /\ kd = HeldIn(b, kv.data)
            /\ ok2 = HeldIn(b, old.key) /\ od = HeldIn(b, old.data)
            /\ ln = HeldIn(b, FlattenSeq(rs.line)) /\ tk = HeldIn(b, token)
      BY <2>1, <2>2, <2>3, <2>4, Zenon
    <2>8. kk + kd = (ok2 + od) + tk
      BY <2>6, <2>7, Zenon
    <2>9. (kf + (kk + kd)) + ln = ((kf + (ok2 + od)) + ln) + tk
      BY ONLY <2>8, kf \in Nat, kk \in Nat, kd \in Nat, ok2 \in Nat, od \in Nat, ln \in Nat, tk \in Nat
    <2>10. QED
      BY <2>1, <2>2, <2>3, <2>7, <2>9, Zenon
  <1>7. Holds(rs, rv, token)
    BY <1>5, <1>6 DEF Holds
  <1>8. rv = [rs EXCEPT !.retrieval = Append(Front(@), kv)]
    BY <1>2, <1>3, <1>4
  <1>9. QED
    BY <1>3, <1>5, <1>7, <1>8

\* The line of the last LineResult has come.
LEMMA LastLine ==
  ASSUME NEW rs, ResultsOK(rs), rs.line # <<>>, Last(rs.line) = <<>>, NEW token \in Seq(Slice)
  PROVE  Holds(rs, [rs EXCEPT !.line = Append(Front(@), token)], token)
  <1>1. rs.line \in Seq(Seq(Slice))
    BY DEF ResultsOK
  <1>2. PICK s \in Seq(Seq(Slice)), f \in Seq(Seq(Slice)) :
          s = rs.line /\ f = Front(s) /\ s = Append(f, <<>>)
    BY <1>1, FrontLast
  <1>3. PICK l \in Seq(Seq(Slice)) : l = Append(f, token)
    BY AppendProperties
  <1>4. PICK rl : rl = [rs EXCEPT !.line = l]
    OBVIOUS
  <1>5. ResultsOK(rl) /\ rl.line = l /\ rl.retrieval = rs.retrieval
    BY <1>4, ResultsChanged
  <1>6. PICK ff \in Seq(Slice) : ff = FlattenSeq(f)
    BY FlattenType
  <1>7. FlattenSeq(s) = ff /\ FlattenSeq(l) = ff \o token
    <2>1. <<>> \in Seq(Slice)
      OBVIOUS
    <2>2. FlattenSeq(Append(f, <<>>)) = FlattenSeq(f) \o <<>>
      BY <2>1, FlattenAppend
    <2>3. FlattenSeq(Append(f, token)) = FlattenSeq(f) \o token
      BY FlattenAppend
    <2>4. ff \o <<>> = ff
      BY ConcatEmptySeq
    <2>5. QED
      BY <1>2, <1>3, <1>6, <2>2, <2>3, <2>4, Zenon
  <1>8. ASSUME NEW b \in Nat
        PROVE  HeldIn(b, TokensOf(rl)) = HeldIn(b, TokensOf(rs)) + HeldIn(b, token)
    <2>1. /\ HeldIn(b, KeptBy(rs.retrieval)) \in Nat
          /\ HeldIn(b, TokensOf(rs)) = HeldIn(b, KeptBy(rs.retrieval)) + HeldIn(b, ff)
          /\ HeldIn(b, TokensOf(rl)) = HeldIn(b, KeptBy(rs.retrieval)) + HeldIn(b, ff \o token)
      BY <1>2, <1>5, <1>7, ResultsHeld
    <2>2. /\ HeldIn(b, ff) \in Nat /\ HeldIn(b, token) \in Nat
          /\ HeldIn(b, ff \o token) = HeldIn(b, ff) + HeldIn(b, token)
      BY HeldType, HeldJoin
    <2>3. PICK x \in Nat, y \in Nat, z \in Nat :
            x = HeldIn(b, KeptBy(rs.retrieval)) /\ y = HeldIn(b, ff) /\ z = HeldIn(b, token)
      BY <2>1, <2>2
    <2>4. x + (y + z) = (x + y) + z
      OBVIOUS
    <2>5. QED
      BY <2>1, <2>2, <2>3, <2>4, Zenon
  <1>9. rl = [rs EXCEPT !.line = Append(Front(@), token)]
    BY <1>2, <1>3, <1>4
  <1>10. QED
    BY <1>5, <1>8, <1>9 DEF Holds

\* The bytes of every block that are referenced are unread or held by rs.
Accounted(r, rs) ==
    /\ ReaderOK(r) /\ ResultsOK(rs)
    /\ Beyond(Len(r.blocks), TokensOf(rs))
    /\ \A b \in 1 .. Len(r.blocks) : Balance(r, b) = HeldIn(b, TokensOf(rs))

LEMMA AccountedCharges ==
  ASSUME NEW r, NEW rs, Accounted(r, rs), NEW m, ReaderOK(m), Len(m.blocks) = Len(r.blocks),
         NEW token, Charges(r, m, token), NEW rs2, Holds(rs, rs2, token)
  PROVE  Accounted(m, rs2)
  <1>1. ResultsOK(rs2) /\ token \in Seq(Slice) /\ Len(r.blocks) \in Nat
    <2>1. ReaderOK(r)
      BY DEF Accounted
    <2>2. Len(r.blocks) \in Nat
      BY <2>1, RestType DEF ReaderOK
    <2>3. QED
      BY <2>2 DEF Holds, Charges
  <1>2. ASSUME NEW b \in 1 .. Len(r.blocks)
        PROVE  Balance(m, b) = HeldIn(b, TokensOf(rs2))
    <2>1. Balance(m, b) = Balance(r, b) + HeldIn(b, token)
      BY DEF Charges
    <2>2. Balance(r, b) = HeldIn(b, TokensOf(rs))
      BY DEF Accounted
    <2>3. b \in Nat
      BY <1>1
    <2>4. HeldIn(b, TokensOf(rs2)) = HeldIn(b, TokensOf(rs)) + HeldIn(b, token)
      BY <2>3 DEF Holds
    <2>5. QED
      BY <2>1, <2>2, <2>4, Zenon
  <1>3. Beyond(Len(r.blocks), TokensOf(rs2))
    <2>1. SUFFICES ASSUME NEW b \in Nat, b > Len(r.blocks)
                   PROVE  HeldIn(b, TokensOf(rs2)) = 0
      BY DEF Beyond
    <2>2. HeldIn(b, TokensOf(rs)) = 0 /\ HeldIn(b, token) = 0
      BY <2>1 DEF Accounted, Charges, Beyond
    <2>3. HeldIn(b, TokensOf(rs2)) = HeldIn(b, TokensOf(rs)) + HeldIn(b, token)
      BY DEF Holds
    <2>4. 0 + 0 = 0
      OBVIOUS
    <2>5. QED
      BY <2>2, <2>3, <2>4, Zenon
  <1>4. QED
    BY <1>1, <1>2, <1>3 DEF Accounted

LEMMA DropsNothing ==
  ASSUME NEW r, ReaderOK(r), NEW m, NEW len, Drops(r, m, len)
  PROVE  ReaderOK(m) /\ Len(m.blocks) = Len(r.blocks) /\ Charges(r, m, <<>>)
  <1>1. /\ ReaderOK(m) /\ Len(m.blocks) = Len(r.blocks)
        /\ \A b \in 1 .. Len(r.blocks) : Balance(m, b) = Balance(r, b)
    BY DEF Drops, Advances
  <1>2. Charges(r, r, <<>>)
    BY AdvancesNot
  <1>3. QED
    BY <1>1, <1>2 DEF Charges

LEMMA AccountedDrops ==
  ASSUME NEW r, NEW rs, Accounted(r, rs), NEW m, NEW len, Drops(r, m, len),
         NEW rs2, Holds(rs, rs2, <<>>)
  PROVE  Accounted(m, rs2)
  <1>1. ReaderOK(r)
    BY DEF Accounted
  <1>2. ReaderOK(m) /\ Len(m.blocks) = Len(r.blocks) /\ Charges(r, m, <<>>)
    BY <1>1, DropsNothing
  <1>3. QED
    BY <1>2, AccountedCharges

LEMMA AccountedGives ==
  ASSUME NEW r, NEW rs, Accounted(r, rs), NEW read, NEW len, Gives(r, read, len),
         NEW rs2, Holds(rs, rs2, read.token)
  PROVE  Accounted(read.reader, rs2)
  <1>1. /\ ReaderOK(read.reader) /\ Len(read.reader.blocks) = Len(r.blocks)
        /\ Charges(r, read.reader, read.token)
    BY DEF Gives, Advances
  <1>2. QED
    BY <1>1, AccountedCharges

LEMMA AccountedPrefers ==
  ASSUME NEW r, NEW rs, Accounted(r, rs), NEW m, Prefers(r, m)
  PROVE  Accounted(m, rs)
  BY DEF Accounted, Prefers

\* Connection::reset and PacketParser::rewind: the results free their tokens
\* and the reader starts again.
LEMMA AccountedReset ==
  ASSUME NEW r, NEW rs, Accounted(r, rs)
  PROVE  Accounted(ResetReader(Freed(r, TokensOf(rs))), NoResults)
  <1>1. ReaderOK(r) /\ TokensOf(rs) \in Seq(Slice)
    BY ResultsHeld DEF Accounted
  <1>2. PICK f : f = Freed(r, TokensOf(rs)) /\ ReaderOK(f)
    BY <1>1, FreedReleases DEF Advances
  <1>3. PICK m : /\ m = ResetReader(f) /\ ReaderOK(m) /\ Len(m.blocks) \in 0 .. 1
                 /\ \A b \in 1 .. Len(m.blocks) : Balance(m, b) = 0
    BY <1>2, ResetReaderEmpties
  <1>4. ResultsOK(NoResults) /\ NoResults.retrieval = <<>> /\ NoResults.line = <<>>
    BY DEF ResultsOK, NoResults
  <1>5. TokensOf(NoResults) = <<>>
    <2>1. [i \in DOMAIN NoResults.retrieval |->
             NoResults.retrieval[i].key \o NoResults.retrieval[i].data] = <<>>
      BY <1>4
    <2>2. TokensOf(NoResults) = FlattenSeq(<<>>) \o FlattenSeq(<<>>)
      BY <1>4, <2>1 DEF TokensOf
    <2>3. <<>> \o <<>> = <<>>
      OBVIOUS
    <2>4. QED
      BY <2>2, <2>3, FlattenEmpty
  <1>6. Beyond(Len(m.blocks), TokensOf(NoResults))
    BY <1>5, HeldEmpty DEF Beyond
  <1>7. QED
    BY <1>2, <1>3, <1>4, <1>5, <1>6, HeldEmpty DEF Accounted

\* recv(2) writes behind what is unread, in a block of its own perhaps.
LEMMA AccountedPrepared ==
  ASSUME NEW r, NEW rs, Accounted(r, rs), NEW m, Prepared(r, m)
  PROVE  Accounted(m, rs)
  <1>1. /\ ReaderOK(r) /\ ResultsOK(rs) /\ Beyond(Len(r.blocks), TokensOf(rs))
        /\ \A b \in 1 .. Len(r.blocks) : Balance(r, b) = HeldIn(b, TokensOf(rs))
    BY DEF Accounted
  <1>2. /\ ReaderOK(m) /\ Len(m.blocks) \in {Len(r.blocks), Len(r.blocks) + 1}
        /\ \A b \in 1 .. Len(r.blocks) : Balance(m, b) = Balance(r, b)
        /\ \A b \in 1 .. Len(m.blocks) : b \notin 1 .. Len(r.blocks) => Balance(m, b) = 0
    BY DEF Prepared
  <1>3. PICK g \in Nat, h \in Nat : g = Len(r.blocks) /\ h = Len(m.blocks) /\ h \in {g, g + 1}
    <2>1. Len(r.blocks) \in Nat /\ Len(m.blocks) \in Nat
      BY <1>1, <1>2, RestType DEF ReaderOK
    <2>2. QED
      BY <1>2, <2>1
  <1>4. ASSUME NEW b \in Nat, b > g
        PROVE  HeldIn(b, TokensOf(rs)) = 0
    BY <1>1, <1>3, <1>4 DEF Beyond
  <1>5. ASSUME NEW b \in 1 .. h
        PROVE  Balance(m, b) = HeldIn(b, TokensOf(rs))
    <2>1. CASE b \in 1 .. g
      BY <1>1, <1>2, <1>3, <2>1
    <2>2. CASE b \notin 1 .. g
      <3>1. b \in Nat /\ b > g
        BY <2>2
      <3>2. QED
        BY <1>2, <1>3, <1>4, <2>2, <3>1
    <2>3. QED
      BY <2>1, <2>2
  <1>6. Beyond(h, TokensOf(rs))
    <2>1. \A b \in Nat : b > h => b > g
      BY <1>3
    <2>2. QED
      BY <1>4, <2>1 DEF Beyond
  <1>7. QED
    BY <1>1, <1>2, <1>3, <1>5, <1>6 DEF Accounted

LEMMA AccountedWritten ==
  ASSUME NEW r, NEW rs, Accounted(r, rs), NEW n, NEW bytes, Written(r, n, bytes)
  PROVE  Accounted(n, rs)
  BY DEF Accounted, Written

-----------------------------------------------------------------------------
(* The references are exact.                                               *)

\* What the parser has pushed already in each of its states.
Staged(s, rs) ==
    /\ s \in {"GET_START", "GET_KEY", "GET_FLAGS", "GET_BYTES", "GET_CAS"} =>
         /\ rs.retrieval # <<>>
         /\ Last(rs.retrieval).data = <<>> /\ Last(rs.retrieval).remain # 0
    /\ s = "GET_START" => Last(rs.retrieval).key = <<>>
    /\ s = "GET_VALUE_REMAINING" =>
         /\ rs.retrieval # <<>>
         /\ Last(rs.retrieval).remain # 0 => Last(rs.retrieval).data = <<>>
    /\ s \in {"VER_START", "STAT_START"} => rs.line # <<>> /\ Last(rs.line) = <<>>

ServerSpeaks ==
    /\ DOMAIN server = {"got", "wire", "wrote", "up"}
    /\ server.wire \in Seq(Byte) /\ server.wrote \in Nat
    /\ talk \in Conversations \cup {NoTalk}

RInv == Accounted(reader, results) /\ Staged(state, results) /\ ServerSpeaks

\* What RInv is about.
accountVars == <<reader, results, state, talk, server>>

LEMMA AccountQuiet ==
  ASSUME RInv, UNCHANGED accountVars
  PROVE  RInv'
  <1>1. /\ reader' = reader /\ results' = results /\ state' = state
        /\ talk' = talk /\ server' = server
    BY DEF accountVars
  <1>2. ServerSpeaks'
    BY <1>1 DEF RInv, ServerSpeaks
  <1>3. Accounted(reader', results') /\ Staged(state', results')
    BY <1>1 DEF RInv
  <1>4. QED
    BY <1>2, <1>3 DEF RInv

\* A step of the parser.
LEMMA AccountSteps ==
  ASSUME RInv, Accounted(reader', results'), Staged(state', results'),
         UNCHANGED <<talk, server>>
  PROVE  RInv'
  <1>1. ServerSpeaks'
    BY DEF RInv, ServerSpeaks
  <1>2. QED
    BY <1>1 DEF RInv

LEMMA AccountGoes ==
  ASSUME RInv, NEW r, NEW s, NEW rs, Goes(r, s, rs), Accounted(r, rs), Staged(s, rs),
         UNCHANGED <<talk, server>>
  PROVE  RInv'
  <1>1. reader' = r /\ state' = s /\ results' = rs
    BY DEF Goes
  <1>2. QED
    BY <1>1, AccountSteps

LEMMA AccountLeaves ==
  ASSUME RInv, NEW err, Leave(err), UNCHANGED <<talk, server>>
  PROVE  RInv'
  <1>1. UNCHANGED accountVars
    BY DEF Leave, accountVars
  <1>2. QED
    BY <1>1, AccountQuiet

LEMMA SkipBytesOK ==
  ASSUME NEW r, ReaderOK(r), NEW n \in Nat, SkipBytes(r, n).err = "OK"
  PROVE  Drops(r, SkipBytes(r, n).reader, n)
  <1>1. r.readLeft \in Nat
    BY UnreadBytes
  <1>2. CASE n > r.readLeft
    <2>1. SkipBytes(r, n).err = "INCOMPLETE_BUFFER_ERR"
      BY <1>2, SkipBytesOutcome DEF Incomplete
    <2>2. QED
      BY <2>1
  <1>3. CASE n <= r.readLeft
    BY <1>3, SkipBytesOutcome
  <1>4. QED
    BY <1>1, <1>2, <1>3

\* The packets that start.
LEMMA ToRetrieval ==
  ASSUME NEW rs, ResultsOK(rs)
  PROVE  Staged("GET_START", [rs EXCEPT !.retrieval = Append(@, NewRetrieval)])
  <1>1. PICK s \in Seq(Retrieval) : s = rs.retrieval
    BY DEF ResultsOK
  <1>2. PICK v \in Seq(Retrieval) : Extended(v, s, NewRetrieval, Len(s))
    <2>1. NewRetrieval \in Retrieval
      BY NothingMore
    <2>2. QED
      BY <2>1, AppendParts
  <1>3. v = Append(s, NewRetrieval) /\ Len(v) = Len(s) + 1 /\ v[Len(s) + 1] = NewRetrieval
    BY <1>2 DEF Extended
  <1>4. v # <<>> /\ Last(v) = NewRetrieval
    BY <1>3 DEF Last
  <1>5. PICK x : x = [rs EXCEPT !.retrieval = v]
    OBVIOUS
  <1>6. x.retrieval = v
    BY <1>5 DEF ResultsOK
  <1>7. x = [rs EXCEPT !.retrieval = Append(@, NewRetrieval)]
    BY <1>1, <1>3, <1>5
  <1>8. /\ NewRetrieval.data = <<>> /\ NewRetrieval.remain # 0 /\ NewRetrieval.key = <<>>
    BY DEF NewRetrieval
  <1>9. Staged("GET_START", x)
    BY <1>4, <1>6, <1>8 DEF Staged
  <1>10. QED
    BY <1>7, <1>9

LEMMA ToLine ==
  ASSUME NEW rs, ResultsOK(rs), NEW s \in {"VER_START", "STAT_START"}
  PROVE  Staged(s, [rs EXCEPT !.line = Append(@, <<>>)])
  <1>1. PICK l \in Seq(Seq(Slice)) : l = rs.line
    BY DEF ResultsOK
  <1>2. PICK v \in Seq(Seq(Slice)) : Extended(v, l, <<>>, Len(l))
    <2>1. <<>> \in Seq(Slice)
      OBVIOUS
    <2>2. QED
      BY <2>1, AppendParts
  <1>3. v = Append(l, <<>>) /\ Len(v) = Len(l) + 1 /\ v[Len(l) + 1] = <<>>
    BY <1>2 DEF Extended
  <1>4. v # <<>> /\ Last(v) = <<>>
    BY <1>3 DEF Last
  <1>5. PICK x : x = [rs EXCEPT !.line = v]
    OBVIOUS
  <1>6. x.line = v
    BY <1>5 DEF ResultsOK
  <1>7. x = [rs EXCEPT !.line = Append(@, <<>>)]
    BY <1>1, <1>3, <1>5
  <1>8. Staged(s, x)
    BY <1>4, <1>6 DEF Staged
  <1>9. QED
    BY <1>7, <1>8

LEMMA SkippedAccount ==
  ASSUME RInv, NEW w \in DOMAIN Word, Skipped(w).err = "OK",
         NEW rs, Holds(results, rs, <<>>)
  PROVE  Accounted(Skipped(w).reader, rs)
  <1>1. ReaderOK(reader) /\ Accounted(reader, results)
    BY DEF RInv, Accounted
  <1>2. Drops(reader, Skipped(w).reader, Len(Word[w]))
    BY <1>1, WordLengths, SkipBytesOK DEF Skipped
  <1>3. QED
    BY <1>1, <1>2, AccountedDrops

LEMMA ResultsType == RInv => ResultsOK(results) /\ ReaderOK(reader)
  BY DEF RInv, Accounted

PlainStates == {"START", "END", "ERROR", "INCR_DECR_START", "INCR_DECR_REMAINING"}

LEMMA StagedPlain ==
  ASSUME NEW s \in PlainStates, NEW rs
  PROVE  Staged(s, rs)
  BY DEF Staged, PlainStates

LEMMA StartValueAccount ==
  ASSUME RInv, StartValue, UNCHANGED <<talk, server>>
  PROVE  RInv'
  <1>1. CASE Skipped("VALUE").err # "OK"
    BY <1>1, AccountLeaves DEF StartValue
  <1>2. CASE Skipped("VALUE").err = "OK"
    <2>1. PICK rs : rs = [results EXCEPT !.retrieval = Append(@, NewRetrieval)]
      OBVIOUS
    <2>2. Goes(Skipped("VALUE").reader, "GET_START", rs)
      BY <1>2, <2>1 DEF StartValue
    <2>3. Holds(results, rs, <<>>) /\ Staged("GET_START", rs)
      BY <2>1, ResultsType, NothingMore, ToRetrieval
    <2>4. Accounted(Skipped("VALUE").reader, rs)
      BY <1>2, <2>3, WordNames, SkippedAccount
    <2>5. QED
      BY <2>2, <2>3, <2>4, AccountGoes
  <1>3. QED
    BY <1>1, <1>2

LEMMA StartLineAccount ==
  ASSUME RInv, StartLine, UNCHANGED <<talk, server>>
  PROVE  RInv'
  <1>1. PICK w \in DOMAIN LineState :
          IF Skipped(w).err # "OK" THEN Leave(Skipped(w).err)
          ELSE Goes(Skipped(w).reader, LineState[w],
                    [results EXCEPT !.line = Append(@, <<>>)])
    BY DEF StartLine
  <1>2. w \in DOMAIN Word /\ LineState[w] \in {"VER_START", "STAT_START"}
    BY WordNames DEF LineState
  <1>3. CASE Skipped(w).err # "OK"
    BY <1>1, <1>3, AccountLeaves
  <1>4. CASE Skipped(w).err = "OK"
    <2>1. PICK rs : rs = [results EXCEPT !.line = Append(@, <<>>)]
      OBVIOUS
    <2>2. Goes(Skipped(w).reader, LineState[w], rs)
      BY <1>1, <1>4, <2>1
    <2>3. Holds(results, rs, <<>>) /\ Staged(LineState[w], rs)
      BY <1>2, <2>1, ResultsType, NothingMore, ToLine
    <2>4. Accounted(Skipped(w).reader, rs)
      BY <1>2, <1>4, <2>3, SkippedAccount
    <2>5. QED
      BY <2>2, <2>3, <2>4, AccountGoes
  <1>5. QED
    BY <1>3, <1>4

LEMMA StartEndAccount ==
  ASSUME RInv, StartEnd, UNCHANGED <<talk, server>>
  PROVE  RInv'
  <1>1. CASE Skipped("END").err # "OK"
    BY <1>1, AccountLeaves DEF StartEnd
  <1>2. CASE Skipped("END").err = "OK"
    <2>1. Goes(Skipped("END").reader, "END", results)
      BY <1>2 DEF StartEnd
    <2>2. Accounted(Skipped("END").reader, results)
      BY <1>2, WordNames, ResultsType, NothingMore, SkippedAccount
    <2>3. Staged("END", results)
      BY StagedPlain DEF PlainStates
    <2>4. QED
      BY <2>1, <2>2, <2>3, AccountGoes
  <1>3. QED
    BY <1>1, <1>2

LEMMA StartMessageAccount ==
  ASSUME RInv, StartMessage, UNCHANGED <<talk, server>>
  PROVE  RInv'
  <1>1. PICK w \in MessageTypes :
          LET skip == Skipped(w)
              key == IF w = "OK" THEN "none" ELSE requestKeys[keyIdx + 1]
          IN  IF skip.err # "OK" THEN Leave(skip.err)
              ELSE /\ reader' = skip.reader
                   /\ state' = IF w = "OK" THEN "END" ELSE "START"
                   /\ results' = [results EXCEPT
                        !.message = Append(@, [type |-> w, key |-> key])]
    BY DEF StartMessage
  <1>2. CASE Skipped(w).err # "OK"
    BY <1>1, <1>2, AccountLeaves
  <1>3. CASE Skipped(w).err = "OK"
    <2>1. PICK m : results' = [results EXCEPT !.message = m]
      BY <1>1, <1>3
    <2>2. reader' = Skipped(w).reader /\ state' \in {"START", "END"}
      BY <1>1, <1>3
    <2>3. Holds(results, results', <<>>)
      BY <2>1, ResultsType, NothingMore
    <2>4. Accounted(Skipped(w).reader, results')
      BY <1>3, <2>3, WordNames, SkippedAccount
    <2>5. Staged(state', results')
      BY <2>2, StagedPlain DEF PlainStates
    <2>6. QED
      BY <2>2, <2>4, <2>5, AccountSteps
  <1>4. QED
    BY <1>2, <1>3

LEMMA StartNumberAccount ==
  ASSUME RInv, StartNumber, UNCHANGED <<talk, server>>
  PROVE  RInv'
  <1>1. PICK m : Goes(reader, "INCR_DECR_START", [results EXCEPT !.unsigned = m])
    BY DEF StartNumber
  <1>2. PICK rs : rs = [results EXCEPT !.unsigned = m]
    OBVIOUS
  <1>3. Holds(results, rs, <<>>) /\ Accounted(reader, results) /\ ReaderOK(reader)
    BY <1>2, ResultsType, NothingMore DEF RInv
  <1>4. Drops(reader, reader, 0)
    BY <1>3, AdvancesNot DEF Drops
  <1>5. Accounted(reader, rs)
    BY <1>3, <1>4, AccountedDrops
  <1>6. Staged("INCR_DECR_START", rs)
    BY StagedPlain DEF PlainStates
  <1>7. QED
    BY <1>1, <1>2, <1>5, <1>6, AccountGoes

-----------------------------------------------------------------------------
LEMMA TokenRead ==
  ASSUME NEW r, ReaderOK(r), NEW byte, ThenSkip(ReadUntil(r, byte), 1).err = "OK"
  PROVE  \E len \in Nat : Gives(r, ThenSkip(ReadUntil(r, byte), 1), len)
  <1>1. ReadUntil(r, byte).err = "OK"
    BY DEF ThenSkip
  <1>2. Gives(r, ReadUntil(r, byte), Before(r, {byte}))
    BY <1>1, ReadUntilOutcome
  <1>3. Before(r, {byte}) \in Nat
    <2>1. Before(r, {byte}) \in 0 .. r.readLeft /\ r.readLeft \in Nat
      BY BeforeScans, UnreadBytes
    <2>2. QED
      BY <2>1
  <1>4. Gives(r, ThenSkip(ReadUntil(r, byte), 1), Before(r, {byte}) + 1)
    BY <1>2, <1>3, GivesThenSkip
  <1>5. QED
    BY <1>3, <1>4

LEMMA NumberRead ==
  ASSUME NEW r, ReaderOK(r), ThenSkip(ReadUnsigned(r), 1).err = "OK"
  PROVE  /\ \E len \in Nat : Skims(r, ThenSkip(ReadUnsigned(r), 1), len)
         /\ ThenSkip(ReadUnsigned(r), 1).value \in Nat
  <1>1. ReadUnsigned(r).err = "OK"
    BY DEF ThenSkip
  <1>2. /\ Skims(r, ReadUnsigned(r), DigitsAhead(r))
        /\ "value" \in DOMAIN ReadUnsigned(r) /\ ReadUnsigned(r).value \in Nat
    BY <1>1, ReadUnsignedOutcome
  <1>3. DigitsAhead(r) \in Nat
    <2>1. DigitsAhead(r) \in 0 .. r.readLeft /\ r.readLeft \in Nat
      BY DigitsAheadAre, UnreadBytes
    <2>2. QED
      BY <2>1
  <1>4. /\ Skims(r, ThenSkip(ReadUnsigned(r), 1), DigitsAhead(r) + 1)
        /\ ThenSkip(ReadUnsigned(r), 1).value = ReadUnsigned(r).value
    BY <1>2, <1>3, SkimsThenSkip
  <1>5. QED
    BY <1>2, <1>3, <1>4

LEMMA LineSkipped ==
  ASSUME NEW r, ReaderOK(r), NEW byte, ThenSkip(SkipUntil(r, byte), 1).err = "OK"
  PROVE  \E len \in Nat : Skims(r, ThenSkip(SkipUntil(r, byte), 1), len)
  <1>1. SkipUntil(r, byte).err = "OK"
    BY DEF ThenSkip
  <1>2. Skims(r, SkipUntil(r, byte), Before(r, {byte}))
    BY <1>1, SkipUntilOutcome
  <1>3. Before(r, {byte}) \in Nat
    <2>1. Before(r, {byte}) \in 0 .. r.readLeft /\ r.readLeft \in Nat
      BY BeforeScans, UnreadBytes
    <2>2. QED
      BY <2>1
  <1>4. Skims(r, ThenSkip(SkipUntil(r, byte), 1), Before(r, {byte}) + 1)
    BY <1>2, <1>3, SkimsThenSkip
  <1>5. QED
    BY <1>3, <1>4

LEMMA CurrentType ==
  ASSUME RInv, results.retrieval # <<>>
  PROVE  /\ Current \in Retrieval /\ Current = Last(results.retrieval)
         /\ ResultsOK(results) /\ ReaderOK(reader) /\ Accounted(reader, results)
  <1>1. ResultsOK(results) /\ ReaderOK(reader) /\ Accounted(reader, results)
    BY ResultsType DEF RInv
  <1>2. results.retrieval \in Seq(Retrieval)
    BY <1>1 DEF ResultsOK
  <1>3. Last(results.retrieval) \in Retrieval
    BY <1>2, FrontLast
  <1>4. QED
    BY <1>1, <1>3 DEF Current

\* The value is read on without a token more.
LEMMA ValueAccount ==
  ASSUME RInv, results.retrieval # <<>>, NEW kv \in Retrieval,
         kv.key = Current.key, kv.data = Current.data,
         NEW m, NEW len \in Nat, Drops(reader, m, len), NEW s, Goes(m, s, WithCurrent(kv)),
         s = "GET_VALUE_REMAINING" => kv.data = <<>>,
         s \in {"GET_FLAGS", "GET_BYTES", "GET_CAS"} => kv.data = <<>> /\ kv.remain # 0,
         s \in {"GET_FLAGS", "GET_BYTES", "GET_CAS", "GET_VALUE_REMAINING"},
         UNCHANGED <<talk, server>>
  PROVE  RInv'
  <1>1. PICK rs : rs = WithCurrent(kv)
    OBVIOUS
  <1>2. /\ Current = Last(results.retrieval) /\ ResultsOK(results)
        /\ Accounted(reader, results)
    BY CurrentType
  <1>3. <<>> \in Seq(Slice)
    OBVIOUS
  <1>4. Holds(results, rs, <<>>) /\ rs.retrieval # <<>> /\ Last(rs.retrieval) = kv
    BY <1>1, <1>2, <1>3, LastValue DEF WithCurrent
  <1>5. Accounted(m, rs)
    BY <1>2, <1>4, AccountedDrops
  <1>6. Staged(s, rs)
    BY <1>4 DEF Staged
  <1>7. QED
    BY <1>1, <1>5, <1>6, AccountGoes

LEMMA GetStartAccount ==
  ASSUME RInv, GetStart, UNCHANGED <<talk, server>>
  PROVE  RInv'
  <1> DEFINE key == ThenSkip(ReadUntil(reader, "SP"), 1)
  <1>1. /\ state = "GET_START"
        /\ IF key.err # "OK" THEN Leave(key.err)
           ELSE Goes(key.reader, "GET_KEY",
                     WithCurrent([Current EXCEPT !.key = key.token]))
    BY DEF GetStart, At
  <1>2. /\ results.retrieval # <<>> /\ Last(results.retrieval).key = <<>>
        /\ Last(results.retrieval).data = <<>> /\ Last(results.retrieval).remain # 0
    BY <1>1 DEF RInv, Staged
  <1>3. CASE key.err # "OK"
    BY <1>1, <1>3, AccountLeaves
  <1>4. CASE key.err = "OK"
    <2>1. /\ Current \in Retrieval /\ Current = Last(results.retrieval)
          /\ ResultsOK(results) /\ ReaderOK(reader) /\ Accounted(reader, results)
      BY <1>2, CurrentType
    <2>2. PICK len \in Nat : Gives(reader, key, len)
      BY <1>4, <2>1, TokenRead
    <2>3. PICK token \in Seq(Slice) : token = key.token
      BY <2>2 DEF Gives, Charges
    <2>4. PICK kv : kv = [Current EXCEPT !.key = token]
      OBVIOUS
    <2>41. /\ kv \in Retrieval /\ kv.key = token /\ kv.data = Current.data
           /\ kv.remain = Current.remain
      BY <2>1, <2>4 DEF Retrieval
    <2>5. PICK rs : rs = WithCurrent(kv)
      OBVIOUS
    <2>51. kv.data = Last(results.retrieval).data /\ Last(results.retrieval).key = <<>>
      BY <1>2, <2>1, <2>41
    <2>6. Holds(results, rs, token) /\ rs.retrieval # <<>> /\ Last(rs.retrieval) = kv
      BY <1>2, <2>1, <2>41, <2>5, <2>51, LastValue DEF WithCurrent
    <2>7. Accounted(key.reader, rs)
      BY <2>1, <2>2, <2>3, <2>6, AccountedGives
    <2>8. Staged("GET_KEY", rs)
      BY <1>2, <2>1, <2>41, <2>6 DEF Staged
    <2>9. Goes(key.reader, "GET_KEY", rs)
      BY <1>1, <1>4, <2>3, <2>4, <2>5
    <2>10. QED
      BY <2>7, <2>8, <2>9, AccountGoes
  <1>5. QED
    BY <1>3, <1>4

\* In the middle of the first line of a value.
ValueStates == {"GET_KEY", "GET_FLAGS", "GET_BYTES", "GET_CAS"}

LEMMA InValue ==
  ASSUME RInv, state \in ValueStates
  PROVE  /\ results.retrieval # <<>> /\ Current \in Retrieval
         /\ Current.data = <<>> /\ Current.remain # 0 /\ Current.remain \in Nat
         /\ ReaderOK(reader)
  <1>1. /\ results.retrieval # <<>> /\ Last(results.retrieval).data = <<>>
        /\ Last(results.retrieval).remain # 0
    BY DEF RInv, Staged, ValueStates
  <1>2. /\ Current \in Retrieval /\ Current = Last(results.retrieval) /\ ReaderOK(reader)
    BY <1>1, CurrentType
  <1>3. QED
    BY <1>1, <1>2 DEF Retrieval

LEMMA GetKeyAccount ==
  ASSUME RInv, GetKey, UNCHANGED <<talk, server>>
  PROVE  RInv'
  <1>1. PICK flags : flags = ThenSkip(ReadUnsigned(reader), 1)
    OBVIOUS
  <1>2. /\ state = "GET_KEY"
        /\ IF flags.err # "OK" THEN Leave(flags.err)
           ELSE Goes(flags.reader, "GET_FLAGS",
                     WithCurrent([Current EXCEPT !.flags = flags.value]))
    BY <1>1 DEF GetKey, At
  <1>3. /\ results.retrieval # <<>> /\ Current \in Retrieval
        /\ Current.data = <<>> /\ Current.remain # 0 /\ ReaderOK(reader)
    BY <1>2, InValue DEF ValueStates
  <1>4. CASE flags.err # "OK"
    BY <1>2, <1>4, AccountLeaves
  <1>5. CASE flags.err = "OK"
    <2>1. (\E len \in Nat : Skims(reader, flags, len)) /\ flags.value \in Nat
      BY <1>1, <1>3, <1>5, NumberRead
    <2>2. PICK len \in Nat : Drops(reader, flags.reader, len)
      BY <2>1 DEF Skims
    <2>3. PICK kv : kv = [Current EXCEPT !.flags = flags.value]
      OBVIOUS
    <2>4. /\ kv \in Retrieval /\ kv.key = Current.key /\ kv.data = Current.data
          /\ kv.remain = Current.remain
      BY <1>3, <2>1, <2>3 DEF Retrieval
    <2>5. Goes(flags.reader, "GET_FLAGS", WithCurrent(kv))
      BY <1>2, <1>5, <2>3
    <2>6. kv.data = <<>> /\ kv.remain # 0
      BY <1>3, <2>4
    <2>7. QED
      BY <1>3, <2>2, <2>4, <2>5, <2>6, ValueAccount
  <1>6. QED
    BY <1>4, <1>5

LEMMA GetFlagsAccount ==
  ASSUME RInv, GetFlags, UNCHANGED <<talk, server>>
  PROVE  RInv'
  <1>1. PICK bytes : bytes = ThenSkip(ReadUnsigned(reader), 1)
    OBVIOUS
  <1>2. /\ state = "GET_FLAGS"
        /\ IF bytes.err # "OK" THEN Leave(bytes.err)
           ELSE Goes(bytes.reader, "GET_BYTES",
                     WithCurrent([Current EXCEPT !.bytes = bytes.value,
                                                 !.remain = bytes.value + 1]))
    BY <1>1 DEF GetFlags, At
  <1>3. /\ results.retrieval # <<>> /\ Current \in Retrieval
        /\ Current.data = <<>> /\ ReaderOK(reader)
    BY <1>2, InValue DEF ValueStates
  <1>4. CASE bytes.err # "OK"
    BY <1>2, <1>4, AccountLeaves
  <1>5. CASE bytes.err = "OK"
    <2>1. (\E len \in Nat : Skims(reader, bytes, len)) /\ bytes.value \in Nat
      BY <1>1, <1>3, <1>5, NumberRead
    <2>2. PICK len \in Nat : Drops(reader, bytes.reader, len)
      BY <2>1 DEF Skims
    <2>3. PICK kv : kv = [Current EXCEPT !.bytes = bytes.value,
                                         !.remain = bytes.value + 1]
      OBVIOUS
    <2>4. bytes.value + 1 \in Nat /\ bytes.value + 1 # 0
      BY <2>1
    <2>5. /\ kv \in Retrieval /\ kv.key = Current.key /\ kv.data = Current.data
          /\ kv.remain = bytes.value + 1
      BY <1>3, <2>1, <2>3, <2>4 DEF Retrieval
    <2>6. Goes(bytes.reader, "GET_BYTES", WithCurrent(kv))
      BY <1>2, <1>5, <2>3
    <2>7. kv.data = <<>> /\ kv.remain # 0
      BY <1>3, <2>4, <2>5
    <2>8. QED
      BY <1>3, <2>2, <2>5, <2>6, <2>7, ValueAccount
  <1>6. QED
    BY <1>4, <1>5

LEMMA GetBytesAccount ==
  ASSUME RInv, GetBytes, UNCHANGED <<talk, server>>
  PROVE  RInv'
  <1>1. PICK cas : cas = ThenSkip(ReadUnsigned(reader), 1)
    OBVIOUS
  <1>2. /\ state = "GET_BYTES"
        /\ \/ Leave(Peek(reader, 0).err)
           \/ Leave(cas.err)
           \/ Goes(reader, "GET_CAS", WithCurrent([Current EXCEPT !.cas = 0]))
           \/ /\ cas.err = "OK"
              /\ Goes(cas.reader, "GET_CAS",
                      WithCurrent([Current EXCEPT !.cas = cas.value]))
    <2>1. PICK none : none = WithCurrent([Current EXCEPT !.cas = 0])
      OBVIOUS
    <2>2. PICK given : given = WithCurrent([Current EXCEPT !.cas = cas.value])
      OBVIOUS
    <2>3. /\ At("GET_BYTES")
          /\ IF Peek(reader, 0).err # "OK" THEN Leave(Peek(reader, 0).err)
             ELSE IF Peek(reader, 0).byte = "LF" THEN Goes(reader, "GET_CAS", none)
             ELSE IF cas.err # "OK" THEN Leave(cas.err)
             ELSE Goes(cas.reader, "GET_CAS", given)
      BY <1>1, <2>1, <2>2, Zenon DEF GetBytes
    <2>4. state = "GET_BYTES"
      BY <2>3 DEF At
    <2>5. QED
      BY <2>1, <2>2, <2>3, <2>4
  <1>3. /\ results.retrieval # <<>> /\ Current \in Retrieval
        /\ Current.data = <<>> /\ Current.remain # 0 /\ ReaderOK(reader)
    BY <1>2, InValue DEF ValueStates
  <1>4. ASSUME NEW m, NEW len \in Nat, Drops(reader, m, len), NEW n \in Nat,
               Goes(m, "GET_CAS", WithCurrent([Current EXCEPT !.cas = n]))
        PROVE  RInv'
    <2>1. PICK kv : kv = [Current EXCEPT !.cas = n]
      OBVIOUS
    <2>2. /\ kv \in Retrieval /\ kv.key = Current.key /\ kv.data = Current.data
          /\ kv.remain = Current.remain
      BY <1>3, <2>1 DEF Retrieval
    <2>3. Goes(m, "GET_CAS", WithCurrent(kv))
      BY <1>4, <2>1
    <2>4. kv.data = <<>> /\ kv.remain # 0
      BY <1>3, <2>2
    <2>5. QED
      BY <1>3, <1>4, <2>2, <2>3, <2>4, ValueAccount
  <1>5. CASE Leave(Peek(reader, 0).err) \/ Leave(cas.err)
    BY <1>5, AccountLeaves
  <1>6. CASE Goes(reader, "GET_CAS", WithCurrent([Current EXCEPT !.cas = 0]))
    <2>1. Drops(reader, reader, 0)
      BY <1>3, AdvancesNot DEF Drops
    <2>2. QED
      BY <1>4, <1>6, <2>1
  <1>7. CASE /\ cas.err = "OK"
             /\ Goes(cas.reader, "GET_CAS", WithCurrent([Current EXCEPT !.cas = cas.value]))
    <2>1. (\E len \in Nat : Skims(reader, cas, len)) /\ cas.value \in Nat
      BY <1>1, <1>3, <1>7, NumberRead
    <2>2. PICK len \in Nat : Drops(reader, cas.reader, len)
      BY <2>1 DEF Skims
    <2>3. QED
      BY <1>4, <1>7, <2>1, <2>2
  <1>8. QED
    BY <1>2, <1>5, <1>6, <1>7

LEMMA GetCasAccount ==
  ASSUME RInv, GetCas, UNCHANGED <<talk, server>>
  PROVE  RInv'
  <1>1. PICK skip : skip = SkipBytes(reader, 1)
    OBVIOUS
  <1>2. /\ state = "GET_CAS"
        /\ IF skip.err # "OK" THEN Leave(skip.err)
           ELSE Goes(skip.reader, "GET_VALUE_REMAINING",
                     WithCurrent([Current EXCEPT !.remain = Current.remain - 1]))
    BY <1>1 DEF GetCas, At
  <1>3. /\ results.retrieval # <<>> /\ Current \in Retrieval /\ Current.data = <<>>
        /\ Current.remain # 0 /\ Current.remain \in Nat /\ ReaderOK(reader)
    BY <1>2, InValue DEF ValueStates
  <1>4. CASE skip.err # "OK"
    BY <1>2, <1>4, AccountLeaves
  <1>5. CASE skip.err = "OK"
    <2>1. Drops(reader, skip.reader, 1)
      BY <1>1, <1>3, <1>5, SkipBytesOK
    <2>2. PICK n \in Nat : n = Current.remain - 1
      BY <1>3
    <2>3. PICK kv : kv = [Current EXCEPT !.remain = n]
      OBVIOUS
    <2>4. kv \in Retrieval /\ kv.key = Current.key /\ kv.data = Current.data
      BY <1>3, <2>3 DEF Retrieval
    <2>5. Goes(skip.reader, "GET_VALUE_REMAINING", WithCurrent(kv))
      BY <1>2, <1>5, <2>2, <2>3
    <2>6. kv.data = <<>>
      BY <1>3, <2>4
    <2>7. QED
      BY <1>3, <2>1, <2>4, <2>5, <2>6, ValueAccount
  <1>6. QED
    BY <1>4, <1>5

LEMMA GetValueAccount ==
  ASSUME RInv, GetValue, UNCHANGED <<talk, server>>
  PROVE  RInv'
  <1>1. PICK h : h = Hinted(reader)
    OBVIOUS
  <1>2. PICK data : data = ReadBytes(h, Current.bytes)
    OBVIOUS
  <1>3. /\ state = "GET_VALUE_REMAINING" /\ Current.remain > 0
        /\ IF data.err # "OK"
             THEN /\ reader' = data.reader
                  /\ UNCHANGED <<state, results>>
             ELSE Goes(data.reader, state,
                       WithCurrent([Current EXCEPT !.data = data.token,
                                                   !.remain = 0]))
    BY <1>1, <1>2 DEF GetValue, At
  <1>4. /\ results.retrieval # <<>>
        /\ Last(results.retrieval).remain # 0 => Last(results.retrieval).data = <<>>
    BY <1>3 DEF RInv, Staged
  <1>5. /\ Current \in Retrieval /\ Current = Last(results.retrieval)
        /\ ResultsOK(results) /\ ReaderOK(reader) /\ Accounted(reader, results)
    BY <1>4, CurrentType
  <1>6. /\ Current.bytes \in Nat /\ Current.remain \in Nat /\ Current.data = <<>>
    BY <1>3, <1>4, <1>5 DEF Retrieval
  <1>7. Accounted(h, results) /\ ReaderOK(h)
    <2>1. reader.readLeft \in Nat
      BY <1>5, UnreadBytes
    <2>2. CASE reader.readLeft < Current.bytes + 2
      <3>1. PICK size \in Nat : size = Current.bytes + 2 - reader.readLeft
        BY <1>6, <2>1, <2>2
      <3>2. h = [reader EXCEPT !.preferred = size]
        BY <1>1, <2>2, <3>1 DEF Hinted
      <3>3. Prefers(reader, h)
        BY <1>5, <3>2, PreferredFree
      <3>4. Accounted(h, results)
        BY <1>5, <3>3, AccountedPrefers
      <3>5. QED
        BY <3>4 DEF Accounted
    <2>3. CASE ~ (reader.readLeft < Current.bytes + 2)
      BY <1>1, <1>5, <2>3 DEF Hinted
    <2>4. QED
      BY <2>2, <2>3
  <1>8. h.readLeft \in Nat
    BY <1>7, UnreadBytes
  <1>9. /\ Current.bytes > h.readLeft => data = Incomplete(h)
        /\ Current.bytes <= h.readLeft => Gives(h, data, Current.bytes)
    BY <1>2, <1>6, <1>7, ReadBytesOutcome
  <1>10. CASE Current.bytes > h.readLeft
    <2>1. data.err # "OK" /\ data.reader = h
      BY <1>9, <1>10 DEF Incomplete
    <2>2. reader' = h /\ state' = state /\ results' = results
      BY <1>3, <2>1
    <2>3. Staged(state', results')
      BY <2>2 DEF RInv
    <2>4. QED
      BY <1>7, <2>2, <2>3, AccountSteps
  <1>11. CASE Current.bytes <= h.readLeft
    <2>1. Gives(h, data, Current.bytes)
      BY <1>9, <1>11
    <2>2. PICK token \in Seq(Slice) : token = data.token
      BY <2>1 DEF Gives, Charges
    <2>3. PICK kv : kv = [Current EXCEPT !.data = token, !.remain = 0]
      OBVIOUS
    <2>4. kv \in Retrieval /\ kv.data = token /\ kv.key = Current.key /\ kv.remain = 0
      BY <1>5, <2>3 DEF Retrieval
    <2>5. data.err = "OK"
      BY <2>1 DEF Gives
    <2>6. PICK rs : rs = WithCurrent(kv)
      OBVIOUS
    <2>7. Goes(data.reader, "GET_VALUE_REMAINING", rs)
      BY <1>3, <2>2, <2>3, <2>5, <2>6
    <2>8. Holds(results, rs, token) /\ rs.retrieval # <<>> /\ Last(rs.retrieval) = kv
      <3>1. kv.key = Last(results.retrieval).key /\ Last(results.retrieval).data = <<>>
        BY <1>5, <1>6, <2>4
      <3>2. QED
        BY <1>4, <1>5, <2>4, <2>6, <3>1, LastValue DEF WithCurrent
    <2>9. Accounted(data.reader, rs)
      BY <1>7, <2>1, <2>2, <2>8, AccountedGives
    <2>10. Staged("GET_VALUE_REMAINING", rs)
      BY <2>4, <2>8 DEF Staged
    <2>11. QED
      BY <2>7, <2>9, <2>10, AccountGoes
  <1>12. QED
    BY <1>6, <1>8, <1>10, <1>11

LEMMA GetValueEndAccount ==
  ASSUME RInv, GetValueEnd, UNCHANGED <<talk, server>>
  PROVE  RInv'
  <1>1. PICK skip : skip = SkipBytes(reader, 2)
    OBVIOUS
  <1>2. IF skip.err # "OK" THEN Leave(skip.err)
        ELSE Goes(skip.reader, "START", results)
    BY <1>1 DEF GetValueEnd
  <1>3. CASE skip.err # "OK"
    BY <1>2, <1>3, AccountLeaves
  <1>4. CASE skip.err = "OK"
    <2>1. ReaderOK(reader) /\ Holds(results, results, <<>>) /\ Accounted(reader, results)
      BY ResultsType, NothingMore DEF RInv
    <2>2. Drops(reader, skip.reader, 2)
      BY <1>1, <1>4, <2>1, SkipBytesOK
    <2>3. Accounted(skip.reader, results)
      BY <2>1, <2>2, AccountedDrops
    <2>4. Staged("START", results)
      BY StagedPlain DEF PlainStates
    <2>5. QED
      BY <1>2, <1>4, <2>3, <2>4, AccountGoes
  <1>5. QED
    BY <1>3, <1>4

LEMMA IncrDecrStartAccount ==
  ASSUME RInv, IncrDecrStart, UNCHANGED <<talk, server>>
  PROVE  RInv'
  <1>1. PICK value : value = ThenSkip(ReadUnsigned(reader), 1)
    OBVIOUS
  <1>2. PICK m : m = Append(Front(results.unsigned),
                            [value |-> value.value, key |-> requestKeys[keyIdx + 1]])
    OBVIOUS
  <1>3. IF value.err # "OK" THEN Leave(value.err)
        ELSE Goes(value.reader, "INCR_DECR_REMAINING", [results EXCEPT !.unsigned = m])
    BY <1>1, <1>2 DEF IncrDecrStart
  <1>4. CASE value.err # "OK"
    BY <1>3, <1>4, AccountLeaves
  <1>5. CASE value.err = "OK"
    <2>1. PICK rs : rs = [results EXCEPT !.unsigned = m]
      OBVIOUS
    <2>2. ReaderOK(reader) /\ Holds(results, rs, <<>>) /\ Accounted(reader, results)
      BY <2>1, ResultsType, NothingMore DEF RInv
    <2>3. PICK len \in Nat : Skims(reader, value, len)
      BY <1>1, <1>5, <2>2, NumberRead
    <2>4. Accounted(value.reader, rs)
      BY <2>2, <2>3, AccountedDrops DEF Skims
    <2>5. Staged("INCR_DECR_REMAINING", rs)
      BY StagedPlain DEF PlainStates
    <2>6. QED
      BY <1>3, <1>5, <2>1, <2>4, <2>5, AccountGoes
  <1>6. QED
    BY <1>4, <1>5

LEMMA IncrDecrRemainingAccount ==
  ASSUME RInv, IncrDecrRemaining, UNCHANGED <<talk, server>>
  PROVE  RInv'
  <1>1. PICK rest : rest = ThenSkip(SkipUntil(reader, "LF"), 1)
    OBVIOUS
  <1>2. IF rest.err # "OK" THEN Leave(rest.err)
        ELSE reader' = rest.reader /\ state' = "START" /\ results' = results
    BY <1>1 DEF IncrDecrRemaining
  <1>3. CASE rest.err # "OK"
    BY <1>2, <1>3, AccountLeaves
  <1>4. CASE rest.err = "OK"
    <2>1. ReaderOK(reader) /\ Holds(results, results, <<>>) /\ Accounted(reader, results)
      BY ResultsType, NothingMore DEF RInv
    <2>2. PICK len \in Nat : Skims(reader, rest, len)
      BY <1>1, <1>4, <2>1, LineSkipped
    <2>3. Accounted(rest.reader, results)
      BY <2>1, <2>2, AccountedDrops DEF Skims
    <2>4. Staged("START", results)
      BY StagedPlain DEF PlainStates
    <2>5. QED
      BY <1>2, <1>4, <2>3, <2>4, AccountSteps
  <1>5. QED
    BY <1>3, <1>4

LEMMA ReadLineAccount ==
  ASSUME RInv, ReadLine, UNCHANGED <<talk, server>>
  PROVE  RInv'
  <1>1. PICK line : line = ThenSkip(ReadUntil(reader, "LF"), 1)
    OBVIOUS
  <1>2. PICK w \in DOMAIN LineState, s \in {"START", "END"} :
          /\ state = LineState[w]
          /\ IF line.err # "OK" THEN Leave(line.err)
             ELSE Goes(line.reader, s,
                       [results EXCEPT !.line = Append(Front(@), line.token)])
    BY <1>1 DEF ReadLine, At
  <1>3. results.line # <<>> /\ Last(results.line) = <<>>
    <2>1. state \in {"VER_START", "STAT_START"}
      BY <1>2 DEF LineState
    <2>2. QED
      BY <2>1 DEF RInv, Staged
  <1>4. CASE line.err # "OK"
    BY <1>2, <1>4, AccountLeaves
  <1>5. CASE line.err = "OK"
    <2>1. ReaderOK(reader) /\ ResultsOK(results) /\ Accounted(reader, results)
      BY ResultsType DEF RInv
    <2>2. PICK len \in Nat : Gives(reader, line, len)
      BY <1>1, <1>5, <2>1, TokenRead
    <2>3. PICK token \in Seq(Slice) : token = line.token
      BY <2>2 DEF Gives, Charges
    <2>4. PICK rs : rs = [results EXCEPT !.line = Append(Front(@), token)]
      OBVIOUS
    <2>5. Holds(results, rs, token)
      BY <1>3, <2>1, <2>4, LastLine
    <2>6. Accounted(line.reader, rs)
      BY <2>1, <2>2, <2>3, <2>5, AccountedGives
    <2>7. Goes(line.reader, s, rs)
      BY <1>2, <1>5, <2>3, <2>4
    <2>8. Staged(s, rs)
      BY StagedPlain DEF PlainStates
    <2>9. QED
      BY <2>6, <2>7, <2>8, AccountGoes
  <1>6. QED
    BY <1>4, <1>5

LEMMA StartErrorAccount ==
  ASSUME RInv, StartError, UNCHANGED <<talk, server>>
  PROVE  RInv'
  <1>1. PICK line : line = ThenSkip(ReadUntil(reader, "LF"), 1)
    OBVIOUS
  <1>2. IF line.err # "OK" THEN Leave(line.err)
        ELSE /\ reader' = Freed(line.reader, line.token)
             /\ state' = "ERROR" /\ results' = results
    BY <1>1 DEF StartError
  <1>3. CASE line.err # "OK"
    BY <1>2, <1>3, AccountLeaves
  <1>4. CASE line.err = "OK"
    <2>1. ReaderOK(reader) /\ Holds(results, results, <<>>) /\ Accounted(reader, results)
      BY ResultsType, NothingMore DEF RInv
    <2>2. PICK len \in Nat : Gives(reader, line, len)
      BY <1>1, <1>4, <2>1, TokenRead
    <2>3. Drops(reader, Freed(line.reader, line.token), len)
      BY <2>1, <2>2, FreedDrops DEF Gives
    <2>4. Accounted(Freed(line.reader, line.token), results)
      BY <2>1, <2>3, AccountedDrops
    <2>5. Staged("ERROR", results)
      BY StagedPlain DEF PlainStates
    <2>6. QED
      BY <1>2, <1>4, <2>4, <2>5, AccountSteps
  <1>5. QED
    BY <1>3, <1>4

LEMMA ParseAccount ==
  ASSUME RInv, Parse, UNCHANGED <<talk, server>>
  PROVE  RInv'
  <1>1. CASE EndParse
    BY <1>1, AccountLeaves DEF EndParse
  <1>2. CASE StartIncomplete \/ StartUnknown
    BY <1>2, AccountLeaves DEF StartIncomplete, StartUnknown
  <1>3. QED
    BY <1>1, <1>2, StartValueAccount, StartLineAccount, StartEndAccount,
       StartMessageAccount, StartErrorAccount, StartNumberAccount, GetStartAccount,
       GetKeyAccount, GetFlagsAccount, GetBytesAccount, GetCasAccount, GetValueAccount,
       GetValueEndAccount, IncrDecrStartAccount, IncrDecrRemainingAccount, ReadLineAccount
    DEF Parse, Start

-----------------------------------------------------------------------------
LEMMA NothingResult == ResultsOK(NoResults)
  BY DEF ResultsOK, NoResults

LEMMA InitAccount == Init => RInv
  <1> SUFFICES ASSUME Init PROVE RInv
    OBVIOUS
  <1>1. /\ reader = NewReader /\ results = NoResults /\ state = "START"
        /\ talk = NoTalk /\ server = [NewServer EXCEPT !.up = FALSE]
    BY DEF Init, ParserInit
  <1>2. ServerSpeaks
    BY <1>1 DEF ServerSpeaks, NewServer
  <1>3. Staged(state, results)
    BY <1>1, StagedPlain DEF PlainStates
  <1>4. NewReader \in Readers /\ NewReader.blocks = <<>> /\ NewReader.at = 1
        /\ NewReader.readLeft = 0 /\ NewReader.writeAt = 1
    BY DEF NewReader, Readers
  <1>5. Shape(NewReader) /\ Rest(NewReader) = 0
    BY <1>4 DEF Shape, Rest
  <1>6. Len(Ahead(NewReader)) = 0
    <2>1. PICK t : Sums(t, UnreadFrom(NewReader), 0)
      BY <1>5, AheadType
    <2>2. Len(Ahead(NewReader)) = t[0] /\ t[0] = 0
      BY <1>5, <2>1, AheadPlaces DEF Sums
    <2>3. QED
      BY <2>2
  <1>7. ReaderOK(NewReader)
    BY <1>4, <1>5, <1>6 DEF ReaderOK, CursorInBounds
  <1>8. Beyond(0, TokensOf(NoResults))
    <2>1. [i \in DOMAIN NoResults.retrieval |->
             NoResults.retrieval[i].key \o NoResults.retrieval[i].data] = <<>>
      BY DEF NoResults
    <2>2. TokensOf(NoResults) = FlattenSeq(<<>>) \o FlattenSeq(<<>>)
      BY <2>1 DEF TokensOf, NoResults
    <2>3. TokensOf(NoResults) = <<>>
      BY <2>2, FlattenEmpty
    <2>4. QED
      BY <2>3, HeldEmpty DEF Beyond
  <1>9. Len(NewReader.blocks) = 0
    BY <1>4
  <1>10. Accounted(NewReader, NoResults)
    BY <1>7, <1>8, <1>9, NothingResult DEF Accounted
  <1>11. QED
    BY <1>1, <1>2, <1>3, <1>10 DEF RInv

\* The server says nothing else, or nothing yet.
LEMMA AccountServer ==
  ASSUME RInv, UNCHANGED <<reader, results, state>>,
         talk' \in Conversations \cup {NoTalk},
         DOMAIN server' = {"got", "wire", "wrote", "up"},
         server'.wire \in Seq(Byte), server'.wrote \in Nat
  PROVE  RInv'
  <1>1. ServerSpeaks'
    BY DEF ServerSpeaks
  <1>2. Accounted(reader', results') /\ Staged(state', results')
    BY DEF RInv
  <1>3. QED
    BY <1>1, <1>2 DEF RInv

LEMMA NewServerType ==
  /\ DOMAIN NewServer = {"got", "wire", "wrote", "up"}
  /\ NewServer.wire = <<>> /\ NewServer.wire \in Seq(Byte) /\ NewServer.wrote = 0
  /\ DOMAIN [NewServer EXCEPT !.up = FALSE] = {"got", "wire", "wrote", "up"}
  /\ [NewServer EXCEPT !.up = FALSE].wire \in Seq(Byte)
  /\ [NewServer EXCEPT !.up = FALSE].wrote = 0
  BY DEF NewServer

\* The results go, and the reader starts again.
LEMMA EmptiedAccount ==
  ASSUME RInv, reader' = ResetReader(Freed(reader, TokensOf(results))),
         results' = NoResults, state' = "START", ServerSpeaks'
  PROVE  RInv'
  <1>1. Accounted(reader', results')
    BY AccountedReset DEF RInv
  <1>2. Staged(state', results')
    BY StagedPlain DEF PlainStates
  <1>3. QED
    BY <1>1, <1>2 DEF RInv

LEMMA EstablishedAccount ==
  ASSUME RInv, NEW f, Established(f)
  PROVE  RInv'
  <1>1. server' = NewServer /\ talk' = talk
    BY DEF Established
  <1>2. talk' \in Conversations \cup {NoTalk}
    BY <1>1 DEF RInv, ServerSpeaks
  <1>3. CASE connect.for = "rewind"
    <2>1. /\ reader' = ResetReader(Freed(reader, TokensOf(results)))
          /\ results' = NoResults /\ state' = "START"
      BY <1>3 DEF Established, RewindParser
    <2>2. ServerSpeaks'
      BY <1>1, <1>2, NewServerType DEF ServerSpeaks
    <2>3. QED
      BY <2>1, <2>2, EmptiedAccount
  <1>4. CASE connect.for # "rewind"
    <2>1. UNCHANGED <<reader, results, state>>
      BY <1>4 DEF Established, parserVars
    <2>2. QED
      BY <1>1, <1>2, <2>1, NewServerType, AccountServer
  <1>5. QED
    BY <1>3, <1>4

LEMMA ResetAccount ==
  ASSUME RInv, Reset
  PROVE  RInv'
  <1>1. /\ reader' = ResetReader(Freed(reader, TokensOf(results)))
        /\ results' = NoResults /\ state' = "START"
        /\ talk' = NoTalk /\ server' = [server EXCEPT !.got = <<>>, !.wrote = 0]
    BY DEF Reset, ResetParser
  <1>2. DOMAIN server = {"got", "wire", "wrote", "up"} /\ server.wire \in Seq(Byte)
    BY DEF RInv, ServerSpeaks
  <1>3. ServerSpeaks'
    BY <1>1, <1>2 DEF ServerSpeaks
  <1>4. QED
    BY <1>1, <1>3, EmptiedAccount

\* The socket is closed.
LEMMA ClosedAccount ==
  ASSUME RInv, UNCHANGED <<results, state, talk>>, Accounted(reader', results),
         server' \in {server, [NewServer EXCEPT !.up = FALSE]}
  PROVE  RInv'
  <1>1. ServerSpeaks'
    BY NewServerType DEF RInv, ServerSpeaks
  <1>2. Accounted(reader', results') /\ Staged(state', results')
    BY DEF RInv
  <1>3. QED
    BY <1>1, <1>2 DEF RInv

\* recv(2) asks for the size that the reader prefers.
LEMMA ReceivedPrepares ==
  ASSUME RInv
  PROVE  /\ Accounted(Received(0), results) /\ ReaderOK(Received(0))
         /\ \E p : Prepared(p, Received(0))
         /\ PreferredSize(reader) \in Nat
  <1>1. ReaderOK(reader) /\ Accounted(reader, results) /\ MinCapacity \in Nat
    BY MinCapacityAssumption DEF RInv, Accounted
  <1>2. PreferredSize(reader) \in Nat
    <2>1. reader.preferred \in Nat
      BY <1>1 DEF ReaderOK, Shape, Readers
    <2>2. QED
      BY <1>1, <2>1 DEF PreferredSize
  <1>3. PICK p : p = PreferredTaken(reader)
    OBVIOUS
  <1>4. Prefers(reader, p)
    BY <1>1, <1>3, PreferredFree DEF PreferredTaken
  <1>5. Accounted(p, results) /\ ReaderOK(p)
    BY <1>1, <1>4, AccountedPrefers DEF Accounted
  <1>6. Received(0) = PrepareWrite(p, PreferredSize(reader))
    BY <1>3 DEF Received
  <1>7. Prepared(p, Received(0))
    BY <1>2, <1>5, <1>6, PrepareWritePrepares
  <1>8. Accounted(Received(0), results)
    BY <1>5, <1>7, AccountedPrepared
  <1>9. QED
    BY <1>2, <1>7, <1>8 DEF Accounted

\* What is prepared for recv(2) has nothing more to read, nor less.
LEMMA ReceivedSame ==
  ASSUME RInv
  PROVE  /\ Received(0).readLeft = reader.readLeft /\ Unread(Received(0)) = Unread(reader)
         /\ ReaderOK(Received(0))
  <1>1. ReaderOK(reader) /\ MinCapacity \in Nat
    BY MinCapacityAssumption DEF RInv, Accounted
  <1>2. PreferredSize(reader) \in Nat
    BY ReceivedPrepares
  <1>3. PICK p : p = PreferredTaken(reader)
    OBVIOUS
  <1>4. Prefers(reader, p)
    BY <1>1, <1>3, PreferredFree DEF PreferredTaken
  <1>5. ReaderOK(p) /\ p.readLeft = reader.readLeft /\ Ahead(p) = Ahead(reader)
    BY <1>4 DEF Prefers
  <1>6. Received(0) = PrepareWrite(p, PreferredSize(reader))
    BY <1>3 DEF Received
  <1>7. Prepared(p, Received(0))
    BY <1>2, <1>5, <1>6, PrepareWritePrepares
  <1>8. /\ Received(0).readLeft = reader.readLeft /\ Ahead(Received(0)) = Ahead(reader)
        /\ ReaderOK(Received(0))
    BY <1>5, <1>7 DEF Prepared
  <1>9. QED
    BY <1>8 DEF Unread

\* recv(2) takes bytes of the wire.
Receives(m, bytes, rest) ==
    /\ bytes \in Seq(Byte) /\ rest \in Seq(Byte) /\ Len(bytes) # 0
    /\ server.wire = bytes \o rest /\ Written(m, reader', bytes)
    /\ server'.wire = rest

LEMMA RecvReceives ==
  ASSUME RInv, Recv
  PROVE  \E bytes, rest : Receives(Received(0), bytes, rest)
  <1>1. PICK n \in 1 .. Smaller(Room, Len(server.wire)) :
          /\ reader' = Received(n)
          /\ server' = [server EXCEPT !.wire = SubSeq(server.wire, n + 1, Len(server.wire))]
    BY DEF Recv
  <1>2. PICK m, p : m = Received(0) /\ ReaderOK(m) /\ Prepared(p, m)
    BY ReceivedPrepares
  <1>3. PICK w \in Seq(Byte) : w = server.wire
    BY DEF RInv, ServerSpeaks
  <1>4. PICK k \in Nat, l \in Nat : k = WriteLeft(m.blocks[m.writeAt]) /\ l = Len(w)
    <2>1. /\ m.writeAt \in 1 .. Len(m.blocks)
          /\ Len(m.blocks[m.writeAt].data) < m.blocks[m.writeAt].capacity
      BY <1>2 DEF Prepared
    <2>2. m.blocks[m.writeAt] \in Block /\ Len(m.blocks[m.writeAt].data) \in Nat
      BY <1>2, <2>1, BlockType DEF ReaderOK
    <2>3. m.blocks[m.writeAt].capacity \in Nat
      BY <2>2 DEF Block
    <2>4. WriteLeft(m.blocks[m.writeAt]) \in Nat
      BY <2>1, <2>2, <2>3 DEF WriteLeft
    <2>5. QED
      BY <1>3, <2>4
  <1>5. PICK s \in Nat : s = PreferredSize(reader)
    BY ReceivedPrepares
  <1>6. Room = Smaller(s, k)
    BY <1>2, <1>4, <1>5 DEF Room, Writable
  <1>7. n \in Nat /\ n # 0 /\ n <= k /\ n <= l /\ n \in 1 .. l
    BY <1>1, <1>3, <1>4, <1>6 DEF Smaller
  <1>8. PICK bytes \in Seq(Byte), rest \in Seq(Byte) :
          /\ bytes = SubSeq(w, 1, n) /\ Len(bytes) = n
          /\ rest = SubSeq(w, n + 1, Len(w))
    <2>1. n \in 0 .. Len(w)
      BY <1>4, <1>7
    <2>2. /\ SubSeq(w, 1, n) \in Seq(Byte) /\ Len(SubSeq(w, 1, n)) = n
          /\ SubSeq(w, n + 1, Len(w)) \in Seq(Byte)
      BY <2>1, SubSeqParts
    <2>3. QED
      BY <2>2, Zenon
  <1>9. reader' = CommitWrite(m, bytes)
    BY <1>1, <1>2, <1>3, <1>7, <1>8 DEF Received
  <1>10. Written(m, reader', bytes)
    BY <1>2, <1>4, <1>7, <1>8, <1>9, CommitWriteWrites
  <1>11. w = bytes \o rest
    <2>1. n \in 0 .. Len(w)
      BY <1>4, <1>7
    <2>2. QED
      BY <1>8, <2>1
  <1>12. server'.wire = rest
    <2>1. DOMAIN server = {"got", "wire", "wrote", "up"}
      BY DEF RInv, ServerSpeaks
    <2>2. QED
      BY <1>1, <1>3, <1>8, <2>1
  <1>13. Receives(m, bytes, rest)
    BY <1>3, <1>7, <1>8, <1>10, <1>11, <1>12 DEF Receives
  <1>14. QED
    BY <1>2, <1>13

LEMMA RecvAccount ==
  ASSUME RInv, Recv
  PROVE  RInv'
  <1>1. PICK bytes, rest : Receives(Received(0), bytes, rest)
    BY RecvReceives
  <1>2. rest \in Seq(Byte) /\ server'.wire = rest /\ Written(Received(0), reader', bytes)
    BY <1>1 DEF Receives
  <1>3. /\ results' = results /\ talk' = talk
        /\ state' = IF IsEndState(state) THEN "START" ELSE state
    BY DEF Recv, ProcessPackets
  <1>4. Accounted(reader', results')
    <2>1. Accounted(Received(0), results)
      BY ReceivedPrepares
    <2>2. QED
      BY <1>2, <1>3, <2>1, AccountedWritten
  <1>5. Staged(state', results')
    <2>1. CASE IsEndState(state)
      BY <1>3, <2>1, StagedPlain DEF PlainStates
    <2>2. CASE ~ IsEndState(state)
      BY <1>3, <2>2 DEF RInv
    <2>3. QED
      BY <2>1, <2>2
  <1>6. ServerSpeaks'
    <2>1. /\ DOMAIN server = {"got", "wire", "wrote", "up"} /\ server.wrote \in Nat
          /\ talk \in Conversations \cup {NoTalk}
      BY DEF RInv, ServerSpeaks
    <2>2. PICK x : server' = [server EXCEPT !.wire = x]
      BY DEF Recv
    <2>3. /\ server'.wire \in Seq(Byte) /\ server'.wrote \in Nat
          /\ DOMAIN server' = {"got", "wire", "wrote", "up"}
      BY <1>2, <2>1, <2>2
    <2>4. QED
      BY <1>3, <2>1, <2>3 DEF ServerSpeaks
  <1>7. QED
    BY <1>4, <1>5, <1>6 DEF RInv

LEMMA ServerAnswersAccount ==
  ASSUME RInv, ServerAnswers
  PROVE  RInv'
  <1>1. /\ server.wrote < Len(talk.packets)
        /\ server' = [server EXCEPT !.wrote = server.wrote + 1,
                        !.wire = server.wire \o Encoded(talk.packets[server.wrote + 1])]
        /\ UNCHANGED <<reader, results, state, talk>>
    BY DEF ServerAnswers, parserVars
  <1>2. /\ DOMAIN server = {"got", "wire", "wrote", "up"} /\ server.wrote \in Nat
        /\ server.wire \in Seq(Byte) /\ talk \in Conversations \cup {NoTalk}
    BY DEF RInv, ServerSpeaks
  <1>3. talk \in Conversations
    <2>1. CASE talk = NoTalk
      <3>1. Len(talk.packets) = 0
        BY <2>1 DEF NoTalk
      <3>2. QED
        BY <1>1, <1>2, <3>1
    <2>2. QED
      BY <1>2, <2>1
  <1>4. PICK l \in Nat, i \in Nat : l = Len(talk.packets) /\ i = server.wrote
    BY <1>2, <1>3, ConversationsAssumption
  <1>5. i + 1 \in 1 .. l
    BY <1>1, <1>4
  <1>6. Encoded(talk.packets[i + 1]) \in Seq(STRING)
    BY <1>3, <1>4, <1>5, ConversationsAssumption
  <1>7. PICK e \in Seq(Byte) : e = Encoded(talk.packets[i + 1])
    <2>1. STRING \subseteq Byte
      BY DEF Byte
    <2>2. PICK x \in Seq(STRING) : x = Encoded(talk.packets[i + 1])
      BY <1>6
    <2>3. x \in Seq(Byte)
      <3>1. /\ Len(x) \in Nat /\ x \in [1 .. Len(x) -> STRING]
        BY SeqParts
      <3>2. x \in [1 .. Len(x) -> Byte]
        BY <2>1, <3>1
      <3>3. QED
        BY <3>1, <3>2, SeqMade
    <2>4. QED
      BY <2>2, <2>3
  <1>8. PICK w \in Seq(Byte) : w = server.wire
    BY <1>2
  <1>9. w \o e \in Seq(Byte)
    BY ConcatParts DEF Concat
  <1>10. server'.wire \in Seq(Byte) /\ server'.wrote \in Nat
         /\ DOMAIN server' = {"got", "wire", "wrote", "up"}
    BY <1>1, <1>2, <1>4, <1>7, <1>8, <1>9
  <1>11. QED
    BY <1>1, <1>3, <1>10, AccountServer

LEMMA StepAccount == RInv /\ [Next]_vars => RInv'
  <1> SUFFICES ASSUME RInv, [Next]_vars PROVE RInv'
    OBVIOUS
  <1>0. /\ Accounted(reader, results) /\ talk \in Conversations \cup {NoTalk}
        /\ DOMAIN server = {"got", "wire", "wrote", "up"} /\ server.wrote \in Nat
        /\ server.wire \in Seq(Byte)
    BY DEF RInv, ServerSpeaks
  <1>1. CASE NoUsableSocket \/ ConnectFails \/ Select \/ UNCHANGED vars
    <2>1. UNCHANGED accountVars
      BY <1>1 DEF NoUsableSocket, NotEstablished, ConnectFails, Select, vars, parserVars,
                  accountVars
    <2>2. QED
      BY <2>1, AccountQuiet
  <1>2. CASE ConnectSocket
    <2>1. PICK f : \/ Established(f) \/ NotEstablished(f, ~unix)
                   \/ UNCHANGED <<parserVars, talk, server>>
      BY <1>2 DEF ConnectSocket
    <2>2. CASE Established(f)
      BY <2>2, EstablishedAccount
    <2>3. CASE NotEstablished(f, ~unix) \/ UNCHANGED <<parserVars, talk, server>>
      BY <2>3, AccountQuiet DEF NotEstablished, parserVars, accountVars
    <2>4. QED
      BY <2>1, <2>2, <2>3
  <1>3. CASE PollConnect
    <2>1. CASE Established(connect.fd)
      BY <2>1, EstablishedAccount
    <2>2. CASE ~ Established(connect.fd)
      BY <1>3, <2>2, AccountQuiet
      DEF PollConnect, NotEstablished, parserVars, accountVars
    <2>3. QED
      BY <2>1, <2>2
  <1>4. CASE Dispatch
    <2>1. talk' \in Conversations /\ server' = server
          /\ UNCHANGED <<reader, results, state>>
      BY <1>4 DEF Dispatch
    <2>2. QED
      BY <1>0, <2>1, AccountServer
  <1>5. CASE Send
    <2>1. PICK x : server' = [server EXCEPT !.got = x]
      BY <1>5 DEF Send
    <2>2. UNCHANGED <<reader, results, state, talk>>
      BY <1>5 DEF Send, parserVars
    <2>3. server'.wire = server.wire /\ server'.wrote = server.wrote
          /\ DOMAIN server' = DOMAIN server
      BY <1>0, <2>1
    <2>4. QED
      BY <1>0, <2>2, <2>3, AccountServer
  <1>6. CASE ServerCloses
    <2>1. server' = [server EXCEPT !.up = FALSE]
          /\ UNCHANGED <<reader, results, state, talk>>
      BY <1>6 DEF ServerCloses, parserVars
    <2>2. server'.wire = server.wire /\ server'.wrote = server.wrote
          /\ DOMAIN server' = DOMAIN server
      BY <1>0, <2>1
    <2>3. QED
      BY <1>0, <2>1, <2>2, AccountServer
  <1>7. CASE SendFails \/ Finish \/ GiveUp
    <2>1. /\ UNCHANGED <<reader, results, state, talk>>
          /\ server' \in {server, [NewServer EXCEPT !.up = FALSE]}
      BY <1>7 DEF SendFails, Finish, GiveUp, Reconnect, parserVars
    <2>2. QED
      BY <1>0, <2>1, ClosedAccount
  <1>8. CASE RecvFails \/ PeekFails
    <2>1. /\ UNCHANGED <<results, state, talk>> /\ reader' = Received(0)
          /\ server' = [NewServer EXCEPT !.up = FALSE]
      BY <1>8 DEF RecvFails, PeekFails, Reconnect
    <2>2. Accounted(reader', results)
      BY <2>1, ReceivedPrepares
    <2>3. QED
      BY <2>1, <2>2, ClosedAccount
  <1>9. CASE Process
    BY <1>9, ParseAccount DEF Process
  <1>10. QED
    BY <1>1, <1>2, <1>3, <1>4, <1>5, <1>6, <1>7, <1>8, <1>9, RecvAccount, ResetAccount,
       ServerAnswersAccount DEF Next, ClientStep

-----------------------------------------------------------------------------
\* The invariant of the references.
THEOREM ReferencesInvariant == Spec => []RInv
  BY InitAccount, StepAccount, PTL DEF Spec

\* What BufferReader says is left to read is what follows its cursor, and a
\* block is referenced by its unread bytes and by the tokens that results own,
\* no more and no less: whatever is parsed, however the answer is cut, and
\* whenever the connection is rewound or reset.
THEOREM ReferencesExactTheorem == Spec => []ReferencesExact
  <1>1. RInv => ReferencesExact
    <2> SUFFICES ASSUME RInv PROVE ReferencesExact
      OBVIOUS
    <2>1. /\ ReaderOK(reader) /\ ResultsOK(results)
          /\ \A b \in 1 .. Len(reader.blocks) : Balance(reader, b) = HeldIn(b, TokensOf(results))
      BY DEF RInv, Accounted
    <2>2. CursorInBounds(reader) /\ reader.readLeft = Len(Unread(reader))
      BY <2>1, UnreadBytes DEF ReaderOK
    <2>3. DOMAIN reader.blocks = 1 .. Len(reader.blocks)
      BY <2>1 DEF ReaderOK, Shape, Readers
    <2>4. ASSUME NEW b \in 1 .. Len(reader.blocks)
          PROVE  reader.blocks[b].refs = UnreadIn(reader, b) + HeldIn(b, TokensOf(results))
      <3>1. /\ Balance(reader, b) = reader.blocks[b].refs - UnreadIn(reader, b)
            /\ reader.blocks[b].refs \in Int /\ UnreadIn(reader, b) \in Nat
        BY <2>1, BalanceType DEF Balance, ReaderOK
      <3>2. Balance(reader, b) = HeldIn(b, TokensOf(results))
        BY <2>1
      <3>3. PICK x \in Int, y \in Nat : x = reader.blocks[b].refs /\ y = UnreadIn(reader, b)
        BY <3>1
      <3>4. x = y + (x - y)
        OBVIOUS
      <3>5. QED
        BY <3>1, <3>2, <3>3, <3>4, Zenon
    <2>5. QED
      BY <2>2, <2>3, <2>4 DEF ReferencesExact
  <1>2. QED
    BY <1>1, ReferencesInvariant, PTL

-----------------------------------------------------------------------------
(* The request.                                                            *)

\* The bytes got are the first of the request, in buffers of the lengths F,
\* and w is to send the others; it has sent nothing if it was not begun.
Progresses(w, F, got) ==
    \E t, S : Sends(w, F, t, S) /\ got = Counting(0, S) /\ (w.readIdx = 0 => S = 0)

\* The request can be begun again.
Rewindable(w, F) == \E t, S : Sends(w, F, t, S)

Buffered == FlattenSeq(talk.iovs)

Conversing == talk \in Conversations

WInv ==
    /\ pc = "idle" => writer = NewWriter /\ server.got = <<>>
    /\ pc = "polling" => Conversing /\ Progresses(writer, Buffered, server.got)
    /\ pc = "connecting" =>
         /\ server.got = <<>>
         /\ connect.for = "idle" => writer = NewWriter
         /\ connect.for = "rewind" => Conversing /\ Rewindable(writer, Buffered)
         /\ connect.for = "resend" => Conversing /\ Progresses(writer, Buffered, <<>>)

LEMMA NothingGot == Counting(0, 0) = <<>>
  <1>1. Counting(0, 0) \in Seq(Nat) /\ Len(Counting(0, 0)) = 0
    <2>1. Counting(0, 0) \in [1 .. 0 -> Nat]
      BY DEF Counting
    <2>2. QED
      BY <2>1, SeqMade
  <1>2. QED
    BY <1>1

LEMMA BufferedType ==
  ASSUME Conversing
  PROVE  Buffered \in Seq(Nat) /\ talk.iovs \in Seq(Seq(Nat))
  <1>1. talk.iovs \in Seq(Seq(Nat))
    BY ConversationsAssumption DEF Conversing
  <1>2. QED
    BY <1>1, FlattenType DEF Buffered

LEMMA SumsOf ==
  ASSUME NEW F \in Seq(Nat)
  PROVE  \E t : Sums(t, F, Len(F))
  <1>1. PICK n \in Nat : n = Len(F) /\ F \in [1 .. n -> Nat]
    BY SeqParts
  <1>2. \E t \in [0 .. n -> Nat] : Sums(t, F, n)
    BY <1>1, SumsExist
  <1>3. QED
    BY <1>1, <1>2

LEMMA FreshProgresses ==
  ASSUME NEW F \in Seq(Nat)
  PROVE  Progresses(FoldLeft(Take, NewWriter, F), F, <<>>)
  <1>1. PICK t : Sums(t, F, Len(F))
    BY SumsOf
  <1>2. Sends(FoldLeft(Take, NewWriter, F), F, t, 0)
    BY <1>1, TakeAll, FreshSends
  <1>3. QED
    BY <1>2, NothingGot DEF Progresses

LEMMA RewindProgresses ==
  ASSUME NEW w, NEW F, Rewindable(w, F)
  PROVE  Progresses(RewindWriter(w), F, <<>>)
  <1>1. PICK t, S : Sends(w, F, t, S)
    BY DEF Rewindable
  <1>2. Sends(RewindWriter(w), F, t, 0)
    BY <1>1, RewindSends
  <1>3. QED
    BY <1>2, NothingGot DEF Progresses

LEMMA ProgressRewindable ==
  ASSUME NEW w, NEW F, NEW got, Progresses(w, F, got)
  PROVE  Rewindable(w, F)
  BY DEF Progresses, Rewindable

LEMMA NotBegun ==
  ASSUME NEW w, NEW F, NEW got, Progresses(w, F, got), w.readIdx = 0
  PROVE  Progresses(w, F, <<>>)
  <1>1. PICK t, S : Sends(w, F, t, S) /\ (w.readIdx = 0 => S = 0)
    BY DEF Progresses
  <1>2. Sends(w, F, t, 0)
    BY <1>1
  <1>3. QED
    BY <1>2, NothingGot DEF Progresses

\* A send, of what sendmsg may take.
LEMMA SendProgresses ==
  ASSUME NEW w, NEW F, NEW got, Progresses(w, F, got), w.left > 0,
         NEW n \in 1 .. LengthOf(SubSeq(ToSend(w), 1, Smaller(w.left, MaxIov))),
         w.readIdx = 0 => n >= w.iovec[1].len
  PROVE  /\ Progresses(CommitRead(w, n), F, got \o BytesOf(w, n))
         /\ IsRead(CommitRead(w, n)) /\ BytesOf(w, n) \in Seq(Nat)
  <1>1. PICK t, S : Sends(w, F, t, S) /\ got = Counting(0, S)
    BY DEF Progresses
  <1>2. PICK v, b : Pending(w, v, b, F, t, S)
    BY <1>1, PendingOf
  <1>3. S \in Nat /\ w \in Writers /\ w.left \in Nat
    BY <1>1 DEF Sends, Writers
  <1>4. PICK l \in Nat : l = w.left
    BY <1>3
  <1>5. /\ v = ToSend(w) /\ v \in Seq(IoVec) /\ Len(v) = l
        /\ b \in [0 .. l -> Nat] /\ Sums(b, Lens(v), l)
    BY <1>2, <1>4 DEF Pending
  <1>6. PICK m \in 0 .. l : m = Smaller(w.left, MaxIov)
    BY <1>4, ConnectionAssumption DEF Smaller
  <1>7. LengthOf(SubSeq(v, 1, m)) = b[m]
    BY <1>5, PrefixLength
  <1>8. b[m] \in Nat /\ b[m] <= b[l]
    <2>1. Lens(v) \in [1 .. l -> Nat]
      <3>1. \A i \in 1 .. l : v[i] \in IoVec
        BY <1>5, SeqParts
      <3>2. \A i \in 1 .. l : v[i].len \in Nat
        BY <3>1 DEF IoVec
      <3>3. QED
        BY <1>5, <3>2 DEF Lens
    <2>2. \A i \in 0 .. l : \A j \in 0 .. i : b[j] <= b[i]
      BY <1>5, <2>1, SumsGrow
    <2>3. l \in 0 .. l /\ m \in 0 .. l
      OBVIOUS
    <2>4. QED
      BY <1>5, <2>2, <2>3
  <1>9. n \in Nat /\ n # 0 /\ n <= b[w.left] /\ w.left # 0
    <2>1. n \in 1 .. b[m]
      BY <1>5, <1>6, <1>7
    <2>2. PICK x \in Nat, y \in Nat : x = b[m] /\ y = b[l] /\ x <= y
      <3>1. l \in 0 .. l
        OBVIOUS
      <3>2. b[l] \in Nat
        BY <1>5, <3>1
      <3>3. QED
        BY <1>8, <3>2
    <2>3. n \in 1 .. x
      BY <2>1, <2>2
    <2>4. n \in Nat /\ n # 0 /\ n <= y
      BY <2>2, <2>3
    <2>5. QED
      BY <1>4, <2>2, <2>4
  <1>10. w.readIdx = 0 => w.iovec[1].len <= n
    <2>1. ASSUME w.readIdx = 0
          PROVE  w.iovec[1].len <= n
      <3>1. n >= w.iovec[1].len
        BY <2>1
      <3>2. QED
        BY <3>1
    <2>2. QED
      BY <2>1
  <1>11. Sends(CommitRead(w, n), F, t, S + n) /\ CommitRead(w, n).readIdx # 0
    BY <1>1, <1>2, <1>9, <1>10, CommitSends
  <1>12. BytesOf(w, n) = Counting(S, n)
    BY <1>2, <1>3, <1>9, BytesSent
  <1>13. got \o BytesOf(w, n) = Counting(0, S + n)
    BY <1>1, <1>3, <1>9, <1>12, CountingOn
  <1>14. BytesOf(w, n) \in Seq(Nat)
    <2>1. n \in Nat /\ Counting(S, n) \in [1 .. n -> Nat]
      BY <1>3, <1>9 DEF Counting
    <2>2. QED
      BY <1>12, <2>1, SeqMade
  <1>15. QED
    BY <1>11, <1>13, <1>14 DEF Progresses, IsRead

\* A step that is not about the request.
LEMMA RequestQuiet ==
  ASSUME WInv, UNCHANGED <<pc, writer, talk>>, connect'.for = connect.for,
         server'.got = server.got
  PROVE  WInv'
  BY DEF WInv, Conversing, Buffered

LEMMA NewServerGot == NewServer.got = <<>> /\ [NewServer EXCEPT !.up = FALSE].got = <<>>
  BY DEF NewServer

\* The connection is to be made again, for what.
LEMMA ReconnectRequest ==
  ASSUME IInv, WInv, pc = "polling", UNCHANGED <<writer, talk>>,
         NEW what \in {"rewind", "resend"}, Reconnect(what),
         what = "resend" => writer.readIdx = 0
  PROVE  WInv'
  <1>1. Conversing /\ Progresses(writer, Buffered, server.got)
    BY DEF WInv
  <1>2. Conversing' /\ Buffered' = Buffered
    BY <1>1 DEF Conversing, Buffered
  <1>3. CASE pc' = "done"
    BY <1>3 DEF WInv
  <1>4. CASE pc' # "done"
    <2>1. pc' = "connecting" /\ server'.got = <<>> /\ connect' = Begun(what)
      BY <1>4, NewServerGot DEF Reconnect, Begun
    <2>2. connect'.for = what
      BY <2>1 DEF Begun, NotConnecting
    <2>3. Rewindable(writer', Buffered')
      BY <1>1, <1>2, ProgressRewindable
    <2>4. what = "resend" => Progresses(writer', Buffered', <<>>)
      BY <1>1, <1>2, NotBegun
    <2>5. QED
      BY <1>2, <2>1, <2>2, <2>3, <2>4 DEF WInv
  <1>5. QED
    BY <1>3, <1>4

LEMMA EstablishedRequest ==
  ASSUME IInv, WInv, pc = "connecting", NEW f, Established(f)
  PROVE  WInv'
  <1>1. server'.got = <<>> /\ talk' = talk
    BY NewServerGot DEF Established
  <1>2. connect.for \in {"idle", "rewind", "resend"}
    BY DEF IInv, SocketTypes, Progress
  <1>3. CASE connect.for = "idle"
    <2>1. pc' = "idle" /\ writer' = writer /\ writer = NewWriter
      BY <1>3 DEF Established, WInv
    <2>2. QED
      BY <1>1, <2>1 DEF WInv
  <1>4. CASE connect.for = "rewind"
    <2>1. pc' = "polling" /\ writer' = RewindWriter(writer)
      BY <1>4 DEF Established
    <2>2. Conversing /\ Rewindable(writer, Buffered)
      BY <1>4 DEF WInv
    <2>3. Conversing' /\ Buffered' = Buffered
      BY <1>1, <2>2 DEF Conversing, Buffered
    <2>4. Progresses(writer', Buffered', server'.got)
      BY <1>1, <2>1, <2>2, <2>3, RewindProgresses
    <2>5. QED
      BY <2>1, <2>3, <2>4 DEF WInv
  <1>5. CASE connect.for = "resend"
    <2>1. pc' = "polling" /\ writer' = writer
      BY <1>5 DEF Established
    <2>2. Conversing /\ Progresses(writer, Buffered, <<>>)
      BY <1>5 DEF WInv
    <2>3. Conversing' /\ Buffered' = Buffered
      BY <1>1, <2>2 DEF Conversing, Buffered
    <2>4. Progresses(writer', Buffered', server'.got)
      BY <1>1, <2>1, <2>2, <2>3
    <2>5. QED
      BY <2>1, <2>3, <2>4 DEF WInv
  <1>6. QED
    BY <1>2, <1>3, <1>4, <1>5

LEMMA DispatchRequest ==
  ASSUME WInv, Dispatch
  PROVE  WInv'
  <1>1. pc = "idle" /\ pc' = "polling" /\ server' = server
    BY DEF Dispatch
  <1>2. writer = NewWriter /\ server.got = <<>>
    BY <1>1 DEF WInv
  <1>3. /\ Conversing' /\ writer' = FoldLeft(Take, writer, Buffered')
    BY DEF Dispatch, Conversing, Buffered
  <1>4. Buffered' \in Seq(Nat)
    <2>1. PICK c \in Conversations : c = talk'
      BY <1>3 DEF Conversing
    <2>2. c.iovs \in Seq(Seq(Nat))
      BY ConversationsAssumption
    <2>3. FlattenSeq(c.iovs) \in Seq(Nat)
      BY <2>2, FlattenType
    <2>4. QED
      BY <2>1, <2>3 DEF Buffered
  <1>5. Progresses(FoldLeft(Take, NewWriter, Buffered'), Buffered', <<>>)
    BY <1>4, FreshProgresses
  <1>6. Progresses(writer', Buffered', server'.got)
    BY <1>1, <1>2, <1>3, <1>5
  <1>7. QED
    BY <1>1, <1>3, <1>6 DEF WInv

LEMMA SendRequest ==
  ASSUME RInv, WInv, Send
  PROVE  WInv'
  <1>1. /\ pc = "polling" /\ writer.left > 0 /\ UNCHANGED <<pc, talk>>
    BY DEF Send, Waiting
  <1>2. PICK n \in 1 .. LengthOf(SubSeq(ToSend(writer), 1, Smaller(writer.left, MaxIov))) :
          /\ ~IsRead(writer) => n >= writer.iovec[1].len
          /\ writer' = CommitRead(writer, n)
          /\ server' = [server EXCEPT !.got = @ \o BytesOf(writer, n)]
    BY DEF Send
  <1>3. server'.got = server.got \o BytesOf(writer, n)
    <2>1. "got" \in DOMAIN server
      BY DEF RInv, ServerSpeaks
    <2>2. QED
      BY <1>2, <2>1
  <1>4. Conversing /\ Progresses(writer, Buffered, server.got)
    BY <1>1 DEF WInv
  <1>5. writer.readIdx = 0 => n >= writer.iovec[1].len
    BY <1>2 DEF IsRead
  <1>6. Progresses(CommitRead(writer, n), Buffered, server.got \o BytesOf(writer, n))
    BY <1>1, <1>4, <1>5, SendProgresses
  <1>7. Conversing' /\ Buffered' = Buffered
    BY <1>1, <1>4 DEF Conversing, Buffered
  <1>8. Progresses(writer', Buffered', server'.got)
    BY <1>2, <1>3, <1>6, <1>7
  <1>9. QED
    BY <1>1, <1>7, <1>8 DEF WInv

LEMMA StepRequest ==
  ASSUME IInv, RInv, WInv, [Next]_vars
  PROVE  WInv'
  <1>0. /\ DOMAIN server = {"got", "wire", "wrote", "up"} /\ connect \in Progress
    BY DEF RInv, ServerSpeaks, IInv, SocketTypes
  <1>1. CASE NoUsableSocket
    <2>1. /\ UNCHANGED <<pc, writer, talk, server>>
          /\ connect' = [connect EXCEPT !.address = @ + 1, !.fd = NoFd, !.polls = 0]
      BY <1>1 DEF NoUsableSocket, NotEstablished
    <2>2. connect'.for = connect.for
      BY <1>0, <2>1 DEF Progress
    <2>3. QED
      BY <2>1, <2>2, RequestQuiet
  <1>2. CASE ConnectSocket
    <2>1. PICK f : \/ Established(f) \/ NotEstablished(f, ~unix)
                   \/ /\ connect' = [connect EXCEPT !.fd = f]
                      /\ UNCHANGED <<pc, writer, talk, server>>
      BY <1>2 DEF ConnectSocket
    <2>2. CASE Established(f)
      <3>1. pc = "connecting"
        BY <1>2 DEF ConnectSocket, Connecting
      <3>2. QED
        BY <2>2, <3>1, EstablishedRequest
    <2>3. CASE ~ Established(f)
      <3>1. UNCHANGED <<pc, writer, talk, server>>
        BY <2>1, <2>3 DEF NotEstablished
      <3>2. connect'.for = connect.for
        BY <1>0, <2>1, <2>3 DEF NotEstablished, Progress
      <3>3. QED
        BY <3>1, <3>2, RequestQuiet
    <2>4. QED
      BY <2>2, <2>3
  <1>3. CASE PollConnect
    <2>1. \/ Established(connect.fd) \/ NotEstablished(connect.fd, ~unix)
          \/ /\ connect' = [connect EXCEPT !.polls = @ + 1]
             /\ UNCHANGED <<pc, writer, talk, server>>
      BY <1>3 DEF PollConnect
    <2>2. CASE Established(connect.fd)
      <3>1. pc = "connecting"
        BY <1>3 DEF PollConnect, Connecting
      <3>2. QED
        BY <2>2, <3>1, EstablishedRequest
    <2>3. CASE ~ Established(connect.fd)
      <3>1. UNCHANGED <<pc, writer, talk, server>>
        BY <2>1, <2>3 DEF NotEstablished
      <3>2. connect'.for = connect.for
        BY <1>0, <2>1, <2>3 DEF NotEstablished, Progress
      <3>3. QED
        BY <3>1, <3>2, RequestQuiet
    <2>4. QED
      BY <2>2, <2>3
  <1>4. CASE ConnectFails
    <2>1. /\ pc = "connecting" /\ UNCHANGED <<writer, talk, server>>
          /\ pc' = IF connect.for = "idle" THEN "idle" ELSE "done"
      BY <1>4 DEF ConnectFails
    <2>2. QED
      BY <2>1 DEF WInv
  <1>5. CASE Select
    <2>1. /\ pc = "idle" /\ pc' = "connecting" /\ UNCHANGED <<writer, talk, server>>
          /\ connect' = [NotConnecting EXCEPT !.address = 1]
      BY <1>5 DEF Select
    <2>2. connect'.for = "idle"
      BY <2>1 DEF NotConnecting
    <2>3. QED
      BY <2>1, <2>2 DEF WInv
  <1>6. CASE SendFails
    <2>1. pc = "polling" /\ Reconnect("rewind") /\ UNCHANGED <<writer, talk>>
      BY <1>6 DEF SendFails, Waiting
    <2>2. QED
      BY <2>1, ReconnectRequest
  <1>7. CASE RecvFails
    <2>1. pc = "polling" /\ Reconnect("rewind") /\ UNCHANGED <<writer, talk>>
      BY <1>7 DEF RecvFails, Waiting
    <2>2. QED
      BY <2>1, ReconnectRequest
  <1>8. CASE PeekFails
    <2>1. pc = "polling" /\ Reconnect("resend") /\ UNCHANGED <<writer, talk>>
          /\ writer.readIdx = 0
      BY <1>8 DEF PeekFails, Waiting, IsRead
    <2>2. QED
      BY <2>1, ReconnectRequest
  <1>9. CASE Finish \/ GiveUp
    <2>1. pc' = "done"
      BY <1>9 DEF Finish, GiveUp
    <2>2. QED
      BY <2>1 DEF WInv
  <1>10. CASE Reset
    <2>1. /\ pc' = "idle" /\ writer' = NewWriter
          /\ server' = [server EXCEPT !.got = <<>>, !.wrote = 0]
      BY <1>10 DEF Reset
    <2>2. server'.got = <<>>
      BY <1>0, <2>1
    <2>3. QED
      BY <2>1, <2>2 DEF WInv
  <1>11. CASE Recv
    <2>1. /\ UNCHANGED <<pc, writer, talk, connect>>
          /\ \E n : server' = [server EXCEPT !.wire = SubSeq(@, n + 1, Len(@))]
      BY <1>11 DEF Recv, connectionVars
    <2>2. server'.got = server.got
      BY <1>0, <2>1
    <2>3. QED
      BY <2>1, <2>2, RequestQuiet
  <1>12. CASE ServerAnswers
    <2>1. /\ UNCHANGED <<pc, writer, talk, connect>>
          /\ server' = [server EXCEPT !.wrote = @ + 1,
                          !.wire = @ \o Encoded(talk.packets[server.wrote + 1])]
      BY <1>12 DEF ServerAnswers, connectionVars
    <2>2. server'.got = server.got
      BY <1>0, <2>1
    <2>3. QED
      BY <2>1, <2>2, RequestQuiet
  <1>13. CASE ServerCloses
    <2>1. /\ UNCHANGED <<pc, writer, talk, connect>>
          /\ server' = [server EXCEPT !.up = FALSE]
      BY <1>13 DEF ServerCloses, connectionVars
    <2>2. server'.got = server.got
      BY <1>0, <2>1
    <2>3. QED
      BY <2>1, <2>2, RequestQuiet
  <1>14. CASE Process
    <2>1. UNCHANGED <<pc, writer, talk, connect, server>>
      BY <1>14 DEF Process, connectionVars
    <2>2. QED
      BY <2>1, RequestQuiet
  <1>15. CASE UNCHANGED vars
    <2>1. UNCHANGED <<pc, writer, talk, connect, server>>
      BY <1>15 DEF vars, connectionVars
    <2>2. QED
      BY <2>1, RequestQuiet
  <1>16. QED
    BY <1>1, <1>2, <1>3, <1>4, <1>5, <1>6, <1>7, <1>8, <1>9, <1>10, <1>11, <1>12, <1>13,
       <1>14, <1>15, DispatchRequest, SendRequest DEF Next, ClientStep

LEMMA InitRequest == Init => WInv
  <1> SUFFICES ASSUME Init PROVE WInv
    OBVIOUS
  <1>1. pc = "idle" /\ writer = NewWriter /\ server.got = <<>>
    BY NewServerGot DEF Init
  <1>2. QED
    BY <1>1 DEF WInv

\* What is sent is the beginning of the request, in order, from its first byte.
THEOREM RequestInvariant == Spec => []WInv
  <1>1. IInv /\ RInv /\ WInv /\ [Next]_vars => WInv'
    BY StepRequest
  <1>2. QED
    BY <1>1, InitRequest, Invariant, ReferencesInvariant, PTL DEF Spec

\* The whole length of the request is that of its buffers.
LEMMA RequestWhole ==
  ASSUME Conversing, NEW t, Sums(t, Buffered, Len(Buffered))
  PROVE  Request = Counting(0, t[Len(Buffered)]) /\ t[Len(Buffered)] \in Nat
  <1>1. talk.iovs \in Seq(Seq(Nat)) /\ Buffered \in Seq(Nat)
    BY BufferedType
  <1>2. SubSeq(talk.iovs, 1, Len(talk.iovs)) = talk.iovs
    BY <1>1
  <1>3. RequestLength(Len(talk.iovs)) = Total(Buffered)
    BY <1>2 DEF RequestLength, Buffered
  <1>4. Total(Buffered) = t[Len(Buffered)] /\ Total(Buffered) \in Nat
    BY <1>1, TotalSums
  <1>5. PICK k \in Nat : k = t[Len(Buffered)] /\ k = RequestLength(Len(talk.iovs))
    BY <1>3, <1>4
  <1>6. Request = [i \in 1 .. k |-> i]
    BY <1>5 DEF Request
  <1>7. Counting(0, k) = [i \in 1 .. k |-> i]
    <2>1. \A i \in 1 .. k : 0 + i = i
      OBVIOUS
    <2>2. QED
      BY <2>1 DEF Counting
  <1>8. QED
    BY <1>5, <1>6, <1>7

\* What the server has got is the beginning of the request.
LEMMA RequestPrefix ==
  ASSUME WInv, pc = "polling"
  PROVE  IsPrefix(server.got, Request) /\ (writer.left = 0 => server.got = Request)
  <1>1. Conversing /\ Progresses(writer, Buffered, server.got)
    BY DEF WInv
  <1>2. PICK t, S : Sends(writer, Buffered, t, S) /\ server.got = Counting(0, S)
    BY <1>1 DEF Progresses
  <1>3. /\ Buffered \in Seq(Nat) /\ Sums(t, Buffered, Len(Buffered)) /\ S \in Nat
        /\ writer \in Writers /\ writer.readIdx + writer.left = Len(Buffered)
        /\ writer.left = 0 => S = t[Len(Buffered)]
        /\ writer.left # 0 => S <= t[writer.readIdx + 1]
    BY <1>2 DEF Sends
  <1>4. PICK N \in Nat : N = Len(Buffered) /\ Buffered \in [1 .. N -> Nat]
    BY <1>3, SeqParts
  <1>5. PICK k \in Nat : k = t[N] /\ Request = Counting(0, k)
    BY <1>1, <1>3, <1>4, RequestWhole
  <1>6. S <= k
    <2>1. CASE writer.left = 0
      BY <1>3, <1>4, <1>5, <2>1
    <2>2. CASE writer.left # 0
      <3>1. PICK r \in Nat, d \in Nat : r = writer.readIdx /\ d = writer.left
        BY <1>3 DEF Writers
      <3>2. r + 1 \in 0 .. N /\ N \in 0 .. N
        BY <1>3, <1>4, <2>2, <3>1, SMTT(20)
      <3>3. t[r + 1] \in Nat /\ t[r + 1] <= t[N]
        BY <1>3, <1>4, <3>2, SumsGrow
      <3>4. PICK x \in Nat : x = t[r + 1]
        BY <3>3
      <3>5. S <= x /\ x <= k
        BY <1>3, <1>5, <2>2, <3>1, <3>3, <3>4
      <3>6. QED
        BY <1>3, <3>5
    <2>3. QED
      BY <2>1, <2>2
  <1>7. writer.left = 0 => server.got = Request
    BY <1>2, <1>3, <1>4, <1>5
  <1>8. PICK l \in Nat : k = S + l
    <2>1. k - S \in Nat /\ k = S + (k - S)
      BY <1>3, <1>6
    <2>2. QED
      BY <2>1
  <1>9. PICK x \in Seq(Nat), y \in Seq(Nat) :
          x = Counting(0, S) /\ y = Counting(S, l) /\ x \o y = Request
    <2>1. Counting(0, S) \in [1 .. S -> Nat] /\ Counting(S, l) \in [1 .. l -> Nat]
      BY <1>3 DEF Counting
    <2>2. Counting(0, S) \in Seq(Nat) /\ Counting(S, l) \in Seq(Nat)
      BY <1>3, <2>1, SeqMade
    <2>3. Counting(0, S) \o Counting(S, l) = Counting(0, S + l)
      BY <1>3, CountingOn
    <2>4. QED
      BY <1>5, <1>8, <2>2, <2>3
  <1>10. IsPrefix(x, Request)
    <2>1. Len(x) <= Len(x \o y) /\ SubSeq(x, 1, Len(x)) = SubSeq(x \o y, 1, Len(x))
      OBVIOUS
    <2>2. IsPrefix(x, x \o y)
      BY <2>1 DEF IsPrefix
    <2>3. QED
      BY <1>9, <2>2
  <1>11. QED
    BY <1>2, <1>7, <1>9, <1>10

\* Whatever parts sendmsg takes, of however many iovecs at a time, and
\* however often the request is begun again on another socket, the server
\* gets the bytes of the request in order, none twice and none left out.
THEOREM RequestIntactTheorem == Spec => []RequestIntact
  <1>1. WInv => RequestIntact
    BY RequestPrefix DEF RequestIntact
  <1>2. QED
    BY <1>1, RequestInvariant, PTL

-----------------------------------------------------------------------------
(* The turns of the loop inside a value, and any turn inside a packet.     *)

LEMMA GetFlagsTurns ==
  ASSUME NEW p, NEW e, NEW o \in Nat, Facing(p, e, o), RInv, GetFlags
  PROVE  Turned(p, e, o)
  <1>1. PICK bytes :
          /\ state = "GET_FLAGS" /\ bytes = ThenSkip(ReadUnsigned(reader), 1)
          /\ IF bytes.err # "OK" THEN Leave(bytes.err)
             ELSE Goes(bytes.reader, "GET_BYTES",
                       WithCurrent([Current EXCEPT !.bytes = bytes.value,
                                                   !.remain = bytes.value + 1]))
    BY DEF GetFlags, At
  <1>2. /\ ReaderOK(reader) /\ InPacket(reader, e, o) /\ Len(e) \in Nat
        /\ \E a, b, c, n : Places(p, e, o, a, b, c, n)
    BY <1>1, InsideAt DEF GetStates
  <1>3. PICK a, b, c, n : Places(p, e, o, a, b, c, n)
    BY <1>2
  <1>4. /\ o = a /\ a \in Nat /\ b \in Nat /\ c \in Nat /\ n \in Nat /\ e \in Seq(Byte)
        /\ 6 < a /\ a + 1 < b /\ (c = b \/ b + 1 < c) /\ Len(e) = c + 1 + n + 2
        /\ (\A i \in a + 1 .. b - 1 : e[i] \in Decimals) /\ e[b] \notin Decimals
        /\ NumberOf([i \in 1 .. b - a - 1 |-> e[a + i]]) = n
    BY <1>1, <1>3 DEF Places, ValueAt, ValueLaid
  <1>5. DigitsTo(e, o, b)
    <2>1. b <= Len(e) /\ o + 1 < b
      BY ONLY <1>4
    <2>2. QED
      BY <1>2, <1>4, <2>1 DEF DigitsTo
  <1>6. /\ b - o \in Nat /\ o + (b - o) = b /\ Takes(reader, bytes, b - o, b - o)
        /\ b - o <= Len(e) - o
        /\ bytes.err = "OK" => bytes.value = NumberOf([i \in 1 .. b - o - 1 |-> e[o + i]])
    BY <1>1, <1>2, <1>5, DigitsTake
  <1>8. PICK kv : kv = [Current EXCEPT !.bytes = bytes.value, !.remain = bytes.value + 1]
    OBVIOUS
  <1>9. ASSUME bytes.err = "OK"
        PROVE  ValueAt("GET_BYTES", Last(WithCurrent(kv).retrieval), o + (b - o), n, a, b, c)
    <2>1. bytes.value = n
      BY <1>4, <1>6, <1>9
    <2>2. /\ results.retrieval # <<>> /\ Current \in Retrieval /\ ResultsOK(results)
      BY <1>1, InValue, ResultsType DEF ValueStates
    <2>3. kv \in Retrieval /\ kv.bytes = n /\ kv.remain = n + 1
      <3>1. PICK x \in Nat, y \in Nat : x = n /\ y = n + 1
        BY <1>4
      <3>2. kv = [Current EXCEPT !.bytes = x, !.remain = y]
        BY <1>8, <2>1, <3>1
      <3>3. kv \in Retrieval /\ kv.bytes = x /\ kv.remain = y
        BY ONLY <2>2, <3>2 DEF Retrieval
      <3>4. QED
        BY <3>1, <3>3
    <2>4. Last(WithCurrent(kv).retrieval) = kv
      BY <2>2, <2>3, CurrentNext
    <2>5. QED
      BY <1>6, <2>3, <2>4 DEF ValueAt
  <1>10. IF bytes.err # "OK" THEN Leave(bytes.err)
         ELSE Goes(bytes.reader, "GET_BYTES", WithCurrent(kv))
    BY <1>1, <1>8
  <1>11. QED
    BY <1>3, <1>6, <1>9, <1>10, TurnValue

\* What has been read of the value.
LEMMA CurrentIs ==
  ASSUME RInv, state \in GetStates
  PROVE  /\ results.retrieval # <<>> /\ ResultsOK(results)
         /\ Current \in Retrieval /\ Current = Last(results.retrieval)
  <1>1. results.retrieval # <<>>
    BY DEF RInv, Staged, GetStates
  <1>2. QED
    BY <1>1, CurrentType

LEMMA GetBytesTurns ==
  ASSUME NEW p, NEW e, NEW o \in Nat, Facing(p, e, o), RInv, GetBytes
  PROVE  Turned(p, e, o)
  <1>1. PICK next, cas :
          /\ state = "GET_BYTES" /\ next = Peek(reader, 0) /\ cas = ThenSkip(ReadUnsigned(reader), 1)
          /\ IF next.err # "OK" THEN Leave(next.err)
             ELSE IF next.byte = "LF"
               THEN Goes(reader, "GET_CAS", WithCurrent([Current EXCEPT !.cas = 0]))
             ELSE IF cas.err # "OK" THEN Leave(cas.err)
             ELSE Goes(cas.reader, "GET_CAS", WithCurrent([Current EXCEPT !.cas = cas.value]))
    BY DEF GetBytes, At
  <1>2. /\ ReaderOK(reader) /\ InPacket(reader, e, o) /\ Len(e) \in Nat
        /\ \E a, b, c, n : Places(p, e, o, a, b, c, n)
    BY <1>1, InsideAt DEF GetStates
  <1>3. PICK a, b, c, n : Places(p, e, o, a, b, c, n)
    BY <1>2
  <1>4. /\ results.retrieval # <<>> /\ ResultsOK(results)
        /\ Current \in Retrieval /\ Current = Last(results.retrieval)
    BY <1>1, CurrentIs DEF GetStates
  <1>5. /\ o = b /\ a \in Nat /\ b \in Nat /\ c \in Nat /\ n \in Nat /\ e \in Seq(Byte)
        /\ Current.bytes = n /\ Current.remain = n + 1
        /\ 6 < a /\ a + 1 < b /\ Len(e) = c + 1 + n + 2 /\ e[c] = "CR" /\ e[c + 1] = "LF"
        /\ \/ c = b
           \/ b + 1 < c /\ \A i \in b + 1 .. c - 1 : e[i] \in Decimals
    BY <1>1, <1>3, <1>4 DEF Places, ValueAt, ValueLaid
  <1>6. /\ o + 0 < Len(e) /\ 1 <= Len(e) - o /\ o + (0 + 1) = b + 1
        /\ b + 1 < c => b + 1 \in b + 1 .. c - 1
    <2>1. c = b \/ b + 1 < c
      BY <1>5
    <2>2. QED
      BY ONLY <1>5, <2>1
  <1>7. /\ Takes(reader, next, 0, 1)
        /\ next.err = "OK" => next.byte = e[b + 1]
    BY <1>1, <1>2, <1>6, PeekTakes
  <1>8. ASSUME NEW v \in Nat, NEW kv, kv = [Current EXCEPT !.cas = v]
        PROVE  ValueAt("GET_CAS", Last(WithCurrent(kv).retrieval), c, n, a, b, c)
    <2>1. kv \in Retrieval /\ kv.bytes = Current.bytes /\ kv.remain = Current.remain
      BY <1>4, <1>8 DEF Retrieval
    <2>2. Last(WithCurrent(kv).retrieval) = kv
      BY <1>4, <2>1, CurrentNext
    <2>3. QED
      BY <1>5, <2>1, <2>2 DEF ValueAt
  <1>9. CASE next.err # "OK"
    BY <1>1, <1>6, <1>7, <1>9, TurnLeaves
  <1>10. CASE next.err = "OK" /\ e[b + 1] = "LF"
    <2>1. c = b
      BY <1>5, <1>6, <1>10, NotDigits
    <2>2. PICK kv : kv = [Current EXCEPT !.cas = 0]
      OBVIOUS
    <2>3. ValueAt("GET_CAS", Last(WithCurrent(kv).retrieval), c, n, a, b, c)
      BY <1>8, <2>2
    <2>4. PICK read : read = [err |-> "OK", reader |-> reader]
      OBVIOUS
    <2>5. Takes(reader, read, 0, 0)
      BY <1>2, <2>4, AdvancesNot DEF Takes
    <2>6. IF read.err # "OK" THEN Leave(read.err)
          ELSE Goes(read.reader, "GET_CAS", WithCurrent(kv))
      BY <1>1, <1>7, <1>10, <2>2, <2>4
    <2>7. o + 0 = c /\ 0 <= Len(e) - o
      BY <1>5, <1>6, <2>1
    <2>8. ValueAt("GET_CAS", Last(WithCurrent(kv).retrieval), o + 0, n, a, b, c)
      BY <2>3, <2>7
    <2>9. QED
      BY <1>3, <2>5, <2>6, <2>7, <2>8, TurnValue
  <1>11. CASE next.err = "OK" /\ e[b + 1] # "LF"
    <2>1. b + 1 < c /\ \A i \in b + 1 .. c - 1 : e[i] \in Decimals
      BY <1>5, <1>11
    <2>2. DigitsTo(e, o, c)
      <3>1. c <= Len(e)
        BY ONLY <1>5
      <3>2. QED
        BY <1>2, <1>5, <2>1, <3>1, NotDigits DEF DigitsTo
    <2>3. /\ c - o \in Nat /\ o + (c - o) = c /\ Takes(reader, cas, c - o, c - o)
          /\ c - o <= Len(e) - o
      <3>1. /\ c - o \in Nat /\ o + (c - o) = c /\ c - o <= Len(e) - o
            /\ Takes(reader, ThenSkip(ReadUnsigned(reader), 1), c - o, c - o)
        BY <1>2, <2>2, DigitsTake, ZenonT(30)
      <3>2. cas = ThenSkip(ReadUnsigned(reader), 1)
        BY <1>1
      <3>3. QED
        BY <3>1, <3>2, Zenon
    <2>4. PICK kv : kv = [Current EXCEPT !.cas = cas.value]
      OBVIOUS
    <2>5. IF cas.err # "OK" THEN Leave(cas.err)
          ELSE Goes(cas.reader, "GET_CAS", WithCurrent(kv))
      BY <1>1, <1>7, <1>11, <2>4
    <2>6. ASSUME cas.err = "OK"
          PROVE  ValueAt("GET_CAS", Last(WithCurrent(kv).retrieval), o + (c - o), n, a, b, c)
      <3>1. cas.value \in Nat
        BY <1>1, <1>2, <2>6, NumberRead
      <3>2. QED
        BY <1>8, <2>3, <2>4, <3>1
    <2>7. QED
      BY <1>3, <2>3, <2>5, <2>6, TurnValue
  <1>12. QED
    BY <1>9, <1>10, <1>11

LEMMA GetCasTurns ==
  ASSUME NEW p, NEW e, NEW o \in Nat, Facing(p, e, o), RInv, GetCas
  PROVE  Turned(p, e, o)
  <1>1. PICK skip, kv :
          /\ state = "GET_CAS" /\ skip = SkipBytes(reader, 1)
          /\ kv = [Current EXCEPT !.remain = Current.remain - 1]
          /\ IF skip.err # "OK" THEN Leave(skip.err)
             ELSE Goes(skip.reader, "GET_VALUE_REMAINING", WithCurrent(kv))
    BY DEF GetCas, At
  <1>2. /\ ReaderOK(reader) /\ InPacket(reader, e, o) /\ Len(e) \in Nat
        /\ \E a, b, c, n : Places(p, e, o, a, b, c, n)
    BY <1>1, InsideAt DEF GetStates
  <1>3. PICK a, b, c, n : Places(p, e, o, a, b, c, n)
    BY <1>2
  <1>4. /\ results.retrieval # <<>> /\ ResultsOK(results)
        /\ Current \in Retrieval /\ Current = Last(results.retrieval)
    BY <1>1, CurrentIs DEF GetStates
  <1>5. /\ o = c /\ c \in Nat /\ n \in Nat
        /\ Current.bytes = n /\ Current.remain = n + 1 /\ Len(e) = c + 1 + n + 2
    BY <1>1, <1>3, <1>4 DEF Places, ValueAt, ValueLaid
  <1>6. Takes(reader, skip, 1, 1)
    BY <1>1, <1>2, SkipTakes
  <1>7. 1 <= Len(e) - o /\ Current.remain - 1 = n
    BY ONLY <1>5
  <1>8. kv \in Retrieval /\ kv.bytes = n /\ kv.remain = n
    BY <1>1, <1>4, <1>5, <1>7 DEF Retrieval
  <1>9. ValueAt("GET_VALUE_REMAINING", Last(WithCurrent(kv).retrieval), o + 1, n, a, b, c)
    <2>1. Last(WithCurrent(kv).retrieval) = kv
      BY <1>4, <1>8, CurrentNext
    <2>2. QED
      BY <1>5, <1>8, <2>1 DEF ValueAt
  <1>10. QED
    BY <1>1, <1>3, <1>6, <1>7, <1>9, TurnValue

LEMMA GetValueEndTurns ==
  ASSUME NEW p, NEW e, NEW o \in Nat, Facing(p, e, o), RInv, GetValueEnd
  PROVE  Turned(p, e, o)
  <1>1. PICK skip :
          /\ state = "GET_VALUE_REMAINING" /\ Current.remain = 0 /\ skip = SkipBytes(reader, 2)
          /\ IF skip.err # "OK" THEN Leave(skip.err) ELSE Goes(skip.reader, "START", results)
    BY DEF GetValueEnd, At
  <1>2. /\ ReaderOK(reader) /\ InPacket(reader, e, o) /\ Len(e) \in Nat
        /\ \E a, b, c, n : Places(p, e, o, a, b, c, n)
    BY <1>1, InsideAt DEF GetStates
  <1>3. PICK a, b, c, n : Places(p, e, o, a, b, c, n)
    BY <1>2
  <1>4. Current = Last(results.retrieval)
    BY <1>1, CurrentIs DEF GetStates
  <1>5. /\ c \in Nat /\ n \in Nat /\ Len(e) = c + 1 + n + 2 /\ p.type = "VALUE"
        /\ o = c + 1 + n \/ (n = 0 /\ o = c + 1)
    BY <1>1, <1>3, <1>4 DEF Places, ValueAt, ValueLaid
  <1>6. o + 2 = Len(e) /\ 2 <= Len(e) - o
    BY ONLY <1>5
  <1>7. Takes(reader, skip, 2, 2)
    BY <1>1, <1>2, SkipTakes
  <1>8. CASE skip.err # "OK"
    <2>1. Leave(skip.err)
      BY <1>1, <1>8
    <2>2. QED
      BY <1>6, <1>7, <1>8, <2>1, TurnLeaves
  <1>9. CASE skip.err = "OK"
    <2>1. Goes(skip.reader, "START", results)
      BY <1>1, <1>9
    <2>2. Ended(p, "START", keyIdx, keyIdx)
      BY <1>5 DEF Ended
    <2>3. QED
      BY <1>6, <1>7, <1>9, <2>1, <2>2, TurnGoes
  <1>10. QED
    BY <1>8, <1>9

LEMMA HintedPrefers ==
  ASSUME NEW n \in Nat, Current.bytes = n, ReaderOK(reader)
  PROVE  ReaderOK(Hinted(reader)) /\ Prefers(reader, Hinted(reader))
  <1>1. reader.readLeft \in Nat
    BY UnreadBytes
  <1>2. CASE reader.readLeft < n + 2
    <2>1. PICK size \in Nat : size = n + 2 - reader.readLeft
      BY <1>1, <1>2
    <2>2. Hinted(reader) = [reader EXCEPT !.preferred = size]
      BY <1>2, <2>1 DEF Hinted
    <2>3. Prefers(reader, Hinted(reader))
      BY <2>2, PreferredFree
    <2>4. QED
      BY <2>3 DEF Prefers
  <1>3. CASE ~ (reader.readLeft < n + 2)
    <2>1. Hinted(reader) = reader
      BY <1>3 DEF Hinted
    <2>2. Prefers(reader, reader)
      BY DEF Prefers
    <2>3. QED
      BY <2>1, <2>2
  <1>4. QED
    BY <1>2, <1>3

LEMMA GetValueTurns ==
  ASSUME NEW p, NEW e, NEW o \in Nat, Facing(p, e, o), RInv, GetValue
  PROVE  Turned(p, e, o)
  <1>1. PICK h, data, kv :
          /\ state = "GET_VALUE_REMAINING" /\ Current.remain > 0
          /\ h = Hinted(reader) /\ data = ReadBytes(h, Current.bytes)
          /\ kv = [Current EXCEPT !.data = data.token, !.remain = 0]
          /\ IF data.err # "OK"
               THEN /\ reader' = data.reader /\ outcome' = data.err
                    /\ UNCHANGED <<state, keyIdx, results>>
               ELSE Goes(data.reader, state, WithCurrent(kv))
    BY DEF GetValue, At
  <1>2. /\ ReaderOK(reader) /\ InPacket(reader, e, o) /\ Len(e) \in Nat
        /\ \E a, b, c, n : Places(p, e, o, a, b, c, n)
    BY <1>1, InsideAt DEF GetStates
  <1>3. PICK a, b, c, n : Places(p, e, o, a, b, c, n)
    BY <1>2
  <1>4. /\ results.retrieval # <<>> /\ ResultsOK(results)
        /\ Current \in Retrieval /\ Current = Last(results.retrieval)
    BY <1>1, CurrentIs DEF GetStates
  <1>5. Current.remain # 0
    <2>1. Current.remain \in Nat
      BY <1>4 DEF Retrieval
    <2>2. QED
      BY <1>1, <2>1
  <1>6. /\ o = c + 1 /\ c \in Nat /\ n \in Nat /\ Current.bytes = n /\ p.type = "VALUE"
        /\ Len(e) = c + 1 + n + 2
    BY <1>1, <1>3, <1>4, <1>5 DEF Places, ValueAt, ValueLaid
  <1>7. n <= Len(e) - o /\ o + n = c + 1 + n
    BY ONLY <1>6
  <1>8. ReaderOK(h) /\ Prefers(reader, h)
    BY <1>1, <1>2, <1>6, HintedPrefers
  <1>9. Takes(h, data, n, n)
    BY <1>1, <1>6, <1>8, BytesTake
  <1>10. /\ Reads(reader, h, 0) /\ \A m, len : Reads(h, m, len) => Reads(reader, m, len)
         /\ h.readLeft = reader.readLeft
    <2>1. h.readLeft = reader.readLeft
      BY <1>8 DEF Prefers
    <2>2. QED
      BY <1>2, <1>8, <2>1, PrefersReads
  <1>11. data = Incomplete(h) \/ Gives(h, data, n)
    <2>1. h.readLeft \in Nat
      BY <1>8, UnreadBytes
    <2>2. /\ n > h.readLeft => ReadBytes(h, n) = Incomplete(h)
          /\ n <= h.readLeft => Gives(h, ReadBytes(h, n), n)
      BY <1>6, <1>8, ReadBytesOutcome
    <2>3. n > h.readLeft \/ n <= h.readLeft
      BY <1>6, <2>1
    <2>4. QED
      BY <1>1, <1>6, <2>2, <2>3
  <1>12. CASE data.err # "OK"
    <2>1. data.reader = h /\ data.err = "INCOMPLETE_BUFFER_ERR"
      BY <1>11, <1>12 DEF Incomplete, Gives
    <2>2. /\ reader' = h /\ outcome' = "INCOMPLETE_BUFFER_ERR"
          /\ UNCHANGED <<state, keyIdx, results>>
      BY <1>1, <1>12, <2>1
    <2>3. reader.readLeft < n
      BY <1>9, <1>10, <2>1 DEF Takes
    <2>4. reader.readLeft < Len(e) - o
      <3>1. reader.readLeft \in Nat /\ Len(e) - o \in Int
        BY <1>2, UnreadBytes
      <3>2. QED
        BY <1>6, <1>7, <2>3, <3>1
    <2>5. Stays(e, o)
      BY <1>10, <2>2, <2>4 DEF Stays
    <2>6. QED
      BY <2>5 DEF Turned
  <1>13. CASE data.err = "OK"
    <2>1. Goes(data.reader, "GET_VALUE_REMAINING", WithCurrent(kv))
      BY <1>1, <1>13
    <2>2. Advances(h, data.reader, n)
      BY <1>9, <1>13 DEF Takes
    <2>3. Reads(reader, data.reader, n)
      BY <1>8, <1>10, <2>2, AdvancesReads
    <2>4. kv \in Retrieval /\ kv.remain = 0
      <3>1. data.token \in Seq(Slice)
        BY <1>11, <1>13 DEF Incomplete, Gives, Charges
      <3>2. QED
        BY <1>1, <1>4, <3>1 DEF Retrieval
    <2>5. Last(WithCurrent(kv).retrieval) = kv
      BY <1>4, <2>4, CurrentNext
    <2>6. ValueAt("GET_VALUE_REMAINING", Last(WithCurrent(kv).retrieval), o + n, n, a, b, c)
      BY <1>7, <2>4, <2>5 DEF ValueAt
    <2>7. Within(p, o + n, "GET_VALUE_REMAINING", WithCurrent(kv))
      BY <1>3, <2>6 DEF Places, Within, Inside
    <2>8. /\ outcome' = "running" /\ reader' = data.reader /\ state' = "GET_VALUE_REMAINING"
          /\ results' = WithCurrent(kv) /\ keyIdx' = keyIdx
      BY <2>1 DEF Goes, Facing
    <2>9. Advancing(p, e, o, n)
      BY <1>6, <2>3, <2>7, <2>8 DEF Advancing
    <2>10. QED
      BY <1>6, <2>9 DEF Turned
  <1>14. QED
    BY <1>12, <1>13

\* Whatever turn it is.
LEMMA PacketTurns ==
  ASSUME NEW p, NEW e, NEW o \in Nat, Facing(p, e, o), RInv, Parse, ~ EndParse
  PROVE  Turned(p, e, o)
  BY StartTurns, GetStartTurns, GetKeyTurns, GetFlagsTurns, GetBytesTurns, GetCasTurns,
     GetValueTurns, GetValueEndTurns, IncrDecrStartTurns, IncrDecrRemainingTurns, ReadLineTurns
  DEF Parse

-----------------------------------------------------------------------------
(* The answer as a stream of bytes.                                        *)

Due(c) == [i \in 1 .. Len(c.packets) |-> Encoded(c.packets[i])]
Stream(c) == FlattenSeq(Due(c))

\* t[k] is where the first k packets end.
Laid(c, t) ==
    t \in [0 .. Len(c.packets) -> Nat] /\ Sums(t, LengthsOf(Due(c)), Len(c.packets))

LEMMA DueIs ==
  ASSUME NEW c \in Conversations, Answered(c)
  PROVE  /\ Len(c.packets) \in Nat \ {0} /\ Due(c) \in Seq(Seq(Byte)) /\ Len(Due(c)) = Len(c.packets)
         /\ \A i \in 1 .. Len(c.packets) :
              /\ Packet(c.packets[i], Due(c)[i]) /\ Due(c)[i] \in Seq(Byte)
              /\ Len(Due(c)[i]) \in Nat \ {0}
  <1>1. PICK n \in Nat : n = Len(c.packets)
    BY ConversationsAssumption
  <1>2. n # 0 /\ \A i \in 1 .. n : WellFormed(c.packets[i])
    <2>1. Len(c.packets) # 0 /\ \A i \in 1 .. Len(c.packets) : WellFormed(c.packets[i])
      BY Zenon DEF Answered
    <2>2. QED
      BY <1>1, <2>1
  <1>3. PICK d : d = Due(c) /\ d = [i \in 1 .. n |-> Encoded(c.packets[i])]
    BY <1>1 DEF Due
  <1>4. ASSUME NEW i \in 1 .. n
        PROVE  Packet(c.packets[i], d[i]) /\ d[i] \in Seq(Byte) /\ Len(d[i]) \in Nat \ {0}
    <2>1. Packet(c.packets[i], d[i])
      BY <1>2, <1>3 DEF Packet
    <2>2. d[i] \in Seq(Byte) /\ Len(d[i]) # 0
      BY <2>1, FirstByte
    <2>3. Len(d[i]) \in Nat
      BY <2>2, SeqParts
    <2>4. QED
      BY <2>1, <2>2, <2>3
  <1>5. d \in [1 .. n -> Seq(Byte)]
    BY <1>3, <1>4
  <1>6. d \in Seq(Seq(Byte)) /\ Len(d) = n
    BY <1>5, SeqMade
  <1>7. QED
    BY <1>1, <1>2, <1>3, <1>4, <1>6

LEMMA LaidExists ==
  ASSUME NEW c \in Conversations, Answered(c)
  PROVE  \E t : Laid(c, t)
  <1>1. PICK n \in Nat, d \in Seq(Seq(Byte)) :
          /\ n = Len(c.packets) /\ d = Due(c) /\ Len(d) = n
          /\ \A i \in 1 .. n : Len(d[i]) \in Nat
    BY DueIs
  <1>2. LengthsOf(d) \in [1 .. n -> Nat]
    BY <1>1 DEF LengthsOf
  <1>3. \E t \in [0 .. n -> Nat] : Sums(t, LengthsOf(d), n)
    BY <1>2, SumsExist
  <1>4. QED
    BY <1>1, <1>3 DEF Laid

\* The next packet e, in the stream.
NextIn(c, t, k, e) ==
    /\ Packet(c.packets[k + 1], e) /\ e \in Seq(Byte) /\ Len(e) \in Nat \ {0}
    /\ t[k] \in Nat /\ t[k + 1] \in Nat /\ t[k + 1] = t[k] + Len(e)
    /\ \A j \in 1 .. Len(e) : Stream(c)[t[k] + j] = e[j]

LEMMA NextIs ==
  ASSUME NEW c \in Conversations, Answered(c), NEW t, Laid(c, t), NEW k \in Nat, k < Len(c.packets)
  PROVE  NextIn(c, t, k, Encoded(c.packets[k + 1]))
  <1>1. PICK n \in Nat, d \in Seq(Seq(Byte)) :
          /\ n = Len(c.packets) /\ d = Due(c) /\ Len(d) = n
          /\ \A i \in 1 .. n : /\ Packet(c.packets[i], d[i]) /\ d[i] \in Seq(Byte)
                               /\ Len(d[i]) \in Nat \ {0}
    BY DueIs
  <1>2. k + 1 \in 1 .. n /\ (k + 1) - 1 = k /\ k \in 0 .. n /\ k + 1 \in 0 .. n
    BY <1>1
  <1>3. d[k + 1] = Encoded(c.packets[k + 1])
    BY <1>1, <1>2 DEF Due
  <1>4. t \in [0 .. n -> Nat] /\ Sums(t, LengthsOf(d), n)
    BY <1>1 DEF Laid
  <1>5. t[k + 1] = t[k] + Len(d[k + 1])
    <2>1. LengthsOf(d)[k + 1] = Len(d[k + 1])
      BY <1>1, <1>2 DEF LengthsOf
    <2>2. t[k + 1] = t[(k + 1) - 1] + LengthsOf(d)[k + 1]
      BY <1>2, <1>4 DEF Sums
    <2>3. QED
      BY <1>2, <2>1, <2>2
  <1>6. Placed(Stream(c), d, t, n)
    <2>1. Placed(FlattenSeq(d), d, t, Len(d))
      BY <1>1, <1>4, Flattened
    <2>2. QED
      BY <1>1, <2>1 DEF Stream
  <1>7. \A j \in 1 .. Len(d[k + 1]) : Stream(c)[t[k] + j] = d[k + 1][j]
    BY <1>2, <1>6 DEF Placed
  <1>8. t[k] \in Nat /\ t[k + 1] \in Nat
    BY <1>2, <1>4
  <1>9. Packet(c.packets[k + 1], d[k + 1]) /\ d[k + 1] \in Seq(Byte) /\ Len(d[k + 1]) \in Nat \ {0}
    BY <1>1, <1>2
  <1>10. NextIn(c, t, k, d[k + 1])
    BY <1>5, <1>7, <1>8, <1>9 DEF NextIn
  <1>11. QED
    BY <1>3, <1>10

\* No packet is empty.
LEMMA LaidGrows ==
  ASSUME NEW c \in Conversations, Answered(c), NEW t, Laid(c, t),
         NEW k \in 0 .. Len(c.packets)
  PROVE  /\ t[0] = 0 /\ t[k] \in Nat /\ t[Len(c.packets)] \in Nat
         /\ t[k] <= t[Len(c.packets)]
         /\ t[k] = t[Len(c.packets)] => k = Len(c.packets)
  <1>1. PICK n \in Nat, d \in Seq(Seq(Byte)) :
          /\ n = Len(c.packets) /\ d = Due(c) /\ Len(d) = n
          /\ \A i \in 1 .. n : Len(d[i]) \in Nat
    BY DueIs
  <1>2. t \in [0 .. n -> Nat] /\ Sums(t, LengthsOf(d), n) /\ LengthsOf(d) \in [1 .. n -> Nat]
    BY <1>1 DEF Laid, LengthsOf
  <1>3. \A i \in 0 .. n : \A j \in 0 .. i : t[j] <= t[i]
    BY <1>2, SumsGrow
  <1>4. t[0] = 0 /\ n \in 0 .. n /\ k \in 0 .. n /\ t[k] \in Nat /\ t[n] \in Nat /\ t[k] <= t[n]
    <2>1. n \in 0 .. n /\ k \in 0 .. n
      BY <1>1
    <2>2. t[0] = 0
      BY <1>2 DEF Sums
    <2>3. QED
      BY <1>2, <1>3, <2>1, <2>2
  <1>5. ASSUME k < n
        PROVE  t[k] # t[n]
    <2>1. NextIn(c, t, k, Encoded(c.packets[k + 1]))
      BY <1>1, <1>5, NextIs
    <2>2. PICK e : /\ Len(e) \in Nat \ {0} /\ t[k + 1] \in Nat /\ t[k + 1] = t[k] + Len(e)
      BY <2>1 DEF NextIn
    <2>3. k + 1 \in 0 .. n
      BY <1>4, <1>5
    <2>4. t[k + 1] <= t[n]
      BY <1>3, <1>4, <2>3
    <2>5. QED
      BY <1>4, <2>2, <2>4
  <1>6. QED
    BY <1>1, <1>4, <1>5

\* q are the bytes of F from x to e.
Follows(q, F, x, e) ==
    /\ q \in Seq(Byte) /\ x \in Nat /\ e \in Nat /\ x + Len(q) = e
    /\ \A i \in 1 .. Len(q) : q[i] = F[x + i]

\* More is written.
LEMMA FollowsMore ==
  ASSUME NEW q, NEW F, NEW x, NEW e, Follows(q, F, x, e), NEW v \in Seq(Byte),
         \A i \in 1 .. Len(v) : F[e + i] = v[i]
  PROVE  Follows(q \o v, F, x, e + Len(v))
  <1>1. /\ q \in Seq(Byte) /\ x \in Nat /\ e \in Nat /\ x + Len(q) = e
        /\ \A i \in 1 .. Len(q) : q[i] = F[x + i]
    BY DEF Follows
  <1>2. PICK z \in Seq(Byte), m \in Nat, n \in Nat :
          z = q \o v /\ m = Len(q) /\ n = Len(v) /\ Concat(z, q, v, m, n)
    <2>1. PICK z \in Seq(Byte) : Concat(z, q, v, Len(q), Len(v))
      BY <1>1, ConcatParts
    <2>2. Len(q) \in Nat /\ Len(v) \in Nat /\ z = q \o v
      BY <1>1, <2>1, SeqParts DEF Concat
    <2>3. QED
      BY <2>1, <2>2
  <1>3. /\ Len(z) = m + n /\ (\A i \in 1 .. m : z[i] = q[i]) /\ \A i \in 1 .. n : z[m + i] = v[i]
    BY <1>2 DEF Concat
  <1>4. PICK X \in Nat, E \in Nat : X = x /\ E = e /\ X + m = E
    BY <1>1, <1>2
  <1>5. ASSUME NEW i \in 1 .. m + n
        PROVE  z[i] = F[x + i]
    <2>1. CASE i <= m
      <3>1. i \in 1 .. m
        BY <2>1
      <3>2. QED
        BY <1>1, <1>2, <1>3, <3>1
    <2>2. CASE ~ (i <= m)
      <3>1. PICK j \in 1 .. n : j = i - m /\ i = m + j /\ X + i = E + j
        BY <1>4, <2>2
      <3>2. z[m + j] = v[j] /\ F[E + j] = v[j]
        BY <1>2, <1>3, <1>4, <3>1
      <3>3. QED
        BY <1>4, <3>1, <3>2
    <2>3. QED
      BY <2>1, <2>2
  <1>6. x + (m + n) = e + n /\ e + n \in Nat
    BY <1>4
  <1>7. QED
    BY <1>1, <1>2, <1>3, <1>5, <1>6 DEF Follows

\* What is unread, and then what is on the wire.
LEMMA FollowsReads ==
  ASSUME NEW r, ReaderOK(r), NEW m, NEW len, Reads(r, m, len), NEW w \in Seq(Byte),
         NEW F, NEW x, NEW e, Follows(Unread(r) \o w, F, x, e)
  PROVE  Follows(Unread(m) \o w, F, x + len, e) /\ len \in Nat
  <1>1. PICK u \in Seq(Byte), a \in Nat : u = Unread(r) /\ a = Len(u) /\ r.readLeft = a
    BY UnreadBytes
  <1>2. /\ ReaderOK(m) /\ len \in 0 .. a /\ m.readLeft = a - len
        /\ \A i \in 1 .. m.readLeft : Unread(m)[i] = u[len + i]
    BY <1>1 DEF Reads
  <1>3. PICK v \in Seq(Byte), b \in Nat : v = Unread(m) /\ b = Len(v) /\ m.readLeft = b
    BY <1>2, UnreadBytes
  <1>4. PICK y \in Seq(Byte), z \in Seq(Byte), n \in Nat :
          /\ y = u \o w /\ z = v \o w /\ n = Len(w)
          /\ Concat(y, u, w, a, n) /\ Concat(z, v, w, b, n)
    <2>1. PICK y \in Seq(Byte) : Concat(y, u, w, Len(u), Len(w))
      BY ConcatParts
    <2>2. PICK z \in Seq(Byte) : Concat(z, v, w, Len(v), Len(w))
      BY ConcatParts
    <2>3. y = u \o w /\ z = v \o w /\ Len(w) \in Nat
      BY <2>1, <2>2, SeqParts DEF Concat
    <2>4. QED
      BY <1>1, <1>3, <2>1, <2>2, <2>3
  <1>5. /\ Len(y) = a + n /\ (\A i \in 1 .. a : y[i] = u[i]) /\ (\A i \in 1 .. n : y[a + i] = w[i])
        /\ Len(z) = b + n /\ (\A i \in 1 .. b : z[i] = v[i]) /\ \A i \in 1 .. n : z[b + i] = w[i]
    BY <1>4 DEF Concat
  <1>6. x \in Nat /\ e \in Nat /\ x + (a + n) = e /\ \A i \in 1 .. a + n : y[i] = F[x + i]
    BY <1>1, <1>4, <1>5 DEF Follows
  <1>7. len \in Nat /\ b + len = a /\ \A i \in 1 .. b : v[i] = u[len + i]
    BY <1>2, <1>3
  <1>8. ASSUME NEW i \in 1 .. b + n
        PROVE  z[i] = F[(x + len) + i]
    <2>1. len + i \in 1 .. a + n /\ x + (len + i) = (x + len) + i
      BY <1>6, <1>7
    <2>2. CASE i <= b
      <3>1. i \in 1 .. b /\ len + i \in 1 .. a
        BY <1>7, <2>2
      <3>2. z[i] = v[i] /\ v[i] = u[len + i] /\ y[len + i] = u[len + i]
        BY <1>5, <1>7, <3>1
      <3>3. QED
        BY <1>6, <2>1, <3>2
    <2>3. CASE ~ (i <= b)
      <3>1. PICK j \in 1 .. n : j = i - b /\ i = b + j /\ len + i = a + j
        BY <1>7, <2>3
      <3>2. z[b + j] = w[j] /\ y[a + j] = w[j]
        BY <1>5, <3>1
      <3>3. QED
        BY <1>6, <2>1, <3>1, <3>2
    <2>4. QED
      BY <2>2, <2>3
  <1>9. (x + len) + (b + n) = e /\ x + len \in Nat
    BY <1>6, <1>7, SMTT(20)
  <1>10. Follows(z, F, x + len, e)
    BY <1>4, <1>5, <1>6, <1>8, <1>9 DEF Follows
  <1>11. QED
    BY <1>3, <1>4, <1>7, <1>10

\* The unread bytes are those of the packet that is being read.
LEMMA FollowsInPacket ==
  ASSUME NEW r, ReaderOK(r), NEW w \in Seq(Byte), NEW c, NEW t, NEW k \in Nat, NEW e,
         NextIn(c, t, k, e), NEW o \in Nat, NEW y,
         Follows(Unread(r) \o w, Stream(c), t[k] + o, y)
  PROVE  InPacket(r, e, o)
  <1>1. PICK u \in Seq(Byte), a \in Nat : u = Unread(r) /\ a = Len(u) /\ r.readLeft = a
    BY UnreadBytes
  <1>2. PICK z \in Seq(Byte), n \in Nat : z = u \o w /\ n = Len(w) /\ Concat(z, u, w, a, n)
    <2>1. PICK z \in Seq(Byte) : Concat(z, u, w, Len(u), Len(w))
      BY ConcatParts
    <2>2. z = u \o w /\ Len(w) \in Nat
      BY <2>1, SeqParts DEF Concat
    <2>3. QED
      BY <1>1, <2>1, <2>2
  <1>3. Len(z) = a + n /\ \A i \in 1 .. a : z[i] = u[i]
    BY <1>2 DEF Concat
  <1>4. PICK b \in Nat, l \in Nat : b = t[k] /\ l = Len(e)
    BY DEF NextIn
  <1>5. \A j \in 1 .. l : Stream(c)[b + j] = e[j]
    BY <1>4 DEF NextIn
  <1>6. \A i \in 1 .. a + n : z[i] = Stream(c)[(b + o) + i]
    BY <1>1, <1>2, <1>3, <1>4 DEF Follows
  <1>7. ASSUME NEW i \in 1 .. a, i <= l - o
        PROVE  u[i] = e[o + i]
    <2>1. o + i \in 1 .. l /\ (b + o) + i = b + (o + i) /\ i \in 1 .. a + n
      BY <1>7
    <2>2. u[i] = z[i] /\ z[i] = Stream(c)[b + (o + i)]
      BY <1>3, <1>6, <2>1
    <2>3. Stream(c)[b + (o + i)] = e[o + i]
      BY <1>5, <2>1
    <2>4. QED
      BY <2>2, <2>3
  <1>8. QED
    BY <1>1, <1>4, <1>7 DEF InPacket

-----------------------------------------------------------------------------
(* Where the parser stands in the answer.                                  *)

\* k packets of c have been read, and o bytes of the next one.
Stands(c, k, o, s, rs) ==
    \/ k < Len(c.packets) /\ Within(c.packets[k + 1], o, s, rs)
    \/ /\ k = Len(c.packets) /\ o = 0
       /\ \/ c.mode = "END_STATE" /\ s = "END"
          \/ c.mode = "COUNTING" /\ s = "START" /\ k = Len(c.keys)

Counted(c, k) == IF c.mode = "COUNTING" THEN k ELSE 0

LEMMA TypesApart ==
  ASSUME NEW x
  PROVE  /\ x \in {"VALUE", "STAT"} => x \notin LastLines /\ x \notin Replies /\ x \notin Refusals
         /\ x \in LastLines => x \notin Replies /\ x \notin Refusals
         /\ x \in Replies => x \notin Refusals
  <1>1. /\ LastLines = {"END", "OK", "VERSION"} /\ Refusals = {"ERROR", "SERVER_ERROR", "CLIENT_ERROR", "JUNK"}
        /\ Replies = {"STORED", "NOT_STORED", "EXISTS", "DELETED", "NOT_FOUND", "TOUCHED", "NUMBER"}
    BY DEF LastLines, Replies, MessageTypes, Refusals
  <1>2. QED
    BY <1>1

\* A packet that ends is the last one, or the next one is to be read.
Comes(c, k, s, i, j) ==
    j = Counted(c, k) /\ \A rs : Stands(c, k, 0, s, rs)

LEMMA EndedNext ==
  ASSUME NEW c \in Conversations, Answered(c), NEW k \in Nat, k < Len(c.packets),
         NEW s, NEW j, Ended(c.packets[k + 1], s, Counted(c, k), j)
  PROVE  Comes(c, k + 1, s, Counted(c, k), j)
  <1>1. PICK n \in Nat : n = Len(c.packets)
    BY ConversationsAssumption
  <1>2. PICK y : y = c.packets[k + 1].type
    OBVIOUS
  <1>3. \/ y \in {"VALUE", "STAT"} /\ s = "START" /\ j = Counted(c, k)
        \/ y \in LastLines /\ s = "END" /\ j = Counted(c, k)
        \/ y \in Replies /\ s = "START" /\ j = Counted(c, k) + 1
    BY <1>2 DEF Ended
  <1>4. \/ /\ c.mode = "END_STATE"
           /\ \A i \in 1 .. n - 1 : c.packets[i].type \in {"VALUE", "STAT"}
           /\ c.packets[n].type \in LastLines \cup Refusals
        \/ /\ c.mode = "COUNTING" /\ n <= Len(c.keys) /\ Len(c.keys) \in Nat
           /\ \A i \in 1 .. n - 1 : c.packets[i].type \in Replies
           /\ c.packets[n].type \in Replies \cup Refusals
           /\ n < Len(c.keys) => c.packets[n].type \in Refusals
    <2>1. Len(c.keys) \in Nat
      BY SeqParts DEF Answered
    <2>2. QED
      BY <1>1, <2>1 DEF Answered
  <1>5. (k + 1 \in 1 .. n - 1 /\ k + 1 < n) \/ k + 1 = n
    BY <1>1
  <1>6. k + 1 < n => \A rs : Stands(c, k + 1, 0, "START", rs)
    BY <1>1 DEF Stands, Within
  <1>7. CASE c.mode = "END_STATE"
    <2>1. Counted(c, k) = 0 /\ Counted(c, k + 1) = 0
      BY <1>7 DEF Counted
    <2>2. CASE k + 1 < n
      <3>1. y \in {"VALUE", "STAT"}
        BY <1>2, <1>4, <1>5, <1>7, <2>2
      <3>2. s = "START" /\ j = 0
        BY <1>3, <2>1, <3>1, TypesApart
      <3>3. QED
        BY <1>6, <2>1, <2>2, <3>2 DEF Comes
    <2>3. CASE k + 1 = n
      <3>1. y \in LastLines \cup Refusals
        BY <1>2, <1>4, <1>7, <2>3
      <3>2. s = "END" /\ j = 0
        BY <1>3, <2>1, <3>1, TypesApart
      <3>3. \A rs : Stands(c, k + 1, 0, "END", rs)
        BY <1>1, <1>7, <2>3 DEF Stands
      <3>4. QED
        BY <2>1, <3>2, <3>3 DEF Comes
    <2>4. QED
      BY <1>5, <2>2, <2>3
  <1>8. CASE c.mode = "COUNTING"
    <2>1. Counted(c, k) = k /\ Counted(c, k + 1) = k + 1
      BY <1>8 DEF Counted
    <2>2. y \in Replies \cup Refusals
      BY <1>2, <1>4, <1>5, <1>8
    <2>3. y \in Replies /\ y \notin Refusals /\ s = "START" /\ j = k + 1
      BY <1>3, <2>1, <2>2, TypesApart
    <2>4. CASE k + 1 < n
      BY <1>6, <2>1, <2>3, <2>4 DEF Comes
    <2>5. CASE k + 1 = n
      <3>1. n = Len(c.keys)
        <4>1. PICK l \in Nat : l = Len(c.keys) /\ n <= l
          BY <1>4, <1>8
        <4>2. ~ (n < l)
          BY <1>2, <1>4, <1>8, <2>3, <2>5, <4>1
        <4>3. QED
          BY <4>1, <4>2
      <3>2. \A rs : Stands(c, k + 1, 0, "START", rs)
        BY <1>1, <1>8, <2>5, <3>1 DEF Stands
      <3>3. QED
        BY <2>1, <2>3, <3>2 DEF Comes
    <2>6. QED
      BY <1>5, <2>4, <2>5
  <1>9. QED
    BY <1>4, <1>7, <1>8

\* q is what comes, unread or on the wire, of the first wrote packets.
Tracks(q, wrote, s, rs, ki, c, t, k, o) ==
    /\ Laid(c, t) /\ wrote \in 0 .. Len(c.packets) /\ k \in 0 .. Len(c.packets) /\ o \in Nat
    /\ Follows(q, Stream(c), t[k] + o, t[wrote])
    /\ ki = Counted(c, k) /\ Stands(c, k, o, s, rs)

Keeps(q, wrote, s, rs, ki, c) == \E t, k, o : Tracks(q, wrote, s, rs, ki, c, t, k, o)

\* Nothing has come.
LEMMA KeepsFresh ==
  ASSUME NEW c \in Conversations, Answered(c), NEW rs
  PROVE  Keeps(<<>>, 0, "START", rs, 0, c)
  <1>1. PICK t : Laid(c, t)
    BY LaidExists
  <1>2. Len(c.packets) \in Nat \ {0} /\ 0 \in 0 .. Len(c.packets)
    BY DueIs
  <1>3. t[0] = 0
    BY <1>1, <1>2, LaidGrows
  <1>4. Follows(<<>>, Stream(c), t[0] + 0, t[0])
    BY <1>3 DEF Follows
  <1>5. Stands(c, 0, 0, "START", rs) /\ Counted(c, 0) = 0
    BY <1>2 DEF Stands, Within, Counted
  <1>6. Tracks(<<>>, 0, "START", rs, 0, c, t, 0, 0)
    BY <1>1, <1>2, <1>4, <1>5 DEF Tracks
  <1>7. QED
    BY <1>6 DEF Keeps

\* The server writes another packet.
LEMMA KeepsMore ==
  ASSUME NEW c \in Conversations, Answered(c), NEW q, NEW wrote, NEW s, NEW rs, NEW ki,
         Keeps(q, wrote, s, rs, ki, c), wrote < Len(c.packets)
  PROVE  Keeps(q \o Encoded(c.packets[wrote + 1]), wrote + 1, s, rs, ki, c)
  <1>1. PICK t, k, o : Tracks(q, wrote, s, rs, ki, c, t, k, o)
    BY DEF Keeps
  <1>2. PICK n \in Nat : n = Len(c.packets)
    BY DueIs
  <1>3. /\ Laid(c, t) /\ wrote \in 0 .. n /\ wrote < n /\ k \in 0 .. n /\ o \in Nat
        /\ Follows(q, Stream(c), t[k] + o, t[wrote])
        /\ ki = Counted(c, k) /\ Stands(c, k, o, s, rs)
    BY <1>1, <1>2 DEF Tracks
  <1>4. PICK e : e = Encoded(c.packets[wrote + 1])
    OBVIOUS
  <1>5. NextIn(c, t, wrote, e)
    BY <1>2, <1>3, <1>4, NextIs
  <1>6. /\ e \in Seq(Byte) /\ t[wrote + 1] = t[wrote] + Len(e)
        /\ \A j \in 1 .. Len(e) : Stream(c)[t[wrote] + j] = e[j]
    BY <1>5 DEF NextIn
  <1>7. Follows(q \o e, Stream(c), t[k] + o, t[wrote] + Len(e))
    BY <1>3, <1>6, FollowsMore
  <1>8. Follows(q \o e, Stream(c), t[k] + o, t[wrote + 1])
    BY <1>6, <1>7
  <1>9. wrote + 1 \in 0 .. n
    BY <1>3
  <1>10. Tracks(q \o e, wrote + 1, s, rs, ki, c, t, k, o)
    BY <1>2, <1>3, <1>8, <1>9 DEF Tracks
  <1>11. QED
    BY <1>4, <1>10 DEF Keeps

\* All has been read, or a packet is being read.
LEMMA KeepsReading ==
  ASSUME NEW c \in Conversations, Answered(c), NEW q, NEW wrote, NEW s, NEW rs, NEW ki,
         NEW t, NEW k, NEW o, Tracks(q, wrote, s, rs, ki, c, t, k, o)
  PROVE  \/ k \in Nat /\ k < Len(c.packets) /\ Within(c.packets[k + 1], o, s, rs)
         \/ /\ k = Len(c.packets) /\ q = <<>> /\ wrote = Len(c.packets)
            /\ \/ c.mode = "END_STATE" /\ s = "END"
               \/ c.mode = "COUNTING" /\ s = "START" /\ Len(c.packets) = Len(c.keys)
  <1>1. PICK n \in Nat : n = Len(c.packets)
    BY DueIs
  <1>2. /\ Laid(c, t) /\ wrote \in 0 .. n /\ k \in 0 .. n
        /\ Follows(q, Stream(c), t[k] + o, t[wrote]) /\ Stands(c, k, o, s, rs)
    BY <1>1 DEF Tracks
  <1>3. CASE k < n
    BY <1>1, <1>2, <1>3 DEF Stands
  <1>4. CASE k = n
    <2>1. /\ o = 0
          /\ \/ c.mode = "END_STATE" /\ s = "END"
             \/ c.mode = "COUNTING" /\ s = "START" /\ n = Len(c.keys)
      BY <1>1, <1>2, <1>4 DEF Stands
    <2>2. PICK a \in Nat, b \in Nat : a = t[n] /\ b = t[wrote] /\ b <= a /\ (b = a => wrote = n)
      BY <1>1, <1>2, LaidGrows
    <2>3. q \in Seq(Byte) /\ Len(q) \in Nat /\ (a + 0) + Len(q) = b
      BY <1>2, <1>4, <2>1, <2>2, SeqParts DEF Follows
    <2>4. PICK l \in Nat : l = Len(q) /\ (a + 0) + l = b
      BY <2>3
    <2>5. l = 0 /\ b = a
      BY ONLY <2>2, <2>4, a \in Nat, b \in Nat, l \in Nat
    <2>6. q = <<>>
      <3>1. q \in Seq(Byte) /\ Len(q) = 0
        BY <2>3, <2>4, <2>5
      <3>2. QED
        BY ONLY <3>1
    <2>7. QED
      BY <1>1, <1>4, <2>1, <2>2, <2>5, <2>6
  <1>5. QED
    BY <1>1, <1>2, <1>3, <1>4

-----------------------------------------------------------------------------
(* A turn of the loop, in the stream.                                      *)

LEMMA TurnAt ==
  ASSUME Parse, ~ EndParse
  PROVE  outcome = "running" /\ ~ CanEndParse
  <1>1. CASE Start
    BY <1>1 DEF Start, StartIncomplete, StartValue, StartLine, StartEnd, StartMessage, StartError,
                StartNumber, StartUnknown, Starts, At
  <1>2. CASE GetStart \/ GetKey \/ GetFlags \/ GetBytes \/ GetCas \/ GetValue \/ GetValueEnd
    BY <1>2 DEF GetStart, GetKey, GetFlags, GetBytes, GetCas, GetValue, GetValueEnd, At
  <1>3. CASE IncrDecrStart \/ IncrDecrRemaining \/ ReadLine
    BY <1>3 DEF IncrDecrStart, IncrDecrRemaining, ReadLine, At
  <1>4. QED
    BY <1>1, <1>2, <1>3 DEF Parse

\* q is what the parser of c has before it.
Parsed(c, q, wrote, w) ==
    /\ RInv /\ outcome = "running" /\ mode = c.mode /\ requestKeys = c.keys
    /\ w \in Seq(Byte) /\ q = Unread(reader) \o w
    /\ Keeps(q, wrote, state, results, keyIdx, c)

LEMMA EndKeeps ==
  ASSUME NEW c \in Conversations, Answered(c), NEW q, NEW wrote, NEW w, Parsed(c, q, wrote, w)
  PROVE  CanEndParse => /\ q = <<>> /\ wrote = Len(c.packets)
                        /\ c.mode = "COUNTING" => Len(c.iovs) = Len(c.packets)
  <1>1. PICK n \in Nat : n = Len(c.packets)
    BY DueIs
  <1>2. /\ mode = c.mode /\ requestKeys = c.keys
        /\ Keeps(q, wrote, state, results, keyIdx, c)
    BY DEF Parsed
  <1>3. PICK t, k, o : Tracks(q, wrote, state, results, keyIdx, c, t, k, o)
    BY <1>2 DEF Keeps
  <1>4. \/ k \in Nat /\ k < n /\ Within(c.packets[k + 1], o, state, results)
        \/ q = <<>> /\ wrote = n /\ (c.mode = "COUNTING" => n = Len(c.keys))
    BY <1>1, <1>3, KeepsReading
  <1>5. CASE k \in Nat /\ k < n /\ Within(c.packets[k + 1], o, state, results)
    <2>1. ~ IsEndState(state)
      BY <1>5, WithinIn DEF IsEndState, GetStates
    <2>2. CASE c.mode = "END_STATE"
      BY <1>2, <2>1, <2>2 DEF CanEndParse
    <2>3. CASE c.mode = "COUNTING"
      <3>1. keyIdx = k
        BY <1>3, <2>3 DEF Tracks, Counted
      <3>2. n <= Len(c.keys) /\ Len(c.keys) \in Nat
        BY <1>1, <2>3, SeqParts DEF Answered
      <3>3. keyIdx # Len(requestKeys)
        BY <1>2, <1>5, <3>1, <3>2
      <3>4. QED
        BY <1>2, <2>3, <3>3 DEF CanEndParse
    <2>4. QED
      BY <2>2, <2>3 DEF Answered
  <1>6. CASE q = <<>> /\ wrote = n /\ (c.mode = "COUNTING" => n = Len(c.keys))
    <2>1. c.mode = "COUNTING" => Len(c.iovs) = Len(c.keys)
      BY DEF Answered
    <2>2. QED
      BY <1>1, <1>6, <2>1
  <1>7. QED
    BY <1>4, <1>5, <1>6

\* All has been read: the loop ends.
LEMMA ReadEnds ==
  ASSUME NEW c \in Conversations, Answered(c), NEW q, NEW wrote, NEW w, Parsed(c, q, wrote, w),
         NEW t, NEW k, NEW o, Tracks(q, wrote, state, results, keyIdx, c, t, k, o),
         ~ CanEndParse
  PROVE  k \in Nat /\ k < Len(c.packets) /\ Within(c.packets[k + 1], o, state, results)
  <1>1. /\ mode = c.mode /\ requestKeys = c.keys
    BY DEF Parsed
  <1>2. SUFFICES ASSUME /\ k = Len(c.packets)
                        /\ \/ c.mode = "END_STATE" /\ state = "END"
                           \/ c.mode = "COUNTING" /\ Len(c.packets) = Len(c.keys)
                 PROVE  FALSE
    BY KeepsReading
  <1>3. keyIdx = Counted(c, k)
    BY DEF Tracks
  <1>4. CASE c.mode = "END_STATE" /\ state = "END"
    BY <1>1, <1>4 DEF CanEndParse, IsEndState
  <1>5. CASE c.mode = "COUNTING" /\ Len(c.packets) = Len(c.keys)
    BY <1>1, <1>2, <1>3, <1>5 DEF CanEndParse, Counted
  <1>6. QED
    BY <1>2, <1>4, <1>5

\* Not all of the packet is unread: the rest is to be written or on the wire.
LEMMA Awaits ==
  ASSUME NEW c \in Conversations, Answered(c), NEW w \in Seq(Byte), ReaderOK(reader), NEW wrote,
         NEW s, NEW rs, NEW ki, NEW t, NEW k \in Nat, NEW o, k < Len(c.packets),
         Tracks(Unread(reader) \o w, wrote, s, rs, ki, c, t, k, o),
         NEW e, NextIn(c, t, k, e), reader.readLeft < Len(e) - o
  PROVE  wrote < Len(c.packets) \/ w # <<>>
  <1>1. PICK n \in Nat : n = Len(c.packets)
    BY DueIs
  <1>2. SUFFICES ASSUME w = <<>>, wrote = n PROVE FALSE
    BY <1>1 DEF Tracks
  <1>3. PICK u \in Seq(Byte), a \in Nat : u = Unread(reader) /\ a = Len(u) /\ reader.readLeft = a
    BY UnreadBytes
  <1>4. Unread(reader) \o w = u
    BY <1>2, <1>3
  <1>5. Follows(u, Stream(c), t[k] + o, t[n]) /\ o \in Nat /\ Laid(c, t)
    BY <1>1, <1>2, <1>4 DEF Tracks
  <1>6. PICK b \in Nat, d \in Nat, l \in Nat : b = t[k] /\ d = t[k + 1] /\ l = Len(e) /\ d = b + l
    BY DEF NextIn
  <1>7. k + 1 \in 0 .. n
    BY <1>1
  <1>8. PICK f \in Nat : f = t[n] /\ d <= f
    BY <1>1, <1>5, <1>6, <1>7, LaidGrows
  <1>9. (b + o) + a = f
    BY <1>3, <1>5, <1>6, <1>8 DEF Follows
  <1>10. a < l - o
    BY <1>3, <1>6
  <1>11. PICK x \in Nat : x = o
    BY <1>5
  <1>12. d = b + l /\ d <= f
    BY <1>6, <1>8
  <1>13. (b + x) + a = f /\ a < l - x
    BY <1>9, <1>10, <1>11
  <1>14. QED
    BY ONLY <1>12, <1>13, a \in Nat, b \in Nat, d \in Nat, l \in Nat, f \in Nat, x \in Nat

Turns(c, wrote, w) ==
    /\ outcome' \in {"running", "INCOMPLETE_BUFFER_ERR"}
    /\ Keeps(Unread(reader') \o w, wrote, state', results', keyIdx', c)
    /\ outcome' = "INCOMPLETE_BUFFER_ERR" => wrote < Len(c.packets) \/ w # <<>>

LEMMA TurnKeeps ==
  ASSUME NEW c \in Conversations, Answered(c), NEW q, NEW wrote, NEW w, Parsed(c, q, wrote, w),
         Parse, ~ EndParse
  PROVE  Fails \/ Turns(c, wrote, w)
  <1>1. /\ RInv /\ outcome = "running" /\ w \in Seq(Byte) /\ q = Unread(reader) \o w
        /\ Keeps(q, wrote, state, results, keyIdx, c) /\ ~ CanEndParse
    BY TurnAt DEF Parsed
  <1>2. ReaderOK(reader)
    BY <1>1, ResultsType
  <1>3. PICK t, k, o : Tracks(q, wrote, state, results, keyIdx, c, t, k, o)
    BY <1>1 DEF Keeps
  <1>4. PICK p : p = c.packets[k + 1]
    OBVIOUS
  <1>5. k \in Nat /\ k < Len(c.packets) /\ Within(p, o, state, results)
    BY <1>1, <1>3, <1>4, ReadEnds
  <1>6. /\ Laid(c, t) /\ o \in Nat /\ wrote \in 0 .. Len(c.packets)
        /\ Follows(Unread(reader) \o w, Stream(c), t[k] + o, t[wrote])
        /\ keyIdx = Counted(c, k)
    BY <1>1, <1>3 DEF Tracks
  <1>7. PICK e : e = Encoded(p)
    OBVIOUS
  <1>8. NextIn(c, t, k, e)
    BY <1>4, <1>5, <1>6, <1>7, NextIs
  <1>9. Packet(p, e)
    BY <1>4, <1>8 DEF NextIn
  <1>10. InPacket(reader, e, o)
    BY <1>1, <1>2, <1>5, <1>6, <1>8, FollowsInPacket
  <1>11. Facing(p, e, o)
    BY <1>1, <1>2, <1>5, <1>9, <1>10 DEF Facing
  <1>12. Turned(p, e, o)
    BY <1>1, <1>6, <1>11, PacketTurns
  <1>13. CASE Stays(e, o)
    <2>1. /\ outcome' = "INCOMPLETE_BUFFER_ERR" /\ Reads(reader, reader', 0)
          /\ state' = state /\ results' = results /\ keyIdx' = keyIdx
          /\ reader.readLeft < Len(e) - o
      BY <1>13 DEF Stays
    <2>2. Follows(Unread(reader') \o w, Stream(c), (t[k] + o) + 0, t[wrote])
      BY <1>1, <1>2, <1>6, <2>1, FollowsReads
    <2>3. (t[k] + o) + 0 = t[k] + o
      BY <1>6, <1>8 DEF NextIn
    <2>4. Follows(Unread(reader') \o w, Stream(c), t[k] + o, t[wrote])
      BY <2>2, <2>3
    <2>5. Tracks(Unread(reader') \o w, wrote, state', results', keyIdx', c, t, k, o)
      BY <1>3, <2>1, <2>4 DEF Tracks
    <2>6. wrote < Len(c.packets) \/ w # <<>>
      BY <1>1, <1>2, <1>3, <1>5, <1>8, <2>1, Awaits
    <2>7. QED
      BY <2>1, <2>5, <2>6 DEF Turns, Keeps
  <1>14. ASSUME NEW len \in Nat, Advancing(p, e, o, len)
         PROVE  Turns(c, wrote, w)
    <2>1. /\ outcome' = "running" /\ Reads(reader, reader', len)
          /\ \/ Within(p, o + len, state', results') /\ keyIdx' = keyIdx
             \/ o + len = Len(e) /\ Ended(p, state', keyIdx, keyIdx')
      BY <1>14 DEF Advancing
    <2>2. Follows(Unread(reader') \o w, Stream(c), (t[k] + o) + len, t[wrote])
      BY <1>1, <1>2, <1>6, <2>1, FollowsReads
    <2>3. PICK b \in Nat, d \in Nat, l \in Nat : /\ b = t[k] /\ d = t[k + 1] /\ l = Len(e) /\ d = b + l
      BY <1>8 DEF NextIn
    <2>4. (b + o) + len = b + (o + len) /\ o + len \in Nat
      BY <1>6
    <2>5. CASE Within(p, o + len, state', results') /\ keyIdx' = keyIdx
      <3>1. Follows(Unread(reader') \o w, Stream(c), t[k] + (o + len), t[wrote])
        BY <2>2, <2>3, <2>4
      <3>2. Stands(c, k, o + len, state', results')
        BY <1>4, <1>5, <2>5 DEF Stands
      <3>3. k \in 0 .. Len(c.packets)
        BY <1>3 DEF Tracks
      <3>4. Tracks(Unread(reader') \o w, wrote, state', results', keyIdx', c, t, k, o + len)
        BY <1>6, <2>4, <2>5, <3>1, <3>2, <3>3 DEF Tracks
      <3>5. QED
        BY <2>1, <3>4 DEF Turns, Keeps
    <2>6. CASE o + len = Len(e) /\ Ended(p, state', keyIdx, keyIdx')
      <3>1. (b + o) + len = d + 0
        BY <2>3, <2>4, <2>6
      <3>2. Follows(Unread(reader') \o w, Stream(c), t[k + 1] + 0, t[wrote])
        BY <2>2, <2>3, <3>1
      <3>3. Comes(c, k + 1, state', Counted(c, k), keyIdx')
        BY <1>4, <1>5, <1>6, <2>6, EndedNext
      <3>4. keyIdx' = Counted(c, k + 1) /\ Stands(c, k + 1, 0, state', results')
        BY <3>3 DEF Comes
      <3>5. k + 1 \in 0 .. Len(c.packets)
        BY <1>3, <1>5 DEF Tracks
      <3>6. Tracks(Unread(reader') \o w, wrote, state', results', keyIdx', c, t, k + 1, 0)
        BY <1>6, <3>2, <3>4, <3>5 DEF Tracks
      <3>7. QED
        BY <2>1, <3>6 DEF Turns, Keeps
    <2>7. QED
      BY <2>1, <2>5, <2>6
  <1>15. QED
    BY <1>12, <1>13, <1>14 DEF Turned

-----------------------------------------------------------------------------
(* The invariant of the answer.                                            *)

\* What the command of the conversation set.
Commanded == Conversing /\ mode = talk.mode /\ requestKeys = talk.keys
Untold == talk = NoTalk /\ requestKeys = <<>>

\* Nothing of an answer has been received or parsed.
Unparsed == state = "START" /\ keyIdx = 0 /\ outcome = "none" /\ reader.readLeft = 0
Silent == server.wire = <<>> /\ server.wrote = 0

\* The parser stands where the bytes that it has not read begin.
Coming == Unread(reader) \o server.wire
Tracked == Keeps(Coming, server.wrote, state, results, keyIdx, talk)

\* All of the answer has been read.
AllRead ==
    /\ reader.readLeft = 0 /\ server.wire = <<>> /\ server.wrote = Len(talk.packets)
    /\ talk.mode = "COUNTING" => Len(talk.iovs) = Len(talk.packets)

\* The server has got what it has answered.
Needed(n) == IF talk.mode = "COUNTING" THEN n ELSE Len(talk.iovs)
Asked ==
    server.wrote # 0 => IsPrefix(SubSeq(Request, 1, RequestLength(Needed(server.wrote))), server.got)

Lacking == server.wrote < Len(talk.packets) \/ server.wire # <<>>

Answering ==
    /\ Commanded /\ Asked
    /\ ~ IsRead(writer) => Unparsed
    /\ outcome \notin Failures => Tracked
    /\ outcome = "OK" => AllRead
    /\ outcome = "INCOMPLETE_BUFFER_ERR" => Lacking

Stations ==
    /\ outcome = "running" => pc = "polling"
    /\ pc = "idle" => Unparsed /\ Silent /\ Untold
    /\ pc = "connecting" =>
         /\ Silent
         /\ connect.for = "idle" => Unparsed /\ Untold
         /\ connect.for # "idle" => Commanded /\ ~ server.up
         /\ connect.for = "resend" => Unparsed
    /\ pc = "polling" => Answering
    /\ pc = "done" =>
         /\ Commanded
         /\ ok => AllRead /\ server.got = Request
         /\ ~ ok => Silent /\ ~ server.up

States == {"START", "GET_START", "GET_KEY", "GET_FLAGS", "GET_BYTES", "GET_CAS",
           "GET_VALUE_REMAINING", "INCR_DECR_START", "INCR_DECR_REMAINING", "VER_START",
           "STAT_START", "END", "ERROR"}

ParserTypes ==
    /\ state \in States
    /\ outcome \in {"none", "running", "OK", "INCOMPLETE_BUFFER_ERR"} \cup Failures
    /\ keyIdx \in 0 .. Len(requestKeys) /\ ok \in BOOLEAN

Balanced == writer.readIdx + writer.left = Len(writer.iovec)

\* At every step of the command, what there is of the answer and how far the
\* parser is in it.
PInv == ParserTypes /\ Balanced /\ Stations
-----------------------------------------------------------------------------
(* Steps that are not about the answer, or before it.                      *)

LEMMA ServerFields ==
  ASSUME RInv
  PROVE  /\ DOMAIN server = {"got", "wire", "wrote", "up"}
         /\ server.wire \in Seq(Byte) /\ server.wrote \in Nat
         /\ ReaderOK(reader) /\ talk \in Conversations \cup {NoTalk}
  BY DEF RInv, ServerSpeaks, Accounted

LEMMA AnswerQuiet ==
  ASSUME PInv, UNCHANGED <<pc, writer, reader, mode, requestKeys, state, keyIdx, results,
                           outcome, ok, talk>>,
         connect'.for = connect.for, server'.wire = server.wire,
         server'.wrote = server.wrote, server'.got = server.got, server'.up => server.up
  PROVE  PInv'
  <1>1. ParserTypes' /\ Balanced'
    BY DEF PInv, ParserTypes, Balanced
  <1>2. /\ Commanded' = Commanded /\ Untold' = Untold /\ Unparsed' = Unparsed
        /\ Silent' = Silent /\ Tracked' = Tracked /\ AllRead' = AllRead /\ Lacking' = Lacking
    BY DEF Commanded, Conversing, Untold, Unparsed, Silent, Tracked, Coming, AllRead, Lacking
  <1>3. Request' = Request /\ Asked' = Asked
    BY DEF Request, RequestLength, Asked, Needed
  <1>4. Answering' = Answering
    BY <1>2, <1>3 DEF Answering
  <1>5. Stations'
    <2>1. Stations
      BY DEF PInv
    <2>2. /\ outcome' = "running" => pc' = "polling"
          /\ pc' = "idle" => Unparsed' /\ Silent' /\ Untold'
          /\ pc' = "polling" => Answering'
      BY <1>2, <1>4, <2>1 DEF Stations
    <2>3. pc' = "connecting" =>
            /\ Silent'
            /\ connect'.for = "idle" => Unparsed' /\ Untold'
            /\ connect'.for # "idle" => Commanded' /\ ~ server'.up
            /\ connect'.for = "resend" => Unparsed'
      BY <1>2, <2>1 DEF Stations
    <2>4. pc' = "done" =>
            /\ Commanded'
            /\ ok' => AllRead' /\ server'.got = Request'
            /\ ~ ok' => Silent' /\ ~ server'.up
      BY <1>2, <1>3, <2>1 DEF Stations
    <2>5. QED
      BY <2>2, <2>3, <2>4 DEF Stations
  <1>6. QED
    BY <1>1, <1>5 DEF PInv

\* A command is in progress.
LEMMA ToPolling ==
  ASSUME pc' = "polling", ParserTypes', Balanced', Answering'
  PROVE  PInv'
  <1>1. Stations'
    BY DEF Stations
  <1>2. QED
    BY <1>1 DEF PInv

LEMMA PollingBalanced ==
  ASSUME WInv', pc' = "polling"
  PROVE  Balanced'
  <1>1. Progresses(writer', Buffered', server'.got)
    BY DEF WInv
  <1>2. PICK F : Progresses(writer', F, server'.got)
    BY <1>1
  <1>3. PICK t, S : Sends(writer', F, t, S)
    BY <1>2 DEF Progresses
  <1>4. QED
    BY <1>3 DEF Sends, Balanced

\* The command is over.
LEMMA ToDone ==
  ASSUME PInv, pc' = "done", ok' = FALSE, outcome' # "running",
         UNCHANGED <<mode, requestKeys, state, keyIdx, outcome, writer, talk>>,
         Commanded, server'.wire = <<>>, server'.wrote = 0, ~ server'.up
  PROVE  PInv'
  <1>1. ParserTypes' /\ Balanced'
    BY DEF PInv, ParserTypes, Balanced
  <1>2. Commanded' /\ Silent'
    BY DEF Commanded, Conversing, Silent
  <1>3. Stations'
    BY <1>2 DEF Stations
  <1>4. QED
    BY <1>1, <1>3 DEF PInv

LEMMA DeadServer ==
  /\ NewServer.wire = <<>> /\ NewServer.wrote = 0
  /\ [NewServer EXCEPT !.up = FALSE].wire = <<>> /\ [NewServer EXCEPT !.up = FALSE].wrote = 0
  /\ [NewServer EXCEPT !.up = FALSE].up = FALSE
  BY DEF NewServer

LEMMA PollingAnswers ==
  ASSUME PInv, pc = "polling"
  PROVE  Commanded /\ Answering
  BY DEF PInv, Stations, Answering

\* The connection is to be made again, for what.
LEMMA ReconnectAnswer ==
  ASSUME PInv, pc = "polling", outcome # "running",
         UNCHANGED <<mode, requestKeys, state, keyIdx, results, outcome, writer, talk>>,
         NEW what \in {"rewind", "resend"}, Reconnect(what),
         what = "resend" => ~ IsRead(writer), reader'.readLeft = reader.readLeft
  PROVE  PInv'
  <1>1. Commanded /\ Answering
    BY PollingAnswers
  <1>2. server'.wire = <<>> /\ server'.wrote = 0 /\ ~ server'.up
    BY DeadServer DEF Reconnect
  <1>3. CASE pc' = "done"
    <2>1. ok' = FALSE
      BY <1>3 DEF Reconnect
    <2>2. QED
      BY <1>1, <1>2, <1>3, <2>1, ToDone
  <1>4. CASE pc' # "done"
    <2>1. pc' = "connecting" /\ connect' = [NotConnecting EXCEPT !.address = 1, !.for = what]
          /\ ok' = ok
      BY <1>4 DEF Reconnect
    <2>2. connect'.for = what
      BY <2>1 DEF NotConnecting
    <2>3. ParserTypes' /\ Balanced'
      BY <2>1 DEF PInv, ParserTypes, Balanced
    <2>4. Commanded' /\ Silent'
      BY <1>1, <1>2 DEF Commanded, Conversing, Silent
    <2>5. what = "resend" => Unparsed'
      BY <1>1 DEF Answering, Unparsed
    <2>6. Stations'
      BY <1>2, <2>1, <2>2, <2>4, <2>5 DEF Stations
    <2>7. QED
      BY <2>3, <2>6 DEF PInv
  <1>5. QED
    BY <1>3, <1>4

\* Nothing has been received of the answer.
LEMMA FreshAnswer ==
  ASSUME RInv', WInv', pc' = "polling", Commanded', Unparsed', Silent', ok' \in BOOLEAN
  PROVE  PInv'
  <1>1. PICK c \in Conversations : c = talk' /\ Answered(c)
    BY ProtocolAssumption DEF Commanded, Conversing
  <1>2. /\ state' = "START" /\ keyIdx' = 0 /\ outcome' = "none" /\ reader'.readLeft = 0
        /\ server'.wire = <<>> /\ server'.wrote = 0 /\ requestKeys' = c.keys
    BY <1>1 DEF Unparsed, Silent, Commanded
  <1>3. PICK r : r = reader' /\ ReaderOK(r)
    BY DEF RInv, Accounted
  <1>4. Unread(r) \in Seq(Byte) /\ Len(Unread(r)) = 0
    BY <1>2, <1>3, UnreadBytes
  <1>5. Unread(r) = <<>>
    BY ONLY <1>4
  <1>6. Coming' = <<>>
    <2>1. Coming' = Unread(r) \o <<>>
      BY <1>2, <1>3 DEF Coming
    <2>2. QED
      BY <1>5, <2>1
  <1>7. Tracked'
    <2>1. Keeps(<<>>, 0, "START", results', 0, c)
      BY <1>1, KeepsFresh
    <2>2. QED
      BY <1>1, <1>2, <1>6, <2>1 DEF Tracked
  <1>8. Asked'
    BY <1>2 DEF Asked
  <1>9. Answering'
    BY <1>2, <1>7, <1>8 DEF Answering
  <1>10. ParserTypes'
    <2>1. Len(c.keys) \in Nat
      BY <1>1, SeqParts DEF Answered
    <2>2. 0 \in 0 .. Len(requestKeys')
      BY <1>2, <2>1
    <2>3. QED
      BY <1>2, <2>2 DEF ParserTypes, States
  <1>11. QED
    BY <1>9, <1>10, PollingBalanced, ToPolling

-----------------------------------------------------------------------------
(* The bytes of the answer.                                                *)

LEMMA RecvComing ==
  ASSUME RInv, RInv', Recv
  PROVE  Coming' = Coming /\ server.wire # <<>> /\ Coming # <<>>
  <1>1. PICK bytes, rest : Receives(Received(0), bytes, rest)
    BY RecvReceives
  <1>2. /\ bytes \in Seq(Byte) /\ rest \in Seq(Byte) /\ Len(bytes) # 0
        /\ server.wire = bytes \o rest /\ server'.wire = rest
        /\ Written(Received(0), reader', bytes)
    BY <1>1 DEF Receives
  <1>3. PICK u : u = Unread(reader)
    OBVIOUS
  <1>4. u \in Seq(Byte)
    BY <1>3, UnreadBytes DEF RInv, Accounted
  <1>5. Unread(reader') = u \o bytes
    BY <1>2, <1>3, ReceivedSame DEF Written
  <1>6. (u \o bytes) \o rest = u \o (bytes \o rest)
    BY <1>2, <1>4, ConcatThree, SMTT(20) DEF Associates
  <1>7. Coming' = Coming
    BY <1>2, <1>3, <1>5, <1>6 DEF Coming
  <1>8. Len(u) \in Nat /\ Len(bytes) \in Nat /\ Len(rest) \in Nat
    BY <1>2, <1>4, SeqParts
  <1>9. PICK x \in Seq(Byte) : x = bytes \o rest /\ Len(x) # 0
    <2>1. bytes \o rest \in Seq(Byte) /\ Len(bytes \o rest) = Len(bytes) + Len(rest)
      BY <1>2, ConcatParts DEF Concat
    <2>2. Len(bytes \o rest) # 0
      BY <1>2, <1>8, <2>1
    <2>3. QED
      BY <2>1, <2>2
  <1>10. Len(u \o x) # 0
    <2>1. Len(u \o x) = Len(u) + Len(x) /\ Len(x) \in Nat
      BY <1>4, <1>9, ConcatParts, SeqParts DEF Concat
    <2>2. QED
      BY <1>8, <1>9, <2>1
  <1>11. Len(<<>>) = 0
    OBVIOUS
  <1>12. QED
    BY <1>2, <1>3, <1>7, <1>9, <1>10, <1>11 DEF Coming

\* While bytes come the parser has not ended.
LEMMA ComingStays ==
  ASSUME NEW c \in Conversations, Answered(c), NEW q, NEW wrote, NEW s, NEW rs, NEW ki,
         Keeps(q, wrote, s, rs, ki, c), q # <<>>
  PROVE  ~ IsEndState(s)
  <1>1. PICK t, k, o : Tracks(q, wrote, s, rs, ki, c, t, k, o)
    BY DEF Keeps
  <1>2. k \in Nat /\ k < Len(c.packets) /\ Within(c.packets[k + 1], o, s, rs)
    BY <1>1, KeepsReading
  <1>3. QED
    BY <1>2, WithinIn DEF IsEndState, GetStates

LEMMA KeepsCounts ==
  ASSUME NEW c \in Conversations, Answered(c), NEW q, NEW wrote, NEW s, NEW rs, NEW ki,
         Keeps(q, wrote, s, rs, ki, c)
  PROVE  ki \in 0 .. Len(c.keys)
  <1>1. PICK t, k, o : Tracks(q, wrote, s, rs, ki, c, t, k, o)
    BY DEF Keeps
  <1>2. PICK n \in Nat, l \in Nat : n = Len(c.packets) /\ l = Len(c.keys)
    <2>1. Len(c.keys) \in Nat
      BY SeqParts DEF Answered
    <2>2. QED
      BY <2>1, DueIs
  <1>3. k \in 0 .. n /\ ki = Counted(c, k)
    BY <1>1, <1>2 DEF Tracks
  <1>4. c.mode = "COUNTING" => n <= l
    BY <1>2 DEF Answered
  <1>5. QED
    BY <1>2, <1>3, <1>4 DEF Counted

LEMMA RecvAnswer ==
  ASSUME PInv, RInv, RInv', Recv
  PROVE  PInv'
  <1>1. /\ pc = "polling" /\ outcome \in {"none", "INCOMPLETE_BUFFER_ERR"} /\ IsRead(writer)
        /\ state' = (IF IsEndState(state) THEN "START" ELSE state) /\ outcome' = "running"
        /\ UNCHANGED <<mode, requestKeys, keyIdx, results, pc, writer, ok, talk>>
    BY DEF Recv, Waiting, ProcessPackets, connectionVars
  <1>2. server'.wrote = server.wrote /\ server'.got = server.got
    <2>1. PICK n : server' = [server EXCEPT !.wire = SubSeq(@, n + 1, Len(@))]
      BY DEF Recv
    <2>2. QED
      BY <2>1, ServerFields
  <1>3. Commanded /\ Answering
    BY <1>1, PollingAnswers
  <1>4. PICK c \in Conversations : c = talk /\ Answered(c)
    BY <1>3, ProtocolAssumption DEF Commanded, Conversing
  <1>5. Keeps(Coming, server.wrote, state, results, keyIdx, c)
    BY <1>1, <1>3, <1>4 DEF Answering, Failures, Tracked
  <1>6. Coming' = Coming /\ Coming # <<>>
    BY RecvComing
  <1>7. state' = state
    BY <1>1, <1>4, <1>5, <1>6, ComingStays
  <1>8. Tracked'
    BY <1>1, <1>2, <1>4, <1>5, <1>6, <1>7 DEF Tracked
  <1>9. Commanded'
    BY <1>1, <1>3 DEF Commanded, Conversing
  <1>10. Asked'
    BY <1>1, <1>2, <1>3 DEF Answering, Asked, Request, RequestLength, Needed
  <1>11. Answering'
    BY <1>1, <1>8, <1>9, <1>10 DEF Answering, IsRead
  <1>12. ParserTypes' /\ Balanced'
    BY <1>1, <1>7 DEF PInv, ParserTypes, Balanced
  <1>13. QED
    BY <1>1, <1>11, <1>12, ToPolling

-----------------------------------------------------------------------------
(* The server, and the parser.                                             *)

LEMMA PrefixGrows ==
  ASSUME NEW x, Len(x) \in Nat, NEW s \in Seq(Nat), NEW v \in Seq(Nat), IsPrefix(x, s)
  PROVE  IsPrefix(x, s \o v)
  <1>1. PICK n \in Nat, m \in Nat : n = Len(x) /\ m = Len(s) /\ n <= m
    BY DEF IsPrefix
  <1>2. SubSeq(x, 1, n) = SubSeq(s, 1, n)
    BY <1>1 DEF IsPrefix
  <1>3. PICK z \in Seq(Nat) : z = s \o v /\ Concat(z, s, v, m, Len(v))
    <2>1. PICK z \in Seq(Nat) : Concat(z, s, v, Len(s), Len(v))
      BY ConcatParts
    <2>2. z = s \o v
      BY <2>1 DEF Concat
    <2>3. QED
      BY <1>1, <2>1, <2>2
  <1>4. Len(z) = m + Len(v) /\ Len(v) \in Nat /\ \A i \in 1 .. m : z[i] = s[i]
    BY <1>3 DEF Concat
  <1>5. n <= Len(z)
    BY <1>1, <1>4
  <1>6. SubSeq(z, 1, n) = SubSeq(s, 1, n)
    BY <1>1, <1>4, <1>5
  <1>7. QED
    BY <1>1, <1>2, <1>3, <1>5, <1>6 DEF IsPrefix

\* How much the server needs for what it has answered.
LEMMA NeededIs ==
  ASSUME Conversing, Answered(talk), NEW wrote \in 0 .. Len(talk.packets)
  PROVE  RequestLength(Needed(wrote)) \in Nat
  <1>1. PICK v \in Seq(Seq(Nat)), l \in Nat : v = talk.iovs /\ l = Len(v)
    BY BufferedType, SeqParts
  <1>2. PICK n \in Nat : n = Len(talk.packets)
    BY DueIs DEF Conversing
  <1>3. Needed(wrote) \in 0 .. l
    <2>1. CASE talk.mode = "COUNTING"
      <3>1. n <= l
        BY <1>1, <1>2, <2>1 DEF Answered
      <3>2. QED
        BY <1>2, <2>1, <3>1 DEF Needed
    <2>2. CASE talk.mode # "COUNTING"
      BY <1>1, <2>2 DEF Needed
    <2>3. QED
      BY <2>1, <2>2
  <1>4. PICK x \in Seq(Seq(Nat)) : x = SubSeq(v, 1, Needed(wrote))
    BY <1>1, <1>3, SubSeqParts
  <1>5. FlattenSeq(x) \in Seq(Nat)
    BY FlattenType
  <1>6. PICK t : Sums(t, FlattenSeq(x), Len(FlattenSeq(x)))
    BY <1>5, SumsOf
  <1>7. Total(FlattenSeq(x)) \in Nat
    BY <1>5, <1>6, TotalSums
  <1>8. QED
    BY <1>1, <1>4, <1>7 DEF RequestLength

LEMMA RequestType ==
  ASSUME Conversing
  PROVE  Request \in Seq(Nat)
  <1>1. PICK t : Sums(t, Buffered, Len(Buffered))
    BY BufferedType, SumsOf
  <1>2. PICK k \in Nat : Request = Counting(0, k)
    BY <1>1, RequestWhole
  <1>3. Counting(0, k) \in [1 .. k -> Nat]
    BY DEF Counting
  <1>4. QED
    BY <1>2, <1>3, SeqMade

\* More of the request comes.
LEMMA AskedGrows ==
  ASSUME Conversing, Answered(talk), server.wrote \in 0 .. Len(talk.packets), Asked,
         server.got \in Seq(Nat), NEW v \in Seq(Nat), server'.got = server.got \o v,
         server'.wrote = server.wrote, talk' = talk
  PROVE  Asked'
  <1>1. PICK r \in Nat : r = RequestLength(Needed(server.wrote))
    BY NeededIs
  <1>2. PICK x : x = SubSeq(Request, 1, r)
    OBVIOUS
  <1>3. Len(x) \in Nat
    BY <1>2, RequestType
  <1>4. server.wrote # 0 => IsPrefix(x, server.got)
    BY <1>1, <1>2 DEF Asked
  <1>5. server.wrote # 0 => IsPrefix(x, server.got \o v)
    BY <1>3, <1>4, PrefixGrows
  <1>6. Request' = Request /\ RequestLength(Needed(server.wrote))' = RequestLength(Needed(server.wrote))
    BY DEF Request, RequestLength, Needed
  <1>7. QED
    BY <1>1, <1>2, <1>5, <1>6 DEF Asked

LEMMA GotType ==
  ASSUME NEW w, NEW F, NEW got, Progresses(w, F, got)
  PROVE  got \in Seq(Nat)
  <1>1. PICK t, S : Sends(w, F, t, S) /\ got = Counting(0, S)
    BY DEF Progresses
  <1>2. S \in Nat
    BY <1>1 DEF Sends
  <1>3. Counting(0, S) \in [1 .. S -> Nat]
    BY <1>2 DEF Counting
  <1>4. QED
    BY <1>1, <1>2, <1>3, SeqMade

LEMMA SendAnswer ==
  ASSUME PInv, RInv, WInv, WInv', Send
  PROVE  PInv'
  <1>1. /\ pc = "polling" /\ writer.left > 0 /\ outcome \in {"none", "INCOMPLETE_BUFFER_ERR"}
        /\ UNCHANGED <<reader, mode, requestKeys, state, keyIdx, results, outcome, pc, ok, talk>>
    BY DEF Send, Waiting, parserVars
  <1>2. PICK n \in 1 .. LengthOf(SubSeq(ToSend(writer), 1, Smaller(writer.left, MaxIov))) :
          /\ ~IsRead(writer) => n >= writer.iovec[1].len
          /\ writer' = CommitRead(writer, n)
          /\ server' = [server EXCEPT !.got = @ \o BytesOf(writer, n)]
    BY DEF Send
  <1>3. /\ server'.got = server.got \o BytesOf(writer, n)
        /\ server'.wire = server.wire /\ server'.wrote = server.wrote
    BY <1>2, ServerFields
  <1>4. Commanded /\ Answering /\ Conversing
    BY <1>1, PollingAnswers DEF Commanded
  <1>5. Progresses(writer, Buffered, server.got)
    BY <1>1 DEF WInv
  <1>6. writer.readIdx = 0 => n >= writer.iovec[1].len
    BY <1>2 DEF IsRead
  <1>7. IsRead(writer') /\ BytesOf(writer, n) \in Seq(Nat)
    BY <1>1, <1>2, <1>5, <1>6, SendProgresses
  <1>8. Answered(talk) /\ Tracked
    BY <1>1, <1>4, ProtocolAssumption DEF Conversing, Answering, Failures
  <1>9. server.wrote \in 0 .. Len(talk.packets)
    BY <1>8 DEF Tracked, Keeps, Tracks
  <1>10. Asked
    BY <1>4 DEF Answering
  <1>11. Asked'
    BY <1>1, <1>3, <1>4, <1>5, <1>7, <1>8, <1>9, <1>10, AskedGrows, GotType
  <1>12. Commanded' /\ Tracked'
    BY <1>1, <1>3, <1>4, <1>8 DEF Commanded, Conversing, Tracked, Coming
  <1>13. outcome' = "INCOMPLETE_BUFFER_ERR" => Lacking'
    BY <1>1, <1>3, <1>4 DEF Answering, Lacking
  <1>14. Answering'
    BY <1>1, <1>7, <1>11, <1>12, <1>13 DEF Answering
  <1>15. ParserTypes' /\ Balanced'
    BY <1>1, PollingBalanced DEF PInv, ParserTypes
  <1>16. QED
    BY <1>1, <1>14, <1>15, ToPolling

\* The server can answer only a command that is being sent.
LEMMA AnswersPolling ==
  ASSUME IInv, PInv, RInv, ServerAnswers
  PROVE  pc = "polling" /\ outcome # "OK"
  <1>1. server.up /\ server.wrote < Len(talk.packets)
    BY DEF ServerAnswers
  <1>2. Stations
    BY DEF PInv
  <1>3. pc \in {"idle", "polling", "connecting", "done"}
    BY DEF IInv, SocketTypes
  <1>4. ASSUME server.wrote = 0, talk = NoTalk
        PROVE  FALSE
    <2>1. Len(talk.packets) = 0
      BY <1>4 DEF NoTalk
    <2>2. QED
      BY <1>1, <1>4, <2>1
  <1>5. ~ AllRead
    <2>1. server.wrote \in Nat
      BY ServerFields
    <2>2. QED
      BY <1>1, <2>1 DEF AllRead
  <1>6. pc # "idle"
    BY <1>2, <1>4 DEF Stations, Silent, Untold
  <1>7. pc # "connecting"
    BY <1>1, <1>2, <1>4 DEF Stations, Silent, Untold
  <1>8. pc # "done"
    <2>1. ok \in BOOLEAN
      BY DEF PInv, ParserTypes
    <2>2. QED
      BY <1>1, <1>2, <1>5, <2>1 DEF Stations
  <1>9. pc = "polling"
    BY <1>3, <1>6, <1>7, <1>8
  <1>10. QED
    BY <1>5, <1>9, PollingAnswers DEF Answering

LEMMA ServerAnswer ==
  ASSUME IInv, PInv, RInv, ServerAnswers
  PROVE  PInv'
  <1>1. /\ pc = "polling" /\ outcome # "OK" /\ Commanded /\ Answering
    BY AnswersPolling, PollingAnswers
  <1>2. UNCHANGED <<reader, mode, requestKeys, state, keyIdx, results, outcome, pc, writer, ok, talk>>
    BY DEF ServerAnswers, parserVars, connectionVars
  <1>3. PICK c \in Conversations : c = talk /\ Answered(c)
    BY <1>1, ProtocolAssumption DEF Commanded, Conversing
  <1>4. PICK i \in Nat, n \in Nat, w \in Seq(Byte) :
          i = server.wrote /\ n = Len(c.packets) /\ w = server.wire
    BY DueIs, <1>3, ServerFields
  <1>5. PICK e : e = Encoded(c.packets[i + 1])
    OBVIOUS
  <1>6. server'.wrote = i + 1 /\ server'.wire = w \o e /\ server'.got = server.got /\ i < n
    <2>1. /\ server.wrote < Len(talk.packets)
          /\ server' = [server EXCEPT !.wrote = server.wrote + 1,
                          !.wire = server.wire \o Encoded(talk.packets[server.wrote + 1])]
      BY DEF ServerAnswers
    <2>2. QED
      BY <1>3, <1>4, <1>5, <2>1, ServerFields
  <1>7. e \in Seq(Byte) /\ Len(e) \in Nat \ {0}
    <2>1. PICK t : Laid(c, t)
      BY <1>3, LaidExists
    <2>2. NextIn(c, t, i, e)
      BY <1>3, <1>4, <1>5, <1>6, <2>1, NextIs
    <2>3. QED
      BY <2>2 DEF NextIn
  <1>8. PICK u \in Seq(Byte) : u = Unread(reader)
    BY ServerFields, UnreadBytes
  <1>9. Coming' = Coming \o e
    <2>1. u \o (w \o e) = (u \o w) \o e
      BY <1>7, ConcatThree, SMTT(20) DEF Associates
    <2>2. Coming = u \o w /\ Coming' = u \o (w \o e)
      BY <1>2, <1>4, <1>6, <1>8 DEF Coming
    <2>3. QED
      BY <2>1, <2>2
  <1>10. outcome' \notin Failures => Tracked'
    <2>1. SUFFICES ASSUME outcome \notin Failures PROVE Tracked'
      BY <1>2
    <2>2. Keeps(Coming, i, state, results, keyIdx, c)
      BY <1>1, <1>3, <1>4, <2>1 DEF Answering, Tracked
    <2>3. Keeps(Coming \o e, i + 1, state, results, keyIdx, c)
      BY <1>3, <1>4, <1>5, <1>6, <2>2, KeepsMore
    <2>4. QED
      BY <1>2, <1>3, <1>6, <1>9, <2>3 DEF Tracked
  <1>11. Lacking'
    <2>1. w \o e \in Seq(Byte) /\ Len(w \o e) = Len(w) + Len(e) /\ Len(w) \in Nat
      BY <1>7, ConcatParts, SeqParts DEF Concat
    <2>2. Len(w \o e) # 0 /\ Len(<<>>) = 0
      BY <1>7, <2>1
    <2>3. QED
      BY <1>6, <2>2 DEF Lacking
  <1>12. Commanded'
    BY <1>1, <1>2 DEF Commanded, Conversing
  <1>13. Asked'
    <2>1. IsPrefix(SubSeq(Request, 1, RequestLength(Needed(i + 1))), server.got)
      BY <1>4 DEF ServerAnswers, Needed
    <2>2. /\ Request' = Request
          /\ RequestLength(Needed(server.wrote))' = RequestLength(Needed(i + 1))
      BY <1>2, <1>6 DEF Request, RequestLength, Needed
    <2>3. QED
      BY <1>6, <2>1, <2>2 DEF Asked
  <1>14. Answering'
    BY <1>1, <1>2, <1>10, <1>11, <1>12, <1>13 DEF Answering, Unparsed
  <1>15. ParserTypes' /\ Balanced'
    BY <1>2 DEF PInv, ParserTypes, Balanced
  <1>16. QED
    BY <1>1, <1>2, <1>14, <1>15, ToPolling

LEMMA ParseTypes ==
  ASSUME Parse, state \in States
  PROVE  state' \in States /\ mode' = mode /\ requestKeys' = requestKeys
  <1>1. CASE EndParse
    BY <1>1 DEF EndParse, Leave
  <1>2. CASE StartIncomplete \/ StartUnknown
    BY <1>2 DEF StartIncomplete, StartUnknown, Leave
  <1>3. CASE StartValue \/ StartEnd \/ StartNumber
    BY <1>3 DEF StartValue, StartEnd, StartNumber, Leave, Goes, States
  <1>4. CASE StartLine
    <2>1. PICK w, skip :
            /\ w \in {"VERSION", "STAT"}
            /\ \/ Leave(skip.err)
               \/ \E rs : Goes(skip.reader, LineState[w], rs)
      BY <1>4 DEF StartLine, LineState
    <2>2. LineState[w] \in States
      BY <2>1 DEF LineState, States
    <2>3. QED
      BY <2>1, <2>2 DEF Leave, Goes
  <1>5. CASE StartMessage
    BY <1>5 DEF StartMessage, Leave, States
  <1>6. CASE StartError
    BY <1>6 DEF StartError, Leave, States
  <1>7. CASE GetStart \/ GetKey \/ GetFlags
    BY <1>7 DEF GetStart, GetKey, GetFlags, Leave, Goes, States
  <1>8. CASE GetBytes \/ GetCas
    BY <1>8 DEF GetBytes, GetCas, Leave, Goes, States
  <1>9. CASE GetValue \/ GetValueEnd
    BY <1>9 DEF GetValue, GetValueEnd, Leave, Goes, States
  <1>10. CASE IncrDecrStart \/ IncrDecrRemaining
    BY <1>10 DEF IncrDecrStart, IncrDecrRemaining, Leave, Goes, States
  <1>11. CASE ReadLine
    BY <1>11 DEF ReadLine, Leave, Goes, States
  <1>12. QED
    BY <1>1, <1>2, <1>3, <1>4, <1>5, <1>6, <1>7, <1>8, <1>9, <1>10, <1>11 DEF Parse, Start

\* What a turn of the loop leaves alone.
LEMMA ProcessKeeps ==
  ASSUME PInv, Process
  PROVE  /\ outcome = "running" /\ pc = "polling"
         /\ state' \in States
         /\ UNCHANGED <<mode, requestKeys, pc, writer, ok, talk, server>>
  <1>1. Parse /\ UNCHANGED <<pc, writer, ok, talk, server>>
    BY DEF Process, connectionVars
  <1>2. outcome = "running"
    BY <1>1, TurnAt DEF EndParse
  <1>3. pc = "polling"
    BY <1>2 DEF PInv, Stations
  <1>4. QED
    BY <1>1, <1>2, <1>3, ParseTypes DEF PInv, ParserTypes

LEMMA ProcessAnswer ==
  ASSUME PInv, RInv, Process
  PROVE  PInv'
  <1>1. /\ outcome = "running" /\ pc = "polling" /\ state' \in States
        /\ UNCHANGED <<mode, requestKeys, pc, writer, ok, talk, server>>
    BY ProcessKeeps
  <1>2. Parse /\ Commanded /\ Answering
    BY <1>1, PollingAnswers DEF Process
  <1>3. PICK c \in Conversations : c = talk /\ Answered(c)
    BY <1>2, ProtocolAssumption DEF Commanded, Conversing
  <1>4. PICK w \in Seq(Byte), wrote \in Nat : w = server.wire /\ wrote = server.wrote
    BY ServerFields
  <1>5. Parsed(c, Coming, wrote, w)
    <2>1. Coming = Unread(reader) \o w
      BY <1>4 DEF Coming
    <2>2. Keeps(Coming, wrote, state, results, keyIdx, c)
      BY <1>1, <1>2, <1>3, <1>4 DEF Answering, Tracked, Failures
    <2>3. QED
      BY <1>1, <1>2, <1>3, <2>1, <2>2 DEF Parsed, Commanded
  <1>6. Commanded' /\ Asked' /\ Balanced' /\ IsRead(writer')
    <2>1. Commanded'
      BY <1>1, <1>2 DEF Commanded, Conversing
    <2>2. Asked'
      BY <1>1, <1>2 DEF Answering, Asked, Request, RequestLength, Needed
    <2>3. Balanced'
      BY <1>1 DEF PInv, Balanced
    <2>4. IsRead(writer)
      BY <1>1, <1>2 DEF Answering, Unparsed
    <2>5. QED
      BY <1>1, <2>1, <2>2, <2>3, <2>4
  <1>7. ok' \in BOOLEAN
    BY <1>1 DEF PInv, ParserTypes
  <1>8. CASE EndParse
    <2>1. /\ outcome' = "OK" /\ CanEndParse
          /\ UNCHANGED <<reader, state, keyIdx, results>>
      BY <1>8 DEF EndParse, Leave
    <2>2. /\ Coming = <<>> /\ wrote = Len(c.packets)
          /\ c.mode = "COUNTING" => Len(c.iovs) = Len(c.packets)
      BY <1>3, <1>5, <2>1, EndKeeps
    <2>3. w = <<>> /\ reader.readLeft = 0
      <3>1. PICK u \in Seq(Byte) : u = Unread(reader) /\ Len(u) = reader.readLeft
        BY ServerFields, UnreadBytes
      <3>2. Len(u \o w) = Len(u) + Len(w) /\ Len(u) \in Nat /\ Len(w) \in Nat
        BY ConcatParts, SeqParts DEF Concat
      <3>3. u \o w = <<>> /\ Len(<<>>) = 0
        BY <1>4, <2>2, <3>1 DEF Coming
      <3>4. PICK a \in Nat, b \in Nat : a = Len(u) /\ b = Len(w) /\ a + b = 0
        BY <3>2, <3>3
      <3>5. a = 0 /\ b = 0
        BY ONLY <3>4, a \in Nat, b \in Nat
      <3>6. w = <<>>
        <4>1. Len(w) = 0
          BY <3>4, <3>5
        <4>2. QED
          BY ONLY <4>1, w \in Seq(Byte)
      <3>7. QED
        BY <3>1, <3>4, <3>5, <3>6
    <2>4. AllRead'
      BY <1>1, <1>3, <1>4, <2>1, <2>2, <2>3 DEF AllRead
    <2>5. Tracked'
      BY <1>1, <1>3, <1>4, <1>5, <2>1 DEF Tracked, Coming, Parsed
    <2>6. Answering'
      BY <1>6, <2>1, <2>4, <2>5 DEF Answering
    <2>7. ParserTypes'
      BY <1>1, <1>7, <2>1 DEF PInv, ParserTypes
    <2>8. QED
      BY <1>1, <1>6, <2>6, <2>7, ToPolling
  <1>9. CASE ~ EndParse /\ Fails
    <2>1. outcome' \in Failures /\ keyIdx' = keyIdx
      BY <1>9 DEF Fails
    <2>2. Answering'
      BY <1>6, <2>1 DEF Answering, Failures
    <2>3. ParserTypes'
      BY <1>1, <1>7, <2>1 DEF PInv, ParserTypes
    <2>4. QED
      BY <1>1, <1>6, <2>2, <2>3, ToPolling
  <1>10. CASE ~ EndParse /\ ~ Fails
    <2>1. Turns(c, wrote, w)
      BY <1>2, <1>3, <1>5, <1>10, TurnKeeps
    <2>2. /\ outcome' \in {"running", "INCOMPLETE_BUFFER_ERR"}
          /\ Keeps(Unread(reader') \o w, wrote, state', results', keyIdx', c)
          /\ outcome' = "INCOMPLETE_BUFFER_ERR" => wrote < Len(c.packets) \/ w # <<>>
      BY <2>1 DEF Turns
    <2>3. Tracked'
      BY <1>1, <1>3, <1>4, <2>2 DEF Tracked, Coming
    <2>4. outcome' = "INCOMPLETE_BUFFER_ERR" => Lacking'
      BY <1>1, <1>3, <1>4, <2>2 DEF Lacking
    <2>5. Answering'
      BY <1>6, <2>2, <2>3, <2>4 DEF Answering
    <2>6. keyIdx' \in 0 .. Len(requestKeys')
      <3>1. keyIdx' \in 0 .. Len(c.keys)
        BY <1>3, <2>2, KeepsCounts
      <3>2. requestKeys' = c.keys
        BY <1>1, <1>2, <1>3 DEF Commanded
      <3>3. QED
        BY <3>1, <3>2
    <2>7. ParserTypes'
      BY <1>1, <1>7, <2>2, <2>6 DEF ParserTypes
    <2>8. QED
      BY <1>1, <1>6, <2>5, <2>7, ToPolling
  <1>11. QED
    BY <1>8, <1>9, <1>10

-----------------------------------------------------------------------------
(* The other steps.                                                        *)

LEMMA InitAnswer == Init => PInv
  <1> SUFFICES ASSUME Init PROVE PInv
    OBVIOUS
  <1>1. /\ pc = "idle" /\ ok = FALSE /\ writer = NewWriter /\ talk = NoTalk
        /\ server = [NewServer EXCEPT !.up = FALSE]
        /\ reader = NewReader /\ requestKeys = <<>> /\ state = "START" /\ keyIdx = 0
        /\ outcome = "none"
    BY DEF Init, ParserInit
  <1>2. Unparsed /\ Untold
    BY <1>1 DEF Unparsed, Untold, NewReader
  <1>3. Silent
    BY <1>1, DeadServer DEF Silent
  <1>4. Stations
    BY <1>1, <1>2, <1>3 DEF Stations
  <1>5. ParserTypes
    <2>1. Len(requestKeys) = 0
      BY <1>1
    <2>2. keyIdx \in 0 .. Len(requestKeys) /\ state \in States
      BY <1>1, <2>1 DEF States
    <2>3. ok \in BOOLEAN
      BY <1>1
    <2>4. QED
      BY <1>1, <2>2, <2>3, Zenon DEF ParserTypes
  <1>6. Balanced
    BY <1>1 DEF Balanced, NewWriter
  <1>7. QED
    BY <1>4, <1>5, <1>6 DEF PInv

\* A connection with no command.
LEMMA ToIdle ==
  ASSUME pc' = "idle", Unparsed', Silent', Untold', Balanced', ok' \in BOOLEAN
  PROVE  PInv'
  <1>1. Stations'
    BY DEF Stations, Unparsed
  <1>2. ParserTypes'
    <2>1. requestKeys' = <<>>
      BY DEF Untold
    <2>2. Len(requestKeys') = 0
      BY <2>1
    <2>3. QED
      BY <2>2 DEF ParserTypes, Unparsed, States
  <1>3. QED
    BY <1>1, <1>2 DEF PInv

LEMMA DispatchAnswer ==
  ASSUME PInv, RInv', WInv', Dispatch
  PROVE  PInv'
  <1>1. /\ pc = "idle" /\ pc' = "polling"
        /\ UNCHANGED <<reader, state, keyIdx, results, outcome, ok, server>>
    BY DEF Dispatch
  <1>2. PICK c \in Conversations :
          talk' = c /\ mode' = c.mode /\ requestKeys' = requestKeys \o c.keys
    BY DEF Dispatch
  <1>3. Unparsed /\ Silent /\ Untold /\ ok \in BOOLEAN
    BY <1>1 DEF PInv, Stations, ParserTypes
  <1>4. requestKeys' = c.keys
    <2>1. c.keys \in Seq(STRING)
      BY ProtocolAssumption DEF Answered
    <2>2. <<>> \o c.keys = c.keys
      BY <2>1
    <2>3. QED
      BY <1>2, <1>3, <2>2 DEF Untold
  <1>5. Commanded'
    BY <1>2, <1>4 DEF Commanded, Conversing
  <1>6. Unparsed' /\ Silent'
    BY <1>1, <1>3 DEF Unparsed, Silent
  <1>7. QED
    BY <1>1, <1>3, <1>5, <1>6, FreshAnswer

LEMMA SelectAnswer ==
  ASSUME PInv, Select
  PROVE  PInv'
  <1>1. /\ pc = "idle" /\ pc' = "connecting" /\ connect' = [NotConnecting EXCEPT !.address = 1]
        /\ UNCHANGED <<reader, mode, requestKeys, state, keyIdx, results, outcome, writer, ok,
                       talk, server>>
    BY DEF Select, parserVars
  <1>2. connect'.for = "idle"
    BY <1>1 DEF NotConnecting
  <1>3. Unparsed' /\ Silent' /\ Untold'
    BY <1>1 DEF PInv, Stations, Unparsed, Silent, Untold
  <1>4. Stations'
    BY <1>1, <1>2, <1>3 DEF Stations, Unparsed
  <1>5. ParserTypes' /\ Balanced'
    BY <1>1 DEF PInv, ParserTypes, Balanced
  <1>6. QED
    BY <1>4, <1>5 DEF PInv

LEMMA EstablishedAnswer ==
  ASSUME IInv, PInv, RInv', WInv', pc = "connecting", NEW f, Established(f)
  PROVE  PInv'
  <1>1. /\ server' = NewServer /\ UNCHANGED <<ok, talk>>
        /\ pc' = IF connect.for = "idle" THEN "idle" ELSE "polling"
    BY DEF Established
  <1>2. Silent' /\ ok' \in BOOLEAN
    BY <1>1, DeadServer DEF Silent, PInv, ParserTypes
  <1>3. CASE connect.for = "idle"
    <2>1. /\ pc' = "idle"
          /\ UNCHANGED <<reader, mode, requestKeys, state, keyIdx, results, outcome, writer>>
      BY <1>1, <1>3 DEF Established, parserVars
    <2>2. Unparsed' /\ Untold' /\ Balanced'
      BY <1>1, <1>3, <2>1 DEF PInv, Stations, Unparsed, Untold, Balanced
    <2>3. QED
      BY <1>2, <2>1, <2>2, ToIdle
  <1>4. CASE connect.for # "idle"
    <2>1. pc' = "polling" /\ Commanded
      BY <1>1, <1>4 DEF PInv, Stations
    <2>2. Commanded' /\ Unparsed'
      <3>1. CASE connect.for = "rewind"
        <4>1. /\ mode' = mode /\ requestKeys' = requestKeys
              /\ state' = "START" /\ keyIdx' = 0 /\ outcome' = "none"
              /\ reader' = ResetReader(Freed(reader, TokensOf(results)))
          BY <3>1 DEF Established, RewindParser
        <4>2. reader'.readLeft = 0
          <5>1. ReaderOK(reader')
            BY ServerFields DEF RInv, Accounted
          <5>2. "readLeft" \in DOMAIN reader'
            BY <5>1 DEF ReaderOK, Shape, Readers
          <5>3. QED
            BY <4>1, <5>2 DEF ResetReader
        <4>3. QED
          BY <1>1, <2>1, <4>1, <4>2 DEF Commanded, Conversing, Unparsed
      <3>2. CASE connect.for = "resend"
        <4>1. UNCHANGED <<reader, mode, requestKeys, state, keyIdx, results, outcome>>
          BY <3>2 DEF Established, parserVars
        <4>2. QED
          BY <1>1, <2>1, <3>2, <4>1 DEF PInv, Stations, Commanded, Conversing, Unparsed
      <3>3. connect.for \in {"idle", "rewind", "resend"}
        BY DEF IInv, SocketTypes, Progress
      <3>4. QED
        BY <1>4, <3>1, <3>2, <3>3
    <2>3. QED
      BY <1>2, <2>1, <2>2, FreshAnswer
  <1>5. QED
    BY <1>3, <1>4

LEMMA ConnectFailsAnswer ==
  ASSUME PInv, ConnectFails
  PROVE  PInv'
  <1>1. /\ pc = "connecting" /\ ok' = FALSE
        /\ pc' = IF connect.for = "idle" THEN "idle" ELSE "done"
        /\ UNCHANGED <<reader, mode, requestKeys, state, keyIdx, results, outcome, writer,
                       talk, server>>
    BY DEF ConnectFails, parserVars
  <1>2. CASE connect.for = "idle"
    <2>1. Unparsed' /\ Silent' /\ Untold' /\ Balanced'
      BY <1>1, <1>2 DEF PInv, Stations, Unparsed, Silent, Untold, Balanced
    <2>2. QED
      BY <1>1, <1>2, <2>1, ToIdle
  <1>3. CASE connect.for # "idle"
    <2>1. Commanded /\ server.wire = <<>> /\ server.wrote = 0 /\ ~ server.up
          /\ outcome # "running"
      BY <1>1, <1>3 DEF PInv, Stations, Silent
    <2>2. QED
      BY <1>1, <1>3, <2>1, ToDone
  <1>4. QED
    BY <1>2, <1>3

LEMMA ResetAnswer ==
  ASSUME PInv, RInv, RInv', Reset
  PROVE  PInv'
  <1>1. /\ pc = "done" /\ pc' = "idle" /\ ok' = FALSE /\ talk' = NoTalk /\ writer' = NewWriter
        /\ server' = [server EXCEPT !.got = <<>>, !.wrote = 0]
        /\ reader' = ResetReader(Freed(reader, TokensOf(results)))
        /\ requestKeys' = <<>> /\ state' = "START" /\ keyIdx' = 0 /\ outcome' = "none"
    BY DEF Reset, ResetParser
  <1>2. reader'.readLeft = 0
    <2>1. ReaderOK(reader')
      BY DEF RInv, Accounted
    <2>2. "readLeft" \in DOMAIN reader'
      BY <2>1 DEF ReaderOK, Shape, Readers
    <2>3. QED
      BY <1>1, <2>2 DEF ResetReader
  <1>3. server.wire = <<>>
    BY <1>1 DEF PInv, Stations, ParserTypes, AllRead, Silent
  <1>4. server'.wire = <<>> /\ server'.wrote = 0
    BY <1>1, <1>3, ServerFields
  <1>5. Unparsed' /\ Silent' /\ Untold' /\ Balanced'
    BY <1>1, <1>2, <1>4 DEF Unparsed, Silent, Untold, Balanced, NewWriter
  <1>6. QED
    BY <1>1, <1>5, ToIdle

\* All of the answer was read, so that the server has got all of the request.
LEMMA AllGot ==
  ASSUME WInv, pc = "polling", Commanded, Asked, AllRead
  PROVE  server.got = Request
  <1>1. PICK c \in Conversations : c = talk /\ Answered(c)
    BY ProtocolAssumption DEF Commanded, Conversing
  <1>2. server.wrote # 0 /\ server.wrote = Len(talk.packets)
    BY <1>1 DEF AllRead, Answered
  <1>3. Needed(server.wrote) = Len(talk.iovs)
    BY <1>2 DEF AllRead, Needed
  <1>4. PICK t : Sums(t, Buffered, Len(Buffered))
    BY BufferedType, SumsOf DEF Commanded
  <1>5. PICK k \in Nat : k = t[Len(Buffered)] /\ Request = Counting(0, k)
    BY <1>4, RequestWhole DEF Commanded
  <1>6. RequestLength(Len(talk.iovs)) = k
    <2>1. talk.iovs \in Seq(Seq(Nat)) /\ Buffered \in Seq(Nat)
      BY BufferedType DEF Commanded
    <2>2. SubSeq(talk.iovs, 1, Len(talk.iovs)) = talk.iovs
      BY <2>1
    <2>3. RequestLength(Len(talk.iovs)) = Total(Buffered)
      BY <2>2 DEF RequestLength, Buffered
    <2>4. QED
      BY <1>4, <1>5, <2>1, <2>3, TotalSums
  <1>7. Request \in Seq(Nat) /\ Len(Request) = k
    <2>1. Counting(0, k) \in [1 .. k -> Nat]
      BY DEF Counting
    <2>2. QED
      BY <1>5, <2>1, SeqMade
  <1>8. PICK q \in Seq(Nat) : q = Request /\ Len(q) = k
    BY <1>7
  <1>9. SubSeq(q, 1, k) = q
    BY <1>8
  <1>10. IsPrefix(q, server.got)
    <2>1. IsPrefix(SubSeq(Request, 1, RequestLength(Needed(server.wrote))), server.got)
      BY <1>2 DEF Asked
    <2>2. QED
      BY <1>3, <1>6, <1>8, <1>9, <2>1
  <1>11. IsPrefix(server.got, q)
    BY <1>8, RequestPrefix DEF WInv
  <1>12. PICK g \in Seq(Nat) : g = server.got
    BY GotType DEF WInv
  <1>13. Len(q) <= Len(g) /\ Len(g) <= Len(q) /\ SubSeq(q, 1, Len(q)) = SubSeq(g, 1, Len(q))
    BY <1>10, <1>11, <1>12 DEF IsPrefix
  <1>14. Len(g) = k
    BY <1>8, <1>13
  <1>15. SubSeq(g, 1, k) = g
    BY <1>14
  <1>16. QED
    BY <1>8, <1>9, <1>12, <1>13, <1>15

LEMMA FinishAnswer ==
  ASSUME PInv, WInv, RInv, Finish
  PROVE  PInv'
  <1>1. /\ pc = "polling" /\ outcome \in {"OK", "PROGRAMMING_ERR", "MC_SERVER_ERR"}
        /\ pc' = "done" /\ ok' = (outcome = "OK")
        /\ UNCHANGED <<reader, mode, requestKeys, state, keyIdx, results, outcome, writer, talk>>
    BY DEF Finish, parserVars
  <1>2. Commanded /\ Answering
    BY <1>1, PollingAnswers
  <1>3. CASE outcome = "OK"
    <2>1. server' = server /\ ok' = TRUE
      BY <1>1, <1>3 DEF Finish
    <2>2. AllRead /\ server.got = Request
      BY <1>1, <1>2, <1>3, AllGot DEF Answering
    <2>3. /\ AllRead' /\ server'.got = Request' /\ Commanded'
      BY <1>1, <1>2, <2>1, <2>2 DEF AllRead, Request, RequestLength, Commanded, Conversing
    <2>4. Stations'
      BY <1>1, <1>3, <2>1, <2>3 DEF Stations
    <2>5. ParserTypes' /\ Balanced'
      BY <1>1, <2>1 DEF PInv, ParserTypes, Balanced
    <2>6. QED
      BY <2>4, <2>5 DEF PInv
  <1>4. CASE outcome # "OK"
    <2>1. server' = [NewServer EXCEPT !.up = FALSE] /\ ok' = FALSE
      BY <1>1, <1>4 DEF Finish
    <2>2. QED
      BY <1>1, <1>2, <2>1, DeadServer, ToDone
  <1>5. QED
    BY <1>3, <1>4

LEMMA GiveUpAnswer ==
  ASSUME PInv, GiveUp
  PROVE  PInv'
  <1>1. /\ pc = "polling" /\ outcome \in {"none", "INCOMPLETE_BUFFER_ERR"}
        /\ pc' = "done" /\ ok' = FALSE /\ server' = [NewServer EXCEPT !.up = FALSE]
        /\ UNCHANGED <<reader, mode, requestKeys, state, keyIdx, results, outcome, writer, talk>>
    BY DEF GiveUp, Waiting, parserVars
  <1>2. QED
    BY <1>1, PollingAnswers, DeadServer, ToDone

LEMMA NotEstablishedAnswer ==
  ASSUME IInv, PInv, NEW f, NEW closed, NotEstablished(f, closed)
  PROVE  PInv'
  <1>1. /\ connect' = [connect EXCEPT !.address = @ + 1, !.fd = NoFd, !.polls = 0]
        /\ UNCHANGED <<reader, mode, requestKeys, state, keyIdx, results, outcome, pc, writer,
                       ok, talk, server>>
    BY DEF NotEstablished, parserVars
  <1>2. connect'.for = connect.for
    BY <1>1 DEF IInv, SocketTypes, Progress
  <1>3. QED
    BY <1>1, <1>2, AnswerQuiet

LEMMA StepAnswer ==
  ASSUME IInv, RInv, RInv', WInv, WInv', PInv, [Next]_vars
  PROVE  PInv'
  <1>0. DOMAIN server = {"got", "wire", "wrote", "up"} /\ connect \in Progress
    BY ServerFields DEF IInv, SocketTypes
  <1>1. CASE NoUsableSocket
    <2>1. NotEstablished(NoFd, TRUE)
      BY <1>1 DEF NoUsableSocket
    <2>2. QED
      BY <2>1, NotEstablishedAnswer
  <1>2. CASE ConnectSocket
    <2>1. pc = "connecting"
      BY <1>2 DEF ConnectSocket, Connecting
    <2>2. PICK f : \/ Established(f) \/ NotEstablished(f, ~unix)
                   \/ /\ connect' = [connect EXCEPT !.fd = f]
                      /\ UNCHANGED <<parserVars, pc, writer, ok, talk, server>>
      BY <1>2 DEF ConnectSocket
    <2>3. CASE Established(f)
      BY <2>1, <2>3, EstablishedAnswer
    <2>4. CASE NotEstablished(f, ~unix)
      BY <2>4, NotEstablishedAnswer
    <2>5. CASE /\ connect' = [connect EXCEPT !.fd = f]
               /\ UNCHANGED <<parserVars, pc, writer, ok, talk, server>>
      <3>1. connect'.for = connect.for
        BY <1>0, <2>5 DEF Progress
      <3>2. QED
        BY <2>5, <3>1, AnswerQuiet DEF parserVars
    <2>6. QED
      BY <2>2, <2>3, <2>4, <2>5
  <1>3. CASE PollConnect
    <2>1. pc = "connecting"
      BY <1>3 DEF PollConnect, Connecting
    <2>2. \/ Established(connect.fd) \/ NotEstablished(connect.fd, ~unix)
          \/ /\ connect' = [connect EXCEPT !.polls = @ + 1]
             /\ UNCHANGED <<parserVars, pc, writer, ok, talk, server>>
      BY <1>3 DEF PollConnect
    <2>3. CASE Established(connect.fd)
      BY <2>1, <2>3, EstablishedAnswer
    <2>4. CASE NotEstablished(connect.fd, ~unix)
      BY <2>4, NotEstablishedAnswer
    <2>5. CASE /\ connect' = [connect EXCEPT !.polls = @ + 1]
               /\ UNCHANGED <<parserVars, pc, writer, ok, talk, server>>
      <3>1. connect'.for = connect.for
        BY <1>0, <2>5 DEF Progress
      <3>2. QED
        BY <2>5, <3>1, AnswerQuiet DEF parserVars
    <2>6. QED
      BY <2>2, <2>3, <2>4, <2>5
  <1>4. CASE SendFails
    <2>1. /\ pc = "polling" /\ outcome # "running" /\ Reconnect("rewind")
          /\ UNCHANGED <<reader, mode, requestKeys, state, keyIdx, results, outcome, writer, talk>>
      BY <1>4 DEF SendFails, Waiting, parserVars
    <2>2. QED
      BY <2>1, ReconnectAnswer
  <1>5. CASE RecvFails
    <2>1. /\ pc = "polling" /\ outcome # "running" /\ Reconnect("rewind")
          /\ UNCHANGED <<mode, requestKeys, state, keyIdx, results, outcome, writer, talk>>
          /\ reader' = Received(0)
      BY <1>5 DEF RecvFails, Waiting
    <2>2. QED
      BY <2>1, ReceivedSame, ReconnectAnswer
  <1>6. CASE PeekFails
    <2>1. /\ pc = "polling" /\ outcome # "running" /\ Reconnect("resend") /\ ~ IsRead(writer)
          /\ UNCHANGED <<mode, requestKeys, state, keyIdx, results, outcome, writer, talk>>
          /\ reader' = Received(0)
      BY <1>6 DEF PeekFails, Waiting
    <2>2. QED
      BY <2>1, ReceivedSame, ReconnectAnswer
  <1>7. CASE ServerCloses
    <2>1. /\ server' = [server EXCEPT !.up = FALSE]
          /\ UNCHANGED <<reader, mode, requestKeys, state, keyIdx, results, outcome, pc, writer,
                         connect, ok, talk>>
      BY <1>7 DEF ServerCloses, parserVars, connectionVars
    <2>2. /\ server'.wire = server.wire /\ server'.wrote = server.wrote
          /\ server'.got = server.got /\ ~ server'.up
      BY <1>0, <2>1
    <2>3. QED
      BY <2>1, <2>2, AnswerQuiet
  <1>8. CASE UNCHANGED vars
    BY <1>8, AnswerQuiet DEF vars, parserVars, connectionVars
  <1>9. QED
    BY <1>1, <1>2, <1>3, <1>4, <1>5, <1>6, <1>7, <1>8, ConnectFailsAnswer, SendAnswer, RecvAnswer,
       FinishAnswer, ResetAnswer, SelectAnswer, DispatchAnswer, ProcessAnswer, GiveUpAnswer,
       ServerAnswer DEF Next, ClientStep

-----------------------------------------------------------------------------
\* The parser is where the bytes begin that it has not read, in every state it
\* is left in by answers that are cut anywhere, by failures and by rewinds.
THEOREM AnswerInvariant == Spec => []PInv
  <1>1. IInv /\ RInv /\ RInv' /\ WInv /\ WInv' /\ PInv /\ [Next]_vars => PInv'
    BY StepAnswer
  <1>2. QED
    BY <1>1, InitAnswer, Invariant, ReferencesInvariant, RequestInvariant, PTL DEF Spec

\* process_packets returns RET_INCOMPLETE_BUFFER_ERR only while bytes of the
\* answer are still to be written or received: with all of them it ends, and
\* no command waits for its timeout with the answer in its buffer.
THEOREM AnswerSufficesTheorem == Spec => []AnswerSuffices
  <1>1. PInv => AnswerSuffices
    BY DEF PInv, Stations, Answering, Lacking, AnswerSuffices
  <1>2. QED
    BY <1>1, AnswerInvariant, PTL

\* What a reader with nothing left to read is referenced by is held.
LEMMA HeldOnly ==
  ASSUME RInv, reader.readLeft = 0, NEW b \in DOMAIN reader.blocks
  PROVE  Reusable(Freed(reader, TokensOf(results)).blocks[b])
  <1>1. /\ ReaderOK(reader) /\ ResultsOK(results) /\ b \in 1 .. Len(reader.blocks)
        /\ Balance(reader, b) = HeldIn(b, TokensOf(results))
    <2>1. /\ ReaderOK(reader) /\ ResultsOK(results)
          /\ \A i \in 1 .. Len(reader.blocks) : Balance(reader, i) = HeldIn(i, TokensOf(results))
      BY DEF RInv, Accounted
    <2>2. DOMAIN reader.blocks = 1 .. Len(reader.blocks)
      BY <2>1 DEF ReaderOK, Shape, Readers
    <2>3. QED
      BY <2>1, <2>2
  <1>2. UnreadIn(reader, b) = 0
    BY <1>1, NothingUnread
  <1>3. PICK x \in Int, y \in Int : x = reader.blocks[b].refs /\ y = HeldIn(b, TokensOf(results)) /\ x = y
    <2>1. Balance(reader, b) = reader.blocks[b].refs - 0 /\ reader.blocks[b].refs \in Int
      BY <1>1, <1>2, BalanceType DEF Balance, ReaderOK
    <2>2. QED
      BY <1>1, <2>1
  <1>4. Freed(reader, TokensOf(results)).blocks[b].refs = x - y
    <2>1. PICK k \in Block : k = reader.blocks[b]
      BY <1>1, BlockType DEF ReaderOK
    <2>2. Freed(reader, TokensOf(results)).blocks[b] = [k EXCEPT !.refs = x - y]
      BY <1>1, <1>3, <2>1 DEF Freed, ReaderOK, Shape, Readers
    <2>3. QED
      BY <2>1, <2>2 DEF Block
  <1>5. x - y = 0
    BY <1>3
  <1>6. QED
    BY <1>4, <1>5 DEF Reusable

\* A command that ends with RET_OK was sent whole and has read its whole answer,
\* so that nothing of it is left for the next command on the connection; and
\* when the destructors of its results have run no block is referenced.
THEOREM NothingLeftOverTheorem == Spec => []NothingLeftOver
  <1>1. RInv /\ PInv => NothingLeftOver
    <2> SUFFICES ASSUME RInv, PInv, pc = "done", ok
                 PROVE  /\ server.got = Request
                        /\ server.wrote = Len(talk.packets) /\ server.wire = <<>>
                        /\ reader.readLeft = 0
                        /\ \A b \in DOMAIN reader.blocks :
                             Reusable(Freed(reader, TokensOf(results)).blocks[b])
      BY DEF NothingLeftOver
    <2>1. AllRead /\ server.got = Request
      BY DEF PInv, Stations
    <2>2. reader.readLeft = 0
      BY <2>1 DEF AllRead
    <2>3. QED
      BY <2>1, <2>2, HeldOnly DEF AllRead
  <1>2. QED
    BY <1>1, AnswerInvariant, ReferencesInvariant, PTL

LEMMA ReaderTyped ==
  ASSUME RInv
  PROVE  ReaderType(reader)
  <1>1. /\ ReaderOK(reader) /\ ResultsOK(results)
        /\ \A b \in 1 .. Len(reader.blocks) : Balance(reader, b) = HeldIn(b, TokensOf(results))
    BY DEF RInv, Accounted
  <1>2. /\ reader \in Readers /\ DOMAIN reader.blocks = 1 .. Len(reader.blocks)
        /\ reader.at <= Len(reader.blocks) + 1 /\ Len(reader.blocks) \in Nat
        /\ reader.writeAt \in {Len(reader.blocks), Len(reader.blocks) + 1}
        /\ \A b \in 1 .. Len(reader.blocks) : Len(reader.blocks[b].data) <= reader.blocks[b].capacity
    BY <1>1, SeqParts DEF ReaderOK, Shape, Readers
  <1>3. ASSUME NEW b \in 1 .. Len(reader.blocks)
        PROVE  reader.blocks[b].refs \in Nat
    <2>1. Balance(reader, b) = HeldIn(b, TokensOf(results)) /\ HeldIn(b, TokensOf(results)) \in Nat
      BY <1>1, ResultsHeld, HeldType
    <2>2. /\ Balance(reader, b) = reader.blocks[b].refs - UnreadIn(reader, b)
          /\ reader.blocks[b].refs \in Int /\ UnreadIn(reader, b) \in Nat
      BY <1>1, BalanceType DEF Balance, ReaderOK
    <2>3. PICK x \in Int, y \in Nat, z \in Nat :
            x = reader.blocks[b].refs /\ y = UnreadIn(reader, b) /\ z = x - y
      BY <2>1, <2>2
    <2>4. x \in Nat
      <3>1. x = z + y
        BY <2>3
      <3>2. QED
        BY <3>1
    <2>5. QED
      BY <2>3, <2>4
  <1>4. /\ reader.at \in 1 .. Len(reader.blocks) + 1 /\ reader.writeAt \in 1 .. Len(reader.blocks) + 1
        /\ reader.offset \in Nat /\ reader.readLeft \in Nat /\ reader.preferred \in Nat
    <2>1. /\ reader.at \in Nat \ {0} /\ reader.writeAt \in Nat \ {0} /\ reader.offset \in Nat
          /\ reader.readLeft \in Nat /\ reader.preferred \in Nat
      BY <1>2 DEF Readers
    <2>2. QED
      BY <1>2, <2>1
  <1>5. QED
    BY <1>2, <1>3, <1>4 DEF ReaderType

\* Reader, writer, parser and socket keep their types; in particular the reader
\* stays inside its blocks, no count of references goes below 0, and
\* m_requestKeyIdx does not pass the last key that a counting command asked for.
THEOREM TypeCorrect == Spec => []TypeOK
  <1>1. IInv /\ RInv /\ PInv => TypeOK
    <2> SUFFICES ASSUME IInv, RInv, PInv PROVE TypeOK
      OBVIOUS
    <2>1. ReaderType(reader)
      BY ReaderTyped
    <2>2. /\ pc \in {"idle", "polling", "connecting", "done"}
          /\ fd \in Fds \cup {NoFd} /\ open \subseteq Fds
          /\ alive \in BOOLEAN /\ unix \in BOOLEAN
      BY DEF IInv, SocketTypes
    <2>3. connect.address \in 0 .. Candidates + 1
      <3>1. connect.address \in Nat /\ connect.address <= Candidates + 1
        BY DEF IInv, SocketTypes, Progress
      <3>2. QED
        BY <3>1, CandidatesType
    <2>4. /\ state \in States
          /\ outcome \in {"none", "running", "OK", "INCOMPLETE_BUFFER_ERR"} \cup Failures
          /\ keyIdx \in 0 .. Len(requestKeys) /\ ok \in BOOLEAN
      BY DEF PInv, ParserTypes
    <2>5. outcome \in {"none", "running", "OK", "INCOMPLETE_BUFFER_ERR",
                       "PROGRAMMING_ERR", "MC_SERVER_ERR"}
      BY <2>4 DEF Failures
    <2>6. writer.readIdx + writer.left = Len(writer.iovec)
      BY DEF PInv, Balanced
    <2>7. QED
      BY <2>1, <2>2, <2>3, <2>4, <2>5, <2>6, Zenon DEF TypeOK, States
  <1>2. QED
    BY <1>1, Invariant, AnswerInvariant, ReferencesInvariant, PTL

=============================================================================
