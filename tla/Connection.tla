----------------------------- MODULE Connection -----------------------------
(***************************************************************************)
(* One Connection: its socket, the BufferWriter that holds the request,    *)
(* and the BufferReader and PacketParser that hold the answer, byte by     *)
(* byte, against a server that may close at any moment.  The calls are     *)
(* made in the orders in which ConnectionPool makes them; how many times   *)
(* it reconnects is the matter of ConnectionPool, and here it may always   *)
(* try once more or give up.                                               *)
(***************************************************************************)
EXTENDS Protocol, BufferWriter

CONSTANTS
    Conversations,  \* the commands issued: what they collect, their mode, the
                    \* keys, the lengths of the iovecs for each item, the
                    \* packets of the answer
    MaxIov,         \* MC_UIO_MAXIOV
    Addresses,      \* how many addresses getaddrinfo finds
    ConnectPolls,   \* how often connectPoll polls, 5 in the code
    Fds             \* bound: file descriptors there are for this connection

\* A descriptor is never 0: close() would not close it.
ASSUME ConnectionAssumption ==
    /\ MaxIov \in Nat \ {0}
    /\ Addresses \in Nat
    /\ ConnectPolls \in Nat \ {0}
    /\ Fds \subseteq Nat \ {0} /\ IsFiniteSet(Fds)

VARIABLES
    pc,        \* "idle", "polling", "connecting", "done"
    writer,    \* m_buffer_writer
    fd,        \* m_socketFd
    alive,     \* m_alive
    unix,      \* m_unixSocket
    connect,   \* the progress of connect(), and what it was called for
    ok,        \* the command is done with RET_OK
    open,      \* descriptors of this connection that are open
    talk,      \* the conversation of the current command
    server     \* the other end of the current socket

connectionVars == <<pc, writer, fd, alive, unix, connect, ok, open>>
vars == <<parserVars, connectionVars, talk, server>>

NoFd == -1
NotConnecting == [address |-> 0, fd |-> NoFd, polls |-> 0, for |-> "idle"]

-----------------------------------------------------------------------------
(* The server: the part of the request it got on this socket, the bytes    *)
(* it wrote that are not read yet, the number of packets they stand for.   *)

NewServer == [got |-> <<>>, wire |-> <<>>, wrote |-> 0, up |-> TRUE]

NoTalk == [collect |-> "none", mode |-> "UNDEFINED", keys |-> <<>>, iovs |-> <<>>, packets |-> <<>>]

\* The length of the first n items of the request.
RequestLength(n) == Total(FlattenSeq(SubSeq(talk.iovs, 1, n)))
Request == [i \in 1 .. RequestLength(Len(talk.iovs)) |-> i]

\* Requests and answers are of bytes.
ASSUME ConversationsAssumption ==
    \A c \in Conversations :
      /\ c.iovs \in Seq(Seq(Nat))
      /\ Len(c.packets) \in Nat
      /\ \A i \in 1 .. Len(c.packets) : Encoded(c.packets[i]) \in Seq(STRING)

ASSUME ProtocolAssumption == \A c \in Conversations : Answered(c)

\* The server answers an item when it has all of it, and a command that
\* ends with a line when it has all of the command.
ServerAnswers ==
    /\ server.up
    /\ server.wrote < Len(talk.packets)
    /\ LET items == IF talk.mode = "COUNTING" THEN server.wrote + 1
                                              ELSE Len(talk.iovs)
       IN  IsPrefix(SubSeq(Request, 1, RequestLength(items)), server.got)
    /\ server' = [server EXCEPT !.wrote = @ + 1,
                    !.wire = @ \o Encoded(talk.packets[server.wrote + 1])]
    /\ UNCHANGED <<parserVars, connectionVars, talk>>

ServerCloses ==
    /\ server.up
    /\ server' = [server EXCEPT !.up = FALSE]
    /\ UNCHANGED <<parserVars, connectionVars, talk>>

-----------------------------------------------------------------------------
Init ==
    /\ ParserInit
    /\ pc = "idle"
    /\ writer = NewWriter
    /\ fd = NoFd /\ alive = FALSE /\ unix \in BOOLEAN
    /\ connect = NotConnecting
    /\ ok = FALSE
    /\ open = {}
    /\ talk = NoTalk
    /\ server = [NewServer EXCEPT !.up = FALSE]

\* A command is dispatched: takeBuffer, takeNumber, addRequestKey and
\* setParserMode.
Dispatch ==
    /\ pc = "idle" /\ alive
    /\ \E c \in Conversations :
         /\ talk' = c
         /\ writer' = FoldLeft(Take, writer, FlattenSeq(c.iovs))
         /\ mode' = c.mode
         /\ requestKeys' = requestKeys \o c.keys
    /\ pc' = "polling"
    /\ UNCHANGED <<reader, state, keyIdx, results, outcome,
                   fd, alive, unix, connect, ok, open, server>>

-----------------------------------------------------------------------------
(* The socket: close, markDead, tryReconnect and connect.                  *)

\* markDead closes the socket; tryReconnect then connects for the sake of
\* what, or does not because the back-off lasts or no retry is left.
Reconnect(what) ==
    /\ open' = open \ {fd}
    /\ fd' = NoFd
    /\ alive' = FALSE
    /\ server' = [NewServer EXCEPT !.up = FALSE]
    /\ \/ /\ pc' = "connecting"
          /\ connect' = [NotConnecting EXCEPT !.address = 1, !.for = what]
          /\ UNCHANGED ok
       \/ /\ pc' = "done"
          /\ ok' = FALSE
          /\ UNCHANGED connect

\* The selector meets a dead connection: tryReconnect(false).
Select ==
    /\ pc = "idle" /\ ~alive
    /\ connect' = [NotConnecting EXCEPT !.address = 1]
    /\ pc' = "connecting"
    /\ UNCHANGED <<parserVars, writer, fd, alive, unix, ok, open, talk, server>>

\* connect() has an established socket f.  A request that was begun is
\* rewound; one that was not is sent from where it is.
Established(f) ==
    /\ fd' = f
    /\ alive' = TRUE
    /\ open' = open \cup {f}
    /\ server' = NewServer
    /\ connect' = NotConnecting
    /\ pc' = IF connect.for = "idle" THEN "idle" ELSE "polling"
    /\ IF connect.for = "rewind"
         THEN /\ RewindParser
              /\ reader' = ResetReader(Freed(reader, TokensOf(results)))
              /\ writer' = RewindWriter(writer)
         ELSE UNCHANGED <<parserVars, writer>>
    /\ UNCHANGED <<unix, ok, talk>>

\* Mutant: the descriptor of an address that does not do is lost.
NotEstablishedLeaks(f, closed) ==
    /\ open' = IF f = NoFd THEN open ELSE open \cup {f}
    /\ connect' = [connect EXCEPT !.address = @ + 1, !.fd = NoFd, !.polls = 0]
    /\ UNCHANGED <<parserVars, pc, writer, fd, alive, unix, ok, talk, server>>

\* This address does not do; closed says whether its descriptor was closed.
NotEstablished(f, closed) ==
    /\ open' = IF closed THEN open \ {f} ELSE open \cup {f}
    /\ connect' = [connect EXCEPT !.address = @ + 1, !.fd = NoFd, !.polls = 0]
    /\ UNCHANGED <<parserVars, pc, writer, fd, alive, unix, ok, talk, server>>

Candidates == IF unix THEN 1 ELSE Addresses
Connecting == pc = "connecting" /\ connect.address <= Candidates

\* socket() fails, or setting an option of the new socket, which is closed.
NoUsableSocket ==
    /\ Connecting /\ connect.fd = NoFd
    /\ NotEstablished(NoFd, TRUE)

\* connect(2) on the lowest free descriptor: done, refused, or in progress.
\* unixSocketConnect returns without closing a socket that is refused.
ConnectSocket ==
    /\ Connecting /\ connect.fd = NoFd
    /\ Fds \ open # {}
    /\ LET f == Min(Fds \ open)
       IN  \/ Established(f)
           \/ NotEstablished(f, ~unix)
           \/ /\ open' = open \cup {f}
              /\ connect' = [connect EXCEPT !.fd = f]
              /\ UNCHANGED <<parserVars, pc, writer, fd, alive, unix, ok,
                             talk, server>>

\* Mutant: the polls are not counted.
PollConnectForever ==
    /\ Connecting /\ connect.fd # NoFd
    /\ \/ Established(connect.fd)
       \/ NotEstablished(connect.fd, ~unix)
       \/ /\ connect' = [connect EXCEPT !.polls = (@ + 1) % ConnectPolls]
          /\ UNCHANGED <<parserVars, pc, writer, fd, alive, unix, ok, open,
                         talk, server>>

\* poll(2) on a socket whose connection is in progress.
PollConnect ==
    /\ Connecting /\ connect.fd # NoFd
    /\ \/ Established(connect.fd)
       \/ NotEstablished(connect.fd, ~unix)
       \/ /\ connect.polls + 1 < ConnectPolls
          /\ connect' = [connect EXCEPT !.polls = @ + 1]
          /\ UNCHANGED <<parserVars, pc, writer, fd, alive, unix, ok, open,
                         talk, server>>

\* No address is left: the command fails on this connection, or the
\* selector goes without it.
ConnectFails ==
    /\ pc = "connecting" /\ connect.address > Candidates
    /\ pc' = IF connect.for = "idle" THEN "idle" ELSE "done"
    /\ connect' = NotConnecting
    /\ ok' = FALSE
    /\ UNCHANGED <<parserVars, writer, fd, alive, unix, open, talk, server>>

-----------------------------------------------------------------------------
(* Sending and receiving.                                                  *)

Waiting == pc = "polling" /\ outcome \in {"none", "INCOMPLETE_BUFFER_ERR"}

\* sendmsg takes a part of what is left, at most MaxIov iovecs of it.  That
\* the command word, the first iovec, goes whole into the empty buffer of a
\* new request is assumed of the kernel: isRead relies on it.
Send ==
    /\ Waiting /\ writer.left > 0
    /\ \E n \in 1 .. LengthOf(SubSeq(ToSend(writer), 1,
                                     Smaller(writer.left, MaxIov))) :
         /\ ~IsRead(writer) => n >= writer.iovec[1].len
         /\ writer' = CommitRead(writer, n)
         /\ server' = [server EXCEPT !.got = @ \o BytesOf(writer, n)]
    /\ UNCHANGED <<parserVars, pc, fd, alive, unix, connect, ok, open, talk>>

\* sendmsg fails, or poll reports an error on the socket.
SendFails ==
    /\ Waiting /\ ~server.up
    /\ Reconnect("rewind")
    /\ UNCHANGED <<parserVars, writer, unix, talk>>

\* The reader after recv() with n bytes of the wire, MSG_PEEK or a failure
\* being n = 0.
Received(n) ==
    LET prepared == PrepareWrite(PreferredTaken(reader), PreferredSize(reader))
    IN  IF n = 0 THEN prepared
                 ELSE CommitWrite(prepared, SubSeq(server.wire, 1, n))

Room == Writable(Received(0), PreferredSize(reader))

Recv ==
    /\ Waiting /\ IsRead(writer)
    /\ \E n \in 1 .. Smaller(Room, Len(server.wire)) :
         /\ reader' = Received(n)
         /\ server' = [server EXCEPT !.wire = SubSeq(@, n + 1, Len(@))]
    /\ ProcessPackets
    /\ UNCHANGED <<mode, requestKeys, keyIdx, results, connectionVars, talk>>

\* The end of the stream: the answer did not come, or not all of it.
RecvFails ==
    /\ Waiting /\ IsRead(writer)
    /\ ~server.up /\ server.wire = <<>>
    /\ reader' = Received(0)
    /\ Reconnect("rewind")
    /\ UNCHANGED <<mode, requestKeys, state, keyIdx, results, outcome,
                   writer, unix, talk>>

\* recv(MSG_PEEK) before anything is sent finds the end of the stream.
PeekFails ==
    /\ Waiting /\ ~IsRead(writer)
    /\ ~server.up
    /\ reader' = Received(0)
    /\ Reconnect("resend")
    /\ UNCHANGED <<mode, requestKeys, state, keyIdx, results, outcome,
                   writer, unix, talk>>

Process == Parse /\ UNCHANGED <<connectionVars, talk, server>>

\* process_packets has ended: all is parsed, or the connection is given up.
Finish ==
    /\ pc = "polling"
    /\ outcome \in {"OK", "PROGRAMMING_ERR", "MC_SERVER_ERR"}
    /\ pc' = "done"
    /\ ok' = (outcome = "OK")
    /\ IF outcome = "OK"
         THEN UNCHANGED <<fd, alive, open, server>>
         ELSE /\ fd' = NoFd /\ alive' = FALSE /\ open' = open \ {fd}
              /\ server' = [NewServer EXCEPT !.up = FALSE]
    /\ UNCHANGED <<parserVars, writer, unix, connect, talk>>

\* The poll of the command times out or fails: markDeadAll.
GiveUp ==
    /\ Waiting
    /\ pc' = "done" /\ ok' = FALSE
    /\ fd' = NoFd /\ alive' = FALSE /\ open' = open \ {fd}
    /\ server' = [NewServer EXCEPT !.up = FALSE]
    /\ UNCHANGED <<parserVars, writer, unix, connect, talk>>

\* Connection::reset once the results have been used.
Reset ==
    /\ pc = "done"
    /\ ResetParser
    /\ reader' = ResetReader(Freed(reader, TokensOf(results)))
    /\ writer' = NewWriter
    /\ talk' = NoTalk
    /\ server' = [server EXCEPT !.got = <<>>, !.wrote = 0]
    /\ pc' = "idle" /\ ok' = FALSE
    /\ UNCHANGED <<fd, alive, unix, connect, open>>

ClientStep ==
    \/ NoUsableSocket \/ ConnectSocket \/ PollConnect \/ ConnectFails
    \/ Send \/ SendFails
    \/ Recv \/ RecvFails \/ PeekFails
    \/ Finish
    \/ Reset

Next == Select \/ Dispatch \/ ClientStep \/ Process \/ GiveUp
        \/ ServerAnswers \/ ServerCloses

Spec == Init /\ [][Next]_vars

\* The thread inside a command keeps running, and a server that is up
\* answers in the end.  ParserTurns is WF_vars(Process): a turn of the loop
\* can be taken as long as process_packets runs.
ParserTurns == []<>(outcome # "running") \/ []<><<Process>>_vars

FairSpec ==
    Spec /\ WF_vars(ClientStep) /\ ParserTurns /\ WF_vars(ServerAnswers)

-----------------------------------------------------------------------------
(* What the command is to bring: the answers before the server refuses it. *)

Answer(p, key) ==
    CASE p.type = "VALUE" ->
           [key |-> <<p.key>>, flags |-> p.flags, cas |-> p.cas, data |-> p.data]
      [] p.type \in MessageTypes -> [type |-> p.type, key |-> key]
      [] p.type = "NUMBER" -> [value |-> p.value, key |-> key]
      [] OTHER -> Front(p.line)

Goal ==
    LET packets == SelectSeq(talk.packets,
                             LAMBDA p : p.type \notin Refusals \cup {"END"})
        KeyOf(i) == IF talk.mode = "COUNTING" THEN talk.keys[i] ELSE "none"
    IN  [i \in DOMAIN packets |-> Answer(packets[i], KeyOf(i))]

Refused == \E i \in DOMAIN talk.packets : talk.packets[i].type \in Refusals

(* The results that ConnectionPool collects for the caller, finished or    *)
(* not.                                                                    *)

\* RetrievalResult::inner
RetrievalInner(kv) ==
    [key |-> TokenBytes(reader, kv.key), flags |-> kv.flags,
     cas |-> kv.cas, data |-> TokenBytes(reader, kv.data)]

\* Values whose bytes have not all come are left out.
CollectRetrieval ==
    LET whole == SelectSeq(results.retrieval, LAMBDA kv : kv.remain = 0)
    IN  [i \in DOMAIN whole |-> RetrievalInner(whole[i])]

CollectMessages == results.message

\* LineResult::inner leaves out the last byte.
LineInner(line) == Front(TokenBytes(reader, line))

CollectLines == [i \in DOMAIN results.line |-> LineInner(results.line[i])]

\* flush_all: the message, MSG_LIBMC_INVALID standing for none.
CollectFlushAll == IF Len(results.message) = 1 THEN results.message ELSE <<>>

\* The number, or NULL for the message, which is NOT_FOUND.
CollectUnsigned ==
    IF Len(results.unsigned) = 1 THEN results.unsigned
    ELSE IF Len(results.message) = 1 THEN results.message ELSE <<>>

\* What each command of Client collects.
Collected ==
    CASE talk.collect = "retrieval" -> CollectRetrieval
      [] talk.collect = "message"   -> CollectMessages
      [] talk.collect = "broadcast" -> CollectLines
      [] talk.collect = "flush_all" -> CollectFlushAll
      [] talk.collect = "unsigned"  -> CollectUnsigned
      [] talk.collect = "none"      -> <<>>

\* A line or a number is put in the results before it is read.
Unfinished == state \in {"VER_START", "STAT_START", "INCR_DECR_START"}
Arrived == IF Unfinished THEN Front(Collected) ELSE Collected

CommandStatus ==
    CASE pc = "idle" -> "idle"
      [] pc = "connecting" ->
           IF connect.for = "idle" THEN "idle" ELSE "pending"
      [] pc = "polling" -> "pending"
      [] pc = "done" -> IF ok THEN "ok" ELSE "failed"

-----------------------------------------------------------------------------
(* Properties.                                                             *)

TypeOK ==
    /\ pc \in {"idle", "polling", "connecting", "done"}
    /\ ReaderType(reader)
    /\ state \in {"START", "GET_START", "GET_KEY", "GET_FLAGS", "GET_BYTES",
                  "GET_CAS", "GET_VALUE_REMAINING", "INCR_DECR_START",
                  "INCR_DECR_REMAINING", "VER_START", "STAT_START", "END",
                  "ERROR"}
    /\ outcome \in {"none", "running", "OK", "INCOMPLETE_BUFFER_ERR",
                    "PROGRAMMING_ERR", "MC_SERVER_ERR"}
    /\ keyIdx \in 0 .. Len(requestKeys)
    /\ writer.readIdx + writer.left = Len(writer.iovec)
    /\ fd \in Fds \cup {NoFd} /\ open \subseteq Fds
    /\ alive \in BOOLEAN /\ ok \in BOOLEAN /\ unix \in BOOLEAN
    /\ connect.address \in 0 .. Candidates + 1

\* The accounting of BufferReader is exact: what it says is left to read is
\* what follows the cursor, and a block is referenced by its unread bytes and
\* the bytes of tokens that results own, no more (it would never be reusable)
\* and no less (the destructor of a result would release what is not its).
ReferencesExact ==
    /\ CursorInBounds(reader)
    /\ reader.readLeft = Len(Unread(reader))
    /\ \A b \in DOMAIN reader.blocks :
         reader.blocks[b].refs = UnreadIn(reader, b)
                                 + HeldIn(b, TokensOf(results))

\* Whatever parts sendmsg takes and however often the request is begun again,
\* the server gets the bytes of the request in order, none twice and none
\* left out; it has all of them when BufferWriter has nothing left.
RequestIntact ==
    pc = "polling" => /\ IsPrefix(server.got, Request)
                      /\ writer.left = 0 => server.got = Request

\* A command that succeeds leaves its connection clean for the next one: all
\* of the answer was received and parsed, so that no byte of it can be taken
\* for the beginning of another answer, and once the results are destroyed no
\* block is referenced ("ONLY be happened on error", BufferReader::reset).
NothingLeftOver ==
    pc = "done" /\ ok =>
      /\ server.got = Request
      /\ server.wrote = Len(talk.packets) /\ server.wire = <<>>
      /\ reader.readLeft = 0
      /\ \A b \in DOMAIN reader.blocks :
           Reusable(Freed(reader, TokensOf(results)).blocks[b])

\* The parser never waits for more than the answer: once all of it has been
\* received, process_packets does not return RET_INCOMPLETE_BUFFER_ERR, which
\* would leave the command to the timeout of its poll.
AnswerSuffices ==
    pc = "polling" /\ outcome = "INCOMPLETE_BUFFER_ERR" =>
      server.wrote < Len(talk.packets) \/ server.wire # <<>>

\* A connection that is alive has its socket open, and a TCP connection has
\* no other: whatever fails in connect() or after it, no descriptor is lost.
\* (unixSocketConnect does lose the descriptor of a refused connection.)
OneSocket ==
    /\ alive => fd \in open
    /\ ~unix => open = {f \in {fd, connect.fd} : f # NoFd}

\* What the caller of a command gets is what Answers promises: whole answers
\* in order, but for one that is still being read, success only with all of
\* them and never after a refusal.
Promised == INSTANCE Answers WITH goal <- Goal, refused <- Refused,
                                  answers <- Arrived, status <- CommandStatus
ImplementsAnswers == Promised!Spec

\* No step of a command waits for ever: one that is sent and received ends
\* or meets a failure even if its poll never times out, and a connect() ends
\* whatever its addresses do.  (That failures run out is the matter of
\* ConnectionPool, which counts the retries.)
CommandEnds ==
    /\ pc = "polling" ~> pc \in {"connecting", "done"}
    /\ pc = "connecting" ~> pc # "connecting"

\* Result.cpp:82 says of a LineResult that it always ends with a carriage
\* return, and inner() takes that byte off: so does every line a command that
\* is done leaves to be collected.
LinesEndWithCR ==
    pc = "done" =>
      \A i \in DOMAIN results.line :
        /\ results.line[i] # <<>>
        /\ Last(TokenBytes(reader, results.line[i])) = "CR"
=============================================================================
