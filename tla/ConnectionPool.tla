--------------------------- MODULE ConnectionPool ---------------------------
(***************************************************************************)
(* One Client issuing commands to its memcached servers: the dispatch of a *)
(* command over the connections, the poll loop of                          *)
(* ConnectionPool::waitPoll with its retries and timeouts, the collection  *)
(* of the results and the reset that ends the command.  A Client runs on   *)
(* one thread, so the interleaving is between that thread and the servers  *)
(* and sockets it talks to.                                                *)
(*                                                                         *)
(* A connection is sent an iovec at a time.  What is kept of a request is  *)
(* two parts for each of its items, the first iovec and the rest, because  *)
(* Connection::isSent only asks whether the first iovec has gone.  A reply *)
(* is a sequence of packets, each tagged with the command it answers.      *)
(***************************************************************************)
EXTENDS Integers, Sequences, FiniteSets, SequencesExt, FiniteSetsExt

CONSTANTS
    NConns,         \* number of servers, m_nConns
    MaxItems,       \* bound: keys of one command that hash to one server
    MaxCmds,        \* bound: commands issued in a behaviour
    MaxRetries,     \* CFG_MAX_RETRIES, m_maxRetries of every connection
    WireCap,        \* bound: request parts the kernel buffers hold unread
    CounterMod,     \* stands for 2^32, the range of m_nActiveConn
    Kinds,          \* the kinds of command issued
    Faults          \* what servers may do beyond answering, not answering,
                    \* closing, and resetting before all is answered:
                    \* "late_reset" resets a connection that has its answer
                    \* while the command waits for others,
                    \* "noreply_close" closes one during a command that has
                    \* no answer,
                    \* "unasked_line" writes an error line before any request

ASSUME ConnectionPoolAssumption ==
    /\ NConns \in Nat \ {0}
    /\ MaxItems \in Nat \ {0}
    /\ MaxCmds \in Nat \ {0}
    /\ MaxRetries \in Nat
    /\ WireCap \in Nat \ {0, 1}
    /\ CounterMod \in Nat /\ CounterMod > NConns
    /\ Kinds \subseteq {"retrieval", "storage", "noreply", "broadcast", "quit"}
    /\ Faults \subseteq {"late_reset", "noreply_close", "unasked_line"}

Conns == 1 .. NConns

VARIABLES
    pc,       \* "idle", "poll" in waitPoll, "collect" once it returned
    cmd,      \* number of commands issued so far
    kind,     \* kind of the current command
    active,   \* m_activeConns, always in the order of m_conns
    nActive,  \* m_nActiveConn
    ret,      \* what waitPoll returns
    conn,     \* the Connection objects and their pollfd
    peer      \* the sockets and the server at their other end

vars == <<pc, cmd, kind, active, nActive, ret, conn, peer>>

-----------------------------------------------------------------------------
(* Requests, packets and the parser's end test.                            *)

\* version, stats, flush_all; quit waits for no answer.
IsBroadcast(k) == k \in {"broadcast", "quit"}
Counting(k) == k \in {"storage", "noreply"}

\* The parts a command of kind k with n items puts in the BufferWriter.
Parts(k, n) ==
    IF k \in {"storage", "noreply"} THEN 2 * n ELSE 2

Part(c, i) ==
    [cmd |-> cmd, kind |-> kind, n |-> conn[c].items,
     item |-> (i + 1) \div 2, half |-> 2 - (i % 2)]

Packet(p, t) == [cmd |-> p.cmd, item |-> p.item, type |-> t]

\* What the server answers to the item that ends with part p.
Answer(p) ==
    CASE p.kind = "retrieval" -> [i \in 1 .. p.n + 1 |->
              IF i <= p.n THEN Packet([p EXCEPT !.item = i], "VALUE")
                          ELSE Packet(p, "END")]
      [] p.kind = "storage"   -> <<Packet(p, "MSG")>>
      [] p.kind = "broadcast" -> <<Packet(p, "END")>>
      [] OTHER                -> <<>>

\* The server may refuse an item with an error line, and always does when
\* the two parts are not those of one item.
Answers(p, q) ==
    LET refusal == <<Packet(q, "ERR")>>
    IN  IF q # [p EXCEPT !.half = 2] THEN {refusal}
        ELSE IF Answer(q) = <<>> THEN {Answer(q)}
        ELSE {Answer(q), refusal}

Messages(packets) == {i \in DOMAIN packets : packets[i].type = "MSG"}

\* canEndParse: the line of an END state, or one message for every key.
CanEnd(c, packets) ==
    IF Counting(kind)
      THEN Cardinality(Messages(packets)) >= conn[c].counter
      ELSE packets # <<>> /\ Last(packets).type = "END"

Unsent(c) == conn[c].sent < Parts(kind, conn[c].items)

\* A connection whose part of the command is still to be done.
Pending(c) ==
    /\ c \in active
    /\ conn[c].alive
    /\ Unsent(c) \/ (conn[c].counter > 0 /\ ~CanEnd(c, conn[c].got))

-----------------------------------------------------------------------------
(* Sockets.                                                                *)

NoSocket == [sock |-> "none", wire |-> <<>>, replies |-> <<>>]
NewSocket == [NoSocket EXCEPT !.sock = "open"]

\* What poll(2) reports of connection c: what is both asked for and ready,
\* and errors whether asked for or not.  "peek" is the test that the loop
\* makes of a readable connection before anything of the request is sent.
Readable(c) == peer[c].replies # <<>> \/ peer[c].sock \in {"fin", "rst"}
Writable(c) == Len(peer[c].wire) < WireCap \/ peer[c].sock = "rst"

Revents(c) ==
    IF ~conn[c].alive THEN {}
    ELSE {e \in {"hup"} : peer[c].sock = "rst"}
         \cup {e \in conn[c].events \cap {"in"} : Readable(c)}
         \cup {e \in {"peek"} : /\ "in" \in conn[c].events /\ Readable(c)
                                /\ conn[c].sent = 0}
         \cup {e \in conn[c].events \cap {"out"} : Writable(c)}

\* markDead and close: the socket goes, and with it what was in flight.
Dead(k) == [k EXCEPT !.alive = FALSE, !.backoff = FALSE]

\* Mutant: the parser keeps the results of the first attempt.
RewoundKeepsResults(k) == [k EXCEPT !.sent = 0, !.events = {"out"}]

\* Connection::rewind and rewindConn: the whole request is to be sent again
\* and what was received of the answer is dropped.
Rewound(k) == [k EXCEPT !.sent = 0, !.got = <<>>, !.events = {"out"}]

\* tryReconnect has connected.
Connected(k) == [k EXCEPT !.alive = TRUE, !.backoff = FALSE]

\* Mutant: the BufferWriter is not reset.
ResetKeepsSent(k) == [k EXCEPT !.counter = 0, !.retires = 0, !.items = 0,
                               !.got = <<>>, !.events = {}, !.revents = {}]

\* Connection::reset; the pollfd goes with the frame of waitPoll.
Reset(k) == [k EXCEPT !.counter = 0, !.retires = 0, !.items = 0, !.sent = 0,
                      !.got = <<>>, !.events = {}, !.revents = {}]

Decrement(n) == (n + CounterMod - 1) % CounterMod

-----------------------------------------------------------------------------
Init ==
    /\ pc = "idle"
    /\ cmd = 0
    /\ kind = "quit"
    /\ active = {}
    /\ nActive = 0
    /\ ret = "OK"
    /\ conn = [c \in Conns |->
         [alive |-> FALSE, backoff |-> FALSE, retires |-> 0, counter |-> 0,
          items |-> 0, sent |-> 0, got |-> <<>>, events |-> {}, revents |-> {}]]
    /\ peer = [c \in Conns |-> NoSocket]

\* The connections that a command is for: those that a key hashes to, or, as
\* broadcastCommand does, all.
WantedBy(k, load) == {c \in Conns : IsBroadcast(k) \/ load[c] > 0}

(***************************************************************************)
(* A dispatchXxx call and the head of waitPoll.  load[c] is the number of  *)
(* valid keys that hash to connection c; up is the set of dead connections *)
(* that tryReconnect brings back, among those whose back-off is over.  The *)
(* keys of the others are skipped.  invalid says that some key was not     *)
(* valid.                                                                  *)
(***************************************************************************)
Dispatch ==
    /\ pc = "idle"
    /\ cmd < MaxCmds
    /\ \E k \in Kinds, invalid \in BOOLEAN,
          load \in [Conns -> 0 .. MaxItems] :
         LET wanted == WantedBy(k, load)
             tried  == {c \in wanted : ~conn[c].alive /\ ~conn[c].backoff}
         IN  /\ IsBroadcast(k) => /\ \A c \in Conns : load[c] = 1
                                  /\ ~invalid
             /\ \E up \in SUBSET tried :
                  /\ active' = {c \in wanted : conn[c].alive} \cup up
                  /\ conn' = [c \in Conns |->
                       IF c \in active'
                         THEN [Connected(conn[c]) EXCEPT
                                 !.items = load[c],
                                 !.counter = IF k \in {"noreply", "quit"}
                                               THEN 0 ELSE load[c],
                                 !.events = {"in", "out"}]
                         ELSE [conn[c] EXCEPT !.backoff = @ \/ c \in tried]]
                  /\ peer' = [c \in Conns |->
                       IF c \in up THEN NewSocket ELSE peer[c]]
             /\ kind' = k
             /\ nActive' = Cardinality(active')
             /\ IF active' = {}
                  THEN /\ pc' = "collect"
                       /\ ret' = IF invalid THEN "INVALID_KEY_ERR"
                                            ELSE "MC_SERVER_ERR"
                  ELSE /\ pc' = "poll"
                       /\ ret' = "OK"
    /\ cmd' = cmd + 1

-----------------------------------------------------------------------------
(* The poll loop.  The connections that poll reported are served in the    *)
(* order of m_activeConns, each from the revents of that poll.             *)

Served == \A c \in active : conn[c].revents = {}

Poll ==
    /\ pc = "poll" /\ Served /\ nActive # 0
    /\ \E c \in active : Revents(c) # {}
    /\ conn' = [c \in Conns |-> IF c \in active
                                  THEN [conn[c] EXCEPT !.revents = Revents(c)]
                                  ELSE conn[c]]
    /\ UNCHANGED <<pc, cmd, kind, active, nActive, ret, peer>>

\* poll returned 0, or -1: markDeadAll closes what still waits for an event.
MarkDeadAll(victims) ==
    /\ conn' = [c \in Conns |-> IF c \in victims THEN Dead(conn[c]) ELSE conn[c]]
    /\ peer' = [c \in Conns |-> IF c \in victims THEN NoSocket ELSE peer[c]]

\* Mutant: only the connections that still have something to send.
WaitingToSend == {c \in active : "out" \in conn[c].events}

\* The connections whose pollfd still asks for an event.
Waiting == {c \in active : conn[c].events # {}}

PollTimeout ==
    /\ pc = "poll" /\ Served /\ nActive # 0
    /\ \A c \in active : Revents(c) = {}
    /\ MarkDeadAll(Waiting)
    /\ ret' = "POLL_TIMEOUT_ERR"
    /\ pc' = "collect"
    /\ UNCHANGED <<cmd, kind, active, nActive>>

PollError ==
    /\ pc = "poll" /\ Served /\ nActive # 0
    /\ MarkDeadAll(Waiting)
    /\ ret' = "POLL_ERR"
    /\ pc' = "collect"
    /\ UNCHANGED <<cmd, kind, active, nActive>>

Turn(c) ==
    /\ pc = "poll"
    /\ c \in active
    /\ conn[c].revents # {}
    /\ \A d \in active : d < c => conn[d].revents = {}

\* Mutant: m_nActiveConn is not decremented.
GiveUpUncounted(c, k, err) ==
    /\ conn' = [conn EXCEPT ![c] = [k EXCEPT !.events = {}, !.revents = {}]]
    /\ peer' = [peer EXCEPT ![c] = NoSocket]
    /\ ret' = err
    /\ UNCHANGED nActive

\* Mutant: the error is not kept in ret_code.
GiveUpSilently(c, k, err) ==
    /\ conn' = [conn EXCEPT ![c] = [k EXCEPT !.events = {}, !.revents = {}]]
    /\ peer' = [peer EXCEPT ![c] = NoSocket]
    /\ nActive' = Decrement(nActive)
    /\ UNCHANGED ret

\* markDeadConn, then what is left of connection c when it is given up.
GiveUp(c, k, err) ==
    /\ conn' = [conn EXCEPT ![c] = [k EXCEPT !.events = {}, !.revents = {}]]
    /\ peer' = [peer EXCEPT ![c] = NoSocket]
    /\ nActive' = Decrement(nActive)
    /\ ret' = err

\* Mutant: tryReconnect does not count the retry.
RetryUncounted(c, err) ==
    LET dead == Dead(conn[c])
    IN  \/ /\ conn' = [conn EXCEPT ![c] =
                         [Rewound(Connected(dead)) EXCEPT !.revents = {}]]
           /\ peer' = [peer EXCEPT ![c] = NewSocket]
           /\ UNCHANGED <<nActive, ret>>
        \/ GiveUp(c, [dead EXCEPT !.backoff = TRUE], err)

\* markDeadConn, then tryReconnect: on success the request is rewound.
RetryOrGiveUp(c, err) ==
    LET dead == [Dead(conn[c]) EXCEPT !.retires = @ + 1]
    IN  \/ /\ dead.retires <= MaxRetries
           /\ conn' = [conn EXCEPT ![c] =
                         [Rewound(Connected(dead)) EXCEPT !.revents = {}]]
           /\ peer' = [peer EXCEPT ![c] = NewSocket]
           /\ UNCHANGED <<nActive, ret>>
        \/ /\ dead.retires <= MaxRetries
           /\ GiveUp(c, [dead EXCEPT !.backoff = TRUE], err)
        \/ /\ dead.retires > MaxRetries
           /\ GiveUp(c, dead, err)

HandleHup(c) ==
    /\ Turn(c) /\ "hup" \in conn[c].revents
    /\ RetryOrGiveUp(c, "CONN_POLL_ERR")
    /\ UNCHANGED <<pc, cmd, kind, active>>

\* Readable before anything is sent: an end of file is a connection that
\* died while idle, reopened once without counting a retry.
Peeking(c) == Turn(c) /\ "hup" \notin conn[c].revents /\ "peek" \in conn[c].revents

PeekClosed(c) ==
    /\ Peeking(c) /\ peer[c].replies = <<>>
    /\ \/ /\ conn' = [conn EXCEPT ![c] = [Connected(@) EXCEPT
                                           !.events = {"out"}, !.revents = {}]]
          /\ peer' = [peer EXCEPT ![c] = NewSocket]
          /\ UNCHANGED <<nActive, ret>>
       \/ GiveUp(c, [Dead(conn[c]) EXCEPT !.backoff = TRUE], "RECV_ERR")
    /\ UNCHANGED <<pc, cmd, kind, active>>

PeekData(c) ==
    /\ Peeking(c) /\ peer[c].replies # <<>>
    /\ conn' = [conn EXCEPT ![c].events = @ \ {"in"},
                            ![c].revents = @ \ {"peek"}]
    /\ UNCHANGED <<pc, cmd, kind, active, nActive, ret, peer>>

Sending(c) ==
    /\ Turn(c)
    /\ conn[c].revents \cap {"hup", "peek"} = {}
    /\ "out" \in conn[c].revents

SendFails(c) ==
    /\ Sending(c) /\ peer[c].sock = "rst"
    /\ RetryOrGiveUp(c, "SEND_ERR")
    /\ UNCHANGED <<pc, cmd, kind, active>>

\* sendmsg takes some of the parts left.  A noreply connection is done when
\* it has taken all; its pollfd keeps POLLIN.
Send(c) ==
    /\ Sending(c) /\ peer[c].sock # "rst"
    /\ \E n \in 1 .. Parts(kind, conn[c].items) - conn[c].sent :
         LET sent == conn[c].sent + n
             all  == sent = Parts(kind, conn[c].items)
         IN  /\ Len(peer[c].wire) + n <= WireCap
             /\ conn' = [conn EXCEPT
                  ![c].sent = sent,
                  ![c].events = {"in"} \cup IF all THEN {} ELSE {"out"},
                  ![c].revents = @ \ {"out"}]
             /\ peer' = [peer EXCEPT ![c].wire =
                  @ \o [i \in 1 .. n |-> Part(c, conn[c].sent + i)]]
             /\ nActive' = IF all /\ conn[c].counter = 0
                             THEN Decrement(nActive) ELSE nActive
    /\ UNCHANGED <<pc, cmd, kind, active, ret>>

Receiving(c) == Turn(c) /\ conn[c].revents = {"in"}

RecvFails(c) ==
    /\ Receiving(c) /\ peer[c].replies = <<>>
    /\ RetryOrGiveUp(c, "RECV_ERR")
    /\ UNCHANGED <<pc, cmd, kind, active>>

(***************************************************************************)
(* recv takes some of the packets that have arrived and process_packets    *)
(* parses them until it can end, or meets an error line.                   *)
(***************************************************************************)
Recv(c) ==
    /\ Receiving(c)
    /\ \E n \in 1 .. Len(peer[c].replies) :
         LET taken(i) == conn[c].got \o SubSeq(peer[c].replies, 1, i)
             bad(i) == i > 0 /\ peer[c].replies[i].type = "ERR"
             stop == Min({i \in 0 .. n : CanEnd(c, taken(i)) \/ bad(i) \/ i = n})
             done == CanEnd(c, taken(stop)) /\ ~bad(stop)
         IN  \/ /\ bad(stop)
                /\ \E err \in {"PROGRAMMING_ERR", "MC_SERVER_ERR"} :
                     GiveUp(c, [Dead(conn[c]) EXCEPT !.got = taken(stop - 1)], err)
             \/ /\ ~bad(stop)
                /\ conn' = [conn EXCEPT
                     ![c].got = taken(stop),
                     ![c].events = IF done THEN @ \ {"in"} ELSE @,
                     ![c].revents = {}]
                /\ peer' = [peer EXCEPT ![c].replies = SubSeq(@, n + 1, Len(@))]
                /\ nActive' = IF done THEN Decrement(nActive) ELSE nActive
                /\ UNCHANGED ret
    /\ UNCHANGED <<pc, cmd, kind, active>>

Serve(c) ==
    \/ HandleHup(c)
    \/ PeekClosed(c) \/ PeekData(c)
    \/ SendFails(c) \/ Send(c)
    \/ RecvFails(c) \/ Recv(c)

\* The loop ends when no connection is left to wait for.
Return ==
    /\ pc = "poll" /\ Served /\ nActive = 0
    /\ pc' = "collect"
    /\ UNCHANGED <<cmd, kind, active, nActive, ret, conn, peer>>

\* Client::quit closes every active connection when waitPoll has returned.
ClosedByQuit == {c \in active : kind = "quit" /\ conn[c].alive}

\* The caller has its results and destroys them: ConnectionPool::reset.
Collect ==
    /\ pc = "collect"
    /\ conn' = [c \in Conns |->
         CASE c \in ClosedByQuit -> Reset(Dead(conn[c]))
           [] c \in active \ ClosedByQuit -> Reset(conn[c])
           [] OTHER -> conn[c]]
    /\ peer' = [c \in Conns |->
         IF c \in ClosedByQuit THEN NoSocket ELSE peer[c]]
    /\ active' = {}
    /\ nActive' = 0
    /\ pc' = "idle"
    /\ UNCHANGED <<cmd, kind, ret>>

\* ConnectionPool::updateServers between two commands: the connections whose
\* address changed are closed and reset.  One that is dead already keeps its
\* back-off, though it was earned by the old address.
UpdateServers ==
    /\ pc = "idle"
    /\ \E changed \in SUBSET Conns \ {{}} :
         /\ conn' = [c \in Conns |->
              CASE c \in changed /\ conn[c].alive -> Reset(Dead(conn[c]))
                [] c \in changed /\ ~conn[c].alive -> Reset(conn[c])
                [] OTHER -> conn[c]]
         /\ peer' = [c \in Conns |->
              IF c \in changed THEN NoSocket ELSE peer[c]]
    /\ UNCHANGED <<pc, cmd, kind, active, nActive, ret>>

-----------------------------------------------------------------------------
(* The environment: servers, sockets and time.                             *)

\* The server has nothing more to do for the current command: its answer,
\* if there is one, is read or waits to be read.
Answered(c) ==
    /\ pc = "poll" /\ c \in active
    /\ ~Unsent(c)
    /\ conn[c].counter > 0 => CanEnd(c, conn[c].got \o peer[c].replies)

InNoreply(c) == pc = "poll" /\ c \in active /\ conn[c].counter = 0

\* The server reads one whole item and answers it, or refuses it.
ServerAnswers(c) ==
    /\ peer[c].sock = "open"
    /\ Len(peer[c].wire) > 1
    /\ \E answer \in Answers(peer[c].wire[1], peer[c].wire[2]) :
         peer' = [peer EXCEPT ![c].wire = SubSeq(@, 3, Len(@)),
                              ![c].replies = @ \o answer]
    /\ UNCHANGED <<pc, cmd, kind, active, nActive, ret, conn>>

\* The server refuses a connection: an error line, then end of file.
ServerRefuses(c) ==
    /\ "unasked_line" \in Faults
    /\ pc = "poll" /\ c \in active
    /\ peer[c].sock = "open" /\ peer[c].wire = <<>> /\ peer[c].replies = <<>>
    /\ conn[c].sent = 0
    /\ peer' = [peer EXCEPT ![c].sock = "fin",
         ![c].replies = <<[cmd |-> cmd, item |-> 0, type |-> "ERR"]>>]
    /\ UNCHANGED <<pc, cmd, kind, active, nActive, ret, conn>>

PeerCloses(c) ==
    /\ InNoreply(c) => "noreply_close" \in Faults
    /\ peer[c].sock = "open"
    /\ peer' = [peer EXCEPT ![c].sock = "fin"]
    /\ UNCHANGED <<pc, cmd, kind, active, nActive, ret, conn>>

PeerResets(c) ==
    /\ Answered(c) => "late_reset" \in Faults
    /\ peer[c].sock \in {"open", "fin"}
    /\ peer' = [peer EXCEPT ![c].sock = "rst", ![c].wire = <<>>]
    /\ UNCHANGED <<pc, cmd, kind, active, nActive, ret, conn>>

\* m_deadUntil passes; a connection is tried again in a later command.
BackoffEnds(c) ==
    /\ pc = "idle" /\ conn[c].backoff
    /\ conn' = [conn EXCEPT ![c].backoff = FALSE]
    /\ UNCHANGED <<pc, cmd, kind, active, nActive, ret, peer>>

ClientStep ==
    \/ Poll \/ PollTimeout \/ PollError
    \/ \E c \in Conns : Serve(c)
    \/ Return
    \/ Collect

Environment ==
    \E c \in Conns : \/ ServerAnswers(c) \/ ServerRefuses(c)
                     \/ PeerCloses(c) \/ PeerResets(c)
                     \/ BackoffEnds(c)

Next == Dispatch \/ UpdateServers \/ ClientStep \/ Environment

\* The thread inside a command keeps running; poll(2) returns in the end,
\* by its timeout if nothing happens.  Nothing is assumed of the servers.
Spec == Init /\ [][Next]_vars
FairSpec == Spec /\ WF_vars(ClientStep)

-----------------------------------------------------------------------------
(* Properties.                                                             *)

Errors == {"INVALID_KEY_ERR", "MC_SERVER_ERR", "POLL_TIMEOUT_ERR", "POLL_ERR",
           "CONN_POLL_ERR", "RECV_ERR", "SEND_ERR", "PROGRAMMING_ERR"}

\* Every variable has its type, and the counters are within their bounds.
TypeOK ==
    /\ pc \in {"idle", "poll", "collect"}
    /\ cmd \in 0 .. MaxCmds
    /\ kind \in Kinds \cup {"quit"}
    /\ active \subseteq Conns
    /\ nActive \in 0 .. CounterMod - 1
    /\ ret \in Errors \cup {"OK"}
    /\ \A c \in Conns :
         /\ conn[c].alive \in BOOLEAN /\ conn[c].backoff \in BOOLEAN
         /\ conn[c].retires \in 0 .. MaxRetries + 1
         /\ conn[c].items \in 0 .. MaxItems
         /\ conn[c].counter \in 0 .. conn[c].items
         /\ conn[c].sent \in 0 .. Parts(kind, conn[c].items)
         /\ conn[c].events \subseteq {"in", "out"}
         /\ conn[c].revents \subseteq {"hup", "peek", "in", "out"}
         /\ conn[c].alive <=> peer[c].sock # "none"

\* m_nActiveConn is what its declaration says, the number of connections
\* that waitPoll still has to wait for: the loop neither ends while one is
\* unfinished nor goes on when none is left.
ActiveCountsPending ==
    pc = "poll" => nActive = Cardinality({c \in active : Pending(c)})

\* The answer to the current command, as the server of connection c gives it.
Expected(c) ==
    IF kind = "storage"
      THEN [i \in 1 .. conn[c].items |-> Packet(Part(c, 2 * i), "MSG")]
      ELSE Answer(Part(c, 2))

\* What a connection has parsed is a prefix of the answer to the current
\* command: no packet of an earlier command, none twice after a resend,
\* none out of order.  The results of a failed connection are collected too.
ResultsArePrefix ==
    \A c \in active : IsPrefix(conn[c].got, Expected(c))

\* RET_OK from a command that reached a server means that each connection
\* used has sent its whole request and has its whole answer; any failure of
\* a connection for good, and nothing else, makes it an error.
OkMeansComplete ==
    pc = "collect" /\ active # {} =>
      IF ret = "OK"
        THEN \A c \in active : /\ conn[c].alive
                               /\ ~Unsent(c)
                               /\ conn[c].got = Expected(c)
        ELSE \E c \in active : ~conn[c].alive

\* Between commands a live connection has nothing left of the last one: no
\* answer unread or still to come, and no half of an item sent.  The next
\* command relies on it, since it takes whatever arrives for its own answer.
\* Requests that have no answer may still be on their way.
CleanAtReturn ==
    pc # "poll" => \A c \in Conns : conn[c].alive =>
      /\ peer[c].replies = <<>>
      /\ Len(peer[c].wire) % 2 = 0
      /\ \A i \in DOMAIN peer[c].wire : Answer(peer[c].wire[i]) = <<>>

\* Nothing is there to be read on a connection before the command has sent
\* anything: the branch of waitPoll that meets data there calls it
\* "normally impossible".
NothingBeforeSent ==
    pc = "poll" => \A c \in active :
      conn[c].sent = 0 => peer[c].replies = <<>>

\* A request whose sending has begun is started again only by spending one
\* of the MaxRetries reconnects of this command, and never once the
\* connection has finished: a server sees a request at most 1 + MaxRetries
\* times.
ResendCostsRetry ==
    [][\A c \in Conns :
         /\ pc = "poll" /\ pc' = "poll"
         /\ conn[c].sent > 0 /\ conn'[c].sent < conn[c].sent
         => /\ Pending(c)
            /\ conn'[c].retires = conn[c].retires + 1
            /\ conn'[c].retires <= MaxRetries]_vars

\* Whatever the servers do, or do not do, waitPoll returns and the command
\* ends: reopening connections does not go on for ever.
CommandReturns == pc = "poll" ~> pc = "idle"
=============================================================================
