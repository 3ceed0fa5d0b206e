# libmc in TLA+

libmc is a memcached client: a C++ core (one `Client` talks to all servers of
a cluster over one connection each), a thread-safe `ClientPool` of such
clients, a Python extension over both, and a Go client with a connection pool
of its own. This directory models the parts of it in which concurrency,
failure and ordering decide whether it is right, checks the models with TLC on
small instances, and proves with TLAPS, for instances of any size, nearly all
the safety properties of the two pools of clients, of the poll loop, of the
selection of servers and of the buffers of a connection.

## The system

| Part | State it keeps | Operations | Interacts with | What is hard | What makes it correct |
|---|---|---|---|---|---|
| `ConnectionPool`, `Client` (src/ConnectionPool.cpp, Client.cpp) | the connections, those active in this command, `m_nActiveConn`, the pollfds | `dispatch*`, `broadcastCommand`, `waitPoll`, `collect*`, `reset`, `updateServers` | `Connection` (calls), sockets (poll) | servers that stall, close or reset at any moment; retries inside one loop over several sockets; a hand-kept counter | the counter is exact; `RET_OK` means complete; one command leaves nothing for the next; every command ends |
| `Connection` (Connection.cpp) | socket, alive, `m_deadUntil`, `m_retires`, `m_counter` | `connect`, `close`, `tryReconnect`, `markDead`, `send`, `recv`, `reset`, `rewind` | parser, reader, writer | back-off against retry | at most 1 + `m_maxRetries` attempts |
| `PacketParser` (Parser.cpp) | FSM state, results, request keys | `process_packets`, `reset`, `rewind` | `BufferReader` | the answer is cut at any byte | the result does not depend on the cuts |
| `BufferReader`, `DataBlock` | list of blocks, two cursors, reference counts | `prepareWriteBlock`, `commitWrite`, `read*`, `skip*`, `reset` | parser, results | blocks outlive the reader while results point to them | no block reused while referenced |
| `BufferWriter` | iovecs, read index, copy of the iovecs | `takeBuffer`, `commitRead`, `rewind` | `Connection::send` | partial sends | rewind gives the request back byte for byte |
| `KetamaSelector` (HashkitKetama.cpp) | ring of points, failover flag | `addServers`, `getServer` | dead connections | failover skips dead servers by rehashing | same key, same server |
| `OrderedLock`, `LockPool` (include/LockPool.h) | queue of condition variables, `m_locked`, `m_available` | `lock`, `unlock`, `addWorkers`, `acquireWorker`, `releaseWorker` | threads | condition variables, barging, growth | exclusive, first come first served, no lost wakeup |
| `ClientPool` (ClientPool.cpp) | `m_clients`, options, hosts, `m_pool_lock`, `m_acquiring_growth` | `_acquire`, `_release`, `autoGrow`, `init`, `updateServers`, `config` | inherits `LockPool`; holds a mutex per client; detached threads | four kinds of locks, growth concurrent with updates | exclusive use, bounded size, every client up to date, no deadlock |
| Python extension (libmc/_client.pyx) | flags, thread ident, chunking | commands, `ClientPool` wrapper | the interpreter lock | calls made with the interpreter lock held; chunked values | no deadlock, no torn value |
| Go client (src/golibmc.go) | free connections, requests, `numOpen`, opener and cleaner goroutines | `conn`, `putConn`, `Quit`, `SetConn*` | channels, mutex | cancelled requests, lifetimes, shutdown | `numOpen` exact and bounded, every waiter answered |

Hash functions, number formatting, `SmallVector`, the C wrappers, the string
helpers and the conversions of the Python client are pure or third-party code
and are not modelled. PROJECT.json lists
every component with its status and every hazard with its line.

## Modules

| Module | What it is |
|---|---|
| `ConnectionPool` | one `Client` and its servers: the poll loop, its count, retries |
| `BufferReader`, `BufferWriter` | the buffers of a connection, as operators on records |
| `PacketParser` | the automaton that parses answers, over `BufferReader` |
| `Protocol` | the packets that memcached writes, byte by byte, and the answers it makes of them (external) |
| `Connection` | one connection with its socket, buffers and parser, byte by byte, against a server |
| `Answers` | the abstract specification of `Connection`: whole answers, in order |
| `KetamaSelector` | the ring, the liveness check and the failover walk |
| `LockPool` | `OrderedLock` and `LockPool` under any threads |
| `FairPool` | the abstract specification of `LockPool`: a first-come first-served pool |
| `ClientPool` | `ClientPool` over `LockPool` (INSTANCE), with growth, updates, configuration and the interpreter lock |
| `GoPool` | the connection pool of the Go client |
| `Totals` | the sum of a sequence of numbers, with which the buffers count |
| `LockPool_proofs`, `ClientPool_proofs`, `GoPool_proofs`, `KetamaSelector_proofs`, `ConnectionPool_proofs`, `Connection_proofs` | theorems about the module of that name |
| `PacketParser_proofs` | what each method of `BufferReader` and `BufferWriter` does to the bytes, references and iovecs, where the bytes of a packet are, and what turns of the parser make of them |
| `SequenceLemmas` | what `Min`, `Max`, folds, `FlattenSeq` and `Total` give for any sequences and sets |
| `MCConnectionPool`, `MCConnection`, `MCKetamaSelector`, `MCLockPool`, `MCClientPool`, `MCGoPool` | sets and functions that the .cfg files give to constants |

### ConnectionPool

One thread runs a `Client`; the interleaving is with servers and sockets.
`Dispatch` is any `dispatch*` call or broadcast with the head of `waitPoll`;
`Poll`, `PollTimeout`, `PollError` are the three outcomes of poll(2); the
actions of `Serve` are the branches of the loop body, taken from the `revents`
of that poll in the order of `m_activeConns`, so the world may change between
the poll and the branch; `Collect` is the collection of results and `reset`.
Servers answer, refuse with an error line, close, or reset at any time,
between commands too.

A request is two parts per item (the first iovec and the rest), because
`isSent` looks only at the first iovec; the keys of a command are spread over
the servers in any way; an answer is a sequence of packets tagged with the
command and item it answers, so that a packet that reaches the wrong command
is seen. The parser is reduced to its end test and its error lines.

`Faults` names three things a server may do that the code does not survive;
the passing runs leave out the two of them that break their properties:

- `late_reset`: a connection that has its whole answer is reset while the
  command waits for another server. The `POLLHUP` branch does not ask whether
  the connection is done (`ConnectionPoolLateReset`).
- `noreply_close`: a server closes a connection during a noreply command. The
  connection is done but still polled for input, so that it is counted off
  again (`ActiveCountsPending`) or sent its request again uncounted. It has no
  run of its own, being the same mistake.
- `unasked_line`: an error line before any request, as memcached writes when it
  has too many connections. `ConnectionPoolPipelined` includes it.

`m_nActiveConn` is taken modulo `CounterMod`, so that one decrement too many
wraps as the `uint32_t` does.

### Connection, over Protocol, PacketParser, BufferReader and BufferWriter

`ConnectionPool` has several servers and abstracts answers to packets;
`Connection` has one and keeps every byte. The two meet at the branches of
`waitPoll`: what is one nondeterministic choice there (a connect, a partial
send, a packet recognised, an error line) is worked out here.

`BufferReader` is a record (the list of blocks, the read cursor, the write
iterator, `m_readLeft`, the preferred size) and each method an operator that
returns the reader it leaves, with an `err` where the code has one. A block
has its bytes and `refs`, its `m_nBytesRef`; a token is a sequence of slices.
Iterators are indices, `end()` being the length plus one. The loops over
blocks that the reading methods repeat are one idea each: `Ahead` (the unread
bytes with their place), `MovedBehind`, `SlicesTo`, `Before`; the methods add
the order of their tests and what they release. `CommitWrite` keeps the test
that counts the new bytes twice, so blocks are left early or late as in the
code. `BufferWriter` has iovecs as ranges of the request, `CommitRead` cuts
one anywhere and `RewindWriter` gives the originals back.

`PacketParser` has one action per turn of the loop of `process_packets`: the
states `FSM_*` and the branches of `start_state`. A branch that finds too few
bytes leaves with `RET_INCOMPLETE_BUFFER_ERR` and whatever the code has already
consumed or assigned stays consumed and assigned, so that resuming in the
middle is what the code does. Words are shortened to the bytes peeked at and
the last ones (`Word`); skipping uses their lengths.

`Connection` runs commands one after another: `Select` and `Dispatch`, `Send`,
`Recv` followed by the turns of the parser (`Process`), the failures that
`markDead` and reconnect (`Reconnect`: rewinding after something was sent, not
rewinding after the end of stream seen by the `MSG_PEEK`), `Finish`, `GiveUp` at
the timeout of the poll, and `Reset`. `connect` goes through addresses
(`ConnectSocket`, `PollConnect`) with real descriptors, `unix` being the other
kind of socket. Reconnecting is always possible or not: the retries are counted
in `ConnectionPool`. The server answers an item once it has its bytes, closes
at any moment, and writes values, numbers, lines, messages and refusals, among
them data that looks like the protocol. What it may write is in `Protocol`:
`Encoded` gives the bytes of a packet, and `Answered` the answers: values or lines
and then a last line, or one message or number for each key, in either case
perhaps broken off by a refusal. That every conversation is one is the module's
`ProtocolAssumption`.

`Answers` says what the caller of a command relies on: answers arrive whole and
in order, may be forgotten and begin again while the command is pending, and
the command succeeds only with all of them, never after a refusal. The mapping
takes what `Client` collects for each kind of command (`Collected`, from
`collectRetrievalResult` to `collectUnsignedResult` with `inner()` of the
results), without a line or a number that is in the results before it is read
(`Unfinished`). It reads the bytes of the tokens in the blocks, so it would
also see a block reused under a result.

Assumed of the kernel: the first iovec of a request, the command word, goes
whole when anything goes (`Send`). `isRead`, which decides whether an end of
stream rewinds, asks only for that one.

### KetamaSelector

A hash is a number below `HashMod`, and MD5 any of `Hashings`: each name has a
set of points, and points of several names may coincide (`std::sort` may then
leave them in any order, hence `continuum' \in Sorted(...)`). `InitPool` and
`UpdateServers` are those of `ConnectionPool`; the second leaves the ring alone,
and the alias of every server whose host stays. `NearestAlias` is about servers
that have had their aliases since `init`: one that gets its first alias from
`updateServers` keeps the points of its old host.
The walk of `getServerIt` is one action for each point (`Walk`), because
`tryReconnect` connects and takes time: `Tick` may end back-offs in between.
`check` is `check_alive`.

### LockPool and FairPool

`holder` is the owner of `m_fifo_access`. A step of a thread is what it does
between taking and leaving that mutex, except that `lock` and the taking of
the worker in `acquireWorker` are two steps, since `m_locked` is read
elsewhere without the mutex. A thread in `cv.wait` is `waiting`; `notified`
holds those whose condition variable was notified. With `SpuriousWakeups` a
wait may also end unnotified.

`FairPool` says what users rely on: ask, be served in the order of asking,
give back, grow. The refinement mapping puts the thread that is inside the
lock in front of `fifo`: it has been chosen but has not taken its worker.

### ClientPool

The users go through `Look` (the check of `shouldGrowUnsafe` under the shared
lock and the detached thread), the steps of `LockPool`, `LockWorker` and, back,
`UnlockWorker` and `ReleaseWorker`. `growers` counts the detached threads; one
at a time has `m_acquiring_growth` (`AutoGrow`), takes `m_pool_lock` and grows.
`Admin` is a thread that calls `init` and then `updateServers` and `config`,
each lock taken in a step of its own. `growPool` spans two steps, so that the
states in which the deques are being appended to are visible. With `Python`,
a user needs the interpreter lock to begin `_acquire` and to begin `_release`,
while `Admin` has it for the whole of each call, as in `_update_servers`.

### GoPool

A step is what a goroutine does while it has `client.lk`, with the local work
next to it. `conn` is `TakeFree`, `Request` or `CountNew` and then `Receive`,
`Cancel` or `Create`; with an expired connection it closes that one and asks
`again`, never for an idle one. `conn.quit` talks to servers with no lock of
the client held, so it is a step of its own: `todo` has what each goroutine
has still to close. `requests` is `connRequests` with the waiting caller for
its key, `answer` what is in its channel; a send picks any waiting caller, as
the order of a Go map is not specified. `openerCh` counts the messages to
`connectionOpener`, which reads `closed` with no lock. The timer of
`connectionCleaner` may fire at any time, so being woken early changes nothing,
and one positive lifetime stands for all: `old` are the connections beyond it. The
order in which the cleaner closes what it swept is left open.

`DiscardErrors` lets `client_quit` end with an error, as it does when a server
is down; `ServersValid` says whether `newConn` succeeds, which depends only on
the list of servers.

## Runs

| Run | Question | Bounds |
|---|---|---|
| `ConnectionPool` | is the count exact, does OK mean complete, is the next command safe, does every command end | 2 servers, 1 key each, all kinds of command, 2 commands, 1 retry |
| `ConnectionPoolPipelined` | do resends, short sends and short reads keep the results a prefix of the right answer | 2 items per server |
| `Connection` | do requests and answers survive every cut, close and reconnect; are references and sockets accounted for; does every command end; is it an `Answers` | 16 conversations, blocks of 3 bytes, 2 iovecs per sendmsg, 2 addresses, 2 connect polls, 2 descriptors; one run of any number of commands |
| `KetamaSelector` | do live servers keep their keys, is a key where its alias hashes, is a dead server tried once per back-off | up to 3 servers with 2 points each on a ring of 4 hashes, back-off 2, 3 ticks in a selection |
| `LockPool` | is the lock right, in order and live | 4 threads, 3 workers |
| `ClientPool` | deadlock, size, exclusive updates; do acquire and updateServers end | 3 users, 1 to 3 clients (room for 4), 2 pending growers, 1 update after init |
| `ClientPoolConfig` | whatever is configured, before and after init: does the pool respect `LockPool`, is every client up to date | 2 users, values 1 and 2, 2 calls |
| `GoPool` | is `numOpen` exact and bounded, has each connection one owner, is none left open after `Quit` and no waiting caller forgotten | 2 callers, limits 1 and 2, at most 2 connections, lifetime 0 or 1 |

Why the bounds are enough: two servers are the fewest that let one fail or
finish while another is pending; two commands the fewest in which one can
leave something for the next; one retry distinguishes the first attempt, the
retry and giving up; two items distinguish a half-sent item, a whole one and a
whole request. Four threads on three workers give a waiter behind a waiter
while workers come back in any order. Three users on at most three clients,
starting from one, let two threads start growers for one shortage, so that
the second finds the pool grown; `MaxWorkers` is one more than the pool may
reach, so that growth past its maximum is possible in the model. Two callers
and limits 1 and 2 let one wait for the other, both wait while the limit is
changed, and the opener, the cleaner and `Quit` close what the callers put
back; connections are named again after they are closed, so two are enough
for two open ones, and nothing else bounds the run. In `Connection` nothing
bounds the number of commands, reconnects or cuts: blocks of three bytes put
every word, number and value across blocks, `recv` takes any part of what is
there, a second address and a second poll let connecting fail half-way, and a
second descriptor is one more than an accurate connection needs (a lost one is
seen at once). Each conversation is chosen for a path of the parser. In
`KetamaSelector` hashes that coincide, points that interleave and points that
wrap round all happen with two points on four hashes, and three ticks let a
back-off of two end in the middle of a walk.

Deadlock is checked in `LockPool`, `ClientPool`, `Connection` and
`KetamaSelector`. It is not in the
`ConnectionPool` runs, where the behaviour stops after `MaxCmds` commands, nor
in `ClientPoolConfig`, since there the program does deadlock (below), nor in
`GoPool`, where everything rightly stops after `Quit`. The other runs find a
violation.

Mutants: each property of a passing run is paired with a changed definition
(operators marked "Mutant" beside the original) that it must catch: a counter
not decremented, results kept over a resend, a worker unlocked under the wrong
mutex, a check not repeated under the lock.

### Fairness

- `ConnectionPool`: weak fairness of the client's own steps inside a command.
  The thread runs, and poll(2) returns by its timeout if nothing happens.
  Nothing is assumed of the servers.
- `Connection`: weak fairness of the steps of the client inside a command, of
  the turns of the parser, and of a server that is up. `ParserTurns` is the
  weak fairness of `Process` written out: a turn can be taken as long as
  `process_packets` runs, and evaluating `ENABLED` of it in every state would be
  slow. Timeouts need not happen (`GiveUp` is not fair), so `CommandEnds` is
  about what the bytes do by themselves.
- `LockPool`: a notified thread resumes, a thread with the mutex goes on, a
  worker is given back, and the pool is initialised. No fairness is assumed of
  threads that compete for a mutex to enter the queue: `std::mutex` has none,
  so `WaiterServed` and `ClientAcquired` are about threads already queued.
- `ClientPool`: the same, and calls and growth threads that can take a step do.
  For the same reason `CallReturns` speaks of behaviours in which no new user
  comes after some time: it excludes everyone waiting for everyone, and not
  the starvation of `updateServers` at an unfair mutex by an endless stream of
  users, which the code does not exclude.

- `GoPool`: commands end, goroutines that can go on do, and the timer fires.
  Contexts need not ever be done. `WaiterAnswered` is about behaviours in which
  no calls come after some time and the limit stays as it is: which waiting
  caller is served is unspecified, so the code excludes that one is forgotten
  but not that others are always preferred.

## What the violations show

- `ConnectionPoolLateReset`: as above. The effect is that a later command reads
  the answer of an earlier one.
- `ConnectionPartialLine`: `STAT ` or `VERSION ` appends a `LineResult`, its line
  follows later. If the command ends in between, the line with no bytes is
  collected: `inner()` gives NULL and a length of 0 - 1.
- `ClientPoolPython`: `update_servers` waits, with the interpreter lock held,
  for a client whose user needs that lock to give it back.
- `GoPoolDiscard`: with a server down, `client_quit` ends with
  `RET_MC_SERVER_ERR`, and `conn.quit` then leaves `maybeOpenNewConnections`
  out: callers that wait are forgotten although nothing is open any more.

More are in the models but have no run of their own. In `ClientPool`, with
`Ops <- MaxOption` and `ConfigValues = {2}`, `NoCircularWait` is violated: `config` of
a pool option locks `m_pool_lock` then `m_acquiring_growth`, `autoGrow` and `init`
the other way round. With two users and `Ops <- NoCalls`, `IndexedWhenStable` is
violated: `_acquire` indexes `m_thread_workers` and `m_clients` with no lock while
another thread appends to them. In `LockPool`, with `SpuriousWakeups = TRUE`,
`NoEmptyPop` is violated: the wait in `OrderedLock::lock` has no predicate. In
`Connection` a unix socket that is refused is never closed
(Connection.cpp:159), which `OneSocket` therefore leaves out. In
`ConnectionPool` an unasked line and noreply commands together violate
`ActiveCountsPending`. In `KetamaSelector` a pool without aliases keeps the ring of
its old hosts after `updateServers`, and with `RetryTimeout = 0` a dead server is
tried at each of its points. Further: a caller whose idle
connection had expired may wait beside an idle connection that was put back
meanwhile (which is why `WaiterAnswered` allows for idle ones); with a server
list that does not parse, the opener tries for ever and answers nobody;
lowering `SetConnMaxOpen` closes no idle connection; `ConfigClients`
writes into clients that are in use; `CFG_INITIAL_CLIENTS` grows the pool *by*
its value (before `init`, with clients that never get servers, which is why
`ClientsCurrent` allows for them); a list of servers that the clients refuse is
kept for the clients made later.

## Proofs

| Theorems about | Property of a run | Assumed, besides the module's `ASSUME` |
|---|---|---|
| `ConnectionPool` | `TypeOK` | nothing |
| | `ActiveCountsPending`, `ResultsArePrefix`, `OkMeansComplete`, `CleanAtReturn`, `ResendCostsRetry` | `Survivable` |
| `LockPool` | `TypeOK`, `NoEmptyPop`, `WorkersDisjoint`, `NoLostWakeup`, `QueueIsWaiters`; `ServedInOrder` | no spurious wakeups |
| `ClientPool` | `TypeOK`, `UsesLockPool` (and `ClientsDisjoint`) | `PositiveOptions` |
| | `UnchangedWhileUsed` | and `NoClientOption` |
| | `ClientsCurrent` | and `OneLength` |
| | `SizeWithinMax` | and `FixedMaximum` |
| `GoPool` | `TypeOK`, `NumOpenExact`, `OneOwner`, `CleanerWatches`, `LimitRespected` | nothing |
| `KetamaSelector` | `TypeOK`, `LiveOwnerChosen`, `TriedOncePerBackoff` | nothing |
| | `NearestAlias` | `NoFirstAlias` |
| `Connection` | `TypeOK`, `OneSocket`, `ReferencesExact`, `RequestIntact`, `NothingLeftOver`, `AnswerSuffices` | nothing |

No bound of a run is a bound of a theorem: the numbers of servers, items,
commands, retries, threads, clients, hashes and addresses are any, and so are
the conversations of `Connection`, the sizes of its blocks and the cuts. Two
limits are of the models themselves: `Send` takes the first iovec of a request
whole, and a number of the protocol has at most two digits (`Sayable`).

### ConnectionPool

`m_nActiveConn` is kept by hand in every branch of `waitPoll`, and each of the
properties follows only if all the branches agree. `TypeInv` (the fields of a
connection stay within its part of the command; what is not in the command is
cleared) is inductive by itself and needs nothing of the servers. `Inv` has

- `ActiveInv`: for each connection of the command, `Busy`: what is parsed is
  the beginning of the answer that is due (`Right`); what waits to be read
  goes on from there, but for refusals (`Continues`); the parts that the
  server has still to read are the last on the wire, and before them stand
  only whole requests without an answer (`Wired`). Or the connection was
  refused before it began (`Refused`);
- `RestInv`: a live connection outside the command has nothing to read, and
  only whole requests without an answer on its wire. This is what lets the
  next command begin with `ActiveInv`;
- `PollInv`: `m_nActiveConn` is the number of connections in `Owing`, those
  that are alive and have not sent or not received everything; `revents` and
  `events` ask nothing of a connection that owes nothing, so that no branch
  counts it off again; `ret` is OK exactly when every connection is alive;
- `CollectInv`: when the loop ends, nobody owes anything.

The theorems assume `Survivable`: no connection that has its whole answer is
reset (`late_reset`, of which `ConnectionPoolLateReset` shows the effect), and
servers that close or refuse out of turn do so only while no noreply command
and no `quit` is in use. Both are the mistake described above: without them
the code does not keep the count. Closing, resetting and refusing a request,
and dying between commands, are all allowed; both passing runs are
`Survivable`. There is a lemma for each branch (`SendStep`, `RecvStep`,
`RetryStep`, `GiveUpStep`, `PeekClosedStep`, `PeekDataStep`) over `LocalStep`,
which says what one connection must keep for the count to be right, and for
each thing a server does (`AnsweringStep`, `RefusingStep`, `ClosingStep`,
`ResettingStep`) over `SocketStep`. The wire is followed by position
(`PiecesFollow`, `WireGrows`, `PairsShift`, `FollowShift`): no induction over
it is needed.

### LockPool

None of the five invariants is inductive. `IInv` adds

- `ThreadState`: what `pc` says of `holder`, `work` and `notified` (only a
  thread in the queue's front is notified, a thread inside has the mutex);
- `LockHasWorker`: whoever may go on finds a worker. A lock that is open, a
  waiter that is notified, a thread inside: each implies that `m_available` is
  not empty. This is the heart of the argument: `unlock` is called exactly
  when a worker is left, and `lock` closes behind each thread;
- `WorkersExist`: worker numbers are below `nWorkers`, so that the new ones of
  `addWorkers` are new.

Spurious wakeups are excluded because the code does not survive them.
`LockPool_proofs` also proves that `LockPool` implements `FairPool` under the
mapping above: `LockOpen` and `LockWait` ask, `Wake` is a stutter (by
`QueueIsWaiters` and `IInv` the thread that resumes is the head of `fifo`),
`TakeWorker` grants, `ReleaseWorker` gives back, `AddWorkers` grows.

### ClientPool

`IInv` is that of `LockPool`, taken over the pool's variables with
`m_fifo_access` free while `Admin` has it, together with `OwnState`: who has
each lock is told by the step he is at, there is a worker number for every
client, nobody asks for a client before there is one, options are positive,
and `updateServers` has not run past the pool. `LockPoolUsed` maps every step
to a step of `LockPool` or a stutter, so that what is proved of `LockPool`
holds here; `MutualExclusion` is an example.

`PositiveOptions` leaves out options of 0, with which `autoGrow` calls
`growPool(0)`. `NoClientOption` leaves out `config` of an option of the
clients, which does write into clients in use. `OneLength` says that all
server lists have one length, as a list of another length is refused by the
clients made before it but kept for those made later (see above).
`FixedMaximum` leaves out starting with more clients than `m_max_clients`,
setting `CFG_MAX_CLIENTS` below the size of the pool, and
`CFG_INITIAL_CLIENTS`, which grows it by its value.

### GoPool

`IInv` is one invariant on who has each connection: `OwnedOnce` says that the
free list, what callers have, what is in their channels and what goroutines
have still to close are disjoint, without repetition, and together all that is
open. `NumOpenExact` adds what is announced to the opener, `CallerState` and
`OthersState` what each goroutine may have at each of its steps.

### KetamaSelector

The walk keeps `Passed`: every point from where the key fell to where the walk
is belongs to a server that is dead now. Since a server does not come back
during a walk without being chosen at its next point, the point at which the
walk stops is the first of a live server (`FirstLive`), which is the owner on
the ring of live servers. `Backoffs` bounds the number of connects of a server
by the time that was waited and what is left of its back-off. `NoFirstAlias`
says that no update of the servers gives one its first alias: `updateServers`
does not recompute the ring, so such a server stays at its old place while its
key changes.

### Connection

`Descriptors`: a connection has `fd` exactly while it is alive, `connect` a
descriptor only at an address it has not given up, both are open, and of TCP
nothing else is. Unix sockets are exempt because they do leak.

`ReferencesExact` follows from `RInv`:

- `Accounted`: the reader is well formed (`ReaderOK`: every block has its
  capacity, the cursor is in the list, what is behind it is `readLeft` bytes),
  and `m_nBytesRef` of a block is what is unread in it and what the tokens of
  results take from it, `Balance` of the one being the other for each block;
- `Staged`: the parser works on the result its state says, the last of its
  list, and has not given it yet the token that it is about to read. Without
  this a token could replace another, and the references of the first would
  never be given back;
- `ServerSpeaks`: what is on the wire is bytes.

There is a lemma for each method (in `PacketParser_proofs`: what it
charges to blocks, drops or gives to a token) and for each branch of the parser
(`StartValueAccount` to `ReadLineAccount`): the branch calls one or two
methods, so that its references move from the reader to a token or are
dropped, and never both.

`RequestIntact` follows from `WInv`. `Sends(w, F, t, S)` says of a writer `w`
with the iovecs `F`, the sums `t` of their lengths and `S` bytes gone: the iovecs
from `readIdx` on are exactly the bytes after `S`, the first of them perhaps cut,
and when one was cut the originals are kept, from which `RewindWriter` gives
the whole request back. A command that has not been begun has `S = 0`, and one
that is not `isRead` was not begun: this is where the assumption about the first
iovec is needed, since after an end of stream found before it went the request
is not rewound.

`NothingLeftOver`, `AnswerSuffices` and `TypeOK` follow from `PInv`, which says where
in the answer the parser is:

- `Tracked`: the packets of the conversation laid end to end are a stream
  (`Laid`), and what is unread and on the wire is that stream from some packet
  and some place in it on (`Follows`), the place being one at which the parser's
  state can be (`Stands`): behind the key, inside the value as far as `remain`
  says, in the middle of a number, behind the last packet. `keyIdx` is the
  number of packets before, where they are counted;
- `Asked`: the server got what it has answered, so that when the answer is
  read whole the request was sent whole;
- `AllRead` once the parser has returned `RET_OK`, and `Lacking` whenever it has
  returned for want of bytes.

A lemma for each state (`StartTurns`, `ReadLineTurns`, `GetStartTurns` and the like,
in `PacketParser_proofs` as far as the key and in `Connection_proofs` from the flags
on) says what a turn does inside one packet of which any part has
arrived: it stays for want of a byte that the packet still has, or moves to
another place in it, or ends it, or reports the refusal that the packet is
(`PacketTurns`). `TurnKeeps` carries this to the stream. That `start_state`
recognises each packet from the bytes it peeks at is `Recognised`, over the
words themselves (`WordsKnown`).

The operators of the buffers are folds over lists of blocks and iovecs.
What they give is proved without an induction theorem: the numbers `n` for
which a fold over the first `n` elements is right are a set that has 0 and,
with a number, the next one (lemma `UpTo`); the folds of the community modules
are unfolded once, in `SequenceLemmas`.

### Only model-checked

- Every liveness property (`CommandReturns`, `CommandEnds`, `WaiterServed`,
  `ClientAcquired`, `CallReturns`, `WaiterAnswered`, `AllClosed`): fairness
  and `ENABLED` are beyond the prover.
- Of `Connection`: `ImplementsAnswers`. It says what is in the results; the
  theorems say where the parser is in the answer, and not what it keeps of it.

## Not modelled

- What the Python client does with values: encoding, compression, `set_multi`,
  and the splitting of large values over several keys, which another client can
  interleave with. These are conversions without shared state in this process.
- Key validation, `splitServerString`, hash functions, number formatting, the
  containers: pure functions or third-party code.
- The build with assertions, in which `expectBytes` compares the words that the
  other build skips; a server that writes other words than memcached's.
- `BufferReader::write`, which only tests call, copies of results, and sizes kept
  for statistics.
- Requests that a server still executes after the client closed the
  connection; a retry may then apply an operation twice.
- The destructors, and an `autoGrow` thread that outlives its pool; `init`
  called twice; `m_max_growth` 0 or `_acquire` before `init`, where `autoGrow`
  grows by nothing.
- In `GoPool`: `SetConnMaxLifetime` after `Quit`, which may send on the closed
  channel of the cleaner and panic; a full `openerCh` (a million messages);
  `FlushAll` on a closed client, which uses the connection before it looks at
  the error.

## Plan

What may still be proved, in the modules there are:

1. `Connection`: what the results hold. With `PInv` the parser is where the answer
   is; the tokens it took on the way are the keys and values of the packets.
   From this follows `ImplementsAnswers`.
2. `ClientPool`: `NoCircularWait` where no option of the pool is configured.
