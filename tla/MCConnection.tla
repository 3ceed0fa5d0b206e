---------------------------- MODULE MCConnection ----------------------------
(***************************************************************************)
(* The conversations that TLC tries, one or two for each path of the       *)
(* parser, with data that holds the bytes the protocol is made of.         *)
(***************************************************************************)
EXTENDS Connection

Value(key, flags, cas, data) ==
    [type |-> "VALUE", key |-> key, flags |-> flags, cas |-> cas, data |-> data]
Plain(type) == [type |-> type]
Line(type, line) == [type |-> type, line |-> line]
Number(value, pad) == [type |-> "NUMBER", value |-> value, pad |-> pad]

\* An answer that ends with a line.
Ends(collect, iovs, packets) ==
    [collect |-> collect, mode |-> "END_STATE", keys |-> <<>>,
     iovs |-> <<iovs>>, packets |-> packets]
\* An answer for each item.
Counts(collect, keys, iovs, packets) ==
    [collect |-> collect, mode |-> "COUNTING", keys |-> keys,
     iovs |-> iovs, packets |-> packets]

MCConversations ==
    { \* get of a value that looks like the protocol
      Ends("retrieval", <<1, 2, 1>>,
           <<Value("k", 1, 0, <<"LF", "E">>), Plain("END")>>),
      \* gets: an empty value with its cas
      Ends("retrieval", <<1, 1>>, <<Value("k", 0, 12, <<>>), Plain("END")>>),
      \* get: nothing is found
      Ends("retrieval", <<1, 1>>, <<Plain("END")>>),
      \* get: the server gives up after a value
      Ends("retrieval", <<1, 1>>,
           <<Value("k", 0, 0, <<"S">>), Plain("SERVER_ERROR")>>),
      \* set, of an empty value for one item
      Counts("message", <<"k", "l">>, <<<<1, 0, 1>>, <<2>>>>,
             <<Plain("STORED"), Plain("NOT_STORED")>>),
      \* cas
      Counts("message", <<"k", "l">>, <<<<1>>, <<1>>>>,
             <<Plain("EXISTS"), Plain("SERVER_ERROR")>>),
      \* delete and touch
      Counts("message", <<"k", "l">>, <<<<1, 1>>, <<1, 1>>>>,
             <<Plain("DELETED"), Plain("NOT_FOUND")>>),
      Counts("message", <<"k">>, <<<<1, 1>>>>, <<Plain("TOUCHED")>>),
      \* incr, of a number that the server pads with spaces, and of no number
      Counts("unsigned", <<"k">>, <<<<1, 1>>>>, <<Number(12, <<"SP">>)>>),
      Counts("unsigned", <<"k">>, <<<<1, 1>>>>, <<Plain("NOT_FOUND")>>),
      \* flush_all, version and stats
      Ends("flush_all", <<1, 1>>, <<Plain("OK")>>),
      Ends("broadcast", <<1, 1>>, <<Line("VERSION", <<"1", "CR">>)>>),
      Ends("broadcast", <<1, 1>>,
           <<Line("STAT", <<"a", "CR">>), Line("STAT", <<"CR">>), Plain("END")>>),
      \* what is refused
      Counts("message", <<"k">>, <<<<1, 1>>>>, <<Plain("CLIENT_ERROR")>>),
      Counts("message", <<"k">>, <<<<1, 1>>>>, <<Plain("ERROR")>>),
      Counts("message", <<"k">>, <<<<1, 1>>>>, <<Plain("JUNK")>>) }
=============================================================================
