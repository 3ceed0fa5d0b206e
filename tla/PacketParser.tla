---------------------------- MODULE PacketParser ----------------------------
(***************************************************************************)
(* PacketParser: the automaton that parses the answer of a server out of   *)
(* a BufferReader, resuming wherever the bytes received so far end.  One   *)
(* action is one turn of the loop of process_packets.                      *)
(*                                                                         *)
(* A byte is a model value in the form of a string.  The fixed words of    *)
(* the protocol are shortened to the bytes that the parser peeks at and    *)
(* the last ones, so that every cut that can matter happens with blocks of *)
(* a few bytes; the lengths that the parser skips are those of its words.  *)
(***************************************************************************)
EXTENDS BufferReader

VARIABLES
    reader,       \* the BufferReader
    mode,         \* m_mode
    requestKeys,  \* m_requestKeys
    state,        \* m_state
    keyIdx,       \* m_requestKeyIdx
    results,      \* the four result lists, in the order of parsing
    outcome       \* "running" inside process_packets, then its err;
                  \* "none" until it is called

parserVars == <<reader, mode, requestKeys, state, keyIdx, results, outcome>>

Word ==
    [VALUE |-> <<"V", "A", "SP">>, VERSION |-> <<"V", "E", "SP">>,
     STAT |-> <<"S", "T", "A", "SP">>, END |-> <<"E", "N", "LF">>,
     OK |-> <<"O", "LF">>, STORED |-> <<"S", "T", "O", "LF">>,
     NOT_STORED |-> <<"N", "O", "T", "_", "S", "LF">>,
     EXISTS |-> <<"E", "X", "LF">>, DELETED |-> <<"D", "LF">>,
     NOT_FOUND |-> <<"N", "O", "T", "_", "F", "LF">>,
     TOUCHED |-> <<"T", "LF">>,
     \* words that begin a line the parser skips
     ERROR |-> <<"E", "R">>, SERVER_ERROR |-> <<"S", "E", "R">>,
     CLIENT_ERROR |-> <<"C">>]

MessageTypes == {"OK", "STORED", "NOT_STORED", "EXISTS", "DELETED",
                 "NOT_FOUND", "TOUCHED"}

NoResults == [retrieval |-> <<>>, message |-> <<>>, line |-> <<>>,
              unsigned |-> <<>>]

\* types::RetrievalResult(), with bytesRemain one more than bytes.
NewRetrieval == [key |-> <<>>, flags |-> 0, bytes |-> 0, remain |-> 1,
                 cas |-> 0, data |-> <<>>]

ParserInit ==
    /\ reader = NewReader
    /\ mode = "UNDEFINED"
    /\ requestKeys = <<>>
    /\ state = "START"
    /\ keyIdx = 0
    /\ results = NoResults
    /\ outcome = "none"

-----------------------------------------------------------------------------
(* The tokens that results hold; their destructors free them.              *)

TokensOf(rs) ==
    FlattenSeq([i \in DOMAIN rs.retrieval |->
                  rs.retrieval[i].key \o rs.retrieval[i].data])
    \o FlattenSeq(rs.line)

IsEndState(s) == s \in {"END", "ERROR"}

CanEndParse ==
    IF mode = "END_STATE" THEN IsEndState(state)
                          ELSE keyIdx = Len(requestKeys)

At(s) == outcome = "running" /\ ~CanEndParse /\ state = s

\* process_packets returns err with nothing more read.
Leave(err) ==
    /\ outcome' = err
    /\ UNCHANGED <<reader, mode, requestKeys, state, keyIdx, results>>

\* The loop goes round: new reader, state and results.
Goes(r, s, rs) ==
    /\ reader' = r /\ state' = s /\ results' = rs
    /\ UNCHANGED <<mode, requestKeys, keyIdx, outcome>>

EndParse ==
    /\ outcome = "running" /\ CanEndParse
    /\ Leave("OK")

-----------------------------------------------------------------------------
(* start_state: which packet comes next.                                   *)

\* How far the first byte makes the parser peek.
PeekDepth(c) == CASE c \in {"V", "E"} -> 1
                  [] c = "S" -> 2
                  [] c = "N" -> 4
                  [] OTHER -> 0

Lead == Peek(reader, 0)

\* The bytes that decide are not all there.
StartIncomplete ==
    /\ At("START")
    /\ \/ Lead.err # "OK"
       \/ Lead.err = "OK" /\ Peek(reader, PeekDepth(Lead.byte)).err # "OK"
    /\ Leave("INCOMPLETE_BUFFER_ERR")

\* The bytes peeked at are those of word w.
Starts(w) ==
    /\ At("START")
    /\ Lead.err = "OK"
    /\ Peek(reader, PeekDepth(Lead.byte)).err = "OK"
    /\ \A i \in 0 .. PeekDepth(Lead.byte) :
         Peek(reader, i).byte = Word[w][i + 1]

Skipped(w) == SkipBytes(reader, Len(Word[w]))

StartValue ==
    /\ Starts("VALUE")
    /\ LET skip == Skipped("VALUE")
       IN  IF skip.err # "OK" THEN Leave(skip.err)
           ELSE Goes(skip.reader, "GET_START",
                     [results EXCEPT !.retrieval = Append(@, NewRetrieval)])

\* VERSION and STAT push a LineResult that has no line yet.
LineState == [VERSION |-> "VER_START", STAT |-> "STAT_START"]
StartLine ==
    \E w \in DOMAIN LineState :
      /\ Starts(w)
      /\ LET skip == Skipped(w)
         IN  IF skip.err # "OK" THEN Leave(skip.err)
             ELSE Goes(skip.reader, LineState[w],
                       [results EXCEPT !.line = Append(@, <<>>)])

\* Mutant: the line feed is not skipped.
StartEndShort ==
    /\ Starts("END")
    /\ LET skip == SkipBytes(reader, Len(Word["END"]) - 1)
       IN  IF skip.err # "OK" THEN Leave(skip.err)
           ELSE Goes(skip.reader, "END", results)

StartEnd ==
    /\ Starts("END")
    /\ LET skip == Skipped("END")
       IN  IF skip.err # "OK" THEN Leave(skip.err)
           ELSE Goes(skip.reader, "END", results)

\* processMessageResult: the message answers the next request key, but "OK"
\* belongs to no key.
StartMessage ==
    \E w \in MessageTypes :
      /\ Starts(w)
      /\ LET skip == Skipped(w)
             key == IF w = "OK" THEN "none" ELSE requestKeys[keyIdx + 1]
         IN  IF skip.err # "OK" THEN Leave(skip.err)
             ELSE /\ reader' = skip.reader
                  /\ state' = IF w = "OK" THEN "END" ELSE "START"
                  /\ keyIdx' = IF w = "OK" THEN keyIdx ELSE keyIdx + 1
                  /\ results' = [results EXCEPT
                       !.message = Append(@, [type |-> w, key |-> key])]
                  /\ UNCHANGED <<mode, requestKeys, outcome>>

\* An error line is read, logged and freed.
ErrorOf == [ERROR |-> "PROGRAMMING_ERR", CLIENT_ERROR |-> "PROGRAMMING_ERR",
            SERVER_ERROR |-> "MC_SERVER_ERR"]
StartError ==
    \E w \in DOMAIN ErrorOf :
      /\ Starts(w)
      /\ LET line == ThenSkip(ReadUntil(reader, "LF"), 1)
         IN  IF line.err # "OK" THEN Leave(line.err)
             ELSE /\ reader' = Freed(line.reader, line.token)
                  /\ state' = "ERROR"
                  /\ outcome' = ErrorOf[w]
                  /\ UNCHANGED <<mode, requestKeys, keyIdx, results>>

\* The digits are left to be read in the next state.
StartNumber ==
    /\ At("START") /\ Lead.err = "OK" /\ Contains(Digits, Lead.byte)
    /\ Goes(reader, "INCR_DECR_START", [results EXCEPT
         !.unsigned = Append(@, [value |-> 0, key |-> "none"])])

StartUnknown ==
    /\ At("START") /\ Lead.err = "OK"
    /\ ~Contains(Digits, Lead.byte)
    /\ \A w \in DOMAIN Word : Word[w][1] # Lead.byte
    /\ Leave("PROGRAMMING_ERR")

Start ==
    \/ StartIncomplete \/ StartValue \/ StartLine \/ StartEnd
    \/ StartMessage \/ StartError \/ StartNumber \/ StartUnknown

-----------------------------------------------------------------------------
(* A value: "VALUE key flags bytes [cas]", a line end and the data.        *)

Current == Last(results.retrieval)
WithCurrent(kv) ==
    [results EXCEPT !.retrieval = Append(Front(@), kv)]

GetStart ==
    /\ At("GET_START")
    /\ LET key == ThenSkip(ReadUntil(reader, "SP"), 1)
       IN  IF key.err # "OK" THEN Leave(key.err)
           ELSE Goes(key.reader, "GET_KEY",
                     WithCurrent([Current EXCEPT !.key = key.token]))

GetKey ==
    /\ At("GET_KEY")
    /\ LET flags == ThenSkip(ReadUnsigned(reader), 1)
       IN  IF flags.err # "OK" THEN Leave(flags.err)
           ELSE Goes(flags.reader, "GET_FLAGS",
                     WithCurrent([Current EXCEPT !.flags = flags.value]))

\* Mutant: the line end is not counted as remaining.
GetFlagsShort ==
    /\ At("GET_FLAGS")
    /\ LET bytes == ThenSkip(ReadUnsigned(reader), 1)
       IN  IF bytes.err # "OK" THEN Leave(bytes.err)
           ELSE Goes(bytes.reader, "GET_BYTES",
                     WithCurrent([Current EXCEPT !.bytes = bytes.value,
                                                 !.remain = bytes.value]))

GetFlags ==
    /\ At("GET_FLAGS")
    /\ LET bytes == ThenSkip(ReadUnsigned(reader), 1)
       IN  IF bytes.err # "OK" THEN Leave(bytes.err)
           ELSE Goes(bytes.reader, "GET_BYTES",
                     WithCurrent([Current EXCEPT !.bytes = bytes.value,
                                                 !.remain = bytes.value + 1]))

\* A line feed here means that there is no cas.
GetBytes ==
    /\ At("GET_BYTES")
    /\ LET next == Peek(reader, 0)
           cas == ThenSkip(ReadUnsigned(reader), 1)
       IN  IF next.err # "OK" THEN Leave(next.err)
           ELSE IF next.byte = "LF"
             THEN Goes(reader, "GET_CAS", WithCurrent([Current EXCEPT !.cas = 0]))
           ELSE IF cas.err # "OK" THEN Leave(cas.err)
           ELSE Goes(cas.reader, "GET_CAS",
                     WithCurrent([Current EXCEPT !.cas = cas.value]))

GetCas ==
    /\ At("GET_CAS")
    /\ LET skip == SkipBytes(reader, 1)
       IN  IF skip.err # "OK" THEN Leave(skip.err)
           ELSE Goes(skip.reader, "GET_VALUE_REMAINING",
                     WithCurrent([Current EXCEPT !.remain = @ - 1]))

\* The next block asked for is large enough for what is missing.
Hinted(r) ==
    IF r.readLeft < Current.bytes + 2
      THEN [r EXCEPT !.preferred = Current.bytes + 2 - r.readLeft]
      ELSE r

\* The data is taken when all of it is there; the line end that follows may
\* come later, with nothing remaining of the value.
GetValue ==
    /\ At("GET_VALUE_REMAINING")
    /\ Current.remain > 0
    /\ LET data == ReadBytes(Hinted(reader), Current.bytes)
       IN  IF data.err # "OK"
             THEN /\ reader' = data.reader
                  /\ outcome' = data.err
                  /\ UNCHANGED <<mode, requestKeys, state, keyIdx, results>>
             ELSE Goes(data.reader, state,
                       WithCurrent([Current EXCEPT !.data = data.token,
                                                   !.remain = 0]))

GetValueEnd ==
    /\ At("GET_VALUE_REMAINING")
    /\ Current.remain = 0
    /\ LET skip == SkipBytes(reader, 2)
       IN  IF skip.err # "OK" THEN Leave(skip.err)
           ELSE Goes(skip.reader, "START", results)

-----------------------------------------------------------------------------
(* A number, and a line.                                                   *)

IncrDecrStart ==
    /\ At("INCR_DECR_START")
    /\ LET value == ThenSkip(ReadUnsigned(reader), 1)
       IN  IF value.err # "OK" THEN Leave(value.err)
           ELSE Goes(value.reader, "INCR_DECR_REMAINING", [results EXCEPT
                  !.unsigned = Append(Front(@), [value |-> value.value,
                                 key |-> requestKeys[keyIdx + 1]])])

IncrDecrRemaining ==
    /\ At("INCR_DECR_REMAINING")
    /\ LET rest == ThenSkip(SkipUntil(reader, "LF"), 1)
       IN  IF rest.err # "OK" THEN Leave(rest.err)
           ELSE /\ reader' = rest.reader
                /\ keyIdx' = keyIdx + 1
                /\ state' = "START"
                /\ UNCHANGED <<mode, requestKeys, results, outcome>>

\* processLineResult: a version is all of its answer, a statistic is not.
ReadLine ==
    \E w \in DOMAIN LineState :
      /\ At(LineState[w])
      /\ LET line == ThenSkip(ReadUntil(reader, "LF"), 1)
         IN  IF line.err # "OK" THEN Leave(line.err)
             ELSE Goes(line.reader, IF w = "VERSION" THEN "END" ELSE "START",
                       [results EXCEPT !.line = Append(Front(@), line.token)])

Parse ==
    \/ EndParse
    \/ Start
    \/ GetStart \/ GetKey \/ GetFlags \/ GetBytes \/ GetCas
    \/ GetValue \/ GetValueEnd
    \/ IncrDecrStart \/ IncrDecrRemaining
    \/ ReadLine

-----------------------------------------------------------------------------
(* What Connection asks of the parser.                                     *)

\* process_packets on entry: a parser that has ended starts again.
ProcessPackets ==
    /\ state' = IF IsEndState(state) THEN "START" ELSE state
    /\ outcome' = "running"

\* PacketParser::rewind: the results go, the request stays.
RewindParser ==
    /\ results' = NoResults
    /\ state' = "START"
    /\ keyIdx' = 0
    /\ outcome' = "none"
    /\ UNCHANGED <<mode, requestKeys>>

\* PacketParser::reset.
ResetParser ==
    /\ results' = NoResults
    /\ state' = "START"
    /\ keyIdx' = 0
    /\ outcome' = "none"
    /\ mode' = "UNDEFINED"
    /\ requestKeys' = <<>>
=============================================================================
