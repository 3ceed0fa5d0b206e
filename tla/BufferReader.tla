---------------------------- MODULE BufferReader ----------------------------
(***************************************************************************)
(* io::BufferReader over its list of io::DataBlock: where recv(2) writes   *)
(* and what the parser has not read yet.  A reader is a record and each    *)
(* method an operator that returns the reader it leaves; a method that may *)
(* fail returns a record with its err_code_t as well.                      *)
(*                                                                         *)
(* The bytes of the list are never copied by reading: a token is a         *)
(* sequence of slices of the blocks.  nBytesRef of a block counts the      *)
(* bytes that are unread or belong to a token; who reads bytes without     *)
(* keeping a token, or destroys a token, releases them.                    *)
(*                                                                         *)
(* An iterator into the list is the index of its block, and end() the      *)
(* length plus one.  A list iterator that is end() stays end() when a      *)
(* block is appended, an index does not: it makes no difference as long as *)
(* the read cursor is at end() only when nothing is left to read, because  *)
(* prepareWriteBlock then places it.  CursorInBounds says so.              *)
(***************************************************************************)
EXTENDS Totals, FiniteSetsExt

CONSTANT MinCapacity   \* DataBlock::s_minCapacity

ASSUME MinCapacityAssumption == MinCapacity \in Nat \ {0}

-----------------------------------------------------------------------------
(* DataBlock.  data is what has been written, so its length is m_size.     *)

NewBlock(capacity) == [capacity |-> capacity, data |-> <<>>, refs |-> 0]

WriteLeft(block) == block.capacity - Len(block.data)

\* occupy: bytes are written, and referenced because they are unread.
Occupied(block, bytes) ==
    [block EXCEPT !.data = @ \o bytes, !.refs = @ + Len(bytes)]

Reusable(block) == block.refs = 0

-----------------------------------------------------------------------------
(* The reader: its list, the read cursor at[offset], the write iterator,   *)
(* m_readLeft and m_nextPreferedDataBlockSize.                             *)

NewReader ==
    [blocks |-> <<>>, at |-> 1, offset |-> 0, writeAt |-> 1,
     readLeft |-> 0, preferred |-> 0]

\* Only the first block is kept.
ResetReader(r) ==
    [r EXCEPT !.blocks = IF @ = <<>> THEN <<>> ELSE <<NewBlock(@[1].capacity)>>,
              !.at = 1, !.offset = 0, !.writeAt = 1, !.readLeft = 0]

Larger(m, n) == IF m < n THEN n ELSE m
Smaller(m, n) == IF m < n THEN m ELSE n

\* prepareWriteBlock: the block to write to exists and has room.
PrepareWrite(r, len) ==
    LET full == /\ r.writeAt <= Len(r.blocks)
                /\ WriteLeft(r.blocks[r.writeAt]) = 0
        w == IF full THEN r.writeAt + 1 ELSE r.writeAt
        blocks == IF w > Len(r.blocks)
                    THEN Append(r.blocks, NewBlock(Larger(len, MinCapacity)))
                    ELSE r.blocks
    IN  [r EXCEPT !.blocks = blocks, !.writeAt = w,
                  !.at = IF r.readLeft = 0 THEN w ELSE @,
                  !.offset = IF r.readLeft = 0 THEN Len(blocks[w].data) ELSE @]

\* What prepareWriteBlock returns for the reader it leaves.
Writable(r, len) == Smaller(len, WriteLeft(r.blocks[r.writeAt]))

\* commitWrite.  The test that moves the write iterator on adds the length
\* a second time: a block may be left with room, or stay current when full.
CommitWrite(r, bytes) ==
    LET block == Occupied(r.blocks[r.writeAt], bytes)
    IN  [r EXCEPT !.blocks[r.writeAt] = block,
                  !.writeAt = IF Len(block.data) + Len(bytes) = block.capacity
                                THEN @ + 1 ELSE @,
                  !.readLeft = @ + Len(bytes)]

\* getNextPreferedDataBlockSize and what it leaves behind.
PreferredSize(r) == IF r.preferred = 0 THEN MinCapacity ELSE r.preferred
PreferredTaken(r) == [r EXCEPT !.preferred = MinCapacity]

-----------------------------------------------------------------------------
(* Walking the list.                                                       *)

\* The unread bytes in order, each with its block and its end in it.
From(r, b) == IF b = r.at THEN r.offset ELSE 0

AheadIn(r, b) ==
    [i \in 1 .. Len(r.blocks[b].data) - From(r, b) |->
       [block |-> b, end |-> From(r, b) + i,
        byte |-> r.blocks[b].data[From(r, b) + i]]]

Ahead(r) ==
    FlattenSeq([k \in 1 .. Len(r.blocks) - r.at + 1 |-> AheadIn(r, r.at + k - 1)])

Unread(r) == LET ahead == Ahead(r) IN [i \in DOMAIN ahead |-> ahead[i].byte]

\* The read cursor moves behind p; at the end of a block it goes to the start
\* of the next one, or to end().
MovedBehind(r, p) ==
    LET inside == p.end < Len(r.blocks[p.block].data)
    IN  [r EXCEPT !.at = IF inside THEN p.block ELSE p.block + 1,
                  !.offset = IF inside THEN p.end ELSE 0]

\* The token of the bytes from the read cursor to p.
SlicesTo(r, p) ==
    [i \in 1 .. p.block - r.at + 1 |->
       LET b == r.at + i - 1
           to == IF b = p.block THEN p.end ELSE Len(r.blocks[b].data)
       IN  [block |-> b, offset |-> From(r, b), size |-> to - From(r, b)]]

\* The bytes of block b that belong to a token.
HeldIn(b, token) ==
    Total([i \in DOMAIN token |-> IF token[i].block = b THEN token[i].size ELSE 0])

\* freeTokenData releases the bytes of every slice.
Freed(r, token) ==
    [r EXCEPT !.blocks =
       [b \in DOMAIN r.blocks |->
          [r.blocks[b] EXCEPT !.refs = @ - HeldIn(b, token)]]]

\* The bytes of a token: parseTokenData.
TokenBytes(r, token) ==
    FlattenSeq([i \in DOMAIN token |->
      SubSeq(r.blocks[token[i].block].data,
             token[i].offset + 1, token[i].offset + token[i].size)])

-----------------------------------------------------------------------------
(* The reading methods.                                                    *)

Incomplete(r) == [err |-> "INCOMPLETE_BUFFER_ERR", reader |-> r]
Programming(r) == [err |-> "PROGRAMMING_ERR", reader |-> r]

\* peek: the byte that offset unread bytes precede.
Peek(r, offset) ==
    IF offset >= r.readLeft THEN Incomplete(r)
    ELSE [err |-> "OK", reader |-> r, byte |-> Unread(r)[offset + 1]]

ReadBytes(r, len) ==
    LET p == Ahead(r)[len]
    IN  IF len > r.readLeft THEN Incomplete(r)
        ELSE IF len = 0 THEN [err |-> "OK", reader |-> r, token |-> <<>>]
        ELSE [err |-> "OK", token |-> SlicesTo(r, p),
              reader |-> [MovedBehind(r, p) EXCEPT !.readLeft = @ - len]]

\* Mutant: the bytes skipped stay referenced.
SkipBytesKeeps(r, len) == ReadBytes(r, len)

\* Mutant: the last unread byte cannot be skipped.
SkipBytesShort(r, len) ==
    LET read == ReadBytes(r, len)
    IN  IF read.err # "OK" \/ len >= r.readLeft THEN Incomplete(r)
        ELSE [err |-> "OK", reader |-> Freed(read.reader, read.token)]

SkipBytes(r, len) ==
    LET read == ReadBytes(r, len)
    IN  IF read.err # "OK" THEN read
        ELSE [err |-> "OK", reader |-> Freed(read.reader, read.token)]

\* How many unread bytes come before the first one that is in stops, all of
\* them if none is.
Before(r, stops) ==
    LET i == SelectInSeq(Unread(r), LAMBDA c : c \in stops)
    IN  IF i = 0 THEN r.readLeft ELSE i - 1

ReadUntil(r, byte) ==
    LET len == Before(r, {byte})
    IN  IF len = r.readLeft THEN Incomplete(r) ELSE ReadBytes(r, len)

SkipUntil(r, byte) ==
    LET len == Before(r, {byte})
    IN  IF len = r.readLeft THEN Incomplete(r) ELSE SkipBytes(r, len)

\* The value of a sequence of digits.
Digits == <<"0", "1", "2", "3", "4", "5", "6", "7", "8", "9">>
NumberOf(bytes) ==
    FoldLeft(LAMBDA n, c : 10 * n + SelectInSeq(Digits, LAMBDA d : d = c) - 1,
             0, bytes)

\* A number is known to be whole by the byte that follows it.
ReadUnsigned(r) ==
    LET digits == Before(r, ToSet(Unread(r)) \ ToSet(Digits))
    IN  IF r.readLeft < 2 THEN Incomplete(r)
        ELSE IF digits = 0 THEN Programming(r)
        ELSE IF digits = r.readLeft THEN Incomplete(r)
        ELSE [err |-> "OK", reader |-> SkipBytes(r, digits).reader,
              value |-> NumberOf(SubSeq(Unread(r), 1, digits))]

\* A read followed by skipBytes(n).
ThenSkip(read, n) ==
    IF read.err # "OK" THEN read
    ELSE LET skip == SkipBytes(read.reader, n)
         IN  [read EXCEPT !.err = skip.err, !.reader = skip.reader]

-----------------------------------------------------------------------------
(* What a reader must be.                                                  *)

ReaderType(r) ==
    /\ \A b \in DOMAIN r.blocks :
         /\ Len(r.blocks[b].data) <= r.blocks[b].capacity
         /\ r.blocks[b].refs \in Nat
    /\ r.at \in 1 .. Len(r.blocks) + 1
    /\ r.writeAt \in 1 .. Len(r.blocks) + 1
    /\ r.offset \in Nat /\ r.readLeft \in Nat /\ r.preferred \in Nat

CursorInBounds(r) ==
    r.readLeft > 0 => /\ r.at <= Len(r.blocks)
                      /\ r.offset < Len(r.blocks[r.at].data)

\* The bytes of block b that are unread.
UnreadIn(r, b) ==
    IF b < r.at THEN 0 ELSE Len(r.blocks[b].data) - From(r, b)
=============================================================================
