---------------------------- MODULE BufferWriter ----------------------------
(***************************************************************************)
(* io::BufferWriter: the iovecs of the requests that were dispatched and   *)
(* not sent yet.  An iovec is the range of the request that it points to:  *)
(* the position of its first byte and its length.                          *)
(***************************************************************************)
EXTENDS Totals, FiniteSetsExt

\* original is m_originalIovec, taken when an iovec is first sent in part;
\* left is m_msgIovlen.
NewWriter == [iovec |-> <<>>, original |-> <<>>, readIdx |-> 0, left |-> 0]

LengthOf(iovecs) == Total([i \in DOMAIN iovecs |-> iovecs[i].len])

\* takeBuffer and takeNumber: one more range, after those already taken.
Take(w, len) ==
    [w EXCEPT !.iovec = Append(@, [from |-> LengthOf(w.iovec) + 1, len |-> len]),
              !.left = @ + 1]

\* getReadPtr: what is to be sent, from m_readIdx on.
ToSend(w) == SubSeq(w.iovec, w.readIdx + 1, w.readIdx + w.left)

\* Mutant: the original iovecs are not kept.
CommitReadForgets(w, nSent) ==
    LET sentOf(n) == LengthOf(SubSeq(ToSend(w), 1, n))
        whole == Max({n \in 0 .. w.left : sentOf(n) <= nSent})
        part == nSent - sentOf(whole)
        passed == [w EXCEPT !.readIdx = @ + whole, !.left = @ - whole]
        cut == passed.readIdx + 1
    IN  IF part = 0 THEN passed
        ELSE [passed EXCEPT !.iovec[cut].from = @ + part,
                            !.iovec[cut].len = @ - part]

\* commitRead: the iovecs that went whole are passed, with the empty ones
\* behind them, and the next one is cut.
CommitRead(w, nSent) ==
    LET sentOf(n) == LengthOf(SubSeq(ToSend(w), 1, n))
        whole == Max({n \in 0 .. w.left : sentOf(n) <= nSent})
        part == nSent - sentOf(whole)
        passed == [w EXCEPT !.readIdx = @ + whole, !.left = @ - whole]
        cut == passed.readIdx + 1
    IN  IF part = 0 THEN passed
        ELSE [passed EXCEPT
                !.original = IF @ = <<>> THEN w.iovec ELSE @,
                !.iovec[cut].from = @ + part, !.iovec[cut].len = @ - part]

\* Mutant: only what was left before is to be sent again.
RewindWriterLeft(w) ==
    [w EXCEPT !.readIdx = 0, !.iovec = IF w.original = <<>> THEN @ ELSE w.original]

\* rewind: everything is to be sent again.
RewindWriter(w) ==
    [w EXCEPT !.readIdx = 0, !.left = Len(w.iovec),
              !.iovec = IF w.original = <<>> THEN @ ELSE w.original]

\* isRead, which Connection::isSent asks: the first iovec has gone.
IsRead(w) == w.readIdx # 0

\* The bytes of the request that nSent bytes of ToSend(w) are.
BytesOf(w, nSent) ==
    SubSeq(FlattenSeq([i \in 1 .. w.left |->
             LET iov == ToSend(w)[i]
             IN  [j \in 1 .. iov.len |-> iov.from + j - 1]]), 1, nSent)
=============================================================================
