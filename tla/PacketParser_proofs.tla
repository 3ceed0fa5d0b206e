------------------------- MODULE PacketParser_proofs -------------------------
(***************************************************************************)
(* What the methods of BufferReader and BufferWriter do to the bytes that  *)
(* they are given, for buffers of any length; where the bytes of a packet  *)
(* are that the parser looks for; and what the turns of the parser's loop  *)
(* make of them before the rest of the packet has come.                    *)
(***************************************************************************)
EXTENDS Protocol, BufferWriter, SequenceLemmas

\* Every byte is a string; those that the protocol names are listed because
\* the provers do not know of a literal that it is in STRING.
Byte == STRING \cup {"0", "1", "2", "3", "4", "5", "6", "7", "8", "9",
                     "SP", "CR", "LF", "?", "_", "A", "C", "D", "E", "F", "N",
                     "O", "R", "S", "T", "V", "X"}

Block == [capacity : Nat \ {0}, data : Seq(Byte), refs : Int]
Slice == [block : Nat, offset : Nat, size : Nat]
Place == [block : Nat, end : Nat, byte : Byte]
Readers == [blocks : Seq(Block), at : Nat \ {0}, offset : Nat,
            writeAt : Nat \ {0}, readLeft : Nat, preferred : Nat]

\* The cursors are within the list and the blocks.
Shape(r) ==
    /\ r \in Readers
    /\ r.at <= Len(r.blocks) + 1
    /\ r.at <= Len(r.blocks) => r.offset <= Len(r.blocks[r.at].data)

\* How many blocks are from the cursor on, and what is unread in each.
Rest(r) == Len(r.blocks) - r.at + 1
UnreadFrom(r) == [k \in 1 .. Rest(r) |-> UnreadIn(r, r.at + k - 1)]

LEMMA BlockType ==
  ASSUME NEW r, Shape(r), NEW b \in 1 .. Len(r.blocks)
  PROVE  /\ r.blocks[b] \in Block /\ r.blocks[b].data \in Seq(Byte)
         /\ Len(r.blocks[b].data) \in Nat /\ Len(r.blocks) \in Nat
         /\ r.at \in Nat \ {0} /\ r.offset \in Nat /\ DOMAIN r.blocks = 1 .. Len(r.blocks)
  <1>1. r.blocks \in Seq(Block) /\ r.at \in Nat \ {0} /\ r.offset \in Nat
    BY DEF Shape, Readers
  <1>2. r.blocks[b] \in Block
    BY <1>1
  <1>3. QED
    <2>1. r.blocks[b].data \in Seq(Byte)
      BY <1>2 DEF Block
    <2>2. Len(r.blocks[b].data) \in Nat
      BY <2>1
    <2>3. Len(r.blocks) \in Nat /\ DOMAIN r.blocks = 1 .. Len(r.blocks)
      BY <1>1, SeqParts
    <2>4. QED
      BY <1>1, <1>2, <2>1, <2>2, <2>3

LEMMA UnreadType ==
  ASSUME NEW r, Shape(r), NEW b \in 1 .. Len(r.blocks)
  PROVE  /\ UnreadIn(r, b) \in Nat /\ From(r, b) \in Nat
         /\ b < r.at => UnreadIn(r, b) = 0
         /\ b >= r.at => UnreadIn(r, b) = Len(r.blocks[b].data) - From(r, b)
  <1>1. /\ Len(r.blocks[b].data) \in Nat /\ r.at \in Nat /\ r.offset \in Nat
        /\ b = r.at => r.offset <= Len(r.blocks[b].data)
    BY BlockType DEF Shape
  <1>2. CASE b < r.at
    BY <1>1, <1>2 DEF UnreadIn, From
  <1>3. CASE b = r.at
    BY <1>1, <1>3 DEF UnreadIn, From
  <1>4. CASE b > r.at
    BY <1>1, <1>4 DEF UnreadIn, From
  <1>5. QED
    BY <1>1, <1>2, <1>3, <1>4

LEMMA RestType ==
  ASSUME NEW r, Shape(r)
  PROVE  /\ Rest(r) \in Nat /\ Len(r.blocks) \in Nat /\ r.at \in Nat \ {0}
         /\ \A k \in 1 .. Rest(r) : r.at + k - 1 \in r.at .. Len(r.blocks)
         /\ \A b \in r.at .. Len(r.blocks) :
              b - r.at + 1 \in 1 .. Rest(r) /\ b \in 1 .. Len(r.blocks)
         /\ UnreadFrom(r) \in [1 .. Rest(r) -> Nat]
  <1>1. Len(r.blocks) \in Nat /\ r.at \in Nat \ {0} /\ r.at <= Len(r.blocks) + 1
    BY DEF Shape, Readers
  <1>2. Rest(r) \in Nat /\ Rest(r) = Len(r.blocks) - r.at + 1
    BY <1>1 DEF Rest
  <1>3. \A k \in 1 .. Rest(r) : r.at + k - 1 \in r.at .. Len(r.blocks)
    BY <1>1, <1>2
  <1>4. \A b \in r.at .. Len(r.blocks) :
          b - r.at + 1 \in 1 .. Rest(r) /\ b \in 1 .. Len(r.blocks)
    BY <1>1, <1>2
  <1>5. \A k \in 1 .. Rest(r) : UnreadIn(r, r.at + k - 1) \in Nat
    BY <1>3, <1>4, UnreadType
  <1>6. QED
    BY <1>1, <1>2, <1>3, <1>4, <1>5 DEF UnreadFrom

LEMMA AheadInType ==
  ASSUME NEW r, Shape(r), NEW b \in r.at .. Len(r.blocks)
  PROVE  AheadIn(r, b) \in Seq(Place) /\ Len(AheadIn(r, b)) = UnreadIn(r, b)
  <1>1. b \in 1 .. Len(r.blocks) /\ b \in Nat /\ b >= r.at
    BY RestType
  <1>2. PICK d \in Seq(Byte), f \in Nat, n \in Nat :
          /\ d = r.blocks[b].data /\ f = From(r, b) /\ n = Len(d) - f
          /\ UnreadIn(r, b) = n
    BY <1>1, BlockType, UnreadType
  <1>3. AheadIn(r, b) = [i \in 1 .. n |-> [block |-> b, end |-> f + i, byte |-> d[f + i]]]
    BY <1>2 DEF AheadIn
  <1>4. \A i \in 1 .. n : [block |-> b, end |-> f + i, byte |-> d[f + i]] \in Place
    <2>1. \A i \in 1 .. n : f + i \in 1 .. Len(d) /\ f + i \in Nat
      <3>1. PICK l \in Nat : l = Len(d) /\ n = l - f
        BY <1>2
      <3>2. n = l - f
        BY <3>1
      <3>3. \A i \in 1 .. n : f + i \in 1 .. l /\ f + i \in Nat
        BY ONLY <3>2, n \in Nat, l \in Nat, f \in Nat
      <3>4. QED
        BY <3>1, <3>3
    <2>2. \A i \in 1 .. n : d[f + i] \in Byte
      BY ONLY <2>1, SeqParts, d \in Seq(Byte)
    <2>3. QED
      BY <1>1, <2>1, <2>2 DEF Place
  <1>5. AheadIn(r, b) \in [1 .. n -> Place]
    BY <1>3, <1>4
  <1>6. QED
    BY <1>2, <1>5, SeqMade

\* Where the unread bytes are.
LEMMA AheadPlaces ==
  ASSUME NEW r, Shape(r), NEW t, Sums(t, UnreadFrom(r), Rest(r))
  PROVE  /\ Ahead(r) \in Seq(Place) /\ Len(Ahead(r)) = t[Rest(r)]
         /\ \A k \in 1 .. Rest(r) : \A j \in 1 .. UnreadFrom(r)[k] :
              Ahead(r)[t[k - 1] + j] = AheadIn(r, r.at + k - 1)[j]
  <1> DEFINE s == [k \in 1 .. Rest(r) |-> AheadIn(r, r.at + k - 1)]
  <1>1. ASSUME NEW b \in r.at .. Len(r.blocks)
        PROVE  AheadIn(r, b) \in Seq(Place) /\ Len(AheadIn(r, b)) = UnreadIn(r, b)
    BY AheadInType
  <1>2. /\ s \in Seq(Seq(Place)) /\ Len(s) = Rest(r)
        /\ \A k \in 1 .. Rest(r) : s[k] = AheadIn(r, r.at + k - 1)
    <2>1. Rest(r) \in Nat /\ s \in [1 .. Rest(r) -> Seq(Place)]
      BY <1>1, RestType
    <2>2. QED
      BY <2>1, SeqMade, ZenonT(30)
  <1> HIDE DEF s
  <1>3. LengthsOf(s) = UnreadFrom(r)
    <2>1. \A k \in 1 .. Rest(r) : Len(s[k]) = UnreadIn(r, r.at + k - 1)
      BY <1>1, <1>2, RestType
    <2>2. QED
      BY <1>2, <2>1 DEF LengthsOf, UnreadFrom
  <1>4. Ahead(r) = FlattenSeq(s)
    BY DEF s, Ahead, Rest
  <1>5. /\ FlattenSeq(s) \in Seq(Place) /\ Len(FlattenSeq(s)) = t[Rest(r)]
        /\ Placed(FlattenSeq(s), s, t, Rest(r))
    BY <1>2, <1>3, Flattened
  <1>6. \A k \in 1 .. Rest(r) : UnreadFrom(r)[k] = Len(s[k])
    BY <1>2, <1>3 DEF LengthsOf
  <1>7. QED
    BY <1>2, <1>4, <1>5, <1>6, SMTT(20) DEF Placed

\* The place behind which the cursor moves when len bytes are read.
LEMMA PlaceRead ==
  ASSUME NEW r, Shape(r), NEW t, Sums(t, UnreadFrom(r), Rest(r)),
         NEW len \in 1 .. Len(Ahead(r))
  PROVE  \E k \in 1 .. Rest(r) : \E j \in 1 .. UnreadFrom(r)[k] :
           /\ len = t[k - 1] + j
           /\ Ahead(r)[len] \in Place
           /\ Ahead(r)[len].block = r.at + k - 1
           /\ Ahead(r)[len].end = From(r, r.at + k - 1) + j
  <1>1. /\ Ahead(r) \in Seq(Place) /\ Len(Ahead(r)) = t[Rest(r)]
        /\ \A k \in 1 .. Rest(r) : \A j \in 1 .. UnreadFrom(r)[k] :
             Ahead(r)[t[k - 1] + j] = AheadIn(r, r.at + k - 1)[j]
    BY AheadPlaces
  <1>0. PICK n \in Nat : n = Rest(r)
    BY RestType
  <1>2. PICK u \in [1 .. n -> Nat] :
          n = Rest(r) /\ u = UnreadFrom(r) /\ Sums(t, u, n)
    BY <1>0, RestType
  <1>3. len \in 1 .. t[n]
    BY <1>1, <1>2
  <1>5. PICK k \in 1 .. n : \E j \in 1 .. u[k] : len = t[k - 1] + j
    BY <1>2, <1>3, SumsCover, SMTT(20)
  <1>6. PICK j \in 1 .. u[k] : len = t[k - 1] + j
    BY <1>5
  <1>7. Ahead(r)[len] = AheadIn(r, r.at + k - 1)[j]
    BY <1>1, <1>2, <1>6
  <1>8. r.at + k - 1 \in r.at .. Len(r.blocks) /\ r.at + k - 1 \in 1 .. Len(r.blocks)
    BY <1>2, RestType
  <1>9. u[k] = UnreadIn(r, r.at + k - 1)
    BY <1>2 DEF UnreadFrom
  <1>10. u[k] = Len(r.blocks[r.at + k - 1].data) - From(r, r.at + k - 1)
    <2>1. r.at + k - 1 >= r.at
      BY RestType
    <2>2. QED
      BY <1>8, <1>9, <2>1, UnreadType
  <1>11. /\ Ahead(r)[len].block = r.at + k - 1
         /\ Ahead(r)[len].end = From(r, r.at + k - 1) + j
    BY <1>7, <1>10 DEF AheadIn
  <1>12. Ahead(r)[len] \in Place
    BY <1>1, SeqParts
  <1>13. QED
    BY <1>2, <1>6, <1>11, <1>12

\* The cursor has moved behind the j-th unread byte of the k-th block.
Moved(r, m, k, j) ==
    \E p : /\ p.block = r.at + k - 1
           /\ p.end = From(r, r.at + k - 1) + j
           /\ m = MovedBehind(r, p)

LEMMA MovedShape ==
  ASSUME NEW r, Shape(r), NEW k \in 1 .. Rest(r), NEW j \in 1 .. UnreadFrom(r)[k],
         NEW m, Moved(r, m, k, j)
  PROVE  /\ Shape(m) /\ m.blocks = r.blocks
         /\ m.writeAt = r.writeAt /\ m.readLeft = r.readLeft /\ m.preferred = r.preferred
         /\ m.at \in {r.at + k - 1, r.at + k} /\ m.at >= r.at
         /\ m.at = r.at + k => j = UnreadFrom(r)[k] /\ m.offset = 0
         /\ m.at = r.at + k - 1 => m.offset = From(r, r.at + k - 1) + j
                                   /\ m.offset < Len(r.blocks[m.at].data)
         /\ \A b \in m.at .. Len(r.blocks) :
              From(m, b) = From(r, b) + IF b = r.at + k - 1 THEN j ELSE 0
         /\ \A b \in 1 .. Len(r.blocks) :
              UnreadIn(m, b) = IF b < r.at + k - 1 THEN 0
                               ELSE IF b = r.at + k - 1 THEN UnreadIn(r, b) - j
                               ELSE UnreadIn(r, b)
  <1>1. PICK p : /\ p.block = r.at + k - 1 /\ p.end = From(r, r.at + k - 1) + j
                 /\ m = MovedBehind(r, p)
    BY DEF Moved
  <1>2. PICK c \in Nat : c = r.at + k - 1
    BY RestType
  <1>3. /\ c \in r.at .. Len(r.blocks) /\ c \in 1 .. Len(r.blocks) /\ c >= r.at
        /\ Len(r.blocks) \in Nat /\ r.at \in Nat \ {0} /\ r.offset \in Nat
        /\ r.at + k = c + 1
    <2>1. r.offset \in Nat
      BY DEF Shape, Readers
    <2>2. QED
      BY <1>2, <2>1, RestType
  <1>4. UnreadFrom(r)[k] = UnreadIn(r, c)
    BY <1>2 DEF UnreadFrom
  <1>5. PICK n \in Nat, f \in Nat :
          /\ n = Len(r.blocks[c].data) /\ f = From(r, c)
          /\ UnreadIn(r, c) = n - f /\ j \in 1 .. n - f /\ p.end = f + j
          /\ p.block = c
    <2>1. Len(r.blocks[c].data) \in Nat /\ From(r, c) \in Nat
          /\ UnreadIn(r, c) = Len(r.blocks[c].data) - From(r, c)
      BY <1>3, BlockType, UnreadType
    <2>2. j \in 1 .. UnreadIn(r, c)
      BY <1>4
    <2>3. p.block = c /\ p.end = From(r, c) + j
      BY <1>1, <1>2
    <2>4. QED
      BY <2>1, <2>2, <2>3
  <1>6. m = [r EXCEPT !.at = IF f + j < n THEN c ELSE c + 1,
                      !.offset = IF f + j < n THEN f + j ELSE 0]
    BY <1>1, <1>5 DEF MovedBehind
  <1>7. /\ m \in Readers /\ m.blocks = r.blocks
        /\ m.writeAt = r.writeAt /\ m.readLeft = r.readLeft /\ m.preferred = r.preferred
        /\ m.at = IF f + j < n THEN c ELSE c + 1
        /\ m.offset = IF f + j < n THEN f + j ELSE 0
    <2>1. r \in Readers /\ c \in Nat \ {0} /\ c + 1 \in Nat \ {0} /\ f + j \in Nat
      BY <1>3 DEF Shape
    <2>2. QED
      BY <1>6, <2>1 DEF Readers
  <1>8. m.at \in {c, c + 1} /\ m.at >= r.at /\ m.at <= Len(m.blocks) + 1
    BY <1>3, <1>7
  <1>9. m.at = c => m.offset = f + j /\ m.offset < n
    BY <1>3, <1>7
  <1>10. m.at = c + 1 => m.offset = 0 /\ j = UnreadIn(r, c)
    <2>1. c \in Nat /\ c # c + 1
      BY <1>3
    <2>2. f + j < n \/ j = n - f
      <3>1. n \in Nat /\ f \in Nat /\ j \in 1 .. n - f
        BY <1>5
      <3>2. QED
        BY ONLY <3>1
    <2>3. f + j < n => m.at = c
      BY <1>7
    <2>4. ~ (f + j < n) => m.offset = 0
      BY <1>7
    <2>5. QED
      BY <1>5, <2>1, <2>2, <2>3, <2>4
  <1>11. Shape(m)
    <2>1. m.at <= Len(m.blocks) => m.offset <= Len(m.blocks[m.at].data)
      <3>1. CASE m.at = c
        BY <1>5, <1>7, <1>9, <3>1, SMTT(20)
      <3>2. CASE m.at = c + 1
        <4>1. SUFFICES ASSUME m.at <= Len(m.blocks)
                       PROVE  m.offset <= Len(m.blocks[m.at].data)
          OBVIOUS
        <4>2. m.at \in 1 .. Len(r.blocks)
          BY <1>3, <1>7, <3>2, <4>1
        <4>3. Len(m.blocks[m.at].data) \in Nat
          BY <1>7, <4>2, BlockType
        <4>4. QED
          BY <1>10, <3>2, <4>3
      <3>3. QED
        BY <1>8, <3>1, <3>2
    <2>2. QED
      BY <1>7, <1>8, <2>1 DEF Shape
  <1>12. ASSUME NEW b \in m.at .. Len(r.blocks)
         PROVE  From(m, b) = From(r, b) + IF b = c THEN j ELSE 0
    <2>1. CASE b = c
      <3>1. m.at = c
        BY <1>3, <1>8, <2>1
      <3>2. QED
        BY <1>5, <1>9, <2>1, <3>1 DEF From
    <2>2. CASE b # c
      <3>1. b > c /\ b # r.at
        BY <1>3, <1>8, <2>2
      <3>2. From(r, b) = 0
        BY <3>1 DEF From
      <3>3. From(m, b) = 0
        BY <1>8, <1>10, <2>2 DEF From
      <3>4. QED
        BY <2>2, <3>2, <3>3
    <2>3. QED
      BY <2>1, <2>2
  <1>13. ASSUME NEW b \in 1 .. Len(r.blocks)
         PROVE  UnreadIn(m, b) = IF b < c THEN 0
                                 ELSE IF b = c THEN UnreadIn(r, b) - j
                                 ELSE UnreadIn(r, b)
    <2>1. /\ b < m.at => UnreadIn(m, b) = 0
          /\ b >= m.at => UnreadIn(m, b) = Len(r.blocks[b].data) - From(m, b)
      BY <1>7, <1>11, UnreadType
    <2>2. /\ b >= r.at => UnreadIn(r, b) = Len(r.blocks[b].data) - From(r, b)
          /\ From(r, b) \in Nat /\ Len(r.blocks[b].data) \in Nat
      BY UnreadType, BlockType
    <2>3. CASE b < c
      BY <1>3, <1>8, <2>1, <2>3
    <2>4. CASE b = c
      <3>1. CASE m.at = c
        <4>1. From(m, b) = From(r, b) + j /\ b >= m.at /\ b >= r.at
          BY <1>3, <1>12, <2>4, <3>1
        <4>2. QED
          BY <2>1, <2>2, <2>4, <4>1
      <3>2. CASE m.at = c + 1
        <4>1. UnreadIn(m, b) = 0
          BY <2>1, <2>4, <3>2
        <4>2. UnreadIn(r, b) = j /\ ~ (b < c)
          BY <1>10, <2>4, <3>2
        <4>3. QED
          BY <2>4, <4>1, <4>2
      <3>3. QED
        BY <1>8, <3>1, <3>2
    <2>5. CASE b > c
      <3>1. b \in m.at .. Len(r.blocks) /\ b >= m.at /\ b >= r.at /\ b # c /\ ~ (b < c)
        BY <1>3, <1>8, <2>5
      <3>2. From(m, b) = From(r, b)
        BY <1>12, <2>2, <3>1
      <3>3. QED
        BY <2>1, <2>2, <3>1, <3>2
    <2>6. QED
      BY <1>3, <2>3, <2>4, <2>5
  <1>14. QED
    BY <1>2, <1>3, <1>4, <1>5, <1>7, <1>8, <1>9, <1>10, <1>11, <1>12, <1>13

\* The cursor of m is off blocks behind that of r, in the same list, and len
\* bytes: the first k - 1 blocks and j bytes of the k-th, or of the next.
Behind(m, r, n, t, u, k, j, off, n2, v, w, len) ==
    /\ n = Rest(r) /\ u = UnreadFrom(r) /\ Sums(t, u, n)
    /\ k \in 1 .. n /\ j \in 1 .. u[k]
    /\ m.blocks = r.blocks /\ m.at = r.at + off
    /\ n2 = Rest(m) /\ off + n2 = n /\ w = UnreadFrom(m) /\ Sums(v, w, n2)
    /\ off \in Nat /\ n2 \in Nat /\ len \in Nat
    /\ v[n2] = t[n] - len
    /\ \A i \in 1 .. n2 : /\ v[i - 1] \in Nat /\ t[off + i - 1] \in Nat
                          /\ len + v[i - 1] = t[off + i - 1] + TakenFrom(off + i, k, j)
                          /\ w[i] = u[off + i] - TakenFrom(off + i, k, j)
    /\ \A b \in m.at .. Len(r.blocks) :
         From(m, b) = From(r, b) + IF b = r.at + k - 1 THEN j ELSE 0

LEMMA SamePlaces ==
  ASSUME NEW r, Shape(r), NEW m, Shape(m), NEW n, NEW t, NEW u, NEW k, NEW j,
         NEW off, NEW n2, NEW v, NEW w, NEW len,
         Behind(m, r, n, t, u, k, j, off, n2, v, w, len)
  PROVE  /\ Len(Ahead(m)) = Len(Ahead(r)) - len
         /\ \A x \in 1 .. Len(Ahead(m)) : Ahead(m)[x] = Ahead(r)[len + x]
  <1>0. /\ n = Rest(r) /\ u = UnreadFrom(r) /\ Sums(t, u, n)
        /\ k \in 1 .. n /\ j \in 1 .. u[k]
        /\ m.blocks = r.blocks /\ m.at = r.at + off
        /\ n2 = Rest(m) /\ off + n2 = n /\ w = UnreadFrom(m) /\ Sums(v, w, n2)
        /\ off \in Nat /\ n2 \in Nat /\ len \in Nat
        /\ v[n2] = t[n] - len
        /\ \A i \in 1 .. n2 : /\ v[i - 1] \in Nat /\ t[off + i - 1] \in Nat
                              /\ len + v[i - 1] = t[off + i - 1] + TakenFrom(off + i, k, j)
                              /\ w[i] = u[off + i] - TakenFrom(off + i, k, j)
        /\ \A b \in m.at .. Len(r.blocks) :
             From(m, b) = From(r, b) + IF b = r.at + k - 1 THEN j ELSE 0
    BY DEF Behind
  <1> USE <1>0
  <1>1. /\ Len(Ahead(m)) = v[n2]
        /\ \A i \in 1 .. n2 : \A y \in 1 .. w[i] :
             Ahead(m)[v[i - 1] + y] = AheadIn(m, m.at + i - 1)[y]
    BY AheadPlaces, SMTT(20)
  <1>2. /\ Len(Ahead(r)) = t[n]
        /\ \A i \in 1 .. n : \A y \in 1 .. u[i] :
             Ahead(r)[t[i - 1] + y] = AheadIn(r, r.at + i - 1)[y]
    BY AheadPlaces, SMTT(20)
  <1>3. n \in Nat /\ u \in [1 .. n -> Nat] /\ w \in [1 .. n2 -> Nat]
    BY RestType, ZenonT(30)
  <1>3a. \A x \in 1 .. v[n2] : \E i \in 1 .. n2 : \E y \in 1 .. w[i] : x = v[i - 1] + y
    <2>1. n2 \in Nat /\ w \in [1 .. n2 -> Nat] /\ Sums(v, w, n2)
      BY <1>3
    <2>2. QED
      BY ONLY <2>1, SumsCover
  <1>4. ASSUME NEW x \in 1 .. Len(Ahead(m))
        PROVE  Ahead(m)[x] = Ahead(r)[len + x]
    <2>1. \E i \in 1 .. n2 : \E y \in 1 .. w[i] : x = v[i - 1] + y
      <3>1. x \in 1 .. v[n2]
        BY <1>1
      <3>2. w \in [1 .. n2 -> Nat]
        BY <1>3
      <3>3. QED
        BY ONLY <3>1, <3>2, <1>3a, Zenon
    <2>2. PICK i \in 1 .. n2 : \E y \in 1 .. w[i] : x = v[i - 1] + y
      BY <2>1
    <2>3. w[i] \in Nat
      BY <1>3
    <2>4. PICK y \in Nat : y \in 1 .. w[i] /\ x = v[i - 1] + y
      BY <2>2, <2>3
    <2>5. PICK c \in 1 .. n : c = off + i /\ c - 1 = off + i - 1
      <3>1. off + i \in 1 .. n /\ off + i - 1 = off + i - 1
        OBVIOUS
      <3>2. QED
        BY <3>1
    <2>6. PICK d \in Nat, q \in Nat, e \in Nat, z \in Nat, h \in Nat :
            /\ d = TakenFrom(c, k, j) /\ q = u[c] /\ e = t[c - 1] /\ z = v[i - 1] /\ h = w[i]
            /\ h = q - d /\ len + z = e + d
      <3>1. u[c] \in Nat /\ u[k] \in Nat
        BY <1>3
      <3>2. TakenFrom(c, k, j) \in Nat
        BY <3>1 DEF TakenFrom
      <3>3. /\ v[i - 1] \in Nat /\ t[c - 1] \in Nat
            /\ len + v[i - 1] = t[c - 1] + TakenFrom(c, k, j)
            /\ w[i] = u[c] - TakenFrom(c, k, j)
        BY <2>5
      <3>4. QED
        BY ONLY <2>3, <3>1, <3>2, <3>3
    <2>7. h = q - d /\ len + z = e + d /\ y \in 1 .. h /\ x = z + y
      BY <2>4, <2>6
    <2>8. /\ d + y \in 1 .. q /\ y \in 1 .. q - d /\ len + x = e + (d + y)
      BY ONLY <2>7, h \in Nat, q \in Nat, d \in Nat, e \in Nat, z \in Nat, y \in Nat, len \in Nat
    <2>9. Ahead(m)[x] = AheadIn(m, m.at + i - 1)[y]
      BY <1>1, <2>4
    <2>10. Ahead(r)[e + (d + y)] = AheadIn(r, r.at + c - 1)[d + y]
      BY <1>2, <2>6, <2>8
    <2>11. PICK b : /\ b = r.at + c - 1 /\ b = m.at + i - 1
                    /\ b \in m.at .. Len(r.blocks) /\ b \in 1 .. Len(r.blocks)
                    /\ (b = r.at + k - 1 <=> c = k)
                    /\ b >= r.at
      <3>1. PICK a \in Nat, g \in Nat : a = r.at /\ g = Len(r.blocks) /\ a # 0
        BY RestType
      <3>2. r.at + c - 1 \in r.at .. Len(r.blocks)
        BY RestType
      <3>3. m.at = a + off
        BY <3>1
      <3>4. a + c - 1 \in a .. g
        BY <3>1, <3>2
      <3>5. /\ a + c - 1 = (a + off) + i - 1 /\ a + c - 1 \in a + off .. g
            /\ a + c - 1 \in 1 .. g /\ (a + c - 1 = a + k - 1 <=> c = k) /\ a + c - 1 >= a
        <4>1. c = off + i /\ c \in Nat /\ i \in Nat /\ i >= 1 /\ k \in Nat
          BY <1>3, <2>5
        <4>2. a + c - 1 \in a .. g /\ a # 0
          BY <3>1, <3>4
        <4>3. QED
          BY ONLY <4>1, <4>2, a \in Nat, g \in Nat, off \in Nat
      <3>6. QED
        BY <3>1, <3>3, <3>5, Zenon
    <2>12. From(m, b) = From(r, b) + d
      BY <2>6, <2>11 DEF TakenFrom
    <2>13. q = UnreadIn(r, b)
      BY <2>6, <2>11 DEF UnreadFrom
    <2>14. PICK f \in Nat, g \in Nat, o \in Nat :
             /\ f = From(r, b) /\ g = From(m, b) /\ o = Len(r.blocks[b].data)
             /\ g = f + d /\ q = o - f
      <3>1. /\ From(r, b) \in Nat /\ Len(r.blocks[b].data) \in Nat
            /\ UnreadIn(r, b) = Len(r.blocks[b].data) - From(r, b)
        BY <2>11, UnreadType, BlockType
      <3>2. PICK f \in Nat : f = From(r, b)
        BY <3>1
      <3>3. f + d \in Nat
        OBVIOUS
      <3>4. QED
        BY <2>12, <2>13, <3>1, <3>2, <3>3, ZenonT(30)
    <2>15. g = f + d /\ q = o - f
      BY ONLY <2>14
    <2>16. g + y = f + (d + y) /\ y \in 1 .. o - g /\ d + y \in 1 .. o - f
      BY ONLY <2>8, <2>15, g \in Nat, f \in Nat, d \in Nat, o \in Nat, q \in Nat, y \in Nat
    <2>17. AheadIn(m, b)[y] =
             [block |-> b, end |-> g + y, byte |-> r.blocks[b].data[g + y]]
      BY <2>14, <2>16 DEF AheadIn
    <2>18. AheadIn(r, b)[d + y] =
             [block |-> b, end |-> f + (d + y), byte |-> r.blocks[b].data[f + (d + y)]]
      BY <2>14, <2>16 DEF AheadIn
    <2>19. AheadIn(m, b)[y] = AheadIn(r, b)[d + y]
      BY <2>16, <2>17, <2>18, Zenon
    <2>20. Ahead(m)[x] = AheadIn(m, b)[y] /\ Ahead(r)[len + x] = AheadIn(r, b)[d + y]
      BY <2>8, <2>9, <2>10, <2>11, Zenon
    <2>21. QED
      BY <2>19, <2>20, Zenon
  <1>5. QED
    BY <1>1, <1>2, <1>4

\* What follows the j-th unread byte of the k-th block.
LEMMA MovedAhead ==
  ASSUME NEW r, Shape(r), NEW t, Sums(t, UnreadFrom(r), Rest(r)),
         NEW k \in 1 .. Rest(r), NEW j \in 1 .. UnreadFrom(r)[k],
         NEW m, Moved(r, m, k, j)
  PROVE  /\ Len(Ahead(m)) = Len(Ahead(r)) - (t[k - 1] + j)
         /\ \A x \in 1 .. Len(Ahead(m)) : Ahead(m)[x] = Ahead(r)[t[k - 1] + j + x]
  <1>1. /\ Shape(m) /\ m.blocks = r.blocks
        /\ m.at \in {r.at + k - 1, r.at + k}
        /\ m.at = r.at + k => j = UnreadFrom(r)[k]
        /\ \A b \in m.at .. Len(r.blocks) :
             From(m, b) = From(r, b) + IF b = r.at + k - 1 THEN j ELSE 0
        /\ \A b \in 1 .. Len(r.blocks) :
             UnreadIn(m, b) = IF b < r.at + k - 1 THEN 0
                              ELSE IF b = r.at + k - 1 THEN UnreadIn(r, b) - j
                              ELSE UnreadIn(r, b)
    BY MovedShape
  <1>2. PICK n \in Nat, u \in [1 .. Rest(r) -> Nat] :
          n = Rest(r) /\ u = UnreadFrom(r) /\ Sums(t, u, n) /\ u \in [1 .. n -> Nat]
    BY RestType
  <1>3. PICK len \in Nat : len = t[k - 1] + j
    <2>1. \A i \in 0 .. n : t[i] \in Nat
      BY <1>2, SumsGrow
    <2>2. t[k - 1] \in Nat /\ j \in Nat
      BY <1>2, <2>1
    <2>3. QED
      BY <2>2
  <1>4. PICK off \in Nat : /\ off = m.at - r.at /\ off \in {k - 1, k} /\ off <= n
                           /\ (off = k => j = u[k]) /\ m.at = r.at + off /\ m.at \in Nat
    <2>1. PICK a \in Nat, c \in Nat : a = r.at /\ c = m.at
      BY <1>1, RestType
    <2>2. PICK kk \in Nat : kk = k /\ kk \in 1 .. n
      BY <1>2
    <2>3. c \in {a + kk - 1, a + kk}
      BY <1>1, <2>1, <2>2
    <2>4. /\ c - a \in Nat /\ c - a \in {kk - 1, kk} /\ c - a <= n
          /\ (c - a = kk => c = a + kk) /\ c = a + (c - a)
      BY ONLY <2>2, <2>3, a \in Nat, c \in Nat, kk \in Nat, n \in Nat
    <2>5. c = a + kk => j = u[k]
      BY <1>1, <1>2, <2>1, <2>2
    <2>6. QED
      BY <2>1, <2>2, <2>4, <2>5
  <1>5. PICK n2 \in Nat, w \in [1 .. Rest(m) -> Nat] :
                             /\ n2 = Rest(m) /\ w = UnreadFrom(m) /\ n2 = n - off
                             /\ off + n2 = n /\ w \in [1 .. n2 -> Nat]
    <2>1. Rest(m) = n - off
      <3>1. PICK a \in Nat, g \in Nat : a = r.at /\ g = Len(r.blocks)
        BY RestType
      <3>2. n = g - a + 1 /\ Rest(m) = g - (a + off) + 1
        BY <1>1, <1>2, <1>4, <3>1 DEF Rest
      <3>3. QED
        BY ONLY <3>2, a \in Nat, g \in Nat, off \in Nat, n \in Nat
    <2>2. Rest(m) \in Nat /\ UnreadFrom(m) \in [1 .. Rest(m) -> Nat]
      BY <1>1, RestType
    <2>3. QED
      BY <2>1, <2>2
  <1>6. ASSUME NEW i \in 1 .. n2
        PROVE  w[i] = u[off + i] - TakenFrom(off + i, k, j)
    <2>0. PICK a \in Nat, g \in Nat, ii \in Nat, kk \in Nat :
            /\ a = r.at /\ g = Len(r.blocks) /\ ii = i /\ kk = k /\ a # 0
            /\ ii \in 1 .. n2 /\ kk \in 1 .. n /\ n = g - a + 1
      <3>1. r.at \in Nat \ {0} /\ Len(r.blocks) \in Nat
        BY RestType
      <3>2. n = Len(r.blocks) - r.at + 1 /\ k \in 1 .. n
        BY <1>2 DEF Rest
      <3>3. QED
        BY <3>1, <3>2
    <2>00. off \in {kk - 1, kk} /\ off + n2 = n /\ m.at = a + off
      BY <1>4, <1>5, <2>0
    <2>000. /\ off + ii \in 1 .. n /\ (a + off) + ii - 1 = a + (off + ii) - 1
            /\ off + ii >= kk /\ a + (off + ii) - 1 \in 1 .. g /\ a + (off + ii) - 1 \in Nat
            /\ (a + (off + ii) - 1 = a + kk - 1 <=> off + ii = kk)
            /\ ~ (a + (off + ii) - 1 < a + kk - 1)
      <3>1. /\ ii \in 1 .. n2 /\ kk \in 1 .. n /\ n = g - a + 1 /\ a # 0
            /\ off \in {kk - 1, kk} /\ off + n2 = n
        BY <2>0, <2>00
      <3>2. QED
        BY ONLY <3>1, a \in Nat, g \in Nat, ii \in Nat, kk \in Nat, off \in Nat, n \in Nat, n2 \in Nat
    <2>1. /\ off + i \in 1 .. n /\ m.at + i - 1 = r.at + (off + i) - 1
          /\ off + i >= k
      BY <2>0, <2>00, <2>000, Zenon
    <2>2. PICK b : /\ b = r.at + (off + i) - 1 /\ b \in 1 .. Len(r.blocks) /\ b \in Nat
                   /\ (b = r.at + k - 1 <=> off + i = k) /\ ~ (b < r.at + k - 1)
      BY <2>0, <2>000, Zenon
    <2>3. w[i] = UnreadIn(m, b)
      BY <1>5, <2>1, <2>2 DEF UnreadFrom
    <2>4. u[off + i] = UnreadIn(r, b) /\ UnreadIn(r, b) \in Nat
      BY <1>2, <2>1, <2>2, UnreadType DEF UnreadFrom
    <2>5. QED
      BY <1>1, <2>2, <2>3, <2>4 DEF TakenFrom
  <1>7. PICK v : /\ Sums(v, w, n2) /\ v[n2] = t[n] - len
                 /\ \A i \in 1 .. n2 :
                      /\ v[i - 1] \in Nat /\ t[off + i - 1] \in Nat
                      /\ len + v[i - 1] = t[off + i - 1] + TakenFrom(off + i, k, j)
    <2>1. Lasting(w, u, n, t, off, k, j, len)
      <3>1. k \in 1 .. n /\ j \in 1 .. u[k] /\ off \in {k - 1, k} /\ (off = k => j = u[k])
        BY <1>2, <1>4
      <3>2. w \in [1 .. n - off -> Nat] /\ \A i \in 1 .. n - off : w[i] = u[off + i] - TakenFrom(off + i, k, j)
        BY <1>5, <1>6
      <3>3. u \in [1 .. n -> Nat] /\ Sums(t, u, n) /\ len = t[k - 1] + j
        BY <1>2, <1>3
      <3>4. QED
        BY <3>1, <3>2, <3>3, Zenon DEF Lasting
    <2>4. PICK v : LeftSums(v, w, n, t, off, k, j, len)
      BY <2>1, SumsSuffix
    <2>5. n - off = n2
      BY <1>5
    <2>6. QED
      BY <2>4, <2>5, Zenon DEF LeftSums
  <1>8. k \in 1 .. n /\ j \in 1 .. u[k]
    BY <1>2
  <1>9. /\ Len(Ahead(m)) = Len(Ahead(r)) - len
        /\ \A x \in 1 .. Len(Ahead(m)) : Ahead(m)[x] = Ahead(r)[len + x]
    <2>1. Behind(m, r, n, t, u, k, j, off, n2, v, w, len)
      <3>1. /\ n = Rest(r) /\ u = UnreadFrom(r) /\ Sums(t, u, n) /\ k \in 1 .. n /\ j \in 1 .. u[k]
            /\ m.blocks = r.blocks /\ m.at = r.at + off
            /\ n2 = Rest(m) /\ off + n2 = n /\ w = UnreadFrom(m) /\ Sums(v, w, n2)
            /\ v[n2] = t[n] - len
        BY <1>1, <1>2, <1>4, <1>5, <1>7, <1>8
      <3>2. \A i \in 1 .. n2 : /\ v[i - 1] \in Nat /\ t[off + i - 1] \in Nat
                                /\ len + v[i - 1] = t[off + i - 1] + TakenFrom(off + i, k, j)
                                /\ w[i] = u[off + i] - TakenFrom(off + i, k, j)
        BY <1>6, <1>7
      <3>3. \A b \in m.at .. Len(r.blocks) :
              From(m, b) = From(r, b) + IF b = r.at + k - 1 THEN j ELSE 0
        BY <1>1
      <3>4. QED
        BY <3>1, <3>2, <3>3, Zenon DEF Behind
    <2>2. QED
      BY <1>1, <2>1, SamePlaces
  <1>10. QED
    BY <1>3, <1>9

-----------------------------------------------------------------------------
(* What the methods keep.                                                  *)

\* Bytes are written to the last block, and to the blocks before it they
\* were; readLeft counts what follows the cursor.
ReaderOK(r) ==
    /\ Shape(r)
    /\ \A b \in 1 .. Len(r.blocks) : Len(r.blocks[b].data) <= r.blocks[b].capacity
    /\ r.writeAt \in {Len(r.blocks), Len(r.blocks) + 1}
    /\ \A b \in 1 .. Len(r.blocks) : b < r.writeAt => r.blocks[b].data # <<>>
    /\ r.readLeft = Len(Ahead(r))
    /\ CursorInBounds(r)

\* What block b has been charged beyond its unread bytes.
Balance(r, b) == r.blocks[b].refs - UnreadIn(r, b)

\* The blocks of m hold what those of r do, at the same cursor.
SamePlace(m, r) ==
    /\ m \in Readers /\ m.at = r.at /\ m.offset = r.offset
    /\ Len(m.blocks) = Len(r.blocks)
    /\ \A b \in 1 .. Len(r.blocks) :
         m.blocks[b].data = r.blocks[b].data /\ m.blocks[b].capacity = r.blocks[b].capacity

LEMMA SamePlaceAhead ==
  ASSUME NEW r, Shape(r), NEW m, SamePlace(m, r)
  PROVE  /\ Shape(m) /\ Ahead(m) = Ahead(r)
         /\ \A b \in 1 .. Len(r.blocks) : UnreadIn(m, b) = UnreadIn(r, b)
  <1>1. /\ m \in Readers /\ m.at = r.at /\ m.offset = r.offset
        /\ Len(m.blocks) = Len(r.blocks)
        /\ \A b \in 1 .. Len(r.blocks) : m.blocks[b].data = r.blocks[b].data
    BY DEF SamePlace
  <1>2. /\ Len(r.blocks) \in Nat /\ r.at \in Nat \ {0} /\ r.at <= Len(r.blocks) + 1
        /\ (r.at <= Len(r.blocks) => r.offset <= Len(r.blocks[r.at].data))
    BY DEF Shape, Readers
  <1>3. Shape(m)
    BY <1>1, <1>2 DEF Shape
  <1>4. ASSUME NEW b \in 1 .. Len(r.blocks)
        PROVE  /\ From(m, b) = From(r, b) /\ UnreadIn(m, b) = UnreadIn(r, b)
               /\ AheadIn(m, b) = AheadIn(r, b)
    <2>1. From(m, b) = From(r, b) /\ m.blocks[b].data = r.blocks[b].data
      BY <1>1 DEF From
    <2>2. UnreadIn(m, b) = UnreadIn(r, b)
      BY <1>1, <2>1 DEF UnreadIn
    <2>3. AheadIn(m, b) = AheadIn(r, b)
      BY <2>1, Zenon DEF AheadIn
    <2>4. QED
      BY <2>1, <2>2, <2>3
  <1>5. \A k \in 1 .. Len(r.blocks) - r.at + 1 : r.at + k - 1 \in 1 .. Len(r.blocks)
    BY <1>2
  <1>6. [k \in 1 .. Len(m.blocks) - m.at + 1 |-> AheadIn(m, m.at + k - 1)] =
        [k \in 1 .. Len(r.blocks) - r.at + 1 |-> AheadIn(r, r.at + k - 1)]
    BY <1>1, <1>4, <1>5
  <1>7. Ahead(m) = Ahead(r)
    BY <1>6 DEF Ahead
  <1>8. QED
    BY <1>3, <1>4, <1>7

LEMMA AheadType ==
  ASSUME NEW r, Shape(r)
  PROVE  /\ Ahead(r) \in Seq(Place) /\ Len(Ahead(r)) \in Nat
         /\ \E t : Sums(t, UnreadFrom(r), Rest(r))
  <1>1. Rest(r) \in Nat /\ UnreadFrom(r) \in [1 .. Rest(r) -> Nat]
    BY RestType
  <1>2. PICK t : Sums(t, UnreadFrom(r), Rest(r))
    BY <1>1, SumsExist
  <1>3. Ahead(r) \in Seq(Place)
    BY <1>2, AheadPlaces
  <1>4. QED
    BY <1>2, <1>3

\* Something is unread: the cursor is within a block.
LEMMA InBounds ==
  ASSUME NEW r, Shape(r), r.writeAt \in {Len(r.blocks), Len(r.blocks) + 1},
         \A b \in 1 .. Len(r.blocks) : b < r.writeAt => r.blocks[b].data # <<>>,
         r.at <= Len(r.blocks) => r.offset = 0 \/ r.offset < Len(r.blocks[r.at].data),
         r.readLeft = Len(Ahead(r))
  PROVE  CursorInBounds(r)
  <1>1. SUFFICES ASSUME r.readLeft > 0
                 PROVE  /\ r.at <= Len(r.blocks)
                        /\ r.offset < Len(r.blocks[r.at].data)
    BY DEF CursorInBounds
  <1>2. PICK t : Sums(t, UnreadFrom(r), Rest(r))
    BY AheadType
  <1>3. 1 \in 1 .. Len(Ahead(r))
    BY <1>1, AheadType
  <1>4. PICK k \in 1 .. Rest(r) : \E j \in 1 .. UnreadFrom(r)[k] : j = j
    BY <1>2, <1>3, PlaceRead
  <1>5. PICK b : b = r.at + k - 1 /\ b \in r.at .. Len(r.blocks) /\ b \in 1 .. Len(r.blocks)
    BY RestType
  <1>6. UnreadFrom(r)[k] = UnreadIn(r, b)
    BY <1>5 DEF UnreadFrom
  <1>7. UnreadIn(r, b) > 0
    <2>1. UnreadIn(r, b) \in Nat
      BY <1>5, UnreadType
    <2>2. QED
      BY <1>4, <1>6, <2>1
  <1>8. r.at \in 1 .. Len(r.blocks) /\ r.at <= b
    BY <1>5, RestType
  <1>9. CASE b = r.at
    <2>1. /\ UnreadIn(r, b) = Len(r.blocks[b].data) - From(r, b)
          /\ Len(r.blocks[b].data) \in Nat /\ From(r, b) \in Nat /\ r.offset \in Nat
      BY <1>5, <1>8, <1>9, UnreadType, BlockType
    <2>2. From(r, b) = r.offset
      BY <1>9 DEF From
    <2>3. QED
      BY <1>7, <1>8, <1>9, <2>1, <2>2
  <1>10. CASE b # r.at
    <2>1. r.at < b /\ b <= Len(r.blocks) /\ r.at \in Nat /\ Len(r.blocks) \in Nat
      BY <1>5, <1>8, <1>10, RestType
    <2>2. r.at < r.writeAt
      <3>1. PICK a \in Nat, g \in Nat : a = r.at /\ g = Len(r.blocks) /\ a < g
        <4>1. b \in Nat
          BY <1>5
        <4>2. QED
          BY <2>1, <4>1
      <3>2. a < g /\ a < g + 1
        BY ONLY <3>1, a \in Nat, g \in Nat
      <3>3. r.writeAt = g \/ r.writeAt = g + 1
        BY <3>1
      <3>4. QED
        BY <3>1, <3>2, <3>3, Zenon
    <2>3. r.blocks[r.at].data # <<>> /\ r.blocks[r.at].data \in Seq(Byte)
      BY <1>8, <2>2, BlockType
    <2>4. Len(r.blocks[r.at].data) > 0
      BY <2>3
    <2>5. QED
      BY <1>8, <2>4
  <1>11. QED
    BY <1>9, <1>10

-----------------------------------------------------------------------------
(* Tokens.                                                                 *)

Sizes(b, token) == [i \in DOMAIN token |-> IF token[i].block = b THEN token[i].size ELSE 0]

LEMMA HeldType ==
  ASSUME NEW token \in Seq(Slice), NEW b
  PROVE  /\ HeldIn(b, token) \in Nat /\ HeldIn(b, token) = Total(Sizes(b, token))
         /\ Sizes(b, token) \in Seq(Nat) /\ Len(Sizes(b, token)) = Len(token)
         /\ Len(token) \in Nat
         /\ \A i \in 1 .. Len(token) :
              Sizes(b, token)[i] = IF token[i].block = b THEN token[i].size ELSE 0
  <1>1. /\ Len(token) \in Nat /\ DOMAIN token = 1 .. Len(token)
        /\ \A i \in 1 .. Len(token) : token[i] \in Slice
    BY SeqParts
  <1>2. \A i \in 1 .. Len(token) : token[i].size \in Nat
    BY <1>1 DEF Slice
  <1>3. Sizes(b, token) \in [1 .. Len(token) -> Nat]
    BY <1>1, <1>2 DEF Sizes
  <1>4. Sizes(b, token) \in Seq(Nat) /\ Len(Sizes(b, token)) = Len(token)
    BY <1>1, <1>3, SeqMade
  <1>5. Total(Sizes(b, token)) \in Nat
    BY <1>4, TotalType
  <1>6. HeldIn(b, token) = Total(Sizes(b, token))
    BY DEF HeldIn, Sizes
  <1>7. QED
    BY <1>1, <1>4, <1>5, <1>6 DEF Sizes

LEMMA HeldEmpty ==
  ASSUME NEW b
  PROVE  HeldIn(b, <<>>) = 0
  <1>1. [i \in DOMAIN <<>> |-> IF <<>>[i].block = b THEN <<>>[i].size ELSE 0] = <<>>
    OBVIOUS
  <1>2. QED
    BY <1>1, TotalEmpty DEF HeldIn

LEMMA HeldJoin ==
  ASSUME NEW token \in Seq(Slice), NEW other \in Seq(Slice), NEW b
  PROVE  /\ token \o other \in Seq(Slice)
         /\ HeldIn(b, token \o other) = HeldIn(b, token) + HeldIn(b, other)
  <1>1. PICK s \in Seq(Nat), u \in Seq(Nat), m \in Nat, n \in Nat :
          /\ s = Sizes(b, token) /\ u = Sizes(b, other)
          /\ m = Len(token) /\ n = Len(other) /\ Len(s) = m /\ Len(u) = n
    <2>1. Sizes(b, token) \in Seq(Nat) /\ Len(Sizes(b, token)) = Len(token) /\ Len(token) \in Nat
      BY HeldType
    <2>2. Sizes(b, other) \in Seq(Nat) /\ Len(Sizes(b, other)) = Len(other) /\ Len(other) \in Nat
      BY HeldType
    <2>3. QED
      BY <2>1, <2>2, Zenon
  <1>2. PICK join \in Seq(Slice) : join = token \o other
    BY ConcatProperties
  <1>3. /\ Len(join) = m + n
        /\ \A i \in 1 .. m : join[i] = token[i]
        /\ \A i \in 1 .. n : join[m + i] = other[i]
    BY <1>1, <1>2, ConcatProperties
  <1>4. PICK w \in Seq(Nat) : w = Sizes(b, join) /\ Len(w) = m + n
    BY <1>3, HeldType
  <1>5. PICK x \in Seq(Nat) : /\ x = s \o u /\ Len(x) = m + n
                              /\ \A i \in 1 .. m : x[i] = s[i]
                              /\ \A i \in 1 .. n : x[m + i] = u[i]
    <2>1. PICK x \in Seq(Nat) : x = s \o u
      BY ConcatProperties
    <2>2. /\ Len(x) = Len(s) + Len(u)
          /\ \A i \in 1 .. Len(s) : x[i] = s[i]
          /\ \A i \in 1 .. Len(u) : x[Len(s) + i] = u[i]
      BY <2>1, ConcatProperties
    <2>3. Len(s) = m /\ Len(u) = n
      BY <1>1
    <2>4. QED
      BY <2>1, <2>2, <2>3, Zenon
  <1>6. ASSUME NEW i \in 1 .. m + n
        PROVE  w[i] = x[i]
    <2>1. w[i] = IF join[i].block = b THEN join[i].size ELSE 0
      <3>1. \A y \in 1 .. Len(join) :
              Sizes(b, join)[y] = IF join[y].block = b THEN join[y].size ELSE 0
        BY HeldType
      <3>2. i \in 1 .. Len(join) /\ w = Sizes(b, join)
        BY <1>3, <1>4
      <3>3. QED
        BY <3>1, <3>2, Zenon
    <2>2. CASE i \in 1 .. m
      <3>1. s[i] = IF token[i].block = b THEN token[i].size ELSE 0
        BY <1>1, <2>2, HeldType
      <3>2. join[i] = token[i] /\ x[i] = s[i]
        BY <1>3, <1>5, <2>2
      <3>3. QED
        BY <2>1, <3>1, <3>2, Zenon
    <2>3. CASE i \notin 1 .. m
      <3>1. PICK k \in 1 .. n : i = m + k
        <4>1. i - m \in 1 .. n /\ i = m + (i - m)
          BY <2>3
        <4>2. QED
          BY <4>1
      <3>2. u[k] = IF other[k].block = b THEN other[k].size ELSE 0
        BY <1>1, HeldType
      <3>3. join[i] = other[k] /\ x[i] = u[k]
        BY <1>3, <1>5, <3>1
      <3>4. QED
        BY <2>1, <3>2, <3>3, Zenon
    <2>4. QED
      BY <2>2, <2>3
  <1>7. w = x
    BY <1>4, <1>5, <1>6, SeqEqual
  <1>8. Total(x) = Total(s) + Total(u)
    BY <1>5, TotalJoin
  <1>9. HeldIn(b, join) = Total(w) /\ HeldIn(b, token) = Total(s) /\ HeldIn(b, other) = Total(u)
    BY <1>1, <1>4, HeldType
  <1>10. QED
    BY <1>2, <1>7, <1>8, <1>9

\* No byte of a block behind the first g belongs to the token.
Beyond(g, token) == \A b \in Nat : b > g => HeldIn(b, token) = 0

\* The slices of what lies before the j-th unread byte of the k-th block.
LEMMA SlicesHeld ==
  ASSUME NEW r, Shape(r), NEW k \in 1 .. Rest(r), NEW j \in 1 .. UnreadFrom(r)[k],
         NEW p, p.block = r.at + k - 1, p.end = From(r, r.at + k - 1) + j
  PROVE  /\ SlicesTo(r, p) \in Seq(Slice) /\ Beyond(Len(r.blocks), SlicesTo(r, p))
         /\ \A b \in 1 .. Len(r.blocks) :
              HeldIn(b, SlicesTo(r, p)) = IF b < r.at + k - 1 THEN UnreadIn(r, b)
                                          ELSE IF b = r.at + k - 1 THEN j ELSE 0
  <1>1. PICK a \in Nat, g \in Nat, kk \in Nat, c \in Nat :
          /\ a = r.at /\ g = Len(r.blocks) /\ kk = k /\ c = a + kk - 1
          /\ a # 0 /\ kk # 0 /\ c \in a .. g
    <2>1. r.at \in Nat \ {0} /\ Len(r.blocks) \in Nat /\ r.at + k - 1 \in r.at .. Len(r.blocks)
      BY RestType
    <2>2. k \in Nat /\ k # 0 /\ r.at + k - 1 \in Nat
      BY <2>1, RestType, SMTT(20)
    <2>3. QED
      BY <2>1, <2>2
  <1>2. UnreadFrom(r)[k] = UnreadIn(r, c)
    BY <1>1 DEF UnreadFrom
  <1>3. \A i \in 1 .. kk : a + i - 1 \in 1 .. g /\ a + i - 1 >= a /\ (a + i - 1 = c <=> i = kk)
                           /\ a + i - 1 \in Nat
    <2>1. a # 0 /\ kk # 0 /\ c \in a .. g /\ c = a + kk - 1
      BY <1>1
    <2>2. QED
      BY ONLY <2>1, a \in Nat, g \in Nat, kk \in Nat, c \in Nat
  <1>4. j \in Nat /\ j <= UnreadIn(r, c) /\ UnreadIn(r, c) \in Nat
    <2>1. c \in 1 .. Len(r.blocks)
      BY <1>1
    <2>2. UnreadIn(r, c) \in Nat
      BY <2>1, UnreadType
    <2>3. QED
      BY <1>2, <2>2
  <1> DEFINE size(i) == IF i = kk THEN j ELSE UnreadIn(r, a + i - 1)
  <1>5. ASSUME NEW i \in 1 .. kk
        PROVE  /\ (IF a + i - 1 = p.block THEN p.end ELSE Len(r.blocks[a + i - 1].data))
                    - From(r, a + i - 1) = size(i)
               /\ size(i) \in Nat /\ From(r, a + i - 1) \in Nat
    <2>1. PICK b \in 1 .. g : b = a + i - 1 /\ b >= a /\ (b = c <=> i = kk)
      BY <1>3
    <2>2. /\ UnreadIn(r, b) = Len(r.blocks[b].data) - From(r, b)
          /\ UnreadIn(r, b) \in Nat /\ From(r, b) \in Nat
      BY <1>1, <2>1, UnreadType
    <2>3. CASE i = kk
      <3>1. p.block = b /\ p.end = From(r, b) + j
        BY <1>1, <2>1, <2>3
      <3>2. From(r, b) + j - From(r, b) = j
        BY <1>4, <2>2
      <3>3. QED
        BY <1>4, <2>1, <2>2, <2>3, <3>1, <3>2
    <2>4. CASE i # kk
      <3>1. p.block # b
        BY <1>1, <2>1, <2>4
      <3>2. QED
        BY <2>1, <2>2, <2>4, <3>1
    <2>5. QED
      BY <2>3, <2>4
  <1>6. p.block - r.at + 1 = kk
    BY <1>1
  <1>7. SlicesTo(r, p) = [i \in 1 .. kk |-> [block |-> a + i - 1, offset |-> From(r, a + i - 1),
                                            size |-> size(i)]]
    BY <1>1, <1>5, <1>6 DEF SlicesTo
  <1> HIDE DEF size
  <1>8. PICK token \in Seq(Slice) :
          /\ token = SlicesTo(r, p) /\ Len(token) = kk
          /\ \A i \in 1 .. kk : token[i].block = a + i - 1 /\ token[i].size = size(i)
    <2>1. SlicesTo(r, p) \in [1 .. kk -> Slice]
      BY <1>3, <1>5, <1>7 DEF Slice
    <2>2. SlicesTo(r, p) \in Seq(Slice) /\ Len(SlicesTo(r, p)) = kk
      BY <2>1, SeqMade
    <2>3. \A i \in 1 .. kk : /\ SlicesTo(r, p)[i].block = a + i - 1
                              /\ SlicesTo(r, p)[i].size = size(i)
      BY <1>7
    <2>4. QED
      BY <2>2, <2>3, Zenon
  <1>9. ASSUME NEW b \in 1 .. Len(r.blocks)
        PROVE  HeldIn(b, token) = IF b < c THEN UnreadIn(r, b) ELSE IF b = c THEN j ELSE 0
    <2>1. PICK s \in Seq(Nat) :
            /\ HeldIn(b, token) = Total(s) /\ Len(s) = kk
            /\ \A i \in 1 .. kk : s[i] = IF a + i - 1 = b THEN size(i) ELSE 0
      <3>1. /\ HeldIn(b, token) = Total(Sizes(b, token)) /\ Len(Sizes(b, token)) = kk
            /\ Sizes(b, token) \in Seq(Nat)
            /\ \A i \in 1 .. kk :
                 Sizes(b, token)[i] = IF token[i].block = b THEN token[i].size ELSE 0
        <4>1. /\ HeldIn(b, token) = Total(Sizes(b, token)) /\ Len(Sizes(b, token)) = Len(token)
              /\ Sizes(b, token) \in Seq(Nat)
              /\ \A i \in 1 .. Len(token) :
                   Sizes(b, token)[i] = IF token[i].block = b THEN token[i].size ELSE 0
          BY HeldType
        <4>2. Len(token) = kk
          BY <1>8
        <4>3. QED
          BY <4>1, <4>2, Zenon
      <3>2. \A i \in 1 .. kk : token[i].block = a + i - 1 /\ token[i].size = size(i)
        BY <1>8
      <3>3. \A i \in 1 .. kk :
              Sizes(b, token)[i] = IF a + i - 1 = b THEN size(i) ELSE 0
        BY <3>1, <3>2, Zenon
      <3>4. QED
        BY <3>1, <3>3, Zenon
    <2>2. b \in Nat /\ b \in 1 .. g
      BY <1>1
    <2>3. CASE b < a \/ b > c
      <3>1. \A i \in 1 .. kk : a + i - 1 # b
        BY <1>1, <2>2, <2>3
      <3>2. Total(s) = 0
        BY <2>1, <3>1, TotalNone
      <3>3. b < a => UnreadIn(r, b) = 0
        BY <1>1, UnreadType
      <3>4. (b < a => b < c) /\ (b > c => ~ (b < c) /\ b # c)
        BY <1>1, <2>2
      <3>5. QED
        BY <2>1, <2>3, <3>2, <3>3, <3>4
    <2>4. CASE b >= a /\ b <= c
      <3>1. PICK e \in 1 .. kk : a + e - 1 = b /\ \A i \in 1 .. kk : i # e => a + i - 1 # b
        <4>1. /\ b - a + 1 \in 1 .. kk /\ a + (b - a + 1) - 1 = b
              /\ \A i \in 1 .. kk : i # b - a + 1 => a + i - 1 # b
          <5>1. b >= a /\ b <= c /\ c = a + kk - 1 /\ b \in Nat
            BY <1>1, <2>2, <2>4
          <5>2. QED
            BY ONLY <5>1, a \in Nat, c \in Nat, kk \in Nat
        <4>2. QED
          BY <4>1
      <3>2. Total(s) = s[e]
        <4>1. e \in 1 .. Len(s) /\ \A i \in 1 .. Len(s) : i # e => s[i] = 0
          BY <2>1, <3>1
        <4>2. QED
          BY <4>1, TotalOnly
      <3>3. s[e] = size(e)
        BY <2>1, <3>1
      <3>4. (e = kk <=> b = c) /\ (e # kk => b < c)
        BY <1>1, <2>2, <2>4, <3>1, SMTT(20)
      <3>5. QED
        BY <1>1, <2>1, <2>2, <3>1, <3>2, <3>3, <3>4 DEF size
    <2>5. QED
      BY <1>1, <2>2, <2>3, <2>4
  <1>10. ASSUME NEW b \in Nat, b > g
         PROVE  HeldIn(b, token) = 0
    <2>1. /\ HeldIn(b, token) = Total(Sizes(b, token)) /\ Len(Sizes(b, token)) = Len(token)
          /\ Sizes(b, token) \in Seq(Nat)
          /\ \A i \in 1 .. Len(token) :
               Sizes(b, token)[i] = IF token[i].block = b THEN token[i].size ELSE 0
      BY HeldType
    <2>2. \A i \in 1 .. kk : a + i - 1 # b
      <3>1. \A i \in 1 .. kk : a + i - 1 \in 1 .. g
        BY <1>3
      <3>2. b \notin 1 .. g
        BY ONLY <1>10, b \in Nat, g \in Nat
      <3>3. QED
        BY <3>1, <3>2
    <2>3. \A i \in 1 .. Len(Sizes(b, token)) : Sizes(b, token)[i] = 0
      BY <1>8, <2>1, <2>2, ZenonT(30)
    <2>4. QED
      BY <2>1, <2>3, TotalNone
  <1>11. Beyond(Len(r.blocks), SlicesTo(r, p))
    BY <1>1, <1>8, <1>10 DEF Beyond
  <1>12. QED
    BY <1>1, <1>8, <1>9, <1>11

-----------------------------------------------------------------------------
(* Reading.                                                                *)

\* m is r with len bytes read; nothing else of it changes but what its blocks
\* are referenced by.
Advances(r, m, len) ==
    /\ ReaderOK(m) /\ Len(m.blocks) = Len(r.blocks)
    /\ m.writeAt = r.writeAt /\ m.preferred = r.preferred
    /\ \A b \in 1 .. Len(r.blocks) :
         m.blocks[b].data = r.blocks[b].data /\ m.blocks[b].capacity = r.blocks[b].capacity
    /\ len \in 0 .. r.readLeft /\ m.readLeft = r.readLeft - len
    /\ \A x \in 1 .. m.readLeft : Ahead(m)[x] = Ahead(r)[len + x]

\* What is read stays referenced by the token, what is not read or held is
\* not.
Charges(r, m, token) ==
    /\ token \in Seq(Slice) /\ Beyond(Len(r.blocks), token)
    /\ \A b \in 1 .. Len(r.blocks) : Balance(m, b) = Balance(r, b) + HeldIn(b, token)

LEMMA BalanceType ==
  ASSUME NEW r, Shape(r), NEW b \in 1 .. Len(r.blocks)
  PROVE  Balance(r, b) \in Int /\ r.blocks[b].refs \in Int /\ UnreadIn(r, b) \in Nat
  <1>1. r.blocks[b] \in Block /\ UnreadIn(r, b) \in Nat
    BY BlockType, UnreadType
  <1>2. r.blocks[b].refs \in Int
    BY <1>1 DEF Block
  <1>3. QED
    BY <1>1, <1>2 DEF Balance

LEMMA AdvancesNot ==
  ASSUME NEW r, ReaderOK(r)
  PROVE  Advances(r, r, 0) /\ Charges(r, r, <<>>)
  <1>1. Shape(r) /\ r.readLeft \in Nat
    BY DEF ReaderOK, Shape, Readers
  <1>2. Advances(r, r, 0)
    BY <1>1 DEF Advances
  <1>3. \A b \in 1 .. Len(r.blocks) : Balance(r, b) = Balance(r, b) + HeldIn(b, <<>>)
    BY <1>1, HeldEmpty, BalanceType
  <1>4. Beyond(Len(r.blocks), <<>>)
    BY HeldEmpty DEF Beyond
  <1>5. QED
    BY <1>2, <1>3, <1>4 DEF Charges

LEMMA ReadBytesReads ==
  ASSUME NEW r, ReaderOK(r), NEW len \in 1 .. r.readLeft
  PROVE  /\ ReadBytes(r, len).err = "OK"
         /\ Advances(r, ReadBytes(r, len).reader, len)
         /\ Charges(r, ReadBytes(r, len).reader, ReadBytes(r, len).token)
  <1>1. /\ Shape(r) /\ r.readLeft = Len(Ahead(r)) /\ r.readLeft \in Nat
        /\ \A b \in 1 .. Len(r.blocks) : Len(r.blocks[b].data) <= r.blocks[b].capacity
        /\ r.writeAt \in {Len(r.blocks), Len(r.blocks) + 1}
        /\ \A b \in 1 .. Len(r.blocks) : b < r.writeAt => r.blocks[b].data # <<>>
    BY DEF ReaderOK, Shape, Readers
  <1>2. PICK t : Sums(t, UnreadFrom(r), Rest(r))
    BY <1>1, AheadType
  <1>3. PICK p : p = Ahead(r)[len]
    OBVIOUS
  <1>4. PICK k \in 1 .. Rest(r) : \E j \in 1 .. UnreadFrom(r)[k] :
          len = t[k - 1] + j /\ p.block = r.at + k - 1 /\ p.end = From(r, r.at + k - 1) + j
    BY <1>1, <1>2, <1>3, PlaceRead
  <1>5. PICK j \in 1 .. UnreadFrom(r)[k] :
          len = t[k - 1] + j /\ p.block = r.at + k - 1 /\ p.end = From(r, r.at + k - 1) + j
    BY <1>4
  <1>6. PICK m : m = MovedBehind(r, p)
    OBVIOUS
  <1>7. Moved(r, m, k, j)
    BY <1>5, <1>6 DEF Moved
  <1>8. /\ Shape(m) /\ m.blocks = r.blocks
        /\ m.writeAt = r.writeAt /\ m.readLeft = r.readLeft /\ m.preferred = r.preferred
        /\ m.at \in {r.at + k - 1, r.at + k}
        /\ m.at = r.at + k => m.offset = 0
        /\ m.at = r.at + k - 1 => m.offset < Len(r.blocks[m.at].data)
        /\ \A b \in 1 .. Len(r.blocks) :
             UnreadIn(m, b) = IF b < r.at + k - 1 THEN 0
                              ELSE IF b = r.at + k - 1 THEN UnreadIn(r, b) - j
                              ELSE UnreadIn(r, b)
    BY <1>1, <1>7, MovedShape
  <1>9. /\ Len(Ahead(m)) = Len(Ahead(r)) - len
        /\ \A x \in 1 .. Len(Ahead(m)) : Ahead(m)[x] = Ahead(r)[len + x]
    BY <1>1, <1>2, <1>5, <1>7, MovedAhead
  <1>10. PICK n : n = [m EXCEPT !.readLeft = @ - len]
    OBVIOUS
  <1>11. PICK token : token = SlicesTo(r, p)
    OBVIOUS
  <1>12. ReadBytes(r, len) = [err |-> "OK", token |-> token, reader |-> n]
    BY <1>1, <1>3, <1>6, <1>10, <1>11 DEF ReadBytes
  <1>13. /\ token \in Seq(Slice) /\ Beyond(Len(r.blocks), token)
         /\ \A b \in 1 .. Len(r.blocks) :
              HeldIn(b, token) = IF b < r.at + k - 1 THEN UnreadIn(r, b)
                                 ELSE IF b = r.at + k - 1 THEN j ELSE 0
    BY <1>1, <1>5, <1>11, SlicesHeld
  <1>14. /\ n \in Readers /\ n.blocks = r.blocks /\ n.at = m.at /\ n.offset = m.offset
         /\ n.writeAt = r.writeAt /\ n.preferred = r.preferred
         /\ n.readLeft = r.readLeft - len
    <2>1. r.readLeft - len \in Nat
      BY <1>1
    <2>2. QED
      BY <1>8, <1>10, <2>1 DEF Shape, Readers
  <1>15. /\ Shape(n) /\ Ahead(n) = Ahead(m)
         /\ \A b \in 1 .. Len(r.blocks) : UnreadIn(n, b) = UnreadIn(m, b)
    <2>1. SamePlace(n, m)
      BY <1>8, <1>14 DEF SamePlace
    <2>2. QED
      BY <1>8, <2>1, SamePlaceAhead
  <1>16. n.readLeft = Len(Ahead(n))
    BY <1>1, <1>9, <1>14, <1>15
  <1>17. CursorInBounds(n)
    <2>1. n.at <= Len(n.blocks) => n.offset = 0 \/ n.offset < Len(n.blocks[n.at].data)
      BY <1>8, <1>14
    <2>2. /\ n.writeAt \in {Len(n.blocks), Len(n.blocks) + 1}
          /\ \A b \in 1 .. Len(n.blocks) : b < n.writeAt => n.blocks[b].data # <<>>
      BY <1>1, <1>14
    <2>3. QED
      BY <1>15, <1>16, <2>1, <2>2, InBounds
  <1>18. ReaderOK(n)
    BY <1>1, <1>14, <1>15, <1>16, <1>17 DEF ReaderOK
  <1>19. Advances(r, n, len)
    <2>1. \A x \in 1 .. n.readLeft : Ahead(n)[x] = Ahead(r)[len + x]
      BY <1>9, <1>15, <1>16
    <2>2. len \in 0 .. r.readLeft
      OBVIOUS
    <2>3. QED
      BY <1>14, <1>18, <2>1, <2>2 DEF Advances
  <1>20. Charges(r, n, token)
    <2>1. ASSUME NEW b \in 1 .. Len(r.blocks)
          PROVE  Balance(n, b) = Balance(r, b) + HeldIn(b, token)
      <3>1. PICK c \in Int : c = r.at + k - 1
        BY <1>1, RestType
      <3>2. PICK u \in Nat, f \in Int, jj \in Nat : u = UnreadIn(r, b) /\ f = r.blocks[b].refs /\ jj = j
        <4>1. UnreadIn(r, b) \in Nat /\ r.blocks[b].refs \in Int
          BY <1>1, BalanceType
        <4>2. UnreadFrom(r)[k] \in Nat
          BY <1>1, RestType
        <4>3. QED
          BY <4>1, <4>2
      <3>3. /\ UnreadIn(n, b) = IF b < c THEN 0 ELSE IF b = c THEN u - jj ELSE u
            /\ HeldIn(b, token) = IF b < c THEN u ELSE IF b = c THEN jj ELSE 0
        BY <1>8, <1>13, <1>15, <3>1, <3>2
      <3>4. Balance(n, b) = f - UnreadIn(n, b) /\ Balance(r, b) = f - u
        BY <1>14, <3>2 DEF Balance
      <3>5. QED
        BY ONLY <3>3, <3>4, f \in Int, u \in Nat, jj \in Nat
    <2>2. QED
      BY <1>13, <2>1 DEF Charges
  <1>21. QED
    BY <1>12, <1>19, <1>20

LEMMA AdvancesChain ==
  ASSUME NEW r, ReaderOK(r), NEW m, NEW a, Advances(r, m, a), NEW n, NEW b, Advances(m, n, b)
  PROVE  Advances(r, n, a + b)
  <1>1. /\ r.readLeft \in Nat /\ a \in 0 .. r.readLeft /\ m.readLeft = r.readLeft - a
        /\ b \in 0 .. m.readLeft /\ n.readLeft = m.readLeft - b
    BY DEF Advances, ReaderOK, Shape, Readers
  <1>2. PICK l \in Nat, x \in Nat, y \in Nat, k \in Nat, j \in Nat :
          /\ l = r.readLeft /\ x = a /\ y = b /\ k = m.readLeft /\ j = n.readLeft
          /\ k = l - x /\ j = k - y /\ x <= l /\ y <= k
    <2>1. a \in Nat /\ m.readLeft \in Nat /\ a <= r.readLeft
      BY <1>1
    <2>2. b \in Nat /\ n.readLeft \in Nat /\ b <= m.readLeft
      BY <1>1, <2>1
    <2>3. QED
      BY <1>1, <2>1, <2>2
  <1>3. k = l - x /\ j = k - y /\ x <= l /\ y <= k
    BY ONLY <1>2
  <1>4. x + y \in 0 .. l /\ j = l - (x + y)
    BY ONLY <1>3, l \in Nat, x \in Nat, y \in Nat, k \in Nat, j \in Nat
  <1>5. ASSUME NEW i \in 1 .. j
        PROVE  Ahead(n)[i] = Ahead(r)[(x + y) + i]
    <2>1. Ahead(n)[i] = Ahead(m)[y + i]
      BY <1>2 DEF Advances
    <2>2. PICK e \in 1 .. k : e = y + i /\ x + e = (x + y) + i
      <3>1. y + i \in 1 .. k /\ x + (y + i) = (x + y) + i
        BY ONLY <1>3, i \in 1 .. j, l \in Nat, x \in Nat, y \in Nat, k \in Nat, j \in Nat
      <3>2. QED
        BY <3>1
    <2>3. Ahead(m)[e] = Ahead(r)[x + e]
      BY <1>2 DEF Advances
    <2>4. QED
      BY <2>1, <2>2, <2>3, Zenon
  <1>6. /\ ReaderOK(n) /\ Len(n.blocks) = Len(r.blocks)
        /\ n.writeAt = r.writeAt /\ n.preferred = r.preferred
        /\ \A c \in 1 .. Len(r.blocks) :
             n.blocks[c].data = r.blocks[c].data /\ n.blocks[c].capacity = r.blocks[c].capacity
    BY DEF Advances
  <1>7. QED
    BY <1>2, <1>4, <1>5, <1>6 DEF Advances

LEMMA FreedReleases ==
  ASSUME NEW r, ReaderOK(r), NEW token \in Seq(Slice)
  PROVE  /\ Advances(r, Freed(r, token), 0)
         /\ \A b \in 1 .. Len(r.blocks) :
              Balance(Freed(r, token), b) = Balance(r, b) - HeldIn(b, token)
  <1>1. /\ Shape(r) /\ r \in Readers /\ r.blocks \in Seq(Block) /\ Len(r.blocks) \in Nat
        /\ DOMAIN r.blocks = 1 .. Len(r.blocks) /\ r.readLeft \in Nat
    BY SeqParts DEF ReaderOK, Shape, Readers
  <1>2. PICK f : f = [b \in 1 .. Len(r.blocks) |->
                        [r.blocks[b] EXCEPT !.refs = @ - HeldIn(b, token)]]
    OBVIOUS
  <1>3. \A b \in 1 .. Len(r.blocks) :
          /\ f[b] \in Block /\ f[b].data = r.blocks[b].data /\ f[b].capacity = r.blocks[b].capacity
          /\ f[b].refs = r.blocks[b].refs - HeldIn(b, token)
    <2>1. SUFFICES ASSUME NEW b \in 1 .. Len(r.blocks)
                   PROVE  /\ f[b] \in Block /\ f[b].data = r.blocks[b].data
                          /\ f[b].capacity = r.blocks[b].capacity
                          /\ f[b].refs = r.blocks[b].refs - HeldIn(b, token)
      OBVIOUS
    <2>2. PICK k \in Block, h \in Nat : k = r.blocks[b] /\ h = HeldIn(b, token)
      BY <1>1, BlockType, HeldType
    <2>3. f[b] = [k EXCEPT !.refs = @ - h]
      BY <1>2, <2>2
    <2>4. QED
      BY <2>2, <2>3, SMTT(20) DEF Block
  <1>4. f \in Seq(Block) /\ Len(f) = Len(r.blocks)
    <2>1. f \in [1 .. Len(r.blocks) -> Block]
      BY <1>2, <1>3
    <2>2. QED
      BY <1>1, <2>1, SeqMade
  <1>5. PICK n : n = Freed(r, token)
    OBVIOUS
  <1>6. /\ n \in Readers /\ n.blocks = f /\ n.at = r.at /\ n.offset = r.offset
        /\ n.writeAt = r.writeAt /\ n.preferred = r.preferred /\ n.readLeft = r.readLeft
    <2>1. n = [r EXCEPT !.blocks = f]
      BY <1>1, <1>2, <1>5 DEF Freed
    <2>2. QED
      BY <1>1, <1>4, <2>1 DEF Readers
  <1>7. SamePlace(n, r)
    BY <1>3, <1>4, <1>6 DEF SamePlace
  <1>8. /\ Shape(n) /\ Ahead(n) = Ahead(r)
        /\ \A b \in 1 .. Len(r.blocks) : UnreadIn(n, b) = UnreadIn(r, b)
    BY <1>1, <1>7, SamePlaceAhead
  <1>9. ReaderOK(n)
    <2>1. CursorInBounds(n)
      <3>1. r.at \in Nat \ {0} /\ CursorInBounds(r)
        BY <1>1 DEF ReaderOK, Readers
      <3>2. r.readLeft > 0 => r.at \in 1 .. Len(r.blocks)
        BY <1>1, <3>1 DEF CursorInBounds
      <3>3. QED
        BY <1>3, <1>4, <1>6, <3>1, <3>2 DEF CursorInBounds
    <2>2. /\ \A b \in 1 .. Len(n.blocks) : Len(n.blocks[b].data) <= n.blocks[b].capacity
          /\ n.writeAt \in {Len(n.blocks), Len(n.blocks) + 1}
          /\ \A b \in 1 .. Len(n.blocks) : b < n.writeAt => n.blocks[b].data # <<>>
          /\ n.readLeft = Len(Ahead(n))
      BY <1>3, <1>4, <1>6, <1>8 DEF ReaderOK
    <2>3. QED
      BY <1>8, <2>1, <2>2 DEF ReaderOK
  <1>10. Advances(r, n, 0)
    <2>1. n.readLeft \in Nat /\ \A x \in 1 .. n.readLeft : 0 + x = x
      BY <1>1, <1>6
    <2>2. \A x \in 1 .. n.readLeft : Ahead(n)[x] = Ahead(r)[0 + x]
      BY <1>8, <2>1
    <2>3. 0 \in 0 .. r.readLeft /\ n.readLeft = r.readLeft - 0
      BY <1>1, <1>6
    <2>4. /\ Len(n.blocks) = Len(r.blocks) /\ n.writeAt = r.writeAt /\ n.preferred = r.preferred
          /\ \A b \in 1 .. Len(r.blocks) :
               n.blocks[b].data = r.blocks[b].data /\ n.blocks[b].capacity = r.blocks[b].capacity
      BY <1>3, <1>4, <1>6
    <2>5. QED
      BY <1>9, <2>2, <2>3, <2>4, Zenon DEF Advances
  <1>11. ASSUME NEW b \in 1 .. Len(r.blocks)
         PROVE  Balance(n, b) = Balance(r, b) - HeldIn(b, token)
    <2>1. n.blocks[b].refs = r.blocks[b].refs - HeldIn(b, token) /\ UnreadIn(n, b) = UnreadIn(r, b)
      BY <1>3, <1>6, <1>8
    <2>2. PICK x \in Int, y \in Nat, z \in Nat :
            x = r.blocks[b].refs /\ y = HeldIn(b, token) /\ z = UnreadIn(r, b)
      BY <1>1, BalanceType, HeldType
    <2>3. (x - y) - z = (x - z) - y
      OBVIOUS
    <2>4. QED
      BY <2>1, <2>2, <2>3, Zenon DEF Balance
  <1>12. QED
    BY <1>5, <1>10, <1>11

\* What a method that reads len bytes and returns them returns.
Gives(r, read, len) ==
    /\ DOMAIN read = {"err", "token", "reader"} /\ read.err = "OK"
    /\ Advances(r, read.reader, len)
    /\ Charges(r, read.reader, read.token)

LEMMA ReadBytesOutcome ==
  ASSUME NEW r, ReaderOK(r), NEW len \in Nat
  PROVE  /\ len > r.readLeft => ReadBytes(r, len) = Incomplete(r)
         /\ len <= r.readLeft => Gives(r, ReadBytes(r, len), len)
  <1>1. r.readLeft \in Nat
    BY DEF ReaderOK, Shape, Readers
  <1>2. len > r.readLeft => ReadBytes(r, len) = Incomplete(r)
    BY DEF ReadBytes
  <1>3. CASE len = 0
    <2>1. ReadBytes(r, len) = [err |-> "OK", reader |-> r, token |-> <<>>]
      BY <1>1, <1>3 DEF ReadBytes
    <2>2. Advances(r, r, 0) /\ Charges(r, r, <<>>)
      BY AdvancesNot
    <2>3. Gives(r, ReadBytes(r, len), len)
      BY <1>3, <2>1, <2>2 DEF Gives
    <2>4. QED
      BY <1>2, <2>3
  <1>4. CASE len # 0 /\ len <= r.readLeft
    <2>1. len \in 1 .. r.readLeft
      BY <1>1, <1>4
    <2>2. DOMAIN ReadBytes(r, len) = {"err", "token", "reader"}
      BY <1>1, <1>4 DEF ReadBytes
    <2>3. QED
      BY <1>2, <2>1, <2>2, ReadBytesReads DEF Gives
  <1>5. QED
    BY <1>1, <1>2, <1>3, <1>4

\* What a method that reads len bytes without keeping them does.
Drops(r, m, len) ==
    /\ Advances(r, m, len)
    /\ \A b \in 1 .. Len(r.blocks) : Balance(m, b) = Balance(r, b)

LEMMA DropsCharges ==
  ASSUME NEW r, ReaderOK(r), NEW m, NEW s, Charges(r, m, s), ReaderOK(m),
         Len(m.blocks) = Len(r.blocks), NEW n, NEW len, Drops(m, n, len)
  PROVE  Charges(r, n, s)
  BY DEF Drops, Charges

LEMMA FreedDrops ==
  ASSUME NEW r, ReaderOK(r), NEW m, NEW len \in Nat, NEW token, Advances(r, m, len), Charges(r, m, token)
  PROVE  Drops(r, Freed(m, token), len)
  <1>1. ReaderOK(m) /\ Len(m.blocks) = Len(r.blocks) /\ token \in Seq(Slice)
    BY DEF Advances, Charges
  <1>2. /\ Advances(m, Freed(m, token), 0)
        /\ \A b \in 1 .. Len(r.blocks) :
             Balance(Freed(m, token), b) = Balance(m, b) - HeldIn(b, token)
    BY <1>1, FreedReleases
  <1>3. Advances(r, Freed(m, token), len)
    <2>1. Advances(r, Freed(m, token), len + 0)
      BY <1>2, AdvancesChain
    <2>2. QED
      BY <2>1
  <1>4. ASSUME NEW b \in 1 .. Len(r.blocks)
        PROVE  Balance(Freed(m, token), b) = Balance(r, b)
    <2>1. PICK x \in Int, y \in Nat : x = Balance(r, b) /\ y = HeldIn(b, token)
      BY <1>1, BalanceType, HeldType DEF ReaderOK
    <2>2. Balance(m, b) = x + y
      BY <2>1 DEF Charges
    <2>3. (x + y) - y = x
      OBVIOUS
    <2>4. QED
      BY <1>2, <2>1, <2>2, <2>3, Zenon
  <1>5. QED
    BY <1>3, <1>4 DEF Drops

LEMMA SkipBytesOutcome ==
  ASSUME NEW r, ReaderOK(r), NEW len \in Nat
  PROVE  /\ len > r.readLeft => SkipBytes(r, len) = Incomplete(r)
         /\ len <= r.readLeft => /\ DOMAIN SkipBytes(r, len) = {"err", "reader"}
                                 /\ SkipBytes(r, len).err = "OK"
                                 /\ Drops(r, SkipBytes(r, len).reader, len)
  <1>1. PICK read : read = ReadBytes(r, len)
    OBVIOUS
  <1>2. CASE len > r.readLeft
    <2>1. read = Incomplete(r)
      BY <1>1, <1>2, ReadBytesOutcome
    <2>2. read.err # "OK"
      BY <2>1 DEF Incomplete
    <2>3. SkipBytes(r, len) = read
      BY <1>1, <2>2 DEF SkipBytes
    <2>4. r.readLeft \in Nat
      BY DEF ReaderOK, Shape, Readers
    <2>5. QED
      BY <1>2, <2>1, <2>3, <2>4
  <1>3. CASE len <= r.readLeft
    <2>1. Gives(r, read, len)
      BY <1>1, <1>3, ReadBytesOutcome
    <2>2. SkipBytes(r, len) = [err |-> "OK", reader |-> Freed(read.reader, read.token)]
      BY <1>1, <2>1 DEF SkipBytes, Gives
    <2>3. Drops(r, Freed(read.reader, read.token), len)
      BY <2>1, FreedDrops DEF Gives
    <2>4. r.readLeft \in Nat
      BY DEF ReaderOK, Shape, Readers
    <2>5. QED
      BY <1>3, <2>2, <2>3, <2>4
  <1>4. r.readLeft \in Nat
    BY DEF ReaderOK, Shape, Readers
  <1>5. QED
    BY <1>2, <1>3, <1>4

-----------------------------------------------------------------------------
(* Scanning.                                                               *)

LEMMA UnreadBytes ==
  ASSUME NEW r, ReaderOK(r)
  PROVE  /\ Unread(r) \in Seq(Byte) /\ Len(Unread(r)) = r.readLeft /\ r.readLeft \in Nat
         /\ DOMAIN Unread(r) = 1 .. r.readLeft
         /\ \A i \in 1 .. r.readLeft : Unread(r)[i] = Ahead(r)[i].byte /\ Unread(r)[i] \in Byte
  <1>1. Ahead(r) \in Seq(Place) /\ r.readLeft = Len(Ahead(r)) /\ r.readLeft \in Nat
    BY AheadType DEF ReaderOK
  <1>2. PICK a \in Seq(Place) : a = Ahead(r)
    BY <1>1
  <1>3. /\ Len(a) = r.readLeft /\ DOMAIN a = 1 .. r.readLeft
        /\ \A i \in 1 .. r.readLeft : a[i] \in Place
    BY <1>1, <1>2, SeqParts
  <1>4. Unread(r) = [i \in 1 .. r.readLeft |-> a[i].byte]
    BY <1>2, <1>3 DEF Unread
  <1>5. \A i \in 1 .. r.readLeft : a[i].byte \in Byte
    BY <1>3 DEF Place
  <1>6. Unread(r) \in [1 .. r.readLeft -> Byte]
    BY <1>4, <1>5
  <1>7. Unread(r) \in Seq(Byte) /\ Len(Unread(r)) = r.readLeft
    BY <1>1, <1>6, SeqMade
  <1>8. QED
    BY <1>1, <1>2, <1>4, <1>5, <1>7

LEMMA BeforeScans ==
  ASSUME NEW r, ReaderOK(r), NEW stops
  PROVE  /\ Before(r, stops) \in 0 .. r.readLeft
         /\ \A i \in 1 .. Before(r, stops) : Unread(r)[i] \notin stops
         /\ Before(r, stops) # r.readLeft =>
              /\ Before(r, stops) + 1 \in 1 .. r.readLeft
              /\ Unread(r)[Before(r, stops) + 1] \in stops
  <1>1. PICK u \in Seq(Byte), n \in Nat : u = Unread(r) /\ n = r.readLeft /\ Len(u) = n
    BY UnreadBytes
  <1> DEFINE T == {i \in 1 .. n : u[i] \in stops}
  <1>2. Before(r, stops) = LET i == IF T # {} THEN Min(T) ELSE 0 IN IF i = 0 THEN n ELSE i - 1
    BY <1>1 DEF Before, SelectInSeq
  <1>3. CASE T = {}
    BY <1>1, <1>2, <1>3
  <1>4. CASE T # {}
    <2>1. T \in SUBSET Nat
      OBVIOUS
    <2>2. Min(T) \in T /\ \A k \in T : Min(T) <= k
      <3> HIDE DEF T
      <3>1. QED
        BY <1>4, <2>1, Least
    <2>3. PICK m \in 1 .. n : m = Min(T) /\ u[m] \in stops
      BY <2>2
    <2>4. \A i \in 1 .. n : u[i] \in stops => m <= i
      BY <2>2, <2>3
    <2>5. Before(r, stops) = m - 1
      <3> HIDE DEF T
      <3>1. QED
        BY <1>2, <1>4, <2>3
    <2>6. \A i \in 1 .. m - 1 : u[i] \notin stops
      BY <2>4
    <2>7. m - 1 \in 0 .. n /\ (m - 1) + 1 = m
      OBVIOUS
    <2>8. QED
      BY <1>1, <2>3, <2>5, <2>6, <2>7
  <1>5. QED
    BY <1>3, <1>4

LEMMA ReadUntilOutcome ==
  ASSUME NEW r, ReaderOK(r), NEW byte, ReadUntil(r, byte).err = "OK"
  PROVE  /\ Gives(r, ReadUntil(r, byte), Before(r, {byte}))
         /\ Before(r, {byte}) # r.readLeft
  <1>1. Before(r, {byte}) \in Nat /\ Before(r, {byte}) <= r.readLeft
    BY BeforeScans, UnreadBytes
  <1>2. Before(r, {byte}) # r.readLeft /\ ReadUntil(r, byte) = ReadBytes(r, Before(r, {byte}))
    BY DEF ReadUntil, Incomplete
  <1>3. Gives(r, ReadBytes(r, Before(r, {byte})), Before(r, {byte}))
    BY <1>1, ReadBytesOutcome
  <1>4. QED
    BY <1>2, <1>3

\* What a method that reads len bytes without returning them returns, with a
\* value perhaps.
Skims(r, read, len) ==
    /\ {"err", "reader"} \subseteq DOMAIN read /\ read.err = "OK"
    /\ Drops(r, read.reader, len)

LEMMA SkipUntilOutcome ==
  ASSUME NEW r, ReaderOK(r), NEW byte, SkipUntil(r, byte).err = "OK"
  PROVE  /\ Skims(r, SkipUntil(r, byte), Before(r, {byte}))
         /\ Before(r, {byte}) # r.readLeft
  <1>1. Before(r, {byte}) \in Nat /\ Before(r, {byte}) <= r.readLeft
    BY BeforeScans, UnreadBytes
  <1>2. Before(r, {byte}) # r.readLeft /\ SkipUntil(r, byte) = SkipBytes(r, Before(r, {byte}))
    BY DEF SkipUntil, Incomplete
  <1>3. /\ DOMAIN SkipBytes(r, Before(r, {byte})) = {"err", "reader"}
        /\ SkipBytes(r, Before(r, {byte})).err = "OK"
        /\ Drops(r, SkipBytes(r, Before(r, {byte})).reader, Before(r, {byte}))
    BY <1>1, SkipBytesOutcome
  <1>4. QED
    BY <1>2, <1>3 DEF Skims

LEMMA ThenSkipOutcome ==
  ASSUME NEW read, NEW n \in Nat, {"err", "reader"} \subseteq DOMAIN read,
         read.err = "OK" => ReaderOK(read.reader)
  PROVE  /\ ThenSkip(read, n).err = "OK" <=>
              read.err = "OK" /\ n <= read.reader.readLeft
         /\ DOMAIN ThenSkip(read, n) = DOMAIN read
         /\ \A f \in DOMAIN read \ {"err", "reader"} : ThenSkip(read, n)[f] = read[f]
         /\ ThenSkip(read, n).err = "OK" =>
              Drops(read.reader, ThenSkip(read, n).reader, n)
  <1>1. CASE read.err # "OK"
    <2>1. ThenSkip(read, n) = read
      BY <1>1 DEF ThenSkip
    <2>2. QED
      BY <1>1, <2>1
  <1>2. CASE read.err = "OK"
    <2>1. PICK skip : skip = SkipBytes(read.reader, n)
      OBVIOUS
    <2>2. ThenSkip(read, n) = [read EXCEPT !.err = skip.err, !.reader = skip.reader]
      BY <1>2, <2>1 DEF ThenSkip
    <2>3. /\ DOMAIN ThenSkip(read, n) = DOMAIN read
          /\ \A f \in DOMAIN read \ {"err", "reader"} : ThenSkip(read, n)[f] = read[f]
          /\ ThenSkip(read, n).err = skip.err /\ ThenSkip(read, n).reader = skip.reader
      BY <2>2
    <2>4. read.reader.readLeft \in Nat
      BY <1>2 DEF ReaderOK, Shape, Readers
    <2>5. n > read.reader.readLeft => skip.err # "OK"
      BY <1>2, <2>1, SkipBytesOutcome DEF Incomplete
    <2>6. n <= read.reader.readLeft => skip.err = "OK" /\ Drops(read.reader, skip.reader, n)
      BY <1>2, <2>1, SkipBytesOutcome
    <2>7. QED
      BY <1>2, <2>3, <2>4, <2>5, <2>6
  <1>3. QED
    BY <1>1, <1>2

LEMMA GivesThenSkip ==
  ASSUME NEW r, ReaderOK(r), NEW read, NEW len \in Nat, Gives(r, read, len),
         NEW n \in Nat, ThenSkip(read, n).err = "OK"
  PROVE  /\ Gives(r, ThenSkip(read, n), len + n)
         /\ ThenSkip(read, n).token = read.token
  <1>1. /\ DOMAIN read = {"err", "token", "reader"} /\ read.err = "OK"
        /\ Advances(r, read.reader, len) /\ Charges(r, read.reader, read.token)
        /\ ReaderOK(read.reader) /\ Len(read.reader.blocks) = Len(r.blocks)
    BY DEF Gives, Advances
  <1>2. {"err", "reader"} \subseteq DOMAIN read
    BY <1>1
  <1>3. PICK t : /\ t = ThenSkip(read, n) /\ t.err = "OK" /\ DOMAIN t = {"err", "token", "reader"}
                 /\ \A f \in DOMAIN read \ {"err", "reader"} : t[f] = read[f]
                 /\ Drops(read.reader, t.reader, n)
    BY <1>1, <1>2, ThenSkipOutcome
  <1>4. t.token = read.token
    BY <1>1, <1>3
  <1>5. Advances(r, t.reader, len + n)
    BY <1>1, <1>3, AdvancesChain DEF Drops
  <1>6. Charges(r, t.reader, t.token)
    BY <1>1, <1>3, <1>4, DropsCharges
  <1>7. QED
    BY <1>3, <1>4, <1>5, <1>6 DEF Gives

LEMMA DropsChain ==
  ASSUME NEW r, ReaderOK(r), NEW m, NEW a \in Nat, Drops(r, m, a), NEW n, NEW b \in Nat, Drops(m, n, b)
  PROVE  Drops(r, n, a + b)
  <1>1. Advances(r, n, a + b)
    BY AdvancesChain DEF Drops
  <1>2. Len(m.blocks) = Len(r.blocks)
    BY DEF Drops, Advances
  <1>3. QED
    BY <1>1, <1>2 DEF Drops

LEMMA SkimsThenSkip ==
  ASSUME NEW r, ReaderOK(r), NEW read, NEW len \in Nat, Skims(r, read, len),
         NEW n \in Nat, ThenSkip(read, n).err = "OK"
  PROVE  /\ Skims(r, ThenSkip(read, n), len + n)
         /\ "value" \in DOMAIN read => ThenSkip(read, n).value = read.value
  <1>1. /\ {"err", "reader"} \subseteq DOMAIN read /\ read.err = "OK"
        /\ Drops(r, read.reader, len) /\ ReaderOK(read.reader)
    BY DEF Skims, Drops, Advances
  <1>2. PICK t : /\ t = ThenSkip(read, n) /\ t.err = "OK" /\ DOMAIN t = DOMAIN read
                 /\ \A f \in DOMAIN read \ {"err", "reader"} : t[f] = read[f]
                 /\ Drops(read.reader, t.reader, n)
    BY <1>1, ThenSkipOutcome
  <1>3. Drops(r, t.reader, len + n)
    BY <1>1, <1>2, DropsChain
  <1>4. "value" \in DOMAIN read => t.value = read.value
    BY <1>2
  <1>5. QED
    BY <1>1, <1>2, <1>3, <1>4 DEF Skims

-----------------------------------------------------------------------------
(* Numbers.                                                                *)

DigitValue(c) == SelectInSeq(Digits, LAMBDA d : d = c) - 1
Decimals == ToSet(Digits)

LEMMA DigitsAre ==
  /\ Digits \in Seq(Byte) /\ Len(Digits) = 10 /\ DOMAIN Digits = 1 .. 10
  /\ Decimals = {"0", "1", "2", "3", "4", "5", "6", "7", "8", "9"}
  <1>2. \A i \in 1 .. 10 : i \in {1, 2, 3, 4, 5, 6, 7, 8, 9, 10}
    OBVIOUS
  <1>1. Len(Digits) = 10 /\ DOMAIN Digits = 1 .. 10 /\ Digits \in Seq(Byte)
    <2>1. Len(Digits) = 10
      BY DEF Digits
    <2>2. DOMAIN Digits = 1 .. 10
      BY DEF Digits
    <2>3. \A i \in {1, 2, 3, 4, 5, 6, 7, 8, 9, 10} : Digits[i] \in Byte
      <3>1. \A i \in {1, 2, 3, 4, 5, 6, 7, 8, 9, 10} :
              Digits[i] \in {"0", "1", "2", "3", "4", "5", "6", "7", "8", "9"}
        BY DEF Digits
      <3>2. QED
        BY <3>1 DEF Byte
    <2>4. Digits = [i \in 1 .. 10 |-> Digits[i]]
      BY DEF Digits
    <2>5. Digits \in [1 .. 10 -> Byte]
      BY <1>2, <2>3, <2>4
    <2>6. QED
      BY <2>1, <2>2, <2>5, SeqMade
  <1>3. Decimals = {Digits[i] : i \in {1, 2, 3, 4, 5, 6, 7, 8, 9, 10}}
    BY <1>1, <1>2 DEF Decimals, ToSet
  <1>4. QED
    BY <1>1, <1>3 DEF Digits

LEMMA DigitType ==
  ASSUME NEW c \in Decimals
  PROVE  DigitValue(c) \in 0 .. 9 /\ Digits[DigitValue(c) + 1] = c
  <1> DEFINE T == {i \in 1 .. 10 : Digits[i] = c}
  <1>1. T # {} /\ T \in SUBSET Nat
    <2>1. PICK i \in 1 .. 10 : Digits[i] = c
      BY DigitsAre DEF Decimals, ToSet
    <2>2. QED
      BY <2>1
  <1>2. Min(T) \in T
    <2> HIDE DEF T
    <2>1. QED
      BY <1>1, Least
  <1>3. DigitValue(c) = Min(T) - 1
    <2>1. DigitValue(c) = (IF T # {} THEN Min(T) ELSE 0) - 1
      BY DigitsAre DEF DigitValue, SelectInSeq
    <2>2. QED
      BY <1>1, <2>1
  <1>4. QED
    BY <1>2, <1>3

\* t[i] is the number that the first i of n digits are.
Values(t, bytes, n) ==
    t[0] = 0 /\ \A i \in 1 .. n : t[i] = 10 * t[i - 1] + DigitValue(bytes[i])

LEMMA ValuesExist ==
  ASSUME NEW bytes \in Seq(Decimals)
  PROVE  \E t \in [0 .. Len(bytes) -> Nat] : Values(t, bytes, Len(bytes))
  <1> DEFINE step == [i \in 1 .. Len(bytes) |-> [x \in Nat |-> 10 * x + DigitValue(bytes[i])]]
  <1>1. Len(bytes) \in Nat /\ \A i \in 1 .. Len(bytes) : DigitValue(bytes[i]) \in Nat
    <2>1. \A i \in 1 .. Len(bytes) : bytes[i] \in Decimals
      OBVIOUS
    <2>2. QED
      BY <2>1, DigitType
  <1>2. step \in [1 .. Len(bytes) -> [Nat -> Nat]]
    BY <1>1
  <1>3. \A i \in 1 .. Len(bytes), x \in Nat : step[i][x] = 10 * x + DigitValue(bytes[i])
    OBVIOUS
  <1> HIDE DEF step
  <1>4. PICK t \in [0 .. Len(bytes) -> Nat] : Runs(t, 0, step, Len(bytes))
    BY <1>1, <1>2, RunExists
  <1>5. \A i \in 1 .. Len(bytes) : t[i - 1] \in Nat
    <2>1. PICK n \in Nat : n = Len(bytes)
      BY <1>1
    <2>2. \A i \in 1 .. n : i - 1 \in 0 .. n
      OBVIOUS
    <2>3. QED
      BY <2>1, <2>2
  <1>6. Values(t, bytes, Len(bytes))
    BY <1>3, <1>4, <1>5 DEF Runs, Values
  <1>7. QED
    BY <1>6

LEMMA NumberValues ==
  ASSUME NEW bytes \in Seq(Decimals), NEW t \in [0 .. Len(bytes) -> Nat],
         Values(t, bytes, Len(bytes))
  PROVE  NumberOf(bytes) = t[Len(bytes)]
  <1> DEFINE n == Len(bytes)
             Is(c) == c = [u \in SUBSET (1 .. n) |->
                             IF u = {} THEN 0
                             ELSE 10 * c[u \ {Max(u)}] + DigitValue(bytes[Max(u)])]
             c0 == CHOOSE c : Is(c)
  <1>1. n \in Nat /\ DOMAIN bytes = 1 .. n /\ bytes \in [1 .. n -> Decimals]
    OBVIOUS
  <1>2. NumberOf(bytes) = c0[1 .. n]
    <2>1. \A a, b \in Int : 10 * a + (b - 1) = 10 * a + b - 1
      OBVIOUS
    <2>2. QED
      BY <1>1 DEF NumberOf, FoldLeft, MapThenFoldSet, DigitValue
  <1> HIDE DEF n
  <1>3. \E c : Is(c)
    <2> DEFINE step == [i \in 1 .. n |-> [x \in Nat |-> 10 * x + DigitValue(bytes[i])]]
    <2>1. \A i \in 1 .. n : DigitValue(bytes[i]) \in Nat
      BY <1>1, DigitType
    <2>11. step \in [1 .. n -> [Nat -> Nat]]
      BY <2>1
    <2>2. \A i \in 1 .. n, x \in Nat : step[i][x] = 10 * x + DigitValue(bytes[i])
      OBVIOUS
    <2> HIDE DEF step
    <2>3. PICK c \in [SUBSET (1 .. n) -> Nat] : Folds(c, 0, step, n)
      BY <1>1, <2>11, FoldExists
    <2>4. ASSUME NEW u \in SUBSET (1 .. n), u # {}
          PROVE  step[Max(u)][c[u \ {Max(u)}]] =
                   10 * c[u \ {Max(u)}] + DigitValue(bytes[Max(u)])
      <3>1. u \in SUBSET (0 .. n)
        BY <1>1
      <3>2. Max(u) \in u
        BY <1>1, <2>4, <3>1, Greatest
      <3>3. Max(u) \in 1 .. n /\ c[u \ {Max(u)}] \in Nat
        BY <3>2
      <3>4. QED
        BY <2>2, <3>3
    <2>5. Is(c)
      BY <2>3, <2>4 DEF Folds
    <2> HIDE DEF Is
    <2>6. QED
      BY <2>5
  <1>4. Is(c0)
    <2> HIDE DEF Is
    <2>1. QED
      BY <1>3
  <1>5. \A u \in SUBSET (1 .. n) :
          c0[u] = IF u = {} THEN 0 ELSE 10 * c0[u \ {Max(u)}] + DigitValue(bytes[Max(u)])
    <2> HIDE DEF c0
    <2>1. QED
      BY <1>4
  <1> HIDE DEF c0, Is
  <1>6. /\ \A i \in 0 .. n : t[i] \in Nat
        /\ t[0] = 0 /\ \A i \in 1 .. n : t[i] = 10 * t[i - 1] + DigitValue(bytes[i])
    BY DEF Values, n
  <1> DEFINE T == {i \in 0 .. n : c0[1 .. i] = t[i]}
  <1>7. 0 \in T
    <2>1. 1 .. 0 = {} /\ {} \in SUBSET (1 .. n) /\ 0 \in 0 .. n
      BY <1>1
    <2>2. c0[1 .. 0] = t[0]
      BY <1>5, <1>6, <2>1
    <2>3. QED
      BY <2>1, <2>2
  <1>8. ASSUME NEW k \in 1 .. n, k - 1 \in T
        PROVE  k \in T
    <2>1. c0[1 .. k - 1] = t[k - 1]
      BY <1>8
    <2>2. 1 .. k # {} /\ Max(1 .. k) = k /\ (1 .. k) \ {Max(1 .. k)} = 1 .. k - 1
      <3>1. k \in Nat /\ k # 0
        BY <1>1
      <3>2. QED
        BY ONLY <3>1, MaxUpTo
    <2>3. 1 .. k \in SUBSET (1 .. n)
      BY <1>1
    <2>4. c0[1 .. k] = 10 * c0[1 .. k - 1] + DigitValue(bytes[k])
      BY <1>5, <2>2, <2>3
    <2>5. c0[1 .. k] = t[k]
      BY <1>6, <2>1, <2>4
    <2>6. QED
      BY <1>1, <2>5
  <1>9. \A k \in 0 .. n : k \in T
    <2> HIDE DEF T
    <2>1. QED
      BY <1>1, <1>7, <1>8, UpTo
  <1>10. n \in 0 .. n /\ n \in T
    BY <1>1, <1>9
  <1>11. QED
    BY <1>2, <1>10 DEF n

LEMMA NumberType ==
  ASSUME NEW bytes \in Seq(Decimals)
  PROVE  NumberOf(bytes) \in Nat
  <1>1. PICK t \in [0 .. Len(bytes) -> Nat] : Values(t, bytes, Len(bytes))
    BY ValuesExist
  <1>2. NumberOf(bytes) = t[Len(bytes)] /\ Len(bytes) \in Nat
    BY <1>1, NumberValues
  <1>3. QED
    BY <1>2

\* How many digits come first.
DigitsAhead(r) == Before(r, ToSet(Unread(r)) \ ToSet(Digits))

LEMMA DigitsAheadAre ==
  ASSUME NEW r, ReaderOK(r)
  PROVE  /\ DigitsAhead(r) \in 0 .. r.readLeft
         /\ \A i \in 1 .. DigitsAhead(r) : Unread(r)[i] \in Decimals
         /\ DigitsAhead(r) # r.readLeft =>
              /\ DigitsAhead(r) + 1 \in 1 .. r.readLeft
              /\ Unread(r)[DigitsAhead(r) + 1] \notin Decimals
  <1> DEFINE stops == ToSet(Unread(r)) \ ToSet(Digits)
  <1>1. /\ Before(r, stops) \in 0 .. r.readLeft
        /\ \A i \in 1 .. Before(r, stops) : Unread(r)[i] \notin stops
        /\ Before(r, stops) # r.readLeft =>
             /\ Before(r, stops) + 1 \in 1 .. r.readLeft
             /\ Unread(r)[Before(r, stops) + 1] \in stops
    BY BeforeScans
  <1>2. r.readLeft \in Nat /\ \A i \in 1 .. r.readLeft : Unread(r)[i] \in ToSet(Unread(r))
    BY UnreadBytes DEF ToSet
  <1>3. QED
    BY <1>1, <1>2 DEF DigitsAhead, Decimals

LEMMA ReadUnsignedOutcome ==
  ASSUME NEW r, ReaderOK(r), ReadUnsigned(r).err = "OK"
  PROVE  /\ Skims(r, ReadUnsigned(r), DigitsAhead(r))
         /\ "value" \in DOMAIN ReadUnsigned(r) /\ ReadUnsigned(r).value \in Nat
         /\ ReadUnsigned(r).value = NumberOf(SubSeq(Unread(r), 1, DigitsAhead(r)))
         /\ DigitsAhead(r) # 0 /\ DigitsAhead(r) # r.readLeft
  <1>1. PICK d \in Nat : d = DigitsAhead(r) /\ d <= r.readLeft
    BY DigitsAheadAre, UnreadBytes
  <1>2. /\ d # 0 /\ d # r.readLeft
        /\ ReadUnsigned(r) = [err |-> "OK", reader |-> SkipBytes(r, d).reader,
                              value |-> NumberOf(SubSeq(Unread(r), 1, d))]
    BY <1>1 DEF ReadUnsigned, DigitsAhead, Incomplete, Programming
  <1>3. Drops(r, SkipBytes(r, d).reader, d)
    BY <1>1, SkipBytesOutcome
  <1>4. PICK s : s = SubSeq(Unread(r), 1, d)
    OBVIOUS
  <1>5. s \in Seq(Decimals)
    <2>1. PICK u \in Seq(Byte) : u = Unread(r) /\ Len(u) = r.readLeft
      BY UnreadBytes
    <2>2. s = [i \in 1 .. d |-> u[i]]
      BY <1>1, <1>4, <2>1, UnreadBytes
    <2>3. \A i \in 1 .. d : u[i] \in Decimals
      BY <1>1, <2>1, DigitsAheadAre
    <2>4. s \in [1 .. d -> Decimals]
      BY <2>2, <2>3
    <2>5. QED
      BY <2>4, SeqMade
  <1>6. NumberOf(s) \in Nat
    BY <1>5, NumberType
  <1>7. QED
    BY <1>1, <1>2, <1>3, <1>4, <1>6 DEF Skims

-----------------------------------------------------------------------------
(* Writing.                                                                *)

\* m is r ready to take bytes: a block may have come, and the cursor moves
\* only when nothing is left to read.
Prepared(r, m) ==
    /\ ReaderOK(m) /\ m.writeAt \in 1 .. Len(m.blocks)
    /\ m.writeAt = Len(m.blocks)
    /\ Len(m.blocks[m.writeAt].data) < m.blocks[m.writeAt].capacity
    /\ Len(m.blocks) \in {Len(r.blocks), Len(r.blocks) + 1}
    /\ m.readLeft = r.readLeft /\ m.preferred = r.preferred
    /\ Ahead(m) = Ahead(r)
    /\ m.readLeft = 0 => m.at = m.writeAt /\ m.offset = Len(m.blocks[m.writeAt].data)
    /\ \A b \in 1 .. Len(r.blocks) :
         /\ m.blocks[b] = r.blocks[b]
         /\ Balance(m, b) = Balance(r, b)
    /\ \A b \in 1 .. Len(m.blocks) : b \notin 1 .. Len(r.blocks) => Balance(m, b) = 0

\* Nothing is left to read: no block has an unread byte.
LEMMA NothingUnread ==
  ASSUME NEW r, ReaderOK(r), r.readLeft = 0, NEW b \in 1 .. Len(r.blocks)
  PROVE  UnreadIn(r, b) = 0
  <1>1. Shape(r) /\ Len(Ahead(r)) = 0
    BY DEF ReaderOK
  <1>2. CASE b < r.at
    BY <1>1, <1>2, UnreadType
  <1>3. CASE ~ (b < r.at)
    <2>1. PICK n \in Nat, u \in [1 .. Rest(r) -> Nat] :
            n = Rest(r) /\ u = UnreadFrom(r) /\ u \in [1 .. n -> Nat]
      BY <1>1, RestType
    <2>2. PICK t : Sums(t, u, n)
      BY <2>1, SumsExist
    <2>3. t[n] = 0
      BY <1>1, <2>1, <2>2, AheadPlaces
    <2>4. b \in r.at .. Len(r.blocks)
      BY <1>1, <1>3, RestType
    <2>5. PICK k \in 1 .. n : k = b - r.at + 1 /\ r.at + k - 1 = b
      <3>1. b - r.at + 1 \in 1 .. n
        BY <1>1, <2>1, <2>4, RestType
      <3>2. PICK a \in Nat, bb \in Nat : a = r.at /\ bb = b
        BY <1>1, RestType
      <3>3. a + (bb - a + 1) - 1 = bb
        OBVIOUS
      <3>4. QED
        BY <3>1, <3>2, <3>3
    <2>6. u[k] = UnreadIn(r, b)
      BY <2>1, <2>5 DEF UnreadFrom
    <2>7. u[k] = 0
      <3>1. /\ \A i \in 0 .. n : t[i] \in Nat
            /\ \A i \in 0 .. n : \A j \in 0 .. i : t[j] <= t[i]
            /\ t[k] = t[k - 1] + u[k]
        BY <2>1, <2>2, SumsGrow DEF Sums
      <3>2. t[k] \in Nat /\ t[k - 1] \in Nat /\ t[k] <= t[n] /\ u[k] \in Nat
        BY <2>1, <3>1
      <3>3. PICK x \in Nat, y \in Nat, z \in Nat : x = t[k] /\ y = t[k - 1] /\ z = u[k]
        BY <3>2
      <3>4. x <= 0 /\ x = y + z
        BY <2>3, <3>1, <3>2, <3>3
      <3>5. z = 0
        BY ONLY <3>4, x \in Nat, y \in Nat, z \in Nat
      <3>6. QED
        BY <3>3, <3>5
    <2>8. QED
      BY <2>6, <2>7
  <1>4. QED
    BY <1>2, <1>3

\* The unread bytes of the last block come last.
LEMMA AheadLast ==
  ASSUME NEW r, Shape(r), NEW n \in Nat, Rest(r) = n + 1, NEW p,
         p = [k \in 1 .. n |-> AheadIn(r, r.at + k - 1)]
  PROVE  /\ p \in Seq(Seq(Place)) /\ AheadIn(r, Len(r.blocks)) \in Seq(Place)
         /\ Ahead(r) = FlattenSeq(p) \o AheadIn(r, Len(r.blocks))
  <1>1. ASSUME NEW b \in r.at .. Len(r.blocks)
        PROVE  AheadIn(r, b) \in Seq(Place)
    BY AheadInType
  <1>2. Len(r.blocks) \in r.at .. Len(r.blocks) /\ r.at + (n + 1) - 1 = Len(r.blocks)
    <2>1. PICK a \in Nat, g \in Nat : a = r.at /\ g = Len(r.blocks)
      BY RestType
    <2>2. g - a + 1 = n + 1
      BY <2>1 DEF Rest
    <2>3. g \in a .. g /\ a + (n + 1) - 1 = g
      BY ONLY <2>2, a \in Nat, g \in Nat, n \in Nat
    <2>4. QED
      BY <2>1, <2>3
  <1>3. PICK x \in Seq(Place) : x = AheadIn(r, Len(r.blocks))
    BY <1>1, <1>2
  <1>4. p \in Seq(Seq(Place)) /\ Len(p) = n
    <2>1. \A k \in 1 .. n : r.at + k - 1 \in r.at .. Len(r.blocks)
      <3>1. \A k \in 1 .. n + 1 : r.at + k - 1 \in r.at .. Len(r.blocks)
        BY RestType
      <3>2. \A k \in 1 .. n : k \in 1 .. n + 1
        OBVIOUS
      <3>3. QED
        BY <3>1, <3>2
    <2>2. p \in [1 .. n -> Seq(Place)]
      BY <1>1, <2>1
    <2>3. QED
      BY <2>2, SeqMade
  <1>5. Ahead(r) = FlattenSeq([k \in 1 .. n + 1 |-> AheadIn(r, r.at + k - 1)])
    BY DEF Ahead, Rest
  <1>6. [k \in 1 .. n + 1 |-> AheadIn(r, r.at + k - 1)] = Append(p, x)
    <2>1. Append(p, x) = [k \in 1 .. n + 1 |-> IF k = n + 1 THEN x ELSE p[k]]
      BY <1>4
    <2>2. ASSUME NEW k \in 1 .. n + 1
          PROVE  AheadIn(r, r.at + k - 1) = IF k = n + 1 THEN x ELSE p[k]
      <3>1. CASE k = n + 1
        BY <1>2, <1>3, <3>1
      <3>2. CASE k # n + 1
        <4>1. k \in 1 .. n
          BY <3>2
        <4>2. QED
          BY <3>2, <4>1
      <3>3. QED
        BY <3>1, <3>2
    <2>3. QED
      BY <2>1, <2>2
  <1>7. FlattenSeq(Append(p, x)) = FlattenSeq(p) \o x
    BY <1>4, FlattenAppend
  <1>8. QED
    BY <1>3, <1>4, <1>5, <1>6, <1>7

LEMMA PrepareWritePrepares ==
  ASSUME NEW r, ReaderOK(r), NEW len \in Nat
  PROVE  Prepared(r, PrepareWrite(r, len))
  <1>1. PICK g \in Nat, wa \in Nat :
          /\ g = Len(r.blocks) /\ wa = r.writeAt /\ wa # 0 /\ wa \in {g, g + 1}
    BY DEF ReaderOK, Shape, Readers
  <1>2. /\ Shape(r) /\ r \in Readers /\ r.blocks \in Seq(Block) /\ r.readLeft \in Nat
        /\ r.offset \in Nat /\ r.at \in Nat \ {0} /\ r.preferred \in Nat
    BY DEF ReaderOK, Shape, Readers
  <1>3. PICK full \in BOOLEAN : full = (wa <= g /\ WriteLeft(r.blocks[wa]) = 0)
    OBVIOUS
  <1>4. PICK w \in Nat : w = IF full THEN wa + 1 ELSE wa
    OBVIOUS
  <1>5. w \in {g, g + 1} /\ w # 0 /\ (w = g => wa = g /\ ~full)
    <2>1. CASE full
      <3>1. w = wa + 1 /\ wa <= g
        BY <1>3, <1>4, <2>1
      <3>2. wa = g
        BY <1>1, <3>1
      <3>3. QED
        BY <3>1, <3>2
    <2>2. CASE ~full
      BY <1>1, <1>4, <2>2
    <2>3. QED
      BY <2>1, <2>2
  <1>6. PICK new \in Block : new = NewBlock(Larger(len, MinCapacity)) /\ new.data = <<>>
                             /\ new.refs = 0 /\ new.capacity > 0 /\ new.capacity \in Nat
    <2>1. Larger(len, MinCapacity) \in Nat \ {0}
      BY MinCapacityAssumption DEF Larger
    <2>2. PICK c \in Nat \ {0} : c = Larger(len, MinCapacity)
      BY <2>1
    <2>3. <<>> \in Seq(Byte) /\ 0 \in Int /\ c > 0 /\ c \in Nat
      OBVIOUS
    <2>4. [capacity |-> c, data |-> <<>>, refs |-> 0] \in Block
      BY <2>3 DEF Block
    <2>5. NewBlock(c) = [capacity |-> c, data |-> <<>>, refs |-> 0]
      BY DEF NewBlock
    <2>6. QED
      BY <2>2, <2>3, <2>4, <2>5
  <1>7. PICK blocks \in Seq(Block) :
          /\ blocks = IF w > g THEN Append(r.blocks, new) ELSE r.blocks
          /\ Len(blocks) = w
          /\ \A b \in 1 .. g : blocks[b] = r.blocks[b]
          /\ w = g + 1 => blocks[w] = new
    <2>1. /\ Append(r.blocks, new) \in Seq(Block) /\ Len(Append(r.blocks, new)) = g + 1
          /\ \A b \in 1 .. g : Append(r.blocks, new)[b] = r.blocks[b]
          /\ Append(r.blocks, new)[g + 1] = new
      BY <1>1, <1>2, AppendProperties
    <2>2. CASE w = g
      BY <1>1, <1>2, <2>2
    <2>3. CASE w = g + 1
      <3>1. w > g
        BY <2>3
      <3>2. PICK a \in Seq(Block) : a = Append(r.blocks, new)
        BY <2>1
      <3>3. a = IF w > g THEN Append(r.blocks, new) ELSE r.blocks
        BY <3>1, <3>2
      <3>4. Len(a) = w /\ a[w] = new /\ \A b \in 1 .. g : a[b] = r.blocks[b]
        BY <2>1, <2>3, <3>2
      <3>5. QED
        BY <3>3, <3>4
    <2>4. QED
      BY <1>5, <2>2, <2>3
  <1>8. \A b \in 1 .. g : r.blocks[b] \in Block /\ Len(r.blocks[b].data) \in Nat
                          /\ r.blocks[b].data \in Seq(Byte) /\ r.blocks[b].capacity \in Nat \ {0}
    BY <1>1, <1>2, BlockType DEF Block
  <1>9. \A b \in 1 .. w : blocks[b] \in Block /\ Len(blocks[b].data) \in Nat
                          /\ blocks[b].data \in Seq(Byte)
    <2>1. \A b \in 1 .. w : blocks[b] \in Block
      BY <1>7
    <2>2. \A k \in Block : k.data \in Seq(Byte) /\ Len(k.data) \in Nat
      BY DEF Block
    <2>3. QED
      BY <2>1, <2>2
  <1>10. w \in 1 .. w /\ (w = g + 1 => Len(blocks[w].data) = 0) /\ Len(blocks[w].data) \in Nat
    <2>1. w \in 1 .. w
      BY <1>5
    <2>2. Len(<<>>) = 0
      OBVIOUS
    <2>3. QED
      BY <1>6, <1>7, <1>9, <2>1, <2>2
  <1>11. PICK at \in Nat, off \in Nat :
           /\ at = IF r.readLeft = 0 THEN w ELSE r.at
           /\ off = IF r.readLeft = 0 THEN Len(blocks[w].data) ELSE r.offset
           /\ at # 0
    BY <1>2, <1>5, <1>10
  <1>12. PICK m : m = PrepareWrite(r, len)
    OBVIOUS
  <1>13. m = [r EXCEPT !.blocks = blocks, !.writeAt = w, !.at = at, !.offset = off]
    BY <1>1, <1>3, <1>4, <1>6, <1>7, <1>11, <1>12 DEF PrepareWrite
  <1>14. /\ m \in Readers /\ m.blocks = blocks /\ m.writeAt = w /\ m.at = at /\ m.offset = off
         /\ m.readLeft = r.readLeft /\ m.preferred = r.preferred
    <2>1. w \in Nat \ {0} /\ at \in Nat \ {0}
      BY <1>5, <1>11
    <2>2. QED
      BY <1>2, <1>13, <2>1 DEF Readers
  <1>15. Len(blocks[w].data) < blocks[w].capacity
    <2>1. CASE w = g + 1
      BY <1>6, <1>7, <1>10, <2>1
    <2>2. CASE w = g
      <3>1. g \in 1 .. g /\ WriteLeft(r.blocks[g]) # 0
        <4>1. wa = g /\ ~full /\ g # 0 /\ g <= g
          BY <1>1, <1>5, <2>2
        <4>2. ~ (WriteLeft(r.blocks[g]) = 0)
          BY <1>3, <4>1
        <4>3. QED
          BY <4>1, <4>2
      <3>2. Len(r.blocks[g].data) <= r.blocks[g].capacity
        BY <1>1, <3>1 DEF ReaderOK
      <3>3. QED
        BY <1>7, <1>8, <2>2, <3>1, <3>2 DEF WriteLeft
    <2>3. QED
      BY <1>5, <2>1, <2>2
  <1>16. \A b \in 1 .. w : /\ Len(blocks[b].data) <= blocks[b].capacity
                           /\ b < w => blocks[b].data # <<>>
    <2>1. SUFFICES ASSUME NEW b \in 1 .. w
                   PROVE  /\ Len(blocks[b].data) <= blocks[b].capacity
                          /\ b < w => blocks[b].data # <<>>
      OBVIOUS
    <2>2. CASE b = w
      <3>1. Len(blocks[w].data) <= blocks[w].capacity
        BY <1>9, <1>10, <1>15 DEF Block
      <3>2. QED
        BY <2>2, <3>1
    <2>3. CASE b # w
      <3>1. b \in 1 .. g
        BY <1>5, <2>3
      <3>2. Len(r.blocks[b].data) <= r.blocks[b].capacity
        BY <1>1, <3>1 DEF ReaderOK
      <3>3. CASE b < wa
        <4>1. r.blocks[b].data # <<>>
          BY <1>1, <3>1, <3>3 DEF ReaderOK
        <4>2. QED
          BY <1>7, <3>1, <3>2, <4>1
      <3>4. CASE ~ (b < wa)
        <4>1. b = g /\ wa = g /\ full
          BY <1>1, <1>4, <1>5, <2>3, <3>1, <3>4
        <4>2. WriteLeft(r.blocks[b]) = 0
          BY <1>3, <4>1
        <4>3. r.blocks[b].data # <<>>
          <5>1. Len(<<>>) = 0
            OBVIOUS
          <5>2. QED
            BY <1>8, <3>1, <4>2, <5>1 DEF WriteLeft
        <4>4. QED
          BY <1>7, <3>1, <3>2, <4>3
      <3>5. QED
        BY <3>3, <3>4
    <2>4. QED
      BY <2>2, <2>3
  <1>17. \A b \in 1 .. g : m.blocks[b] = r.blocks[b]
    BY <1>7, <1>14
  <1>18. /\ Shape(m) /\ Ahead(m) = Ahead(r) /\ CursorInBounds(m)
         /\ \A b \in 1 .. g : UnreadIn(m, b) = UnreadIn(r, b)
         /\ \A b \in 1 .. w : b \notin 1 .. g => UnreadIn(m, b) = 0
    <2>1. CASE r.readLeft = 0
      <3>1. m.at = w /\ m.offset = Len(m.blocks[w].data) /\ Len(m.blocks) = w
        BY <1>7, <1>11, <1>14, <2>1
      <3>2. Shape(m)
        BY <1>10, <1>14, <3>1 DEF Shape
      <3>3. CursorInBounds(m)
        BY <1>14, <2>1 DEF CursorInBounds
      <3>4. \A b \in 1 .. w : UnreadIn(m, b) = 0
        <4>1. SUFFICES ASSUME NEW b \in 1 .. w PROVE UnreadIn(m, b) = 0
          OBVIOUS
        <4>2. CASE b = w
          BY <1>10, <1>14, <3>1, <4>2 DEF UnreadIn, From
        <4>3. CASE b # w
          BY <3>1, <4>3 DEF UnreadIn
        <4>4. QED
          BY <4>2, <4>3
      <3>5. \A b \in 1 .. g : UnreadIn(r, b) = 0
        BY <1>1, <2>1, NothingUnread
      <3>6. Ahead(m) = <<>>
        <4>1. Rest(m) = 1
          BY <3>1 DEF Rest
        <4>2. UnreadFrom(m)[1] = 0
          <5>1. m.at + 1 - 1 = w
            BY <3>1
          <5>2. QED
            BY <1>10, <3>4, <4>1, <5>1 DEF UnreadFrom
        <4>3. PICK t : Sums(t, UnreadFrom(m), Rest(m))
          BY <3>2, AheadType
        <4>4. t[1] = 0
          <5>1. t[0] = 0 /\ t[1] = t[1 - 1] + UnreadFrom(m)[1]
            BY <4>1, <4>3 DEF Sums
          <5>2. QED
            BY <4>2, <5>1
        <4>5. Ahead(m) \in Seq(Place) /\ Len(Ahead(m)) = 0
          BY <3>2, <4>1, <4>3, <4>4, AheadPlaces
        <4>6. QED
          BY <4>5
      <3>7. Ahead(r) = <<>>
        <4>1. Ahead(r) \in Seq(Place) /\ Len(Ahead(r)) = 0
          BY <1>2, <2>1, AheadType DEF ReaderOK
        <4>2. QED
          BY <4>1
      <3>8. \A b \in 1 .. g : b \in 1 .. w
        BY <1>5
      <3>9. QED
        BY <3>2, <3>3, <3>4, <3>5, <3>6, <3>7, <3>8
    <2>2. CASE r.readLeft # 0
      <3>1. m.at = r.at /\ m.offset = r.offset /\ Len(m.blocks) = w
        BY <1>7, <1>11, <1>14, <2>2
      <3>2. r.at <= g /\ r.offset < Len(r.blocks[r.at].data) /\ r.at \in 1 .. g
        <4>1. r.readLeft > 0 /\ CursorInBounds(r)
          BY <1>2, <2>2 DEF ReaderOK
        <4>2. QED
          BY <1>1, <1>2, <4>1 DEF CursorInBounds
      <3>3. CursorInBounds(m)
        <4>1. r.at <= w
          BY <1>2, <1>5, <3>2
        <4>2. QED
          BY <1>17, <3>1, <3>2, <4>1 DEF CursorInBounds
      <3>4. Shape(m)
        <4>1. r.at <= w + 1
          BY <1>2, <1>5, <3>2
        <4>2. m.offset <= Len(m.blocks[m.at].data)
          <5>1. PICK a \in 1 .. g : a = r.at /\ r.offset < Len(r.blocks[a].data)
            BY <3>2
          <5>2. m.blocks[a] = r.blocks[a] /\ Len(r.blocks[a].data) \in Nat
            BY <1>8, <1>17
          <5>3. r.offset <= Len(r.blocks[a].data)
            BY <1>2, <5>1, <5>2, SMTT(20)
          <5>4. QED
            BY <3>1, <5>1, <5>2, <5>3
        <4>3. QED
          BY <1>14, <3>1, <4>1, <4>2 DEF Shape
      <3>5. CASE w = g
        <4>1. SamePlace(m, r)
          BY <1>1, <1>14, <1>17, <3>1, <3>5 DEF SamePlace
        <4>2. QED
          BY <1>1, <1>2, <3>3, <3>5, <4>1, SamePlaceAhead
      <3>6. CASE w = g + 1
        <4>1. \A b \in 1 .. g : /\ From(m, b) = From(r, b) /\ UnreadIn(m, b) = UnreadIn(r, b)
                                /\ AheadIn(m, b) = AheadIn(r, b)
          <5>1. SUFFICES ASSUME NEW b \in 1 .. g
                         PROVE  /\ From(m, b) = From(r, b) /\ UnreadIn(m, b) = UnreadIn(r, b)
                                /\ AheadIn(m, b) = AheadIn(r, b)
            OBVIOUS
          <5>2. From(m, b) = From(r, b) /\ m.blocks[b].data = r.blocks[b].data
            BY <1>17, <3>1 DEF From
          <5>3. UnreadIn(m, b) = UnreadIn(r, b)
            BY <3>1, <5>2 DEF UnreadIn
          <5>4. AheadIn(m, b) = AheadIn(r, b)
            BY <5>2, Zenon DEF AheadIn
          <5>5. QED
            BY <5>2, <5>3, <5>4
        <4>2. m.blocks[w].data = <<>> /\ From(m, w) = 0 /\ Len(m.blocks[w].data) = 0
          <5>1. w # r.at
            BY <3>2, <3>6
          <5>2. QED
            BY <1>6, <1>7, <1>10, <1>14, <3>1, <3>6, <5>1 DEF From
        <4>3. UnreadIn(m, w) = 0
          BY <4>2 DEF UnreadIn
        <4>4. AheadIn(m, Len(m.blocks)) = <<>>
          <5>1. 1 .. (0 - 0) = {}
            OBVIOUS
          <5>2. QED
            BY <3>1, <4>2, <5>1 DEF AheadIn
        <4>5. PICK n \in Nat : n = Rest(r) /\ Rest(m) = n + 1
          BY <1>1, <1>2, <3>1, <3>2, <3>6, SMTT(20) DEF Rest
        <4>6. PICK p : p = [k \in 1 .. n |-> AheadIn(m, m.at + k - 1)]
          OBVIOUS
        <4>7. /\ p \in Seq(Seq(Place))
              /\ Ahead(m) = FlattenSeq(p) \o AheadIn(m, Len(m.blocks))
          BY <3>4, <4>5, <4>6, AheadLast
        <4>8. p = [k \in 1 .. n |-> AheadIn(r, r.at + k - 1)]
          <5>1. \A k \in 1 .. n : r.at + k - 1 \in 1 .. g
            BY <1>1, <1>2, <4>5, RestType
          <5>2. QED
            BY <3>1, <4>1, <4>6, <5>1
        <4>9. Ahead(r) = FlattenSeq(p)
          BY <4>5, <4>8 DEF Ahead, Rest
        <4>10. FlattenSeq(p) \in Seq(Place)
          BY <4>7, FlattenType
        <4>11. Ahead(m) = Ahead(r)
          BY <4>4, <4>7, <4>9, <4>10, ConcatEmptySeq
        <4>12. \A b \in 1 .. w : b \notin 1 .. g => b = w
          BY <3>6
        <4>13. QED
          BY <3>3, <3>4, <4>1, <4>3, <4>11, <4>12
      <3>7. QED
        BY <1>5, <3>5, <3>6
    <2>3. QED
      BY <2>1, <2>2
  <1>19. ReaderOK(m)
    <2>1. m.readLeft = Len(Ahead(m))
      BY <1>14, <1>18 DEF ReaderOK
    <2>2. QED
      BY <1>7, <1>14, <1>16, <1>18, <2>1 DEF ReaderOK
  <1>20. \A b \in 1 .. g : Balance(m, b) = Balance(r, b)
    BY <1>17, <1>18 DEF Balance
  <1>21. \A b \in 1 .. w : b \notin 1 .. g => Balance(m, b) = 0
    <2>1. SUFFICES ASSUME NEW b \in 1 .. w, b \notin 1 .. g
                   PROVE  Balance(m, b) = 0
      OBVIOUS
    <2>2. b = w /\ w = g + 1
      BY <1>5, <2>1
    <2>3. m.blocks[b].refs = 0
      BY <1>6, <1>7, <1>14, <2>2
    <2>4. QED
      BY <1>18, <2>1, <2>3 DEF Balance
  <1>22. m.readLeft = 0 => m.at = m.writeAt /\ m.offset = Len(m.blocks[m.writeAt].data)
    BY <1>11, <1>14
  <1>23. Len(m.blocks) \in {g, g + 1} /\ m.writeAt \in 1 .. Len(m.blocks)
    BY <1>5, <1>7, <1>10, <1>14
  <1>24. QED
    BY <1>1, <1>7, <1>12, <1>14, <1>15, <1>17, <1>18, <1>19, <1>20, <1>21, <1>22, <1>23 DEF Prepared

\* n is m with bytes written behind the unread ones.
Written(m, n, bytes) ==
    /\ ReaderOK(n) /\ Len(n.blocks) = Len(m.blocks)
    /\ n.readLeft = m.readLeft + Len(bytes) /\ n.preferred = m.preferred
    /\ Unread(n) = Unread(m) \o bytes
    /\ \A b \in 1 .. Len(m.blocks) : Balance(n, b) = Balance(m, b)
    /\ \A b \in 1 .. Len(m.blocks) : b # Len(m.blocks) => n.blocks[b] = m.blocks[b]
    /\ n.blocks[Len(m.blocks)].data = m.blocks[Len(m.blocks)].data \o bytes

LEMMA CommitWriteWrites ==
  ASSUME NEW r, NEW m, Prepared(r, m), NEW bytes \in Seq(Byte), Len(bytes) # 0,
         Len(bytes) <= WriteLeft(m.blocks[m.writeAt])
  PROVE  Written(m, CommitWrite(m, bytes), bytes)
  <1>1. PICK w \in Nat \ {0}, l \in Nat \ {0} :
          w = m.writeAt /\ w = Len(m.blocks) /\ w \in 1 .. w /\ l = Len(bytes)
    <2>1. m.writeAt = Len(m.blocks) /\ m.writeAt \in 1 .. Len(m.blocks) /\ m.writeAt \in Nat \ {0}
      BY DEF Prepared, ReaderOK, Shape, Readers
    <2>2. Len(bytes) \in Nat
      OBVIOUS
    <2>3. QED
      BY <2>1, <2>2
  <1>2. /\ ReaderOK(m) /\ Shape(m) /\ m \in Readers /\ m.blocks \in Seq(Block)
        /\ m.readLeft \in Nat /\ m.offset \in Nat /\ m.at \in Nat \ {0}
        /\ m.readLeft = 0 => m.at = w /\ m.offset = Len(m.blocks[w].data)
    BY <1>1 DEF Prepared, ReaderOK, Shape, Readers
  <1>3. PICK k \in Block, d \in Seq(Byte), c \in Nat, e \in Nat, f \in Int :
          /\ k = m.blocks[w] /\ d = k.data /\ c = k.capacity /\ e = Len(d) /\ f = k.refs
    <2>1. m.blocks[w] \in Block
      BY <1>1, <1>2
    <2>2. \A k \in Block : k.data \in Seq(Byte) /\ k.capacity \in Nat /\ Len(k.data) \in Nat
                           /\ k.refs \in Int
      BY DEF Block
    <2>3. QED
      BY <2>1, <2>2
  <1>4. l <= c - e
    BY <1>1, <1>3 DEF WriteLeft
  <1>5. PICK kn \in Block : /\ kn = Occupied(k, bytes)
                            /\ kn.data = d \o bytes /\ kn.refs = f + l /\ kn.capacity = c
                            /\ Len(kn.data) = e + l
    <2>1. PICK x \in Seq(Byte) : x = d \o bytes /\ Len(x) = e + l
      <3>1. PICK x \in Seq(Byte) : Concat(x, d, bytes, Len(d), Len(bytes))
        BY ConcatParts
      <3>2. QED
        BY <1>1, <1>3, <3>1 DEF Concat
    <2>2. Occupied(k, bytes) = [k EXCEPT !.data = x, !.refs = f + l]
      BY <1>1, <1>3, <2>1 DEF Occupied
    <2>3. f + l \in Int
      BY ONLY f \in Int, l \in Nat \ {0}
    <2>4. [k EXCEPT !.data = x, !.refs = f + l] \in Block
      BY <2>3 DEF Block
    <2>5. QED
      BY <1>3, <2>1, <2>2, <2>4 DEF Block
  <1>6. PICK blocks \in Seq(Block) :
          /\ blocks = [m.blocks EXCEPT ![w] = kn] /\ Len(blocks) = w /\ blocks[w] = kn
          /\ \A b \in 1 .. w : b # w => blocks[b] = m.blocks[b]
    <2>1. PICK t \in Seq(Block) : t = m.blocks /\ Len(t) = w
      BY <1>1, <1>2
    <2>2. /\ [t EXCEPT ![w] = kn] \in Seq(Block) /\ Len([t EXCEPT ![w] = kn]) = w
          /\ [t EXCEPT ![w] = kn][w] = kn
          /\ \A b \in 1 .. w : b # w => [t EXCEPT ![w] = kn][b] = t[b]
      BY ONLY <2>1, t \in Seq(Block), kn \in Block, w \in Nat \ {0}
    <2>3. PICK bs \in Seq(Block) :
            /\ bs = [t EXCEPT ![w] = kn] /\ Len(bs) = w /\ bs[w] = kn
            /\ \A b \in 1 .. w : b # w => bs[b] = t[b]
      BY <2>2
    <2>4. bs = [m.blocks EXCEPT ![w] = kn] /\ \A b \in 1 .. w : b # w => bs[b] = m.blocks[b]
      BY <2>1, <2>3, Zenon
    <2>5. QED
      BY <2>3, <2>4, Zenon
  <1>7. PICK wn \in Nat \ {0} :
          wn = (IF Len(kn.data) + Len(bytes) = kn.capacity THEN w + 1 ELSE w)
          /\ wn \in {w, w + 1}
    OBVIOUS
  <1>8. PICK n : n = CommitWrite(m, bytes)
    OBVIOUS
  <1>9. n = [m EXCEPT !.blocks = blocks, !.writeAt = wn, !.readLeft = m.readLeft + l]
    BY <1>1, <1>2, <1>3, <1>5, <1>6, <1>7, <1>8, Zenon DEF CommitWrite, Readers
  <1>10. /\ n \in Readers /\ n.blocks = blocks /\ n.writeAt = wn /\ n.at = m.at
         /\ n.offset = m.offset /\ n.readLeft = m.readLeft + l /\ n.preferred = m.preferred
    <2>1. m.readLeft + l \in Nat
      BY <1>2
    <2>2. QED
      BY <1>2, <1>9, <2>1 DEF Readers
  <1>11. m.at \in 1 .. w /\ m.offset <= Len(m.blocks[m.at].data)
    <2>1. CASE m.readLeft = 0
      BY <1>1, <1>2, <1>3, <2>1
    <2>2. CASE m.readLeft # 0
      <3>1. m.readLeft > 0 /\ CursorInBounds(m)
        BY <1>2, <2>2 DEF ReaderOK
      <3>2. m.at \in 1 .. w
        BY <1>1, <1>2, <3>1 DEF CursorInBounds
      <3>3. QED
        BY <1>1, <1>2, <3>2 DEF Shape
    <2>3. QED
      BY <2>1, <2>2
  <1>12. \A b \in 1 .. w : /\ b # w => blocks[b].data = m.blocks[b].data
                           /\ Len(blocks[b].data) = Len(m.blocks[b].data) + IF b = w THEN l ELSE 0
                           /\ Len(m.blocks[b].data) \in Nat
    <2>1. \A b \in 1 .. w : Len(m.blocks[b].data) \in Nat
      BY <1>1, <1>2, BlockType
    <2>2. ASSUME NEW b \in 1 .. w
          PROVE  /\ b # w => blocks[b].data = m.blocks[b].data
                 /\ Len(blocks[b].data) = Len(m.blocks[b].data) + IF b = w THEN l ELSE 0
      <3>1. CASE b = w
        <4>1. Len(blocks[b].data) = e + l /\ Len(m.blocks[b].data) = e
          BY <1>3, <1>5, <1>6, <3>1
        <4>2. QED
          BY <3>1, <4>1
      <3>2. CASE b # w
        <4>1. blocks[b] = m.blocks[b]
          BY <1>6, <3>2
        <4>2. PICK x \in Nat : x = Len(m.blocks[b].data)
          BY <2>1
        <4>3. x = x + 0
          BY ONLY x \in Nat
        <4>4. QED
          BY <3>2, <4>1, <4>2, <4>3, Zenon
      <3>3. QED
        BY <3>1, <3>2
    <2>3. QED
      BY <2>1, <2>2
  <1>13. Shape(n)
    <2>1. m.offset <= Len(blocks[m.at].data)
      <3>1. PICK x \in Nat, y \in Nat, z \in Nat :
              /\ x = m.offset /\ y = Len(m.blocks[m.at].data) /\ z = IF m.at = w THEN l ELSE 0
              /\ x <= y
        BY <1>2, <1>11, <1>12
      <3>2. x <= y + z
        <4>1. x <= y
          BY <3>1
        <4>2. QED
          BY ONLY <4>1, x \in Nat, y \in Nat, z \in Nat
      <3>3. QED
        BY <1>11, <1>12, <3>1, <3>2
    <2>2. m.at <= w + 1
      BY <1>11
    <2>3. QED
      BY <1>6, <1>10, <2>1, <2>2 DEF Shape
  <1>14. CursorInBounds(n)
    <2>1. m.at <= w
      BY <1>11
    <2>2. m.offset < Len(blocks[m.at].data)
      <3>1. CASE m.readLeft = 0
        <4>1. m.at = w /\ m.offset = e /\ Len(blocks[w].data) = e + l
          BY <1>2, <1>3, <1>5, <1>6, <3>1
        <4>2. QED
          BY <4>1
      <3>2. CASE m.readLeft # 0
        <4>1. m.readLeft > 0 /\ CursorInBounds(m)
          BY <1>2, <3>2 DEF ReaderOK
        <4>2. PICK x \in Nat, y \in Nat, z \in Nat :
                /\ x = m.offset /\ y = Len(m.blocks[m.at].data) /\ z = IF m.at = w THEN l ELSE 0
                /\ x < y
          BY <1>2, <1>11, <1>12, <4>1 DEF CursorInBounds
        <4>3. x < y + z
          <5>1. x < y
            BY <4>2
          <5>2. QED
            BY ONLY <5>1, x \in Nat, y \in Nat, z \in Nat
        <4>4. QED
          BY <1>11, <1>12, <4>2, <4>3
      <3>3. QED
        BY <3>1, <3>2
    <2>3. QED
      BY <1>6, <1>10, <2>1, <2>2 DEF CursorInBounds
  <1>15. \A b \in 1 .. w : /\ From(n, b) = From(m, b)
                           /\ UnreadIn(n, b) = UnreadIn(m, b) + IF b = w THEN l ELSE 0
                           /\ b # w => AheadIn(n, b) = AheadIn(m, b)
    <2>1. SUFFICES ASSUME NEW b \in 1 .. w
                   PROVE  /\ From(n, b) = From(m, b)
                          /\ UnreadIn(n, b) = UnreadIn(m, b) + IF b = w THEN l ELSE 0
                          /\ b # w => AheadIn(n, b) = AheadIn(m, b)
      OBVIOUS
    <2>2. From(n, b) = From(m, b)
      BY <1>10 DEF From
    <2>3. b # w => AheadIn(n, b) = AheadIn(m, b)
      <3>1. b # w => n.blocks[b].data = m.blocks[b].data
        BY <1>10, <1>12
      <3>2. QED
        BY <2>2, <3>1, Zenon DEF AheadIn
    <2>4. UnreadIn(n, b) = UnreadIn(m, b) + IF b = w THEN l ELSE 0
      <3>1. CASE b < m.at
        <4>1. b # w
          BY <1>11, <3>1
        <4>2. QED
          BY <1>10, <3>1, <4>1 DEF UnreadIn
      <3>2. CASE ~ (b < m.at)
        <4>1. PICK x \in Nat, y \in Nat, z \in Nat :
                x = Len(m.blocks[b].data) /\ y = From(m, b) /\ z = IF b = w THEN l ELSE 0
          BY <1>1, <1>2, <1>12, UnreadType
        <4>2. UnreadIn(m, b) = x - y /\ UnreadIn(n, b) = (x + z) - y
          BY <1>10, <1>12, <2>2, <3>2, <4>1 DEF UnreadIn
        <4>3. (x + z) - y = (x - y) + z
          OBVIOUS
        <4>4. QED
          BY <4>1, <4>2, <4>3, Zenon
      <3>3. QED
        BY <3>1, <3>2
    <2>5. QED
      BY <2>2, <2>3, <2>4
  <1>16. PICK g \in Nat : /\ g \in 0 .. e /\ g = From(m, w) /\ g = From(n, w)
    <2>1. UnreadIn(m, w) \in Nat /\ From(m, w) \in Nat
          /\ UnreadIn(m, w) = Len(m.blocks[w].data) - From(m, w)
      <3>1. w \in 1 .. Len(m.blocks) /\ w >= m.at
        BY <1>1, <1>11
      <3>2. QED
        BY <1>2, <3>1, UnreadType
    <2>2. Len(m.blocks[w].data) = e
      BY <1>3
    <2>3. QED
      BY <1>1, <1>15, <2>1, <2>2
  <1>17. PICK new \in Seq(Place) :
           /\ Len(new) = l /\ \A i \in 1 .. l : new[i].byte = bytes[i]
           /\ AheadIn(n, w) = AheadIn(m, w) \o new
    <2>1. PICK new : new = [i \in 1 .. l |-> [block |-> w, end |-> e + i, byte |-> bytes[i]]]
      OBVIOUS
    <2>2. new \in Seq(Place) /\ Len(new) = l
      <3>1. \A i \in 1 .. l : bytes[i] \in Byte
        BY <1>1
      <3>2. new \in [1 .. l -> Place]
        BY <2>1, <3>1 DEF Place
      <3>3. QED
        BY <3>2, SeqMade
    <2>3. PICK dn \in Seq(Byte) : /\ dn = kn.data /\ Len(dn) = e + l
                                  /\ \A i \in 1 .. e : dn[i] = d[i]
                                  /\ \A i \in 1 .. l : dn[e + i] = bytes[i]
      <3>1. /\ d \o bytes \in Seq(Byte)
            /\ \A i \in 1 .. Len(d) : (d \o bytes)[i] = d[i]
            /\ \A i \in 1 .. Len(bytes) : (d \o bytes)[Len(d) + i] = bytes[i]
        BY ConcatProperties
      <3>2. PICK x \in Seq(Byte) : x = d \o bytes
        BY <3>1
      <3>3. /\ \A i \in 1 .. e : x[i] = d[i]
            /\ \A i \in 1 .. l : x[e + i] = bytes[i]
        BY <1>1, <1>3, <3>1, <3>2
      <3>4. QED
        BY <1>5, <3>2, <3>3
    <2>4. AheadIn(m, w) = [i \in 1 .. e - g |-> [block |-> w, end |-> g + i, byte |-> d[g + i]]]
      BY <1>3, <1>16 DEF AheadIn
    <2>5. AheadIn(n, w) = [i \in 1 .. e + l - g |-> [block |-> w, end |-> g + i, byte |-> dn[g + i]]]
      <3>1. n.blocks[w].data = dn /\ Len(n.blocks[w].data) = e + l /\ From(n, w) = g
        BY <1>6, <1>10, <1>16, <2>3, Zenon
      <3>2. AheadIn(n, w) = [i \in 1 .. Len(n.blocks[w].data) - From(n, w) |->
                               [block |-> w, end |-> From(n, w) + i,
                                byte |-> n.blocks[w].data[From(n, w) + i]]]
        BY Zenon DEF AheadIn
      <3>3. QED
        BY <3>1, <3>2
    <2>6. PICK x \in Seq(Place), y \in Seq(Place) :
            /\ x = AheadIn(m, w) /\ y = AheadIn(n, w)
      <3>1. w \in m.at .. Len(m.blocks) /\ w \in n.at .. Len(n.blocks)
        BY <1>1, <1>6, <1>10, <1>11
      <3>2. QED
        BY <1>2, <1>13, <3>1, AheadInType
    <2>7. Len(x) = e - g /\ Len(y) = e + l - g
      <3>1. e - g \in Nat /\ e + l - g \in Nat
        BY <1>16, SMTT(20)
      <3>2. QED
        BY <2>4, <2>5, <2>6, <3>1
    <2>8. PICK z \in Seq(Place) : /\ z = x \o new /\ Len(z) = e + l - g
                                  /\ \A i \in 1 .. e - g : z[i] = x[i]
                                  /\ \A i \in 1 .. l : z[e - g + i] = new[i]
      <3>1. PICK nw \in Seq(Place) : nw = new
        BY <2>2
      <3>2. PICK z \in Seq(Place) : Concat(z, x, nw, Len(x), Len(nw))
        BY ConcatParts
      <3>3. Len(x) = e - g /\ Len(nw) = l
        BY <2>2, <2>7, <3>1
      <3>4. Concat(z, x, new, e - g, l)
        BY <3>1, <3>2, <3>3, Zenon
      <3>5. (e - g) + l = e + l - g
        BY ONLY <1>16, e \in Nat, g \in Nat, l \in Nat \ {0}
      <3>6. QED
        BY <3>4, <3>5, Zenon DEF Concat
    <2>9. ASSUME NEW i \in 1 .. e + l - g
          PROVE  y[i] = z[i]
      <3>1. y[i] = [block |-> w, end |-> g + i, byte |-> dn[g + i]]
        BY <2>5, <2>6
      <3>2. CASE i <= e - g
        <4>1. i \in 1 .. e - g /\ g + i \in 1 .. e
          <5>1. g \in 0 .. e /\ i \in 1 .. e + l - g
            BY <1>16
          <5>2. QED
            BY ONLY <3>2, <5>1, e \in Nat, g \in Nat, l \in Nat \ {0}
        <4>2. z[i] = x[i] /\ dn[g + i] = d[g + i]
          BY <2>3, <2>8, <4>1
        <4>3. x[i] = [block |-> w, end |-> g + i, byte |-> d[g + i]]
          BY <2>4, <2>6, <4>1
        <4>4. QED
          BY <3>1, <4>2, <4>3, Zenon
      <3>3. CASE ~ (i <= e - g)
        <4>1. PICK j \in 1 .. l : i = e - g + j /\ g + i = e + j
          <5>1. g \in 0 .. e /\ i \in 1 .. e + l - g
            BY <1>16
          <5>2. i - (e - g) \in 1 .. l /\ i = e - g + (i - (e - g)) /\ g + i = e + (i - (e - g))
            BY ONLY <3>3, <5>1, e \in Nat, g \in Nat, l \in Nat \ {0}
          <5>3. QED
            BY <5>2
        <4>2. z[i] = new[j] /\ dn[e + j] = bytes[j]
          BY <2>3, <2>8, <4>1
        <4>3. new[j] = [block |-> w, end |-> e + j, byte |-> bytes[j]]
          BY <2>1
        <4>4. QED
          BY <3>1, <4>1, <4>2, <4>3, Zenon
      <3>4. QED
        BY <3>2, <3>3
    <2>10. y = z
      BY <2>7, <2>8, <2>9, SeqEqual
    <2>11. \A i \in 1 .. l : new[i].byte = bytes[i]
      BY <2>1
    <2>12. QED
      BY <2>2, <2>6, <2>8, <2>10, <2>11
  <1>18. Ahead(n) = Ahead(m) \o new
    <2>1. PICK q \in Nat : Rest(m) = q + 1 /\ Rest(n) = q + 1 /\ q = w - m.at
      <3>1. w - m.at \in Nat
        BY <1>11
      <3>2. QED
        BY <1>1, <1>6, <1>10, <3>1 DEF Rest
    <2>2. PICK p : p = [k2 \in 1 .. q |-> AheadIn(m, m.at + k2 - 1)]
      OBVIOUS
    <2>3. p = [k2 \in 1 .. q |-> AheadIn(n, n.at + k2 - 1)]
      <3>1. \A k2 \in 1 .. q : m.at + k2 - 1 \in 1 .. w /\ m.at + k2 - 1 # w
        <4>1. PICK a \in Nat : a = m.at /\ a \in 1 .. w /\ q = w - a
          BY <1>11, <2>1
        <4>2. \A k2 \in 1 .. q : a + k2 - 1 \in 1 .. w /\ a + k2 - 1 # w
          <5>1. a \in 1 .. w /\ q = w - a
            BY <4>1
          <5>2. QED
            BY ONLY <5>1, a \in Nat, q \in Nat, w \in Nat \ {0}
        <4>3. QED
          BY <4>1, <4>2, Zenon
      <3>2. QED
        BY <1>10, <1>15, <2>2, <3>1
    <2>4. /\ p \in Seq(Seq(Place)) /\ AheadIn(m, w) \in Seq(Place)
          /\ Ahead(m) = FlattenSeq(p) \o AheadIn(m, w)
      BY <1>1, <1>2, <2>1, <2>2, AheadLast
    <2>5. Ahead(n) = FlattenSeq(p) \o AheadIn(n, w)
      <3>1. Len(n.blocks) = w
        BY <1>6, <1>10
      <3>2. Ahead(n) = FlattenSeq(p) \o AheadIn(n, Len(n.blocks))
        BY ONLY <1>13, <2>1, <2>3, q \in Nat, AheadLast
      <3>3. QED
        BY <3>1, <3>2, Zenon
    <2>6. PICK x \in Seq(Place), y \in Seq(Place), z \in Seq(Place) :
            x = FlattenSeq(p) /\ y = AheadIn(m, w) /\ z = new
      BY <1>17, <2>4, FlattenType
    <2>7. Associates(x, y, z)
      BY ConcatThree
    <2>8. QED
      BY <1>17, <2>4, <2>5, <2>6, <2>7, Zenon DEF Associates
  <1>19. PICK rl \in Nat, a \in Seq(Place), an \in Seq(Place) :
           /\ rl = m.readLeft /\ a = Ahead(m) /\ an = Ahead(n) /\ Len(a) = rl
           /\ Len(an) = rl + l
           /\ \A i \in 1 .. rl : an[i] = a[i]
           /\ \A i \in 1 .. l : an[rl + i] = new[i]
    <2>1. PICK a \in Seq(Place) : a = Ahead(m) /\ Len(a) = m.readLeft
      BY <1>2, AheadType DEF ReaderOK
    <2>2. /\ a \o new \in Seq(Place) /\ Len(a \o new) = Len(a) + Len(new)
          /\ \A i \in 1 .. Len(a) : (a \o new)[i] = a[i]
          /\ \A i \in 1 .. Len(new) : (a \o new)[Len(a) + i] = new[i]
      BY ConcatProperties
    <2>3. PICK an \in Seq(Place) : an = a \o new
      BY <2>2
    <2>4. /\ Len(an) = m.readLeft + l
          /\ \A i \in 1 .. m.readLeft : an[i] = a[i]
          /\ \A i \in 1 .. l : an[m.readLeft + i] = new[i]
      BY <1>17, <2>1, <2>2, <2>3
    <2>5. an = Ahead(n)
      BY <1>18, <2>1, <2>3
    <2>6. QED
      BY <1>2, <2>1, <2>4, <2>5, ZenonT(30)
  <1>20. n.readLeft = Len(Ahead(n))
    BY <1>10, <1>19
  <1>21. ReaderOK(n)
    <2>1. \A b \in 1 .. w : Len(blocks[b].data) <= blocks[b].capacity
      <3>1. SUFFICES ASSUME NEW b \in 1 .. w PROVE Len(blocks[b].data) <= blocks[b].capacity
        OBVIOUS
      <3>2. CASE b = w
        BY <1>4, <1>5, <1>6, <3>2
      <3>3. CASE b # w
        BY <1>1, <1>2, <1>6, <3>3 DEF ReaderOK
      <3>4. QED
        BY <3>2, <3>3
    <2>2. \A b \in 1 .. w : b < wn => blocks[b].data # <<>>
      <3>1. SUFFICES ASSUME NEW b \in 1 .. w PROVE blocks[b].data # <<>>
        OBVIOUS
      <3>2. CASE b = w
        <4>1. Len(blocks[b].data) = e + l
          BY <1>5, <1>6, <3>2, Zenon
        <4>2. e + l # 0
          BY ONLY e \in Nat, l \in Nat \ {0}
        <4>3. Len(<<>>) = 0
          OBVIOUS
        <4>4. QED
          BY <4>1, <4>2, <4>3, Zenon
      <3>3. CASE b # w
        <4>1. b < m.writeAt
          BY <1>1, <3>3
        <4>2. QED
          BY <1>1, <1>2, <1>6, <3>3, <4>1 DEF ReaderOK
      <3>4. QED
        BY <3>2, <3>3
    <2>3. QED
      BY <1>6, <1>7, <1>10, <1>13, <1>14, <1>20, <2>1, <2>2 DEF ReaderOK
  <1>22. Unread(n) = Unread(m) \o bytes
    <2>1. PICK u \in Seq(Byte), un \in Seq(Byte) :
            /\ u = Unread(m) /\ un = Unread(n) /\ Len(u) = rl /\ Len(un) = rl + l
            /\ \A i \in 1 .. rl : u[i] = a[i].byte
            /\ \A i \in 1 .. rl + l : un[i] = an[i].byte
      <3>1. /\ Unread(m) \in Seq(Byte) /\ Len(Unread(m)) = rl
            /\ \A i \in 1 .. rl : Unread(m)[i] = a[i].byte
        BY <1>2, <1>19, UnreadBytes
      <3>2. n.readLeft = rl + l
        BY <1>10, <1>19
      <3>3. /\ Unread(n) \in Seq(Byte) /\ Len(Unread(n)) = rl + l
            /\ \A i \in 1 .. rl + l : Unread(n)[i] = an[i].byte
        BY <1>19, <1>21, <3>2, UnreadBytes
      <3>4. QED
        BY <3>1, <3>3
    <2>2. PICK x \in Seq(Byte) : /\ x = u \o bytes /\ Len(x) = rl + l
                                 /\ \A i \in 1 .. rl : x[i] = u[i]
                                 /\ \A i \in 1 .. l : x[rl + i] = bytes[i]
      <3>1. /\ u \o bytes \in Seq(Byte) /\ Len(u \o bytes) = Len(u) + Len(bytes)
            /\ \A i \in 1 .. Len(u) : (u \o bytes)[i] = u[i]
            /\ \A i \in 1 .. Len(bytes) : (u \o bytes)[Len(u) + i] = bytes[i]
        BY ConcatProperties, SMTT(20)
      <3>2. PICK x \in Seq(Byte) : x = u \o bytes
        BY <3>1
      <3>3. QED
        BY <1>1, <2>1, <3>1, <3>2
    <2>3. ASSUME NEW i \in 1 .. rl + l
          PROVE  un[i] = x[i]
      <3>1. CASE i <= rl
        <4>1. i \in 1 .. rl
          BY <3>1
        <4>2. un[i] = an[i].byte /\ an[i] = a[i] /\ x[i] = u[i] /\ u[i] = a[i].byte
          <5>1. un[i] = an[i].byte
            BY <2>1
          <5>2. an[i] = a[i]
            BY <1>19, <4>1, Zenon
          <5>3. x[i] = u[i]
            BY <2>2, <4>1, Zenon
          <5>4. u[i] = a[i].byte
            BY <2>1, <4>1, Zenon
          <5>5. QED
            BY <5>1, <5>2, <5>3, <5>4
        <4>3. QED
          BY <4>2, Zenon
      <3>2. CASE ~ (i <= rl)
        <4>1. PICK j \in 1 .. l : i = rl + j
          <5>1. i - rl \in 1 .. l /\ i = rl + (i - rl)
            BY <3>2
          <5>2. QED
            BY <5>1
        <4>2. un[i] = new[j].byte /\ x[i] = bytes[j]
          BY <1>19, <2>1, <2>2, <4>1, ZenonT(30)
        <4>3. QED
          BY <1>17, <4>2
      <3>3. QED
        BY <3>1, <3>2
    <2>4. un = x
      BY <2>1, <2>2, <2>3, SeqEqual
    <2>5. QED
      BY <2>1, <2>2, <2>4
  <1>23. ASSUME NEW b \in 1 .. w
         PROVE  Balance(n, b) = Balance(m, b)
    <2>1. PICK x \in Int, y \in Nat, z \in Nat :
            x = m.blocks[b].refs /\ y = UnreadIn(m, b) /\ z = IF b = w THEN l ELSE 0
      BY <1>1, <1>2, BalanceType
    <2>2. n.blocks[b].refs = x + z
      <3>1. CASE b = w
        BY <1>3, <1>5, <1>6, <1>10, <2>1, <3>1
      <3>2. CASE b # w
        BY <1>6, <1>10, <2>1, <3>2
      <3>3. QED
        BY <3>1, <3>2
    <2>3. UnreadIn(n, b) = y + z
      BY <1>15, <2>1
    <2>4. (x + z) - (y + z) = x - y
      OBVIOUS
    <2>5. QED
      BY <2>1, <2>2, <2>3, <2>4, Zenon DEF Balance
  <1>24. QED
    BY <1>1, <1>3, <1>5, <1>6, <1>8, <1>10, <1>21, <1>22, <1>23 DEF Written

-----------------------------------------------------------------------------
(* A reader that starts again, and the size that it prefers.               *)

LEMMA ResetReaderEmpties ==
  ASSUME NEW r, ReaderOK(r)
  PROVE  /\ ReaderOK(ResetReader(r)) /\ Len(ResetReader(r).blocks) \in 0 .. 1
         /\ \A b \in 1 .. Len(ResetReader(r).blocks) : Balance(ResetReader(r), b) = 0
  <1>1. /\ r \in Readers /\ r.blocks \in Seq(Block) /\ Shape(r)
    BY DEF ReaderOK, Shape, Readers
  <1>2. PICK m : m = ResetReader(r)
    OBVIOUS
  <1>3. PICK bs : bs = IF r.blocks = <<>> THEN <<>> ELSE <<NewBlock(r.blocks[1].capacity)>>
    OBVIOUS
  <1>4. /\ bs \in Seq(Block) /\ Len(bs) \in 0 .. 1
        /\ \A b \in 1 .. Len(bs) : b = 1 /\ bs[b].data = <<>> /\ bs[b].refs = 0 /\ Len(bs[b].data) = 0
                                   /\ 0 <= bs[b].capacity
    <2>1. CASE r.blocks = <<>>
      <3>1. bs = <<>>
        BY <1>3, <2>1
      <3>2. <<>> \in Seq(Block) /\ Len(<<>>) = 0
        OBVIOUS
      <3>3. QED
        BY <3>1, <3>2
    <2>2. CASE r.blocks # <<>>
      <3>1. 1 \in 1 .. Len(r.blocks)
        BY <1>1, <2>2
      <3>2. PICK c \in Nat \ {0} : c = r.blocks[1].capacity
        BY <1>1, <3>1, BlockType DEF Block
      <3>3. PICK k \in Block : k = NewBlock(c) /\ k.data = <<>> /\ k.refs = 0 /\ k.capacity = c
        <4>1. NewBlock(c) \in Block
          BY DEF NewBlock, Block
        <4>2. QED
          BY <4>1 DEF NewBlock
      <3>4. bs = <<k>>
        BY <1>3, <2>2, <3>2, <3>3
      <3>5. Len(k.data) = 0 /\ 0 <= k.capacity
        BY <3>3
      <3>6. QED
        BY <3>3, <3>4, <3>5
    <2>3. QED
      BY <2>1, <2>2
  <1>5. m = [r EXCEPT !.blocks = bs, !.at = 1, !.offset = 0, !.writeAt = 1, !.readLeft = 0]
    BY <1>1, <1>2, <1>3 DEF ResetReader, Readers
  <1>6. /\ m \in Readers /\ m.blocks = bs /\ m.at = 1 /\ m.offset = 0 /\ m.writeAt = 1
        /\ m.readLeft = 0
    <2>1. PICK x \in Readers : /\ x = [r EXCEPT !.blocks = bs, !.at = 1]
                              /\ x.blocks = bs /\ x.at = 1
      <3>1. PICK bt \in Seq(Block) : bt = bs
        BY <1>4
      <3>2. PICK y : y = [r EXCEPT !.blocks = bt]
        OBVIOUS
      <3>3. y \in Readers /\ y.blocks = bt
        BY <1>1, <3>2 DEF Readers
      <3>4. PICK x : x = [y EXCEPT !.at = 1]
        OBVIOUS
      <3>5. x \in Readers /\ x.blocks = bt /\ x.at = 1
        BY <3>3, <3>4 DEF Readers
      <3>6. x = [r EXCEPT !.blocks = bs, !.at = 1]
        BY <3>1, <3>2, <3>4, Zenon
      <3>7. QED
        BY <3>1, <3>5, <3>6
    <2>2. m = [x EXCEPT !.offset = 0, !.writeAt = 1, !.readLeft = 0]
      BY <1>5, <2>1
    <2>3. QED
      BY <2>1, <2>2 DEF Readers
  <1>7. Shape(m)
    BY <1>4, <1>6 DEF Shape
  <1>8. \A b \in 1 .. Len(bs) : UnreadIn(m, b) = 0
    BY <1>4, <1>6 DEF UnreadIn, From
  <1>9. PICK t : Sums(t, UnreadFrom(m), Rest(m))
    BY <1>7, AheadType
  <1>10. PICK n \in Nat, u \in [1 .. Rest(m) -> Nat] :
           n = Rest(m) /\ n = Len(bs) /\ u = UnreadFrom(m)
    <2>1. Rest(m) \in Nat /\ UnreadFrom(m) \in [1 .. Rest(m) -> Nat]
      BY <1>7, RestType
    <2>2. Rest(m) = Len(bs)
      BY <1>4, <1>6 DEF Rest
    <2>3. QED
      BY <2>1, <2>2
  <1>11. \A k \in 1 .. n : u[k] = 0
    <2>1. SUFFICES ASSUME NEW k \in 1 .. n PROVE u[k] = 0
      OBVIOUS
    <2>2. u[k] = UnreadIn(m, m.at + k - 1) /\ m.at + k - 1 = k
      <3>1. u = [i \in 1 .. n |-> UnreadIn(m, m.at + i - 1)]
        BY <1>10, Zenon DEF UnreadFrom
      <3>2. m.at + k - 1 = k
        BY <1>6
      <3>3. QED
        BY <3>1, <3>2
    <2>3. QED
      BY <1>8, <1>10, <2>2
  <1>12. t[n] = 0
    <2>1. t[0] = 0 /\ \A k \in 1 .. n : t[k] = t[k - 1] + u[k]
      BY <1>9, <1>10 DEF Sums
    <2>2. CASE n = 0
      BY <2>1, <2>2
    <2>3. CASE n # 0
      <3>1. n = 1
        BY <1>4, <1>10, <2>3
      <3>2. t[1] = t[0] + u[1] /\ u[1] = 0
        <4>1. 1 \in 1 .. n /\ 1 - 1 = 0
          BY <3>1
        <4>2. t[1] = t[1 - 1] + u[1] /\ u[1] = 0
          BY <1>11, <2>1, <4>1
        <4>3. QED
          BY <4>1, <4>2
      <3>3. QED
        BY <2>1, <3>1, <3>2
    <2>4. QED
      BY <2>2, <2>3
  <1>13. m.readLeft = Len(Ahead(m))
    BY <1>6, <1>7, <1>9, <1>10, <1>12, AheadPlaces
  <1>14. CursorInBounds(m)
    BY <1>6 DEF CursorInBounds
  <1>15. ReaderOK(m)
    BY <1>4, <1>6, <1>7, <1>13, <1>14 DEF ReaderOK
  <1>16. \A b \in 1 .. Len(bs) : Balance(m, b) = 0
    BY <1>4, <1>6, <1>8 DEF Balance
  <1>17. QED
    BY <1>2, <1>4, <1>6, <1>15, <1>16

\* m is r but for the size that it prefers.
Prefers(r, m) ==
    /\ ReaderOK(m) /\ m.blocks = r.blocks /\ m.readLeft = r.readLeft /\ Ahead(m) = Ahead(r)
    /\ \A b \in 1 .. Len(r.blocks) : Balance(m, b) = Balance(r, b)

LEMMA PreferredFree ==
  ASSUME NEW r, ReaderOK(r), NEW size \in Nat
  PROVE  Prefers(r, [r EXCEPT !.preferred = size])
  <1>1. /\ r \in Readers /\ Shape(r) /\ r.readLeft \in Nat
    BY DEF ReaderOK, Shape, Readers
  <1>2. PICK m : m = [r EXCEPT !.preferred = size]
    OBVIOUS
  <1>3. /\ m \in Readers /\ m.blocks = r.blocks /\ m.at = r.at /\ m.offset = r.offset
        /\ m.writeAt = r.writeAt /\ m.readLeft = r.readLeft
    BY <1>1, <1>2 DEF Readers
  <1>4. SamePlace(m, r)
    BY <1>3 DEF SamePlace
  <1>5. /\ Shape(m) /\ Ahead(m) = Ahead(r)
        /\ \A b \in 1 .. Len(r.blocks) : UnreadIn(m, b) = UnreadIn(r, b)
    BY <1>1, <1>4, SamePlaceAhead
  <1>6. CursorInBounds(m)
    BY <1>3 DEF ReaderOK, CursorInBounds
  <1>7. ReaderOK(m)
    BY <1>3, <1>5, <1>6 DEF ReaderOK
  <1>8. \A b \in 1 .. Len(r.blocks) : Balance(m, b) = Balance(r, b)
    BY <1>3, <1>5 DEF Balance
  <1>9. QED
    BY <1>2, <1>3, <1>5, <1>7, <1>8 DEF Prefers

-----------------------------------------------------------------------------
(* The writer.                                                             *)

IoVec == [from : Nat, len : Nat]
Writers == [iovec : Seq(IoVec), original : Seq(IoVec), readIdx : Nat, left : Nat]

Lens(v) == [i \in 1 .. Len(v) |-> v[i].len]

LEMMA PrefixLength ==
  ASSUME NEW v \in Seq(IoVec), NEW b, Sums(b, Lens(v), Len(v)), NEW m \in 0 .. Len(v)
  PROVE  LengthOf(SubSeq(v, 1, m)) = b[m]
  <1>1. PICK s \in Seq(IoVec) : /\ s = SubSeq(v, 1, m) /\ Len(s) = m
                                /\ \A i \in 1 .. m : s[i] = v[i]
    <2>1. /\ SubSeq(v, 1, m) \in Seq(IoVec) /\ Len(SubSeq(v, 1, m)) = m
          /\ \A i \in 1 .. m : SubSeq(v, 1, m)[i] = v[i]
      BY SubSeqParts
    <2>2. QED
      BY <2>1, Zenon
  <1>2. m \in Nat /\ Len(v) \in Nat /\ \A i \in 1 .. m : i \in 1 .. Len(v)
    BY SeqParts
  <1>3. DOMAIN s = 1 .. m /\ \A i \in 1 .. m : s[i].len \in Nat
    <2>1. DOMAIN s = 1 .. m /\ \A i \in 1 .. m : s[i] \in IoVec
      BY <1>1, SeqParts
    <2>2. QED
      BY <2>1 DEF IoVec
  <1>4. PICK u : u = [i \in DOMAIN s |-> s[i].len]
    OBVIOUS
  <1>5. u \in [1 .. m -> Nat] /\ \A i \in 1 .. m : u[i] = Lens(v)[i]
    <2>1. u \in [1 .. m -> Nat]
      BY <1>3, <1>4
    <2>2. \A i \in 1 .. m : u[i] = v[i].len
      BY <1>1, <1>3, <1>4
    <2>3. \A i \in 1 .. m : Lens(v)[i] = v[i].len
      BY <1>2 DEF Lens
    <2>4. QED
      BY <2>1, <2>2, <2>3
  <1>6. u \in Seq(Nat) /\ Len(u) = m
    BY <1>2, <1>5, SeqMade
  <1>7. Sums(b, u, m)
    <2>1. b[0] = 0 /\ \A i \in 1 .. Len(v) : b[i] = b[i - 1] + Lens(v)[i]
      BY DEF Sums
    <2>2. \A i \in 1 .. m : b[i] = b[i - 1] + u[i]
      BY <1>2, <1>5, <2>1
    <2>3. QED
      BY <2>1, <2>2 DEF Sums
  <1>8. Total(u) = b[m]
    BY <1>6, <1>7, TotalSums
  <1>9. QED
    BY <1>1, <1>4, <1>8 DEF LengthOf

LEMMA TakeType ==
  ASSUME NEW w \in Writers, NEW len \in Nat
  PROVE  Take(w, len) \in Writers
  <1>1. w.iovec \in Seq(IoVec) /\ w.left \in Nat
    BY DEF Writers
  <1>2. LengthOf(w.iovec) \in Nat
    <2>1. PICK v \in Seq(IoVec) : v = w.iovec
      BY <1>1
    <2>2. PICK n \in Nat : n = Len(v) /\ DOMAIN v = 1 .. n
      BY SeqParts
    <2>3. \A i \in 1 .. n : v[i].len \in Nat
      <3>1. \A i \in 1 .. n : v[i] \in IoVec
        BY <2>2, SeqParts
      <3>2. QED
        BY <3>1 DEF IoVec
    <2>4. PICK u \in [1 .. n -> Nat] : u = [i \in DOMAIN v |-> v[i].len]
      BY <2>2, <2>3
    <2>5. u \in Seq(Nat)
      BY SeqMade
    <2>6. Total(u) \in Nat
      BY <2>5, TotalType
    <2>7. QED
      BY <2>1, <2>4, <2>6 DEF LengthOf
  <1>3. PICK x : x = [from |-> LengthOf(w.iovec) + 1, len |-> len]
    OBVIOUS
  <1>4. x \in IoVec
    BY <1>2, <1>3 DEF IoVec
  <1>5. PICK v \in Seq(IoVec) : v = Append(w.iovec, x)
    <2>1. Append(w.iovec, x) \in Seq(IoVec)
      BY <1>1, <1>4, AppendProperties
    <2>2. QED
      BY <2>1
  <1>6. PICK n \in Nat : n = w.left + 1
    BY <1>1
  <1>7. Take(w, len) = [w EXCEPT !.iovec = v, !.left = n]
    BY <1>3, <1>5, <1>6 DEF Take
  <1>8. [w EXCEPT !.iovec = v, !.left = n] \in Writers
    BY DEF Writers
  <1>9. QED
    BY <1>7, <1>8

\* Taking one buffer after the other.
LEMMA TakesRun ==
  ASSUME NEW w \in Writers, NEW s \in Seq(Nat), NEW g, g[0] = w,
         \A i \in 1 .. Len(s) : g[i] = Take(g[i - 1], s[i])
  PROVE  FoldLeft(Take, w, s) = g[Len(s)]
  <1> DEFINE n == Len(s)
             Is(c) == c = [u \in SUBSET (1 .. n) |->
                             IF u = {} THEN w ELSE Take(c[u \ {Max(u)}], s[Max(u)])]
             c0 == CHOOSE c : Is(c)
  <1>1. n \in Nat /\ DOMAIN s = 1 .. n /\ s \in [1 .. n -> Nat]
    OBVIOUS
  <1>2. FoldLeft(Take, w, s) = c0[1 .. n]
    BY <1>1 DEF FoldLeft, MapThenFoldSet
  <1> HIDE DEF n
  <1>3. \E c : Is(c)
    <2> DEFINE step == [i \in 1 .. n |-> [x \in Writers |-> Take(x, s[i])]]
    <2>1. step \in [1 .. n -> [Writers -> Writers]]
      <3>1. \A i \in 1 .. n : \A x \in Writers : Take(x, s[i]) \in Writers
        BY <1>1, TakeType
      <3>2. QED
        BY <3>1
    <2>2. \A i \in 1 .. n : \A x \in Writers : step[i][x] = Take(x, s[i])
      OBVIOUS
    <2> HIDE DEF step
    <2>3. PICK c \in [SUBSET (1 .. n) -> Writers] : Folds(c, w, step, n)
      BY <1>1, <2>1, FoldExists
    <2>4. ASSUME NEW u \in SUBSET (1 .. n), u # {}
          PROVE  step[Max(u)][c[u \ {Max(u)}]] = Take(c[u \ {Max(u)}], s[Max(u)])
      <3>1. u \in SUBSET (0 .. n)
        BY <1>1
      <3>2. Max(u) \in u
        BY <1>1, <2>4, <3>1, Greatest
      <3>3. Max(u) \in 1 .. n /\ c[u \ {Max(u)}] \in Writers
        BY <3>2
      <3>4. QED
        BY <2>2, <3>3
    <2>5. Is(c)
      BY <2>3, <2>4 DEF Folds
    <2> HIDE DEF Is
    <2>6. QED
      BY <2>5
  <1>4. Is(c0)
    <2> HIDE DEF Is
    <2>1. QED
      BY <1>3
  <1>5. \A u \in SUBSET (1 .. n) :
          c0[u] = IF u = {} THEN w ELSE Take(c0[u \ {Max(u)}], s[Max(u)])
    <2> HIDE DEF c0
    <2>1. QED
      BY <1>4
  <1> HIDE DEF c0, Is
  <1>6. \A i \in 1 .. n : g[i] = Take(g[i - 1], s[i])
    BY DEF n
  <1> DEFINE T == {i \in 0 .. n : c0[1 .. i] = g[i]}
  <1>7. 0 \in T
    <2>1. 1 .. 0 = {} /\ {} \in SUBSET (1 .. n) /\ 0 \in 0 .. n
      BY <1>1
    <2>2. c0[1 .. 0] = g[0]
      BY <1>5, <2>1
    <2>3. QED
      BY <2>1, <2>2
  <1>8. ASSUME NEW k \in 1 .. n, k - 1 \in T
        PROVE  k \in T
    <2>1. c0[1 .. k - 1] = g[k - 1]
      BY <1>8
    <2>2. 1 .. k # {} /\ Max(1 .. k) = k /\ (1 .. k) \ {Max(1 .. k)} = 1 .. k - 1
      <3>1. k \in Nat /\ k # 0
        BY <1>1
      <3>2. QED
        BY ONLY <3>1, MaxUpTo
    <2>3. 1 .. k \in SUBSET (1 .. n)
      BY <1>1
    <2>4. c0[1 .. k] = Take(c0[1 .. k - 1], s[k])
      BY <1>5, <2>2, <2>3
    <2>5. g[k] = Take(g[k - 1], s[k])
      BY <1>6
    <2>6. k \in 0 .. n
      BY <1>1
    <2>7. QED
      BY <2>1, <2>4, <2>5, <2>6
  <1> HIDE DEF T
  <1>9. \A k \in 0 .. n : k \in T
    BY <1>1, <1>7, <1>8, UpTo
  <1>10. c0[1 .. n] = g[n]
    <2>1. n \in 0 .. n
      BY <1>1
    <2>2. QED
      BY <1>9, <2>1 DEF T
  <1>11. QED
    BY <1>2, <1>10 DEF n

\* The ranges of buffers of the lengths F, t being the sums of the lengths.
Ranges(F, t) == [i \in 1 .. Len(F) |-> [from |-> t[i - 1] + 1, len |-> F[i]]]

LEMMA RangesType ==
  ASSUME NEW F \in Seq(Nat), NEW t, Sums(t, F, Len(F))
  PROVE  /\ Ranges(F, t) \in Seq(IoVec) /\ Len(Ranges(F, t)) = Len(F)
         /\ \A i \in 1 .. Len(F) : Ranges(F, t)[i] = [from |-> t[i - 1] + 1, len |-> F[i]]
         /\ Sums(t, Lens(Ranges(F, t)), Len(F))
  <1>1. PICK n \in Nat : n = Len(F) /\ F \in [1 .. n -> Nat]
    BY SeqParts
  <1>2. \A i \in 0 .. n : t[i] \in Nat
    BY <1>1, SumsGrow
  <1>3. PICK r : r = [i \in 1 .. n |-> [from |-> t[i - 1] + 1, len |-> F[i]]]
    OBVIOUS
  <1>4. r \in [1 .. n -> IoVec]
    <2>1. ASSUME NEW i \in 1 .. n
          PROVE  [from |-> t[i - 1] + 1, len |-> F[i]] \in IoVec
      <3>1. i - 1 \in 0 .. n
        BY <1>1
      <3>2. t[i - 1] + 1 \in Nat
        BY <1>2, <3>1
      <3>3. QED
        BY <1>1, <3>2 DEF IoVec
    <2>2. QED
      BY <1>3, <2>1
  <1>5. r \in Seq(IoVec) /\ Len(r) = n
    BY <1>4, SeqMade
  <1>6. \A i \in 1 .. n : r[i] = [from |-> t[i - 1] + 1, len |-> F[i]]
    BY <1>3
  <1>7. Ranges(F, t) = r
    BY <1>1, <1>3 DEF Ranges
  <1>8. Sums(t, Lens(r), n)
    <2>1. \A i \in 1 .. n : Lens(r)[i] = F[i]
      BY <1>5, <1>6 DEF Lens
    <2>2. QED
      BY <1>1, <2>1 DEF Sums
  <1>9. QED
    BY <1>1, <1>5, <1>6, <1>7, <1>8

Fresh(F, t) == [iovec |-> Ranges(F, t), original |-> <<>>, readIdx |-> 0, left |-> Len(F)]

LEMMA TakeFields ==
  ASSUME NEW v, NEW l, NEW len,
         NEW w, w = [iovec |-> v, original |-> <<>>, readIdx |-> 0, left |-> l]
  PROVE  Take(w, len) = [iovec |-> Append(v, [from |-> LengthOf(v) + 1, len |-> len]),
                         original |-> <<>>, readIdx |-> 0, left |-> l + 1]
  <1>1. PICK x, y, z, u : /\ x = LengthOf(v) + 1 /\ y = [from |-> x, len |-> len]
                          /\ z = Append(v, y) /\ u = l + 1
    OBVIOUS
  <1>2. w.iovec = v /\ w.left = l
    OBVIOUS
  <1>3. Take(w, len) = [w EXCEPT !.iovec = z, !.left = u]
    BY <1>1, <1>2, Zenon DEF Take
  <1>4. [w EXCEPT !.iovec = z, !.left = u]
          = [iovec |-> z, original |-> <<>>, readIdx |-> 0, left |-> u]
    <2> DEFINE R == [iovec : {v, z}, original : {<<>>}, readIdx : {0}, left : {l, u}]
    <2>1. w \in R
      OBVIOUS
    <2>2. PICK h \in R : h = [w EXCEPT !.iovec = z, !.left = u]
      BY ONLY <2>1
    <2>3. h.iovec = z /\ h.left = u /\ h.original = <<>> /\ h.readIdx = 0
      BY ONLY <2>1, <2>2
    <2>4. h = [iovec |-> z, original |-> <<>>, readIdx |-> 0, left |-> u]
      BY <2>3
    <2>5. QED
      BY <2>2, <2>4
  <1>5. QED
    BY <1>1, <1>3, <1>4, Zenon

LEMMA TakeAll ==
  ASSUME NEW F \in Seq(Nat), NEW t, Sums(t, F, Len(F))
  PROVE  FoldLeft(Take, NewWriter, F) = Fresh(F, t)
  <1>1. PICK n \in Nat : n = Len(F) /\ F \in [1 .. n -> Nat]
    BY SeqParts
  <1>2. PICK r \in Seq(IoVec) :
          /\ r = Ranges(F, t) /\ Len(r) = n /\ Sums(t, Lens(r), n)
          /\ \A i \in 1 .. n : r[i] = [from |-> t[i - 1] + 1, len |-> F[i]]
    BY <1>1, RangesType
  <1> DEFINE g == [i \in 0 .. n |->
                     [iovec |-> SubSeq(r, 1, i), original |-> <<>>, readIdx |-> 0,
                      left |-> i]]
  <1>3. g[0] = NewWriter
    <2>1. SubSeq(r, 1, 0) = <<>>
      BY SubSeqEmpty
    <2>2. QED
      BY <1>1, <2>1 DEF NewWriter
  <1>4. ASSUME NEW i \in 1 .. n
        PROVE  g[i] = Take(g[i - 1], F[i])
    <2>1. i - 1 \in 0 .. n /\ i \in 0 .. n /\ (i - 1) + 1 = i
      BY <1>1
    <2>2. LengthOf(SubSeq(r, 1, i - 1)) = t[i - 1]
      BY <1>2, <2>1, PrefixLength
    <2>3. SubSeq(r, 1, i) = Append(SubSeq(r, 1, i - 1), r[i])
      BY <1>1, <1>2
    <2>4. g[i - 1] = [iovec |-> SubSeq(r, 1, i - 1), original |-> <<>>, readIdx |-> 0,
                      left |-> i - 1]
      BY <2>1
    <2>5. Take(g[i - 1], F[i])
            = [iovec |-> Append(SubSeq(r, 1, i - 1), [from |-> t[i - 1] + 1, len |-> F[i]]),
               original |-> <<>>, readIdx |-> 0, left |-> (i - 1) + 1]
      <3> HIDE DEF g
      <3>1. Take(g[i - 1], F[i])
              = [iovec |-> Append(SubSeq(r, 1, i - 1),
                                  [from |-> LengthOf(SubSeq(r, 1, i - 1)) + 1,
                                   len |-> F[i]]),
                 original |-> <<>>, readIdx |-> 0, left |-> (i - 1) + 1]
        BY <2>4, TakeFields
      <3>2. QED
        BY <2>2, <3>1, Zenon
    <2>6. QED
      BY <1>2, <2>1, <2>3, <2>5
  <1>5. g[n] = Fresh(F, t)
    <2>1. SubSeq(r, 1, n) = r
      BY <1>2
    <2>2. QED
      BY <1>1, <1>2, <2>1 DEF Fresh
  <1> HIDE DEF g
  <1>6. NewWriter \in Writers
    BY DEF NewWriter, Writers
  <1>7. FoldLeft(Take, NewWriter, F) = g[Len(F)]
    BY <1>1, <1>3, <1>4, <1>6, TakesRun
  <1>8. QED
    BY <1>1, <1>5, <1>7

-----------------------------------------------------------------------------
\* Of a request in buffers of the lengths F, with the sums t, the first S
\* bytes have gone, and w is to send the others.
Sends(w, F, t, S) ==
    /\ F \in Seq(Nat) /\ Sums(t, F, Len(F)) /\ S \in Nat
    /\ w \in Writers /\ Len(w.iovec) = Len(F) /\ w.readIdx + w.left = Len(F)
    /\ w.original \in {<<>>, Ranges(F, t)}
    /\ w.original = <<>> => w.iovec = Ranges(F, t)
    /\ \A i \in 1 .. Len(F) : i > w.readIdx + 1 => w.iovec[i] = Ranges(F, t)[i]
    /\ t[w.readIdx] <= S
    /\ w.left = 0 => S = t[Len(F)]
    /\ w.left # 0 => /\ S <= t[w.readIdx + 1]
                     /\ w.iovec[w.readIdx + 1]
                          = [from |-> S + 1, len |-> t[w.readIdx + 1] - S]

LEMMA SendsFresh ==
  ASSUME NEW F \in Seq(Nat), NEW t, Sums(t, F, Len(F)),
         NEW w \in Writers, w.iovec = Ranges(F, t), w.original \in {<<>>, Ranges(F, t)},
         w.readIdx = 0, w.left = Len(F)
  PROVE  Sends(w, F, t, 0)
  <1>1. PICK n \in Nat : n = Len(F) /\ F \in [1 .. n -> Nat]
    BY SeqParts
  <1>2. PICK r \in Seq(IoVec) :
          /\ r = Ranges(F, t) /\ Len(r) = n
          /\ \A i \in 1 .. n : r[i] = [from |-> t[i - 1] + 1, len |-> F[i]]
    BY <1>1, RangesType
  <1>3. t[0] = 0 /\ \A i \in 1 .. n : t[i] = t[i - 1] + F[i]
    BY <1>1 DEF Sums
  <1>4. n # 0 => 0 <= t[1] /\ r[1] = [from |-> 0 + 1, len |-> t[1] - 0]
    <2>1. ASSUME n # 0
          PROVE  0 <= t[1] /\ r[1] = [from |-> 0 + 1, len |-> t[1] - 0]
      <3>1. 1 \in 1 .. n /\ 1 - 1 = 0
        BY <1>1, <2>1
      <3>2. F[1] \in Nat /\ t[1] = 0 + F[1]
        BY <1>1, <1>3, <3>1
      <3>3. r[1] = [from |-> 0 + 1, len |-> F[1]]
        BY <1>2, <1>3, <3>1
      <3>4. t[1] - 0 = F[1] /\ 0 <= t[1]
        BY <3>2
      <3>5. QED
        BY <3>3, <3>4
    <2>2. QED
      BY <2>1
  <1>5. 0 + n = n /\ 0 + 1 = 1
    BY <1>1
  <1>6. QED
    BY <1>1, <1>2, <1>3, <1>4, <1>5 DEF Sends

LEMMA FreshSends ==
  ASSUME NEW F \in Seq(Nat), NEW t, Sums(t, F, Len(F))
  PROVE  Sends(Fresh(F, t), F, t, 0)
  <1>1. PICK r \in Seq(IoVec) : r = Ranges(F, t) /\ Len(F) \in Nat
    BY RangesType, SeqParts
  <1>2. Fresh(F, t) \in Writers
    BY <1>1 DEF Fresh, Writers
  <1>3. /\ Fresh(F, t).iovec = Ranges(F, t) /\ Fresh(F, t).original = <<>>
        /\ Fresh(F, t).readIdx = 0 /\ Fresh(F, t).left = Len(F)
    BY DEF Fresh
  <1>4. QED
    BY <1>2, <1>3, SendsFresh

LEMMA RewindSends ==
  ASSUME NEW w, NEW F, NEW t, NEW S, Sends(w, F, t, S)
  PROVE  Sends(RewindWriter(w), F, t, 0)
  <1>1. /\ F \in Seq(Nat) /\ Sums(t, F, Len(F)) /\ w \in Writers
        /\ Len(w.iovec) = Len(F) /\ w.original \in {<<>>, Ranges(F, t)}
        /\ w.original = <<>> => w.iovec = Ranges(F, t)
    BY DEF Sends
  <1>2. PICK r \in Seq(IoVec) : r = Ranges(F, t) /\ Len(F) \in Nat
    BY <1>1, RangesType, SeqParts
  <1>3. PICK l \in Nat : l = Len(w.iovec)
    BY <1>1, <1>2
  <1>4. (IF w.original = <<>> THEN w.iovec ELSE w.original) = r
    BY <1>1, <1>2
  <1>5. PICK x : x = RewindWriter(w)
    OBVIOUS
  <1>6. x = [w EXCEPT !.readIdx = 0, !.left = l, !.iovec = r]
    BY <1>3, <1>4, <1>5 DEF RewindWriter
  <1>7. x \in Writers
    BY <1>1, <1>6 DEF Writers
  <1>8. x.iovec = r /\ x.readIdx = 0 /\ x.left = l /\ x.original = w.original
    BY <1>1, <1>6 DEF Writers
  <1>9. Sends(x, F, t, 0)
    BY <1>1, <1>2, <1>3, <1>7, <1>8, SendsFresh
  <1>10. QED
    BY <1>5, <1>9

\* v is to be sent by w, b are its sums; S bytes have gone before.
Pending(w, v, b, F, t, S) ==
    /\ v = ToSend(w) /\ v \in Seq(IoVec) /\ Len(v) = w.left
    /\ b \in [0 .. w.left -> Nat] /\ Sums(b, Lens(v), w.left)
    /\ \A i \in 1 .. w.left : /\ v[i] = w.iovec[w.readIdx + i]
                              /\ v[i].from = S + b[i - 1] + 1
                              /\ S + b[i] = t[w.readIdx + i]

LEMMA PendingOf ==
  ASSUME NEW w, NEW F, NEW t, NEW S, Sends(w, F, t, S)
  PROVE  \E v, b : Pending(w, v, b, F, t, S)
  <1>1. /\ F \in Seq(Nat) /\ Sums(t, F, Len(F)) /\ S \in Nat
        /\ w \in Writers /\ Len(w.iovec) = Len(F) /\ w.readIdx + w.left = Len(F)
        /\ \A i \in 1 .. Len(F) : i > w.readIdx + 1 => w.iovec[i] = Ranges(F, t)[i]
        /\ w.left # 0 => /\ S <= t[w.readIdx + 1]
                         /\ w.iovec[w.readIdx + 1]
                              = [from |-> S + 1, len |-> t[w.readIdx + 1] - S]
    BY DEF Sends
  <1>2. PICK n \in Nat : n = Len(F) /\ F \in [1 .. n -> Nat]
    BY <1>1, SeqParts
  <1>3. w.readIdx \in Nat /\ w.left \in Nat /\ w.iovec \in Seq(IoVec)
    BY <1>1 DEF Writers
  <1>4. PICK k \in Nat, l \in Nat, u \in Seq(IoVec) :
          k = w.readIdx /\ l = w.left /\ u = w.iovec
    BY <1>3
  <1>5. k + l = n /\ Len(u) = n /\ k \in 0 .. n /\ n - k = l
    BY <1>1, <1>2, <1>4
  <1>6. /\ \A i \in 0 .. n : t[i] \in Nat
        /\ \A i \in 0 .. n : \A j \in 0 .. i : t[j] <= t[i]
        /\ \A i \in 1 .. n : t[i] = t[i - 1] + F[i]
    BY <1>1, <1>2, SumsGrow DEF Sums
  <1>7. \A i \in 1 .. n : Ranges(F, t)[i] = [from |-> t[i - 1] + 1, len |-> F[i]]
    BY <1>1, <1>2, RangesType
  <1>8. PICK v \in Seq(IoVec) : /\ v = SubSeq(u, k + 1, n) /\ Len(v) = l
                                /\ \A i \in 1 .. l : v[i] = u[k + i]
    <2>1. /\ SubSeq(u, k + 1, Len(u)) \in Seq(IoVec)
          /\ Len(SubSeq(u, k + 1, Len(u))) = Len(u) - k
          /\ \A i \in 1 .. Len(u) - k : SubSeq(u, k + 1, Len(u))[i] = u[k + i]
      <3>1. k \in 0 .. Len(u)
        BY <1>5
      <3>2. QED
        BY <3>1, SubSeqParts
    <2>2. QED
      BY <1>5, <2>1
  <1>9. v = ToSend(w)
    BY <1>4, <1>5, <1>8 DEF ToSend
  <1>10. ASSUME NEW i \in 1 .. l
         PROVE  t[k + i] \in Nat /\ S <= t[k + i]
    <2>1. k + i \in 0 .. n /\ k + 1 \in 0 .. k + i /\ k + 1 \in 0 .. n /\ l # 0
      BY <1>5
    <2>2. t[k + i] \in Nat /\ t[k + 1] \in Nat /\ t[k + 1] <= t[k + i]
      BY <1>6, <2>1
    <2>3. S <= t[k + 1]
      BY <1>1, <1>4, <2>1
    <2>4. QED
      BY <1>1, <2>2, <2>3
  <1> DEFINE b == [i \in 0 .. l |-> IF i = 0 THEN 0 ELSE t[k + i] - S]
  <1>11. b[0] = 0
    OBVIOUS
  <1>12. ASSUME NEW i \in 1 .. l
         PROVE  b[i] = t[k + i] - S /\ b[i] \in Nat /\ S + b[i] = t[k + i]
    <2>1. i \in 0 .. l /\ i # 0
      OBVIOUS
    <2>2. b[i] = t[k + i] - S
      BY <2>1
    <2>3. PICK x \in Nat : x = t[k + i] /\ S <= x
      BY <1>10
    <2>4. x - S \in Nat /\ S + (x - S) = x
      BY <1>1, <2>3
    <2>5. QED
      BY <2>2, <2>3, <2>4
  <1>13. b \in [0 .. l -> Nat]
    <2>1. \A i \in 0 .. l : (IF i = 0 THEN 0 ELSE t[k + i] - S) \in Nat
      <3>1. ASSUME NEW i \in 0 .. l, i # 0
            PROVE  t[k + i] - S \in Nat
        <4>1. i \in 1 .. l
          BY <3>1
        <4>2. QED
          BY <1>12, <4>1
      <3>2. QED
        BY <3>1
    <2>2. QED
      BY <2>1
  <1> HIDE DEF b
  <1>14. ASSUME NEW i \in 1 .. l
         PROVE  /\ v[i].from = S + b[i - 1] + 1
                /\ v[i].len \in Nat /\ b[i] = b[i - 1] + v[i].len
    <2>1. CASE i = 1
      <3>1. l # 0 /\ i - 1 = 0
        BY <2>1
      <3>2. v[1] = [from |-> S + 1, len |-> t[k + 1] - S]
        BY <1>1, <1>4, <1>8, <2>1, <3>1
      <3>3. b[1] = t[k + 1] - S /\ b[1] \in Nat
        BY <1>12, <2>1
      <3>4. v[1].from = S + 1 /\ v[1].len = b[1]
        BY <3>2, <3>3
      <3>5. v[1].from = S + 0 + 1 /\ v[1].len \in Nat /\ b[1] = 0 + v[1].len
        BY <1>1, <3>3, <3>4
      <3>6. QED
        BY <1>11, <2>1, <3>1, <3>5
    <2>2. CASE i # 1
      <3>1. /\ k + i \in 1 .. n /\ k + i > k + 1 /\ (k + i) - 1 = k + (i - 1)
            /\ i - 1 \in 1 .. l
        BY <1>5, <2>2
      <3>2. v[i] = [from |-> t[k + (i - 1)] + 1, len |-> F[k + i]]
        <4>1. v[i] = Ranges(F, t)[k + i]
          BY <1>1, <1>2, <1>4, <1>8, <3>1
        <4>2. Ranges(F, t)[k + i] = [from |-> t[(k + i) - 1] + 1, len |-> F[k + i]]
          BY <1>7, <3>1
        <4>3. QED
          BY <3>1, <4>1, <4>2
      <3>3. t[k + i] = t[k + (i - 1)] + F[k + i] /\ F[k + i] \in Nat
        BY <1>2, <1>6, <3>1
      <3>4. /\ b[i] \in Nat /\ S + b[i] = t[k + i]
            /\ b[i - 1] \in Nat /\ S + b[i - 1] = t[k + (i - 1)]
        BY <1>12, <3>1
      <3>5. PICK x \in Nat, y \in Nat, z \in Nat, c \in Nat :
              x = b[i - 1] /\ y = b[i] /\ z = F[k + i] /\ c = S
        BY <1>1, <3>3, <3>4
      <3>6. c + y = (c + x) + z
        BY <3>3, <3>4, <3>5
      <3>7. y = x + z
        BY ONLY <3>6, x \in Nat, y \in Nat, z \in Nat, c \in Nat
      <3>8. v[i].from = t[k + (i - 1)] + 1 /\ v[i].len = F[k + i]
        BY <3>2
      <3>9. QED
        BY <3>3, <3>4, <3>5, <3>7, <3>8
    <2>3. QED
      BY <2>1, <2>2
  <1>15. Sums(b, Lens(v), l)
    <2>1. \A i \in 1 .. l : Lens(v)[i] = v[i].len
      BY <1>8 DEF Lens
    <2>2. \A i \in 1 .. l : b[i] = b[i - 1] + Lens(v)[i]
      BY <1>14, <2>1
    <2>3. QED
      BY <1>11, <2>2 DEF Sums
  <1>16. Pending(w, v, b, F, t, S)
    <2>1. \A i \in 1 .. l : /\ v[i] = u[k + i]
                            /\ v[i].from = S + b[i - 1] + 1
                            /\ S + b[i] = t[k + i]
      BY <1>8, <1>12, <1>14
    <2>2. QED
      BY <1>4, <1>8, <1>9, <1>13, <1>15, <2>1 DEF Pending
  <1>17. QED
    BY <1>16

\* n bytes of v are v's first q ranges, and part of the next one.
Cuts(w, v, b, n, q) ==
    /\ q \in 0 .. w.left /\ b[q] <= n
    /\ q < w.left => n < b[q + 1]
    /\ q = w.left => n = b[q]

LEMMA CutExists ==
  ASSUME NEW w \in Writers, NEW v, NEW b, NEW F, NEW t, NEW S, Pending(w, v, b, F, t, S),
         NEW n \in Nat, n <= b[w.left]
  PROVE  LET T == {m \in 0 .. w.left : LengthOf(SubSeq(ToSend(w), 1, m)) <= n}
         IN  Cuts(w, v, b, n, Max(T)) /\ LengthOf(SubSeq(ToSend(w), 1, Max(T))) = b[Max(T)]
  <1>1. /\ v = ToSend(w) /\ v \in Seq(IoVec) /\ Len(v) = w.left
        /\ b \in [0 .. w.left -> Nat] /\ Sums(b, Lens(v), w.left)
    BY DEF Pending
  <1>2. PICK l \in Nat : l = w.left
    BY DEF Writers
  <1> DEFINE T == {m \in 0 .. l : b[m] <= n}
  <1>3. \A m \in 0 .. l : LengthOf(SubSeq(v, 1, m)) = b[m]
    BY <1>1, <1>2, PrefixLength
  <1>4. {m \in 0 .. w.left : LengthOf(SubSeq(ToSend(w), 1, m)) <= n} = T
    BY <1>1, <1>2, <1>3
  <1>5. b[0] = 0 /\ 0 \in 0 .. l
    BY <1>1, <1>2 DEF Sums
  <1>6. T \in SUBSET (0 .. l) /\ T # {}
    BY <1>5
  <1>7. Max(T) \in T /\ \A m \in T : m <= Max(T)
    BY <1>2, <1>6, Greatest
  <1>8. PICK q \in T : q = Max(T)
    BY <1>7
  <1>9. \A m \in T : m <= q
    BY <1>7, <1>8
  <1>10. q \in 0 .. l /\ b[q] <= n
    OBVIOUS
  <1>11. ASSUME q < l
         PROVE  n < b[q + 1]
    <2>1. q + 1 \in 0 .. l /\ ~ (q + 1 <= q)
      BY <1>10, <1>11
    <2>2. q + 1 \notin T
      BY <1>9, <2>1
    <2>3. b[q + 1] \in Nat /\ ~ (b[q + 1] <= n)
      BY <1>1, <1>2, <2>1, <2>2
    <2>4. QED
      BY <2>3
  <1>12. ASSUME q = l
         PROVE  n = b[q]
    <2>1. b[q] \in Nat /\ b[q] <= n /\ n <= b[q]
      BY <1>1, <1>2, <1>10, <1>12
    <2>2. QED
      BY <2>1
  <1>13. Cuts(w, v, b, n, q)
    BY <1>2, <1>10, <1>11, <1>12 DEF Cuts
  <1> HIDE DEF T
  <1>14. QED
    BY <1>1, <1>3, <1>4, <1>8, <1>10, <1>13

\* What commitRead makes of the iovecs.
Committed(w, x, F, t, k, l, cut) ==
    /\ x \in Writers /\ x.readIdx = k /\ x.left = l /\ Len(x.iovec) = Len(w.iovec)
    /\ \A i \in 1 .. Len(w.iovec) : i # k + 1 => x.iovec[i] = w.iovec[i]
    /\ l # 0 => x.iovec[k + 1] = cut
    /\ x.original \in {<<>>, Ranges(F, t)}
    /\ x.original = <<>> => x.iovec = Ranges(F, t)

LEMMA CommitWhole ==
  ASSUME NEW w, NEW F, NEW t, NEW S, Sends(w, F, t, S),
         NEW k \in Nat, NEW l \in Nat, NEW x, x = [w EXCEPT !.readIdx = k, !.left = l]
  PROVE  Committed(w, x, F, t, k, l, w.iovec[k + 1])
  <1>1. /\ w \in Writers /\ w.original \in {<<>>, Ranges(F, t)}
        /\ w.original = <<>> => w.iovec = Ranges(F, t)
    BY DEF Sends
  <1>2. /\ x \in Writers /\ x.readIdx = k /\ x.left = l
        /\ x.iovec = w.iovec /\ x.original = w.original
    BY <1>1 DEF Writers
  <1>3. QED
    BY <1>1, <1>2 DEF Committed

CutAt(p, w, k, part) ==
    [p EXCEPT !.original = IF @ = <<>> THEN w.iovec ELSE @,
              !.iovec[k + 1].from = @ + part,
              !.iovec[k + 1].len = @ - part]

LEMMA CommitPart ==
  ASSUME NEW w, NEW F, NEW t, NEW S, Sends(w, F, t, S),
         NEW k \in Nat, NEW l \in Nat, NEW p, p = [w EXCEPT !.readIdx = k, !.left = l],
         NEW part \in Nat, k + 1 \in 1 .. Len(w.iovec), part <= w.iovec[k + 1].len,
         NEW x, x = CutAt(p, w, k, part)
  PROVE  Committed(w, x, F, t, k, l, [from |-> w.iovec[k + 1].from + part,
                                      len |-> w.iovec[k + 1].len - part])
  <1>1. /\ w \in Writers /\ w.original \in {<<>>, Ranges(F, t)}
        /\ w.original = <<>> => w.iovec = Ranges(F, t)
    BY DEF Sends
  <1>2. /\ p \in Writers /\ p.readIdx = k /\ p.left = l
        /\ p.iovec = w.iovec /\ p.original = w.original
    BY <1>1 DEF Writers
  <1>3. PICK u \in Seq(IoVec) : u = w.iovec
    BY <1>1 DEF Writers
  <1>4. PICK c : c = k + 1
    OBVIOUS
  <1>5. c \in 1 .. Len(u) /\ u[c] \in IoVec /\ DOMAIN u = 1 .. Len(u)
    BY <1>3, <1>4, SeqParts
  <1>6. PICK f, g, o : /\ f = u[c].from + part /\ g = u[c].len - part
                       /\ o = IF w.original = <<>> THEN u ELSE w.original
    OBVIOUS
  <1>7. f \in Nat /\ g \in Nat
    <2>1. PICK a \in Nat, m \in Nat : a = u[c].from /\ m = u[c].len /\ part <= m
      <3>1. u[c].from \in Nat /\ u[c].len \in Nat /\ part <= u[c].len
        BY <1>3, <1>4, <1>5 DEF IoVec
      <3>2. QED
        BY <3>1
    <2>2. a + part \in Nat /\ m - part \in Nat
      BY ONLY <2>1, a \in Nat, m \in Nat, part \in Nat, SMTT(20)
    <2>3. QED
      BY <1>6, <2>1, <2>2
  <1>8. o = Ranges(F, t)
    BY <1>1, <1>3, <1>6
  <1>9. PICK y : y = [u EXCEPT ![c] = [from |-> f, len |-> g]]
    OBVIOUS
  <1>10. y \in Seq(IoVec) /\ Len(y) = Len(u) /\ y[c] = [from |-> f, len |-> g]
         /\ \A i \in 1 .. Len(u) : i # c => y[i] = u[i]
    <2>1. PICK e \in IoVec : e = [from |-> f, len |-> g]
      <3>1. [from |-> f, len |-> g] \in IoVec
        BY <1>7 DEF IoVec
      <3>2. QED
        BY <3>1
    <2>2. y = [u EXCEPT ![c] = e]
      BY <1>9, <2>1
    <2>3. QED
      BY <1>5, <2>1, <2>2
  <1>12. o \in Seq(IoVec)
    <2>1. F \in Seq(Nat) /\ Sums(t, F, Len(F))
      BY DEF Sends
    <2>2. QED
      BY <1>8, <2>1, RangesType
  <1>11. x = [p EXCEPT !.original = o, !.iovec = y]
    <2>1. x = [p EXCEPT !.original = o, !.iovec[c].from = f, !.iovec[c].len = g]
      BY <1>2, <1>3, <1>4, <1>6 DEF CutAt
    <2>2. PICK p1 : p1 = [p EXCEPT !.original = o]
      OBVIOUS
    <2>3. p1 \in Writers /\ p1.iovec = u
      BY <1>2, <1>3, <1>12, <2>2 DEF Writers
    <2>4. PICK y1 : y1 = [u EXCEPT ![c].from = f]
      OBVIOUS
    <2>14. PICK e : e = [u[c] EXCEPT !.from = f] /\ e \in IoVec /\ e.from = f
      <3>1. [u[c] EXCEPT !.from = f] \in IoVec /\ [u[c] EXCEPT !.from = f].from = f
        BY <1>5, <1>7 DEF IoVec
      <3>2. QED
        BY <3>1
    <2>5. PICK p2 : p2 = [p1 EXCEPT !.iovec[c].from = f]
      OBVIOUS
    <2>6. p2 = [p1 EXCEPT !.iovec = y1]
      BY <2>3, <2>4, <2>5, Zenon
    <2>7. y1 \in Seq(IoVec) /\ p2 \in Writers /\ p2.iovec = y1
      <3>1. y1 \in Seq(IoVec)
        BY <1>5, <2>4, <2>14
      <3>2. QED
        BY <2>3, <2>6, <3>1 DEF Writers
    <2>8. PICK y2 : y2 = [y1 EXCEPT ![c].len = g]
      OBVIOUS
    <2>9. x = [p2 EXCEPT !.iovec[c].len = g]
      BY <2>1, <2>2, <2>5, Zenon
    <2>10. x = [p2 EXCEPT !.iovec = y2]
      BY <2>7, <2>8, <2>9, Zenon
    <2>11. y2 = y
      <3>1. y1[c] = e
        BY <1>5, <2>4, <2>14
      <3>2. [e EXCEPT !.len = g] = [from |-> f, len |-> g]
        <4>1. PICK h : h = [e EXCEPT !.len = g]
          OBVIOUS
        <4>2. h \in IoVec /\ h.len = g /\ h.from = f
          BY <1>7, <2>14, <4>1 DEF IoVec
        <4>3. h = [from |-> f, len |-> g]
          BY <4>2 DEF IoVec
        <4>4. QED
          BY <4>1, <4>3
      <3>3. y1 = [u EXCEPT ![c] = e]
        BY <2>4, <2>14, Zenon
      <3>4. y2 = [y1 EXCEPT ![c] = [from |-> f, len |-> g]]
        BY <2>8, <3>1, <3>2, Zenon
      <3>5. QED
        BY <1>5, <1>9, <3>3, <3>4
    <2>12. [p2 EXCEPT !.iovec = y] = [p1 EXCEPT !.iovec = y]
      BY <2>3, <2>6, <2>7, <1>10 DEF Writers
    <2>13. QED
      BY <2>2, <2>10, <2>11, <2>12, Zenon
  <1>13. /\ x \in Writers /\ x.readIdx = k /\ x.left = l
         /\ x.iovec = y /\ x.original = o
    BY <1>2, <1>10, <1>11, <1>12 DEF Writers
  <1>14. o # <<>>
    <2>1. F \in Seq(Nat) /\ Sums(t, F, Len(F)) /\ Len(w.iovec) = Len(F)
      BY DEF Sends
    <2>2. Len(o) = Len(u) /\ Len(u) # 0
      BY <1>3, <1>5, <1>8, <2>1, RangesType
    <2>3. QED
      BY <2>2
  <1>15. QED
    BY <1>3, <1>4, <1>6, <1>8, <1>10, <1>13, <1>14 DEF Committed

LEMMA CommittedSends ==
  ASSUME NEW w, NEW F, NEW t, NEW S, Sends(w, F, t, S),
         NEW v, NEW b, Pending(w, v, b, F, t, S),
         NEW n \in Nat, NEW q, Cuts(w, v, b, n, q),
         NEW k, NEW l, k = w.readIdx + q, l = w.left - q,
         NEW x, NEW cut, Committed(w, x, F, t, k, l, cut),
         l # 0 => cut = [from |-> w.iovec[k + 1].from + (n - b[q]),
                         len |-> w.iovec[k + 1].len - (n - b[q])]
  PROVE  Sends(x, F, t, S + n)
  <1>1. /\ F \in Seq(Nat) /\ Sums(t, F, Len(F)) /\ S \in Nat /\ w \in Writers
        /\ Len(w.iovec) = Len(F) /\ w.readIdx + w.left = Len(F)
        /\ \A i \in 1 .. Len(F) : i > w.readIdx + 1 => w.iovec[i] = Ranges(F, t)[i]
        /\ t[w.readIdx] <= S
    BY DEF Sends
  <1>2. PICK N \in Nat, r \in Nat, d \in Nat : N = Len(F) /\ r = w.readIdx /\ d = w.left
    <2>1. Len(F) \in Nat /\ w.readIdx \in Nat /\ w.left \in Nat
      BY <1>1, SeqParts DEF Writers
    <2>2. QED
      BY <2>1
  <1>3. /\ r + d = N /\ q \in 0 .. d /\ k = r + q /\ l = d - q /\ k + l = N
        /\ k \in Nat /\ l \in Nat
    <2>1. r + d = N /\ q \in 0 .. d /\ k = r + q /\ l = d - q
      BY <1>1, <1>2 DEF Cuts
    <2>2. QED
      BY <2>1
  <1>4. /\ b \in [0 .. d -> Nat] /\ b[0] = 0 /\ \A i \in 1 .. d : b[i] = b[i - 1] + v[i].len
        /\ \A i \in 1 .. d : /\ v[i] = w.iovec[r + i] /\ v[i].from = S + b[i - 1] + 1
                             /\ S + b[i] = t[r + i]
    <2>1. /\ b \in [0 .. d -> Nat] /\ Sums(b, Lens(v), d) /\ Len(v) = d
          /\ \A i \in 1 .. d : /\ v[i] = w.iovec[r + i] /\ v[i].from = S + b[i - 1] + 1
                               /\ S + b[i] = t[r + i]
      BY <1>2 DEF Pending
    <2>2. \A i \in 1 .. d : Lens(v)[i] = v[i].len
      BY <2>1 DEF Lens
    <2>3. QED
      BY <2>1, <2>2 DEF Sums
  <1>5. PICK B \in Nat : B = b[q] /\ B <= n
    BY <1>2, <1>3, <1>4 DEF Cuts
  <1>6. t[k] <= S + n
    <2>1. CASE q = 0
      <3>1. k = r
        BY <1>3, <2>1
      <3>2. \A i \in 0 .. N : t[i] \in Nat
        <4>1. F \in [1 .. N -> Nat]
          BY <1>1, <1>2, SeqParts
        <4>2. QED
          BY <1>1, <1>2, <4>1, SumsGrow
      <3>3. r \in 0 .. N
        BY <1>3
      <3>4. PICK y \in Nat, s \in Nat : y = t[r] /\ s = S /\ y <= s
        BY <1>1, <1>2, <3>2, <3>3
      <3>5. y <= s + n
        BY <3>4
      <3>6. QED
        BY <3>1, <3>4, <3>5
    <2>2. CASE q # 0
      <3>1. q \in 1 .. d
        BY <1>3, <2>2
      <3>2. S + B = t[k]
        BY <1>3, <1>4, <1>5, <3>1
      <3>3. S + B <= S + n
        BY <1>1, <1>5
      <3>4. QED
        BY <3>2, <3>3
    <2>3. QED
      BY <2>1, <2>2
  <1>7. ASSUME l = 0
        PROVE  S + n = t[N]
    <2>1. q = d /\ k = N
      BY <1>3, <1>7
    <2>2. n = B
      BY <1>2, <1>5, <2>1 DEF Cuts
    <2>3. CASE d = 0
      <3>1. S = t[N] /\ B = 0
        BY <1>2, <1>4, <1>5, <2>1, <2>3 DEF Sends
      <3>2. QED
        BY <1>1, <2>2, <3>1
    <2>4. CASE d # 0
      <3>1. d \in 1 .. d
        BY <2>4
      <3>2. QED
        BY <1>3, <1>4, <1>5, <2>1, <2>2, <3>1
    <2>5. QED
      BY <2>3, <2>4
  <1>8. ASSUME l # 0
        PROVE  /\ S + n <= t[k + 1]
               /\ cut = [from |-> (S + n) + 1, len |-> t[k + 1] - (S + n)]
    <2>1. q + 1 \in 1 .. d /\ (q + 1) - 1 = q /\ r + (q + 1) = k + 1 /\ q < d
      BY <1>3, <1>8
    <2>2. n < b[q + 1]
      BY <1>2, <2>1 DEF Cuts
    <2>3. /\ v[q + 1] = w.iovec[k + 1] /\ v[q + 1].from = S + B + 1
          /\ S + b[q + 1] = t[k + 1] /\ b[q + 1] = B + v[q + 1].len
      BY <1>4, <1>5, <2>1
    <2>4. v[q + 1].len \in Nat
      <3>1. v \in Seq(IoVec) /\ Len(v) = d
        BY <1>2 DEF Pending
      <3>2. v[q + 1] \in IoVec
        BY <2>1, <3>1, SeqParts
      <3>3. QED
        BY <3>2 DEF IoVec
    <2>5. PICK s \in Nat, y \in Nat, m \in Nat :
            s = S /\ y = b[q + 1] /\ m = v[q + 1].len
      <3>1. b[q + 1] \in Nat
        BY <1>4, <2>1
      <3>2. QED
        BY <1>1, <2>4, <3>1
    <2>6. /\ n < y /\ y = B + m /\ t[k + 1] = s + y
          /\ w.iovec[k + 1].from = s + B + 1 /\ w.iovec[k + 1].len = m
      BY <2>2, <2>3, <2>5
    <2>7. /\ s + n <= s + y /\ (s + B + 1) + (n - B) = (s + n) + 1
          /\ m - (n - B) = (s + y) - (s + n)
      <3>1. n < y /\ y = B + m
        BY <2>6
      <3>2. QED
        BY ONLY <3>1, s \in Nat, y \in Nat, m \in Nat, B \in Nat, n \in Nat
    <2>8. cut = [from |-> w.iovec[k + 1].from + (n - B), len |-> w.iovec[k + 1].len - (n - B)]
      BY <1>5, <1>8
    <2>9. cut = [from |-> (s + n) + 1, len |-> (s + y) - (s + n)]
      BY <2>6, <2>7, <2>8
    <2>10. QED
      BY <2>5, <2>6, <2>7, <2>9
  <1>9. /\ x \in Writers /\ x.readIdx = k /\ x.left = l /\ Len(x.iovec) = N
        /\ \A i \in 1 .. N : i # k + 1 => x.iovec[i] = w.iovec[i]
        /\ l # 0 => x.iovec[k + 1] = cut
        /\ x.original \in {<<>>, Ranges(F, t)}
        /\ x.original = <<>> => x.iovec = Ranges(F, t)
    BY <1>1, <1>2 DEF Committed
  <1>10. \A i \in 1 .. N : i > k + 1 => x.iovec[i] = Ranges(F, t)[i]
    <2>1. \A i \in 1 .. N : i > k + 1 => i # k + 1 /\ i > r + 1
      BY <1>3
    <2>2. QED
      BY <1>1, <1>2, <1>9, <2>1
  <1>11. S + n \in Nat
    BY <1>1
  <1>12. QED
    BY <1>1, <1>2, <1>3, <1>6, <1>7, <1>8, <1>9, <1>10, <1>11 DEF Sends

LEMMA CommitSends ==
  ASSUME NEW w, NEW F, NEW t, NEW S, Sends(w, F, t, S),
         NEW v, NEW b, Pending(w, v, b, F, t, S),
         NEW n \in Nat, n <= b[w.left], w.left # 0,
         w.readIdx = 0 => w.iovec[1].len <= n
  PROVE  Sends(CommitRead(w, n), F, t, S + n) /\ CommitRead(w, n).readIdx # 0
  <1> DEFINE T == {m \in 0 .. w.left : LengthOf(SubSeq(ToSend(w), 1, m)) <= n}
  <1>1. w \in Writers
    BY DEF Sends
  <1>2. Cuts(w, v, b, n, Max(T)) /\ LengthOf(SubSeq(ToSend(w), 1, Max(T))) = b[Max(T)]
    BY <1>1, CutExists
  <1>3. PICK q : q = Max(T)
    OBVIOUS
  <1>4. PICK part : part = n - b[q]
    OBVIOUS
  <1>5. PICK k, l : k = w.readIdx + q /\ l = w.left - q
    OBVIOUS
  <1>6. PICK p : p = [w EXCEPT !.readIdx = k, !.left = l]
    OBVIOUS
  <1>7. Cuts(w, v, b, n, q) /\ LengthOf(SubSeq(ToSend(w), 1, q)) = b[q]
    BY <1>2, <1>3
  <1>8. /\ w.readIdx \in Nat /\ w.left \in Nat /\ q \in 0 .. w.left
        /\ b \in [0 .. w.left -> Nat] /\ w.readIdx + w.left = Len(F) /\ Len(w.iovec) = Len(F)
    BY <1>1, <1>7 DEF Writers, Cuts, Pending, Sends
  <1>9. k \in Nat /\ l \in Nat /\ part \in Nat
    <2>1. PICK r \in Nat, d \in Nat, B \in Nat : r = w.readIdx /\ d = w.left /\ B = b[q]
      BY <1>8
    <2>2. B <= n /\ q \in 0 .. d
      BY <1>7, <1>8, <2>1 DEF Cuts
    <2>3. k = r + q /\ l = d - q /\ part = n - B
      BY <1>4, <1>5, <2>1
    <2>4. QED
      BY <2>2, <2>3
  <1>10. p.readIdx = k
    BY <1>1, <1>6 DEF Writers
  <1>11. CommitRead(w, n)
           = IF part = 0 THEN p ELSE CutAt(p, w, k, part)
    <2> DEFINE Result(y, z) ==
                 IF y = 0 THEN z
                 ELSE [z EXCEPT !.original = IF @ = <<>> THEN w.iovec ELSE @,
                                !.iovec[z.readIdx + 1].from = @ + y,
                                !.iovec[z.readIdx + 1].len = @ - y]
    <2>1. CommitRead(w, n)
            = Result(n - LengthOf(SubSeq(ToSend(w), 1, Max(T))),
                     [w EXCEPT !.readIdx = @ + Max(T), !.left = @ - Max(T)])
      BY Zenon DEF CommitRead
    <2> HIDE DEF T
    <2> HIDE DEF Result
    <2>2. /\ n - LengthOf(SubSeq(ToSend(w), 1, Max(T))) = part
          /\ [w EXCEPT !.readIdx = @ + Max(T), !.left = @ - Max(T)] = p
      BY <1>3, <1>4, <1>5, <1>6, <1>7, Zenon
    <2>3. CommitRead(w, n) = Result(part, p)
      BY <2>1, <2>2, Zenon
    <2>4. Result(part, p)
            = IF part = 0 THEN p ELSE CutAt(p, w, k, part)
      BY <1>10, ZenonT(30) DEF Result, CutAt
    <2>5. QED
      BY <2>3, <2>4, Zenon
  <1>12. PICK x : x = CommitRead(w, n)
    OBVIOUS
  <1>13. \E cut : /\ Committed(w, x, F, t, k, l, cut)
                  /\ l # 0 => cut = [from |-> w.iovec[k + 1].from + part,
                                     len |-> w.iovec[k + 1].len - part]
    <2>1. CASE part = 0
      <3>1. x = [w EXCEPT !.readIdx = k, !.left = l]
        BY <1>6, <1>11, <1>12, <2>1, Zenon
      <3>2. Committed(w, x, F, t, k, l, w.iovec[k + 1])
        BY <1>9, <3>1, CommitWhole
      <3>3. ASSUME l # 0
            PROVE  w.iovec[k + 1] = [from |-> w.iovec[k + 1].from + part,
                                     len |-> w.iovec[k + 1].len - part]
        <4>1. k + 1 \in 1 .. Len(w.iovec)
          <5>1. PICK r \in Nat, d \in Nat, N \in Nat :
                  r = w.readIdx /\ d = w.left /\ N = Len(w.iovec)
            BY <1>8
          <5>2. r + d = N /\ q \in 0 .. d /\ k = r + q /\ d - q # 0
            BY <1>5, <1>8, <3>3, <5>1
          <5>3. k + 1 \in 1 .. N
            BY <5>2
          <5>4. QED
            BY <5>1, <5>3
        <4>2. w.iovec \in Seq(IoVec)
          BY <1>1 DEF Writers
        <4>3. PICK e \in IoVec : e = w.iovec[k + 1]
          BY <4>1, <4>2, SeqParts
        <4>4. e = [from |-> e.from + part, len |-> e.len - part]
          BY <2>1 DEF IoVec
        <4>5. QED
          BY <4>3, <4>4
      <3>4. QED
        BY <3>2, <3>3
    <2>2. CASE part # 0
      <3>1. x = CutAt(p, w, k, part)
        BY <1>11, <1>12, <2>2, Zenon
      <3>2. q # w.left
        <4>1. ASSUME q = w.left
              PROVE  FALSE
          <5>1. n = b[q] /\ b[q] \in Nat
            BY <1>7, <1>8, <4>1 DEF Cuts
          <5>2. QED
            BY <1>4, <2>2, <5>1
        <4>2. QED
          BY <4>1
      <3>3. /\ q + 1 \in 1 .. w.left /\ k + 1 \in 1 .. Len(w.iovec)
            /\ (q + 1) - 1 = q /\ w.readIdx + (q + 1) = k + 1
        <4>1. PICK r \in Nat, d \in Nat, N \in Nat :
                r = w.readIdx /\ d = w.left /\ N = Len(w.iovec)
          BY <1>8
        <4>2. r + d = N /\ q \in 0 .. d /\ k = r + q /\ q # d
          BY <1>5, <1>8, <3>2, <4>1
        <4>3. q + 1 \in 1 .. d /\ k + 1 \in 1 .. N /\ (q + 1) - 1 = q /\ r + (q + 1) = k + 1
          BY <4>2
        <4>4. QED
          BY <4>1, <4>3
      <3>4. part <= w.iovec[k + 1].len
        <4>1. n < b[q + 1]
          BY <1>7, <1>8, <3>2 DEF Cuts
        <4>2. b[q + 1] = b[q] + w.iovec[k + 1].len
          <5>1. Sums(b, Lens(v), w.left) /\ Len(v) = w.left
                /\ v[q + 1] = w.iovec[w.readIdx + (q + 1)]
            BY <3>3 DEF Pending
          <5>2. Lens(v)[q + 1] = v[q + 1].len
            BY <3>3, <5>1 DEF Lens
          <5>3. QED
            BY <3>3, <5>1, <5>2 DEF Sums
        <4>3. w.iovec[k + 1].len \in Nat
          <5>1. w.iovec \in Seq(IoVec)
            BY <1>1 DEF Writers
          <5>2. w.iovec[k + 1] \in IoVec
            BY <3>3, <5>1, SeqParts
          <5>3. QED
            BY <5>2 DEF IoVec
        <4>4. PICK B \in Nat, m \in Nat, y \in Nat :
                B = b[q] /\ m = w.iovec[k + 1].len /\ y = b[q + 1]
          <5>1. b[q] \in Nat /\ b[q + 1] \in Nat
            BY <1>8, <3>3, SMTT(20)
          <5>2. QED
            BY <4>3, <5>1
        <4>5. n < y /\ y = B + m /\ part = n - B
          BY <1>4, <4>1, <4>2, <4>4
        <4>6. part <= m
          BY ONLY <4>5, B \in Nat, m \in Nat, y \in Nat, n \in Nat
        <4>7. QED
          BY <4>4, <4>6
      <3>5. Committed(w, x, F, t, k, l, [from |-> w.iovec[k + 1].from + part,
                                         len |-> w.iovec[k + 1].len - part])
        <4>1. /\ k \in Nat /\ l \in Nat /\ part \in Nat
              /\ k + 1 \in 1 .. Len(w.iovec)
          BY <1>9, <3>3
        <4>2. QED
          BY <1>6, <3>1, <3>4, <4>1, CommitPart
      <3>6. QED
        BY <3>5
    <2>3. QED
      BY <2>1, <2>2
  <1>14. Sends(x, F, t, S + n)
    <2>1. PICK cut : /\ Committed(w, x, F, t, k, l, cut)
                     /\ l # 0 => cut = [from |-> w.iovec[k + 1].from + part,
                                        len |-> w.iovec[k + 1].len - part]
      BY <1>13
    <2>2. l # 0 => cut = [from |-> w.iovec[k + 1].from + (n - b[q]),
                          len |-> w.iovec[k + 1].len - (n - b[q])]
      BY <1>4, <2>1, Zenon
    <2>3. QED
      BY <1>5, <1>7, <2>1, <2>2, CommittedSends
  <1>15. x.readIdx # 0
    <2>1. x.readIdx = k
      BY <1>13 DEF Committed
    <2>2. ASSUME k = 0
          PROVE  FALSE
      <3>1. w.readIdx = 0 /\ q = 0 /\ q < w.left
        BY <1>5, <1>8, <2>2
      <3>2. n < b[1]
        BY <1>7, <3>1 DEF Cuts
      <3>3. b[1] = w.iovec[1].len
        <4>1. /\ Sums(b, Lens(v), w.left) /\ Len(v) = w.left /\ 1 \in 1 .. w.left
              /\ v[1] = w.iovec[0 + 1]
          BY <1>8, <3>1 DEF Pending
        <4>2. Lens(v)[1] = v[1].len
          BY <4>1 DEF Lens
        <4>3. b[1] = b[0] + Lens(v)[1] /\ b[0] = 0
          <5>1. b[0] = 0 /\ \A i \in 1 .. w.left : b[i] = b[i - 1] + Lens(v)[i]
            BY <4>1 DEF Sums
          <5>2. 1 - 1 = 0
            OBVIOUS
          <5>3. QED
            BY <4>1, <5>1, <5>2
        <4>4. v[1].len \in Nat
          <5>1. v \in Seq(IoVec)
            BY DEF Pending
          <5>2. v[1] \in IoVec
            BY <4>1, <5>1, SeqParts
          <5>3. QED
            BY <5>2 DEF IoVec
        <4>5. b[1] = v[1].len
          BY <4>2, <4>3, <4>4
        <4>6. 0 + 1 = 1
          OBVIOUS
        <4>7. QED
          BY <4>1, <4>5, <4>6
      <3>4. b[1] \in Nat /\ b[1] <= n
        BY <1>8, <3>1, <3>3
      <3>5. QED
        BY <3>2, <3>4
    <2>3. QED
      BY <2>1, <2>2
  <1>16. QED
    BY <1>12, <1>14, <1>15

-----------------------------------------------------------------------------
\* The numbers from k + 1 on, l of them.
Counting(k, l) == [i \in 1 .. l |-> k + i]

LEMMA CountingOn ==
  ASSUME NEW k \in Nat, NEW l \in Nat
  PROVE  Counting(0, k) \o Counting(k, l) = Counting(0, k + l)
  <1>1. PICK x \in Seq(Nat) : x = Counting(0, k) /\ Len(x) = k
    <2>1. Counting(0, k) \in [1 .. k -> Nat]
      BY DEF Counting
    <2>2. QED
      BY <2>1, SeqMade
  <1>2. PICK y \in Seq(Nat) : y = Counting(k, l) /\ Len(y) = l
    <2>1. Counting(k, l) \in [1 .. l -> Nat]
      BY DEF Counting
    <2>2. QED
      BY <2>1, SeqMade
  <1>3. PICK z \in Seq(Nat) : z = x \o y /\ Concat(z, x, y, k, l)
    <2>1. PICK z \in Seq(Nat) : Concat(z, x, y, Len(x), Len(y))
      BY ConcatParts
    <2>2. z = x \o y
      BY <2>1 DEF Concat
    <2>3. QED
      BY <1>1, <1>2, <2>1, <2>2
  <1>4. /\ Len(z) = k + l
        /\ \A i \in 1 .. k + l : z[i] = IF i <= k THEN x[i] ELSE y[i - k]
    BY <1>3 DEF Concat
  <1>5. ASSUME NEW i \in 1 .. k + l
        PROVE  z[i] = 0 + i
    <2>1. CASE i <= k
      <3>1. i \in 1 .. k
        BY <2>1
      <3>2. x[i] = 0 + i
        BY <1>1, <3>1 DEF Counting
      <3>3. QED
        BY <1>4, <2>1, <3>2
    <2>2. CASE ~ (i <= k)
      <3>1. i - k \in 1 .. l /\ k + (i - k) = 0 + i
        BY <2>2
      <3>2. y[i - k] = k + (i - k)
        BY <1>2, <3>1 DEF Counting
      <3>3. QED
        BY <1>4, <2>2, <3>1, <3>2
    <2>3. QED
      BY <2>1, <2>2
  <1>6. z = Counting(0, k + l)
    <2>1. DOMAIN z = 1 .. k + l /\ z \in [1 .. k + l -> Nat]
      BY <1>4, SeqParts
    <2>2. QED
      BY <1>5, <2>1 DEF Counting
  <1>7. QED
    BY <1>1, <1>2, <1>3, <1>6

Falls(x, t, u, n) == \E i \in 1 .. n : \E j \in 1 .. u[i] : x = t[i - 1] + j

LEMMA FallsIn ==
  ASSUME NEW n \in Nat, NEW u \in [1 .. n -> Nat], NEW t, Sums(t, u, n),
         NEW x \in 1 .. t[n]
  PROVE  Falls(x, t, u, n)
  <1>1. \E i \in 1 .. n : \E j \in 1 .. u[i] : x = t[i - 1] + j
    BY SumsCover
  <1>2. QED
    BY <1>1 DEF Falls

LEMMA BytesSent ==
  ASSUME NEW w, NEW F, NEW t, NEW S \in Nat, w.left \in Nat,
         NEW v, NEW b, Pending(w, v, b, F, t, S), NEW n \in Nat, n <= b[w.left]
  PROVE  BytesOf(w, n) = Counting(S, n)
  <1>1. PICK l \in Nat : l = w.left
    OBVIOUS
  <1>2. /\ v = ToSend(w) /\ v \in Seq(IoVec) /\ Len(v) = l
        /\ b \in [0 .. l -> Nat] /\ Sums(b, Lens(v), l)
        /\ \A i \in 1 .. l : v[i].from = S + b[i - 1] + 1
    BY <1>1 DEF Pending
  <1>3. \A i \in 1 .. l : v[i].from \in Nat /\ v[i].len \in Nat
    <2>1. \A i \in 1 .. l : v[i] \in IoVec
      BY <1>2, SeqParts
    <2>2. QED
      BY <2>1 DEF IoVec
  <1> DEFINE piece(i) == [j \in 1 .. v[i].len |-> v[i].from + j - 1]
             parts == [i \in 1 .. l |-> piece(i)]
  <1>4. ASSUME NEW i \in 1 .. l
        PROVE  piece(i) \in Seq(Nat) /\ Len(piece(i)) = v[i].len
    <2>1. PICK f \in Nat, m \in Nat : f = v[i].from /\ m = v[i].len
      BY <1>3
    <2>2. f = S + b[i - 1] + 1 /\ b[i - 1] \in Nat
      <3>1. i - 1 \in 0 .. l
        OBVIOUS
      <3>2. QED
        BY <1>2, <2>1, <3>1
    <2>3. \A j \in 1 .. m : f + j - 1 \in Nat
      OBVIOUS
    <2>4. [j \in 1 .. m |-> f + j - 1] \in [1 .. m -> Nat]
      BY <2>3
    <2>5. PICK e \in [1 .. m -> Nat] : e = [j \in 1 .. m |-> f + j - 1]
      BY <2>4
    <2>6. piece(i) = e
      BY <2>1, <2>5, Zenon
    <2>7. e \in Seq(Nat) /\ Len(e) = m
      BY SeqMade
    <2> HIDE DEF piece
    <2>8. QED
      BY <2>1, <2>6, <2>7
  <1>5. parts \in Seq(Seq(Nat)) /\ Len(parts) = l /\ \A i \in 1 .. l : parts[i] = piece(i)
    <2>1. parts \in [1 .. l -> Seq(Nat)] /\ \A i \in 1 .. l : parts[i] = piece(i)
      <3> HIDE DEF piece
      <3>1. QED
        BY <1>4
    <2> HIDE DEF parts
    <2>2. QED
      BY <2>1, SeqMade
  <1>6. \A i \in 1 .. l : \A j \in 1 .. v[i].len : piece(i)[j] = v[i].from + j - 1
    OBVIOUS
  <1>7. BytesOf(w, n) = SubSeq(FlattenSeq(parts), 1, n)
    BY <1>1, <1>2 DEF BytesOf
  <1> HIDE DEF piece, parts
  <1>8. Sums(b, LengthsOf(parts), Len(parts))
    <2>1. \A i \in 1 .. l : LengthsOf(parts)[i] = Lens(v)[i]
      <3>1. \A i \in 1 .. l : LengthsOf(parts)[i] = v[i].len
        BY <1>4, <1>5 DEF LengthsOf
      <3>2. \A i \in 1 .. l : Lens(v)[i] = v[i].len
        BY <1>2 DEF Lens
      <3>3. QED
        BY <3>1, <3>2
    <2>2. QED
      BY <1>2, <1>5, <2>1 DEF Sums
  <1>9. PICK r \in Seq(Nat) : r = FlattenSeq(parts) /\ Len(r) = b[l] /\ Placed(r, parts, b, l)
    BY <1>5, <1>8, Flattened
  <1>10. ASSUME NEW x \in 1 .. b[l]
         PROVE  r[x] = S + x
    <2>1. Lens(v) \in [1 .. l -> Nat] /\ \A i \in 1 .. l : Lens(v)[i] = v[i].len
      BY <1>2, <1>3 DEF Lens
    <2>2. \E i \in 1 .. l : \E j \in 1 .. Lens(v)[i] : x = b[i - 1] + j
      <3>1. PICK u \in [1 .. l -> Nat] : u = Lens(v)
        BY <2>1
      <3>2. Sums(b, u, l)
        BY <1>2, <3>1
      <3>3. Falls(x, b, u, l)
        BY <3>2, FallsIn
      <3>4. QED
        BY <3>1, <3>3 DEF Falls
    <2>3. PICK i \in 1 .. l : \E j \in 1 .. Lens(v)[i] : x = b[i - 1] + j
      BY <2>2
    <2>4. PICK j \in 1 .. Lens(v)[i] : x = b[i - 1] + j
      BY <2>3
    <2>5. j \in 1 .. v[i].len /\ Len(parts[i]) = v[i].len
      BY <1>4, <1>5, <2>1
    <2>6. r[b[i - 1] + j] = piece(i)[j]
      BY <1>5, <1>9, <2>5 DEF Placed
    <2>7. piece(i)[j] = v[i].from + j - 1
      BY <1>6, <2>5
    <2>8. PICK f \in Nat, m \in Nat, c \in Nat, y \in Nat :
            f = v[i].from /\ m = v[i].len /\ c = b[i - 1] /\ y = j
      <3>1. i - 1 \in 0 .. l
        OBVIOUS
      <3>2. b[i - 1] \in Nat /\ j \in Nat
        BY <1>2, <1>3, <2>5, <3>1
      <3>3. QED
        BY <1>3, <3>2
    <2>9. f = S + c + 1 /\ x = c + y
      BY <1>2, <2>4, <2>8
    <2>10. f + y - 1 = S + (c + y)
      BY <2>9
    <2>11. QED
      BY <2>4, <2>6, <2>7, <2>8, <2>9, <2>10
  <1>11. PICK B \in Nat : B = b[l] /\ n <= B
    <2>1. l \in 0 .. l
      OBVIOUS
    <2>2. QED
      BY <1>1, <1>2, <2>1
  <1>12. /\ SubSeq(r, 1, n) \in Seq(Nat) /\ Len(SubSeq(r, 1, n)) = n
         /\ \A i \in 1 .. n : SubSeq(r, 1, n)[i] = r[i]
    <2>1. n \in 0 .. Len(r)
      BY <1>9, <1>11
    <2>2. QED
      BY <2>1, SubSeqParts
  <1>13. PICK s \in Seq(Nat) : s = SubSeq(r, 1, n)
    BY <1>12
  <1>14. s \in [1 .. n -> Nat] /\ \A i \in 1 .. n : s[i] = S + i
    <2>1. \A i \in 1 .. n : i \in 1 .. b[l]
      BY <1>11
    <2>2. s \in [1 .. n -> Nat]
      BY <1>12, <1>13, SeqParts
    <2>3. \A i \in 1 .. n : s[i] = r[i]
      BY <1>12, <1>13
    <2>4. QED
      BY <1>10, <2>1, <2>2, <2>3
  <1>15. s = Counting(S, n)
    BY <1>14 DEF Counting
  <1>16. QED
    BY <1>7, <1>9, <1>13, <1>15

-----------------------------------------------------------------------------
(* What the methods read of known bytes.                                   *)

\* What is unread begins with the bytes of e after the first o, as far as
\* they go.
InPacket(r, e, o) == \A i \in 1 .. r.readLeft : i <= Len(e) - o => Unread(r)[i] = e[o + i]

\* A method reads len bytes; when it is incomplete, fewer than short are
\* unread.
Takes(r, read, len, short) ==
    /\ {"err", "reader"} \subseteq DOMAIN read
    /\ read.err \in {"OK", "INCOMPLETE_BUFFER_ERR", "PROGRAMMING_ERR"}
    /\ read.err = "OK" => Advances(r, read.reader, len)
    /\ read.err = "INCOMPLETE_BUFFER_ERR" => r.readLeft < short

LEMMA IncompleteTakes ==
  ASSUME NEW r, NEW len, NEW short, r.readLeft < short
  PROVE  Takes(r, Incomplete(r), len, short)
  <1>1. /\ DOMAIN Incomplete(r) = {"err", "reader"}
        /\ Incomplete(r).err = "INCOMPLETE_BUFFER_ERR"
    BY DEF Incomplete
  <1>2. QED
    BY <1>1 DEF Takes

LEMMA SkipTakes ==
  ASSUME NEW r, ReaderOK(r), NEW n \in Nat
  PROVE  Takes(r, SkipBytes(r, n), n, n)
  <1>1. r.readLeft \in Nat
    BY UnreadBytes
  <1>2. CASE n > r.readLeft
    <2>1. SkipBytes(r, n) = Incomplete(r) /\ r.readLeft < n
      BY <1>1, <1>2, SkipBytesOutcome
    <2>2. QED
      BY <2>1, IncompleteTakes
  <1>3. CASE n <= r.readLeft
    <2>1. /\ DOMAIN SkipBytes(r, n) = {"err", "reader"} /\ SkipBytes(r, n).err = "OK"
          /\ Advances(r, SkipBytes(r, n).reader, n)
      BY <1>3, SkipBytesOutcome DEF Drops
    <2>2. QED
      BY <2>1 DEF Takes
  <1>4. QED
    BY <1>1, <1>2, <1>3

LEMMA BytesTake ==
  ASSUME NEW r, ReaderOK(r), NEW n \in Nat
  PROVE  Takes(r, ReadBytes(r, n), n, n)
  <1>1. r.readLeft \in Nat
    BY UnreadBytes
  <1>2. CASE n > r.readLeft
    <2>1. ReadBytes(r, n) = Incomplete(r) /\ r.readLeft < n
      BY <1>1, <1>2, ReadBytesOutcome
    <2>2. QED
      BY <2>1, IncompleteTakes
  <1>3. CASE n <= r.readLeft
    <2>1. /\ DOMAIN ReadBytes(r, n) = {"err", "token", "reader"} /\ ReadBytes(r, n).err = "OK"
          /\ Advances(r, ReadBytes(r, n).reader, n)
      BY <1>3, ReadBytesOutcome DEF Gives
    <2>2. QED
      BY <2>1 DEF Takes
  <1>4. QED
    BY <1>1, <1>2, <1>3

LEMMA ThenSkipTakes ==
  ASSUME NEW r, ReaderOK(r), NEW read, NEW len \in Nat, NEW short \in Nat,
         Takes(r, read, len, short), NEW n \in Nat, short <= len + n
  PROVE  /\ Takes(r, ThenSkip(read, n), len + n, len + n)
         /\ DOMAIN ThenSkip(read, n) = DOMAIN read
         /\ \A f \in DOMAIN read \ {"err", "reader"} : ThenSkip(read, n)[f] = read[f]
         /\ ThenSkip(read, n).err = "OK" => read.err = "OK"
  <1>1. r.readLeft \in Nat
    BY UnreadBytes
  <1>2. CASE read.err # "OK"
    <2>1. ThenSkip(read, n) = read
      BY <1>2 DEF ThenSkip
    <2>2. read.err = "INCOMPLETE_BUFFER_ERR" => r.readLeft < len + n
      BY <1>1 DEF Takes
    <2>3. Takes(r, read, len + n, len + n)
      BY <1>2, <2>2 DEF Takes
    <2>4. QED
      BY <2>1, <2>3
  <1>3. CASE read.err = "OK"
    <2>1. PICK skip, m : skip = SkipBytes(read.reader, n) /\ m = read.reader
      OBVIOUS
    <2>2. /\ Advances(r, m, len) /\ ReaderOK(m) /\ m.readLeft = r.readLeft - len
          /\ {"err", "reader"} \subseteq DOMAIN read
      BY <1>3, <2>1 DEF Takes, Advances
    <2>3. Takes(m, skip, n, n)
      BY <2>1, <2>2, SkipTakes
    <2>4. ThenSkip(read, n) = [read EXCEPT !.err = skip.err, !.reader = skip.reader]
      BY <1>3, <2>1 DEF ThenSkip
    <2>5. /\ DOMAIN ThenSkip(read, n) = DOMAIN read
          /\ \A f \in DOMAIN read \ {"err", "reader"} : ThenSkip(read, n)[f] = read[f]
          /\ ThenSkip(read, n).err = skip.err /\ ThenSkip(read, n).reader = skip.reader
      BY <2>2, <2>4
    <2>6. skip.err = "OK" => Advances(r, skip.reader, len + n)
      <3>1. skip.err = "OK" => Advances(m, skip.reader, n)
        BY <2>3 DEF Takes
      <3>2. QED
        BY <2>2, <3>1, AdvancesChain
    <2>7. skip.err = "INCOMPLETE_BUFFER_ERR" => r.readLeft < len + n
      <3>1. skip.err = "INCOMPLETE_BUFFER_ERR" => m.readLeft < n
        BY <2>3 DEF Takes
      <3>2. QED
        BY <1>1, <2>2, <3>1
    <2>8. skip.err \in {"OK", "INCOMPLETE_BUFFER_ERR", "PROGRAMMING_ERR"}
      BY <2>3 DEF Takes
    <2>9. Takes(r, ThenSkip(read, n), len + n, len + n)
      BY <2>2, <2>5, <2>6, <2>7, <2>8 DEF Takes
    <2>10. QED
      BY <1>3, <2>5, <2>9
  <1>4. QED
    BY <1>2, <1>3

\* e goes on from o with d elements of S, and then another.
RunsOver(e, o, d, S) ==
    /\ \A i \in 1 .. d : e[o + i] \in S
    /\ e[o + (d + 1)] \notin S
    /\ o + (d + 1) <= Len(e)

\* A scan over the first rl elements of u stops behind B of them.
Scans(u, rl, S, B) ==
    /\ B \in 0 .. rl
    /\ \A i \in 1 .. B : u[i] \in S
    /\ B # rl => u[B + 1] \notin S

\* u goes on as e does.
Agrees(u, rl, e, o, d) == \A i \in 1 .. rl : i <= d + 1 => u[i] = e[o + i]

LEMMA FirstAt ==
  ASSUME NEW rl \in Nat, NEW d \in Nat, NEW o \in Nat, NEW u, NEW S, NEW B \in Nat, NEW e,
         Scans(u, rl, S, B), Agrees(u, rl, e, o, d), RunsOver(e, o, d, S)
  PROVE  /\ rl > d => B = d
         /\ rl <= d => B = rl
  <1>0. /\ B \in 0 .. rl /\ (\A i \in 1 .. B : u[i] \in S) /\ (B # rl => u[B + 1] \notin S)
        /\ \A i \in 1 .. rl : i <= d + 1 => u[i] = e[o + i]
        /\ (\A i \in 1 .. d : e[o + i] \in S) /\ e[o + (d + 1)] \notin S
    BY DEF Scans, Agrees, RunsOver
  <1>1. CASE rl > d
    <2>1. d + 1 \in 1 .. rl /\ u[d + 1] = e[o + (d + 1)]
      BY <1>0, <1>1
    <2>2. B <= d
      <3>1. SUFFICES ASSUME B > d PROVE FALSE
        OBVIOUS
      <3>2. d + 1 \in 1 .. B
        BY <1>0, <3>1
      <3>3. QED
        BY <1>0, <2>1, <3>2
    <2>3. B >= d
      <3>1. SUFFICES ASSUME B < d PROVE FALSE
        OBVIOUS
      <3>2. B + 1 \in 1 .. d /\ B + 1 \in 1 .. rl /\ B # rl /\ B + 1 <= d + 1
        BY <1>0, <1>1, <3>1
      <3>3. u[B + 1] = e[o + (B + 1)] /\ e[o + (B + 1)] \in S
        BY <1>0, <3>2
      <3>4. QED
        BY <1>0, <3>2, <3>3
    <2>4. QED
      BY <1>0, <1>1, <2>2, <2>3
  <1>2. CASE rl <= d
    <2>1. SUFFICES ASSUME B # rl PROVE FALSE
      BY <1>0, <1>2
    <2>2. B + 1 \in 1 .. rl /\ B + 1 \in 1 .. d /\ B + 1 <= d + 1
      BY <1>0, <1>2, <2>1
    <2>3. u[B + 1] = e[o + (B + 1)] /\ e[o + (B + 1)] \in S
      BY <1>0, <2>2
    <2>4. QED
      BY <1>0, <2>1, <2>2, <2>3
  <1>3. QED
    BY <1>0, <1>1, <1>2

LEMMA BeforeAt ==
  ASSUME NEW r, ReaderOK(r), NEW e, Len(e) \in Nat, NEW o \in Nat, InPacket(r, e, o),
         NEW d \in Nat, NEW c, RunsOver(e, o, d, Byte \ {c}), e[o + (d + 1)] = c
  PROVE  /\ r.readLeft > d => Before(r, {c}) = d
         /\ r.readLeft <= d => Before(r, {c}) = r.readLeft
  <1>1. PICK u \in Seq(Byte), n \in Nat, B \in Nat :
          u = Unread(r) /\ n = r.readLeft /\ B = Before(r, {c}) /\ B \in 0 .. n
    BY UnreadBytes, BeforeScans
  <1>2. \A i \in 1 .. n : u[i] \in Byte
    BY <1>1, UnreadBytes
  <1>3. /\ \A i \in 1 .. B : u[i] \notin {c}
        /\ B # n => B + 1 \in 1 .. n /\ u[B + 1] \in {c}
    BY <1>1, BeforeScans
  <1>4. ASSUME NEW i \in 1 .. B
        PROVE  u[i] \in Byte \ {c}
    <2>1. i \in 1 .. n
      BY <1>1
    <2>2. u[i] \in Byte /\ u[i] # c
      BY <1>2, <1>3, <2>1
    <2>3. QED
      BY <2>2
  <1>5. Scans(u, n, Byte \ {c}, B)
    BY <1>1, <1>3, <1>4 DEF Scans
  <1>6. Agrees(u, n, e, o, d)
    <2>1. d + 1 <= Len(e) - o
      BY DEF RunsOver
    <2>2. \A i \in 1 .. n : i <= Len(e) - o => u[i] = e[o + i]
      BY <1>1 DEF InPacket
    <2>3. PICK l \in Nat : l = Len(e)
      OBVIOUS
    <2>4. QED
      BY <1>1, <2>1, <2>2, <2>3 DEF Agrees
  <1>7. RunsOver(e, o, d, Byte \ {c})
    OBVIOUS
  <1>8. (n > d => B = d) /\ (n <= d => B = n)
    BY <1>1, <1>5, <1>6, <1>7, FirstAt
  <1>9. QED
    BY <1>1, <1>8

LEMMA UntilTakes ==
  ASSUME NEW r, ReaderOK(r), NEW e, Len(e) \in Nat, NEW o \in Nat, InPacket(r, e, o),
         NEW d \in Nat, NEW c, RunsOver(e, o, d, Byte \ {c}), e[o + (d + 1)] = c
  PROVE  /\ Takes(r, ThenSkip(ReadUntil(r, c), 1), d + 1, d + 1)
         /\ Takes(r, ThenSkip(SkipUntil(r, c), 1), d + 1, d + 1)
  <1>1. PICK n \in Nat : n = r.readLeft
    BY UnreadBytes
  <1>2. (n > d => Before(r, {c}) = d) /\ (n <= d => Before(r, {c}) = n)
    BY <1>1, BeforeAt
  <1>3. Takes(r, ReadUntil(r, c), d, d + 1) /\ Takes(r, SkipUntil(r, c), d, d + 1)
    <2>1. CASE n <= d
      <3>1. ReadUntil(r, c) = Incomplete(r) /\ SkipUntil(r, c) = Incomplete(r)
        BY <1>1, <1>2, <2>1 DEF ReadUntil, SkipUntil
      <3>2. r.readLeft < d + 1
        BY <1>1, <2>1
      <3>3. QED
        BY <3>1, <3>2, IncompleteTakes
    <2>2. CASE n > d
      <3>1. Before(r, {c}) = d /\ d # r.readLeft
        BY <1>1, <1>2, <2>2
      <3>2. ReadUntil(r, c) = ReadBytes(r, d) /\ SkipUntil(r, c) = SkipBytes(r, d)
        BY <3>1 DEF ReadUntil, SkipUntil
      <3>3. Takes(r, ReadBytes(r, d), d, d) /\ Takes(r, SkipBytes(r, d), d, d)
        BY BytesTake, SkipTakes
      <3>4. r.readLeft < d => r.readLeft < d + 1
        BY <1>1
      <3>5. Takes(r, ReadBytes(r, d), d, d + 1) /\ Takes(r, SkipBytes(r, d), d, d + 1)
        BY <3>3, <3>4 DEF Takes
      <3>6. QED
        BY <3>2, <3>5
    <2>3. QED
      BY <2>1, <2>2
  <1>4. d + 1 \in Nat /\ d + 1 <= d + 1
    OBVIOUS
  <1>5. QED
    BY <1>3, <1>4, ThenSkipTakes

LEMMA NumberTakes ==
  ASSUME NEW r, ReaderOK(r), NEW e, Len(e) \in Nat, NEW o \in Nat, InPacket(r, e, o),
         NEW d \in Nat, d # 0, RunsOver(e, o, d, Decimals)
  PROVE  /\ Takes(r, ThenSkip(ReadUnsigned(r), 1), d + 1, d + 1)
         /\ ThenSkip(ReadUnsigned(r), 1).err = "OK" =>
              ThenSkip(ReadUnsigned(r), 1).value = NumberOf([i \in 1 .. d |-> e[o + i]])
  <1>1. PICK n \in Nat, u \in Seq(Byte), D \in Nat :
          /\ n = r.readLeft /\ u = Unread(r) /\ D = DigitsAhead(r) /\ Len(u) = n
          /\ D \in 0 .. n
    BY UnreadBytes, DigitsAheadAre
  <1>2. Agrees(u, n, e, o, d)
    <2>1. d + 1 <= Len(e) - o
      BY DEF RunsOver
    <2>2. \A i \in 1 .. n : i <= Len(e) - o => u[i] = e[o + i]
      BY <1>1 DEF InPacket
    <2>3. PICK l \in Nat : l = Len(e)
      OBVIOUS
    <2>4. QED
      BY <1>1, <2>1, <2>2, <2>3 DEF Agrees
  <1>3. (n > d => D = d) /\ (n <= d => D = n)
    <2>1. (\A i \in 1 .. D : u[i] \in Decimals) /\ (D # n => u[D + 1] \notin Decimals)
      BY <1>1, DigitsAheadAre
    <2>2. Scans(u, n, Decimals, D)
      BY <1>1, <2>1 DEF Scans
    <2>3. QED
      BY <1>2, <2>2, FirstAt
  <1>4. /\ Takes(r, ReadUnsigned(r), d, d + 1)
        /\ ReadUnsigned(r).err = "OK" =>
             /\ "value" \in DOMAIN ReadUnsigned(r)
             /\ ReadUnsigned(r).value = NumberOf([i \in 1 .. d |-> e[o + i]])
    <2>1. CASE n <= d
      <3>1. r.readLeft < d + 1
        BY <1>1, <2>1
      <3>2. ReadUnsigned(r) \in {Incomplete(r), Programming(r)}
        BY <1>1, <1>3, <2>1 DEF ReadUnsigned, DigitsAhead
      <3>3. CASE ReadUnsigned(r) = Incomplete(r)
        <4>1. ReadUnsigned(r).err # "OK"
          BY <3>3 DEF Incomplete
        <4>2. QED
          BY <3>1, <3>3, <4>1, IncompleteTakes
      <3>4. CASE ReadUnsigned(r) = Programming(r)
        <4>1. /\ ReadUnsigned(r).err = "PROGRAMMING_ERR"
              /\ DOMAIN ReadUnsigned(r) = {"err", "reader"}
          BY <3>4 DEF Programming
        <4>2. QED
          BY <4>1 DEF Takes
      <3>5. QED
        BY <3>2, <3>3, <3>4
    <2>2. CASE n > d
      <3>1. D = d /\ d # r.readLeft /\ r.readLeft >= 2
        BY <1>1, <1>3, <2>2
      <3>2. PICK v : v = NumberOf(SubSeq(Unread(r), 1, d))
        OBVIOUS
      <3>3. ReadUnsigned(r) = [err |-> "OK", reader |-> SkipBytes(r, d).reader, value |-> v]
        BY <1>1, <3>1, <3>2 DEF ReadUnsigned, DigitsAhead
      <3>4. Advances(r, SkipBytes(r, d).reader, d)
        BY <1>1, <2>2, SkipBytesOutcome DEF Drops
      <3>5. SubSeq(Unread(r), 1, d) = [i \in 1 .. d |-> e[o + i]]
        <4>1. SubSeq(u, 1, d) = [i \in 1 .. d |-> u[i]]
          BY <1>1, <2>2
        <4>2. \A i \in 1 .. d : u[i] = e[o + i]
          BY <1>1, <1>2, <2>2 DEF Agrees
        <4>3. QED
          BY <1>1, <4>1, <4>2
      <3>6. v = NumberOf([i \in 1 .. d |-> e[o + i]])
        BY <3>2, <3>5
      <3>7. QED
        BY <3>3, <3>4, <3>6 DEF Takes
    <2>3. QED
      BY <2>1, <2>2
  <1>5. d + 1 \in Nat /\ d + 1 <= d + 1
    OBVIOUS
  <1>6. PICK read : read = ReadUnsigned(r)
    OBVIOUS
  <1>7. /\ Takes(r, ThenSkip(read, 1), d + 1, d + 1)
        /\ \A f \in DOMAIN read \ {"err", "reader"} : ThenSkip(read, 1)[f] = read[f]
        /\ ThenSkip(read, 1).err = "OK" => read.err = "OK"
    <2>1. Takes(r, read, d, d + 1)
      BY <1>4, <1>6
    <2>2. QED
      BY <1>5, <2>1, ThenSkipTakes
  <1>8. QED
    BY <1>4, <1>6, <1>7

-----------------------------------------------------------------------------
(* The packets byte by byte.                                               *)

LEMMA WordNames ==
  /\ MessageTypes \subseteq DOMAIN Word /\ DOMAIN LineState \subseteq DOMAIN Word
  /\ DOMAIN ErrorOf \subseteq DOMAIN Word /\ "VALUE" \in DOMAIN Word /\ "END" \in DOMAIN Word
  BY DEF Word, MessageTypes, LineState, ErrorOf

LEMMA WordLengths ==
  \A w \in DOMAIN Word : Len(Word[w]) \in Nat /\ Word[w] \in Seq(Byte)
  <1>1. /\ Word.VALUE \in Seq(Byte) /\ Word.VERSION \in Seq(Byte) /\ Word.STAT \in Seq(Byte)
        /\ Word.END \in Seq(Byte) /\ Word.OK \in Seq(Byte)
    BY DEF Word, Byte
  <1>2. /\ Word.STORED \in Seq(Byte) /\ Word.NOT_STORED \in Seq(Byte)
        /\ Word.EXISTS \in Seq(Byte) /\ Word.DELETED \in Seq(Byte)
    BY DEF Word, Byte
  <1>3. /\ Word.NOT_FOUND \in Seq(Byte) /\ Word.TOUCHED \in Seq(Byte)
        /\ Word.ERROR \in Seq(Byte) /\ Word.SERVER_ERROR \in Seq(Byte)
        /\ Word.CLIENT_ERROR \in Seq(Byte)
    BY DEF Word, Byte
  <1>4. DOMAIN Word = {"VALUE", "VERSION", "STAT", "END", "OK", "STORED", "NOT_STORED",
                       "EXISTS", "DELETED", "NOT_FOUND", "TOUCHED", "ERROR",
                       "SERVER_ERROR", "CLIENT_ERROR"}
    BY DEF Word
  <1>5. \A w \in DOMAIN Word : Word[w] \in Seq(Byte)
    BY <1>1, <1>2, <1>3, <1>4
  <1>6. QED
    BY <1>5, SeqParts

\* v is in e behind the first off elements.
Bears(e, off, v) ==
    /\ Len(e) \in Nat /\ off \in Nat /\ Len(v) \in Nat
    /\ off + Len(v) <= Len(e)
    /\ \A i \in 1 .. Len(v) : e[off + i] = v[i]

LEMMA BearsItself ==
  ASSUME NEW e \in Seq(Byte)
  PROVE  Bears(e, 0, e)
  <1>1. PICK l \in Nat : l = Len(e)
    OBVIOUS
  <1>2. \A i \in 1 .. l : e[0 + i] = e[i]
    OBVIOUS
  <1>3. QED
    BY <1>1, <1>2 DEF Bears

LEMMA Peel ==
  ASSUME NEW e, NEW s \in Seq(Byte), NEW v \in Seq(Byte), Bears(e, 0, s \o v)
  PROVE  Bears(e, 0, s) /\ Bears(e, Len(s), v)
  <1>1. PICK x \in Seq(Byte), m \in Nat, n \in Nat :
          x = s \o v /\ m = Len(s) /\ n = Len(v) /\ Concat(x, s, v, m, n)
    <2>1. Len(s) \in Nat /\ Len(v) \in Nat
      OBVIOUS
    <2>2. PICK x \in Seq(Byte) : Concat(x, s, v, Len(s), Len(v))
      BY ConcatParts
    <2>3. x = s \o v
      BY <2>2 DEF Concat
    <2>4. QED
      BY <2>1, <2>2, <2>3
  <1>2. /\ Len(x) = m + n /\ \A i \in 1 .. m : x[i] = s[i]
        /\ \A i \in 1 .. n : x[m + i] = v[i]
    BY <1>1 DEF Concat
  <1>3. PICK l \in Nat : /\ l = Len(e) /\ m + n <= l
                         /\ \A i \in 1 .. m + n : e[0 + i] = x[i]
    BY <1>1, <1>2, SMTT(20) DEF Bears
  <1>4. ASSUME NEW i \in 1 .. m
        PROVE  e[0 + i] = s[i]
    <2>1. i \in 1 .. m + n
      OBVIOUS
    <2>2. QED
      BY <1>2, <1>3, <2>1
  <1>5. ASSUME NEW i \in 1 .. n
        PROVE  e[m + i] = v[i]
    <2>1. m + i \in 1 .. m + n /\ 0 + (m + i) = m + i
      OBVIOUS
    <2>2. QED
      BY <1>2, <1>3, <2>1
  <1>6. 0 + m <= l /\ m + n <= l
    BY <1>3
  <1>7. QED
    BY <1>1, <1>3, <1>4, <1>5, <1>6 DEF Bears

LEMMA JoinType ==
  ASSUME NEW s \in Seq(Byte), NEW v \in Seq(Byte)
  PROVE  s \o v \in Seq(Byte) /\ Len(s \o v) = Len(s) + Len(v)
  <1>1. PICK x \in Seq(Byte) : Concat(x, s, v, Len(s), Len(v))
    BY ConcatParts
  <1>2. QED
    BY <1>1 DEF Concat

LEMMA AsBytes ==
  ASSUME NEW V, V \subseteq Byte, NEW s \in Seq(V)
  PROVE  s \in Seq(Byte) /\ Len(s) \in Nat /\ \A i \in 1 .. Len(s) : s[i] \in V
  <1>1. PICK n \in Nat : n = Len(s) /\ s \in [1 .. n -> V]
    BY SeqParts
  <1>2. s \in [1 .. n -> Byte]
    BY <1>1
  <1>3. QED
    BY <1>1, <1>2, SeqMade

-----------------------------------------------------------------------------
(* Decimal numbers.                                                        *)

LEMMA DigitsDiffer ==
  ASSUME NEW i \in 1 .. 10, NEW j \in 1 .. 10, Digits[i] = Digits[j]
  PROVE  i = j
  <1>1. /\ Digits[1] = "0" /\ Digits[2] = "1" /\ Digits[3] = "2" /\ Digits[4] = "3"
        /\ Digits[5] = "4" /\ Digits[6] = "5" /\ Digits[7] = "6" /\ Digits[8] = "7"
        /\ Digits[9] = "8" /\ Digits[10] = "9"
    BY DEF Digits
  <1>2. i \in {1, 2, 3, 4, 5, 6, 7, 8, 9, 10} /\ j \in {1, 2, 3, 4, 5, 6, 7, 8, 9, 10}
    OBVIOUS
  <1>3. QED
    BY <1>1, <1>2

LEMMA DigitOf ==
  ASSUME NEW i \in 0 .. 9
  PROVE  Digits[i + 1] \in Decimals /\ DigitValue(Digits[i + 1]) = i
  <1>1. PICK c : c = Digits[i + 1]
    OBVIOUS
  <1>2. i + 1 \in 1 .. 10
    OBVIOUS
  <1>3. c \in Decimals
    BY <1>1, <1>2, DigitsAre DEF Decimals, ToSet
  <1>4. PICK j \in 0 .. 9 : j = DigitValue(c) /\ Digits[j + 1] = c
    BY <1>3, DigitType
  <1>5. j + 1 \in 1 .. 10 /\ Digits[j + 1] = Digits[i + 1]
    BY <1>1, <1>4
  <1>6. j + 1 = i + 1
    BY <1>2, <1>5, DigitsDiffer
  <1>7. QED
    BY <1>1, <1>3, <1>4, <1>6

LEMMA DecimalOf ==
  ASSUME NEW n \in 0 .. 99
  PROVE  /\ Decimal(n) \in Seq(Decimals) /\ Len(Decimal(n)) \in Nat /\ Len(Decimal(n)) # 0
         /\ NumberOf(Decimal(n)) = n
  <1>1. CASE n < 10
    <2>1. PICK c : c = Digits[n + 1] /\ Decimal(n) = <<c>>
      BY <1>1 DEF Decimal
    <2>2. c \in Decimals /\ DigitValue(c) = n
      BY <1>1, <2>1, DigitOf
    <2>3. PICK s \in Seq(Decimals) : s = <<c>> /\ Len(s) = 1 /\ s[1] = c
      <3>1. PICK x : x = <<c>>
        OBVIOUS
      <3>2. x \in Seq(Decimals)
        BY <2>2, <3>1
      <3>3. Len(x) = 1 /\ x[1] = c
        BY <3>1
      <3>4. QED
        BY <3>1, <3>2, <3>3
    <2>4. PICK t \in [0 .. Len(s) -> Nat] : Values(t, s, Len(s))
      BY ValuesExist
    <2>5. NumberOf(s) = t[1]
      BY <2>3, <2>4, NumberValues
    <2>6. t[0] = 0 /\ t[1] = 10 * t[1 - 1] + DigitValue(s[1])
      BY <2>3, <2>4 DEF Values
    <2>7. t[1] = n
      BY <2>2, <2>3, <2>6
    <2>8. QED
      BY <2>1, <2>3, <2>5, <2>7
  <1>2. CASE n >= 10
    <2>1. PICK a \in 0 .. 9, b \in 0 .. 9 : a = n \div 10 /\ b = n % 10 /\ n = 10 * a + b
      BY <1>2
    <2>2. PICK c, d : c = Digits[a + 1] /\ d = Digits[b + 1] /\ Decimal(n) = <<c, d>>
      BY <1>2, <2>1 DEF Decimal
    <2>3. c \in Decimals /\ d \in Decimals /\ DigitValue(c) = a /\ DigitValue(d) = b
      BY <2>2, DigitOf
    <2>4. PICK s \in Seq(Decimals) : s = <<c, d>> /\ Len(s) = 2 /\ s[1] = c /\ s[2] = d
      <3>1. PICK x : x = <<c, d>>
        OBVIOUS
      <3>2. x \in Seq(Decimals)
        BY <2>3, <3>1
      <3>3. Len(x) = 2 /\ x[1] = c /\ x[2] = d
        BY <3>1
      <3>4. QED
        BY <3>1, <3>2, <3>3
    <2>5. PICK t \in [0 .. Len(s) -> Nat] : Values(t, s, Len(s))
      BY ValuesExist
    <2>6. NumberOf(s) = t[2]
      BY <2>4, <2>5, NumberValues
    <2>7. /\ t[0] = 0 /\ t[1] = 10 * t[1 - 1] + DigitValue(s[1])
          /\ t[2] = 10 * t[2 - 1] + DigitValue(s[2])
      BY <2>4, <2>5 DEF Values
    <2>8. t[1] = a
      BY <2>3, <2>4, <2>7
    <2>9. t[2] = 10 * a + b
      BY <2>3, <2>4, <2>7, <2>8
    <2>10. NumberOf(s) = n
      BY <2>1, <2>6, <2>9
    <2>11. s = Decimal(n)
      BY <2>2, <2>4
    <2>12. s \in Seq(Decimals) /\ Len(s) \in Nat /\ Len(s) # 0
      BY <2>4
    <2>13. QED
      BY <2>10, <2>11, <2>12, Zenon
  <1>3. QED
    BY <1>1, <1>2

LEMMA NotDigits ==
  /\ "SP" \notin Decimals /\ "CR" \notin Decimals /\ "LF" \notin Decimals /\ "?" \notin Decimals
  /\ Decimals \subseteq Byte /\ STRING \subseteq Byte
  /\ {"SP", "CR", "LF", "?"} \subseteq Byte
  BY DigitsAre DEF Byte

-----------------------------------------------------------------------------
(* The packets that are a line or less.                                    *)

LEMMA LineLaid ==
  ASSUME NEW p, WellFormed(p), p.type \in DOMAIN LineState,
         NEW e, e = Encoded(p)
  PROVE  /\ e \in Seq(Byte) /\ Bears(e, 0, Word[p.type])
         /\ \E d \in Nat : /\ RunsOver(e, Len(Word[p.type]), d, Byte \ {"LF"})
                           /\ e[Len(Word[p.type]) + (d + 1)] = "LF"
                           /\ Len(e) = Len(Word[p.type]) + (d + 1)
  <1>1. PICK w \in Seq(Byte), l \in Seq(STRING \ {"LF"}), f \in Seq(Byte) :
          w = Word[p.type] /\ l = p.line /\ f = <<"LF">>
    <2>1. p.type \in DOMAIN Word /\ p.line \in Seq(STRING \ {"LF"}) /\ <<"LF">> \in Seq(Byte)
      BY WordNames, NotDigits DEF WellFormed
    <2>2. QED
      BY <2>1, WordLengths
  <1>2. e = w \o l \o f
    <2>1. p.type \in {"VERSION", "STAT"}
      BY DEF LineState
    <2>2. p.type # "VALUE"
      BY <2>1
    <2>3. Encoded(p) = Word[p.type] \o p.line \o <<"LF">>
      BY <2>1, <2>2, Zenon DEF Encoded
    <2>4. QED
      BY <1>1, <2>3, Zenon
  <1>3. l \in Seq(Byte) /\ \A i \in 1 .. Len(l) : l[i] \in STRING \ {"LF"}
    <2>1. STRING \ {"LF"} \subseteq Byte
      BY NotDigits
    <2>2. QED
      BY <2>1, AsBytes
  <1>4. PICK m \in Nat, n \in Nat : m = Len(w) /\ n = Len(l)
    BY <1>3
  <1>5. /\ w \o l \in Seq(Byte) /\ e \in Seq(Byte) /\ Len(w \o l) = m + n
        /\ Len(e) = m + n + 1
    <2>1. w \o l \in Seq(Byte) /\ Len(w \o l) = m + n
      BY <1>3, <1>4, JoinType
    <2>2. e \in Seq(Byte) /\ Len(e) = Len(w \o l) + Len(f)
      BY <1>2, <2>1, JoinType
    <2>3. Len(f) = 1
      BY <1>1
    <2>4. QED
      BY <2>1, <2>2, <2>3
  <1>6. Bears(e, 0, w \o l) /\ Bears(e, m + n, f)
    <2>1. Bears(e, 0, (w \o l) \o f)
      BY <1>2, <1>5, BearsItself
    <2>2. QED
      BY <1>5, <2>1, Peel
  <1>7. Bears(e, 0, w) /\ Bears(e, m, l)
    BY <1>3, <1>4, <1>6, Peel
  <1>8. e[m + (n + 1)] = "LF"
    <2>1. e[(m + n) + 1] = f[1]
      BY <1>1, <1>6 DEF Bears
    <2>2. (m + n) + 1 = m + (n + 1)
      OBVIOUS
    <2>3. QED
      BY <1>1, <2>1, <2>2
  <1>9. RunsOver(e, m, n, Byte \ {"LF"})
    <2>1. \A i \in 1 .. n : e[m + i] = l[i]
      BY <1>4, <1>7 DEF Bears
    <2>2. \A i \in 1 .. n : e[m + i] \in Byte \ {"LF"}
      BY <1>3, <1>4, <2>1, NotDigits
    <2>3. m + (n + 1) <= Len(e)
      BY <1>5
    <2>4. QED
      BY <1>8, <2>2, <2>3 DEF RunsOver
  <1>10. m + n + 1 = m + (n + 1)
    OBVIOUS
  <1>11. QED
    BY <1>1, <1>4, <1>5, <1>7, <1>8, <1>9, <1>10

\* e goes on from o to its only line feed, at its end.
LineEnds(e, o) ==
    \E n \in Nat : /\ RunsOver(e, o, n, Byte \ {"LF"}) /\ e[o + (n + 1)] = "LF"
                   /\ Len(e) = o + (n + 1)

LEMMA NumberLaid ==
  ASSUME NEW p, WellFormed(p), p.type = "NUMBER",
         NEW e, e = Encoded(p), NEW d, d = Len(Decimal(p.value))
  PROVE  /\ e \in Seq(Byte) /\ d \in Nat /\ d # 0
         /\ RunsOver(e, 0, d, Decimals)
         /\ LineEnds(e, d + 1)
  <1>1. PICK w \in Seq(Decimals), l \in Seq({"SP"}), f \in Seq(Byte) :
          w = Decimal(p.value) /\ l = p.pad /\ f = <<"CR", "LF">> /\ d = Len(w) /\ d # 0
    <2>1. p.value \in 0 .. 99 /\ p.pad \in Seq({"SP"}) /\ <<"CR", "LF">> \in Seq(Byte)
      BY NotDigits DEF WellFormed, Sayable
    <2>2. QED
      BY <2>1, DecimalOf
  <1>2. e = w \o l \o f
    <2>1. /\ p.type # "VALUE" /\ p.type \notin {"VERSION", "STAT"}
      OBVIOUS
    <2>2. Encoded(p) = Decimal(p.value) \o p.pad \o <<"CR", "LF">>
      BY <2>1, Zenon DEF Encoded
    <2>3. QED
      BY <1>1, <2>2, Zenon
  <1>3. /\ l \in Seq(Byte) /\ \A i \in 1 .. Len(l) : l[i] \in {"SP"}
        /\ w \in Seq(Byte) /\ \A i \in 1 .. Len(w) : w[i] \in Decimals
    <2>1. {"SP"} \subseteq Byte /\ Decimals \subseteq Byte
      BY NotDigits
    <2>2. QED
      BY <2>1, AsBytes
  <1>4. PICK m \in Nat, n \in Nat : m = Len(w) /\ n = Len(l) /\ d = m
    BY <1>1, <1>3
  <1>5. /\ w \o l \in Seq(Byte) /\ e \in Seq(Byte) /\ Len(w \o l) = m + n
        /\ Len(e) = m + n + 2
    <2>1. w \o l \in Seq(Byte) /\ Len(w \o l) = m + n
      BY <1>3, <1>4, JoinType
    <2>2. e \in Seq(Byte) /\ Len(e) = Len(w \o l) + Len(f)
      BY <1>2, <2>1, JoinType
    <2>3. Len(f) = 2
      BY <1>1
    <2>4. QED
      BY <2>1, <2>2, <2>3
  <1>6. Bears(e, 0, w \o l) /\ Bears(e, m + n, f)
    <2>1. Bears(e, 0, (w \o l) \o f)
      BY <1>2, <1>5, BearsItself
    <2>2. QED
      BY <1>5, <2>1, Peel
  <1>7. Bears(e, 0, w) /\ Bears(e, m, l)
    BY <1>3, <1>4, <1>6, Peel
  <1>8. /\ \A i \in 1 .. m : e[0 + i] \in Decimals
        /\ \A i \in 1 .. n : e[m + i] = "SP"
        /\ e[m + n + 1] = "CR" /\ e[m + n + 2] = "LF"
    <2>1. /\ \A i \in 1 .. m : e[0 + i] = w[i]
          /\ \A i \in 1 .. n : e[m + i] = l[i]
      BY <1>4, <1>7 DEF Bears
    <2>2. Len(f) = 2 /\ f[1] = "CR" /\ f[2] = "LF"
      BY <1>1
    <2>3. e[m + n + 1] = f[1] /\ e[m + n + 2] = f[2]
      BY <1>6, <2>2 DEF Bears
    <2>4. QED
      BY <1>3, <1>4, <2>1, <2>2, <2>3
  <1>9. RunsOver(e, 0, m, Decimals)
    <2>1. e[0 + (m + 1)] \in {"SP", "CR"}
      <3>1. CASE n = 0
        BY <1>8, <3>1
      <3>2. CASE n # 0
        <4>1. 1 \in 1 .. n /\ 0 + (m + 1) = m + 1
          BY <3>2
        <4>2. QED
          BY <1>8, <4>1
      <3>3. QED
        BY <3>1, <3>2
    <2>2. 0 + (m + 1) <= Len(e)
      BY <1>5
    <2>3. QED
      BY <1>8, <2>1, <2>2, NotDigits DEF RunsOver
  <1>10. RunsOver(e, m + 1, n, Byte \ {"LF"}) /\ e[m + 1 + (n + 1)] = "LF"
    <2>1. m + 1 + (n + 1) = m + n + 2
      OBVIOUS
    <2>2. ASSUME NEW i \in 1 .. n
          PROVE  e[m + 1 + i] \in {"SP", "CR"}
      <3>1. CASE i = n
        <4>1. m + 1 + i = m + n + 1
          BY <3>1
        <4>2. QED
          BY <1>8, <4>1
      <3>2. CASE i # n
        <4>1. m + 1 + i = m + (i + 1) /\ i + 1 \in 1 .. n
          BY <3>2
        <4>2. QED
          BY <1>8, <4>1
      <3>3. QED
        BY <3>1, <3>2
    <2>3. m + 1 + (n + 1) <= Len(e)
      BY <1>5
    <2>4. \A i \in 1 .. n : e[m + 1 + i] \in Byte \ {"LF"}
      BY <2>2, NotDigits
    <2>5. QED
      BY <1>8, <2>1, <2>3, <2>4 DEF RunsOver
  <1>11. Len(e) = m + 1 + (n + 1)
    BY <1>5
  <1>12. LineEnds(e, m + 1)
    BY <1>10, <1>11 DEF LineEnds
  <1>13. QED
    BY <1>1, <1>4, <1>5, <1>9, <1>12

-----------------------------------------------------------------------------
(* The packets that are a word, and those that begin with one.             *)

\* The letters that the parser peeks at.
LEMMA WordLetters ==
  /\ DOMAIN Word = {"VALUE", "VERSION", "STAT", "END", "OK", "STORED", "NOT_STORED", "EXISTS",
                    "DELETED", "NOT_FOUND", "TOUCHED", "ERROR", "SERVER_ERROR", "CLIENT_ERROR"}
  /\ Word.VALUE[1] = "V" /\ Word.VALUE[2] = "A"
  /\ Word.VERSION[1] = "V" /\ Word.VERSION[2] = "E"
  /\ Word.STAT[1] = "S" /\ Word.STAT[2] = "T" /\ Word.STAT[3] = "A"
  /\ Word.END[1] = "E" /\ Word.END[2] = "N"
  /\ Word.OK[1] = "O"
  /\ Word.STORED[1] = "S" /\ Word.STORED[2] = "T" /\ Word.STORED[3] = "O"
  /\ Word.NOT_STORED[1] = "N" /\ Word.NOT_STORED[2] = "O" /\ Word.NOT_STORED[3] = "T"
  /\ Word.NOT_STORED[4] = "_" /\ Word.NOT_STORED[5] = "S"
  /\ Word.EXISTS[1] = "E" /\ Word.EXISTS[2] = "X"
  /\ Word.DELETED[1] = "D"
  /\ Word.NOT_FOUND[1] = "N" /\ Word.NOT_FOUND[2] = "O" /\ Word.NOT_FOUND[3] = "T"
  /\ Word.NOT_FOUND[4] = "_" /\ Word.NOT_FOUND[5] = "F"
  /\ Word.TOUCHED[1] = "T"
  /\ Word.ERROR[1] = "E" /\ Word.ERROR[2] = "R"
  /\ Word.SERVER_ERROR[1] = "S" /\ Word.SERVER_ERROR[2] = "E" /\ Word.SERVER_ERROR[3] = "R"
  /\ Word.CLIENT_ERROR[1] = "C"
  BY DEF Word

LEMMA PeekDepths ==
  /\ PeekDepth("V") = 1 /\ PeekDepth("E") = 1 /\ PeekDepth("S") = 2 /\ PeekDepth("N") = 4
  /\ PeekDepth("O") = 0 /\ PeekDepth("D") = 0 /\ PeekDepth("T") = 0 /\ PeekDepth("C") = 0
  /\ PeekDepth("?") = 0
  /\ \A c \in Decimals : PeekDepth(c) = 0
  <1>1. /\ PeekDepth("V") = 1 /\ PeekDepth("E") = 1 /\ PeekDepth("S") = 2 /\ PeekDepth("N") = 4
        /\ PeekDepth("O") = 0 /\ PeekDepth("D") = 0 /\ PeekDepth("T") = 0 /\ PeekDepth("C") = 0
        /\ PeekDepth("?") = 0
    BY Zenon DEF PeekDepth
  <1>2. ASSUME NEW c \in Decimals
        PROVE  PeekDepth(c) = 0
    <2>1. c # "V" /\ c # "E" /\ c # "S" /\ c # "N"
      BY DigitsAre
    <2>2. QED
      BY <2>1, Zenon DEF PeekDepth
  <1>3. QED
    BY <1>1, <1>2

\* The letters make the parser peek no further than the word goes, and no
\* other word has the same.
Alike(w, v, n) == \A i \in 0 .. n : Word[w][i + 1] = Word[v][i + 1]

\* Word w goes further than its first letter makes the parser peek, and its
\* letters up to there are those of no other word.
Known(w, n) ==
    /\ PeekDepth(Word[w][1]) = n /\ n < Len(Word[w]) /\ Word[w][1] \notin Decimals
    /\ \A v \in DOMAIN Word : Alike(w, v, n) => v = w

LEMMA SameLetters ==
  ASSUME NEW w, NEW v, NEW n \in 0 .. 4, Alike(w, v, n)
  PROVE  /\ Word[w][1] = Word[v][1]
         /\ n >= 1 => Word[w][2] = Word[v][2]
         /\ n >= 2 => Word[w][3] = Word[v][3]
         /\ n >= 4 => Word[w][5] = Word[v][5]
  <1>1. Word[w][0 + 1] = Word[v][0 + 1]
    BY DEF Alike
  <1>2. n >= 1 => Word[w][1 + 1] = Word[v][1 + 1]
    BY DEF Alike
  <1>3. n >= 2 => Word[w][2 + 1] = Word[v][2 + 1]
    BY DEF Alike
  <1>4. n >= 4 => Word[w][4 + 1] = Word[v][4 + 1]
    BY DEF Alike
  <1>5. QED
    BY <1>1, <1>2, <1>3, <1>4

LEMMA WordsKnown ==
  \A w \in DOMAIN Word : \E n \in 0 .. 4 : Known(w, n)
  <1>1. Known("VALUE", 1)
    <2>1. Word["VALUE"][1] = "V" /\ Word["VALUE"][2] = "A"
      BY WordLetters
    <2>2. PeekDepth(Word["VALUE"][1]) = 1
      BY <2>1, PeekDepths
    <2>3. 1 < Len(Word["VALUE"]) /\ Word["VALUE"][1] \notin Decimals
      BY <2>1, DigitsAre DEF Word
    <2>4. ASSUME NEW v \in DOMAIN Word, Alike("VALUE", v, 1)
          PROVE  v = "VALUE"
      <3>1. Word["VALUE"][1] = Word[v][1] /\ Word["VALUE"][2] = Word[v][2]
        BY <2>4, SameLetters
      <3>2. Word[v][1] = "V" /\ Word[v][2] = "A"
        BY <2>1, <3>1, Zenon
      <3>3. QED
        BY <3>2, WordLetters
    <2>5. QED
      BY <2>2, <2>3, <2>4 DEF Known
  <1>2. Known("VERSION", 1)
    <2>1. Word["VERSION"][1] = "V" /\ Word["VERSION"][2] = "E"
      BY WordLetters
    <2>2. PeekDepth(Word["VERSION"][1]) = 1
      BY <2>1, PeekDepths
    <2>3. 1 < Len(Word["VERSION"]) /\ Word["VERSION"][1] \notin Decimals
      BY <2>1, DigitsAre DEF Word
    <2>4. ASSUME NEW v \in DOMAIN Word, Alike("VERSION", v, 1)
          PROVE  v = "VERSION"
      <3>1. Word["VERSION"][1] = Word[v][1] /\ Word["VERSION"][2] = Word[v][2]
        BY <2>4, SameLetters
      <3>2. Word[v][1] = "V" /\ Word[v][2] = "E"
        BY <2>1, <3>1, Zenon
      <3>3. QED
        BY <3>2, WordLetters
    <2>5. QED
      BY <2>2, <2>3, <2>4 DEF Known
  <1>3. Known("STAT", 2)
    <2>1. Word["STAT"][1] = "S" /\ Word["STAT"][2] = "T" /\ Word["STAT"][3] = "A"
      BY WordLetters
    <2>2. PeekDepth(Word["STAT"][1]) = 2
      BY <2>1, PeekDepths
    <2>3. 2 < Len(Word["STAT"]) /\ Word["STAT"][1] \notin Decimals
      BY <2>1, DigitsAre DEF Word
    <2>4. ASSUME NEW v \in DOMAIN Word, Alike("STAT", v, 2)
          PROVE  v = "STAT"
      <3>1. Word["STAT"][1] = Word[v][1] /\ Word["STAT"][2] = Word[v][2] /\ Word["STAT"][3] = Word[v][3]
        BY <2>4, SameLetters
      <3>2. Word[v][1] = "S" /\ Word[v][2] = "T" /\ Word[v][3] = "A"
        BY <2>1, <3>1, Zenon
      <3>3. QED
        BY <3>2, WordLetters
    <2>5. QED
      BY <2>2, <2>3, <2>4 DEF Known
  <1>4. Known("END", 1)
    <2>1. Word["END"][1] = "E" /\ Word["END"][2] = "N"
      BY WordLetters
    <2>2. PeekDepth(Word["END"][1]) = 1
      BY <2>1, PeekDepths
    <2>3. 1 < Len(Word["END"]) /\ Word["END"][1] \notin Decimals
      BY <2>1, DigitsAre DEF Word
    <2>4. ASSUME NEW v \in DOMAIN Word, Alike("END", v, 1)
          PROVE  v = "END"
      <3>1. Word["END"][1] = Word[v][1] /\ Word["END"][2] = Word[v][2]
        BY <2>4, SameLetters
      <3>2. Word[v][1] = "E" /\ Word[v][2] = "N"
        BY <2>1, <3>1, Zenon
      <3>3. QED
        BY <3>2, WordLetters
    <2>5. QED
      BY <2>2, <2>3, <2>4 DEF Known
  <1>5. Known("OK", 0)
    <2>1. Word["OK"][1] = "O"
      BY WordLetters
    <2>2. PeekDepth(Word["OK"][1]) = 0
      BY <2>1, PeekDepths
    <2>3. 0 < Len(Word["OK"]) /\ Word["OK"][1] \notin Decimals
      BY <2>1, DigitsAre DEF Word
    <2>4. ASSUME NEW v \in DOMAIN Word, Alike("OK", v, 0)
          PROVE  v = "OK"
      <3>1. Word["OK"][1] = Word[v][1]
        BY <2>4, SameLetters
      <3>2. Word[v][1] = "O"
        BY <2>1, <3>1, Zenon
      <3>3. QED
        BY <3>2, WordLetters
    <2>5. QED
      BY <2>2, <2>3, <2>4 DEF Known
  <1>6. Known("STORED", 2)
    <2>1. Word["STORED"][1] = "S" /\ Word["STORED"][2] = "T" /\ Word["STORED"][3] = "O"
      BY WordLetters
    <2>2. PeekDepth(Word["STORED"][1]) = 2
      BY <2>1, PeekDepths
    <2>3. 2 < Len(Word["STORED"]) /\ Word["STORED"][1] \notin Decimals
      BY <2>1, DigitsAre DEF Word
    <2>4. ASSUME NEW v \in DOMAIN Word, Alike("STORED", v, 2)
          PROVE  v = "STORED"
      <3>1. Word["STORED"][1] = Word[v][1] /\ Word["STORED"][2] = Word[v][2] /\ Word["STORED"][3] = Word[v][3]
        BY <2>4, SameLetters
      <3>2. Word[v][1] = "S" /\ Word[v][2] = "T" /\ Word[v][3] = "O"
        BY <2>1, <3>1, Zenon
      <3>3. QED
        BY <3>2, WordLetters
    <2>5. QED
      BY <2>2, <2>3, <2>4 DEF Known
  <1>7. Known("NOT_STORED", 4)
    <2>1. Word["NOT_STORED"][1] = "N" /\ Word["NOT_STORED"][5] = "S"
      BY WordLetters
    <2>2. PeekDepth(Word["NOT_STORED"][1]) = 4
      BY <2>1, PeekDepths
    <2>3. 4 < Len(Word["NOT_STORED"]) /\ Word["NOT_STORED"][1] \notin Decimals
      BY <2>1, DigitsAre DEF Word
    <2>4. ASSUME NEW v \in DOMAIN Word, Alike("NOT_STORED", v, 4)
          PROVE  v = "NOT_STORED"
      <3>1. Word["NOT_STORED"][1] = Word[v][1] /\ Word["NOT_STORED"][5] = Word[v][5]
        BY <2>4, SameLetters
      <3>2. Word[v][1] = "N" /\ Word[v][5] = "S"
        BY <2>1, <3>1, Zenon
      <3>3. QED
        BY <3>2, WordLetters
    <2>5. QED
      BY <2>2, <2>3, <2>4 DEF Known
  <1>8. Known("EXISTS", 1)
    <2>1. Word["EXISTS"][1] = "E" /\ Word["EXISTS"][2] = "X"
      BY WordLetters
    <2>2. PeekDepth(Word["EXISTS"][1]) = 1
      BY <2>1, PeekDepths
    <2>3. 1 < Len(Word["EXISTS"]) /\ Word["EXISTS"][1] \notin Decimals
      BY <2>1, DigitsAre DEF Word
    <2>4. ASSUME NEW v \in DOMAIN Word, Alike("EXISTS", v, 1)
          PROVE  v = "EXISTS"
      <3>1. Word["EXISTS"][1] = Word[v][1] /\ Word["EXISTS"][2] = Word[v][2]
        BY <2>4, SameLetters
      <3>2. Word[v][1] = "E" /\ Word[v][2] = "X"
        BY <2>1, <3>1, Zenon
      <3>3. QED
        BY <3>2, WordLetters
    <2>5. QED
      BY <2>2, <2>3, <2>4 DEF Known
  <1>9. Known("DELETED", 0)
    <2>1. Word["DELETED"][1] = "D"
      BY WordLetters
    <2>2. PeekDepth(Word["DELETED"][1]) = 0
      BY <2>1, PeekDepths
    <2>3. 0 < Len(Word["DELETED"]) /\ Word["DELETED"][1] \notin Decimals
      BY <2>1, DigitsAre DEF Word
    <2>4. ASSUME NEW v \in DOMAIN Word, Alike("DELETED", v, 0)
          PROVE  v = "DELETED"
      <3>1. Word["DELETED"][1] = Word[v][1]
        BY <2>4, SameLetters
      <3>2. Word[v][1] = "D"
        BY <2>1, <3>1, Zenon
      <3>3. QED
        BY <3>2, WordLetters
    <2>5. QED
      BY <2>2, <2>3, <2>4 DEF Known
  <1>10. Known("NOT_FOUND", 4)
    <2>1. Word["NOT_FOUND"][1] = "N" /\ Word["NOT_FOUND"][5] = "F"
      BY WordLetters
    <2>2. PeekDepth(Word["NOT_FOUND"][1]) = 4
      BY <2>1, PeekDepths
    <2>3. 4 < Len(Word["NOT_FOUND"]) /\ Word["NOT_FOUND"][1] \notin Decimals
      BY <2>1, DigitsAre DEF Word
    <2>4. ASSUME NEW v \in DOMAIN Word, Alike("NOT_FOUND", v, 4)
          PROVE  v = "NOT_FOUND"
      <3>1. Word["NOT_FOUND"][1] = Word[v][1] /\ Word["NOT_FOUND"][5] = Word[v][5]
        BY <2>4, SameLetters
      <3>2. Word[v][1] = "N" /\ Word[v][5] = "F"
        BY <2>1, <3>1, Zenon
      <3>3. QED
        BY <3>2, WordLetters
    <2>5. QED
      BY <2>2, <2>3, <2>4 DEF Known
  <1>11. Known("TOUCHED", 0)
    <2>1. Word["TOUCHED"][1] = "T"
      BY WordLetters
    <2>2. PeekDepth(Word["TOUCHED"][1]) = 0
      BY <2>1, PeekDepths
    <2>3. 0 < Len(Word["TOUCHED"]) /\ Word["TOUCHED"][1] \notin Decimals
      BY <2>1, DigitsAre DEF Word
    <2>4. ASSUME NEW v \in DOMAIN Word, Alike("TOUCHED", v, 0)
          PROVE  v = "TOUCHED"
      <3>1. Word["TOUCHED"][1] = Word[v][1]
        BY <2>4, SameLetters
      <3>2. Word[v][1] = "T"
        BY <2>1, <3>1, Zenon
      <3>3. QED
        BY <3>2, WordLetters
    <2>5. QED
      BY <2>2, <2>3, <2>4 DEF Known
  <1>12. Known("ERROR", 1)
    <2>1. Word["ERROR"][1] = "E" /\ Word["ERROR"][2] = "R"
      BY WordLetters
    <2>2. PeekDepth(Word["ERROR"][1]) = 1
      BY <2>1, PeekDepths
    <2>3. 1 < Len(Word["ERROR"]) /\ Word["ERROR"][1] \notin Decimals
      BY <2>1, DigitsAre DEF Word
    <2>4. ASSUME NEW v \in DOMAIN Word, Alike("ERROR", v, 1)
          PROVE  v = "ERROR"
      <3>1. Word["ERROR"][1] = Word[v][1] /\ Word["ERROR"][2] = Word[v][2]
        BY <2>4, SameLetters
      <3>2. Word[v][1] = "E" /\ Word[v][2] = "R"
        BY <2>1, <3>1, Zenon
      <3>3. QED
        BY <3>2, WordLetters
    <2>5. QED
      BY <2>2, <2>3, <2>4 DEF Known
  <1>13. Known("SERVER_ERROR", 2)
    <2>1. Word["SERVER_ERROR"][1] = "S" /\ Word["SERVER_ERROR"][2] = "E" /\ Word["SERVER_ERROR"][3] = "R"
      BY WordLetters
    <2>2. PeekDepth(Word["SERVER_ERROR"][1]) = 2
      BY <2>1, PeekDepths
    <2>3. 2 < Len(Word["SERVER_ERROR"]) /\ Word["SERVER_ERROR"][1] \notin Decimals
      BY <2>1, DigitsAre DEF Word
    <2>4. ASSUME NEW v \in DOMAIN Word, Alike("SERVER_ERROR", v, 2)
          PROVE  v = "SERVER_ERROR"
      <3>1. Word["SERVER_ERROR"][1] = Word[v][1] /\ Word["SERVER_ERROR"][2] = Word[v][2] /\ Word["SERVER_ERROR"][3] = Word[v][3]
        BY <2>4, SameLetters
      <3>2. Word[v][1] = "S" /\ Word[v][2] = "E" /\ Word[v][3] = "R"
        BY <2>1, <3>1, Zenon
      <3>3. QED
        BY <3>2, WordLetters
    <2>5. QED
      BY <2>2, <2>3, <2>4 DEF Known
  <1>14. Known("CLIENT_ERROR", 0)
    <2>1. Word["CLIENT_ERROR"][1] = "C"
      BY WordLetters
    <2>2. PeekDepth(Word["CLIENT_ERROR"][1]) = 0
      BY <2>1, PeekDepths
    <2>3. 0 < Len(Word["CLIENT_ERROR"]) /\ Word["CLIENT_ERROR"][1] \notin Decimals
      BY <2>1, DigitsAre DEF Word
    <2>4. ASSUME NEW v \in DOMAIN Word, Alike("CLIENT_ERROR", v, 0)
          PROVE  v = "CLIENT_ERROR"
      <3>1. Word["CLIENT_ERROR"][1] = Word[v][1]
        BY <2>4, SameLetters
      <3>2. Word[v][1] = "C"
        BY <2>1, <3>1, Zenon
      <3>3. QED
        BY <3>2, WordLetters
    <2>5. QED
      BY <2>2, <2>3, <2>4 DEF Known
  <1>15. /\ 0 \in 0 .. 4 /\ 1 \in 0 .. 4 /\ 2 \in 0 .. 4 /\ 4 \in 0 .. 4
    OBVIOUS
  <1>16. DOMAIN Word = {"VALUE", "VERSION", "STAT", "END", "OK", "STORED", "NOT_STORED", "EXISTS", "DELETED", "NOT_FOUND", "TOUCHED", "ERROR", "SERVER_ERROR", "CLIENT_ERROR"}
    BY WordLetters
  <1>17. QED
    BY <1>1, <1>2, <1>3, <1>4, <1>5, <1>6, <1>7, <1>8, <1>9, <1>10, <1>11, <1>12, <1>13, <1>14, <1>15, <1>16, Zenon

\* The first line of a value of n bytes: where its parts end.
ValueLaid(e, n, a, b, c) ==
    /\ e[4] # "SP" /\ e[5] = "SP"
    /\ 6 < a /\ (\A i \in 6 .. a - 1 : e[i] \in Decimals) /\ e[a] = "SP"
    /\ a + 1 < b /\ \A i \in a + 1 .. b - 1 : e[i] \in Decimals
    /\ e[b] \notin Decimals /\ NumberOf([i \in 1 .. b - a - 1 |-> e[a + i]]) = n
    /\ \/ c = b
       \/ b + 1 < c /\ \A i \in b + 1 .. c - 1 : e[i] \in Decimals
    /\ e[c] = "CR" /\ e[c + 1] = "LF"
    /\ Len(e) = c + 1 + n + 2

-----------------------------------------------------------------------------
(* The packets of a word.                                                  *)

LEMMA PlainLaid ==
  ASSUME NEW p, p.type \in MessageTypes \cup {"END"}
  PROVE  Encoded(p) = Word[p.type]
  <1>1. /\ p.type # "VALUE" /\ p.type \notin {"VERSION", "STAT"} /\ p.type # "NUMBER"
        /\ p.type \notin {"ERROR", "SERVER_ERROR", "CLIENT_ERROR"} /\ p.type # "JUNK"
    BY DEF MessageTypes
  <1>2. QED
    BY <1>1, Zenon DEF Encoded

LEMMA JunkLaid ==
  ASSUME NEW p, p.type = "JUNK"
  PROVE  Encoded(p) = <<"?">>
  <1>1. /\ p.type # "VALUE" /\ p.type \notin {"VERSION", "STAT"} /\ p.type # "NUMBER"
        /\ p.type \notin {"ERROR", "SERVER_ERROR", "CLIENT_ERROR"}
    OBVIOUS
  <1>2. QED
    BY <1>1, Zenon DEF Encoded

LEMMA RefusalLaid ==
  ASSUME NEW p, p.type \in DOMAIN ErrorOf
  PROVE  Encoded(p) = Word[p.type] \o <<"CR", "LF">>
  <1>1. /\ p.type # "VALUE" /\ p.type \notin {"VERSION", "STAT"} /\ p.type # "NUMBER"
        /\ p.type \in {"ERROR", "SERVER_ERROR", "CLIENT_ERROR"}
    BY DEF ErrorOf
  <1>2. QED
    BY <1>1, Zenon DEF Encoded

\* An error line ends with its only line feed.
LEMMA ErrorLaid ==
  ASSUME NEW p, p.type \in DOMAIN ErrorOf, NEW e, e = Encoded(p)
  PROVE  /\ e \in Seq(Byte) /\ Bears(e, 0, Word[p.type])
         /\ \E d \in Nat : /\ RunsOver(e, 0, d, Byte \ {"LF"})
                           /\ e[0 + (d + 1)] = "LF"
                           /\ Len(e) = d + 1
  <1>1. p.type \in DOMAIN Word
    BY WordNames
  <1>2. PICK w \in Seq(Byte), f \in Seq(Byte), m \in Nat :
          w = Word[p.type] /\ f = <<"CR", "LF">> /\ m = Len(w)
    <2>1. <<"CR", "LF">> \in Seq(Byte)
      BY NotDigits
    <2>2. QED
      BY <1>1, <2>1, WordLengths
  <1>3. e = w \o f
    BY <1>2, RefusalLaid, Zenon
  <1>4. Len(f) = 2 /\ f[1] = "CR" /\ f[2] = "LF"
    BY <1>2
  <1>5. e \in Seq(Byte) /\ Len(e) = m + 2
    BY <1>2, <1>3, <1>4, JoinType
  <1>6. Bears(e, 0, w) /\ Bears(e, m, f)
    <2>1. Bears(e, 0, w \o f)
      BY <1>3, <1>5, BearsItself
    <2>2. QED
      BY <1>2, <2>1, Peel
  <1>7. e[m + 1] = "CR" /\ e[m + 2] = "LF"
    BY <1>4, <1>6 DEF Bears
  <1>8. ASSUME NEW i \in 1 .. m + 1
        PROVE  e[0 + i] \in Byte \ {"LF"}
    <2>1. CASE i = m + 1
      BY <1>7, <2>1, NotDigits
    <2>2. CASE i # m + 1
      <3>1. i \in 1 .. m /\ e[0 + i] = w[i]
        BY <1>2, <1>6, <2>2 DEF Bears
      <3>2. \A j \in 1 .. Len(Word[p.type]) : Word[p.type][j] \in Byte \ {"LF"}
        <4>1. /\ Word.ERROR = <<"E", "R">> /\ Word.SERVER_ERROR = <<"S", "E", "R">>
              /\ Word.CLIENT_ERROR = <<"C">>
          BY DEF Word
        <4>2. /\ "E" \in Byte \ {"LF"} /\ "R" \in Byte \ {"LF"}
              /\ "S" \in Byte \ {"LF"} /\ "C" \in Byte \ {"LF"}
          BY DEF Byte
        <4>3. /\ Word["ERROR"] \in Seq(Byte \ {"LF"})
              /\ Word["SERVER_ERROR"] \in Seq(Byte \ {"LF"})
              /\ Word["CLIENT_ERROR"] \in Seq(Byte \ {"LF"})
          <5>1. PICK V : V = Byte \ {"LF"}
            OBVIOUS
          <5>2. "E" \in V /\ "R" \in V /\ "S" \in V /\ "C" \in V
            BY <4>2, <5>1
          <5>3. <<"E", "R">> \in Seq(V) /\ <<"S", "E", "R">> \in Seq(V) /\ <<"C">> \in Seq(V)
            BY <5>2
          <5>4. QED
            BY <4>1, <5>1, <5>3
        <4>4. p.type \in {"ERROR", "SERVER_ERROR", "CLIENT_ERROR"}
          BY DEF ErrorOf
        <4>5. Word[p.type] \in Seq(Byte \ {"LF"})
          BY <4>3, <4>4, Zenon
        <4>6. QED
          BY <4>5, SeqParts
      <3>3. QED
        BY <1>2, <3>1, <3>2
    <2>3. QED
      BY <2>1, <2>2
  <1>9. PICK d \in Nat : d = m + 1
    OBVIOUS
  <1>10. RunsOver(e, 0, d, Byte \ {"LF"}) /\ e[0 + (d + 1)] = "LF" /\ Len(e) = d + 1
    <2>1. 0 + (d + 1) = m + 2
      BY <1>9
    <2>2. QED
      BY <1>5, <1>7, <1>8, <1>9, <2>1 DEF RunsOver
  <1>11. QED
    BY <1>2, <1>5, <1>6, <1>10

-----------------------------------------------------------------------------
(* A value.                                                                *)

\* x is s and v.
Joins(x, s, v, m, n) ==
    /\ x \in Seq(Byte) /\ s \in Seq(Byte) /\ v \in Seq(Byte)
    /\ x = s \o v /\ Len(s) = m /\ Len(v) = n /\ Len(x) = m + n

LEMMA JoinMade ==
  ASSUME NEW s \in Seq(Byte), NEW v \in Seq(Byte), NEW m \in Nat, m = Len(s), NEW n \in Nat, n = Len(v)
  PROVE  \E x \in Seq(Byte) : Joins(x, s, v, m, n)
  BY JoinType DEF Joins

LEMMA JoinBears ==
  ASSUME NEW e, NEW x, NEW s, NEW v, NEW m, NEW n, Joins(x, s, v, m, n), Bears(e, 0, x)
  PROVE  Bears(e, 0, s) /\ Bears(e, m, v)
  BY Peel DEF Joins
\* The cas of a value, when it has one.
CasOf(p) == IF p.cas = 0 THEN <<>> ELSE <<"SP">> \o Decimal(p.cas)

LEMMA ValueEncoded ==
  ASSUME NEW p, p.type = "VALUE"
  PROVE  Encoded(p) = Word.VALUE \o <<p.key, "SP">> \o Decimal(p.flags) \o <<"SP">>
                      \o Decimal(Len(p.data)) \o CasOf(p) \o <<"CR", "LF">>
                      \o p.data \o <<"CR", "LF">>
  BY Zenon DEF Encoded, CasOf

\* Its parts: the word, the key, flags, a space, bytes, cas, a line end, data.
Parts(p, w, k, d1, g, d2, u, f, x) ==
    /\ w = Word.VALUE /\ k = <<p.key, "SP">> /\ d1 = Decimal(p.flags) /\ g = <<"SP">>
    /\ d2 = Decimal(Len(p.data)) /\ u = CasOf(p) /\ f = <<"CR", "LF">> /\ x = p.data

\* A number is digits.
LEMMA DecimalBytes ==
  ASSUME NEW n \in 0 .. 99
  PROVE  /\ Decimal(n) \in Seq(Byte) /\ Len(Decimal(n)) \in Nat \ {0}
         /\ \A i \in 1 .. Len(Decimal(n)) : Decimal(n)[i] \in Decimals
         /\ NumberOf(Decimal(n)) = n
  <1>1. /\ Decimal(n) \in Seq(Decimals) /\ Len(Decimal(n)) \in Nat /\ Len(Decimal(n)) # 0
        /\ NumberOf(Decimal(n)) = n
    BY DecimalOf
  <1>2. /\ Decimal(n) \in Seq(Byte) /\ \A i \in 1 .. Len(Decimal(n)) : Decimal(n)[i] \in Decimals
    BY <1>1, AsBytes, NotDigits
  <1>3. QED
    BY <1>1, <1>2

LEMMA CasLaid ==
  ASSUME NEW p, p.cas \in 0 .. 99
  PROVE  /\ CasOf(p) \in Seq(Byte) /\ Len(CasOf(p)) \in Nat
         /\ \/ Len(CasOf(p)) = 0
            \/ /\ Len(CasOf(p)) > 1 /\ CasOf(p)[1] = "SP"
               /\ \A i \in 2 .. Len(CasOf(p)) : CasOf(p)[i] \in Decimals
  <1>1. CASE p.cas = 0
    <2>1. CasOf(p) = <<>>
      BY <1>1 DEF CasOf
    <2>2. <<>> \in Seq(Byte) /\ Len(<<>>) = 0
      OBVIOUS
    <2>3. QED
      BY <2>1, <2>2
  <1>2. CASE p.cas # 0
    <2>1. PICK g \in Seq(Byte), v \in Seq(Byte), n \in Nat \ {0} :
            /\ g = <<"SP">> /\ v = Decimal(p.cas) /\ n = Len(v)
            /\ \A i \in 1 .. n : v[i] \in Decimals
      <3>1. <<"SP">> \in Seq(Byte)
        BY NotDigits
      <3>2. QED
        BY <3>1, DecimalBytes
    <2>2. PICK x \in Seq(Byte) : Concat(x, g, v, Len(g), Len(v))
      BY ConcatParts
    <2>3. CasOf(p) = x
      BY <1>2, <2>1, <2>2 DEF CasOf, Concat
    <2>4. Len(g) = 1 /\ g[1] = "SP"
      BY <2>1
    <2>5. Len(x) = 1 + n /\ x[1] = "SP" /\ \A i \in 1 .. n : x[1 + i] \in Decimals
      BY <2>1, <2>2, <2>4 DEF Concat
    <2>6. ASSUME NEW i \in 2 .. Len(x)
          PROVE  x[i] \in Decimals
      <3>1. PICK j \in 1 .. n : i = 1 + j
        <4>1. i - 1 \in 1 .. n /\ i = 1 + (i - 1)
          BY <2>5
        <4>2. QED
          BY <4>1
      <3>2. QED
        BY <2>5, <3>1
    <2>7. QED
      BY <2>3, <2>5, <2>6
  <1>3. QED
    BY <1>1, <1>2

\* e is put together from its parts one by one; the parts are in e.
Glued(e, w, k, v1, g, v2, c, f, x, x1, x2, x3, x4, x5, x6, x7, m2, m3, m4, m5, m6, m7, d1, d2, u, n) ==
    /\ Joins(x1, w, k, 3, 2) /\ Joins(x2, x1, v1, 5, d1) /\ Joins(x3, x2, g, m2, 1)
    /\ Joins(x4, x3, v2, m3, d2) /\ Joins(x5, x4, c, m4, u) /\ Joins(x6, x5, f, m5, 2)
    /\ Joins(x7, x6, x, m6, n) /\ Joins(e, x7, f, m7, 2)

Peels(e, w, k, v1, g, v2, c, f, m2, m3, m4, m5) ==
    /\ Bears(e, 0, w) /\ Bears(e, 3, k) /\ Bears(e, 5, v1) /\ Bears(e, m2, g)
    /\ Bears(e, m3, v2) /\ Bears(e, m4, c) /\ Bears(e, m5, f)

LEMMA Peeled ==
  ASSUME NEW e, NEW w, NEW k, NEW v1, NEW g, NEW v2, NEW c, NEW f, NEW x,
         NEW x1, NEW x2, NEW x3, NEW x4, NEW x5, NEW x6, NEW x7,
         NEW m2, NEW m3, NEW m4, NEW m5, NEW m6, NEW m7, NEW d1, NEW d2, NEW u, NEW n,
         Glued(e, w, k, v1, g, v2, c, f, x, x1, x2, x3, x4, x5, x6, x7,
               m2, m3, m4, m5, m6, m7, d1, d2, u, n)
  PROVE  Peels(e, w, k, v1, g, v2, c, f, m2, m3, m4, m5)
  <1> USE DEF Glued
  <1>1. Bears(e, 0, e)
    BY BearsItself DEF Joins
  <1>2. Bears(e, 0, x7)
    BY <1>1, JoinBears
  <1>3. Bears(e, 0, x6)
    BY <1>2, JoinBears
  <1>4. Bears(e, 0, x5) /\ Bears(e, m5, f)
    BY <1>3, JoinBears
  <1>5. Bears(e, 0, x4) /\ Bears(e, m4, c)
    BY <1>4, JoinBears
  <1>6. Bears(e, 0, x3) /\ Bears(e, m3, v2)
    BY <1>5, JoinBears
  <1>7. Bears(e, 0, x2) /\ Bears(e, m2, g)
    BY <1>6, JoinBears
  <1>8. Bears(e, 0, x1) /\ Bears(e, 5, v1)
    BY <1>7, JoinBears
  <1>9. Bears(e, 0, w) /\ Bears(e, 3, k)
    BY <1>8, JoinBears
  <1>10. QED
    BY <1>4, <1>5, <1>6, <1>7, <1>8, <1>9 DEF Peels

\* Where the parts are in e: each behind the lengths of those before it.
Spread(e, p, d1, d2, u, n) ==
    /\ Bears(e, 0, Word.VALUE)
    /\ Bears(e, 3, <<p.key, "SP">>)
    /\ Bears(e, 5, Decimal(p.flags)) /\ d1 = Len(Decimal(p.flags))
    /\ Bears(e, 5 + d1, <<"SP">>)
    /\ Bears(e, 6 + d1, Decimal(Len(p.data))) /\ d2 = Len(Decimal(Len(p.data)))
    /\ Bears(e, 6 + d1 + d2, CasOf(p)) /\ u = Len(CasOf(p))
    /\ Bears(e, 6 + d1 + d2 + u, <<"CR", "LF">>)
    /\ Len(e) = 6 + d1 + d2 + u + 2 + n + 2

LEMMA ValueSpread ==
  ASSUME NEW p, WellFormed(p), p.type = "VALUE", NEW e, e = Encoded(p)
  PROVE  /\ e \in Seq(Byte) /\ Len(p.data) \in Nat
         /\ \E d1 \in Nat \ {0}, d2 \in Nat \ {0}, u \in Nat : Spread(e, p, d1, d2, u, Len(p.data))
  <1>1. /\ p.key \in STRING \ {"SP"} /\ p.flags \in 0 .. 99 /\ p.cas \in 0 .. 99
        /\ p.data \in Seq(STRING) /\ Len(p.data) \in 0 .. 99
    BY DEF WellFormed, Sayable
  <1>2. PICK w \in Seq(Byte), k \in Seq(Byte), v1 \in Seq(Byte), g \in Seq(Byte),
             v2 \in Seq(Byte), c \in Seq(Byte), f \in Seq(Byte), x \in Seq(Byte) :
          Parts(p, w, k, v1, g, v2, c, f, x)
    <2>1. Word.VALUE \in Seq(Byte)
      BY WordLengths, WordNames
    <2>2. <<p.key, "SP">> \in Seq(Byte)
      <3>1. p.key \in Byte /\ "SP" \in Byte
        BY <1>1, NotDigits
      <3>2. QED
        BY <3>1
    <2>3. Decimal(p.flags) \in Seq(Byte) /\ Decimal(Len(p.data)) \in Seq(Byte)
      BY <1>1, DecimalBytes
    <2>4. <<"SP">> \in Seq(Byte) /\ <<"CR", "LF">> \in Seq(Byte)
      BY NotDigits
    <2>5. CasOf(p) \in Seq(Byte)
      BY <1>1, CasLaid
    <2>6. p.data \in Seq(Byte)
      BY <1>1, NotDigits, AsBytes
    <2>7. QED
      BY <2>1, <2>2, <2>3, <2>4, <2>5, <2>6, Zenon DEF Parts
  <1>3. PICK d1 \in Nat \ {0}, d2 \in Nat \ {0}, u \in Nat, n \in Nat :
          d1 = Len(v1) /\ d2 = Len(v2) /\ u = Len(c) /\ n = Len(x)
    <2>1. Len(v1) \in Nat \ {0} /\ Len(v2) \in Nat \ {0}
      BY <1>1, <1>2, DecimalBytes, Zenon DEF Parts
    <2>2. QED
      BY <2>1
  <1>4. Len(w) = 3 /\ Len(k) = 2 /\ Len(g) = 1 /\ Len(f) = 2
    <2>1. w = <<"V", "A", "SP">>
      BY <1>2 DEF Parts, Word
    <2>2. k = <<p.key, "SP">> /\ g = <<"SP">> /\ f = <<"CR", "LF">>
      BY <1>2 DEF Parts
    <2>3. QED
      BY <2>1, <2>2
  <1>5. PICK x1 \in Seq(Byte) : Joins(x1, w, k, 3, 2)
    BY <1>4, JoinMade
  <1>6. PICK x2 \in Seq(Byte) : Joins(x2, x1, v1, 5, d1)
    <2>1. Len(x1) = 5
      BY <1>5 DEF Joins
    <2>2. QED
      BY <1>2, <1>3, <1>5, <2>1, JoinMade
  <1>7. PICK x3 \in Seq(Byte) : Joins(x3, x2, g, 5 + d1, 1)
    <2>1. Len(x2) = 5 + d1 /\ 5 + d1 \in Nat
      BY <1>3, <1>6 DEF Joins
    <2>2. QED
      BY <1>2, <1>4, <1>6, <2>1, JoinMade
  <1>8. PICK x4 \in Seq(Byte) : Joins(x4, x3, v2, 6 + d1, d2)
    <2>1. Len(x3) = 6 + d1 /\ 6 + d1 \in Nat
      BY <1>7 DEF Joins
    <2>2. QED
      BY <1>3, <2>1, JoinMade
  <1>9. PICK x5 \in Seq(Byte) : Joins(x5, x4, c, 6 + d1 + d2, u)
    <2>1. Len(x4) = 6 + d1 + d2 /\ 6 + d1 + d2 \in Nat
      BY <1>8 DEF Joins
    <2>2. QED
      BY <1>3, <2>1, JoinMade
  <1>10. PICK x6 \in Seq(Byte) : Joins(x6, x5, f, 6 + d1 + d2 + u, 2)
    <2>1. Len(x5) = 6 + d1 + d2 + u /\ 6 + d1 + d2 + u \in Nat
      BY <1>9 DEF Joins
    <2>2. QED
      BY <1>4, <2>1, JoinMade
  <1>11. PICK x7 \in Seq(Byte) : Joins(x7, x6, x, 6 + d1 + d2 + u + 2, n)
    <2>1. Len(x6) = 6 + d1 + d2 + u + 2 /\ 6 + d1 + d2 + u + 2 \in Nat
      BY <1>10 DEF Joins
    <2>2. QED
      BY <1>3, <2>1, JoinMade
  <1>12. PICK x8 \in Seq(Byte) : Joins(x8, x7, f, 6 + d1 + d2 + u + 2 + n, 2)
    <2>1. Len(x7) = 6 + d1 + d2 + u + 2 + n /\ 6 + d1 + d2 + u + 2 + n \in Nat
      BY <1>11 DEF Joins
    <2>2. QED
      BY <1>4, <2>1, JoinMade
  <1>13. e = x8
    <2>1. e = w \o k \o v1 \o g \o v2 \o c \o f \o x \o f
      BY <1>2, ValueEncoded, Zenon DEF Parts
    <2>2. /\ x1 = w \o k /\ x2 = x1 \o v1 /\ x3 = x2 \o g /\ x4 = x3 \o v2 /\ x5 = x4 \o c
          /\ x6 = x5 \o f /\ x7 = x6 \o x /\ x8 = x7 \o f
      BY <1>5, <1>6, <1>7, <1>8, <1>9, <1>10, <1>11, <1>12, Zenon DEF Joins
    <2>3. QED
      BY <2>1, <2>2, Zenon
  <1>14. Peels(e, w, k, v1, g, v2, c, f, 5 + d1, 6 + d1, 6 + d1 + d2, 6 + d1 + d2 + u)
    <2>1. Joins(e, x7, f, 6 + d1 + d2 + u + 2 + n, 2)
      BY <1>12, <1>13, Zenon
    <2>2. Glued(e, w, k, v1, g, v2, c, f, x, x1, x2, x3, x4, x5, x6, x7, 5 + d1, 6 + d1,
                6 + d1 + d2, 6 + d1 + d2 + u, 6 + d1 + d2 + u + 2, 6 + d1 + d2 + u + 2 + n,
                d1, d2, u, n)
      BY <1>5, <1>6, <1>7, <1>8, <1>9, <1>10, <1>11, <2>1, Zenon DEF Glued
    <2>3. QED
      BY <2>2, Peeled, Zenon
  <1>22. Len(e) = 6 + d1 + d2 + u + 2 + n + 2
    BY <1>12, <1>13, Zenon DEF Joins
  <1>23. Spread(e, p, d1, d2, u, n)
    BY <1>2, <1>3, <1>14, <1>22, Zenon DEF Spread, Parts, Peels
  <1>24. n = Len(p.data) /\ e \in Seq(Byte)
    BY <1>2, <1>3, <1>13 DEF Parts
  <1>25. QED
    BY <1>23, <1>24

\* The first line of a value, part by part.
LEMMA SpreadLaid ==
  ASSUME NEW p, WellFormed(p), p.type = "VALUE", NEW e,
         NEW d1 \in Nat \ {0}, NEW d2 \in Nat \ {0}, NEW u \in Nat, NEW n \in Nat, n = Len(p.data),
         Spread(e, p, d1, d2, u, n)
  PROVE  ValueLaid(e, n, 6 + d1, 7 + d1 + d2, 7 + d1 + d2 + u)
  <1>1. PICK a \in Nat, b \in Nat, c \in Nat :
          a = 6 + d1 /\ b = 7 + d1 + d2 /\ c = 7 + d1 + d2 + u
    OBVIOUS
  <1>2. /\ p.key # "SP" /\ p.flags \in 0 .. 99 /\ p.cas \in 0 .. 99 /\ n \in 0 .. 99
    BY DEF WellFormed, Sayable
  <1>3. e[4] # "SP" /\ e[5] = "SP"
    <2>1. Bears(e, 3, <<p.key, "SP">>)
      BY DEF Spread
    <2>2. e[3 + 1] = p.key /\ e[3 + 2] = "SP"
      BY <2>1 DEF Bears
    <2>3. QED
      BY <1>2, <2>2
  <1>4. \A i \in 6 .. a - 1 : e[i] \in Decimals
    <2>1. Bears(e, 5, Decimal(p.flags)) /\ Len(Decimal(p.flags)) = d1
      BY DEF Spread
    <2>2. \A i \in 1 .. d1 : e[5 + i] = Decimal(p.flags)[i] /\ Decimal(p.flags)[i] \in Decimals
      BY <1>2, <2>1, DecimalBytes DEF Bears
    <2>3. ASSUME NEW i \in 6 .. a - 1
          PROVE  e[i] \in Decimals
      <3>1. PICK j \in 1 .. d1 : j = i - 5 /\ i = 5 + j
        BY <1>1
      <3>2. QED
        BY <2>2, <3>1
    <2>4. QED
      BY <2>3
  <1>5. e[a] = "SP"
    <2>1. Bears(e, 5 + d1, <<"SP">>)
      BY DEF Spread
    <2>2. e[5 + d1 + 1] = "SP"
      BY <2>1 DEF Bears
    <2>3. 5 + d1 + 1 = a
      BY <1>1
    <2>4. QED
      BY <2>2, <2>3
  <1>6. PICK D : D = Decimal(n)
    OBVIOUS
  <1>7. /\ D \in Seq(Byte) /\ Len(D) = d2 /\ (\A i \in 1 .. d2 : D[i] \in Decimals)
        /\ NumberOf(D) = n /\ \A i \in 1 .. d2 : e[a + i] = D[i]
    <2>1. Bears(e, 6 + d1, Decimal(Len(p.data))) /\ d2 = Len(Decimal(Len(p.data)))
      BY DEF Spread
    <2>2. Bears(e, a, D) /\ d2 = Len(D)
      BY <1>1, <1>6, <2>1
    <2>3. D \in Seq(Byte) /\ (\A i \in 1 .. d2 : D[i] \in Decimals) /\ NumberOf(D) = n
      BY <1>2, <1>6, <2>2, DecimalBytes
    <2>4. QED
      BY <2>2, <2>3 DEF Bears
  <1>8. \A i \in a + 1 .. b - 1 : e[i] \in Decimals
    <2>1. ASSUME NEW i \in a + 1 .. b - 1
          PROVE  e[i] \in Decimals
      <3>1. PICK j \in 1 .. d2 : j = i - a /\ i = a + j
        BY <1>1
      <3>2. QED
        BY <1>7, <3>1
    <2>2. QED
      BY <2>1
  <1>9. NumberOf([i \in 1 .. b - a - 1 |-> e[a + i]]) = n
    <2>1. b - a - 1 = d2
      BY <1>1
    <2>2. D = [i \in 1 .. d2 |-> D[i]]
      BY <1>7
    <2>3. [i \in 1 .. d2 |-> e[a + i]] = [i \in 1 .. d2 |-> D[i]]
      BY <1>7
    <2>4. QED
      BY <1>7, <2>1, <2>2, <2>3, Zenon
  <1>10. PICK s : s = CasOf(p)
    OBVIOUS
  <1>11. /\ Len(s) = u
         /\ u = 0 \/ (u > 1 /\ s[1] = "SP" /\ \A i \in 2 .. u : s[i] \in Decimals)
         /\ \A i \in 1 .. u : e[b - 1 + i] = s[i]
    <2>1. Bears(e, 6 + d1 + d2, CasOf(p)) /\ u = Len(CasOf(p))
      BY DEF Spread
    <2>2. 6 + d1 + d2 = b - 1
      BY <1>1
    <2>3. Bears(e, b - 1, s) /\ u = Len(s)
      BY <1>10, <2>1, <2>2
    <2>4. u = 0 \/ (u > 1 /\ s[1] = "SP" /\ \A i \in 2 .. u : s[i] \in Decimals)
      BY <1>2, <1>10, <2>3, CasLaid
    <2>5. QED
      BY <2>3, <2>4 DEF Bears
  <1>12. e[c] = "CR" /\ e[c + 1] = "LF"
    <2>1. Bears(e, 6 + d1 + d2 + u, <<"CR", "LF">>)
      BY DEF Spread
    <2>2. e[6 + d1 + d2 + u + 1] = "CR" /\ e[6 + d1 + d2 + u + 2] = "LF"
      BY <2>1 DEF Bears
    <2>3. 6 + d1 + d2 + u + 1 = c /\ 6 + d1 + d2 + u + 2 = c + 1
      BY <1>1
    <2>4. QED
      BY <2>2, <2>3
  <1>13. e[b] \notin Decimals
    <2>1. CASE u = 0
      BY <1>1, <1>12, <2>1, NotDigits
    <2>2. CASE u # 0
      <3>1. e[b - 1 + 1] = s[1] /\ s[1] = "SP"
        BY <1>11, <2>2
      <3>2. b - 1 + 1 = b
        BY <1>1
      <3>3. QED
        BY <3>1, <3>2, NotDigits
    <2>3. QED
      BY <2>1, <2>2
  <1>14. c = b \/ (b + 1 < c /\ \A i \in b + 1 .. c - 1 : e[i] \in Decimals)
    <2>1. CASE u = 0
      BY <1>1, <2>1
    <2>2. CASE u # 0
      <3>1. u > 1 /\ b + 1 < c
        BY <1>1, <1>11, <2>2
      <3>2. ASSUME NEW i \in b + 1 .. c - 1
            PROVE  e[i] \in Decimals
        <4>1. PICK j \in 2 .. u : j = i - b + 1 /\ i = b - 1 + j
          BY <1>1
        <4>2. e[b - 1 + j] = s[j] /\ s[j] \in Decimals
          BY <1>11, <2>2
        <4>3. QED
          BY <4>1, <4>2
      <3>3. QED
        BY <3>1, <3>2
    <2>3. QED
      BY <2>1, <2>2
  <1>15. Len(e) = c + 1 + n + 2
    <2>1. Len(e) = 6 + d1 + d2 + u + 2 + n + 2
      BY DEF Spread
    <2>2. 6 + d1 + d2 + u + 2 + n + 2 = c + 1 + n + 2
      <3>1. c = 7 + d1 + d2 + u
        BY <1>1
      <3>2. d1 \in Nat /\ d2 \in Nat /\ u \in Nat /\ n \in Nat
        OBVIOUS
      <3>3. QED
        BY ONLY <3>1, <3>2
    <2>3. QED
      BY <2>1, <2>2, Zenon
  <1>16. ValueLaid(e, n, a, b, c)
    <2>1. 6 < a /\ a + 1 < b
      BY <1>1
    <2>2. QED
      BY <1>3, <1>4, <1>5, <1>8, <1>9, <1>12, <1>13, <1>14, <1>15, <2>1, Zenon DEF ValueLaid
  <1>17. QED
    BY <1>1, <1>16

\* The parts of a value are where the parser finds them.
Lies(p, a, b, c) ==
    /\ a \in Nat /\ b \in Nat /\ c \in Nat
    /\ ValueLaid(Encoded(p), Len(p.data), a, b, c)

LEMMA ValueIsLaid ==
  ASSUME NEW p, WellFormed(p), p.type = "VALUE"
  PROVE  /\ Encoded(p) \in Seq(Byte) /\ Bears(Encoded(p), 0, Word.VALUE) /\ Len(p.data) \in Nat
         /\ \E a, b, c : Lies(p, a, b, c)
  <1>1. PICK e : e = Encoded(p)
    OBVIOUS
  <1>2. /\ e \in Seq(Byte) /\ Len(p.data) \in Nat
        /\ \E d1 \in Nat \ {0}, d2 \in Nat \ {0}, u \in Nat : Spread(e, p, d1, d2, u, Len(p.data))
    BY <1>1, ValueSpread
  <1>3. PICK d1 \in Nat \ {0}, d2 \in Nat \ {0}, u \in Nat : Spread(e, p, d1, d2, u, Len(p.data))
    BY <1>2
  <1>4. PICK n \in Nat : n = Len(p.data)
    BY <1>2
  <1>5. ValueLaid(e, n, 6 + d1, 7 + d1 + d2, 7 + d1 + d2 + u)
    BY <1>3, <1>4, SpreadLaid
  <1>6. Bears(e, 0, Word.VALUE)
    BY <1>3 DEF Spread
  <1>7. Lies(p, 6 + d1, 7 + d1 + d2, 7 + d1 + d2 + u)
    BY <1>1, <1>4, <1>5 DEF Lies
  <1>8. QED
    BY <1>1, <1>2, <1>6, <1>7, Zenon

-----------------------------------------------------------------------------
(* The first bytes of a packet.                                            *)

Packet(p, e) == WellFormed(p) /\ e = Encoded(p)

LEMMA WordsBorne ==
  ASSUME NEW p, NEW e, Packet(p, e), p.type \in DOMAIN Word
  PROVE  e \in Seq(Byte) /\ Bears(e, 0, Word[p.type])
  <1>1. WellFormed(p) /\ e = Encoded(p)
    BY DEF Packet
  <1>2. p.type \in MessageTypes \cup {"END"} \cup DOMAIN ErrorOf \cup DOMAIN LineState \cup {"VALUE"}
    BY WordLetters DEF MessageTypes, ErrorOf, LineState
  <1>3. CASE p.type \in MessageTypes \cup {"END"}
    <2>1. e = Word[p.type]
      BY <1>1, <1>3, PlainLaid
    <2>2. e \in Seq(Byte)
      BY <2>1, WordLengths
    <2>3. QED
      BY <2>1, <2>2, BearsItself
  <1>4. CASE p.type \in DOMAIN ErrorOf
    BY <1>1, <1>4, ErrorLaid
  <1>5. CASE p.type \in DOMAIN LineState
    BY <1>1, <1>5, LineLaid
  <1>6. CASE p.type = "VALUE"
    BY <1>1, <1>6, ValueIsLaid
  <1>7. QED
    BY <1>2, <1>3, <1>4, <1>5, <1>6

\* A packet that is no word begins with a digit or with junk.
LEMMA FirstByte ==
  ASSUME NEW p, NEW e, Packet(p, e)
  PROVE  /\ e \in Seq(Byte) /\ Len(e) # 0
         /\ \/ p.type \in DOMAIN Word
            \/ p.type = "NUMBER" /\ e[1] \in Decimals
            \/ p.type = "JUNK" /\ e[1] = "?"
  <1>1. WellFormed(p) /\ e = Encoded(p)
    BY DEF Packet
  <1>2. CASE p.type \in DOMAIN Word
    <2>1. e \in Seq(Byte) /\ Bears(e, 0, Word[p.type])
      BY <1>2, WordsBorne
    <2>2. PICK n \in 0 .. 4 : Known(p.type, n)
      BY <1>2, WordsKnown
    <2>3. 0 < Len(Word[p.type]) /\ Len(Word[p.type]) \in Nat
      BY <1>2, <2>2, WordLengths DEF Known
    <2>4. QED
      BY <1>2, <2>1, <2>3 DEF Bears
  <1>3. CASE p.type = "NUMBER"
    <2>1. PICK d : d = Len(Decimal(p.value))
      OBVIOUS
    <2>2. e \in Seq(Byte) /\ d \in Nat /\ d # 0 /\ RunsOver(e, 0, d, Decimals)
      BY <1>1, <1>3, <2>1, NumberLaid
    <2>3. e[0 + 1] \in Decimals /\ 0 + (d + 1) <= Len(e)
      BY <2>2 DEF RunsOver
    <2>4. QED
      BY <1>3, <2>2, <2>3
  <1>4. CASE p.type = "JUNK"
    <2>1. e = <<"?">>
      BY <1>1, <1>4, JunkLaid
    <2>2. "?" \in Byte
      BY NotDigits
    <2>3. QED
      BY <1>4, <2>1, <2>2
  <1>5. QED
    BY <1>1, <1>2, <1>3, <1>4 DEF WellFormed

\* No word begins with junk.
LEMMA NotJunk == \A w \in DOMAIN Word : Word[w][1] # "?"
  <1>1. /\ Word["VALUE"][1] # "?" /\ Word["VERSION"][1] # "?" /\ Word["STAT"][1] # "?"
        /\ Word["END"][1] # "?" /\ Word["OK"][1] # "?" /\ Word["STORED"][1] # "?"
        /\ Word["NOT_STORED"][1] # "?" /\ Word["EXISTS"][1] # "?" /\ Word["DELETED"][1] # "?"
        /\ Word["NOT_FOUND"][1] # "?" /\ Word["TOUCHED"][1] # "?" /\ Word["ERROR"][1] # "?"
        /\ Word["SERVER_ERROR"][1] # "?" /\ Word["CLIENT_ERROR"][1] # "?"
    BY WordLetters
  <1>2. DOMAIN Word = {"VALUE", "VERSION", "STAT", "END", "OK", "STORED", "NOT_STORED", "EXISTS",
                       "DELETED", "NOT_FOUND", "TOUCHED", "ERROR", "SERVER_ERROR", "CLIENT_ERROR"}
    BY WordLetters
  <1>3. QED
    BY <1>1, <1>2, Zenon

\* The parser peeks no further than the packet goes.
LEMMA DepthWithin ==
  ASSUME NEW p, NEW e, Packet(p, e)
  PROVE  PeekDepth(e[1]) \in Nat /\ PeekDepth(e[1]) < Len(e) /\ Len(e) \in Nat
  <1>1. /\ e \in Seq(Byte) /\ Len(e) # 0 /\ Len(e) \in Nat
        /\ \/ p.type \in DOMAIN Word
           \/ e[1] \in Decimals
           \/ e[1] = "?"
    <2>1. /\ e \in Seq(Byte) /\ Len(e) # 0
          /\ \/ p.type \in DOMAIN Word
             \/ p.type = "NUMBER" /\ e[1] \in Decimals
             \/ p.type = "JUNK" /\ e[1] = "?"
      BY FirstByte
    <2>2. QED
      BY <2>1
  <1>2. CASE e[1] \in Decimals \/ e[1] = "?"
    <2>1. PeekDepth(e[1]) = 0
      BY <1>2, PeekDepths
    <2>2. QED
      BY <1>1, <2>1
  <1>3. CASE p.type \in DOMAIN Word
    <2>1. PICK n \in 0 .. 4 : Known(p.type, n)
      BY <1>3, WordsKnown
    <2>2. PeekDepth(Word[p.type][1]) = n /\ n < Len(Word[p.type])
      BY <2>1 DEF Known
    <2>3. Bears(e, 0, Word[p.type])
      BY <1>3, WordsBorne
    <2>4. Len(Word[p.type]) \in Nat /\ Len(Word[p.type]) <= Len(e) /\ e[0 + 1] = Word[p.type][1]
      BY <2>2, <2>3 DEF Bears
    <2>5. e[1] = Word[p.type][1]
      BY <2>4
    <2>6. QED
      BY <1>1, <2>2, <2>4, <2>5
  <1>4. QED
    BY <1>1, <1>2, <1>3

-----------------------------------------------------------------------------
(* What a turn of the loop does with the packet that is being read.        *)

\* The results, as records of slices.
Retrieval == [key : Seq(Slice), flags : Nat, bytes : Nat, remain : Nat,
              cas : Nat, data : Seq(Slice)]

ResultsOK(rs) ==
    /\ DOMAIN rs = {"retrieval", "message", "line", "unsigned"}
    /\ rs.retrieval \in Seq(Retrieval) /\ rs.line \in Seq(Seq(Slice))

\* m is r with len bytes read.
Reads(r, m, len) ==
    /\ ReaderOK(m) /\ len \in 0 .. r.readLeft /\ m.readLeft = r.readLeft - len
    /\ \A x \in 1 .. m.readLeft : Unread(m)[x] = Unread(r)[len + x]

LEMMA AdvancesReads ==
  ASSUME NEW r, ReaderOK(r), NEW m, NEW len, Advances(r, m, len)
  PROVE  Reads(r, m, len) /\ len \in Nat
  <1>1. /\ ReaderOK(m) /\ len \in 0 .. r.readLeft /\ m.readLeft = r.readLeft - len
        /\ \A x \in 1 .. m.readLeft : Ahead(m)[x] = Ahead(r)[len + x]
    BY DEF Advances
  <1>2. /\ r.readLeft \in Nat /\ \A i \in 1 .. r.readLeft : Unread(r)[i] = Ahead(r)[i].byte
    BY UnreadBytes
  <1>3. \A i \in 1 .. m.readLeft : Unread(m)[i] = Ahead(m)[i].byte
    BY <1>1, UnreadBytes
  <1>4. ASSUME NEW x \in 1 .. m.readLeft
        PROVE  Unread(m)[x] = Unread(r)[len + x]
    <2>1. len + x \in 1 .. r.readLeft
      BY <1>1, <1>2
    <2>2. Unread(r)[len + x] = Ahead(r)[len + x].byte
      BY <1>2, <2>1
    <2>3. QED
      BY <1>1, <1>3, <2>2
  <1>5. QED
    BY <1>1, <1>2, <1>4 DEF Reads

LEMMA PrefersReads ==
  ASSUME NEW r, ReaderOK(r), NEW q, Prefers(r, q)
  PROVE  ReaderOK(q) /\ Reads(r, q, 0) /\ \A m, len : Reads(q, m, len) => Reads(r, m, len)
  <1>1. ReaderOK(q) /\ q.readLeft = r.readLeft /\ Ahead(q) = Ahead(r)
    BY DEF Prefers
  <1>2. Unread(q) = Unread(r) /\ r.readLeft \in Nat
    BY <1>1, UnreadBytes DEF Unread
  <1>3. Reads(r, q, 0)
    BY <1>1, <1>2 DEF Reads
  <1>4. ASSUME NEW m, NEW len, Reads(q, m, len)
        PROVE  Reads(r, m, len)
    BY <1>1, <1>2, <1>4 DEF Reads
  <1>5. QED
    BY <1>1, <1>3, <1>4

\* o bytes of that value have been read, into kv, in state s.
ValueAt(s, kv, o, n, a, b, c) ==
    \/ s = "GET_START" /\ o = 3
    \/ s = "GET_KEY" /\ o = 5
    \/ s = "GET_FLAGS" /\ o = a
    \/ s = "GET_BYTES" /\ o = b /\ kv.bytes = n /\ kv.remain = n + 1
    \/ s = "GET_CAS" /\ o = c /\ kv.bytes = n /\ kv.remain = n + 1
    \/ s = "GET_VALUE_REMAINING" /\ kv.bytes = n /\ kv.remain = n /\ o = c + 1
    \/ s = "GET_VALUE_REMAINING" /\ kv.remain = 0 /\ o = c + 1 + n

Inside(p, o, s, rs) ==
    /\ p.type = "VALUE"
    /\ \E a, b, c : Lies(p, a, b, c) /\ ValueAt(s, Last(rs.retrieval), o, Len(p.data), a, b, c)

\* o bytes of p have been read, in state s.
Within(p, o, s, rs) ==
    \/ s = "START" /\ o = 0
    \/ s = "INCR_DECR_START" /\ p.type = "NUMBER" /\ o = 0
    \/ s = "INCR_DECR_REMAINING" /\ p.type = "NUMBER" /\ o = Len(Decimal(p.value)) + 1
    \/ \E w \in DOMAIN LineState : s = LineState[w] /\ p.type = w /\ o = Len(Word[w])
    \/ Inside(p, o, s, rs)

GetStates == {"GET_START", "GET_KEY", "GET_FLAGS", "GET_BYTES", "GET_CAS", "GET_VALUE_REMAINING"}

LEMMA WithinIn ==
  ASSUME NEW p, NEW o, NEW s, NEW rs, Within(p, o, s, rs)
  PROVE  /\ s = "START" => o = 0
         /\ s = "INCR_DECR_START" => p.type = "NUMBER" /\ o = 0
         /\ s = "INCR_DECR_REMAINING" => p.type = "NUMBER" /\ o = Len(Decimal(p.value)) + 1
         /\ \A w \in DOMAIN LineState : s = LineState[w] => p.type = w /\ o = Len(Word[w])
         /\ s \in GetStates => Inside(p, o, s, rs)
         /\ s \in GetStates \cup {"START", "INCR_DECR_START", "INCR_DECR_REMAINING",
                                  "VER_START", "STAT_START"}
  <1>1. /\ DOMAIN LineState = {"VERSION", "STAT"}
        /\ LineState["VERSION"] = "VER_START" /\ LineState["STAT"] = "STAT_START"
    BY DEF LineState
  <1>2. Inside(p, o, s, rs) => s \in GetStates
    BY DEF Inside, ValueAt, GetStates
  <1>3. QED
    BY <1>1, <1>2 DEF Within, GetStates

\* p has been read in state s.
Failures == {"PROGRAMMING_ERR", "MC_SERVER_ERR"}

Ended(p, s, i, j) ==
    \/ p.type \in {"VALUE", "STAT"} /\ s = "START" /\ j = i
    \/ p.type \in LastLines /\ s = "END" /\ j = i
    \/ p.type \in Replies /\ s = "START" /\ j = i + 1

\* The turn waits, with less of the packet at hand than is left of it; it
\* fails; it goes on in the packet or ends it.
Stays(e, o) ==
    /\ outcome' = "INCOMPLETE_BUFFER_ERR"
    /\ Reads(reader, reader', 0) /\ UNCHANGED <<state, results, keyIdx>>
    /\ reader.readLeft < Len(e) - o

Fails == outcome' \in Failures /\ keyIdx' = keyIdx /\ state' \in {state, "ERROR"}

Advancing(p, e, o, len) ==
    /\ outcome' = "running" /\ len \in Nat /\ Reads(reader, reader', len)
    /\ \/ Within(p, o + len, state', results') /\ keyIdx' = keyIdx
       \/ o + len = Len(e) /\ Ended(p, state', keyIdx, keyIdx')

Turned(p, e, o) ==
    Stays(e, o) \/ Fails \/ \E len \in Nat : Advancing(p, e, o, len)

\* Before the turn.
Facing(p, e, o) ==
    /\ Packet(p, e) /\ InPacket(reader, e, o) /\ ReaderOK(reader)
    /\ Within(p, o, state, results) /\ outcome = "running"

LEMMA TurnLeaves ==
  ASSUME NEW p, NEW e, NEW o \in Nat, Facing(p, e, o), NEW read, NEW len \in Nat, NEW short \in Nat,
         Takes(reader, read, len, short), read.err # "OK", Leave(read.err),
         short <= Len(e) - o
  PROVE  Turned(p, e, o)
  <1>1. /\ read.err \in {"INCOMPLETE_BUFFER_ERR", "PROGRAMMING_ERR"}
        /\ read.err = "INCOMPLETE_BUFFER_ERR" => reader.readLeft < short
    BY DEF Takes
  <1>2. outcome' = read.err /\ UNCHANGED <<reader, state, results, keyIdx>>
    BY DEF Leave
  <1>3. CASE read.err = "PROGRAMMING_ERR"
    BY <1>2, <1>3 DEF Turned, Fails, Failures
  <1>4. CASE read.err = "INCOMPLETE_BUFFER_ERR"
    <2>1. ReaderOK(reader) /\ reader.readLeft \in Nat
      BY UnreadBytes DEF Facing
    <2>2. Reads(reader, reader, 0)
      BY <2>1 DEF Reads
    <2>3. reader.readLeft < Len(e) - o
      <3>1. e \in Seq(Byte) /\ Len(e) \in Nat
        BY FirstByte DEF Facing
      <3>2. reader.readLeft < short
        BY <1>1, <1>4
      <3>3. QED
        BY <2>1, <3>1, <3>2
    <2>4. Stays(e, o)
      BY <1>2, <1>4, <2>2, <2>3 DEF Stays
    <2>5. QED
      BY <2>4 DEF Turned
  <1>5. QED
    BY <1>1, <1>3, <1>4

LEMMA TurnAdvances ==
  ASSUME NEW p, NEW e, NEW o \in Nat, Facing(p, e, o), NEW read, NEW len, NEW short,
         Takes(reader, read, len, short), read.err = "OK", reader' = read.reader, outcome' = outcome,
         \/ Within(p, o + len, state', results') /\ keyIdx' = keyIdx
         \/ o + len = Len(e) /\ Ended(p, state', keyIdx, keyIdx')
  PROVE  Turned(p, e, o)
  <1>1. ReaderOK(reader) /\ outcome' = "running"
    BY DEF Facing
  <1>2. Advances(reader, reader', len)
    BY DEF Takes
  <1>3. Reads(reader, reader', len) /\ len \in Nat
    BY <1>1, <1>2, AdvancesReads
  <1>4. Advancing(p, e, o, len)
    BY <1>1, <1>3 DEF Advancing
  <1>5. QED
    BY <1>3, <1>4 DEF Turned

\* A turn that goes on in the packet.
LEMMA TurnGoes ==
  ASSUME NEW p, NEW e, NEW o \in Nat, Facing(p, e, o), NEW read, NEW len, NEW short,
         Takes(reader, read, len, short), read.err = "OK", NEW s, NEW rs, Goes(read.reader, s, rs),
         \/ Within(p, o + len, s, rs)
         \/ o + len = Len(e) /\ Ended(p, s, keyIdx, keyIdx)
  PROVE  Turned(p, e, o)
  <1>1. /\ reader' = read.reader /\ state' = s /\ results' = rs
        /\ outcome' = outcome /\ keyIdx' = keyIdx
    BY DEF Goes
  <1>2. \/ Within(p, o + len, state', results') /\ keyIdx' = keyIdx
        \/ o + len = Len(e) /\ Ended(p, state', keyIdx, keyIdx')
    BY <1>1
  <1>3. QED
    BY <1>1, <1>2, TurnAdvances

-----------------------------------------------------------------------------
(* The first byte decides.                                                 *)

LEMMA PeekTakes ==
  ASSUME NEW r, ReaderOK(r), NEW e, Len(e) \in Nat, NEW o \in Nat, InPacket(r, e, o),
         NEW i \in Nat, o + i < Len(e)
  PROVE  /\ Takes(r, Peek(r, i), 0, i + 1)
         /\ Peek(r, i).err = "OK" => i < r.readLeft /\ Peek(r, i).byte = e[o + (i + 1)]
  <1>1. r.readLeft \in Nat
    BY UnreadBytes
  <1>2. CASE i >= r.readLeft
    <2>1. Peek(r, i) = Incomplete(r)
      BY <1>2 DEF Peek
    <2>2. Peek(r, i).err # "OK" /\ r.readLeft < i + 1
      BY <1>1, <1>2, <2>1 DEF Incomplete
    <2>3. QED
      BY <2>1, <2>2, IncompleteTakes
  <1>3. CASE ~ (i >= r.readLeft)
    <2>1. Peek(r, i) = [err |-> "OK", reader |-> r, byte |-> Unread(r)[i + 1]]
      BY <1>3 DEF Peek
    <2>2. Advances(r, r, 0)
      BY AdvancesNot
    <2>3. Takes(r, Peek(r, i), 0, i + 1)
      BY <2>1, <2>2 DEF Takes
    <2>4. i + 1 \in 1 .. r.readLeft /\ i + 1 <= Len(e) - o /\ i < r.readLeft
      BY <1>1, <1>3
    <2>5. Unread(r)[i + 1] = e[o + (i + 1)]
      BY <2>4 DEF InPacket
    <2>6. QED
      BY <2>1, <2>3, <2>4, <2>5
  <1>4. QED
    BY <1>2, <1>3

\* At the start of a packet the parser sees its bytes.
LEMMA LeadIs ==
  ASSUME NEW p, NEW e, NEW o \in Nat, Facing(p, e, o), state = "START", Lead.err = "OK"
  PROVE  Lead.byte = e[1] /\ Lead.byte \in Byte
  <1>1. /\ Packet(p, e) /\ InPacket(reader, e, 0) /\ ReaderOK(reader) /\ o = 0
    BY WithinIn DEF Facing
  <1>2. e \in Seq(Byte) /\ Len(e) \in Nat /\ 0 + 0 < Len(e)
    BY <1>1, FirstByte
  <1>3. Lead.byte = e[0 + (0 + 1)]
    BY <1>1, <1>2, PeekTakes DEF Lead
  <1>4. 0 + (0 + 1) = 1 /\ 1 \in 1 .. Len(e)
    BY <1>2
  <1>5. QED
    BY <1>2, <1>3, <1>4, SeqParts

LEMMA Recognised ==
  ASSUME NEW p, NEW e, NEW o \in Nat, Facing(p, e, o), NEW w \in DOMAIN Word, Starts(w)
  PROVE  w = p.type /\ o = 0 /\ state = "START"
  <1>1. /\ state = "START" /\ Lead.err = "OK" /\ Peek(reader, PeekDepth(Lead.byte)).err = "OK"
        /\ \A i \in 0 .. PeekDepth(Lead.byte) : Peek(reader, i).byte = Word[w][i + 1]
    BY DEF Starts, At
  <1>2. /\ Packet(p, e) /\ InPacket(reader, e, 0) /\ ReaderOK(reader) /\ o = 0
    BY <1>1, WithinIn DEF Facing
  <1>3. Lead.byte = e[1]
    BY <1>1, LeadIs
  <1>4. PICK d \in Nat, l \in Nat : d = PeekDepth(e[1]) /\ l = Len(e) /\ d < l
    BY <1>2, DepthWithin
  <1>5. Peek(reader, d).err = "OK" /\ \A i \in 0 .. d : Peek(reader, i).byte = Word[w][i + 1]
    BY <1>1, <1>3, <1>4
  <1>6. d < reader.readLeft /\ reader.readLeft \in Nat
    <2>1. 0 + d < Len(e) /\ Len(e) \in Nat
      BY <1>4
    <2>2. d < reader.readLeft
      BY <1>2, <1>5, <2>1, PeekTakes
    <2>3. QED
      BY <1>2, <2>2, UnreadBytes
  <1>7. ASSUME NEW i \in 0 .. d
        PROVE  Word[w][i + 1] = e[i + 1]
    <2>1. i \in Nat /\ 0 + i < Len(e) /\ Len(e) \in Nat /\ i < reader.readLeft /\ 0 + (i + 1) = i + 1
      BY <1>4, <1>6
    <2>2. Peek(reader, i).err = "OK"
      BY <1>6, <2>1 DEF Peek
    <2>3. Peek(reader, i).byte = e[0 + (i + 1)]
      BY <1>2, <2>1, <2>2, PeekTakes
    <2>4. QED
      BY <1>5, <2>1, <2>3
  <1>8. Word[w][1] = e[1]
    <2>1. 0 \in 0 .. d
      BY <1>4
    <2>2. Word[w][0 + 1] = e[0 + 1]
      BY <1>7, <2>1
    <2>3. QED
      BY <2>2
  <1>9. p.type \in DOMAIN Word
    <2>1. e[1] \notin Decimals /\ e[1] # "?"
      <3>1. PICK n \in 0 .. 4 : Known(w, n)
        BY WordsKnown
      <3>2. QED
        BY <1>8, <3>1, NotJunk DEF Known
    <2>2. QED
      BY <1>2, <2>1, FirstByte
  <1>10. PICK n \in 0 .. 4 : Known(p.type, n)
    BY <1>9, WordsKnown
  <1>11. /\ PeekDepth(Word[p.type][1]) = n /\ n < Len(Word[p.type])
         /\ Alike(p.type, w, n) => w = p.type
    BY <1>10 DEF Known
  <1>12. Bears(e, 0, Word[p.type]) /\ Len(Word[p.type]) \in Nat
    BY <1>2, <1>9, WordsBorne, WordLengths
  <1>13. \A i \in 1 .. n + 1 : e[i] = Word[p.type][i]
    <2>1. ASSUME NEW i \in 1 .. n + 1
          PROVE  e[i] = Word[p.type][i]
      <3>1. i \in 1 .. Len(Word[p.type]) /\ 0 + i = i
        BY <1>11, <1>12
      <3>2. e[0 + i] = Word[p.type][i]
        BY <1>12, <3>1 DEF Bears
      <3>3. QED
        BY <3>1, <3>2
    <2>2. QED
      BY <2>1
  <1>14. d = n
    <2>1. 1 \in 1 .. n + 1
      OBVIOUS
    <2>2. e[1] = Word[p.type][1]
      BY <1>13, <2>1
    <2>3. QED
      BY <1>4, <1>11, <2>2
  <1>15. Alike(p.type, w, n)
    <2>1. ASSUME NEW i \in 0 .. n
          PROVE  Word[p.type][i + 1] = Word[w][i + 1]
      <3>1. i + 1 \in 1 .. n + 1 /\ i \in 0 .. d
        BY <1>14
      <3>2. e[i + 1] = Word[p.type][i + 1] /\ Word[w][i + 1] = e[i + 1]
        BY <1>7, <1>13, <3>1
      <3>3. QED
        BY <3>2
    <2>2. QED
      BY <2>1 DEF Alike
  <1>16. QED
    BY <1>1, <1>2, <1>11, <1>15

\* The parser has begun to read word w, and skips it.
LEMMA SkippedTakes ==
  ASSUME NEW p, NEW e, NEW o \in Nat, Facing(p, e, o), NEW w \in DOMAIN Word, Starts(w),
         NEW l, l = Len(Word[w])
  PROVE  /\ w = p.type /\ o = 0 /\ l \in Nat /\ l <= Len(e) - o /\ Len(e) \in Nat
         /\ Takes(reader, Skipped(w), l, l)
  <1>1. w = p.type /\ o = 0
    BY Recognised
  <1>2. l \in Nat
    BY WordLengths
  <1>3. Takes(reader, Skipped(w), l, l)
    BY <1>2, SkipTakes DEF Facing, Skipped
  <1>4. Bears(e, 0, Word[w]) /\ e \in Seq(Byte)
    BY <1>1, WordsBorne DEF Facing
  <1>5. l <= Len(e) /\ Len(e) \in Nat
    BY <1>2, <1>4 DEF Bears
  <1>6. QED
    BY <1>1, <1>2, <1>3, <1>5

LEMMA StartIncompleteTurns ==
  ASSUME NEW p, NEW e, NEW o \in Nat, Facing(p, e, o), StartIncomplete
  PROVE  Turned(p, e, o)
  <1>1. /\ state = "START" /\ outcome' = "INCOMPLETE_BUFFER_ERR"
        /\ UNCHANGED <<reader, state, results, keyIdx>>
    BY DEF StartIncomplete, Leave, At
  <1>2. /\ Packet(p, e) /\ InPacket(reader, e, 0) /\ ReaderOK(reader) /\ o = 0
    BY <1>1, WithinIn DEF Facing
  <1>3. PICK d \in Nat, l \in Nat : d = PeekDepth(e[1]) /\ l = Len(e) /\ d < l
    BY <1>2, DepthWithin
  <1>4. PICK rl \in Nat : rl = reader.readLeft
    BY <1>2, UnreadBytes
  <1>5. rl <= d
    <2>1. CASE Lead.err # "OK"
      <3>1. 0 >= rl
        BY <1>4, <2>1 DEF Lead, Peek
      <3>2. QED
        BY <1>3, <1>4, <3>1
    <2>2. CASE Lead.err = "OK"
      <3>1. Lead.byte = e[1]
        BY <1>1, <2>2, LeadIs
      <3>2. Peek(reader, d).err # "OK"
        BY <1>3, <2>2, <3>1 DEF StartIncomplete
      <3>3. d >= rl
        BY <1>4, <3>2 DEF Peek
      <3>4. QED
        BY <1>3, <1>4, <3>3
    <2>3. QED
      BY <2>1, <2>2
  <1>6. reader.readLeft < Len(e) - o
    BY <1>2, <1>3, <1>4, <1>5
  <1>7. Reads(reader, reader, 0)
    BY <1>2, <1>4 DEF Reads
  <1>8. QED
    BY <1>1, <1>6, <1>7 DEF Turned, Stays

LEMMA StartValueTurns ==
  ASSUME NEW p, NEW e, NEW o \in Nat, Facing(p, e, o), StartValue
  PROVE  Turned(p, e, o)
  <1>1. PICK rs : /\ Starts("VALUE")
                  /\ IF Skipped("VALUE").err # "OK" THEN Leave(Skipped("VALUE").err)
                     ELSE Goes(Skipped("VALUE").reader, "GET_START", rs)
    BY DEF StartValue
  <1>2. "VALUE" \in DOMAIN Word /\ Len(Word["VALUE"]) = 3
    BY DEF Word
  <1>3. PICK l : l = 3 /\ l = Len(Word["VALUE"])
    BY <1>2
  <1>4. /\ "VALUE" = p.type /\ o = 0 /\ l \in Nat /\ l <= Len(e) - o
        /\ Takes(reader, Skipped("VALUE"), l, l)
    BY <1>1, <1>2, <1>3, SkippedTakes
  <1>5. CASE Skipped("VALUE").err # "OK"
    BY <1>1, <1>4, <1>5, TurnLeaves
  <1>6. CASE Skipped("VALUE").err = "OK"
    <2>1. Goes(Skipped("VALUE").reader, "GET_START", rs)
      BY <1>1, <1>6
    <2>2. o + l = 3
      BY <1>3, <1>4
    <2>3. \E a, b, c : Lies(p, a, b, c)
      BY <1>4, ValueIsLaid DEF Facing, Packet
    <2>4. Within(p, o + l, "GET_START", rs)
      BY <1>4, <2>2, <2>3 DEF Within, Inside, ValueAt
    <2>5. QED
      BY <1>4, <1>6, <2>1, <2>4, TurnGoes
  <1>7. QED
    BY <1>5, <1>6

LEMMA StartLineTurns ==
  ASSUME NEW p, NEW e, NEW o \in Nat, Facing(p, e, o), StartLine
  PROVE  Turned(p, e, o)
  <1>1. PICK w, rs :
          /\ w \in DOMAIN LineState /\ Starts(w)
          /\ IF Skipped(w).err # "OK" THEN Leave(Skipped(w).err)
             ELSE Goes(Skipped(w).reader, LineState[w], rs)
    BY DEF StartLine
  <1>2. w \in DOMAIN Word
    BY <1>1, WordNames
  <1>3. PICK l : l = Len(Word[w])
    OBVIOUS
  <1>4. /\ w = p.type /\ o = 0 /\ l \in Nat /\ l <= Len(e) - o
        /\ Takes(reader, Skipped(w), l, l)
    BY <1>1, <1>2, <1>3, SkippedTakes
  <1>5. CASE Skipped(w).err # "OK"
    BY <1>1, <1>4, <1>5, TurnLeaves
  <1>6. CASE Skipped(w).err = "OK"
    <2>1. Goes(Skipped(w).reader, LineState[w], rs)
      BY <1>1, <1>6
    <2>2. o + l = Len(Word[w])
      BY <1>3, <1>4
    <2>3. Within(p, o + l, LineState[w], rs)
      BY <1>1, <1>4, <2>2 DEF Within
    <2>4. QED
      BY <1>4, <1>6, <2>1, <2>3, TurnGoes
  <1>7. QED
    BY <1>5, <1>6

\* A packet that is a word is read whole.
LEMMA WordWhole ==
  ASSUME NEW p, NEW e, NEW o \in Nat, Facing(p, e, o), NEW w \in MessageTypes \cup {"END"}, Starts(w)
  PROVE  /\ w = p.type /\ Takes(reader, Skipped(w), Len(e), Len(e)) /\ Len(e) \in Nat
         /\ Len(e) <= Len(e) - o /\ o + Len(e) = Len(e)
  <1>1. w \in DOMAIN Word
    BY WordNames, WordLetters, ZenonT(30)
  <1>2. PICK l : l = Len(Word[w])
    OBVIOUS
  <1>3. /\ w = p.type /\ o = 0 /\ l \in Nat /\ l <= Len(e) - o /\ Len(e) \in Nat
        /\ Takes(reader, Skipped(w), l, l)
    BY <1>1, <1>2, SkippedTakes
  <1>4. e = Word[w]
    BY <1>3, PlainLaid DEF Facing, Packet
  <1>5. l = Len(e)
    BY <1>2, <1>4
  <1>6. QED
    BY <1>3, <1>5

LEMMA StartEndTurns ==
  ASSUME NEW p, NEW e, NEW o \in Nat, Facing(p, e, o), StartEnd
  PROVE  Turned(p, e, o)
  <1>1. /\ Starts("END")
        /\ IF Skipped("END").err # "OK" THEN Leave(Skipped("END").err)
           ELSE Goes(Skipped("END").reader, "END", results)
    BY DEF StartEnd
  <1>2. /\ "END" = p.type /\ Takes(reader, Skipped("END"), Len(e), Len(e)) /\ Len(e) \in Nat
        /\ Len(e) <= Len(e) - o /\ o + Len(e) = Len(e)
    BY <1>1, WordWhole
  <1>3. CASE Skipped("END").err # "OK"
    BY <1>1, <1>2, <1>3, TurnLeaves
  <1>4. CASE Skipped("END").err = "OK"
    <2>1. Goes(Skipped("END").reader, "END", results)
      BY <1>1, <1>4
    <2>2. Ended(p, "END", keyIdx, keyIdx)
      BY <1>2 DEF Ended, LastLines
    <2>3. QED
      BY <1>2, <1>4, <2>1, <2>2, TurnGoes
  <1>5. QED
    BY <1>3, <1>4

LEMMA StartMessageTurns ==
  ASSUME NEW p, NEW e, NEW o \in Nat, Facing(p, e, o), StartMessage
  PROVE  Turned(p, e, o)
  <1>1. PICK w \in MessageTypes :
          /\ Starts(w)
          /\ IF Skipped(w).err # "OK" THEN Leave(Skipped(w).err)
             ELSE /\ reader' = Skipped(w).reader
                  /\ state' = IF w = "OK" THEN "END" ELSE "START"
                  /\ keyIdx' = IF w = "OK" THEN keyIdx ELSE keyIdx + 1
                  /\ outcome' = outcome
    BY DEF StartMessage
  <1>2. /\ w = p.type /\ Takes(reader, Skipped(w), Len(e), Len(e)) /\ Len(e) \in Nat
        /\ Len(e) <= Len(e) - o /\ o + Len(e) = Len(e)
    BY <1>1, WordWhole
  <1>3. CASE Skipped(w).err # "OK"
    BY <1>1, <1>2, <1>3, TurnLeaves
  <1>4. CASE Skipped(w).err = "OK"
    <2>1. /\ reader' = Skipped(w).reader /\ outcome' = outcome
          /\ state' = IF w = "OK" THEN "END" ELSE "START"
          /\ keyIdx' = IF w = "OK" THEN keyIdx ELSE keyIdx + 1
      BY <1>1, <1>4
    <2>2. Ended(p, state', keyIdx, keyIdx')
      <3>1. CASE w = "OK"
        BY <1>2, <2>1, <3>1 DEF Ended, LastLines
      <3>2. CASE w # "OK"
        BY <1>2, <2>1, <3>2 DEF Ended, Replies
      <3>3. QED
        BY <3>1, <3>2
    <2>3. QED
      BY <1>2, <1>4, <2>1, <2>2, TurnAdvances
  <1>5. QED
    BY <1>3, <1>4

LEMMA StartErrorTurns ==
  ASSUME NEW p, NEW e, NEW o \in Nat, Facing(p, e, o), StartError
  PROVE  Turned(p, e, o)
  <1>1. PICK w, line :
          /\ w \in DOMAIN ErrorOf /\ Starts(w) /\ line = ThenSkip(ReadUntil(reader, "LF"), 1)
          /\ IF line.err # "OK" THEN Leave(line.err)
             ELSE state' = "ERROR" /\ outcome' = ErrorOf[w] /\ keyIdx' = keyIdx
    BY DEF StartError
  <1>2. w \in DOMAIN Word
    BY <1>1, WordNames
  <1>3. w = p.type /\ o = 0
    BY <1>1, <1>2, Recognised
  <1>4. CASE line.err = "OK"
    <2>1. state' = "ERROR" /\ outcome' = ErrorOf[w] /\ keyIdx' = keyIdx
      BY <1>1, <1>4
    <2>2. ErrorOf[w] \in Failures
      BY <1>1 DEF ErrorOf, Failures
    <2>3. QED
      BY <2>1, <2>2 DEF Turned, Fails
  <1>5. CASE line.err # "OK"
    <2>1. Leave(line.err)
      BY <1>1, <1>5
    <2>2. /\ e \in Seq(Byte)
          /\ \E d \in Nat : /\ RunsOver(e, 0, d, Byte \ {"LF"})
                            /\ e[0 + (d + 1)] = "LF"
                            /\ Len(e) = d + 1
      BY <1>1, <1>3, ErrorLaid DEF Facing, Packet
    <2>3. PICK d \in Nat : /\ RunsOver(e, 0, d, Byte \ {"LF"}) /\ e[0 + (d + 1)] = "LF"
                           /\ Len(e) = d + 1
      BY <2>2
    <2>4. Takes(reader, line, d + 1, d + 1)
      <3>1. ReaderOK(reader) /\ InPacket(reader, e, 0) /\ Len(e) \in Nat
        BY <1>3, <2>2 DEF Facing
      <3>2. QED
        BY <1>1, <2>3, <3>1, UntilTakes
    <2>5. d + 1 \in Nat /\ d + 1 <= Len(e) - o
      BY <1>3, <2>3
    <2>6. QED
      BY <1>5, <2>1, <2>4, <2>5, TurnLeaves
  <1>6. QED
    BY <1>4, <1>5

LEMMA StartNumberTurns ==
  ASSUME NEW p, NEW e, NEW o \in Nat, Facing(p, e, o), StartNumber
  PROVE  Turned(p, e, o)
  <1>1. /\ state = "START" /\ Lead.err = "OK" /\ Contains(Digits, Lead.byte)
        /\ \E rs : Goes(reader, "INCR_DECR_START", rs)
    BY DEF StartNumber, At
  <1>2. PICK rs : Goes(reader, "INCR_DECR_START", rs)
    BY <1>1
  <1>3. /\ Packet(p, e) /\ ReaderOK(reader) /\ o = 0
    BY <1>1, WithinIn DEF Facing
  <1>4. e[1] \in Decimals
    BY <1>1, LeadIs DEF Contains, Decimals, ToSet
  <1>5. p.type = "NUMBER"
    <2>1. CASE p.type \in DOMAIN Word
      <3>1. PICK n \in 0 .. 4 : Known(p.type, n)
        BY <2>1, WordsKnown
      <3>2. Word[p.type][1] \notin Decimals /\ n < Len(Word[p.type]) /\ Len(Word[p.type]) \in Nat
        BY <2>1, <3>1, WordLengths DEF Known
      <3>3. e[0 + 1] = Word[p.type][1]
        BY <1>3, <2>1, <3>2, WordsBorne DEF Bears
      <3>4. QED
        BY <1>4, <3>2, <3>3
    <2>2. CASE p.type = "JUNK" /\ e[1] = "?"
      BY <1>4, <2>2, NotDigits
    <2>3. QED
      BY <1>3, <2>1, <2>2, FirstByte
  <1>6. PICK read : read = [err |-> "OK", reader |-> reader]
    OBVIOUS
  <1>7. Takes(reader, read, 0, 0)
    BY <1>3, <1>6, AdvancesNot DEF Takes
  <1>8. Within(p, o + 0, "INCR_DECR_START", rs)
    BY <1>3, <1>5 DEF Within
  <1>9. Goes(read.reader, "INCR_DECR_START", rs) /\ read.err = "OK"
    BY <1>2, <1>6
  <1>10. QED
    BY <1>7, <1>8, <1>9, TurnGoes

LEMMA StartUnknownTurns ==
  ASSUME NEW p, NEW e, NEW o \in Nat, Facing(p, e, o), StartUnknown
  PROVE  Turned(p, e, o)
  BY DEF StartUnknown, Leave, Turned, Fails, Failures

LEMMA StartTurns ==
  ASSUME NEW p, NEW e, NEW o \in Nat, Facing(p, e, o), Start
  PROVE  Turned(p, e, o)
  BY StartIncompleteTurns, StartValueTurns, StartLineTurns, StartEndTurns, StartMessageTurns,
     StartErrorTurns, StartNumberTurns, StartUnknownTurns DEF Start

-----------------------------------------------------------------------------
(* A number, and a line.                                                   *)

LEMMA IncrDecrStartTurns ==
  ASSUME NEW p, NEW e, NEW o \in Nat, Facing(p, e, o), IncrDecrStart
  PROVE  Turned(p, e, o)
  <1>1. PICK value, rs :
          /\ state = "INCR_DECR_START" /\ value = ThenSkip(ReadUnsigned(reader), 1)
          /\ IF value.err # "OK" THEN Leave(value.err)
             ELSE Goes(value.reader, "INCR_DECR_REMAINING", rs)
    BY DEF IncrDecrStart, At
  <1>2. /\ Packet(p, e) /\ InPacket(reader, e, 0) /\ ReaderOK(reader) /\ o = 0 /\ p.type = "NUMBER"
    BY <1>1, WithinIn DEF Facing
  <1>3. PICK d : d = Len(Decimal(p.value))
    OBVIOUS
  <1>4. /\ e \in Seq(Byte) /\ d \in Nat /\ d # 0 /\ RunsOver(e, 0, d, Decimals)
    BY <1>2, <1>3, NumberLaid DEF Packet
  <1>5. Takes(reader, value, d + 1, d + 1)
    <2>1. Len(e) \in Nat
      BY <1>4
    <2>2. QED
      BY <1>1, <1>2, <1>4, <2>1, NumberTakes
  <1>6. d + 1 \in Nat /\ d + 1 <= Len(e) - o
    <2>1. 0 + (d + 1) <= Len(e) /\ Len(e) \in Nat
      BY <1>4 DEF RunsOver
    <2>2. QED
      BY <1>2, <1>4, <2>1
  <1>7. CASE value.err # "OK"
    BY <1>1, <1>5, <1>6, <1>7, TurnLeaves
  <1>8. CASE value.err = "OK"
    <2>1. Goes(value.reader, "INCR_DECR_REMAINING", rs)
      BY <1>1, <1>8
    <2>2. o + (d + 1) = Len(Decimal(p.value)) + 1
      BY <1>2, <1>3, <1>4
    <2>3. Within(p, o + (d + 1), "INCR_DECR_REMAINING", rs)
      BY <1>2, <2>2 DEF Within
    <2>4. QED
      BY <1>5, <1>8, <2>1, <2>3, TurnGoes
  <1>9. QED
    BY <1>7, <1>8

LEMMA IncrDecrRemainingTurns ==
  ASSUME NEW p, NEW e, NEW o \in Nat, Facing(p, e, o), IncrDecrRemaining
  PROVE  Turned(p, e, o)
  <1>1. PICK rest :
          /\ state = "INCR_DECR_REMAINING" /\ rest = ThenSkip(SkipUntil(reader, "LF"), 1)
          /\ IF rest.err # "OK" THEN Leave(rest.err)
             ELSE /\ reader' = rest.reader /\ keyIdx' = keyIdx + 1 /\ state' = "START"
                  /\ outcome' = outcome
    BY DEF IncrDecrRemaining, At
  <1>2. PICK d : d = Len(Decimal(p.value))
    OBVIOUS
  <1>3. /\ Packet(p, e) /\ InPacket(reader, e, o) /\ ReaderOK(reader) /\ p.type = "NUMBER"
        /\ o = d + 1
    BY <1>1, <1>2, WithinIn DEF Facing
  <1>4. e \in Seq(Byte) /\ LineEnds(e, o)
    <2>1. WellFormed(p) /\ e = Encoded(p)
      BY <1>3 DEF Packet
    <2>2. LineEnds(e, d + 1)
      BY <1>2, <1>3, <2>1, NumberLaid
    <2>3. QED
      BY <1>3, <2>2, FirstByte
  <1>5. PICK n \in Nat : /\ RunsOver(e, o, n, Byte \ {"LF"}) /\ e[o + (n + 1)] = "LF"
                         /\ Len(e) = o + (n + 1)
    BY <1>4 DEF LineEnds
  <1>6. Takes(reader, rest, n + 1, n + 1)
    <2>1. Len(e) \in Nat
      BY <1>4
    <2>2. QED
      BY <1>1, <1>3, <1>5, <2>1, UntilTakes
  <1>7. n + 1 \in Nat /\ n + 1 <= Len(e) - o
    BY <1>5
  <1>8. CASE rest.err # "OK"
    BY <1>1, <1>6, <1>7, <1>8, TurnLeaves
  <1>9. CASE rest.err = "OK"
    <2>1. reader' = rest.reader /\ keyIdx' = keyIdx + 1 /\ state' = "START" /\ outcome' = outcome
      BY <1>1, <1>9
    <2>2. Ended(p, state', keyIdx, keyIdx')
      BY <1>3, <2>1 DEF Ended, Replies
    <2>3. o + (n + 1) = Len(e)
      BY <1>5
    <2>4. QED
      BY <1>6, <1>9, <2>1, <2>2, <2>3, TurnAdvances
  <1>10. QED
    BY <1>8, <1>9

LEMMA ReadLineTurns ==
  ASSUME NEW p, NEW e, NEW o \in Nat, Facing(p, e, o), ReadLine
  PROVE  Turned(p, e, o)
  <1>1. PICK w, line, rs :
          /\ w \in DOMAIN LineState /\ state = LineState[w] /\ line = ThenSkip(ReadUntil(reader, "LF"), 1)
          /\ IF line.err # "OK" THEN Leave(line.err)
             ELSE Goes(line.reader, IF w = "VERSION" THEN "END" ELSE "START", rs)
    BY DEF ReadLine, At
  <1>2. PICK l : l = Len(Word[w])
    OBVIOUS
  <1>3. /\ Packet(p, e) /\ InPacket(reader, e, o) /\ ReaderOK(reader) /\ p.type = w /\ o = l
    BY <1>1, <1>2, WithinIn DEF Facing
  <1>4. /\ e \in Seq(Byte)
        /\ \E d \in Nat : /\ RunsOver(e, Len(Word[p.type]), d, Byte \ {"LF"})
                          /\ e[Len(Word[p.type]) + (d + 1)] = "LF"
                          /\ Len(e) = Len(Word[p.type]) + (d + 1)
    BY <1>1, <1>3, LineLaid DEF Packet
  <1>5. PICK d \in Nat : /\ RunsOver(e, o, d, Byte \ {"LF"}) /\ e[o + (d + 1)] = "LF"
                         /\ Len(e) = o + (d + 1)
    BY <1>2, <1>3, <1>4
  <1>6. Takes(reader, line, d + 1, d + 1)
    <2>1. Len(e) \in Nat
      <3>1. e \in Seq(Byte)
        BY <1>4
      <3>2. QED
        BY <3>1, SeqParts
    <2>2. QED
      BY <1>1, <1>3, <1>5, <2>1, UntilTakes
  <1>7. d + 1 \in Nat /\ d + 1 <= Len(e) - o
    BY <1>5
  <1>8. CASE line.err # "OK"
    BY <1>1, <1>6, <1>7, <1>8, TurnLeaves
  <1>9. CASE line.err = "OK"
    <2>1. PICK s : s = IF w = "VERSION" THEN "END" ELSE "START"
      OBVIOUS
    <2>2. Goes(line.reader, s, rs)
      BY <1>1, <1>9, <2>1
    <2>3. Ended(p, s, keyIdx, keyIdx)
      <3>1. w \in {"VERSION", "STAT"}
        BY <1>1 DEF LineState
      <3>2. QED
        BY <1>3, <2>1, <3>1 DEF Ended, LastLines
    <2>4. o + (d + 1) = Len(e)
      BY <1>5
    <2>5. QED
      BY <1>6, <1>9, <2>2, <2>3, <2>4, TurnGoes
  <1>10. QED
    BY <1>8, <1>9

-----------------------------------------------------------------------------
(* A value.                                                                *)

\* The value read on becomes the last one.
LEMMA CurrentNext ==
  ASSUME NEW kv \in Retrieval, ResultsOK(results), results.retrieval # <<>>
  PROVE  Last(WithCurrent(kv).retrieval) = kv
  <1>1. results.retrieval \in Seq(Retrieval)
    BY DEF ResultsOK
  <1>2. PICK f \in Seq(Retrieval) : f = Front(results.retrieval)
    <2>1. Front(results.retrieval) \in Seq(Retrieval)
      BY <1>1, FrontLast
    <2>2. QED
      BY <2>1, Zenon
  <1>3. PICK v \in Seq(Retrieval) : v = Append(f, kv) /\ Last(v) = kv
    <2>1. PICK v \in Seq(Retrieval) : Extended(v, f, kv, Len(f))
      BY AppendParts
    <2>2. v = Append(f, kv) /\ Len(v) = Len(f) + 1 /\ v[Len(f) + 1] = kv
      BY <2>1 DEF Extended
    <2>3. Last(v) = kv
      BY <2>2 DEF Last
    <2>4. QED
      BY <2>2, <2>3
  <1>4. WithCurrent(kv).retrieval = Append(Front(results.retrieval), kv)
    <2>1. DOMAIN results = {"retrieval", "message", "line", "unsigned"}
      BY DEF ResultsOK
    <2>2. QED
      BY <2>1 DEF WithCurrent
  <1>5. QED
    BY <1>2, <1>3, <1>4

\* Where the parser stands in a value.
Places(p, e, o, a, b, c, n) ==
    /\ p.type = "VALUE" /\ Lies(p, a, b, c) /\ n = Len(p.data)
    /\ ValueAt(state, Last(results.retrieval), o, n, a, b, c)
    /\ a \in Nat /\ b \in Nat /\ c \in Nat /\ n \in Nat
    /\ e \in Seq(Byte) /\ Len(e) \in Nat /\ ValueLaid(e, n, a, b, c)

LEMMA InsideAt ==
  ASSUME NEW p, NEW e, NEW o \in Nat, Facing(p, e, o), state \in GetStates
  PROVE  /\ ReaderOK(reader) /\ InPacket(reader, e, o) /\ Len(e) \in Nat
         /\ \E a, b, c, n : Places(p, e, o, a, b, c, n)
  <1>1. Inside(p, o, state, results) /\ WellFormed(p) /\ e = Encoded(p)
        /\ ReaderOK(reader) /\ InPacket(reader, e, o)
    BY WithinIn DEF Facing, Packet
  <1>2. PICK a, b, c : /\ p.type = "VALUE" /\ Lies(p, a, b, c)
                       /\ ValueAt(state, Last(results.retrieval), o, Len(p.data), a, b, c)
    BY <1>1 DEF Inside
  <1>3. PICK n : n = Len(p.data)
    OBVIOUS
  <1>4. e \in Seq(Byte) /\ n \in Nat
    BY <1>1, <1>2, <1>3, ValueIsLaid
  <1>5. Len(e) \in Nat
    BY <1>4, SeqParts
  <1>6. a \in Nat /\ b \in Nat /\ c \in Nat /\ ValueLaid(e, n, a, b, c)
    BY <1>1, <1>2, <1>3 DEF Lies
  <1>7. Places(p, e, o, a, b, c, n)
    BY <1>2, <1>3, <1>4, <1>5, <1>6 DEF Places
  <1>8. QED
    BY <1>1, <1>5, <1>7

\* The turn goes on in the value.
LEMMA TurnValue ==
  ASSUME NEW p, NEW e, NEW o \in Nat, Facing(p, e, o),
         NEW a, NEW b, NEW c, NEW n, Places(p, e, o, a, b, c, n),
         NEW read, NEW len \in Nat, Takes(reader, read, len, len), len <= Len(e) - o,
         NEW s, NEW rs, IF read.err # "OK" THEN Leave(read.err) ELSE Goes(read.reader, s, rs),
         read.err = "OK" => ValueAt(s, Last(rs.retrieval), o + len, n, a, b, c)
  PROVE  Turned(p, e, o)
  <1>1. CASE read.err # "OK"
    <2>1. Leave(read.err)
      BY <1>1
    <2>2. QED
      BY <1>1, <2>1, TurnLeaves
  <1>2. CASE read.err = "OK"
    <2>1. Goes(read.reader, s, rs)
      BY <1>2
    <2>2. Within(p, o + len, s, rs)
      BY <1>2 DEF Places, Within, Inside
    <2>3. QED
      BY <1>2, <2>1, <2>2, TurnGoes
  <1>3. QED
    BY <1>1, <1>2

LEMMA GetStartTurns ==
  ASSUME NEW p, NEW e, NEW o \in Nat, Facing(p, e, o), GetStart
  PROVE  Turned(p, e, o)
  <1>1. PICK key, rs :
          /\ state = "GET_START" /\ key = ThenSkip(ReadUntil(reader, "SP"), 1)
          /\ IF key.err # "OK" THEN Leave(key.err) ELSE Goes(key.reader, "GET_KEY", rs)
    BY DEF GetStart, At
  <1>2. /\ ReaderOK(reader) /\ InPacket(reader, e, o) /\ Len(e) \in Nat
        /\ \E a, b, c, n : Places(p, e, o, a, b, c, n)
    BY <1>1, InsideAt DEF GetStates
  <1>3. PICK a, b, c, n : Places(p, e, o, a, b, c, n)
    BY <1>2
  <1>4. /\ o = 3 /\ e[4] # "SP" /\ e[5] = "SP" /\ 5 <= Len(e) /\ e \in Seq(Byte)
    <2>1. /\ o = 3 /\ a \in Nat /\ b \in Nat /\ c \in Nat /\ n \in Nat /\ e \in Seq(Byte)
          /\ e[4] # "SP" /\ e[5] = "SP" /\ 6 < a /\ a + 1 < b /\ (c = b \/ b + 1 < c)
          /\ Len(e) = c + 1 + n + 2
      BY <1>1, <1>3 DEF Places, ValueAt, ValueLaid
    <2>2. 5 <= Len(e)
      BY ONLY <2>1
    <2>3. QED
      BY <2>1, <2>2
  <1>5. Takes(reader, key, 2, 2)
    <2>1. RunsOver(e, 3, 1, Byte \ {"SP"}) /\ e[3 + (1 + 1)] = "SP"
      <3>1. 4 \in 1 .. Len(e) /\ 3 + (1 + 1) = 5 /\ \A i \in 1 .. 1 : 3 + i = 4
        BY <1>2, <1>4
      <3>2. e[4] \in Byte
        BY <1>4, <3>1, SeqParts
      <3>3. QED
        BY <1>4, <3>1, <3>2 DEF RunsOver
    <2>2. Takes(reader, key, 1 + 1, 1 + 1)
      BY <1>1, <1>2, <1>4, <2>1, UntilTakes
    <2>3. QED
      BY <2>2
  <1>6. 2 <= Len(e) - o /\ 2 \in Nat
    BY <1>2, <1>4
  <1>7. ValueAt("GET_KEY", Last(rs.retrieval), o + 2, n, a, b, c)
    BY <1>4 DEF ValueAt
  <1>8. QED
    BY <1>1, <1>3, <1>5, <1>6, <1>7, TurnValue

\* Digits from o to the byte behind them, at x.
DigitsTo(e, o, x) ==
    /\ Len(e) \in Nat /\ x \in Nat /\ o + 1 < x /\ x <= Len(e)
    /\ \A i \in o + 1 .. x - 1 : e[i] \in Decimals
    /\ e[x] \notin Decimals

LEMMA DigitsTake ==
  ASSUME NEW e, NEW o \in Nat, ReaderOK(reader), InPacket(reader, e, o), NEW x, DigitsTo(e, o, x)
  PROVE  LET read == ThenSkip(ReadUnsigned(reader), 1)
         IN  /\ x - o \in Nat /\ o + (x - o) = x /\ x - o <= Len(e) - o
             /\ Takes(reader, read, x - o, x - o)
             /\ read.err = "OK" => read.value = NumberOf([i \in 1 .. x - o - 1 |-> e[o + i]])
  <1> DEFINE read == ThenSkip(ReadUnsigned(reader), 1)
  <1>1. PICK d \in Nat : d = x - o - 1 /\ d # 0 /\ x = o + (d + 1) /\ d + 1 = x - o
    BY DEF DigitsTo
  <1>2. RunsOver(e, o, d, Decimals)
    <2>1. ASSUME NEW i \in 1 .. d
          PROVE  e[o + i] \in Decimals
      <3>1. o + i \in o + 1 .. x - 1
        BY <1>1
      <3>2. QED
        BY <3>1 DEF DigitsTo
    <2>2. QED
      BY <1>1, <2>1 DEF RunsOver, DigitsTo
  <1>3. /\ Takes(reader, read, d + 1, d + 1)
        /\ read.err = "OK" => read.value = NumberOf([i \in 1 .. d |-> e[o + i]])
    <2>1. Len(e) \in Nat
      BY DEF DigitsTo
    <2>2. QED
      BY <1>1, <1>2, <2>1, NumberTakes
  <1>4. x - o <= Len(e) - o
    BY DEF DigitsTo
  <1> HIDE DEF read
  <1>5. x - o \in Nat /\ o + (x - o) = x
    BY <1>1
  <1>6. /\ Takes(reader, read, x - o, x - o)
        /\ read.err = "OK" => read.value = NumberOf([i \in 1 .. x - o - 1 |-> e[o + i]])
    BY <1>1, <1>3, Zenon
  <1>7. QED
    BY <1>4, <1>5, <1>6 DEF read

LEMMA GetKeyTurns ==
  ASSUME NEW p, NEW e, NEW o \in Nat, Facing(p, e, o), GetKey
  PROVE  Turned(p, e, o)
  <1>1. PICK flags, rs :
          /\ state = "GET_KEY" /\ flags = ThenSkip(ReadUnsigned(reader), 1)
          /\ IF flags.err # "OK" THEN Leave(flags.err) ELSE Goes(flags.reader, "GET_FLAGS", rs)
    BY DEF GetKey, At
  <1>2. /\ ReaderOK(reader) /\ InPacket(reader, e, o) /\ Len(e) \in Nat
        /\ \E a, b, c, n : Places(p, e, o, a, b, c, n)
    BY <1>1, InsideAt DEF GetStates
  <1>3. PICK a, b, c, n : Places(p, e, o, a, b, c, n)
    BY <1>2
  <1>4. /\ o = 5 /\ a \in Nat /\ b \in Nat /\ c \in Nat /\ n \in Nat /\ e \in Seq(Byte)
        /\ 6 < a /\ a + 1 < b /\ (c = b \/ b + 1 < c) /\ Len(e) = c + 1 + n + 2
        /\ (\A i \in 6 .. a - 1 : e[i] \in Decimals) /\ e[a] = "SP"
    BY <1>1, <1>3 DEF Places, ValueAt, ValueLaid
  <1>5. DigitsTo(e, o, a)
    <2>1. a <= Len(e) /\ o + 1 < a /\ o + 1 = 6
      BY ONLY <1>4
    <2>2. QED
      BY <1>2, <1>4, <2>1, NotDigits DEF DigitsTo
  <1>6. /\ a - o \in Nat /\ o + (a - o) = a /\ Takes(reader, flags, a - o, a - o)
        /\ a - o <= Len(e) - o
    BY <1>1, <1>2, <1>5, DigitsTake, ZenonT(30)
  <1>8. ValueAt("GET_FLAGS", Last(rs.retrieval), o + (a - o), n, a, b, c)
    BY <1>6 DEF ValueAt
  <1>9. QED
    BY <1>1, <1>3, <1>6, <1>8, TurnValue

=============================================================================
