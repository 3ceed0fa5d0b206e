----------------------- MODULE KetamaSelector_proofs -----------------------
(***************************************************************************)
(* The selection of a server, for rings of any size and any hashing: a     *)
(* walk ends with the first live server clockwise, connects no dead server *)
(* twice in a back-off, and keys belong to the nearest alias.              *)
(***************************************************************************)
EXTENDS KetamaSelector, SequenceLemmas, FiniteSetTheorems, SequenceTheorems,
        TLAPS

Servers == UNION {ToSet(pool) : pool \in Pools}
Point(n) == [hash : Hashes, conn : 1 .. n]
Walks == [stage : {"idle", "origin", "walking", "chosen"}, hash : Hashes,
          check : BOOLEAN, it : Nat, left : Nat, choice : Nat]

StateTypes ==
    /\ md5 \in Hashings /\ servers \in Seq(Servers) /\ useFailover \in BOOLEAN
    /\ alive \in [Conns -> BOOLEAN]
    /\ backoff \in [Conns -> 0 .. RetryTimeout]
    /\ walk \in Walks
    /\ tried \in [Conns -> Nat] /\ waited \in Nat

InOrder ==
    /\ continuum \in Seq(Point(Len(servers)))
    /\ \A i, j \in 1 .. Len(continuum) :
         i < j => continuum[i].hash <= continuum[j].hash

\* The point of a ring of n servers that h falls on, the j-th clockwise from
\* it, and the server of that of the key.
Start(ring, n, h) ==
    LET i == SelectInSeq(ring, LAMBDA p : p.hash >= h)
    IN  IF n = 1 \/ i = 0 THEN 1 ELSE i

At(ring, n, h, j) ==
    LET i == Start(ring, n, h) + j - 1
    IN  IF i <= Len(ring) THEN i ELSE i - Len(ring)

ServerAt(j) == continuum[At(continuum, Len(servers), walk.hash, j)].conn

WalkState ==
    /\ walk.choice \in Conns \cup {None} /\ walk.left \in 0 .. Len(continuum)
    /\ walk.stage # "chosen" => walk.choice = None
    /\ walk.stage \in {"origin", "walking"} => continuum # <<>>
    /\ walk.stage \in {"idle", "origin"} => walk.left = 0

\* The servers that the walk has passed are dead.
Passed ==
    walk.stage = "walking" =>
      /\ useFailover /\ walk.check /\ walk.left > 0
      /\ walk.it = At(continuum, Len(servers), walk.hash,
                      Len(continuum) - walk.left + 1)
      /\ \A j \in 1 .. Len(continuum) - walk.left + 1 :
           ~alive[ServerAt(j)]

Live == {c \in Conns : alive[c] /\ (useFailover \/ c = ServerAt(1))}

\* The choice is the first that is live, if one is.
FirstLive ==
    walk.stage = "chosen" /\ walk.check =>
      \/ /\ walk.choice = None
         /\ \A j \in 1 .. Len(continuum) : ServerAt(j) \notin Live
      \/ \E k \in 1 .. Len(continuum) :
           /\ walk.choice = ServerAt(k) /\ walk.choice \in Live
           /\ \A j \in 1 .. k - 1 : ServerAt(j) \notin Live

OwnerTaken ==
    walk.stage = "chosen" /\ ~walk.check /\ continuum # <<>> =>
      walk.choice = ServerAt(1)

\* A dead server waits for the rest of its back-off; one that lives was
\* tried once more than the time suffices for, at most.
Backoffs ==
    /\ Idle => waited = 0 /\ \A c \in Conns : tried[c] = 0
    /\ \A c \in Conns :
         RetryTimeout * tried[c]
           <= waited + IF alive[c] THEN RetryTimeout ELSE backoff[c]

IInv ==
    /\ StateTypes
    /\ InOrder
    /\ WalkState
    /\ Passed
    /\ FirstLive
    /\ OwnerTaken
    /\ Backoffs

-----------------------------------------------------------------------------
(* What the operators give.                                                *)

\* The first point of a list whose server is in a set.
LEMMA FirstIn ==
  ASSUME NEW s, Len(s) \in Nat, NEW T
  PROVE  LET i == SelectInSeq(s, LAMBDA p : p.conn \in T)
         IN  \/ i = 0 /\ \A j \in 1 .. Len(s) : s[j].conn \notin T
             \/ /\ i \in 1 .. Len(s) /\ s[i].conn \in T
                /\ \A j \in 1 .. i - 1 : s[j].conn \notin T
  <1> DEFINE I == {i \in 1 .. Len(s) : s[i].conn \in T}
             first == SelectInSeq(s, LAMBDA p : p.conn \in T)
  <1>1. first = IF I # {} THEN Min(I) ELSE 0
    BY DEF SelectInSeq
  <1>2. I \in SUBSET Nat
    OBVIOUS
  <1>3. CASE I = {}
    BY <1>1, <1>3
  <1>4. CASE I # {}
    <2>1. Min(I) \in I /\ \A k \in I : Min(I) <= k
      BY <1>2, <1>4, Least
    <2>2. \A j \in 1 .. Min(I) - 1 : j \in 1 .. Len(s) /\ ~ (Min(I) <= j)
      BY <2>1
    <2>3. \A j \in 1 .. Min(I) - 1 : s[j].conn \notin T
      BY <2>1, <2>2
    <2>4. QED
      BY <1>1, <1>4, <2>1, <2>3
  <1>5. QED
    BY <1>3, <1>4

\* lower_bound: the first point that is not before h, or else the first.
LEMMA LowerBoundFacts ==
  ASSUME InOrder, continuum # <<>>, NEW h \in Hashes
  PROVE  /\ LowerBound(h) \in 1 .. Len(continuum)
         /\ Len(servers) # 1 =>
              \/ /\ continuum[LowerBound(h)].hash >= h
                 /\ \A j \in 1 .. LowerBound(h) - 1 : continuum[j].hash < h
              \/ /\ LowerBound(h) = 1
                 /\ \A j \in 1 .. Len(continuum) : continuum[j].hash < h
  <1> DEFINE I == {i \in 1 .. Len(continuum) : continuum[i].hash >= h}
             first == IF I # {} THEN Min(I) ELSE 0
  <1>1. SelectInSeq(continuum, LAMBDA p : p.hash >= h) = first
    BY DEF SelectInSeq
  <1>2. LowerBound(h) = IF Len(servers) = 1 \/ first = 0 THEN 1 ELSE first
    BY <1>1 DEF LowerBound
  <1>3. Len(continuum) \in Nat \ {0} /\ I \in SUBSET Nat
    BY DEF InOrder
  <1>4. \A i \in 1 .. Len(continuum) : continuum[i].hash \in Int /\ h \in Int
    <2>1. \A i \in 1 .. Len(continuum) : continuum[i] \in Point(Len(servers))
      BY ElementOfSeq DEF InOrder
    <2>2. QED
      BY <2>1, KetamaSelectorAssumption DEF Point, Hashes
  <1>5. CASE I = {}
    <2>1. \A j \in 1 .. Len(continuum) : ~ (continuum[j].hash >= h)
      BY <1>5
    <2>2. QED
      BY <1>2, <1>3, <1>4, <1>5, <2>1
  <1>6. CASE I # {}
    <2>1. Min(I) \in I /\ \A k \in I : Min(I) <= k
      BY <1>3, <1>6, Least
    <2>2. \A j \in 1 .. Min(I) - 1 : j \in 1 .. Len(continuum) /\ j \notin I
      BY <1>3, <2>1
    <2>3. \A j \in 1 .. Min(I) - 1 : continuum[j].hash < h
      BY <1>4, <2>2
    <2> DEFINE m == Min(I)
    <2>4. m \in 1 .. Len(continuum) /\ continuum[m].hash >= h
      BY <2>1
    <2>5. LowerBound(h) = IF Len(servers) = 1 THEN 1 ELSE m
      BY <1>2, <1>6, <2>4
    <2> HIDE DEF m, I
    <2>6. QED
      BY <1>3, <2>3, <2>4, <2>5 DEF m
  <1>7. QED
    BY <1>5, <1>6

LEMMA Turned ==
  ASSUME NEW S, NEW s \in Seq(S), NEW b \in 1 .. Len(s)
  PROVE  LET r == SubSeq(s, b, Len(s)) \o SubSeq(s, 1, b - 1)
         IN  /\ r \in Seq(S) /\ Len(r) = Len(s)
             /\ \A j \in 1 .. Len(s) :
                  r[j] = s[IF b + j - 1 <= Len(s) THEN b + j - 1
                                                  ELSE b + j - 1 - Len(s)]
  <1> DEFINE u == SubSeq(s, b, Len(s))
             v == SubSeq(s, 1, b - 1)
  <1>1. /\ u \in Seq(S) /\ Len(u) = Len(s) - b + 1
        /\ \A j \in 1 .. Len(s) - b + 1 : u[j] = s[b + j - 1]
    OBVIOUS
  <1>2. /\ v \in Seq(S) /\ Len(v) = b - 1
        /\ \A j \in 1 .. b - 1 : v[j] = s[j]
    OBVIOUS
  <1> HIDE DEF u, v
  <1>3. /\ u \o v \in Seq(S) /\ Len(u \o v) = Len(u) + Len(v)
        /\ \A j \in 1 .. Len(u) + Len(v) :
             (u \o v)[j] = IF j <= Len(u) THEN u[j] ELSE v[j - Len(u)]
    BY <1>1, <1>2, ConcatProperties
  <1>4. Len(s) \in Nat /\ Len(u) + Len(v) = Len(s)
    BY <1>1, <1>2
  <1>5. ASSUME NEW j \in 1 .. Len(s)
        PROVE  (u \o v)[j] = s[IF b + j - 1 <= Len(s) THEN b + j - 1
                                                      ELSE b + j - 1 - Len(s)]
    <2>1. CASE b + j - 1 <= Len(s)
      <3>1. j \in 1 .. Len(s) - b + 1 /\ j <= Len(u)
        BY <1>1, <1>4, <2>1
      <3>2. QED
        BY <1>1, <1>3, <1>4, <2>1, <3>1
    <2>2. CASE ~ (b + j - 1 <= Len(s))
      <3>1. /\ j - Len(u) \in 1 .. b - 1 /\ ~ (j <= Len(u))
            /\ j - Len(u) = b + j - 1 - Len(s)
        BY <1>1, <1>4, <2>2
      <3>2. QED
        BY <1>2, <1>3, <1>4, <2>2, <3>1
    <2>3. QED
      BY <2>1, <2>2
  <1>6. QED
    BY <1>3, <1>4, <1>5 DEF u, v

LEMMA StartIs ==
  \A h : LowerBound(h) = Start(continuum, Len(servers), h)
  BY DEF LowerBound, Start

\* Round goes once round the ring.
LEMMA RoundFacts ==
  ASSUME InOrder, continuum # <<>>, walk.hash \in Hashes
  PROVE  /\ Len(Round(walk.hash)) = Len(continuum)
         /\ \A j \in 1 .. Len(continuum) :
              /\ At(continuum, Len(servers), walk.hash, j) \in 1 .. Len(continuum)
              /\ Round(walk.hash)[j].conn = ServerAt(j)
              /\ ServerAt(j) \in Conns
         /\ ServerAt(1) = Owner
  <1> DEFINE b == LowerBound(walk.hash)
  <1>1. /\ b \in 1 .. Len(continuum) /\ Len(continuum) \in Nat \ {0}
        /\ continuum \in Seq(Point(Len(servers)))
    BY LowerBoundFacts DEF InOrder
  <1>2. b = Start(continuum, Len(servers), walk.hash)
    BY StartIs
  <1>3. Round(walk.hash) = SubSeq(continuum, b, Len(continuum))
                             \o SubSeq(continuum, 1, b - 1)
    BY DEF Round
  <1>4. Owner = continuum[b].conn
    BY DEF Owner
  <1> HIDE DEF b
  <1>5. ASSUME NEW j \in 1 .. Len(continuum)
        PROVE  /\ At(continuum, Len(servers), walk.hash, j)
                     = IF b + j - 1 <= Len(continuum)
                         THEN b + j - 1 ELSE b + j - 1 - Len(continuum)
               /\ At(continuum, Len(servers), walk.hash, j)
                     \in 1 .. Len(continuum)
    BY <1>1, <1>2 DEF At
  <1>6. \A i \in 1 .. Len(continuum) : continuum[i].conn \in Conns
    <2>1. \A i \in 1 .. Len(continuum) : continuum[i] \in Point(Len(servers))
      BY ElementOfSeq DEF InOrder
    <2>2. QED
      BY <2>1 DEF Point, Conns
  <1>7. LET r == SubSeq(continuum, b, Len(continuum))
                   \o SubSeq(continuum, 1, b - 1)
        IN  /\ Len(r) = Len(continuum)
            /\ \A j \in 1 .. Len(continuum) :
                 r[j] = continuum[IF b + j - 1 <= Len(continuum)
                                    THEN b + j - 1
                                    ELSE b + j - 1 - Len(continuum)]
    BY <1>1, Turned
  <1>8. /\ Len(Round(walk.hash)) = Len(continuum)
        /\ \A j \in 1 .. Len(continuum) :
             Round(walk.hash)[j]
               = continuum[At(continuum, Len(servers), walk.hash, j)]
    BY ONLY <1>3, <1>5, <1>7
  <1>9. ServerAt(1) = Owner
    <2>1. At(continuum, Len(servers), walk.hash, 1) = b
      BY <1>1, <1>2 DEF At
    <2>2. QED
      BY <1>4, <2>1 DEF ServerAt
  <1>10. QED
    BY <1>5, <1>6, <1>8, <1>9 DEF ServerAt

-----------------------------------------------------------------------------
(* The rings.                                                              *)

LEMMA PoolFacts ==
  ASSUME NEW pool \in Pools
  PROVE  /\ pool \in Seq(Servers) /\ Len(pool) \in Nat
         /\ DOMAIN pool = 1 .. Len(pool)
         /\ \A c \in 1 .. Len(pool) : pool[c] \in Servers
  <1>1. ToSet(pool) \subseteq Servers
    BY DEF Servers
  <1>2. pool \in Seq(ToSet(pool))
    BY PoolsAssumption
  <1>3. pool \in Seq(Servers)
    BY <1>1, <1>2
  <1>4. QED
    BY <1>3, ElementOfSeq

LEMMA PointsFinite ==
  ASSUME NEW f \in Hashings, NEW pool \in Pools
  PROVE  /\ Points(f, pool) \subseteq Point(Len(pool))
         /\ IsFiniteSet(Points(f, pool))
  <1> DEFINE pairs == Hashes \X (1 .. Len(pool))
             P == Point(Len(pool))
             named == [x \in pairs |-> [hash |-> x[1], conn |-> x[2]]]
  <1>1. IsFiniteSet(pairs)
    <2>1. HashMod - 1 \in Int /\ Len(pool) \in Int
      BY PoolFacts, KetamaSelectorAssumption
    <2>2. IsFiniteSet(Hashes) /\ IsFiniteSet(1 .. Len(pool))
      BY <2>1, FS_Interval DEF Hashes
    <2>3. QED
      BY <2>2, FS_Product
  <1>2. named \in Surjection(pairs, P)
    <2>1. named \in [pairs -> P]
      BY DEF Point
    <2>2. ASSUME NEW p \in P
          PROVE  \E x \in pairs : named[x] = p
      <3>1. <<p.hash, p.conn>> \in pairs
        BY DEF Point
      <3>2. named[<<p.hash, p.conn>>] = p
        BY <3>1 DEF Point
      <3>3. QED
        BY <3>1, <3>2
    <2>3. QED
      BY <2>1, <2>2 DEF Surjection
  <1>3. IsFiniteSet(P)
    BY <1>1, <1>2, FS_Surjection
  <1>4. Points(f, pool) \subseteq P
    <2>1. ASSUME NEW c \in DOMAIN pool, NEW h \in f[HashName(pool[c])]
          PROVE  [hash |-> h, conn |-> c] \in P
      <3>1. HashName(pool[c]) \in DOMAIN f
        BY PoolsAssumption
      <3>2. h \in Hashes
        BY <3>1, KetamaSelectorAssumption DEF Hashes
      <3>3. QED
        BY <3>2, PoolFacts DEF Point
    <2>2. QED
      BY <2>1 DEF Points
  <1>5. QED
    BY <1>3, <1>4, FS_Subset

\* A sorted ring has the points it was sorted from.
LEMMA SortedRing ==
  ASSUME NEW f \in Hashings, NEW pool \in Pools,
         NEW ring \in Sorted(Points(f, pool))
  PROVE  /\ ring \in Seq(Point(Len(pool)))
         /\ \A i, j \in 1 .. Len(ring) : i < j => ring[i].hash <= ring[j].hash
         /\ \A p : p \in Points(f, pool) <=> \E i \in 1 .. Len(ring) : ring[i] = p
  <1> DEFINE points == Points(f, pool)
             n == Cardinality(points)
  <1>1. n \in Nat /\ points \subseteq Point(Len(pool))
    BY PointsFinite, FS_CardinalityType
  <1>2. ring \in Bijection(1 .. n, points)
        /\ \A i, j \in DOMAIN ring : i < j => ring[i].hash <= ring[j].hash
    BY DEF Sorted
  <1>3. ring \in [1 .. n -> points]
        /\ \A p \in points : \E i \in 1 .. n : ring[i] = p
    BY <1>2 DEF Bijection, Injection, Surjection
  <1> HIDE DEF n, points
  <1>4. ring \in Seq(points) /\ Len(ring) = n /\ DOMAIN ring = 1 .. n
    BY <1>1, <1>3
  <1>5. ring \in Seq(Point(Len(pool)))
    BY <1>1, <1>4
  <1>6. \A i \in 1 .. Len(ring) : ring[i] \in points
    BY <1>3, <1>4
  <1>7. QED
    BY <1>2, <1>3, <1>4, <1>5, <1>6 DEF points

-----------------------------------------------------------------------------
(* The steps.                                                              *)

LEMMA InitInvariant == Init => IInv
  <1> SUFFICES ASSUME Init PROVE IInv
    OBVIOUS
  <1>1. /\ md5 \in Hashings /\ servers = <<>> /\ continuum = <<>>
        /\ useFailover = FALSE /\ alive = <<>> /\ backoff = <<>>
        /\ walk.stage = "idle" /\ walk.choice = None /\ walk.left = 0
        /\ walk \in Walks /\ tried = <<>> /\ waited = 0
    BY KetamaSelectorAssumption DEF Init, NotWalking, Walks, Hashes, None
  <1>2. Conns = {} /\ Len(servers) = 0 /\ Len(continuum) = 0
    BY <1>1 DEF Conns
  <1>3. \A S : <<>> \in [{} -> S] /\ <<>> \in Seq(S)
    OBVIOUS
  <1>4. StateTypes
    BY <1>1, <1>2, <1>3 DEF StateTypes
  <1>5. InOrder
    BY <1>1, <1>2, <1>3 DEF InOrder
  <1>6. WalkState /\ Passed /\ FirstLive /\ OwnerTaken
    BY <1>1, <1>2 DEF WalkState, Passed, FirstLive, OwnerTaken
  <1>7. Backoffs
    BY <1>1, <1>2 DEF Backoffs, Idle
  <1>8. QED
    BY <1>4, <1>5, <1>6, <1>7 DEF IInv

LEMMA InitPoolInvariant ==
  ASSUME IInv, NEW pool \in Pools, InitPool(pool)
  PROVE  IInv'
  <1>1. /\ walk.stage = "idle" /\ walk' = walk /\ waited' = waited
        /\ md5' = md5 /\ useFailover' = useFailover
        /\ servers' = pool
        /\ alive' = [c \in DOMAIN pool |-> FALSE]
        /\ backoff' = [c \in DOMAIN pool |-> 0]
        /\ tried' = [c \in DOMAIN pool |-> 0]
    BY DEF InitPool, Idle
  <1>2. continuum' \in Sorted(Points(md5, pool))
    BY DEF InitPool, Rings
  <1>3. /\ pool \in Seq(Servers) /\ Len(pool) \in Nat
        /\ DOMAIN pool = Conns'
    BY <1>1, PoolFacts DEF Conns
  <1>4. /\ walk.left = 0 /\ walk.choice = None /\ waited = 0
        /\ md5 \in Hashings
    BY <1>1 DEF IInv, WalkState, Backoffs, Idle, StateTypes
  <1>5. StateTypes'
    BY <1>1, <1>3, KetamaSelectorAssumption DEF IInv, StateTypes
  <1>6. InOrder'
    BY <1>1, <1>2, <1>4, SortedRing DEF InOrder
  <1>7. WalkState'
    <2>1. Len(continuum') \in Nat
      BY <1>6 DEF InOrder
    <2>2. QED
      BY <1>1, <1>4, <2>1 DEF WalkState
  <1>8. Passed' /\ FirstLive' /\ OwnerTaken'
    BY <1>1 DEF Passed, FirstLive, OwnerTaken
  <1>9. Backoffs'
    <2>1. /\ \A c \in Conns' : tried'[c] = 0 /\ alive'[c] = FALSE
                              /\ backoff'[c] = 0
          /\ waited' = 0 /\ RetryTimeout * 0 = 0
      BY <1>1, <1>3, <1>4, KetamaSelectorAssumption
    <2>2. QED
      BY <2>1 DEF Backoffs
  <1>10. QED
    BY <1>5, <1>6, <1>7, <1>8, <1>9 DEF IInv

\* Between selections nothing depends on the walk.
LEMMA IdleRest ==
  ASSUME IInv, Idle, walk' = walk, InOrder',
         UNCHANGED <<continuum, waited, tried>>, Len(servers') = Len(servers)
  PROVE  /\ WalkState' /\ Passed' /\ FirstLive' /\ OwnerTaken'
         /\ Conns' = Conns /\ waited = 0 /\ \A c \in Conns : tried[c] = 0
         /\ (\A c \in Conns : backoff'[c] \in Nat) => Backoffs'
  <1>1. Conns' = Conns /\ waited = 0 /\ \A c \in Conns : tried[c] = 0
    BY DEF Conns, IInv, Backoffs
  <1>2. WalkState' /\ Passed' /\ FirstLive' /\ OwnerTaken'
    BY <1>1 DEF IInv, WalkState, Passed, FirstLive, OwnerTaken, Idle
  <1>3. ASSUME \A c \in Conns : backoff'[c] \in Nat
        PROVE  Backoffs'
    <2>1. RetryTimeout * 0 = 0 /\ RetryTimeout \in Nat
      BY KetamaSelectorAssumption
    <2>2. QED
      BY <1>1, <1>3, <2>1 DEF Backoffs
  <1>4. QED
    BY <1>1, <1>2, <1>3

LEMMA UpdateServersInvariant ==
  ASSUME IInv, NEW pool \in Pools, UpdateServers(pool)
  PROVE  IInv'
  <1>1. /\ Idle /\ Len(pool) = Len(servers)
        /\ servers' = [c \in Conns |-> IF pool[c].host = servers[c].host
                                         THEN servers[c] ELSE pool[c]]
        /\ alive' = [c \in Conns |->
                       alive[c] /\ pool[c].host = servers[c].host]
        /\ backoff' = [c \in Conns |-> IF alive[c] THEN 0 ELSE backoff[c]]
        /\ UNCHANGED <<md5, continuum, useFailover, walk, tried, waited>>
    BY DEF UpdateServers
  <1>2. servers' \in Seq(Servers) /\ Len(servers') = Len(servers)
    <2>1. Len(servers) \in Nat /\ \A c \in Conns : servers[c] \in Servers
      BY ElementOfSeq DEF IInv, StateTypes, Conns
    <2>2. \A c \in Conns : pool[c] \in Servers
      BY <1>1, PoolFacts DEF Conns
    <2>3. servers' \in [1 .. Len(servers) -> Servers]
      BY <1>1, <2>1, <2>2 DEF Conns
    <2>4. QED
      BY ONLY <2>1, <2>3
  <1>3. Conns' = Conns
    BY <1>2 DEF Conns
  <1>4. alive' \in [Conns -> BOOLEAN]
    BY <1>1 DEF IInv, StateTypes
  <1>5. backoff' \in [Conns -> 0 .. RetryTimeout]
    BY <1>1, KetamaSelectorAssumption DEF IInv, StateTypes
  <1>6. StateTypes'
    BY <1>1, <1>2, <1>3, <1>4, <1>5 DEF IInv, StateTypes
  <1>7. InOrder'
    BY <1>1, <1>2 DEF IInv, InOrder
  <1>8. \A c \in Conns : backoff'[c] \in Nat
    BY <1>5, KetamaSelectorAssumption
  <1>9. QED
    BY <1>1, <1>2, <1>6, <1>7, <1>8, IdleRest DEF IInv

LEMMA SetFailoverInvariant ==
  ASSUME IInv, SetFailover
  PROVE  IInv'
  <1>1. /\ Idle /\ useFailover' = ~useFailover
        /\ UNCHANGED <<md5, servers, continuum, alive, backoff, walk, tried,
                       waited>>
    BY DEF SetFailover
  <1>2. StateTypes' /\ InOrder'
    BY <1>1 DEF IInv, StateTypes, InOrder, Conns
  <1>3. \A c \in Conns : backoff'[c] \in Nat
    BY <1>1, KetamaSelectorAssumption DEF IInv, StateTypes
  <1>4. QED
    BY <1>1, <1>2, <1>3, IdleRest DEF IInv

LEMMA BreakInvariant ==
  ASSUME IInv, NEW c \in Conns, Break(c)
  PROVE  IInv'
  <1>1. /\ Idle
        /\ alive' = [alive EXCEPT ![c] = FALSE]
        /\ backoff' = [backoff EXCEPT ![c] = 0]
        /\ UNCHANGED <<md5, servers, continuum, useFailover, walk, tried,
                       waited>>
    BY DEF Break, poolVars
  <1>2. StateTypes' /\ InOrder'
    <2>1. alive' \in [Conns -> BOOLEAN]
      BY <1>1 DEF IInv, StateTypes
    <2>2. backoff' \in [Conns -> 0 .. RetryTimeout]
      BY <1>1, KetamaSelectorAssumption DEF IInv, StateTypes
    <2>3. QED
      BY <1>1, <2>1, <2>2 DEF IInv, StateTypes, InOrder, Conns
  <1>3. \A d \in Conns : backoff'[d] \in Nat
    BY <1>1, KetamaSelectorAssumption DEF IInv, StateTypes
  <1>4. QED
    BY <1>1, <1>2, <1>3, IdleRest DEF IInv

\* A second of a back-off passes, or it is over.
LEMMA LessBackoff ==
  ASSUME NEW b \in 0 .. RetryTimeout
  PROVE  /\ Max({0, b - 1}) \in 0 .. RetryTimeout
         /\ b <= Max({0, b - 1}) + 1
  <1>1. b \in Nat /\ RetryTimeout \in Nat /\ b <= RetryTimeout
    BY KetamaSelectorAssumption
  <1>2. \E x \in {0, b - 1} : \A y \in {0, b - 1} : x >= y
    BY <1>1
  <1>3. Max({0, b - 1}) \in {0, b - 1}
        /\ \A y \in {0, b - 1} : Max({0, b - 1}) >= y
    BY <1>2 DEF Max
  <1>4. QED
    BY <1>1, <1>3

LEMMA TickInvariant ==
  ASSUME IInv, Tick
  PROVE  IInv'
  <1>1. /\ backoff' = [c \in Conns |-> Max({0, backoff[c] - 1})]
        /\ waited' = IF Idle THEN waited ELSE waited + 1
        /\ UNCHANGED <<md5, servers, continuum, useFailover, alive, walk,
                       tried>>
    BY DEF Tick, poolVars
  <1>2. \A c \in Conns : /\ backoff[c] \in 0 .. RetryTimeout
                         /\ backoff'[c] \in 0 .. RetryTimeout
                         /\ backoff[c] <= backoff'[c] + 1
    BY <1>1, LessBackoff DEF IInv, StateTypes
  <1>3. StateTypes'
    <2>1. backoff' \in [Conns -> 0 .. RetryTimeout]
      BY <1>1, <1>2
    <2>2. waited' \in Nat
      BY <1>1 DEF IInv, StateTypes
    <2>3. QED
      BY <1>1, <2>1, <2>2 DEF IInv, StateTypes, Conns
  <1>4. InOrder'
    BY <1>1 DEF IInv, InOrder
  <1>5. CASE Idle
    <2>1. \A c \in Conns : backoff'[c] \in Nat
      BY <1>2, KetamaSelectorAssumption
    <2>2. QED
      BY <1>1, <1>3, <1>4, <1>5, <2>1, IdleRest DEF IInv
  <1>6. CASE ~Idle
    <2>1. WalkState' /\ OwnerTaken' /\ Passed'
      BY <1>1 DEF IInv, WalkState, OwnerTaken, Passed, ServerAt, Conns
    <2>2. FirstLive'
      <3>1. Live' = Live
        BY <1>1 DEF ServerAt, Conns, Live
      <3>2. QED
        BY <1>1, <3>1 DEF IInv, FirstLive, ServerAt
    <2>3. Backoffs'
      <3>1. ASSUME NEW c \in Conns
            PROVE  RetryTimeout * tried'[c]
                     <= waited' + IF alive'[c] THEN RetryTimeout ELSE backoff'[c]
        <4>1. /\ RetryTimeout * tried[c]
                   <= waited + IF alive[c] THEN RetryTimeout ELSE backoff[c]
              /\ RetryTimeout * tried[c] \in Int
              /\ waited \in Nat /\ RetryTimeout \in Nat
              /\ backoff[c] \in Nat /\ backoff'[c] \in Nat
              /\ backoff[c] <= backoff'[c] + 1
          BY <1>2, KetamaSelectorAssumption DEF IInv, StateTypes, Backoffs
        <4>2. waited' = waited + 1 /\ tried' = tried /\ alive' = alive
          BY <1>1, <1>6
        <4>3. QED
          BY <4>1, <4>2
      <3>2. Conns' = Conns /\ ~Idle'
        BY <1>1, <1>6 DEF Conns, Idle
      <3>3. QED
        BY <3>1, <3>2 DEF Backoffs
    <2>4. QED
      BY <1>3, <1>4, <2>1, <2>2, <2>3 DEF IInv
  <1>7. QED
    BY <1>5, <1>6

-----------------------------------------------------------------------------
(* The selection.                                                          *)

\* While a server is selected the ring stays, and so do the places on it.
LEMMA SameRing ==
  ASSUME UNCHANGED <<servers, continuum>>, walk'.hash = walk.hash
  PROVE  Conns' = Conns /\ \A j : ServerAt(j)' = ServerAt(j)
  BY DEF Conns, ServerAt

\* tryReconnect leaves a connection alive or not; it connects once, and does
\* not take another connection down.
LEMMA TryReconnectFacts ==
  ASSUME StateTypes, Backoffs, NEW c \in Conns, NEW up \in BOOLEAN,
         TryReconnect(c, up), waited' = waited, Conns' = Conns, ~Idle'
  PROVE  /\ alive' \in [Conns -> BOOLEAN] /\ alive'[c] = up
         /\ backoff' \in [Conns -> 0 .. RetryTimeout]
         /\ tried' \in [Conns -> Nat]
         /\ ~up => alive' = alive
         /\ \A d \in Conns \ {c} : alive'[d] = alive[d]
         /\ Backoffs'
  <1>1. \/ alive[c] /\ up /\ UNCHANGED <<alive, backoff, tried>>
        \/ ~alive[c] /\ ~up /\ UNCHANGED <<alive, backoff, tried>>
        \/ /\ ~alive[c] /\ backoff[c] = 0
           /\ alive' = [alive EXCEPT ![c] = up]
           /\ backoff' = [backoff EXCEPT ![c] = IF up THEN 0 ELSE RetryTimeout]
           /\ tried' = [tried EXCEPT ![c] = tried[c] + 1]
    BY DEF TryReconnect
  <1>2. RetryTimeout \in Nat /\ waited \in Nat
    BY KetamaSelectorAssumption DEF StateTypes
  <1>3. CASE UNCHANGED <<alive, backoff, tried>>
    <2>1. Backoffs'
      BY <1>3 DEF Backoffs
    <2>2. alive[c] = up
      BY <1>1, <1>3 DEF StateTypes
    <2>3. QED
      BY <1>3, <2>1, <2>2 DEF StateTypes
  <1>4. CASE /\ ~alive[c] /\ backoff[c] = 0
             /\ alive' = [alive EXCEPT ![c] = up]
             /\ backoff' = [backoff EXCEPT ![c] = IF up THEN 0 ELSE RetryTimeout]
             /\ tried' = [tried EXCEPT ![c] = tried[c] + 1]
    <2>1. alive' \in [Conns -> BOOLEAN] /\ alive'[c] = up
          /\ \A d \in Conns \ {c} : alive'[d] = alive[d]
      BY <1>4 DEF StateTypes
    <2>2. /\ backoff' \in [Conns -> 0 .. RetryTimeout]
          /\ backoff'[c] = (IF up THEN 0 ELSE RetryTimeout)
          /\ \A d \in Conns \ {c} : backoff'[d] = backoff[d]
      BY <1>2, <1>4 DEF StateTypes
    <2>3. tried' \in [Conns -> Nat] /\ tried'[c] = tried[c] + 1
          /\ tried[c] \in Nat
          /\ \A d \in Conns \ {c} : tried'[d] = tried[d]
      BY <1>4 DEF StateTypes
    <2>4. ~up => alive' = alive
      BY <1>4 DEF StateTypes
    <2>5. RetryTimeout * tried'[c] <= waited' + RetryTimeout
      <3>1. RetryTimeout * tried[c] <= waited
        BY <1>2, <1>4 DEF Backoffs
      <3>2. RetryTimeout * (tried[c] + 1) = RetryTimeout * tried[c] + RetryTimeout
        BY <1>2, <2>3
      <3>3. RetryTimeout * tried[c] \in Nat
        BY <1>2, <2>3
      <3>4. QED
        BY <1>2, <2>3, <3>1, <3>2, <3>3
    <2>6. Backoffs'
      BY <1>4, <2>1, <2>2, <2>3, <2>5 DEF Backoffs
    <2>7. QED
      BY <2>1, <2>2, <2>3, <2>4, <2>6
  <1>5. QED
    BY <1>1, <1>3, <1>4

LEMMA AskInvariant ==
  ASSUME IInv, NEW h \in Hashes, NEW check \in BOOLEAN, Ask(h, check)
  PROVE  IInv'
  <1>1. /\ walk' = [NotWalking EXCEPT !.hash = h, !.check = check,
                      !.stage = IF continuum = <<>> THEN "chosen" ELSE "origin"]
        /\ UNCHANGED <<md5, servers, continuum, useFailover, alive, backoff,
                       tried, waited>>
    BY DEF Ask, poolVars
  <1>2. /\ walk' \in Walks /\ walk'.choice = None /\ walk'.left = 0
        /\ walk'.stage = IF continuum = <<>> THEN "chosen" ELSE "origin"
    BY <1>1 DEF NotWalking, Walks, None
  <1>3. StateTypes' /\ InOrder'
    BY <1>1, <1>2 DEF IInv, StateTypes, InOrder, Conns
  <1>4. WalkState'
    BY <1>1, <1>2 DEF IInv, WalkState
  <1>5. Passed'
    BY <1>2 DEF Passed
  <1>6. FirstLive' /\ OwnerTaken'
    <2>1. CASE continuum = <<>>
      <3>1. Len(continuum') = 0
        BY <1>1, <2>1
      <3>2. QED
        BY <1>1, <1>2, <2>1, <3>1 DEF FirstLive, OwnerTaken
    <2>2. CASE continuum # <<>>
      BY <1>2, <2>2 DEF FirstLive, OwnerTaken
    <2>3. QED
      BY <2>1, <2>2
  <1>7. Backoffs'
    <2>1. Conns' = Conns /\ ~Idle'
      BY <1>1, <1>2 DEF Conns, Idle
    <2>2. QED
      BY <1>1, <2>1 DEF IInv, Backoffs
  <1>8. QED
    BY <1>3, <1>4, <1>5, <1>6, <1>7 DEF IInv

LEMMA TakeOwnerInvariant ==
  ASSUME IInv, TakeOwner
  PROVE  IInv'
  <1>1. /\ walk.stage = "origin" /\ ~walk.check
        /\ walk' = [walk EXCEPT !.stage = "chosen", !.choice = Owner]
        /\ UNCHANGED <<md5, servers, continuum, useFailover, alive, backoff,
                       tried, waited>>
    BY DEF TakeOwner, Return, poolVars
  <1>2. /\ walk \in Walks /\ continuum # <<>> /\ walk.hash \in Hashes
        /\ Len(continuum) \in Nat \ {0}
    BY <1>1 DEF IInv, StateTypes, WalkState, Walks, InOrder
  <1>3. Owner = ServerAt(1) /\ Owner \in Conns
    BY <1>2, RoundFacts DEF IInv
  <1>4. /\ walk' \in Walks /\ walk'.stage = "chosen" /\ walk'.choice = Owner
        /\ walk'.check = walk.check /\ walk'.hash = walk.hash
        /\ walk'.left = walk.left
    <2>1. Owner \in Nat
      BY <1>3 DEF Conns
    <2>2. QED
      BY <1>1, <1>2, <2>1 DEF Walks
  <1>5. Conns' = Conns /\ ServerAt(1)' = ServerAt(1)
    BY <1>1, <1>4, SameRing
  <1>6. StateTypes' /\ InOrder'
    BY <1>1, <1>4, <1>5 DEF IInv, StateTypes, InOrder
  <1>7. WalkState'
    BY <1>1, <1>3, <1>4, <1>5 DEF IInv, WalkState
  <1>8. Passed' /\ FirstLive' /\ OwnerTaken'
    BY <1>1, <1>3, <1>4, <1>5 DEF Passed, FirstLive, OwnerTaken
  <1>9. Backoffs'
    BY <1>1, <1>4, <1>5 DEF IInv, Backoffs, Idle
  <1>10. QED
    BY <1>6, <1>7, <1>8, <1>9 DEF IInv

\* The k-th point clockwise has the first place of its server, or an earlier
\* point has.
LEMMA FirstPlace ==
  ASSUME NEW k \in Nat \ {0}
  PROVE  \E m \in 1 .. k : /\ ServerAt(m) = ServerAt(k)
                           /\ \A j \in 1 .. m - 1 : ServerAt(j) # ServerAt(k)
  <1> DEFINE same == {j \in 1 .. k : ServerAt(j) = ServerAt(k)}
  <1>1. k \in same /\ same \in SUBSET Nat
    OBVIOUS
  <1>2. Min(same) \in same /\ \A j \in same : Min(same) <= j
    BY <1>1, Least
  <1>3. \A j \in 1 .. Min(same) - 1 : j \in 1 .. k /\ ~ (Min(same) <= j)
    BY <1>2
  <1>4. QED
    BY <1>2, <1>3

\* A server that is found alive is the first: all that were passed are dead.
LEMMA UpIsFirst ==
  ASSUME NEW k \in Nat \ {0}, k <= Len(continuum), Len(continuum) \in Nat,
         \A j \in 1 .. k - 1 : ~alive[ServerAt(j)] /\ ServerAt(j) \in Conns,
         \A d \in Conns \ {ServerAt(k)} : alive'[d] = alive[d],
         alive'[ServerAt(k)], ServerAt(k) \in Conns,
         UNCHANGED <<servers, continuum, useFailover>>,
         walk'.hash = walk.hash, walk'.choice = ServerAt(k),
         k = 1 \/ useFailover
  PROVE  FirstLive'
  <1>1. PICK m \in 1 .. k : /\ ServerAt(m) = ServerAt(k)
                            /\ \A j \in 1 .. m - 1 : ServerAt(j) # ServerAt(k)
    BY FirstPlace
  <1>2. Conns' = Conns /\ \A j : ServerAt(j)' = ServerAt(j)
    BY SameRing
  <1>3. ServerAt(k) \in Live'
    BY <1>2 DEF Live
  <1>4. ASSUME NEW j \in 1 .. m - 1
        PROVE  ServerAt(j) \notin Live'
    <2>1. j \in 1 .. k - 1 /\ ServerAt(j) # ServerAt(k)
      BY <1>1
    <2>2. ~alive'[ServerAt(j)]
      BY <2>1
    <2>3. QED
      BY <2>2 DEF Live
  <1>5. m \in 1 .. Len(continuum')
    OBVIOUS
  <1>6. QED
    BY <1>1, <1>2, <1>3, <1>4, <1>5 DEF FirstLive

\* The server of the first point is tried.
LEMMA TryOwnerInvariant ==
  ASSUME IInv, TryOwner
  PROVE  IInv'
  <1>1. PICK up \in BOOLEAN :
          /\ walk.stage = "origin" /\ walk.check
          /\ TryReconnect(Owner, up)
          /\ walk' = IF up
                       THEN [walk EXCEPT !.stage = "chosen", !.choice = Owner]
                     ELSE IF useFailover
                       THEN [walk EXCEPT !.stage = "walking",
                               !.it = LowerBound(walk.hash),
                               !.left = Len(continuum)]
                     ELSE [walk EXCEPT !.stage = "chosen", !.choice = None]
          /\ UNCHANGED <<md5, servers, continuum, useFailover, waited>>
    BY DEF TryOwner, Return, poolVars
  <1>2. /\ walk \in Walks /\ continuum # <<>> /\ walk.hash \in Hashes
        /\ Len(continuum) \in Nat \ {0} /\ useFailover \in BOOLEAN
        /\ walk.left = 0 /\ walk.choice = None
    BY <1>1 DEF IInv, StateTypes, WalkState, Walks, InOrder
  <1>3. /\ Owner = ServerAt(1) /\ Owner \in Conns /\ Owner \in Nat
        /\ \A j \in 1 .. Len(continuum) : ServerAt(j) \in Conns
    BY <1>2, RoundFacts DEF IInv, Conns
  <1>4. LowerBound(walk.hash) \in 1 .. Len(continuum)
    BY <1>2, LowerBoundFacts DEF IInv
  <1>5. At(continuum, Len(servers), walk.hash, 1) = LowerBound(walk.hash)
    BY <1>2, <1>4, StartIs DEF At
  <1>6. /\ walk' \in Walks /\ walk'.hash = walk.hash /\ walk'.check
        /\ walk'.stage \in {"chosen", "walking"}
    <2>1. CASE up
      BY <1>1, <1>2, <1>3, <2>1 DEF Walks
    <2>2. CASE ~up /\ useFailover
      <3>1. walk' = [walk EXCEPT !.stage = "walking",
                       !.it = LowerBound(walk.hash), !.left = Len(continuum)]
        BY <1>1, <2>2
      <3>2. LowerBound(walk.hash) \in Nat /\ Len(continuum) \in Nat
        BY <1>2, <1>4
      <3>3. QED
        BY <1>1, <1>2, <3>1, <3>2 DEF Walks
    <2>3. CASE ~up /\ ~useFailover
      BY <1>1, <1>2, <2>3 DEF Walks, None
    <2>4. QED
      BY <1>2, <2>1, <2>2, <2>3
  <1>7. Conns' = Conns /\ \A j : ServerAt(j)' = ServerAt(j)
    BY <1>1, <1>6, SameRing
  <1>8. /\ alive' \in [Conns -> BOOLEAN] /\ alive'[Owner] = up
        /\ backoff' \in [Conns -> 0 .. RetryTimeout]
        /\ tried' \in [Conns -> Nat]
        /\ ~up => alive' = alive
        /\ \A d \in Conns \ {Owner} : alive'[d] = alive[d]
        /\ Backoffs'
    <2>1. ~Idle'
      BY <1>6 DEF Idle
    <2>2. QED
      BY <1>1, <1>3, <1>7, <2>1, TryReconnectFacts DEF IInv
  <1>9. StateTypes' /\ InOrder'
    BY <1>1, <1>6, <1>7, <1>8 DEF IInv, StateTypes, InOrder
  <1>10. CASE up
    <2>1. walk'.stage = "chosen" /\ walk'.choice = Owner /\ walk'.left = 0
      BY <1>1, <1>2, <1>10 DEF Walks
    <2>2. WalkState' /\ Passed' /\ OwnerTaken'
      BY <1>1, <1>2, <1>3, <1>6, <1>7, <2>1
      DEF WalkState, Passed, OwnerTaken
    <2>3. FirstLive'
      <3>1. /\ 1 \in Nat \ {0} /\ 1 <= Len(continuum)
            /\ Len(continuum) \in Nat /\ 1 .. 1 - 1 = {}
        BY <1>2
      <3>2. UNCHANGED <<servers, continuum, useFailover>>
        BY <1>1
      <3>3. /\ \A d \in Conns \ {ServerAt(1)} : alive'[d] = alive[d]
            /\ alive'[ServerAt(1)] /\ ServerAt(1) \in Conns
            /\ walk'.choice = ServerAt(1)
        BY <1>3, <1>8, <1>10, <2>1
      <3>4. QED
        BY ONLY <1>6, <3>1, <3>2, <3>3, UpIsFirst
    <2>4. QED
      BY <1>8, <1>9, <2>2, <2>3 DEF IInv
  <1>11. CASE ~up /\ useFailover
    <2>1. /\ walk'.stage = "walking" /\ walk'.left = Len(continuum)
          /\ walk'.it = LowerBound(walk.hash) /\ walk'.choice = None
      BY <1>1, <1>2, <1>11 DEF Walks
    <2>2. WalkState' /\ FirstLive' /\ OwnerTaken'
      BY <1>1, <1>2, <1>7, <2>1 DEF WalkState, FirstLive, OwnerTaken
    <2>3. Passed'
      <3>1. Len(continuum) - Len(continuum) + 1 = 1
        BY <1>2
      <3>2. ~alive'[ServerAt(1)]
        BY <1>3, <1>8, <1>11
      <3>3. \A j \in 1 .. 1 : ~alive'[ServerAt(j)']
        BY <1>7, <3>2
      <3>4. QED
        BY <1>1, <1>2, <1>5, <1>6, <1>11, <2>1, <3>1, <3>3 DEF Passed
    <2>4. QED
      BY <1>8, <1>9, <2>2, <2>3 DEF IInv
  <1>12. CASE ~up /\ ~useFailover
    <2>1. walk'.stage = "chosen" /\ walk'.choice = None /\ walk'.left = 0
      BY <1>1, <1>2, <1>12 DEF Walks
    <2>2. WalkState' /\ Passed' /\ OwnerTaken'
      BY <1>1, <1>2, <1>6, <1>7, <2>1 DEF WalkState, Passed, OwnerTaken
    <2>3. FirstLive'
      <3>1. Live' = {}
        BY <1>1, <1>3, <1>7, <1>8, <1>12 DEF Live
      <3>2. QED
        BY <2>1, <3>1 DEF FirstLive
    <2>4. QED
      BY <1>8, <1>9, <2>2, <2>3 DEF IInv
  <1>13. QED
    BY <1>2, <1>10, <1>11, <1>12

\* it goes round the ring.
LEMMA NextPlace ==
  ASSUME NEW ring, Len(ring) \in Nat \ {0}, NEW n, NEW h,
         Start(ring, n, h) \in 1 .. Len(ring), NEW k \in 1 .. Len(ring)
  PROVE  LET next == (At(ring, n, h, k) % Len(ring)) + 1
         IN  IF k < Len(ring) THEN next = At(ring, n, h, k + 1)
                              ELSE next = At(ring, n, h, 1)
  <1> DEFINE b == Start(ring, n, h)
             i == At(ring, n, h, k)
  <1>1. i = IF b + k - 1 <= Len(ring) THEN b + k - 1 ELSE b + k - 1 - Len(ring)
    BY DEF At
  <1>2. /\ At(ring, n, h, k + 1) = IF b + k <= Len(ring) THEN b + k
                                                        ELSE b + k - Len(ring)
        /\ At(ring, n, h, 1) = b
    BY DEF At
  <1> HIDE DEF b, i
  <1>3. i % Len(ring) = IF i = Len(ring) THEN 0 ELSE i
    <2>1. i \in 1 .. Len(ring)
      BY <1>1 DEF b
    <2>2. CASE i = Len(ring)
      BY <2>1, <2>2
    <2>3. CASE i # Len(ring)
      BY <2>1, <2>3
    <2>4. QED
      BY <2>2, <2>3
  <1>4. QED
    BY <1>1, <1>2, <1>3 DEF b, i

LEMMA UseInvariant ==
  ASSUME IInv, Use
  PROVE  IInv'
  <1>1. /\ walk' = NotWalking /\ waited' = 0
        /\ tried' = [c \in Conns |-> 0]
        /\ UNCHANGED <<md5, servers, continuum, useFailover, alive, backoff>>
    BY DEF Use, poolVars
  <1>2. /\ walk' \in Walks /\ walk'.stage = "idle" /\ walk'.choice = None
        /\ walk'.left = 0
    BY <1>1, KetamaSelectorAssumption DEF NotWalking, Walks, None, Hashes
  <1>3. Conns' = Conns
    BY <1>1 DEF Conns
  <1>4. StateTypes' /\ InOrder'
    BY <1>1, <1>2, <1>3 DEF IInv, StateTypes, InOrder
  <1>5. WalkState'
    <2>1. Len(continuum') \in Nat
      BY <1>4 DEF InOrder
    <2>2. QED
      BY <1>2, <2>1 DEF WalkState
  <1>6. Passed' /\ FirstLive' /\ OwnerTaken'
    BY <1>2 DEF Passed, FirstLive, OwnerTaken
  <1>7. Backoffs'
    <2>1. /\ waited' = 0 /\ RetryTimeout * 0 = 0 /\ RetryTimeout \in Nat
          /\ \A c \in Conns' : tried'[c] = 0 /\ backoff'[c] \in Nat
      BY <1>1, <1>3, KetamaSelectorAssumption DEF IInv, StateTypes
    <2>2. QED
      BY <2>1 DEF Backoffs
  <1>8. QED
    BY <1>4, <1>5, <1>6, <1>7 DEF IInv

\* The server of the next point is tried, if it is not the one of the first.
LEMMA WalkInvariant ==
  ASSUME IInv, Walk
  PROVE  IInv'
  <1> DEFINE len == Len(continuum)
             k == len - walk.left + 1
             next == (walk.it % len) + 1
             c == continuum[next].conn
  <1>1. /\ walk \in Walks /\ continuum # <<>> /\ walk.hash \in Hashes
        /\ len \in Nat \ {0} /\ useFailover = TRUE /\ walk.check
        /\ walk.left \in 1 .. len /\ k \in 1 .. len
        /\ walk.it = At(continuum, Len(servers), walk.hash, k)
        /\ \A j \in 1 .. k : ~alive[ServerAt(j)]
        /\ walk.choice = None /\ walk.stage = "walking"
    <2>1. walk.stage = "walking"
      BY DEF Walk
    <2>2. /\ walk \in Walks /\ continuum # <<>> /\ walk.hash \in Hashes
          /\ len \in Nat \ {0} /\ useFailover = TRUE
      BY <2>1 DEF IInv, StateTypes, WalkState, Walks, InOrder, Passed
    <2>3. walk.left \in 1 .. len
      BY <2>1, <2>2 DEF IInv, WalkState, Passed
    <2>4. k \in 1 .. len
      BY <2>2, <2>3
    <2>5. QED
      BY <2>1, <2>2, <2>3, <2>4 DEF IInv, WalkState, Passed
  <1>2. PICK up \in BOOLEAN :
          /\ IF c = Owner THEN ~up /\ UNCHANGED <<alive, backoff, tried>>
                          ELSE TryReconnect(c, up)
          /\ walk' = IF up THEN [walk EXCEPT !.stage = "chosen", !.choice = c]
                     ELSE IF walk.left = 1
                       THEN [walk EXCEPT !.stage = "chosen", !.choice = None]
                     ELSE [walk EXCEPT !.it = next, !.left = walk.left - 1]
          /\ UNCHANGED <<md5, servers, continuum, useFailover, waited>>
    BY DEF Walk, Return, poolVars
  <1>3. /\ Owner = ServerAt(1) /\ Owner \in Conns
        /\ \A j \in 1 .. len : ServerAt(j) \in Conns
        /\ LowerBound(walk.hash) \in 1 .. len
    <2>1. continuum # <<>> /\ walk.hash \in Hashes /\ InOrder /\ 1 \in 1 .. len
      BY <1>1 DEF IInv
    <2>2. LowerBound(walk.hash) \in 1 .. len
      BY <2>1, LowerBoundFacts
    <2>3. QED
      BY ONLY <2>1, <2>2, RoundFacts
  <1>4. next = IF k < len THEN At(continuum, Len(servers), walk.hash, k + 1)
                          ELSE At(continuum, Len(servers), walk.hash, 1)
    BY <1>1, <1>3, StartIs, NextPlace
  <1>5. c = IF k < len THEN ServerAt(k + 1) ELSE Owner
    BY <1>3, <1>4 DEF ServerAt
  <1>6. c \in Conns /\ c \in Nat /\ next \in Nat
    <2>1. c \in Conns
      <3>1. k < len => k + 1 \in 1 .. len
        BY <1>1
      <3>2. QED
        BY <1>3, <1>5, <3>1
    <2>2. next \in Nat
      <3>1. 1 \in 1 .. len /\ (k < len => k + 1 \in 1 .. len)
        BY <1>1
      <3>2. \A j \in 1 .. len :
              At(continuum, Len(servers), walk.hash, j) \in 1 .. len
        BY <1>1, RoundFacts DEF IInv
      <3>3. QED
        BY <1>4, <3>1, <3>2
    <2>3. QED
      BY <2>1, <2>2 DEF Conns
  <1> HIDE DEF c, next
  <1>7. /\ walk' \in Walks /\ walk'.hash = walk.hash /\ walk'.check
        /\ walk'.stage \in {"chosen", "walking"}
        /\ walk'.left \in 0 .. len
    <2>1. CASE up
      <3>1. walk' = [walk EXCEPT !.stage = "chosen", !.choice = c]
        BY <1>2, <2>1
      <3>2. walk.left \in 0 .. len
        BY <1>1
      <3>3. QED
        BY <1>1, <1>6, <3>1, <3>2 DEF Walks
    <2>2. CASE ~up /\ walk.left # 1
      <3>1. walk' = [walk EXCEPT !.it = next, !.left = walk.left - 1]
        BY <1>2, <2>2
      <3>2. walk.left - 1 \in Nat /\ walk.left - 1 \in 0 .. len
        BY <1>1
      <3>3. QED
        BY <1>1, <1>6, <3>1, <3>2 DEF Walks
    <2>3. CASE ~up /\ walk.left = 1
      <3>1. walk' = [walk EXCEPT !.stage = "chosen", !.choice = None]
        BY <1>2, <2>3
      <3>2. walk.left \in 0 .. len
        BY <1>1
      <3>3. QED
        BY <1>1, <3>1, <3>2 DEF Walks, None
    <2>4. QED
      BY <2>1, <2>2, <2>3
  <1>8. Conns' = Conns /\ \A j : ServerAt(j)' = ServerAt(j)
    BY <1>2, <1>7, SameRing
  <1>9. ~Idle'
    BY <1>7 DEF Idle
  <1>10. /\ alive' \in [Conns -> BOOLEAN] /\ alive'[c] = up
         /\ backoff' \in [Conns -> 0 .. RetryTimeout]
         /\ tried' \in [Conns -> Nat]
         /\ ~up => alive' = alive
         /\ \A d \in Conns \ {c} : alive'[d] = alive[d]
         /\ Backoffs'
    <2>1. CASE c = Owner
      <3>1. ~up /\ UNCHANGED <<alive, backoff, tried>>
        BY <1>2, <2>1
      <3>2. ~alive[c]
        BY <1>1, <1>3, <2>1
      <3>3. Backoffs'
        BY <1>2, <1>8, <1>9, <3>1 DEF IInv, Backoffs
      <3>4. alive[c] \in BOOLEAN
        BY <1>6 DEF IInv, StateTypes
      <3>5. QED
        BY <3>1, <3>2, <3>3, <3>4 DEF IInv, StateTypes
    <2>2. CASE c # Owner
      BY <1>2, <1>6, <1>8, <1>9, <2>2, TryReconnectFacts DEF IInv
    <2>3. QED
      BY <2>1, <2>2
  <1>11. StateTypes' /\ InOrder'
    BY <1>1, <1>2, <1>7, <1>8, <1>10 DEF IInv, StateTypes, InOrder
  <1>12. CASE up
    <2>1. walk'.stage = "chosen" /\ walk'.choice = c
      BY <1>1, <1>2, <1>12 DEF Walks
    <2>2. WalkState' /\ Passed' /\ OwnerTaken'
      BY <1>1, <1>2, <1>6, <1>7, <1>8, <2>1
      DEF WalkState, Passed, OwnerTaken
    <2>3. k < len /\ c = ServerAt(k + 1)
      BY <1>1, <1>2, <1>5, <1>12
    <2>4. FirstLive'
      <3> DEFINE m == k + 1
      <3>1. /\ m \in Nat \ {0} /\ m <= Len(continuum)
            /\ Len(continuum) \in Nat /\ 1 .. m - 1 \subseteq 1 .. len
            /\ 1 .. m - 1 = 1 .. k
        BY <1>1, <2>3
      <3>2. /\ UNCHANGED <<servers, continuum, useFailover>>
            /\ walk'.hash = walk.hash /\ useFailover
        BY <1>1, <1>2, <1>7
      <3>3. \A j \in 1 .. m - 1 :
              ~alive[ServerAt(j)] /\ ServerAt(j) \in Conns
        BY <1>1, <1>3, <3>1
      <3>4. /\ \A d \in Conns \ {ServerAt(m)} : alive'[d] = alive[d]
            /\ alive'[ServerAt(m)] /\ ServerAt(m) \in Conns
            /\ walk'.choice = ServerAt(m)
        BY <1>6, <1>10, <1>12, <2>1, <2>3
      <3> HIDE DEF m, k
      <3>5. QED
        BY ONLY <3>1, <3>2, <3>3, <3>4, UpIsFirst
    <2>5. QED
      BY <1>10, <1>11, <2>2, <2>4 DEF IInv
  <1>13. CASE ~up
    <2>1. alive' = alive /\ ~alive[c]
      BY <1>10, <1>13
    <2>2. CASE walk.left = 1
      <3>1. walk'.stage = "chosen" /\ walk'.choice = None
        BY <1>1, <1>2, <1>13, <2>2 DEF Walks
      <3>2. WalkState' /\ Passed' /\ OwnerTaken'
        BY <1>1, <1>2, <1>7, <1>8, <3>1 DEF WalkState, Passed, OwnerTaken
      <3>3. k = len
        BY <1>1, <2>2
      <3>4. \A j \in 1 .. len : ServerAt(j)' \notin Live'
        BY <1>1, <1>8, <2>1, <3>3 DEF Live
      <3>5. FirstLive'
        <4>1. \A j \in 1 .. Len(continuum') : ServerAt(j)' \notin Live'
          BY <1>2, <3>4
        <4>2. QED
          BY <3>1, <4>1 DEF FirstLive
      <3>6. QED
        BY <1>10, <1>11, <3>2, <3>5 DEF IInv
    <2>3. CASE walk.left # 1
      <3>1. /\ walk' = [walk EXCEPT !.it = next, !.left = walk.left - 1]
            /\ walk'.stage = "walking" /\ walk'.it = next
            /\ walk'.left = walk.left - 1 /\ walk'.choice = None
        BY <1>1, <1>2, <1>13, <2>3 DEF Walks
      <3>2. WalkState' /\ FirstLive' /\ OwnerTaken'
        BY <1>1, <1>2, <1>7, <1>8, <3>1 DEF WalkState, FirstLive, OwnerTaken
      <3>3. /\ len - (walk.left - 1) + 1 = k + 1 /\ walk.left - 1 > 0
            /\ k < len /\ k \in Nat
        BY <1>1, <2>3
      <3>4. next = At(continuum, Len(servers), walk.hash, k + 1)
            /\ c = ServerAt(k + 1)
        BY <1>4, <1>5, <3>3
      <3>5. \A j \in 1 .. k + 1 : ~alive'[ServerAt(j)']
        <4>1. ASSUME NEW j \in 1 .. k + 1
              PROVE  ~alive[ServerAt(j)]
          <5>1. j \in 1 .. k \/ j = k + 1
            BY <3>3
          <5>2. QED
            BY <1>1, <2>1, <3>4, <5>1
        <4>2. QED
          BY <1>8, <2>1, <4>1
      <3>6. Passed'
        <4>1. Len(continuum') - walk'.left + 1 = k + 1
          BY <1>2, <3>1, <3>3
        <4>2. walk'.it = At(continuum', Len(servers'), walk'.hash, k + 1)
          BY <1>2, <1>7, <3>1, <3>4
        <4>3. useFailover' /\ walk'.check /\ walk'.left > 0
          BY <1>1, <1>2, <1>7, <3>1, <3>3
        <4> HIDE DEF k
        <4>4. QED
          BY <3>5, <4>1, <4>2, <4>3 DEF Passed
      <3>7. QED
        BY <1>10, <1>11, <3>2, <3>6 DEF IInv
    <2>4. QED
      BY <2>2, <2>3
  <1>14. QED
    BY <1>12, <1>13

LEMMA StepInvariant == IInv /\ [Next]_vars => IInv'
  <1> SUFFICES ASSUME IInv, [Next]_vars PROVE IInv'
    OBVIOUS
  <1>1. ASSUME NEW pool \in Pools, InitPool(pool) PROVE IInv'
    BY <1>1, InitPoolInvariant
  <1>2. ASSUME NEW pool \in Pools, UpdateServers(pool) PROVE IInv'
    BY <1>2, UpdateServersInvariant
  <1>3. CASE SetFailover
    BY <1>3, SetFailoverInvariant
  <1>4. ASSUME NEW c \in Conns, Break(c) PROVE IInv'
    BY <1>4, BreakInvariant
  <1>5. CASE Tick
    BY <1>5, TickInvariant
  <1>6. ASSUME NEW h \in Hashes, NEW check \in BOOLEAN, Ask(h, check)
        PROVE  IInv'
    BY <1>6, AskInvariant
  <1>7. CASE TakeOwner
    BY <1>7, TakeOwnerInvariant
  <1>8. CASE TryOwner
    BY <1>8, TryOwnerInvariant
  <1>9. CASE Walk
    BY <1>9, WalkInvariant
  <1>10. CASE Use
    BY <1>10, UseInvariant
  <1>11. CASE UNCHANGED vars
    <2>1. UNCHANGED <<md5, servers, continuum, useFailover, alive, backoff,
                      walk, tried, waited>>
      BY <1>11 DEF vars, poolVars
    <2>2. Conns' = Conns /\ \A j : ServerAt(j)' = ServerAt(j)
      BY <2>1, SameRing
    <2>3. StateTypes' /\ InOrder' /\ WalkState' /\ Passed' /\ OwnerTaken'
      BY <2>1, <2>2
      DEF IInv, StateTypes, InOrder, WalkState, Passed, OwnerTaken
    <2>4. Live' = Live
      BY <2>1, <2>2 DEF Live
    <2>5. FirstLive' /\ Backoffs'
      BY <2>1, <2>2, <2>4 DEF IInv, FirstLive, Backoffs, Idle
    <2>6. QED
      BY <2>3, <2>5 DEF IInv
  <1>12. QED
    BY <1>1, <1>2, <1>3, <1>4, <1>5, <1>6, <1>7, <1>8, <1>9, <1>10, <1>11
    DEF Next

-----------------------------------------------------------------------------
\* The invariant of the selection.
THEOREM Invariant == Spec => []IInv
  BY InitInvariant, StepInvariant, PTL DEF Spec

\* The ring is sorted by hash, its points are of servers of the pool, a
\* connection has a liveness and a back-off of at most RetryTimeout, and the
\* walk stays on the ring.
THEOREM TypeCorrect == Spec => []TypeOK
  <1>1. IInv => TypeOK
    <2> SUFFICES ASSUME IInv PROVE TypeOK
      OBVIOUS
    <2>1. Len(continuum) \in Nat /\ DOMAIN continuum = 1 .. Len(continuum)
          /\ \A i \in 1 .. Len(continuum) :
               continuum[i].hash \in Hashes /\ continuum[i].conn \in Conns
      <3>1. \A i \in 1 .. Len(continuum) : continuum[i] \in Point(Len(servers))
        BY ElementOfSeq DEF IInv, InOrder
      <3>2. QED
        BY <3>1 DEF IInv, InOrder, Point, Conns
    <2>2. \A i \in 1 .. Len(continuum) - 1 :
            continuum[i].hash <= continuum[i + 1].hash
      <3>1. \A i \in 1 .. Len(continuum) - 1 :
              /\ i \in 1 .. Len(continuum) /\ i + 1 \in 1 .. Len(continuum)
              /\ i < i + 1
        BY <2>1
      <3>2. QED
        BY <3>1 DEF IInv, InOrder
    <2>3. \A p \in ToSet(continuum) : p.hash \in Hashes /\ p.conn \in Conns
      BY <2>1 DEF ToSet
    <2>4. walk.stage = "walking" => walk.it \in DOMAIN continuum
      <3>1. SUFFICES ASSUME walk.stage = "walking"
                     PROVE  walk.it \in 1 .. Len(continuum)
        BY <2>1
      <3>2. /\ walk.left \in 1 .. Len(continuum)
            /\ continuum # <<>> /\ walk.hash \in Hashes
            /\ walk.it = At(continuum, Len(servers), walk.hash,
                            Len(continuum) - walk.left + 1)
        BY <2>1, <3>1 DEF IInv, StateTypes, WalkState, Passed, Walks
      <3>3. Len(continuum) - walk.left + 1 \in 1 .. Len(continuum)
        BY <2>1, <3>2
      <3>4. QED
        BY <3>2, <3>3, RoundFacts DEF IInv
    <2>5. /\ alive \in [Conns -> BOOLEAN]
          /\ backoff \in [Conns -> 0 .. RetryTimeout]
          /\ walk.stage \in {"idle", "origin", "walking", "chosen"}
          /\ walk.choice \in Conns \cup {None}
          /\ walk.left \in 0 .. Len(continuum)
      BY DEF IInv, StateTypes, WalkState, Walks
    <2>6. QED
      BY <2>2, <2>3, <2>4, <2>5 DEF TypeOK
  <1>2. QED
    BY <1>1, Invariant, PTL

\* Whichever servers die or come back, before a selection or while it walks
\* round the ring, it ends with the one that the key would belong to if the
\* ring held the servers alive and no other.
THEOREM LiveOwnerTheorem == Spec => []LiveOwnerChosen
  <1>1. IInv => LiveOwnerChosen
    <2> SUFFICES ASSUME IInv, walk.stage = "chosen", walk.check
                 PROVE  LiveOwnerChosen
      BY DEF LiveOwnerChosen
    <2> DEFINE live == {c \in Conns : alive[c] /\ (useFailover \/ c = Owner)}
               round == Round(walk.hash)
               i == SelectInSeq(round, LAMBDA p : p.conn \in live)
    <2>1. walk.hash \in Hashes /\ continuum \in Seq(Point(Len(servers)))
      BY DEF IInv, StateTypes, Walks, InOrder
    <2>2. CASE continuum = <<>>
      <3>1. Len(continuum) = 0
        BY <2>2
      <3>2. walk.choice = None
        BY <3>1 DEF IInv, FirstLive
      <3>3. LowerBound(walk.hash) = 1
        BY <3>1 DEF LowerBound, SelectInSeq
      <3>4. round = <<>> /\ Len(round) = 0
        BY <2>2, <3>1, <3>3 DEF Round
      <3> HIDE DEF round, live
      <3>5. Len(round) \in Nat
        BY <3>4
      <3>6. \/ i = 0 /\ \A j \in 1 .. Len(round) : round[j].conn \notin live
            \/ /\ i \in 1 .. Len(round) /\ round[i].conn \in live
               /\ \A j \in 1 .. i - 1 : round[j].conn \notin live
        BY <3>5, FirstIn
      <3> HIDE DEF i
      <3>7. i = 0
        BY <3>4, <3>6
      <3>8. QED
        BY <3>2, <3>7 DEF i, LiveOwnerChosen, round, live
    <2>3. CASE continuum # <<>>
      <3>1. /\ Len(round) = Len(continuum) /\ Len(continuum) \in Nat
            /\ \A j \in 1 .. Len(continuum) : round[j].conn = ServerAt(j)
            /\ ServerAt(1) = Owner
        BY <2>1, <2>3, RoundFacts DEF IInv
      <3>2. live = Live
        BY <3>1 DEF Live
      <3> HIDE DEF live, round
      <3>3. \/ i = 0 /\ \A j \in 1 .. Len(round) : round[j].conn \notin live
            \/ /\ i \in 1 .. Len(round) /\ round[i].conn \in live
               /\ \A j \in 1 .. i - 1 : round[j].conn \notin live
        BY <3>1, FirstIn
      <3> HIDE DEF i
      <3>4. CASE i = 0
        <4>1. \A j \in 1 .. Len(continuum) : ServerAt(j) \notin Live
          BY <3>1, <3>2, <3>3, <3>4
        <4>2. walk.choice = None
          BY <4>1 DEF IInv, FirstLive
        <4>3. QED
          BY <3>4, <4>2 DEF LiveOwnerChosen, i, live, round
      <3>5. CASE i # 0
        <4>1. /\ i \in 1 .. Len(continuum) /\ ServerAt(i) \in Live
              /\ \A j \in 1 .. i - 1 : ServerAt(j) \notin Live
          <5>1. /\ i \in 1 .. Len(continuum) /\ round[i].conn \in live
                /\ \A j \in 1 .. i - 1 : /\ j \in 1 .. Len(continuum)
                                         /\ round[j].conn \notin live
            BY <3>1, <3>3, <3>5
          <5>2. QED
            BY <3>1, <3>2, <5>1
        <4>2. PICK k \in 1 .. Len(continuum) :
                /\ walk.choice = ServerAt(k) /\ walk.choice \in Live
                /\ \A j \in 1 .. k - 1 : ServerAt(j) \notin Live
          BY <4>1 DEF IInv, FirstLive
        <4>3. i = k
          <5>1. ~ (i < k) /\ ~ (k < i)
            BY <3>1, <4>1, <4>2
          <5>2. QED
            BY <3>1, <4>1, <4>2, <5>1
        <4>4. walk.choice = round[i].conn
          BY <3>1, <4>2, <4>3
        <4>5. QED
          BY <3>5, <4>4 DEF LiveOwnerChosen, i, live, round
      <3>6. QED
        BY <3>4, <3>5
    <2>4. QED
      BY <2>2, <2>3
  <1>2. QED
    BY <1>1, Invariant, PTL

\* What is tried R seconds apart is tried once more than R goes into w.
LEMMA TimesTried ==
  ASSUME NEW R \in Nat \ {0}, NEW t \in Nat, NEW w \in Nat, R * t <= w + R
  PROVE  t <= 1 + (w \div R)
  <1> DEFINE q == w \div R
             r == w % R
  <1>1. w = R * q + r /\ r \in 0 .. R - 1 /\ q \in Int
    OBVIOUS
  <1> HIDE DEF q, r
  <1>2. SUFFICES ASSUME t >= q + 2 PROVE FALSE
    BY <1>1 DEF q
  <1>3. PICK d \in Nat : t = q + 2 + d
    <2>1. t - q - 2 \in Nat /\ t = q + 2 + (t - q - 2)
      BY <1>1, <1>2
    <2>2. QED
      BY <2>1
  <1>4. R * t = R * q + 2 * R + R * d
    BY <1>1, <1>3
  <1>5. R * d \in Nat /\ R * q \in Int
    BY <1>1
  <1>6. QED
    BY <1>1, <1>4, <1>5

\* A connect() that fails is not repeated before its back-off is over,
\* however many points of the ring the server has.
THEOREM TriedTheorem == Spec => []TriedOncePerBackoff
  <1>1. IInv => TriedOncePerBackoff
    <2> SUFFICES ASSUME IInv, RetryTimeout > 0, NEW c \in Conns
                 PROVE  tried[c] <= 1 + (waited \div RetryTimeout)
      BY DEF TriedOncePerBackoff
    <2>1. /\ RetryTimeout \in Nat \ {0} /\ tried[c] \in Nat /\ waited \in Nat
          /\ backoff[c] \in 0 .. RetryTimeout
      BY KetamaSelectorAssumption DEF IInv, StateTypes
    <2>2. RetryTimeout * tried[c]
            <= waited + IF alive[c] THEN RetryTimeout ELSE backoff[c]
      BY DEF IInv, Backoffs
    <2>3. RetryTimeout * tried[c] \in Nat
      BY <2>1
    <2>4. RetryTimeout * tried[c] <= waited + RetryTimeout
      BY <2>1, <2>2, <2>3
    <2>5. QED
      BY <2>1, <2>4, TimesTried
  <1>2. QED
    BY <1>1, Invariant, PTL

-----------------------------------------------------------------------------
(* Where the aliases are.                                                  *)

\* No update of the servers gives a server its first alias, or takes it away.
NoFirstAlias ==
    \A p, q \in Pools : Len(p) = Len(q) =>
      \A c \in 1 .. Len(p) : p[c].alias = NoAlias <=> q[c].alias = NoAlias

\* The points of a server are those of its alias, also after an update.
AliasPoints ==
    /\ \A c \in Conns : servers[c].alias # NoAlias =>
         /\ servers[c].alias \in DOMAIN md5
         /\ \A g : g \in md5[servers[c].alias] <=>
              \E i \in 1 .. Len(continuum) :
                continuum[i] = [hash |-> g, conn |-> c]
    /\ \A pool \in Pools : Len(pool) = Len(servers) =>
         \A c \in Conns : pool[c].alias = NoAlias <=> servers[c].alias = NoAlias

LEMMA AliasStep ==
  ASSUME NoFirstAlias, IInv, AliasPoints, [Next]_vars
  PROVE  AliasPoints'
  <1>1. ASSUME NEW pool \in Pools, InitPool(pool)
        PROVE  AliasPoints'
    <2>1. servers' = pool /\ md5' = md5 /\ md5 \in Hashings
          /\ continuum' \in Sorted(Points(md5, pool))
      BY <1>1 DEF InitPool, Rings, IInv, StateTypes
    <2>2. DOMAIN pool = Conns' /\ Conns' = 1 .. Len(pool)
      BY <2>1, PoolFacts DEF Conns
    <2>3. ASSUME NEW c \in Conns', pool[c].alias # NoAlias
          PROVE  /\ pool[c].alias \in DOMAIN md5
                 /\ \A g : g \in md5[pool[c].alias] <=>
                      \E i \in 1 .. Len(continuum') :
                        continuum'[i] = [hash |-> g, conn |-> c]
      <3>1. HashName(pool[c]) = pool[c].alias
        BY <2>3 DEF HashName
      <3>2. pool[c].alias \in DOMAIN md5
        BY <2>1, <2>2, <3>1, PoolsAssumption
      <3>3. \A g : g \in md5[pool[c].alias] <=>
                     [hash |-> g, conn |-> c] \in Points(md5, pool)
        <4>1. ASSUME NEW g, g \in md5[pool[c].alias]
              PROVE  [hash |-> g, conn |-> c] \in Points(md5, pool)
          <5>1. c \in DOMAIN pool /\ g \in md5[HashName(pool[c])]
            BY <2>2, <3>1, <4>1
          <5>2. [hash |-> g, conn |-> c]
                  \in {[hash |-> h, conn |-> c] : h \in md5[HashName(pool[c])]}
            BY <5>1
          <5> DEFINE of(d) == {[hash |-> h, conn |-> d] :
                                h \in md5[HashName(pool[d])]}
          <5>3. of(c) \subseteq UNION {of(d) : d \in DOMAIN pool}
            BY <5>1
          <5>4. QED
            BY <5>2, <5>3 DEF Points
        <4>2. ASSUME NEW g, [hash |-> g, conn |-> c] \in Points(md5, pool)
              PROVE  g \in md5[pool[c].alias]
          <5>1. PICK d \in DOMAIN pool : \E h \in md5[HashName(pool[d])] :
                  [hash |-> g, conn |-> c] = [hash |-> h, conn |-> d]
            BY <4>2 DEF Points
          <5>2. \A x, y : /\ [hash |-> x, conn |-> y].hash = x
                          /\ [hash |-> x, conn |-> y].conn = y
            OBVIOUS
          <5>3. PICK h \in md5[HashName(pool[d])] : g = h /\ c = d
            BY <5>1, <5>2
          <5>4. QED
            BY <3>1, <5>3
        <4>3. QED
          BY <4>1, <4>2
      <3>4. \A p : p \in Points(md5, pool) <=>
                     \E i \in 1 .. Len(continuum') : continuum'[i] = p
        BY <2>1, SortedRing
      <3>5. QED
        BY <3>2, <3>3, <3>4
    <2>4. \A q \in Pools : Len(q) = Len(pool) =>
            \A c \in Conns' : q[c].alias = NoAlias <=> pool[c].alias = NoAlias
      BY <2>2 DEF NoFirstAlias
    <2>5. QED
      BY <2>1, <2>3, <2>4 DEF AliasPoints
  <1>2. ASSUME NEW pool \in Pools, UpdateServers(pool)
        PROVE  AliasPoints'
    <2>1. /\ Len(pool) = Len(servers) /\ md5' = md5 /\ continuum' = continuum
          /\ \A c \in Conns : servers[c].alias \in {NoAlias, pool[c].alias}
          /\ servers' = [c \in Conns |-> IF pool[c].host = servers[c].host
                                           THEN servers[c] ELSE pool[c]]
      BY <1>2 DEF UpdateServers
    <2>2. \A c \in Conns : pool[c].alias = NoAlias <=> servers[c].alias = NoAlias
      BY <2>1 DEF AliasPoints
    <2>3. \A c \in Conns : servers'[c].alias = servers[c].alias
      BY <2>1, <2>2
    <2>4. Len(servers') = Len(servers) /\ Conns' = Conns
      <3>1. Len(servers) \in Nat
        BY DEF IInv, StateTypes
      <3>2. servers' = [c \in 1 .. Len(servers) |-> servers'[c]]
        BY <2>1 DEF Conns
      <3>3. Len(servers') = Len(servers)
        BY ONLY <3>1, <3>2
      <3>4. QED
        BY <3>3 DEF Conns
    <2>5. QED
      BY <2>1, <2>3, <2>4 DEF AliasPoints
  <1>3. CASE UNCHANGED poolVars
    BY <1>3 DEF AliasPoints, poolVars, Conns
  <1>4. CASE SetFailover
    <2>1. UNCHANGED <<md5, servers, continuum>>
      BY <1>4 DEF SetFailover
    <2>2. QED
      BY <2>1 DEF AliasPoints, Conns
  <1>5. ASSUME NEW c \in Conns, Break(c) PROVE AliasPoints'
    BY <1>3, <1>5 DEF Break
  <1>6. ASSUME NEW h \in Hashes, NEW check \in BOOLEAN, Ask(h, check)
        PROVE  AliasPoints'
    BY <1>3, <1>6 DEF Ask
  <1>7. QED
    BY <1>1, <1>2, <1>3, <1>4, <1>5, <1>6
    DEF Next, vars, Tick, TakeOwner, TryOwner, Walk, Use

\* From h clockwise to g.
LEMMA Clockwise ==
  ASSUME NEW g \in Hashes, NEW h \in Hashes
  PROVE  (g - h + HashMod) % HashMod
           = IF g >= h THEN g - h ELSE g - h + HashMod
  <1>1. HashMod \in Nat \ {0} /\ g \in 0 .. HashMod - 1 /\ h \in 0 .. HashMod - 1
    BY KetamaSelectorAssumption DEF Hashes
  <1>2. CASE g >= h
    <2> DEFINE d == g - h
    <2>1. d \in 0 .. HashMod - 1 /\ g - h + HashMod = d + HashMod
      BY <1>1, <1>2
    <2> HIDE DEF d
    <2>2. (d + HashMod) % HashMod = d
      BY <1>1, <2>1
    <2>3. QED
      BY <1>2, <2>1, <2>2 DEF d
  <1>3. CASE ~ (g >= h)
    <2>1. g - h + HashMod \in 0 .. HashMod - 1
      BY <1>1, <1>3
    <2>2. QED
      BY <1>1, <1>3, <2>1
  <1>4. QED
    BY <1>2, <1>3

\* No point of the ring is nearer than the one that lower_bound gives.
LEMMA NearestPoint ==
  ASSUME InOrder, continuum # <<>>, Len(servers) # 1, NEW h \in Hashes,
         NEW i \in 1 .. Len(continuum)
  PROVE  (continuum[LowerBound(h)].hash - h + HashMod) % HashMod
           <= (continuum[i].hash - h + HashMod) % HashMod
  <1> DEFINE b == LowerBound(h)
             p == continuum[b].hash
             g == continuum[i].hash
  <1>1. /\ b \in 1 .. Len(continuum) /\ Len(continuum) \in Nat
        /\ \/ p >= h /\ \A j \in 1 .. b - 1 : continuum[j].hash < h
           \/ b = 1 /\ \A j \in 1 .. Len(continuum) : continuum[j].hash < h
    BY LowerBoundFacts DEF InOrder
  <1>2. p \in Hashes /\ g \in Hashes
    <2>1. \A j \in 1 .. Len(continuum) : continuum[j] \in Point(Len(servers))
      BY ElementOfSeq DEF InOrder
    <2>2. QED
      BY <1>1, <2>1 DEF Point
  <1>3. b <= i => p <= g
    <2>1. CASE b < i
      BY <1>1, <2>1 DEF InOrder
    <2>2. CASE b = i
      BY <1>2, <2>2, KetamaSelectorAssumption DEF Hashes
    <2>3. QED
      BY <1>1, <2>1, <2>2
  <1>4. \/ p >= h /\ (i < b => g < h)
        \/ b <= i /\ p < h /\ g < h
    BY <1>1
  <1> HIDE DEF b, p, g
  <1>5. /\ (p - h + HashMod) % HashMod
             = IF p >= h THEN p - h ELSE p - h + HashMod
        /\ (g - h + HashMod) % HashMod
             = IF g >= h THEN g - h ELSE g - h + HashMod
    BY <1>2, Clockwise
  <1>6. /\ HashMod \in Nat \ {0} /\ p \in 0 .. HashMod - 1
        /\ g \in 0 .. HashMod - 1 /\ h \in 0 .. HashMod - 1
        /\ b \in Nat /\ i \in Nat
    BY <1>1, <1>2, KetamaSelectorAssumption DEF Hashes
  <1> DEFINE dp == (p - h + HashMod) % HashMod
             dg == (g - h + HashMod) % HashMod
  <1> HIDE DEF dp, dg
  <1>7. dp <= dg
    BY <1>3, <1>4, <1>5, <1>6 DEF dp, dg
  <1>8. QED
    BY <1>7 DEF b, p, g, dp, dg

\* Distance is that of one of the points of a name, and of the nearest.
LEMMA DistanceFacts ==
  ASSUME md5 \in Hashings, NEW name \in DOMAIN md5, NEW h \in Hashes
  PROVE  /\ \E g \in md5[name] : Distance(h, name) = (g - h + HashMod) % HashMod
         /\ \A g \in md5[name] : Distance(h, name) <= (g - h + HashMod) % HashMod
  <1> DEFINE D == {(g - h + HashMod) % HashMod : g \in md5[name]}
  <1>1. md5[name] # {} /\ md5[name] \subseteq Hashes
    BY KetamaSelectorAssumption DEF Hashes
  <1>2. D # {}
    BY <1>1
  <1>3. D \in SUBSET Nat
    <2>1. ASSUME NEW g \in md5[name]
          PROVE  (g - h + HashMod) % HashMod \in Nat
      <3>1. g - h + HashMod \in Int /\ HashMod \in Nat \ {0}
        BY <1>1, KetamaSelectorAssumption DEF Hashes
      <3>2. QED
        BY <3>1
    <2>2. QED
      BY <2>1
  <1>4. Min(D) \in D /\ \A k \in D : Min(D) <= k
    BY <1>2, <1>3, Least
  <1>5. Distance(h, name) = Min(D)
    BY DEF Distance
  <1>6. QED
    BY <1>4, <1>5

\* A key belongs to the server with the nearest hash of its alias, after any
\* updates of the servers that give none its first alias.
THEOREM NearestTheorem ==
  ASSUME NoFirstAlias
  PROVE  Spec => []NearestAlias
  <1>1. Init => AliasPoints
    <2> SUFFICES ASSUME Init PROVE AliasPoints
      OBVIOUS
    <2>1. servers = <<>> /\ Conns = {}
      BY DEF Init, Conns
    <2>2. ASSUME NEW pool \in Pools, NEW c \in Conns
          PROVE  FALSE
      BY <2>1
    <2>3. QED
      BY <2>1 DEF AliasPoints
  <1>2. IInv /\ AliasPoints /\ [Next]_vars => AliasPoints'
    BY AliasStep
  <1>3. IInv /\ AliasPoints => NearestAlias
    <2> SUFFICES ASSUME IInv, AliasPoints, walk.stage = "chosen", ~walk.check,
                        servers # <<>>,
                        \A c \in Conns : servers[c].alias # NoAlias,
                        NEW c \in Conns, Len(servers) # 1
                 PROVE  Distance(walk.hash, servers[walk.choice].alias)
                          <= Distance(walk.hash, servers[c].alias)
      BY DEF NearestAlias
    <2> DEFINE h == walk.hash
               o == Owner
               alias(d) == servers[d].alias
    <2>1. h \in Hashes /\ md5 \in Hashings
      BY DEF IInv, StateTypes, Walks
    <2>2. \A d \in Conns : /\ alias(d) \in DOMAIN md5
                           /\ \A g : g \in md5[alias(d)] <=>
                                \E i \in 1 .. Len(continuum) :
                                  continuum[i] = [hash |-> g, conn |-> d]
      BY DEF AliasPoints
    <2>3. PICK g \in md5[alias(c)] :
            Distance(h, alias(c)) = (g - h + HashMod) % HashMod
      BY <2>1, <2>2, DistanceFacts
    <2>4. PICK i \in 1 .. Len(continuum) :
            continuum[i] = [hash |-> g, conn |-> c]
      BY <2>2, <2>3
    <2>5. continuum # <<>>
      BY <2>4
    <2>6. walk.choice = o /\ o \in Conns /\ LowerBound(h) \in 1 .. Len(continuum)
      <3>1. Owner = ServerAt(1) /\ 1 \in 1 .. Len(continuum)
            /\ \A j \in 1 .. Len(continuum) : ServerAt(j) \in Conns
        BY <2>1, <2>4, <2>5, RoundFacts DEF IInv, InOrder
      <3>2. LowerBound(h) \in 1 .. Len(continuum)
        BY <2>1, <2>5, LowerBoundFacts DEF IInv
      <3>3. QED
        BY <2>5, <3>1, <3>2 DEF IInv, OwnerTaken
    <2> DEFINE p == continuum[LowerBound(h)].hash
    <2>7. p \in md5[alias(o)]
      <3>1. continuum[LowerBound(h)] \in Point(Len(servers))
        BY <2>6, ElementOfSeq DEF IInv, InOrder
      <3>2. continuum[LowerBound(h)] = [hash |-> p, conn |-> o]
        BY <3>1 DEF Point, Owner
      <3>3. QED
        BY <2>2, <2>6, <3>2
    <2>8. Distance(h, alias(o)) <= (p - h + HashMod) % HashMod
      BY <2>1, <2>2, <2>6, <2>7, DistanceFacts
    <2>9. (p - h + HashMod) % HashMod <= (g - h + HashMod) % HashMod
      <3>1. continuum[i].hash = g
        BY <2>4
      <3>2. (p - h + HashMod) % HashMod
              <= (continuum[i].hash - h + HashMod) % HashMod
        BY <2>1, <2>5, NearestPoint DEF IInv
      <3>3. QED
        BY <3>1, <3>2
    <2>10. Distance(h, alias(o)) \in Int /\ (p - h + HashMod) % HashMod \in Int
           /\ (g - h + HashMod) % HashMod \in Int
      <3>1. \A x \in Hashes : (x - h + HashMod) % HashMod \in Int
        BY <2>1, KetamaSelectorAssumption DEF Hashes
      <3>2. \A d \in Conns : md5[alias(d)] \subseteq Hashes
        BY <2>1, <2>2, KetamaSelectorAssumption DEF Hashes
      <3>3. PICK x \in md5[alias(o)] :
              Distance(h, alias(o)) = (x - h + HashMod) % HashMod
        BY <2>1, <2>2, <2>6, DistanceFacts
      <3>4. QED
        BY <2>3, <2>6, <2>7, <3>1, <3>2, <3>3
    <2> HIDE DEF p
    <2>11. Distance(h, alias(o)) <= Distance(h, alias(c))
      BY <2>3, <2>8, <2>9, <2>10
    <2>12. QED
      BY <2>6, <2>11
  <1>4. QED
    BY <1>1, <1>2, <1>3, Invariant, PTL DEF Spec

=============================================================================
