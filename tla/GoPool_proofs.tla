--------------------------- MODULE GoPool_proofs ---------------------------
(***************************************************************************)
(* The connection pool of the Go client, for any number of callers and     *)
(* connections and any arguments of its setters: numOpen is exact, each    *)
(* open connection has one owner, idle connections are watched and the     *)
(* limit is respected.                                                     *)
(***************************************************************************)
EXTENDS GoPool, FiniteSetTheorems, SequenceTheorems, TLAPS

-----------------------------------------------------------------------------
(* The owners of connections: a list F of idle connections, what the       *)
(* callers have, H, what is on its way to them, A, and what goroutines are *)
(* closing, T, hold each connection of O once, and no other.               *)

Held == [Callers -> Conns \cup {NoConn, Closed}]
Closing == [Goroutines -> Seq(Conns)]

Once(F, H, A, T) ==
    /\ \A i, j \in 1 .. Len(F) : F[i] = F[j] => i = j
    /\ \A s, t \in Callers : H[s] \in Conns /\ H[s] = H[t] => s = t
    /\ \A s, t \in Callers : A[s] \in Conns /\ A[s] = A[t] => s = t
    /\ \A g, h \in Goroutines :
         \A i \in 1 .. Len(T[g]), j \in 1 .. Len(T[h]) :
           T[g][i] = T[h][j] => g = h /\ i = j

Apart(F, H, A, T) ==
    /\ \A i \in 1 .. Len(F), t \in Callers : F[i] # H[t] /\ F[i] # A[t]
    /\ \A s, t \in Callers : H[s] \in Conns => H[s] # A[t]
    /\ \A g \in Goroutines : \A j \in 1 .. Len(T[g]) :
         /\ \A i \in 1 .. Len(F) : T[g][j] # F[i]
         /\ \A t \in Callers : T[g][j] # H[t] /\ T[g][j] # A[t]

InSome(F, H, A, T, c) ==
    \/ \E i \in 1 .. Len(F) : F[i] = c
    \/ \E t \in Callers : H[t] = c \/ A[t] = c
    \/ \E g \in Goroutines : \E i \in 1 .. Len(T[g]) : T[g][i] = c

Owners(F, H, A, T, O) ==
    /\ F \in Seq(Conns) /\ H \in Held /\ A \in Held /\ T \in Closing
    /\ O \subseteq Conns
    /\ Once(F, H, A, T)
    /\ Apart(F, H, A, T)
    /\ \A c \in Conns : c \in O <=> InSome(F, H, A, T, c)

LEMMA TailFacts ==
  ASSUME NEW S, NEW s \in Seq(S), s # <<>>
  PROVE  /\ Tail(s) \in Seq(S) /\ Head(s) \in S /\ Head(s) = s[1]
         /\ Len(s) \in Nat \ {0} /\ Len(Tail(s)) = Len(s) - 1
         /\ \A i \in 1 .. Len(s) - 1 : Tail(s)[i] = s[i + 1]
  OBVIOUS

\* The first idle connection is taken.
LEMMA TakeIdle ==
  ASSUME NEW F, NEW H, NEW A, NEW T, NEW O, Owners(F, H, A, T, O), F # <<>>
  PROVE  /\ Head(F) \in O
         /\ Owners(Tail(F), H, A, T, O \ {Head(F)})
  <1> USE DEF Owners
  <1>1. /\ Tail(F) \in Seq(Conns) /\ Head(F) \in Conns /\ Head(F) = F[1]
        /\ Len(F) \in Nat \ {0} /\ Len(Tail(F)) = Len(F) - 1
        /\ \A i \in 1 .. Len(F) - 1 : Tail(F)[i] = F[i + 1]
    BY TailFacts
  <1>2. \A i \in 1 .. Len(Tail(F)) : i + 1 \in 1 .. Len(F) /\ i + 1 # 1
    BY <1>1
  <1>3. Once(Tail(F), H, A, T)
    BY <1>1, <1>2 DEF Once
  <1>4. Apart(Tail(F), H, A, T)
    BY <1>1, <1>2 DEF Apart
  <1>5. Head(F) \in O
    BY <1>1 DEF InSome
  <1>6. ASSUME NEW c \in Conns
        PROVE  c \in O \ {Head(F)} <=> InSome(Tail(F), H, A, T, c)
    <2>1. CASE c = Head(F)
      <3>1. \A i \in 1 .. Len(Tail(F)) : Tail(F)[i] # c
        BY <1>1, <1>2, <2>1 DEF Once
      <3>2. QED
        BY <1>1, <2>1, <3>1 DEF InSome, Apart
    <2>2. CASE c # Head(F)
      <3>1. ASSUME NEW i \in 1 .. Len(F), F[i] = c
            PROVE  i - 1 \in 1 .. Len(Tail(F)) /\ Tail(F)[i - 1] = c
        BY <1>1, <2>2, <3>1
      <3>2. QED
        BY <1>1, <1>2, <2>2, <3>1 DEF InSome
    <2>3. QED
      BY <2>1, <2>2
  <1>7. QED
    BY <1>1, <1>3, <1>4, <1>5, <1>6

\* A connection of nobody becomes idle.
LEMMA AddIdle ==
  ASSUME NEW F, NEW H, NEW A, NEW T, NEW O, Owners(F, H, A, T, O),
         NEW c \in Conns, c \notin O
  PROVE  Owners(Append(F, c), H, A, T, O \cup {c})
  <1> USE DEF Owners
  <1> DEFINE G == Append(F, c)
  <1>1. /\ G \in Seq(Conns) /\ Len(F) \in Nat /\ Len(G) = Len(F) + 1
        /\ \A i \in 1 .. Len(F) : G[i] = F[i]
        /\ G[Len(F) + 1] = c
    OBVIOUS
  <1>2. \A i \in 1 .. Len(G) : i \in 1 .. Len(F) \/ i = Len(F) + 1
    BY <1>1
  <1>3. ~InSome(F, H, A, T, c)
    OBVIOUS
  <1> HIDE DEF G
  <1>4. Once(G, H, A, T)
    BY <1>1, <1>2, <1>3 DEF Once, InSome
  <1>5. Apart(G, H, A, T)
    BY <1>1, <1>2, <1>3 DEF Apart, InSome
  <1>6. ASSUME NEW d \in Conns
        PROVE  d \in O \cup {c} <=> InSome(G, H, A, T, d)
    <2>1. (\E i \in 1 .. Len(G) : G[i] = d)
            <=> d = c \/ \E i \in 1 .. Len(F) : F[i] = d
      BY <1>1, <1>2
    <2>2. QED
      BY <1>3, <2>1 DEF InSome
  <1>7. QED
    BY <1>1, <1>4, <1>5, <1>6 DEF G

\* A caller lets go of what it has.
LEMMA ClearHeld ==
  ASSUME NEW F, NEW H, NEW A, NEW T, NEW O, Owners(F, H, A, T, O),
         NEW t \in Callers, NEW v \in {NoConn, Closed}
  PROVE  /\ Owners(F, [H EXCEPT ![t] = v], A, T, O \ {H[t]})
         /\ H[t] \in Conns => H[t] \in O
  <1> USE GoPoolAssumption DEF Owners
  <1> DEFINE K == [H EXCEPT ![t] = v]
  <1>1. /\ K \in Held /\ K[t] = v /\ v \notin Conns
        /\ \A s \in Callers \ {t} : K[s] = H[s]
    BY DEF Held
  <1>2. H[t] \in Conns => H[t] \in O
    BY DEF InSome
  <1> HIDE DEF K
  <1>3. Once(F, K, A, T)
    BY <1>1 DEF Once
  <1>4. Apart(F, K, A, T)
    BY <1>1 DEF Apart, Closing
  <1>5. ASSUME NEW c \in Conns
        PROVE  c \in O \ {H[t]} <=> InSome(F, K, A, T, c)
    <2>1. CASE c = H[t]
      <3>1. ~InSome(F, K, A, T, c)
        BY <1>1, <2>1 DEF InSome, Once, Apart
      <3>2. QED
        BY <2>1, <3>1
    <2>2. CASE c # H[t]
      BY <1>1, <2>2 DEF InSome
    <2>3. QED
      BY <2>1, <2>2
  <1>6. QED
    BY <1>1, <1>2, <1>3, <1>4, <1>5 DEF K

\* A caller that has none gets a connection of nobody.
LEMMA SetHeld ==
  ASSUME NEW F, NEW H, NEW A, NEW T, NEW O, Owners(F, H, A, T, O),
         NEW t \in Callers, H[t] \notin Conns, NEW c \in Conns, c \notin O
  PROVE  Owners(F, [H EXCEPT ![t] = c], A, T, O \cup {c})
  <1> USE DEF Owners
  <1> DEFINE K == [H EXCEPT ![t] = c]
  <1>1. K \in Held /\ K[t] = c /\ \A s \in Callers \ {t} : K[s] = H[s]
    BY DEF Held
  <1>2. ~InSome(F, H, A, T, c)
    OBVIOUS
  <1> HIDE DEF K
  <1>3. Once(F, K, A, T)
    BY <1>1, <1>2 DEF Once, InSome
  <1>4. Apart(F, K, A, T)
    BY <1>1, <1>2 DEF Apart, InSome
  <1>5. ASSUME NEW d \in Conns
        PROVE  d \in O \cup {c} <=> InSome(F, K, A, T, d)
    <2>1. CASE d = c
      BY <1>1, <2>1 DEF InSome
    <2>2. CASE d # c
      BY <1>1, <2>2 DEF InSome
    <2>3. QED
      BY <2>1, <2>2
  <1>6. QED
    BY <1>1, <1>3, <1>4, <1>5 DEF K

\* What callers have and what is on its way to them own alike.
LEMMA HeldAlike ==
  ASSUME NEW F, NEW H, NEW A, NEW T, NEW O, Owners(F, H, A, T, O)
  PROVE  Owners(F, A, H, T, O)
  <1> USE DEF Owners
  <1>1. Once(F, A, H, T)
    BY DEF Once
  <1>2. Apart(F, A, H, T)
    <2>1. \A s, t \in Callers : A[s] \in Conns => A[s] # H[t]
      BY DEF Apart
    <2>2. QED
      BY <2>1 DEF Apart
  <1>3. \A c \in Conns : InSome(F, A, H, T, c) <=> InSome(F, H, A, T, c)
    BY DEF InSome
  <1>4. QED
    BY <1>1, <1>2, <1>3

\* A goroutine that closes nothing begins to close a connection of nobody.
LEMMA BeginClosing ==
  ASSUME NEW F, NEW H, NEW A, NEW T, NEW O, Owners(F, H, A, T, O),
         NEW g \in Goroutines, T[g] = <<>>, NEW c \in Conns, c \notin O
  PROVE  Owners(F, H, A, [T EXCEPT ![g] = <<c>>], O \cup {c})
  <1> USE DEF Owners
  <1> DEFINE U == [T EXCEPT ![g] = <<c>>]
  <1>1. /\ U \in Closing /\ Len(U[g]) = 1 /\ U[g][1] = c
        /\ \A h \in Goroutines \ {g} : U[h] = T[h]
    BY DEF Closing
  <1>2. ~InSome(F, H, A, T, c)
    OBVIOUS
  <1> HIDE DEF U
  <1>3. Once(F, H, A, U)
    <2>1. \A h \in Goroutines \ {g} : \A i \in 1 .. Len(U[h]) : U[h][i] # c
      BY <1>1, <1>2 DEF InSome
    <2>2. QED
      BY <1>1, <2>1 DEF Once
  <1>4. Apart(F, H, A, U)
    BY <1>1, <1>2 DEF Apart, InSome
  <1>5. ASSUME NEW d \in Conns
        PROVE  d \in O \cup {c} <=> InSome(F, H, A, U, d)
    <2>1. CASE d = c
      BY <1>1, <2>1 DEF InSome
    <2>2. CASE d # c
      <3>1. (\E h \in Goroutines : \E i \in 1 .. Len(U[h]) : U[h][i] = d)
              <=> \E h \in Goroutines : \E i \in 1 .. Len(T[h]) : T[h][i] = d
        BY <1>1, <2>2
      <3>2. QED
        BY <2>2, <3>1 DEF InSome
    <2>3. QED
      BY <2>1, <2>2
  <1>6. QED
    BY <1>1, <1>3, <1>4, <1>5 DEF U

\* A goroutine has closed the first connection of its list.
LEMMA EndClosing ==
  ASSUME NEW F, NEW H, NEW A, NEW T, NEW O, Owners(F, H, A, T, O),
         NEW g \in Goroutines, T[g] # <<>>
  PROVE  /\ Head(T[g]) \in O
         /\ Owners(F, H, A, [T EXCEPT ![g] = Tail(T[g])], O \ {Head(T[g])})
  <1> USE DEF Owners
  <1> DEFINE U == [T EXCEPT ![g] = Tail(T[g])]
             c == Head(T[g])
  <1>1. T[g] \in Seq(Conns)
    BY DEF Closing
  <1>2. /\ Tail(T[g]) \in Seq(Conns) /\ c \in Conns /\ c = T[g][1]
        /\ Len(T[g]) \in Nat \ {0} /\ Len(Tail(T[g])) = Len(T[g]) - 1
        /\ \A i \in 1 .. Len(T[g]) - 1 : Tail(T[g])[i] = T[g][i + 1]
    BY <1>1, TailFacts
  <1>3. /\ U \in Closing /\ U[g] = Tail(T[g])
        /\ \A h \in Goroutines \ {g} : U[h] = T[h]
    BY <1>2 DEF Closing
  <1>4. 1 \in 1 .. Len(T[g])
    BY <1>2
  <1> HIDE DEF U, c
  <1>5. c \in O
    BY <1>2, <1>4 DEF InSome
  <1>6. ASSUME NEW i \in 1 .. Len(U[g])
        PROVE  i + 1 \in 1 .. Len(T[g]) /\ i + 1 # 1 /\ U[g][i] = T[g][i + 1]
    <2>1. i \in 1 .. Len(T[g]) - 1
      BY <1>2, <1>3
    <2>2. U[g][i] = T[g][i + 1]
      BY <1>2, <1>3, <2>1
    <2>3. QED
      BY <1>2, <2>1, <2>2
  <1>7. ASSUME NEW i \in 1 .. Len(T[g]), i # 1
        PROVE  i - 1 \in 1 .. Len(U[g]) /\ U[g][i - 1] = T[g][i]
    <2>1. i - 1 \in 1 .. Len(U[g]) /\ (i - 1) + 1 = i
      BY <1>2, <1>3, <1>7
    <2>2. U[g][i - 1] = T[g][(i - 1) + 1]
      BY <1>6, <2>1
    <2>3. QED
      BY <2>1, <2>2
  <1>8. \A h \in Goroutines : \A i \in 1 .. Len(U[h]) :
          \E j \in 1 .. Len(T[h]) : U[h][i] = T[h][j] /\ ~(h = g /\ j = 1)
    BY <1>3, <1>6
  <1>9. Once(F, H, A, U)
    <2>1. ASSUME NEW h \in Goroutines, NEW k \in Goroutines,
                 NEW i \in 1 .. Len(U[h]), NEW j \in 1 .. Len(U[k]),
                 U[h][i] = U[k][j]
          PROVE  h = k /\ i = j
      <3>1. h = k
        BY <1>8, <2>1 DEF Once
      <3>2. CASE h = g
        <4>1. i + 1 = j + 1
          BY <1>6, <2>1, <3>1, <3>2 DEF Once
        <4>2. QED
          BY <3>1, <4>1
      <3>3. CASE h # g
        BY <1>3, <2>1, <3>1, <3>3 DEF Once
      <3>4. QED
        BY <3>2, <3>3
    <2>2. QED
      BY <2>1 DEF Once
  <1>10. Apart(F, H, A, U)
    <2>1. ASSUME NEW h \in Goroutines, NEW j \in 1 .. Len(U[h])
          PROVE  /\ \A i \in 1 .. Len(F) : U[h][j] # F[i]
                 /\ \A t \in Callers : U[h][j] # H[t] /\ U[h][j] # A[t]
      BY <1>8 DEF Apart
    <2>2. QED
      BY <2>1 DEF Apart
  <1>11. ASSUME NEW d \in Conns
         PROVE  d \in O \ {c} <=> InSome(F, H, A, U, d)
    <2>1. CASE d = c
      <3>1. ASSUME NEW h \in Goroutines, NEW j \in 1 .. Len(U[h]), U[h][j] = c
            PROVE  FALSE
        BY <1>2, <1>4, <1>8, <3>1 DEF Once
      <3>2. QED
        BY <1>2, <1>4, <2>1, <3>1 DEF InSome, Apart
    <2>2. CASE d # c
      <3>1. (\E h \in Goroutines : \E i \in 1 .. Len(U[h]) : U[h][i] = d)
              <=> \E h \in Goroutines : \E i \in 1 .. Len(T[h]) : T[h][i] = d
        <4>1. ASSUME NEW h \in Goroutines, NEW i \in 1 .. Len(T[h]),
                     T[h][i] = d
              PROVE  \E j \in 1 .. Len(U[h]) : U[h][j] = d
          <5>1. CASE h = g
            BY <1>2, <1>7, <2>2, <4>1, <5>1
          <5>2. CASE h # g
            BY <1>3, <4>1, <5>2
          <5>3. QED
            BY <5>1, <5>2
        <4>2. QED
          BY <1>8, <4>1
      <3>2. QED
        BY <2>2, <3>1 DEF InSome
    <2>3. QED
      BY <2>1, <2>2
  <1>12. QED
    BY <1>3, <1>5, <1>9, <1>10, <1>11 DEF U, c

Distinct(F) == \A i, j \in 1 .. Len(F) : F[i] = F[j] => i = j

Among(F, c) == \E i \in 1 .. Len(F) : F[i] = c

\* The connections of F are those of G and of D, each once.
Cut(F, G, D) ==
    /\ G \in Seq(Conns) /\ D \in Seq(Conns)
    /\ Distinct(G) /\ Distinct(D)
    /\ \A i \in 1 .. Len(G), j \in 1 .. Len(D) : G[i] # D[j]
    /\ \A c : Among(F, c) <=> Among(G, c) \/ Among(D, c)

\* Connections brought into another order are the same, each once.
LEMMA Rearranged ==
  ASSUME NEW F \in Seq(Conns), Distinct(F),
         NEW p \in Bijection(DOMAIN F, DOMAIN F),
         NEW C, C = [i \in DOMAIN F |-> F[p[i]]]
  PROVE  /\ C \in Seq(Conns) /\ Len(C) = Len(F) /\ Distinct(C)
         /\ \A c : Among(C, c) <=> Among(F, c)
  <1> USE DEF Distinct, Among
  <1>1. Len(F) \in Nat /\ DOMAIN F = 1 .. Len(F)
    OBVIOUS
  <1>2. /\ p \in [1 .. Len(F) -> 1 .. Len(F)]
        /\ \A i, j \in 1 .. Len(F) : p[i] = p[j] => i = j
        /\ \A j \in 1 .. Len(F) : \E i \in 1 .. Len(F) : p[i] = j
    BY <1>1 DEF Bijection, Injection, Surjection, IsInjective
  <1>3. ASSUME NEW i \in 1 .. Len(F)
        PROVE  p[i] \in 1 .. Len(F) /\ F[p[i]] \in Conns
    <2>1. p[i] \in 1 .. Len(F)
      BY <1>2
    <2>2. QED
      BY <2>1, ElementOfSeq
  <1>4. C \in [1 .. Len(F) -> Conns] /\ \A i \in 1 .. Len(F) : C[i] = F[p[i]]
    BY <1>1, <1>3
  <1>5. C \in Seq(Conns) /\ Len(C) = Len(F)
    BY ONLY <1>1, <1>4
  <1>6. \A i, j \in 1 .. Len(C) : C[i] = C[j] => i = j
    BY <1>2, <1>3, <1>4, <1>5
  <1>7. ASSUME NEW c
        PROVE  (\E i \in 1 .. Len(C) : C[i] = c)
                 <=> \E i \in 1 .. Len(F) : F[i] = c
    <2>1. ASSUME NEW i \in 1 .. Len(C), C[i] = c
          PROVE  p[i] \in 1 .. Len(F) /\ F[p[i]] = c
      BY <1>3, <1>4, <1>5, <2>1
    <2>2. ASSUME NEW j \in 1 .. Len(F), F[j] = c
          PROVE  \E i \in 1 .. Len(C) : C[i] = c
      <3>1. PICK i \in 1 .. Len(F) : p[i] = j
        BY <1>2
      <3>2. QED
        BY <1>4, <1>5, <2>2, <3>1
    <2>3. QED
      BY <2>1, <2>2
  <1>8. QED
    BY <1>5, <1>6, <1>7

\* A list with each connection once is cut in two, which share none.
LEMMA CutInTwo ==
  ASSUME NEW C \in Seq(Conns), Distinct(C),
         NEW n \in 0 .. Len(C), NEW G, G = SubSeq(C, 1, n),
         NEW D, D = SubSeq(C, n + 1, Len(C))
  PROVE  Cut(C, G, D)
  <1> USE DEF Distinct, Among, Cut
  <1>1. /\ G \in Seq(Conns) /\ Len(G) = n /\ Len(C) \in Nat
        /\ \A i \in 1 .. n : i \in 1 .. Len(C) /\ G[i] = C[i]
    OBVIOUS
  <1>2. /\ D \in Seq(Conns) /\ Len(D) = Len(C) - n
        /\ \A i \in 1 .. Len(C) - n : n + i \in 1 .. Len(C) /\ D[i] = C[n + i]
    OBVIOUS
  <1>3. \A i, j \in 1 .. Len(G) : G[i] = G[j] => i = j
    BY <1>1
  <1>4. ASSUME NEW i \in 1 .. Len(D), NEW j \in 1 .. Len(D), D[i] = D[j]
        PROVE  i = j
    <2>1. n + i = n + j
      BY <1>2, <1>4
    <2>2. QED
      BY <2>1
  <1>5. ASSUME NEW i \in 1 .. Len(G), NEW j \in 1 .. Len(D)
        PROVE  G[i] # D[j]
    <2>1. i # n + j
      BY <1>1, <1>2
    <2>2. QED
      BY <1>1, <1>2, <2>1
  <1>6. ASSUME NEW c
        PROVE  (\E i \in 1 .. Len(C) : C[i] = c)
                 <=> \/ \E i \in 1 .. Len(G) : G[i] = c
                     \/ \E i \in 1 .. Len(D) : D[i] = c
    <2>1. ASSUME NEW i \in 1 .. Len(C), C[i] = c, i > n
          PROVE  \E j \in 1 .. Len(D) : D[j] = c
      <3>1. i - n \in 1 .. Len(D) /\ n + (i - n) = i
        BY <1>2, <2>1
      <3>2. D[i - n] = C[n + (i - n)]
        BY <1>2, <3>1
      <3>3. QED
        BY <2>1, <3>1, <3>2
    <2>2. \A i \in 1 .. Len(C) : i <= n => i \in 1 .. Len(G)
      BY <1>1
    <2>3. ASSUME NEW i \in 1 .. Len(C), C[i] = c
          PROVE  \/ \E j \in 1 .. Len(G) : G[j] = c
                 \/ \E j \in 1 .. Len(D) : D[j] = c
      <3>1. CASE i <= n
        BY <1>1, <2>2, <2>3, <3>1
      <3>2. CASE i > n
        BY <2>1, <2>3, <3>2
      <3>3. i <= n \/ i > n
        OBVIOUS
      <3>4. QED
        BY <3>1, <3>2, <3>3
    <2>4. (\E i \in 1 .. Len(G) : G[i] = c) => \E i \in 1 .. Len(C) : C[i] = c
      BY <1>1
    <2>5. (\E i \in 1 .. Len(D) : D[i] = c) => \E i \in 1 .. Len(C) : C[i] = c
      BY <1>2
    <2>6. QED
      BY <2>3, <2>4, <2>5
  <1>7. QED
    BY <1>1, <1>2, <1>3, <1>4, <1>5, <1>6

\* The idle connections F are those of G and D; a goroutine that closes
\* nothing begins to close those of D.
LEMMA CutIdle ==
  ASSUME NEW F, NEW H, NEW A, NEW T, NEW O, Owners(F, H, A, T, O),
         NEW g \in Goroutines, T[g] = <<>>, NEW G, NEW D, Cut(F, G, D)
  PROVE  Owners(G, H, A, [T EXCEPT ![g] = D], O)
  <1> USE DEF Owners, Cut, Distinct, Among
  <1> DEFINE U == [T EXCEPT ![g] = D]
  <1>1. U \in Closing /\ U[g] = D /\ \A h \in Goroutines \ {g} : U[h] = T[h]
    BY DEF Closing
  <1> HIDE DEF U
  <1>2. \A i \in 1 .. Len(G) : \E j \in 1 .. Len(F) : F[j] = G[i]
    OBVIOUS
  <1>3. \A i \in 1 .. Len(D) : \E j \in 1 .. Len(F) : F[j] = D[i]
    OBVIOUS
  <1>4. Once(G, H, A, U)
    <2>1. ASSUME NEW h \in Goroutines \ {g}, NEW i \in 1 .. Len(U[h]),
                 NEW j \in 1 .. Len(D)
          PROVE  U[h][i] # D[j]
      BY <1>1, <1>3 DEF Apart
    <2>2. ASSUME NEW h \in Goroutines, NEW k \in Goroutines,
                 NEW i \in 1 .. Len(U[h]), NEW j \in 1 .. Len(U[k]),
                 U[h][i] = U[k][j]
          PROVE  h = k /\ i = j
      <3>1. CASE h = g /\ k = g
        BY <1>1, <2>2, <3>1
      <3>2. CASE h = g /\ k # g
        BY <1>1, <2>1, <2>2, <3>2
      <3>3. CASE h # g /\ k = g
        BY <1>1, <2>1, <2>2, <3>3
      <3>4. CASE h # g /\ k # g
        <4>1. U[h] = T[h] /\ U[k] = T[k]
          BY <1>1, <3>4
        <4>2. T[h][i] = T[k][j] /\ i \in 1 .. Len(T[h]) /\ j \in 1 .. Len(T[k])
          BY <2>2, <4>1
        <4>3. QED
          BY <4>2 DEF Once
      <3>5. QED
        BY <3>1, <3>2, <3>3, <3>4
    <2>3. QED
      BY <2>2 DEF Once
  <1>5. Apart(G, H, A, U)
    <2>1. \A i \in 1 .. Len(G), t \in Callers : G[i] # H[t] /\ G[i] # A[t]
      BY <1>2 DEF Apart
    <2>2. ASSUME NEW h \in Goroutines, NEW j \in 1 .. Len(U[h])
          PROVE  /\ \A i \in 1 .. Len(G) : U[h][j] # G[i]
                 /\ \A t \in Callers : U[h][j] # H[t] /\ U[h][j] # A[t]
      <3>1. CASE h = g
        BY <1>1, <1>3, <3>1 DEF Apart
      <3>2. CASE h # g
        BY <1>1, <1>2, <3>2 DEF Apart
      <3>3. QED
        BY <3>1, <3>2
    <2>3. QED
      BY <2>1, <2>2 DEF Apart
  <1>6. ASSUME NEW c \in Conns
        PROVE  c \in O <=> InSome(G, H, A, U, c)
    <2>1. (\E h \in Goroutines : \E i \in 1 .. Len(U[h]) : U[h][i] = c)
            <=> \/ \E i \in 1 .. Len(D) : D[i] = c
                \/ \E h \in Goroutines : \E i \in 1 .. Len(T[h]) : T[h][i] = c
      <3>1. ASSUME NEW h \in Goroutines, NEW i \in 1 .. Len(T[h]), T[h][i] = c
            PROVE  \E j \in 1 .. Len(U[h]) : U[h][j] = c
        <4>1. h # g
          BY <3>1
        <4>2. QED
          BY <1>1, <3>1, <4>1
      <3>2. QED
        BY <1>1, <3>1
    <2>2. QED
      BY <2>1 DEF InSome
  <1>7. QED
    BY <1>1, <1>4, <1>5, <1>6 DEF U

-----------------------------------------------------------------------------
(* Counting.                                                               *)

Creating(steps) == {t \in Callers : steps[t] = "creating"}

LEMMA CreatingCount ==
  ASSUME NEW steps, NEW t \in Callers, NEW step,
         steps = [s \in Callers |-> steps[s]]
  PROVE  LET after == [steps EXCEPT ![t] = step]
         IN  /\ Cardinality(Creating(steps)) \in Nat
             /\ steps[t] # "creating" /\ step # "creating" =>
                  Creating(after) = Creating(steps)
             /\ steps[t] # "creating" /\ step = "creating" =>
                  Cardinality(Creating(after)) = Cardinality(Creating(steps)) + 1
             /\ steps[t] = "creating" /\ step # "creating" =>
                  Cardinality(Creating(after)) = Cardinality(Creating(steps)) - 1
  <1> DEFINE after == [steps EXCEPT ![t] = step]
  <1>1. after[t] = step /\ \A s \in Callers : s # t => after[s] = steps[s]
    OBVIOUS
  <1> HIDE DEF after
  <1>2. IsFiniteSet(Creating(steps)) /\ Cardinality(Creating(steps)) \in Nat
    BY GoPoolAssumption, FS_Subset, FS_CardinalityType DEF Creating
  <1>3. CASE steps[t] # "creating" /\ step # "creating"
    BY <1>1, <1>2, <1>3 DEF Creating, after
  <1>4. CASE steps[t] # "creating" /\ step = "creating"
    <2>1. Creating(after) = Creating(steps) \cup {t} /\ t \notin Creating(steps)
      BY <1>1, <1>4 DEF Creating
    <2>2. QED
      BY <1>2, <1>4, <2>1, FS_AddElement DEF after
  <1>5. CASE steps[t] = "creating" /\ step # "creating"
    <2>1. Creating(after) = Creating(steps) \ {t} /\ t \in Creating(steps)
      BY <1>1, <1>5 DEF Creating
    <2>2. QED
      BY <1>2, <1>5, <2>1, FS_RemoveElement DEF after
  <1>6. CASE steps[t] = "creating" /\ step = "creating"
    BY <1>2, <1>6
  <1>7. QED
    BY <1>3, <1>4, <1>5, <1>6 DEF after

\* maybeOpenNewConnections asks for no more than the limit leaves.
LEMMA ToOpenBounds ==
  ASSUME TypeOK, NEW n \in Int
  PROVE  /\ ToOpen(n) \in Nat
         /\ maxOpen > 0 /\ ToOpen(n) > 0 => n + ToOpen(n) <= maxOpen
  <1>1. Cardinality(requests) \in Nat /\ maxOpen \in Nat
    <2>1. IsFiniteSet(requests)
      BY GoPoolAssumption, FS_Subset DEF TypeOK
    <2>2. QED
      BY <2>1, GoPoolAssumption, FS_CardinalityType DEF TypeOK
  <1>2. CASE ~closed /\ maxOpen > 0
    <2> DEFINE r == Cardinality(requests)
               m == Min({r, maxOpen - n})
    <2>1. \E x \in {r, maxOpen - n} : \A y \in {r, maxOpen - n} : x <= y
      BY <1>1
    <2>2. m \in Int /\ m <= maxOpen - n
      <3>1. m \in {r, maxOpen - n} /\ \A y \in {r, maxOpen - n} : m <= y
        BY <2>1 DEF Min
      <3>2. QED
        BY <1>1, <3>1
    <2> HIDE DEF m
    <2>3. \E x \in {0, m} : \A y \in {0, m} : x >= y
      BY <2>2
    <2>4. Max({0, m}) \in {0, m} /\ Max({0, m}) >= 0
      BY <2>3 DEF Max
    <2>5. ToOpen(n) = Max({0, m})
      BY <1>2 DEF ToOpen, m
    <2>6. QED
      BY <1>1, <2>2, <2>4, <2>5
  <1>3. QED
    BY <1>1, <1>2 DEF ToOpen, TypeOK

-----------------------------------------------------------------------------
(* The inductive invariant.                                                *)

\* Quit leaves in freeConns, until it ends, what it is closing.
IdleConns == IF quitter = "closing" THEN <<>> ELSE freeConns

OwnedOnce == Owners(IdleConns, has, answer, todo, open)

\* What a caller has, and what is on its way to it, is told by its step; it
\* closes a connection before it asks for another.
CallerState ==
    \A t \in Callers :
      /\ has[t] # NoConn <=> pc[t] \in {"using", "returning"}
      /\ answer[t] # NoConn => pc[t] \in {"waiting", "cancelled"}
      /\ todo[t] # <<>> => pc[t] \in {"idle", "again"}
      /\ ~closed /\ t \in requests => pc[t] = "waiting" /\ answer[t] = NoConn

\* Quit is the only one to close the client, and begins when it has.
OthersState ==
    /\ todo[Opener] # <<>> => opener = "idle"
    /\ quitter = "none" <=> ~closed
    /\ quitter \in {"none", "read"} => todo[Quitter] = <<>>
    /\ cleanerCh = "closed" => closed

IInv ==
    /\ TypeOK
    /\ OwnedOnce
    /\ NumOpenExact
    /\ CallerState
    /\ OthersState
    /\ CleanerWatches

LEMMA InitInvariant == Init => IInv
  <1> SUFFICES ASSUME Init PROVE IInv
    OBVIOUS
  <1> USE GoPoolAssumption DEF Init
  <1>1. TypeOK
    <2>1. <<>> \in Seq(Conns)
      OBVIOUS
    <2>2. /\ answer \in [Callers -> Conns \cup {NoConn, Closed}]
          /\ has \in [Callers -> Conns \cup {NoConn}]
          /\ todo \in [Goroutines -> Seq(Conns)]
      BY <2>1
    <2>3. pc \in [Callers -> {"idle", "again", "creating", "waiting",
                              "cancelled", "returning", "using"}]
      OBVIOUS
    <2>4. QED
      BY <2>1, <2>2, <2>3 DEF TypeOK
  <1>2. OwnedOnce
    <2> DEFINE none == <<>>
    <2>1. /\ IdleConns = none /\ none \in Seq(Conns) /\ 1 .. Len(none) = {}
          /\ \A t \in Callers : has[t] = NoConn /\ answer[t] = NoConn
          /\ \A g \in Goroutines : todo[g] = none
          /\ NoConn \notin Conns /\ open = {}
      BY DEF IdleConns
    <2>2. has \in Held /\ answer \in Held /\ todo \in Closing
      BY <2>1 DEF Held, Closing
    <2> HIDE DEF Init, none
    <2>3. Once(none, has, answer, todo)
      BY <2>1 DEF Once
    <2>4. Apart(none, has, answer, todo)
      BY <2>1 DEF Apart
    <2>5. \A c \in Conns : ~InSome(none, has, answer, todo, c)
      BY <2>1 DEF InSome
    <2>6. QED
      BY <2>1, <2>2, <2>3, <2>4, <2>5 DEF OwnedOnce, Owners
  <1>3. NumOpenExact
    <2>1. {t \in Callers : pc[t] = "creating"} = {}
      OBVIOUS
    <2>2. /\ Cardinality(open) = 0 /\ numOpen = 0 /\ openerCh = 0
          /\ opener = "idle"
      BY FS_EmptySet
    <2>3. Cardinality({t \in Callers : pc[t] = "creating"}) = 0
      BY <2>1, FS_EmptySet
    <2> HIDE DEF Init
    <2>4. QED
      BY <2>2, <2>3 DEF NumOpenExact
  <1>4. CallerState /\ OthersState /\ CleanerWatches
    BY DEF CallerState, OthersState, CleanerWatches, Goroutines
  <1>5. QED
    BY <1>1, <1>2, <1>3, <1>4 DEF IInv

\* What the steps need to know of the counts.
LEMMA Counts ==
  ASSUME TypeOK
  PROVE  /\ IsFiniteSet(open) /\ Cardinality(open) \in Nat
         /\ Cardinality(open) = 0 <=> open = {}
         /\ \A c : IF c \in open
                   THEN Cardinality(open \ {c}) = Cardinality(open) - 1
                   ELSE Cardinality(open \cup {c}) = Cardinality(open) + 1
         /\ Cardinality({t \in Callers : pc[t] = "creating"}) \in Nat
  <1>1. IsFiniteSet(open)
    BY GoPoolAssumption, FS_Subset DEF TypeOK
  <1>2. IsFiniteSet({t \in Callers : pc[t] = "creating"})
    BY GoPoolAssumption, FS_Subset
  <1>3. QED
    BY <1>1, <1>2, FS_CardinalityType, FS_EmptySet, FS_AddElement,
       FS_RemoveElement

\* An idle connection is counted.
LEMMA IdleCounted ==
  ASSUME IInv, ~closed, freeConns # <<>>
  PROVE  numOpen > 0
  <1>1. quitter = "none"
    BY DEF IInv, OthersState
  <1>2. Head(freeConns) \in open
    <2>1. Owners(freeConns, has, answer, todo, open)
      BY <1>1 DEF IInv, OwnedOnce, IdleConns
    <2>2. QED
      BY <2>1, TakeIdle
  <1>3. Cardinality(open) > 0
    BY <1>2, Counts DEF IInv
  <1>4. QED
    BY <1>3, Counts DEF IInv, NumOpenExact, TypeOK

\* A step of a caller that does not begin or end the making of a connection.
LEMMA SameNumOpen ==
  ASSUME TypeOK, NumOpenExact, NEW t \in Callers, NEW step,
         pc' = [pc EXCEPT ![t] = step], pc[t] # "creating", step # "creating",
         UNCHANGED <<numOpen, open, openerCh, opener>>
  PROVE  NumOpenExact'
  <1>1. \A s \in Callers : pc'[s] = "creating" <=> pc[s] = "creating"
    BY DEF TypeOK
  <1>2. {s \in Callers : pc'[s] = "creating"}
          = {s \in Callers : pc[s] = "creating"}
    BY <1>1
  <1>3. QED
    BY <1>2 DEF NumOpenExact

-----------------------------------------------------------------------------
(* putConn.                                                                *)

\* A connection that is open and that nobody owns is given to a caller, made
\* idle, or closed by the goroutine that puts it back.
LEMMA PutConnOwners ==
  ASSUME TypeOK, CallerState, OthersState,
         NEW g \in Goroutines, NEW c \in Conns, NEW bad \in BOOLEAN,
         PutConn(g, c, bad), UNCHANGED quitter,
         todo[g] = <<>>, g # Quitter,
         NEW h, NEW others, c \notin others,
         Owners(IdleConns, h, answer, todo, others)
  PROVE  Owners(IdleConns', h, answer', todo', others \cup {c})
  <1>1. CASE bad \/ ~Kept
    <2>1. todo' = [todo EXCEPT ![g] = <<c>>] /\ UNCHANGED <<IdleConns, answer>>
      BY <1>1 DEF PutConn, poolVars, IdleConns
    <2>2. QED
      BY <2>1, BeginClosing
  <1>2. CASE ~(bad \/ ~Kept) /\ requests # {}
    <2>1. PICK t \in requests : answer' = [answer EXCEPT ![t] = c]
      BY <1>2 DEF PutConn, Put
    <2>2. UNCHANGED <<IdleConns, todo>>
      BY <1>2 DEF PutConn, Put, IdleConns
    <2>3. answer[t] = NoConn /\ t \in Callers
      BY <1>2 DEF Kept, CallerState, TypeOK
    <2>4. Owners(IdleConns, answer, h, todo, others)
      BY HeldAlike
    <2>5. Owners(IdleConns, answer', h, todo, others \cup {c})
      BY <2>1, <2>3, <2>4, SetHeld, GoPoolAssumption
    <2>6. QED
      BY <2>2, <2>5, HeldAlike
  <1>3. CASE ~(bad \/ ~Kept) /\ requests = {}
    <2>1. quitter = "none"
      BY <1>3 DEF Kept, OthersState
    <2>2. IdleConns' = Append(IdleConns, c) /\ UNCHANGED <<answer, todo>>
      BY <1>3, <2>1 DEF PutConn, Put, IdleConns
    <2>3. QED
      BY <2>2, AddIdle
  <1>4. QED
    BY <1>1, <1>2, <1>3

\* The rest of the state.
LEMMA PutConnState ==
  ASSUME TypeOK, CallerState, OthersState, CleanerWatches,
         NEW g \in Goroutines, NEW c \in Conns, NEW bad \in BOOLEAN,
         PutConn(g, c, bad), UNCHANGED <<closed, maxLifetime>>, numOpen > 0
  PROVE  /\ freeConns' \in Seq(Conns) /\ requests' \subseteq requests
         /\ answer' \in [Callers -> Conns \cup {NoConn, Closed}]
         /\ cleanerCh' \in {"none", "open", "closed"}
         /\ todo' \in [Goroutines -> Seq(Conns)]
         /\ \A h \in Goroutines \ {g} : todo'[h] = todo[h]
         /\ \A t \in Callers :
              \/ answer'[t] = answer[t]
              \/ pc[t] = "waiting" /\ t \notin requests'
         /\ cleanerCh' = "closed" => closed
         /\ CleanerWatches'
  <1>1. CASE bad \/ ~Kept
    <2>1. todo' = [todo EXCEPT ![g] = <<c>>] /\ UNCHANGED poolVars
      BY <1>1 DEF PutConn
    <2>2. todo' \in [Goroutines -> Seq(Conns)]
      BY <2>1 DEF TypeOK
    <2>3. QED
      BY <2>1, <2>2 DEF poolVars, TypeOK, CleanerWatches, OthersState
  <1>2. CASE ~(bad \/ ~Kept) /\ requests # {}
    <2>1. PICK t \in requests : /\ requests' = requests \ {t}
                               /\ answer' = [answer EXCEPT ![t] = c]
                               /\ UNCHANGED <<freeConns, cleanerCh, todo>>
      BY <1>2 DEF PutConn, Put
    <2>2. pc[t] = "waiting" /\ t \in Callers
      BY <1>2 DEF Kept, CallerState, TypeOK
    <2>3. QED
      BY <2>1, <2>2 DEF TypeOK, CleanerWatches, OthersState
  <1>3. CASE ~(bad \/ ~Kept) /\ requests = {}
    <2>1. /\ freeConns' = Append(freeConns, c)
          /\ cleanerCh' = Started(maxLifetime)
          /\ UNCHANGED <<requests, answer, todo>> /\ ~closed
      BY <1>3 DEF PutConn, Put, Kept
    <2>2. freeConns' \in Seq(Conns)
      BY <2>1 DEF TypeOK
    <2>3. cleanerCh' \in {cleanerCh, "open"}
          /\ (maxLifetime > 0 => cleanerCh' # "none")
      BY <2>1 DEF Started, TypeOK
    <2>4. QED
      BY <2>1, <2>2, <2>3 DEF TypeOK, CleanerWatches, OthersState
  <1>4. QED
    BY <1>1, <1>2, <1>3

-----------------------------------------------------------------------------
(* The steps of a caller.                                                  *)

Steps == {"idle", "again", "creating", "waiting", "cancelled", "returning",
          "using"}

LEMMA CallersApart ==
  \A t \in Callers : /\ t \in Goroutines
                     /\ t # Opener /\ t # Cleaner /\ t # Quitter
  BY GoPoolAssumption DEF Goroutines

LEMMA ClosingOne ==
  ASSUME NEW T \in [Goroutines -> Seq(Conns)], NEW g, NEW c \in Conns
  PROVE  [T EXCEPT ![g] = <<c>>] \in [Goroutines -> Seq(Conns)]
  <1> DEFINE one == <<c>>
  <1>1. one \in Seq(Conns)
    OBVIOUS
  <1> HIDE DEF one
  <1>2. [T EXCEPT ![g] = one] \in [Goroutines -> Seq(Conns)]
    BY <1>1
  <1>3. QED
    BY <1>2 DEF one

LEMMA TakeFreeInvariant ==
  ASSUME IInv, NEW t \in Callers, TakeFree(t)
  PROVE  IInv'
  <1> DEFINE c == Head(freeConns)
  <1>1. /\ ~closed /\ quitter = "none" /\ quitter' = quitter
        /\ freeConns # <<>> /\ freeConns' = Tail(freeConns)
        /\ pc[t] = "idle" /\ has[t] = NoConn /\ todo[t] = <<>>
    BY DEF TakeFree, IInv, OthersState, CallerState
  <1>2. freeConns' \in Seq(Conns) /\ c \in Conns
    BY <1>1, TailFacts DEF IInv, TypeOK
  <1>3. /\ c \in open
        /\ Owners(IdleConns', has, answer, todo, open \ {c})
    <2>1. Owners(freeConns, has, answer, todo, open)
      BY <1>1 DEF IInv, OwnedOnce, IdleConns
    <2>2. QED
      BY <1>1, <2>1, TakeIdle DEF IdleConns
  <1>4. open \subseteq Conns /\ (open \ {c}) \cup {c} = open
        /\ c \notin open \ {c}
    BY <1>3 DEF IInv, TypeOK
  <1> HIDE DEF c
  <1>5. CASE Expired(c)
    <2>1. /\ todo' = [todo EXCEPT ![t] = <<c>>]
          /\ pc' = [pc EXCEPT ![t] = "again"]
          /\ UNCHANGED <<has, closed, numOpen, maxOpen, maxLifetime, requests,
                         answer, cleanerCh, openerCh, open, old, opener, quitter>>
      BY <1>5 DEF TakeFree, c, limits, connVars
    <2>2. TypeOK'
      <3>1. todo' \in [Goroutines -> Seq(Conns)]
        BY <1>2, <2>1, ClosingOne DEF IInv, TypeOK
      <3>2. QED
        BY <1>2, <2>1, <3>1 DEF IInv, TypeOK
    <2>3. OwnedOnce'
      <3>1. Owners(IdleConns', has, answer, todo', (open \ {c}) \cup {c})
        BY <1>1, <1>2, <1>3, <1>4, <2>1, BeginClosing, CallersApart
      <3>2. QED
        BY <1>4, <2>1, <3>1 DEF OwnedOnce
    <2>4. NumOpenExact'
      BY <1>1, <2>1, SameNumOpen DEF IInv
    <2>5. CallerState'
      BY <1>1, <2>1, CallersApart DEF IInv, CallerState, TypeOK
    <2>6. OthersState' /\ CleanerWatches'
      BY <1>1, <2>1, CallersApart DEF IInv, OthersState, CleanerWatches, TypeOK
    <2>7. QED
      BY <2>2, <2>3, <2>4, <2>5, <2>6 DEF IInv
  <1>6. CASE ~Expired(c)
    <2>1. /\ has' = [has EXCEPT ![t] = c]
          /\ pc' = [pc EXCEPT ![t] = "using"]
          /\ UNCHANGED <<todo, closed, numOpen, maxOpen, maxLifetime, requests,
                         answer, cleanerCh, openerCh, open, old, opener, quitter>>
      BY <1>6 DEF TakeFree, c, limits, connVars
    <2>2. TypeOK'
      BY <1>2, <2>1 DEF IInv, TypeOK
    <2>3. OwnedOnce'
      <3>1. Owners(IdleConns', has', answer, todo, (open \ {c}) \cup {c})
        BY <1>1, <1>2, <1>3, <1>4, <2>1, SetHeld, GoPoolAssumption
      <3>2. QED
        BY <1>4, <2>1, <3>1 DEF OwnedOnce
    <2>4. NumOpenExact'
      BY <1>1, <2>1, SameNumOpen DEF IInv
    <2>5. CallerState'
      BY <1>1, <1>2, <2>1, GoPoolAssumption DEF IInv, CallerState, TypeOK
    <2>6. OthersState' /\ CleanerWatches'
      BY <1>1, <2>1 DEF IInv, OthersState, CleanerWatches
    <2>7. QED
      BY <2>2, <2>3, <2>4, <2>5, <2>6 DEF IInv
  <1>7. QED
    BY <1>5, <1>6

\* The owners stay when nothing they are told by changes.
LEMMA SameOwners ==
  ASSUME OwnedOnce, UNCHANGED <<freeConns, quitter, has, answer, todo, open>>
  PROVE  OwnedOnce'
  <1>1. IdleConns' = IdleConns
    BY DEF IdleConns
  <1>2. QED
    BY <1>1 DEF OwnedOnce

\* A caller that asks has nothing, gets nothing and closes nothing.
LEMMA Asking ==
  ASSUME IInv, NEW t \in Callers, AskNew(t)
  PROVE  /\ pc[t] \in {"idle", "again"} /\ ~closed
         /\ has[t] = NoConn /\ answer[t] = NoConn /\ todo[t] = <<>>
  BY DEF AskNew, IInv, CallerState, TypeOK

LEMMA RequestInvariant ==
  ASSUME IInv, NEW t \in Callers, Request(t)
  PROVE  IInv'
  <1>1. /\ requests' = requests \cup {t}
        /\ pc' = [pc EXCEPT ![t] = "waiting"]
        /\ UNCHANGED <<closed, numOpen, maxOpen, maxLifetime, freeConns,
                       answer, cleanerCh, openerCh, open, old, has, opener,
                       quitter, todo>>
    BY DEF Request, limits, connVars
  <1>2. /\ pc[t] \in {"idle", "again"} /\ ~closed
        /\ has[t] = NoConn /\ answer[t] = NoConn /\ todo[t] = <<>>
    BY Asking DEF Request
  <1>3. TypeOK'
    BY <1>1 DEF IInv, TypeOK
  <1>4. OwnedOnce'
    BY <1>1, SameOwners DEF IInv
  <1>5. NumOpenExact'
    BY <1>1, <1>2, SameNumOpen DEF IInv
  <1>6. CallerState'
    BY <1>1, <1>2 DEF IInv, CallerState, TypeOK
  <1>7. OthersState' /\ CleanerWatches'
    BY <1>1 DEF IInv, OthersState, CleanerWatches
  <1>8. QED
    BY <1>3, <1>4, <1>5, <1>6, <1>7 DEF IInv

LEMMA CountNewInvariant ==
  ASSUME IInv, NEW t \in Callers, CountNew(t)
  PROVE  IInv'
  <1>1. /\ numOpen' = numOpen + 1
        /\ pc' = [pc EXCEPT ![t] = "creating"]
        /\ UNCHANGED <<closed, maxOpen, maxLifetime, freeConns, requests,
                       answer, cleanerCh, openerCh, open, old, has, opener,
                       quitter, todo>>
    BY DEF CountNew, limits, connVars, poolVars
  <1>2. /\ pc[t] \in {"idle", "again"} /\ ~closed
        /\ has[t] = NoConn /\ answer[t] = NoConn /\ todo[t] = <<>>
    BY Asking DEF CountNew
  <1>3. TypeOK'
    BY <1>1 DEF IInv, TypeOK
  <1>4. OwnedOnce'
    BY <1>1, SameOwners DEF IInv
  <1>5. NumOpenExact'
    <2>1. pc = [s \in Callers |-> pc[s]] /\ pc[t] # "creating"
      BY <1>2 DEF IInv, TypeOK
    <2>2. /\ Cardinality(Creating(pc)) \in Nat
          /\ Cardinality(Creating(pc')) = Cardinality(Creating(pc)) + 1
      BY <1>1, <2>1, CreatingCount
    <2>3. QED
      BY <1>1, <2>2, Counts DEF IInv, NumOpenExact, Creating, TypeOK
  <1>6. CallerState'
    BY <1>1, <1>2 DEF IInv, CallerState, TypeOK
  <1>7. OthersState' /\ CleanerWatches'
    BY <1>1 DEF IInv, OthersState, CleanerWatches
  <1>8. QED
    BY <1>3, <1>4, <1>5, <1>6, <1>7 DEF IInv

\* A connection is made that is not in use.
LEMMA NewConnFresh ==
  ASSUME TypeOK, CanConnect
  PROVE  NewConn \in Conns /\ NewConn \notin open
  <1>1. \E c \in Conns : c \notin open
    BY DEF TypeOK, CanConnect
  <1>2. QED
    BY <1>1 DEF NewConn

LEMMA CreateInvariant ==
  ASSUME IInv, NEW t \in Callers, Create(t)
  PROVE  IInv'
  <1>1. /\ pc[t] = "creating" /\ has[t] = NoConn /\ todo[t] = <<>>
        /\ answer[t] = NoConn
    BY DEF Create, IInv, CallerState, TypeOK
  <1>2. pc = [s \in Callers |-> pc[s]] /\ Cardinality(Creating(pc)) \in Nat
    <2>1. pc = [s \in Callers |-> pc[s]]
      BY DEF IInv, TypeOK
    <2>2. QED
      BY <2>1, CreatingCount
  <1>3. CASE ServersValid
    <2>1. /\ CanConnect /\ open' = open \cup {NewConn}
          /\ has' = [has EXCEPT ![t] = NewConn]
          /\ pc' = [pc EXCEPT ![t] = "using"]
          /\ UNCHANGED <<closed, numOpen, maxOpen, maxLifetime, freeConns,
                         requests, answer, cleanerCh, openerCh, old, opener,
                         quitter, todo>>
      BY <1>3 DEF Create, limits, poolVars
    <2>2. NewConn \in Conns /\ NewConn \notin open /\ NoConn \notin Conns
      BY <2>1, NewConnFresh, GoPoolAssumption DEF IInv
    <2>3. TypeOK'
      BY <2>1, <2>2 DEF IInv, TypeOK
    <2>4. OwnedOnce'
      <3>1. IdleConns' = IdleConns
        BY <2>1 DEF IdleConns
      <3>2. Owners(IdleConns, has', answer, todo, open \cup {NewConn})
        BY <1>1, <2>1, <2>2, SetHeld DEF IInv, OwnedOnce
      <3>3. QED
        BY <2>1, <3>1, <3>2 DEF OwnedOnce
    <2>5. NumOpenExact'
      <3>1. Cardinality(Creating(pc')) = Cardinality(Creating(pc)) - 1
        BY <1>1, <1>2, <2>1, CreatingCount
      <3>2. Cardinality(open') = Cardinality(open) + 1
        BY <2>1, <2>2, Counts DEF IInv
      <3>3. numOpen = Cardinality(open) + openerCh + Cardinality(Creating(pc))
                      + (IF opener = "idle" THEN 0 ELSE 1)
        BY DEF IInv, NumOpenExact, Creating
      <3>4. openerCh \in Nat /\ Cardinality(open) \in Nat
        BY Counts DEF IInv, TypeOK
      <3>5. numOpen' = Cardinality(open') + openerCh'
                         + Cardinality(Creating(pc'))
                         + (IF opener' = "idle" THEN 0 ELSE 1)
        BY <1>2, <2>1, <3>1, <3>2, <3>3, <3>4
      <3>6. QED
        BY <3>5 DEF NumOpenExact, Creating
    <2>6. CallerState'
      BY <1>1, <2>1, <2>2 DEF IInv, CallerState, TypeOK
    <2>7. OthersState' /\ CleanerWatches'
      BY <2>1 DEF IInv, OthersState, CleanerWatches
    <2>8. QED
      BY <2>3, <2>4, <2>5, <2>6, <2>7 DEF IInv
  <1>4. CASE ~ServersValid
    <2>1. /\ numOpen' = numOpen - 1 + ToOpen(numOpen - 1)
          /\ openerCh' = openerCh + ToOpen(numOpen - 1)
          /\ pc' = [pc EXCEPT ![t] = "idle"]
          /\ UNCHANGED <<closed, maxOpen, maxLifetime, freeConns, requests,
                         answer, cleanerCh, open, old, has, opener, quitter,
                         todo>>
      BY <1>4 DEF Create, MaybeOpen, limits, poolVars
    <2>2. Cardinality(Creating(pc')) = Cardinality(Creating(pc)) - 1
      BY <1>1, <1>2, <2>1, CreatingCount
    <2>3. Cardinality(Creating(pc')) \in Nat
      <3>1. IsFiniteSet(Creating(pc'))
        BY GoPoolAssumption, FS_Subset DEF Creating
      <3>2. QED
        BY <3>1, FS_CardinalityType
    <2>4. numOpen \in Nat /\ numOpen - 1 \in Nat
          /\ numOpen = Cardinality(open) + openerCh + Cardinality(Creating(pc))
                       + (IF opener = "idle" THEN 0 ELSE 1)
      BY <1>2, <2>2, <2>3, Counts DEF IInv, NumOpenExact, Creating, TypeOK
    <2>5. ToOpen(numOpen - 1) \in Nat
      BY <2>4, ToOpenBounds DEF IInv
    <2>6. NumOpenExact'
      <3>1. openerCh \in Nat /\ Cardinality(open) \in Nat
        BY Counts DEF IInv, TypeOK
      <3>2. numOpen' = Cardinality(open') + openerCh'
                         + Cardinality(Creating(pc'))
                         + (IF opener' = "idle" THEN 0 ELSE 1)
        BY <1>2, <2>1, <2>2, <2>4, <2>5, <3>1
      <3>3. QED
        BY <3>2 DEF NumOpenExact, Creating
    <2>7. TypeOK'
      BY <2>1, <2>4, <2>5 DEF IInv, TypeOK
    <2>8. OwnedOnce'
      BY <2>1, SameOwners DEF IInv
    <2>9. CallerState'
      BY <1>1, <2>1 DEF IInv, CallerState, TypeOK
    <2>10. OthersState' /\ CleanerWatches'
      BY <2>1 DEF IInv, OthersState, CleanerWatches
    <2>11. QED
      BY <2>6, <2>7, <2>8, <2>9, <2>10 DEF IInv
  <1>5. QED
    BY <1>3, <1>4

LEMMA RefuseInvariant ==
  ASSUME IInv, NEW t \in Callers, Refuse(t)
  PROVE  IInv'
  <1>1. /\ pc[t] \in {"idle", "again"}
        /\ pc' = [pc EXCEPT ![t] = "idle"]
        /\ UNCHANGED <<closed, numOpen, maxOpen, maxLifetime, freeConns,
                       requests, answer, cleanerCh, openerCh, open, old, has,
                       opener, quitter, todo>>
    BY DEF Refuse, limits, poolVars, connVars
  <1>2. TypeOK'
    BY <1>1 DEF IInv, TypeOK
  <1>3. OwnedOnce'
    BY <1>1, SameOwners DEF IInv
  <1>4. NumOpenExact'
    BY <1>1, SameNumOpen DEF IInv
  <1>5. CallerState'
    BY <1>1 DEF IInv, CallerState, TypeOK
  <1>6. OthersState' /\ CleanerWatches'
    BY <1>1 DEF IInv, OthersState, CleanerWatches
  <1>7. QED
    BY <1>2, <1>3, <1>4, <1>5, <1>6 DEF IInv

\* What is on its way to a caller reaches nobody for a moment.
LEMMA AnswerTaken ==
  ASSUME IInv, NEW t \in Callers, answer' = [answer EXCEPT ![t] = NoConn]
  PROVE  /\ Owners(IdleConns, has, answer', todo, open \ {answer[t]})
         /\ answer[t] \in Conns => answer[t] \in open
  <1>1. Owners(IdleConns, answer, has, todo, open)
    BY HeldAlike DEF IInv, OwnedOnce
  <1>2. /\ Owners(IdleConns, answer', has, todo, open \ {answer[t]})
        /\ answer[t] \in Conns => answer[t] \in open
    BY <1>1, ClearHeld
  <1>3. QED
    BY <1>2, HeldAlike

\* A caller without a connection finds in its channel a connection, or
\* nothing, or that it was closed; it goes on as it has to.
LEMMA AnswerGivesInvariant ==
  ASSUME IInv, NEW t \in Callers, pc[t] \in {"waiting", "cancelled"},
         NEW step \in {"idle", "using", "returning"},
         answer[t] \in Conns <=> step # "idle",
         has' = IF step = "idle" THEN has ELSE [has EXCEPT ![t] = answer[t]],
         answer' = [answer EXCEPT ![t] = NoConn],
         pc' = [pc EXCEPT ![t] = step],
         ~closed => t \notin requests \/ answer[t] # NoConn,
         UNCHANGED <<closed, numOpen, maxOpen, maxLifetime, freeConns,
                     requests, cleanerCh, openerCh, open, old, opener, quitter,
                     todo>>
  PROVE  IInv'
  <1>1. has[t] = NoConn /\ todo[t] = <<>> /\ NoConn \notin Conns
        /\ (~closed => t \notin requests)
    BY GoPoolAssumption DEF IInv, CallerState
  <1>2. TypeOK'
    <2>1. has' \in [Callers -> Conns \cup {NoConn}]
      BY DEF IInv, TypeOK
    <2>2. QED
      BY <2>1 DEF IInv, TypeOK
  <1>3. OwnedOnce'
    <2>1. IdleConns' = IdleConns
      BY DEF IdleConns
    <2>2. Owners(IdleConns, has, answer', todo, open \ {answer[t]})
          /\ (answer[t] \in Conns => answer[t] \in open)
      BY AnswerTaken
    <2>3. CASE step = "idle"
      <3>1. open \ {answer[t]} = open /\ has' = has
        BY <2>3 DEF IInv, TypeOK
      <3>2. QED
        BY <2>1, <2>2, <3>1 DEF OwnedOnce
    <2>4. CASE step # "idle"
      <3>1. /\ (open \ {answer[t]}) \cup {answer[t]} = open
            /\ answer[t] \notin open \ {answer[t]}
            /\ has' = [has EXCEPT ![t] = answer[t]]
        BY <2>2, <2>4
      <3>2. /\ Owners(IdleConns, has, answer', todo, open \ {answer[t]})
            /\ has[t] \notin Conns /\ answer[t] \in Conns
        BY <1>1, <2>2, <2>4
      <3>3. Owners(IdleConns, [has EXCEPT ![t] = answer[t]], answer', todo,
                   (open \ {answer[t]}) \cup {answer[t]})
        BY <3>1, <3>2, SetHeld
      <3>4. QED
        BY <2>1, <3>1, <3>3 DEF OwnedOnce
    <2>5. QED
      BY <2>3, <2>4
  <1>4. NumOpenExact'
    BY SameNumOpen DEF IInv
  <1>5. CallerState'
    <2>1. \A s \in Callers \ {t} : /\ has'[s] = has[s] /\ pc'[s] = pc[s]
                                  /\ answer'[s] = answer[s]
      BY DEF IInv, TypeOK
    <2>2. /\ pc'[t] = step /\ answer'[t] = NoConn
          /\ has'[t] # NoConn <=> step \in {"using", "returning"}
      BY <1>1 DEF IInv, TypeOK
    <2>3. QED
      BY <1>1, <2>1, <2>2 DEF IInv, CallerState
  <1>6. OthersState' /\ CleanerWatches'
    BY DEF IInv, OthersState, CleanerWatches
  <1>7. QED
    BY <1>2, <1>3, <1>4, <1>5, <1>6 DEF IInv

LEMMA ReceiveInvariant ==
  ASSUME IInv, NEW t \in Callers, Receive(t)
  PROVE  IInv'
  <1>1. /\ pc[t] = "waiting" /\ answer[t] # NoConn
        /\ answer' = [answer EXCEPT ![t] = NoConn]
        /\ UNCHANGED <<closed, numOpen, maxOpen, maxLifetime, freeConns,
                       requests, cleanerCh, openerCh, open, old, opener,
                       quitter, todo>>
    BY DEF Receive, limits, connVars
  <1>2. answer[t] \in Conns <=> answer[t] # Closed
    BY <1>1, GoPoolAssumption DEF IInv, TypeOK
  <1>3. CASE answer[t] = Closed
    <2>1. pc' = [pc EXCEPT ![t] = "idle"] /\ has' = has
      BY <1>3 DEF Receive
    <2>2. QED
      BY <1>1, <1>2, <1>3, <2>1, AnswerGivesInvariant
  <1>4. CASE answer[t] # Closed
    <2>1. /\ pc' = [pc EXCEPT ![t] = "using"]
          /\ has' = [has EXCEPT ![t] = answer[t]]
      BY <1>4 DEF Receive
    <2>2. QED
      BY <1>1, <1>2, <1>4, <2>1, AnswerGivesInvariant
  <1>5. QED
    BY <1>3, <1>4

LEMMA CancelledInvariant ==
  ASSUME IInv, NEW t \in Callers, Cancelled(t)
  PROVE  IInv'
  <1>1. /\ pc[t] = "cancelled"
        /\ answer' = [answer EXCEPT ![t] = NoConn]
        /\ UNCHANGED <<closed, numOpen, maxOpen, maxLifetime, freeConns,
                       requests, cleanerCh, openerCh, open, old, opener,
                       quitter, todo>>
    BY DEF Cancelled, limits, connVars
  <1>2. ~closed => t \notin requests
    BY <1>1 DEF IInv, CallerState
  <1>3. CASE answer[t] \notin Conns
    <2>1. pc' = [pc EXCEPT ![t] = "idle"] /\ has' = has
      BY <1>3 DEF Cancelled
    <2>2. QED
      BY <1>1, <1>2, <1>3, <2>1, AnswerGivesInvariant
  <1>4. CASE answer[t] \in Conns
    <2>1. /\ pc' = [pc EXCEPT ![t] = "returning"]
          /\ has' = [has EXCEPT ![t] = answer[t]]
      BY <1>4 DEF Cancelled
    <2>2. QED
      BY <1>1, <1>2, <1>4, <2>1, AnswerGivesInvariant
  <1>5. QED
    BY <1>3, <1>4

LEMMA CancelInvariant ==
  ASSUME IInv, NEW t \in Callers, Cancel(t)
  PROVE  IInv'
  <1>1. /\ pc[t] = "waiting" /\ requests' = requests \ {t}
        /\ pc' = [pc EXCEPT ![t] = "cancelled"]
        /\ UNCHANGED <<closed, numOpen, maxOpen, maxLifetime, freeConns,
                       answer, cleanerCh, openerCh, open, old, has, opener,
                       quitter, todo>>
    BY DEF Cancel, limits, connVars
  <1>2. TypeOK'
    BY <1>1 DEF IInv, TypeOK
  <1>3. OwnedOnce'
    BY <1>1, SameOwners DEF IInv
  <1>4. NumOpenExact'
    BY <1>1, SameNumOpen DEF IInv
  <1>5. CallerState'
    BY <1>1 DEF IInv, CallerState, TypeOK
  <1>6. OthersState' /\ CleanerWatches'
    BY <1>1 DEF IInv, OthersState, CleanerWatches
  <1>7. QED
    BY <1>2, <1>3, <1>4, <1>5, <1>6 DEF IInv

LEMMA ReturnInvariant ==
  ASSUME IInv, NEW t \in Callers, NEW bad \in BOOLEAN, Return(t, bad)
  PROVE  IInv'
  <1> DEFINE c == has[t]
  <1>1. /\ pc[t] \in {"using", "returning"}
        /\ PutConn(t, c, bad)
        /\ has' = [has EXCEPT ![t] = NoConn]
        /\ pc' = [pc EXCEPT ![t] = "idle"]
        /\ UNCHANGED <<closed, numOpen, maxOpen, maxLifetime, openerCh, open,
                       old, opener, quitter>>
    BY DEF Return, limits, connVars
  <1>2. c \in Conns /\ todo[t] = <<>>
    BY <1>1, GoPoolAssumption DEF IInv, CallerState, TypeOK
  <1>3. /\ c \in open
        /\ Owners(IdleConns, has', answer, todo, open \ {c})
    BY <1>1, <1>2, ClearHeld DEF IInv, OwnedOnce
  <1>4. numOpen > 0
    <2>1. Cardinality(open) > 0
      BY <1>3, Counts DEF IInv
    <2>2. QED
      BY <2>1, Counts DEF IInv, NumOpenExact, TypeOK
  <1> HIDE DEF c
  <1>5. OwnedOnce'
    <2>1. (open \ {c}) \cup {c} = open /\ c \notin open \ {c}
      BY <1>3
    <2>2. Owners(IdleConns', has', answer', todo', (open \ {c}) \cup {c})
      BY <1>1, <1>2, <1>3, <2>1, CallersApart, PutConnOwners DEF IInv
    <2>3. QED
      BY <1>1, <2>1, <2>2 DEF OwnedOnce
  <1>6. /\ freeConns' \in Seq(Conns) /\ requests' \subseteq requests
        /\ answer' \in [Callers -> Conns \cup {NoConn, Closed}]
        /\ cleanerCh' \in {"none", "open", "closed"}
        /\ todo' \in [Goroutines -> Seq(Conns)]
        /\ \A h \in Goroutines \ {t} : todo'[h] = todo[h]
        /\ \A s \in Callers :
             \/ answer'[s] = answer[s]
             \/ pc[s] = "waiting" /\ s \notin requests'
        /\ cleanerCh' = "closed" => closed
        /\ CleanerWatches'
    <2>1. /\ TypeOK /\ CallerState /\ OthersState /\ CleanerWatches
          /\ t \in Goroutines /\ UNCHANGED <<closed, maxLifetime>>
      BY <1>1, CallersApart DEF IInv
    <2>2. QED
      BY ONLY <1>1, <1>2, <1>4, <2>1, PutConnState, bad \in BOOLEAN
  <1>7. TypeOK'
    BY <1>1, <1>6 DEF IInv, TypeOK
  <1>8. NumOpenExact'
    BY <1>1, SameNumOpen DEF IInv
  <1>9. CallerState'
    <2>1. \A s \in Callers \ {t} : /\ has'[s] = has[s] /\ pc'[s] = pc[s]
                                  /\ todo'[s] = todo[s]
      BY <1>1, <1>6, CallersApart DEF IInv, TypeOK
    <2>2. /\ pc'[t] = "idle" /\ has'[t] = NoConn /\ answer'[t] = NoConn
          /\ ~closed => t \notin requests
      BY <1>1, <1>6 DEF IInv, TypeOK, CallerState
    <2>3. QED
      BY <1>1, <1>6, <2>1, <2>2 DEF IInv, CallerState
  <1>10. OthersState'
    BY <1>1, <1>6, CallersApart, GoPoolAssumption
    DEF IInv, OthersState, Goroutines
  <1>11. QED
    BY <1>5, <1>6, <1>7, <1>8, <1>9, <1>10 DEF IInv

LEMMA QuitConnInvariant ==
  ASSUME IInv, NEW g \in Goroutines, QuitConn(g)
  PROVE  IInv'
  <1> DEFINE c == Head(todo[g])
             n == ToOpen(numOpen - 1)
  <1>1. /\ todo[g] # <<>> /\ todo' = [todo EXCEPT ![g] = Tail(todo[g])]
        /\ UNCHANGED <<closed, maxOpen, maxLifetime, freeConns, requests,
                       answer, cleanerCh, pc, has, opener, quitter>>
    BY DEF QuitConn, limits, poolVars
  <1>2. /\ c \in open
        /\ Owners(IdleConns, has, answer, todo', open \ {c})
    BY <1>1, EndClosing DEF IInv, OwnedOnce
  <1>3. /\ open' = open \ {c} /\ old' = old \ {c}
        /\ \/ numOpen' = numOpen - 1 + n /\ openerCh' = openerCh + n
           \/ numOpen' = numOpen - 1 /\ openerCh' = openerCh
    BY <1>2 DEF QuitConn, MaybeOpen
  <1>4. /\ numOpen \in Nat /\ numOpen - 1 \in Nat /\ openerCh \in Nat
        /\ Cardinality(open) \in Nat
        /\ Cardinality(open \ {c}) = Cardinality(open) - 1
    <2>1. /\ Cardinality(open) \in Nat /\ Cardinality(open) # 0
          /\ Cardinality(open \ {c}) = Cardinality(open) - 1
      BY <1>2, Counts DEF IInv
    <2>2. QED
      BY <2>1, Counts DEF IInv, NumOpenExact, TypeOK
  <1>5. n \in Nat
    BY <1>4, ToOpenBounds DEF IInv
  <1>6. todo' \in [Goroutines -> Seq(Conns)]
    BY <1>1, TailFacts DEF IInv, TypeOK
  <1> HIDE DEF c, n
  <1>7. TypeOK'
    BY <1>1, <1>3, <1>4, <1>5, <1>6 DEF IInv, TypeOK
  <1>8. OwnedOnce'
    <2>1. IdleConns' = IdleConns
      BY <1>1 DEF IdleConns
    <2>2. QED
      BY <1>1, <1>2, <1>3, <2>1 DEF OwnedOnce
  <1>9. NumOpenExact'
    <2>1. /\ Cardinality({t \in Callers : pc[t] = "creating"}) \in Nat
          /\ pc' = pc /\ opener' = opener
      BY <1>1, Counts DEF IInv
    <2>2. QED
      BY <1>3, <1>4, <1>5, <2>1 DEF IInv, NumOpenExact
  <1>10. CallerState' /\ OthersState' /\ CleanerWatches'
    <2>1. \A h \in Goroutines : todo'[h] # <<>> => todo[h] # <<>>
      BY <1>1 DEF IInv, TypeOK
    <2>2. QED
      BY <1>1, <2>1, CallersApart
      DEF IInv, CallerState, OthersState, CleanerWatches, Goroutines
  <1>11. QED
    BY <1>7, <1>8, <1>9, <1>10 DEF IInv

-----------------------------------------------------------------------------
(* The steps of the opener and of the cleaner.                             *)

LEMMA OpenerTakesInvariant ==
  ASSUME IInv, OpenerTakes
  PROVE  IInv'
  <1>1. /\ opener = "idle" /\ todo[Opener] = <<>> /\ openerCh > 0
        /\ openerCh' = openerCh - 1
        /\ opener' \in {"drop", "new"}
        /\ UNCHANGED <<closed, numOpen, maxOpen, maxLifetime, freeConns,
                       requests, answer, cleanerCh, open, old, pc, has,
                       quitter, todo>>
    BY DEF OpenerTakes, limits, poolVars, connVars
  <1>2. TypeOK'
    BY <1>1 DEF IInv, TypeOK
  <1>3. OwnedOnce'
    BY <1>1, SameOwners DEF IInv
  <1>4. NumOpenExact'
    BY <1>1, Counts DEF IInv, NumOpenExact, TypeOK
  <1>5. CallerState' /\ OthersState' /\ CleanerWatches'
    BY <1>1 DEF IInv, CallerState, OthersState, CleanerWatches
  <1>6. QED
    BY <1>2, <1>3, <1>4, <1>5 DEF IInv

LEMMA OpenerDropsInvariant ==
  ASSUME IInv, OpenerDrops
  PROVE  IInv'
  <1>1. /\ opener = "drop" /\ opener' = "idle"
        /\ numOpen' = numOpen - 1
        /\ UNCHANGED <<closed, maxOpen, maxLifetime, freeConns, requests,
                       answer, cleanerCh, openerCh, open, old, pc, has,
                       quitter, todo>>
    BY DEF OpenerDrops, limits, poolVars, connVars
  <1>2. TypeOK' /\ NumOpenExact'
    <2>1. /\ Cardinality(open) \in Nat /\ openerCh \in Nat
          /\ Cardinality({t \in Callers : pc[t] = "creating"}) \in Nat
          /\ numOpen \in Nat
          /\ numOpen = Cardinality(open) + openerCh
                       + Cardinality({t \in Callers : pc[t] = "creating"}) + 1
      BY <1>1, Counts DEF IInv, NumOpenExact, TypeOK
    <2>2. numOpen' \in Nat
      BY <1>1, <2>1
    <2>3. TypeOK'
      BY <1>1, <2>2 DEF IInv, TypeOK
    <2>4. NumOpenExact'
      BY <1>1, <2>1 DEF NumOpenExact
    <2>5. QED
      BY <2>3, <2>4
  <1>3. OwnedOnce'
    BY <1>1, SameOwners DEF IInv
  <1>4. CallerState' /\ OthersState' /\ CleanerWatches'
    BY <1>1 DEF IInv, CallerState, OthersState, CleanerWatches
  <1>5. QED
    BY <1>2, <1>3, <1>4 DEF IInv

LEMMA OpenerOpensInvariant ==
  ASSUME IInv, OpenerOpens
  PROVE  IInv'
  <1>1. /\ opener = "new" /\ opener' = "idle"
        /\ UNCHANGED <<closed, maxOpen, maxLifetime, old, pc, has, quitter>>
    BY DEF OpenerOpens, limits
  <1>2. todo[Opener] = <<>>
    BY <1>1 DEF IInv, OthersState
  <1>3. /\ Cardinality(open) \in Nat /\ openerCh \in Nat
        /\ Cardinality({t \in Callers : pc[t] = "creating"}) \in Nat
        /\ numOpen \in Nat
        /\ numOpen = Cardinality(open) + openerCh
                     + Cardinality({t \in Callers : pc[t] = "creating"}) + 1
    BY <1>1, Counts DEF IInv, NumOpenExact, TypeOK
  <1>4. CASE ServersValid
    <2>1. /\ CanConnect /\ open' = open \cup {NewConn}
          /\ PutConn(Opener, NewConn, FALSE)
          /\ UNCHANGED <<numOpen, openerCh>>
      BY <1>4 DEF OpenerOpens
    <2>2. /\ NewConn \in Conns /\ NewConn \notin open /\ numOpen > 0
          /\ Opener \in Goroutines /\ Opener # Quitter
      BY <1>3, <2>1, NewConnFresh, GoPoolAssumption DEF IInv, Goroutines
    <2>3. OwnedOnce'
      <3>1. Owners(IdleConns', has, answer', todo', open \cup {NewConn})
        BY <1>1, <1>2, <2>1, <2>2, PutConnOwners DEF IInv, OwnedOnce
      <3>2. QED
        BY <1>1, <2>1, <3>1 DEF OwnedOnce
    <2>4. /\ freeConns' \in Seq(Conns) /\ requests' \subseteq requests
          /\ answer' \in [Callers -> Conns \cup {NoConn, Closed}]
          /\ cleanerCh' \in {"none", "open", "closed"}
          /\ todo' \in [Goroutines -> Seq(Conns)]
          /\ \A h \in Goroutines \ {Opener} : todo'[h] = todo[h]
          /\ \A s \in Callers :
               \/ answer'[s] = answer[s]
               \/ pc[s] = "waiting" /\ s \notin requests'
          /\ cleanerCh' = "closed" => closed
          /\ CleanerWatches'
      <3>1. /\ TypeOK /\ CallerState /\ OthersState /\ CleanerWatches
            /\ UNCHANGED <<closed, maxLifetime>>
        BY <1>1 DEF IInv
      <3>2. QED
        BY ONLY <2>1, <2>2, <3>1, PutConnState
    <2>5. TypeOK'
      BY <1>1, <2>1, <2>2, <2>4 DEF IInv, TypeOK
    <2>6. NumOpenExact'
      <3>1. Cardinality(open') = Cardinality(open) + 1
        BY <2>1, <2>2, Counts DEF IInv
      <3>2. QED
        BY <1>1, <1>3, <2>1, <3>1 DEF NumOpenExact
    <2>7. CallerState'
      <3>1. \A t \in Callers : todo'[t] = todo[t]
        BY <2>4, CallersApart
      <3>2. QED
        BY <1>1, <2>4, <3>1 DEF IInv, CallerState
    <2>8. OthersState'
      BY <1>1, <2>4, GoPoolAssumption DEF IInv, OthersState, Goroutines
    <2>9. QED
      BY <2>3, <2>4, <2>5, <2>6, <2>7, <2>8 DEF IInv
  <1>5. CASE ~ServersValid
    <2>1. /\ numOpen' = numOpen - 1 + ToOpen(numOpen - 1)
          /\ openerCh' = openerCh + ToOpen(numOpen - 1)
          /\ UNCHANGED <<freeConns, requests, answer, cleanerCh, open, todo>>
      BY <1>5 DEF OpenerOpens, MaybeOpen, poolVars
    <2>2. ToOpen(numOpen - 1) \in Nat /\ numOpen - 1 \in Nat
      BY <1>3, ToOpenBounds DEF IInv
    <2>3. TypeOK'
      <3>1. numOpen' \in Nat /\ openerCh' \in Nat
        BY <1>3, <2>1, <2>2
      <3>2. QED
        BY <1>1, <2>1, <3>1 DEF IInv, TypeOK
    <2>4. OwnedOnce'
      BY <1>1, <2>1, SameOwners DEF IInv
    <2>5. NumOpenExact'
      BY <1>1, <1>3, <2>1, <2>2 DEF NumOpenExact
    <2>6. CallerState' /\ OthersState' /\ CleanerWatches'
      BY <1>1, <2>1 DEF IInv, CallerState, OthersState, CleanerWatches
    <2>7. QED
      BY <2>3, <2>4, <2>5, <2>6 DEF IInv
  <1>6. QED
    BY <1>4, <1>5

LEMMA CleanInvariant ==
  ASSUME IInv, Clean
  PROVE  IInv'
  <1>1. /\ cleanerCh # "none" /\ todo[Cleaner] = <<>>
        /\ UNCHANGED <<closed, numOpen, maxOpen, maxLifetime, requests,
                       answer, openerCh, open, old, pc, has, opener, quitter>>
    BY DEF Clean, limits, connVars
  <1>2. NumOpenExact'
    BY <1>1 DEF IInv, NumOpenExact
  <1>3. CASE closed \/ numOpen = 0 \/ maxLifetime = 0
    <2>1. cleanerCh' = "none" /\ UNCHANGED <<freeConns, todo>>
      BY <1>3 DEF Clean
    <2>2. TypeOK' /\ CallerState' /\ OthersState'
      BY <1>1, <2>1 DEF IInv, TypeOK, CallerState, OthersState
    <2>3. OwnedOnce'
      BY <1>1, <2>1, SameOwners DEF IInv
    <2>4. CleanerWatches'
      BY <1>1, <1>3, <2>1, IdleCounted DEF CleanerWatches
    <2>5. QED
      BY <1>2, <2>2, <2>3, <2>4 DEF IInv
  <1>4. CASE ~(closed \/ numOpen = 0 \/ maxLifetime = 0)
    <2>1. PICK conns \in Arrangements, n \in 0 .. Len(freeConns) :
            /\ freeConns' = SubSeq(conns, 1, n)
            /\ todo' = [todo EXCEPT ![Cleaner] =
                          SubSeq(conns, n + 1, Len(conns))]
            /\ UNCHANGED cleanerCh
      BY <1>4 DEF Clean
    <2>2. PICK p \in Bijection(DOMAIN freeConns, DOMAIN freeConns) :
            conns = [i \in DOMAIN freeConns |-> freeConns[p[i]]]
      BY DEF Arrangements
    <2>3. /\ quitter = "none" /\ quitter' = "none" /\ cleanerCh' = "open"
          /\ IdleConns = freeConns /\ IdleConns' = freeConns'
      BY <1>1, <1>4, <2>1 DEF IInv, TypeOK, OthersState, IdleConns
    <2> DEFINE left == SubSeq(conns, 1, n)
               cut == SubSeq(conns, n + 1, Len(conns))
    <2>4. freeConns \in Seq(Conns) /\ Distinct(freeConns)
      BY <2>3 DEF IInv, OwnedOnce, Owners, Once, Distinct
    <2>5. /\ conns \in Seq(Conns) /\ Len(conns) = Len(freeConns)
          /\ Distinct(conns)
          /\ \A c : Among(conns, c) <=> Among(freeConns, c)
      BY ONLY <2>2, <2>4, Rearranged
    <2>6. Cut(freeConns, left, cut)
      <3>1. Cut(conns, left, cut)
        BY <2>5, CutInTwo
      <3>2. QED
        BY <2>5, <3>1 DEF Cut
    <2>7. Cleaner \in Goroutines
      BY DEF Goroutines
    <2>8. freeConns' = left /\ todo' = [todo EXCEPT ![Cleaner] = cut]
      BY <2>1
    <2> HIDE DEF left, cut
    <2>9. OwnedOnce'
      <3>1. Owners(freeConns, has, answer, todo, open)
        BY <2>3 DEF IInv, OwnedOnce
      <3>2. Owners(left, has, answer, [todo EXCEPT ![Cleaner] = cut], open)
        BY ONLY <1>1, <2>6, <2>7, <3>1, CutIdle
      <3>3. QED
        BY <1>1, <2>3, <2>8, <3>2 DEF OwnedOnce
    <2>10. TypeOK'
      <3>1. left \in Seq(Conns) /\ cut \in Seq(Conns)
        BY <2>6 DEF Cut
      <3>2. todo' \in [Goroutines -> Seq(Conns)]
        BY <2>8, <3>1 DEF IInv, TypeOK
      <3>3. QED
        BY <1>1, <2>3, <2>8, <3>1, <3>2 DEF IInv, TypeOK
    <2>11. CallerState' /\ OthersState'
      <3>1. \A g \in Goroutines \ {Cleaner} : todo'[g] = todo[g]
        BY <2>8 DEF IInv, TypeOK
      <3>2. /\ todo'[Opener] = todo[Opener] /\ todo'[Quitter] = todo[Quitter]
            /\ \A t \in Callers : todo'[t] = todo[t]
        BY <3>1, CallersApart, GoPoolAssumption DEF Goroutines
      <3>3. QED
        BY <1>1, <2>3, <3>2 DEF IInv, CallerState, OthersState
    <2>12. CleanerWatches'
      BY <2>3 DEF CleanerWatches
    <2>13. QED
      BY <1>2, <2>9, <2>10, <2>11, <2>12 DEF IInv
  <1>5. QED
    BY <1>3, <1>4

-----------------------------------------------------------------------------
(* Quit, the setters, and time.                                            *)

\* An answer that is no connection does not matter to the owners.
LEMMA OtherAnswers ==
  ASSUME NEW F, NEW H, NEW A, NEW T, NEW O, Owners(F, H, A, T, O),
         NEW B \in Held,
         \A t \in Callers : \/ B[t] = A[t]
                            \/ B[t] \notin Conns /\ A[t] \notin Conns
  PROVE  Owners(F, H, B, T, O)
  <1> USE DEF Owners
  <1>1. \A i \in 1 .. Len(F) : F[i] \in Conns
    BY ElementOfSeq
  <1>2. \A g \in Goroutines : \A i \in 1 .. Len(T[g]) : T[g][i] \in Conns
    BY ElementOfSeq DEF Closing
  <1>3. Once(F, H, B, T)
    BY DEF Once
  <1>4. Apart(F, H, B, T)
    BY <1>1, <1>2 DEF Apart
  <1>5. \A c \in Conns : InSome(F, H, B, T, c) <=> InSome(F, H, A, T, c)
    BY DEF InSome
  <1>6. QED
    BY <1>3, <1>4, <1>5

LEMMA QuitBeginsInvariant ==
  ASSUME IInv, QuitBegins
  PROVE  IInv'
  <1>1. /\ ~closed /\ closed' = TRUE
        /\ cleanerCh' = IF cleanerCh = "open" THEN "closed" ELSE cleanerCh
        /\ answer' = [t \in Callers |->
                        IF t \in requests THEN Closed ELSE answer[t]]
        /\ quitter' = "read"
        /\ UNCHANGED <<numOpen, maxOpen, maxLifetime, freeConns, requests,
                       openerCh, open, old, pc, has, opener, todo>>
    BY DEF QuitBegins, limits, connVars
  <1>2. quitter = "none" /\ todo[Quitter] = <<>>
    BY <1>1 DEF IInv, OthersState
  <1>3. answer' \in [Callers -> Conns \cup {NoConn, Closed}]
    BY <1>1 DEF IInv, TypeOK
  <1>4. TypeOK'
    BY <1>1, <1>3 DEF IInv, TypeOK
  <1>5. OwnedOnce'
    <2>1. IdleConns' = IdleConns
      BY <1>1, <1>2 DEF IdleConns
    <2>2. \A t \in Callers : \/ answer'[t] = answer[t]
                             \/ answer'[t] \notin Conns /\ answer[t] \notin Conns
      BY <1>1, GoPoolAssumption DEF IInv, CallerState
    <2>3. Owners(IdleConns, has, answer', todo, open)
      BY <1>3, <2>2, OtherAnswers DEF IInv, OwnedOnce, Held
    <2>4. QED
      BY <1>1, <2>1, <2>3 DEF OwnedOnce
  <1>6. NumOpenExact'
    BY <1>1 DEF IInv, NumOpenExact
  <1>7. CallerState'
    BY <1>1 DEF IInv, CallerState
  <1>8. OthersState' /\ CleanerWatches'
    BY <1>1, <1>2 DEF IInv, OthersState, CleanerWatches
  <1>9. QED
    BY <1>4, <1>5, <1>6, <1>7, <1>8 DEF IInv

LEMMA QuitReadsInvariant ==
  ASSUME IInv, QuitReads
  PROVE  IInv'
  <1>1. /\ quitter = "read" /\ quitter' = "closing"
        /\ todo' = [todo EXCEPT ![Quitter] = freeConns]
        /\ UNCHANGED <<closed, numOpen, maxOpen, maxLifetime, freeConns,
                       requests, answer, cleanerCh, openerCh, open, old, pc,
                       has, opener>>
    BY DEF QuitReads, limits, poolVars, connVars
  <1>2. /\ todo[Quitter] = <<>> /\ closed /\ Quitter \in Goroutines
        /\ IdleConns = freeConns /\ IdleConns' = <<>>
    BY <1>1 DEF IInv, OthersState, IdleConns, Goroutines
  <1>3. TypeOK'
    <2>1. todo' \in [Goroutines -> Seq(Conns)]
      BY <1>1 DEF IInv, TypeOK
    <2>2. QED
      BY <1>1, <2>1 DEF IInv, TypeOK
  <1>4. OwnedOnce'
    <2> DEFINE none == <<>>
    <2>1. none \in Seq(Conns) /\ 1 .. Len(none) = {}
      OBVIOUS
    <2>2. Owners(freeConns, has, answer, todo, open)
      BY <1>2 DEF IInv, OwnedOnce
    <2>3. Cut(freeConns, none, freeConns)
      BY <2>1, <2>2 DEF Owners, Once, Cut, Distinct, Among
    <2> HIDE DEF none
    <2>4. Owners(none, has, answer, [todo EXCEPT ![Quitter] = freeConns], open)
      BY ONLY <1>2, <2>2, <2>3, CutIdle
    <2>5. QED
      BY <1>1, <1>2, <2>4 DEF OwnedOnce, none
  <1>5. NumOpenExact'
    BY <1>1 DEF IInv, NumOpenExact
  <1>6. CallerState' /\ OthersState' /\ CleanerWatches'
    <2>1. /\ todo'[Opener] = todo[Opener]
          /\ \A t \in Callers : todo'[t] = todo[t]
      BY <1>1, CallersApart, GoPoolAssumption DEF IInv, TypeOK, Goroutines
    <2>2. QED
      BY <1>1, <1>2, <2>1 DEF IInv, CallerState, OthersState, CleanerWatches
  <1>7. QED
    BY <1>3, <1>4, <1>5, <1>6 DEF IInv

LEMMA QuitEndsInvariant ==
  ASSUME IInv, QuitEnds
  PROVE  IInv'
  <1>1. /\ quitter = "closing" /\ quitter' = "done" /\ freeConns' = <<>>
        /\ UNCHANGED <<closed, numOpen, maxOpen, maxLifetime, requests,
                       answer, cleanerCh, openerCh, open, old, pc, has,
                       opener, todo>>
    BY DEF QuitEnds, limits, connVars
  <1>2. TypeOK'
    BY <1>1 DEF IInv, TypeOK
  <1>3. OwnedOnce'
    <2>1. IdleConns' = IdleConns
      BY <1>1 DEF IdleConns
    <2>2. QED
      BY <1>1, <2>1 DEF IInv, OwnedOnce
  <1>4. NumOpenExact'
    BY <1>1 DEF IInv, NumOpenExact
  <1>5. CallerState' /\ OthersState' /\ CleanerWatches'
    BY <1>1 DEF IInv, CallerState, OthersState, CleanerWatches
  <1>6. QED
    BY <1>2, <1>3, <1>4, <1>5 DEF IInv

\* The owners and the counts do not depend on the limits, the cleaner's
\* channel and the age of connections.
LEMMA SettingsAside ==
  ASSUME IInv, UNCHANGED <<closed, numOpen, freeConns, requests, answer,
                           openerCh, open, pc, has, opener, quitter, todo>>
  PROVE  OwnedOnce' /\ NumOpenExact' /\ CallerState'
  <1>1. OwnedOnce'
    BY SameOwners DEF IInv
  <1>2. QED
    BY <1>1 DEF IInv, NumOpenExact, CallerState

LEMMA MaxOpenInvariant ==
  ASSUME IInv, NEW n \in MaxOpens, SetConnMaxOpen(n)
  PROVE  IInv'
  <1>1. /\ maxOpen' = n
        /\ UNCHANGED <<closed, numOpen, maxLifetime, freeConns, requests,
                       answer, cleanerCh, openerCh, open, old, pc, has,
                       opener, quitter, todo>>
    BY DEF SetConnMaxOpen, poolVars, connVars
  <1>2. TypeOK' /\ OthersState' /\ CleanerWatches'
    BY <1>1 DEF IInv, TypeOK, OthersState, CleanerWatches
  <1>3. QED
    BY <1>1, <1>2, SettingsAside DEF IInv

LEMMA MaxLifetimeInvariant ==
  ASSUME IInv, NEW d \in Lifetimes, SetConnMaxLifetime(d)
  PROVE  IInv'
  <1>1. /\ ~closed /\ maxLifetime' = d /\ cleanerCh' = Started(d)
        /\ UNCHANGED <<closed, numOpen, maxOpen, freeConns, requests,
                       answer, openerCh, open, old, pc, has, opener, quitter,
                       todo>>
    BY DEF SetConnMaxLifetime, connVars
  <1>2. cleanerCh' \in {cleanerCh, "open"} /\ cleanerCh \in {"none", "open"}
    BY <1>1 DEF Started, IInv, TypeOK, OthersState
  <1>3. TypeOK' /\ OthersState'
    BY <1>1, <1>2 DEF IInv, TypeOK, OthersState
  <1>4. CleanerWatches'
    BY <1>1, <1>2, IdleCounted DEF Started, CleanerWatches
  <1>5. QED
    BY <1>1, <1>3, <1>4, SettingsAside DEF IInv

LEMMA AgeInvariant ==
  ASSUME IInv, NEW c \in Conns, Age(c)
  PROVE  IInv'
  <1>1. /\ c \in open /\ old' = old \cup {c}
        /\ UNCHANGED <<closed, numOpen, maxOpen, maxLifetime, freeConns,
                       requests, answer, cleanerCh, openerCh, open, pc, has,
                       opener, quitter, todo>>
    BY DEF Age, limits, poolVars
  <1>2. TypeOK' /\ OthersState' /\ CleanerWatches'
    BY <1>1 DEF IInv, TypeOK, OthersState, CleanerWatches
  <1>3. QED
    BY <1>1, <1>2, SettingsAside DEF IInv

-----------------------------------------------------------------------------
LEMMA StepInvariant == IInv /\ [Next]_vars => IInv'
  <1> SUFFICES ASSUME IInv, [Next]_vars PROVE IInv'
    OBVIOUS
  <1>1. ASSUME NEW t \in Callers, Ask(t) \/ CallerStep(t) \/ Cancel(t)
        PROVE  IInv'
    <2>1. CASE TakeFree(t)
      BY <2>1, TakeFreeInvariant
    <2>2. CASE Request(t)
      BY <2>2, RequestInvariant
    <2>3. CASE CountNew(t)
      BY <2>3, CountNewInvariant
    <2>4. CASE Refuse(t)
      BY <2>4, RefuseInvariant
    <2>5. CASE Create(t)
      BY <2>5, CreateInvariant
    <2>6. CASE Receive(t)
      BY <2>6, ReceiveInvariant
    <2>7. CASE Cancelled(t)
      BY <2>7, CancelledInvariant
    <2>8. ASSUME NEW bad \in BOOLEAN, Return(t, bad) PROVE IInv'
      BY <2>8, ReturnInvariant
    <2>9. CASE Cancel(t)
      BY <2>9, CancelInvariant
    <2>10. QED
      BY <1>1, <2>1, <2>2, <2>3, <2>4, <2>5, <2>6, <2>7, <2>8, <2>9
      DEF Ask, CallerStep, AskAgain
  <1>2. ASSUME NEW g \in Goroutines, QuitConn(g) PROVE IInv'
    BY <1>2, QuitConnInvariant
  <1>3. CASE OpenerStep
    BY <1>3, OpenerTakesInvariant, OpenerDropsInvariant, OpenerOpensInvariant
    DEF OpenerStep
  <1>4. CASE Clean
    BY <1>4, CleanInvariant
  <1>5. CASE QuitBegins \/ QuitStep
    BY <1>5, QuitBeginsInvariant, QuitReadsInvariant, QuitEndsInvariant
    DEF QuitStep
  <1>6. ASSUME NEW n \in MaxOpens, SetConnMaxOpen(n) PROVE IInv'
    BY <1>6, MaxOpenInvariant
  <1>7. ASSUME NEW d \in Lifetimes, SetConnMaxLifetime(d) PROVE IInv'
    BY <1>7, MaxLifetimeInvariant
  <1>8. ASSUME NEW c \in Conns, Age(c) PROVE IInv'
    BY <1>8, AgeInvariant
  <1>9. CASE UNCHANGED vars
    <2>1. UNCHANGED <<closed, numOpen, maxOpen, maxLifetime, freeConns,
                      requests, answer, cleanerCh, openerCh, open, old, pc,
                      has, opener, quitter, todo>>
      BY <1>9 DEF vars, limits, poolVars, connVars
    <2>2. OwnedOnce'
      BY <2>1, SameOwners DEF IInv
    <2>3. QED
      BY <2>1, <2>2 DEF IInv, TypeOK, NumOpenExact, CallerState, OthersState,
                        CleanerWatches
  <1>10. QED
    BY <1>1, <1>2, <1>3, <1>4, <1>5, <1>6, <1>7, <1>8, <1>9 DEF Next

\* The inductive invariant: what callers have and wait for agrees with their
\* steps, connections have one owner each, and the counts are exact.
THEOREM Invariant == Spec => []IInv
  BY InitInvariant, StepInvariant, PTL DEF Spec

\* Every variable of the Go client's pool has its type; no count is negative.
THEOREM TypeCorrect == Spec => []TypeOK
  <1>1. IInv => TypeOK
    BY DEF IInv
  <1>2. QED
    BY <1>1, Invariant, PTL

\* numOpen, which putConn and _conn compare with the limit, is the number of
\* connections that are open or being opened, at every moment.
THEOREM NumOpenTheorem == Spec => []NumOpenExact
  <1>1. IInv => NumOpenExact
    BY DEF IInv
  <1>2. QED
    BY <1>1, Invariant, PTL

\* connectionCleaner runs whenever connections that may expire are idle.
THEOREM WatchedTheorem == Spec => []CleanerWatches
  <1>1. IInv => CleanerWatches
    BY DEF IInv
  <1>2. QED
    BY <1>1, Invariant, PTL

-----------------------------------------------------------------------------
(* One owner.                                                              *)

\* The place p of c in one of the lists.
PlaceIn(F, H, A, T, c, p) ==
    \/ \E i \in 1 .. Len(F) : F[i] = c /\ p = <<"idle", i>>
    \/ \E t \in Callers : H[t] = c /\ p = <<"caller", t>>
    \/ \E t \in Callers : A[t] = c /\ p = <<"answer", t>>
    \/ \E g \in Goroutines : \E i \in 1 .. Len(T[g]) :
         T[g][i] = c /\ p = <<g, i>>

\* Owners have each connection in one place.
LEMMA PlaceUnique ==
  ASSUME NEW F, NEW H, NEW A, NEW T, NEW O, Owners(F, H, A, T, O),
         NEW c \in Conns, NEW p, NEW q,
         PlaceIn(F, H, A, T, c, p), PlaceIn(F, H, A, T, c, q)
  PROVE  p = q
  <1>1. Once(F, H, A, T) /\ Apart(F, H, A, T)
    BY DEF Owners
  <1>2. ASSUME NEW i \in 1 .. Len(F), F[i] = c, p = <<"idle", i>>
        PROVE  p = q
    BY <1>1, <1>2 DEF PlaceIn, Once, Apart
  <1>3. ASSUME NEW t \in Callers, H[t] = c, p = <<"caller", t>>
        PROVE  p = q
    BY <1>1, <1>3 DEF PlaceIn, Once, Apart
  <1>4. ASSUME NEW t \in Callers, A[t] = c, p = <<"answer", t>>
        PROVE  p = q
    BY <1>1, <1>4 DEF PlaceIn, Once, Apart
  <1>5. ASSUME NEW g \in Goroutines, NEW i \in 1 .. Len(T[g]),
               T[g][i] = c, p = <<g, i>>
        PROVE  p = q
    BY <1>1, <1>5 DEF PlaceIn, Once, Apart
  <1>6. QED
    BY <1>2, <1>3, <1>4, <1>5 DEF PlaceIn

LEMMA PlacesAre ==
  ASSUME IInv, NEW c \in Conns, NEW p
  PROVE  p \in Places(c) <=> PlaceIn(IdleConns, has, answer, todo, c, p)
  <1>1. DOMAIN freeConns = 1 .. Len(freeConns)
    BY DEF IInv, TypeOK
  <1>2. \A g \in Goroutines : DOMAIN todo[g] = 1 .. Len(todo[g])
    <2>1. \A g \in Goroutines : todo[g] \in Seq(Conns)
      BY DEF IInv, TypeOK
    <2>2. QED
      BY <2>1
  <1>3. p \in {<<"idle", i>> : i \in {i \in DOMAIN freeConns :
                                freeConns[i] = c /\ quitter # "closing"}}
          <=> \E i \in 1 .. Len(IdleConns) :
                IdleConns[i] = c /\ p = <<"idle", i>>
    <2>1. CASE quitter = "closing"
      <3>1. 1 .. Len(IdleConns) = {}
        BY <2>1 DEF IdleConns
      <3>2. QED
        BY <2>1, <3>1
    <2>2. CASE quitter # "closing"
      BY <1>1, <2>2 DEF IdleConns
    <2>3. QED
      BY <2>1, <2>2
  <1>4. p \in UNION {{<<g, i>> : i \in {i \in DOMAIN todo[g] : todo[g][i] = c}} :
                       g \in Goroutines}
          <=> \E g \in Goroutines : \E i \in 1 .. Len(todo[g]) :
                todo[g][i] = c /\ p = <<g, i>>
    BY <1>2
  <1>5. QED
    BY <1>3, <1>4 DEF Places, PlaceIn

\* A connection in use belongs to one goroutine, whoever gives up waiting,
\* puts back, quits or sweeps at the same moment.
THEOREM OneOwnerTheorem == Spec => []OneOwner
  <1>1. ASSUME IInv, NEW c \in Conns
        PROVE  Cardinality(Places(c)) = IF c \in open THEN 1 ELSE 0
    <2>1. Owners(IdleConns, has, answer, todo, open)
      BY <1>1 DEF IInv, OwnedOnce
    <2>2. c \in open <=> InSome(IdleConns, has, answer, todo, c)
      BY <2>1 DEF Owners
    <2>3. InSome(IdleConns, has, answer, todo, c)
            <=> \E p : PlaceIn(IdleConns, has, answer, todo, c, p)
      BY DEF InSome, PlaceIn
    <2>4. CASE c \in open
      <3>1. PICK p : PlaceIn(IdleConns, has, answer, todo, c, p)
        BY <2>2, <2>3, <2>4
      <3>2. \A q : q \in Places(c) <=> q = p
        BY <1>1, <2>1, <3>1, PlacesAre, PlaceUnique
      <3>3. Places(c) = {p}
        BY <3>2
      <3>4. QED
        BY <2>4, <3>3, FS_Singleton
    <2>5. CASE c \notin open
      <3>1. \A q : q \notin Places(c)
        BY <1>1, <2>2, <2>3, <2>5, PlacesAre
      <3>2. Places(c) = {}
        BY <3>1
      <3>3. QED
        BY <2>5, <3>2, FS_EmptySet
    <2>6. QED
      BY <2>4, <2>5
  <1>2. IInv => OneOwner
    BY <1>1 DEF OneOwner
  <1>3. QED
    BY <1>2, Invariant, PTL

-----------------------------------------------------------------------------
(* The limit.                                                              *)

\* A connection that is closed, or was not made, may be made up for.
LEMMA AsksWithinLimit ==
  ASSUME IInv, MaybeOpen(numOpen - 1), numOpen' > numOpen, maxOpen > 0
  PROVE  numOpen' <= maxOpen
  <1>1. numOpen \in Nat /\ numOpen - 1 \in Int
    BY DEF IInv, TypeOK
  <1>2. /\ ToOpen(numOpen - 1) \in Nat
        /\ ToOpen(numOpen - 1) > 0 =>
             numOpen - 1 + ToOpen(numOpen - 1) <= maxOpen
    BY <1>1, ToOpenBounds DEF IInv
  <1>3. QED
    BY <1>1, <1>2 DEF MaybeOpen

\* The steps that add connections look at the limit first, each while it
\* holds the lock.
THEOREM LimitTheorem == Spec => LimitRespected
  <1>1. ASSUME IInv, [Next]_vars, numOpen' > numOpen, maxOpen > 0
        PROVE  numOpen' <= maxOpen
    <2>1. numOpen \in Nat /\ maxOpen \in Nat
      BY <1>1, GoPoolAssumption DEF IInv, TypeOK
    <2>2. CASE \E t \in Callers : CountNew(t)
      BY <1>1, <2>1, <2>2 DEF CountNew, Full
    <2>3. CASE MaybeOpen(numOpen - 1)
      BY <1>1, <2>3, AsksWithinLimit
    <2>4. CASE numOpen' \in {numOpen, numOpen - 1}
      BY <1>1, <2>1, <2>4
    <2>5. \/ \E t \in Callers : CountNew(t)
          \/ MaybeOpen(numOpen - 1)
          \/ numOpen' \in {numOpen, numOpen - 1}
      <3>1. ASSUME NEW t \in Callers, Ask(t) \/ CallerStep(t) \/ Cancel(t)
            PROVE  \/ CountNew(t) \/ MaybeOpen(numOpen - 1)
                   \/ numOpen' = numOpen
        BY <3>1 DEF Ask, CallerStep, AskAgain, TakeFree, Request, Refuse,
                    Create, Receive, Cancelled, Return, Cancel
      <3>2. ASSUME NEW g \in Goroutines, QuitConn(g)
            PROVE  MaybeOpen(numOpen - 1) \/ numOpen' \in {numOpen, numOpen - 1}
        BY <3>2 DEF QuitConn
      <3>3. CASE OpenerStep
        BY <3>3 DEF OpenerStep, OpenerTakes, OpenerDrops, OpenerOpens
      <3>4. CASE Clean \/ QuitBegins \/ QuitStep \/ UNCHANGED vars
        BY <3>4 DEF Clean, QuitBegins, QuitStep, QuitReads, QuitEnds, vars
      <3>5. ASSUME NEW n \in MaxOpens, SetConnMaxOpen(n)
            PROVE  numOpen' = numOpen
        BY <3>5 DEF SetConnMaxOpen
      <3>6. ASSUME NEW d \in Lifetimes, SetConnMaxLifetime(d)
            PROVE  numOpen' = numOpen
        BY <3>6 DEF SetConnMaxLifetime
      <3>7. ASSUME NEW c \in Conns, Age(c)
            PROVE  numOpen' = numOpen
        BY <3>7 DEF Age
      <3>8. QED
        BY <1>1, <3>1, <3>2, <3>3, <3>4, <3>5, <3>6, <3>7 DEF Next
    <2>6. QED
      BY <2>2, <2>3, <2>4, <2>5
  <1>2. IInv /\ [Next]_vars => [numOpen' > numOpen /\ maxOpen > 0
                                  => numOpen' <= maxOpen]_vars
    BY <1>1
  <1>3. QED
    BY <1>2, Invariant, PTL DEF Spec, LimitRespected
=============================================================================
