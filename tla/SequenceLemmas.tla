--------------------------- MODULE SequenceLemmas ---------------------------
(***************************************************************************)
(* What Min, Max, the folds and FlattenSeq of the community modules are    *)
(* for sequences of any length.  Induction is over a set of numbers that   *)
(* holds 0 and, with a number, the next one.                               *)
(***************************************************************************)
EXTENDS Totals, FiniteSetsExt, SequenceTheorems, WellFoundedInduction, TLAPS

LEMMA Least ==
  ASSUME NEW T \in SUBSET Nat, T # {}
  PROVE  Min(T) \in T /\ \A k \in T : Min(T) <= k
  <1> DEFINE Less == OpToRel(<, Nat)
  <1>1. IsWellFoundedOn(Less, Nat)
    BY NatLessThanWellFounded
  <1> HIDE DEF Less
  <1>2. \E x \in T : \A y \in T : ~ (<<y, x>> \in Less)
    BY <1>1, WFMin
  <1>3. \A x, y \in Nat : ~ (<<y, x>> \in Less) => x <= y
    BY DEF Less, OpToRel
  <1>4. \E m \in T : \A k \in T : m <= k
    BY <1>2, <1>3
  <1>5. QED
    BY <1>4 DEF Min

LEMMA Greatest ==
  ASSUME NEW n \in Nat, NEW T \in SUBSET (0 .. n), T # {}
  PROVE  Max(T) \in T /\ \A k \in T : k <= Max(T)
  <1> DEFINE Gap == {n - k : k \in T}
  <1>1. Gap \in SUBSET Nat /\ Gap # {}
    <2>1. PICK t : t \in T
      OBVIOUS
    <2>2. n - t \in Gap /\ \A k \in T : n - k \in Nat
      BY <2>1
    <2>3. QED
      BY <2>2
  <1>2. Min(Gap) \in Gap /\ \A g \in Gap : Min(Gap) <= g
    BY <1>1, Least
  <1> HIDE DEF Gap
  <1>3. PICK m \in T : Min(Gap) = n - m
    BY <1>2 DEF Gap
  <1>4. \A k \in T : n - m <= n - k
    BY <1>2, <1>3 DEF Gap
  <1>5. m \in T /\ \A k \in T : m >= k
    BY <1>4
  <1>6. QED
    BY <1>5 DEF Max

\* Induction up to n.
LEMMA UpTo ==
  ASSUME NEW n \in Nat, NEW T, 0 \in T, \A k \in 1 .. n : k - 1 \in T => k \in T
  PROVE  \A k \in 0 .. n : k \in T
  <1> DEFINE Missing == {k \in 0 .. n : k \notin T}
  <1> SUFFICES ASSUME Missing # {} PROVE FALSE
    OBVIOUS
  <1>1. Min(Missing) \in Missing /\ \A k \in Missing : Min(Missing) <= k
    <2>1. Missing \in SUBSET Nat
      OBVIOUS
    <2>2. QED
      BY <2>1, Least
  <1>2. PICK m \in 0 .. n : m \notin T /\ \A k \in 0 .. n : k \notin T => m <= k
    BY <1>1
  <1>3. m # 0
    BY <1>2
  <1>4. m - 1 \in 0 .. n /\ m \in 1 .. n /\ ~ (m <= m - 1)
    BY <1>3
  <1>5. QED
    BY <1>2, <1>4

-----------------------------------------------------------------------------
(* A value that each of n steps changes.                                   *)

Runs(g, v, step, n) ==
    g[0] = v /\ \A i \in 1 .. n : g[i] = step[i][g[i - 1]]

LEMMA RunExists ==
  ASSUME NEW V, NEW v \in V, NEW n \in Nat, NEW step \in [1 .. n -> [V -> V]]
  PROVE  \E g \in [0 .. n -> V] : Runs(g, v, step, n)
  <1> DEFINE T == {k \in 0 .. n : \E g \in [0 .. k -> V] : Runs(g, v, step, k)}
  <1>1. 0 \in T
    <2>1. [i \in 0 .. 0 |-> v] \in [0 .. 0 -> V]
          /\ Runs([i \in 0 .. 0 |-> v], v, step, 0)
      BY DEF Runs
    <2>2. QED
      BY <2>1
  <1>2. ASSUME NEW k \in 1 .. n, k - 1 \in T
        PROVE  k \in T
    <2>1. PICK g \in [0 .. k - 1 -> V] : Runs(g, v, step, k - 1)
      BY <1>2
    <2> DEFINE h == [i \in 0 .. k |-> IF i = k THEN step[k][g[k - 1]] ELSE g[i]]
    <2>2. h \in [0 .. k -> V]
      OBVIOUS
    <2>3. \A i \in 1 .. k : h[i] = step[i][h[i - 1]]
      <3>1. ASSUME NEW i \in 1 .. k, i # k
            PROVE  h[i] = step[i][h[i - 1]]
        <4>1. i \in 1 .. k - 1 /\ i - 1 \in 0 .. k /\ i - 1 # k /\ i \in 0 .. k
          BY <3>1
        <4>2. h[i] = g[i] /\ h[i - 1] = g[i - 1]
          BY <4>1, <3>1
        <4>3. QED
          BY <2>1, <4>1, <4>2 DEF Runs
      <3>2. h[k] = step[k][h[k - 1]]
        OBVIOUS
      <3>3. QED
        BY <3>1, <3>2
    <2>4. h[0] = v
      BY <2>1 DEF Runs
    <2>5. Runs(h, v, step, k)
      BY <2>3, <2>4 DEF Runs
    <2> HIDE DEF h
    <2>6. QED
      BY <2>2, <2>5
  <1> HIDE DEF T
  <1>3. \A k \in 0 .. n : k \in T
    BY <1>1, <1>2, UpTo
  <1>4. n \in T
    BY <1>3
  <1>5. QED
    BY <1>4 DEF T

\* Two runs agree as far as their steps do.
LEMMA RunsAgree ==
  ASSUME NEW n \in Nat, NEW k \in 0 .. n, NEW v, NEW f, NEW g, NEW s, NEW t,
         Runs(f, v, s, n), Runs(g, v, t, n), \A i \in 1 .. k : s[i] = t[i]
  PROVE  \A i \in 0 .. k : f[i] = g[i]
  <1> DEFINE T == {i \in 0 .. k : f[i] = g[i]}
  <1>1. 0 \in T
    BY DEF Runs
  <1>2. \A i \in 1 .. k : i - 1 \in T => i \in T
    BY DEF Runs
  <1>3. \A i \in 0 .. k : i \in T
    <2> HIDE DEF T
    <2>1. QED
      BY <1>1, <1>2, UpTo
  <1>4. QED
    BY <1>3

\* Steps that do nothing.
LEMMA RunsStill ==
  ASSUME NEW n \in Nat, NEW k \in 0 .. n, NEW g, \A i \in k + 1 .. n : g[i] = g[i - 1]
  PROVE  g[n] = g[k]
  <1> DEFINE T == {i \in 0 .. n - k : g[k + i] = g[k]}
  <1>1. 0 \in T
    OBVIOUS
  <1>2. ASSUME NEW i \in 1 .. n - k, i - 1 \in T
        PROVE  i \in T
    <2>1. k + i \in k + 1 .. n /\ k + i - 1 = k + (i - 1)
      OBVIOUS
    <2>2. g[k + i] = g[k + (i - 1)]
      BY <2>1
    <2>3. QED
      BY <1>2, <2>2
  <1>3. \A i \in 0 .. n - k : i \in T
    <2> HIDE DEF T
    <2>1. QED
      BY <1>1, <1>2, UpTo
  <1>4. n - k \in T /\ k + (n - k) = n
    BY <1>3
  <1>5. QED
    BY <1>4

\* The function that MapThenFoldSet defines for the elements of a sequence
\* exists.
Folds(f, v, step, n) ==
    f = [t \in SUBSET (1 .. n) |->
           IF t = {} THEN v ELSE step[Max(t)][f[t \ {Max(t)}]]]

LEMMA FoldExists ==
  ASSUME NEW V, NEW v \in V, NEW n \in Nat, NEW step \in [1 .. n -> [V -> V]]
  PROVE  \E f \in [SUBSET (1 .. n) -> V] : Folds(f, v, step, n)
  <1> DEFINE only(t) == [i \in 1 .. n |->
                           IF i \in t THEN step[i] ELSE [x \in V |-> x]]
             run(t) == CHOOSE g \in [0 .. n -> V] : Runs(g, v, only(t), n)
             f == [t \in SUBSET (1 .. n) |-> run(t)[n]]
  <1>1. ASSUME NEW t \in SUBSET (1 .. n)
        PROVE  run(t) \in [0 .. n -> V] /\ Runs(run(t), v, only(t), n)
    <2>1. only(t) \in [1 .. n -> [V -> V]]
      OBVIOUS
    <2> HIDE DEF only
    <2>2. \E g \in [0 .. n -> V] : Runs(g, v, only(t), n)
      BY <2>1, RunExists
    <2>3. QED
      BY <2>2
  <1>2. \A t \in SUBSET (1 .. n) : \A i \in 1 .. n :
          i \in t => only(t)[i] = step[i]
    OBVIOUS
  <1>3. ASSUME NEW t \in SUBSET (1 .. n), NEW i \in 1 .. n, i \notin t
        PROVE  run(t)[i] = run(t)[i - 1]
    <2>1. only(t)[i] = [x \in V |-> x]
      BY <1>3
    <2> HIDE DEF only, run
    <2>2. run(t)[i] = only(t)[i][run(t)[i - 1]] /\ run(t)[i - 1] \in V
      BY <1>1 DEF Runs
    <2>3. QED
      BY <2>1, <2>2
  <1>4. ASSUME NEW s \in SUBSET (1 .. n), NEW t \in SUBSET (1 .. n),
               NEW k \in 0 .. n, \A i \in 1 .. k : i \in s <=> i \in t
        PROVE  run(s)[k] = run(t)[k]
    <2>1. \A i \in 1 .. k : only(s)[i] = only(t)[i]
      BY <1>4
    <2> HIDE DEF only, run
    <2>2. Runs(run(s), v, only(s), n) /\ Runs(run(t), v, only(t), n)
      BY <1>1
    <2>3. PICK p, q, a, b : p = run(s) /\ q = run(t) /\ a = only(s) /\ b = only(t)
      OBVIOUS
    <2>4. Runs(p, v, a, n) /\ Runs(q, v, b, n) /\ \A i \in 1 .. k : a[i] = b[i]
      BY <2>1, <2>2, <2>3
    <2>5. \A i \in 0 .. k : p[i] = q[i]
      BY ONLY <2>4, RunsAgree, n \in Nat, k \in 0 .. n
    <2>6. QED
      BY <2>3, <2>5
  <1> HIDE DEF only, run
  <1>5. ASSUME NEW t \in SUBSET (1 .. n), t = {}
        PROVE  f[t] = v
    <2>1. \A i \in 0 + 1 .. n : run(t)[i] = run(t)[i - 1]
      BY <1>3, <1>5
    <2>2. run(t)[n] = run(t)[0]
      BY ONLY <2>1, RunsStill, n \in Nat
    <2>3. QED
      BY <1>1, <2>2 DEF Runs
  <1>6. ASSUME NEW t \in SUBSET (1 .. n), t # {}
        PROVE  f[t] = step[Max(t)][f[t \ {Max(t)}]]
    <2>1. t \in SUBSET (0 .. n)
      OBVIOUS
    <2>2. Max(t) \in t /\ \A i \in t : i <= Max(t)
      BY <1>6, <2>1, Greatest
    <2>3. PICK m \in 1 .. n : m = Max(t) /\ m \in t /\ \A i \in t : i <= m
      BY <2>2
    <2>4. \A i \in m + 1 .. n : run(t)[i] = run(t)[i - 1]
      <3>1. \A i \in m + 1 .. n : i \in 1 .. n /\ i \notin t
        BY <2>3
      <3>2. QED
        BY <1>3, <3>1
    <2>5. run(t)[n] = run(t)[m]
      <3>1. m \in 0 .. n
        OBVIOUS
      <3>2. QED
        BY ONLY <2>4, <3>1, RunsStill, n \in Nat
    <2>6. run(t)[m] = step[m][run(t)[m - 1]]
      BY <1>1, <1>2, <2>3 DEF Runs
    <2> DEFINE r == t \ {m}
    <2>7. r \in SUBSET (1 .. n) /\ \A i \in m .. n : i \in 1 .. n /\ i \notin r
      <3>1. \A i \in m .. n : i \in t => i = m
        BY <2>3
      <3>2. QED
        BY <3>1
    <2>8. \A i \in m - 1 + 1 .. n : run(r)[i] = run(r)[i - 1]
      BY <1>3, <2>7
    <2>9. run(r)[n] = run(r)[m - 1]
      <3>1. m - 1 \in 0 .. n
        OBVIOUS
      <3> HIDE DEF r
      <3>2. QED
        BY ONLY <2>8, <3>1, RunsStill, n \in Nat
    <2>10. run(r)[m - 1] = run(t)[m - 1]
      BY <1>4, <2>3, <2>7
    <2>11. QED
      BY <2>3, <2>5, <2>6, <2>7, <2>9, <2>10
  <1>7. f \in [SUBSET (1 .. n) -> V]
    BY <1>1
  <1>8. \A t \in SUBSET (1 .. n) :
          f[t] = IF t = {} THEN v ELSE step[Max(t)][f[t \ {Max(t)}]]
    BY <1>5, <1>6
  <1> HIDE DEF f
  <1>9. Folds(f, v, step, n)
    BY <1>7, <1>8 DEF Folds
  <1>10. QED
    BY <1>7, <1>9

LEMMA MaxUpTo ==
  ASSUME NEW k \in Nat, k # 0
  PROVE  1 .. k # {} /\ Max(1 .. k) = k /\ (1 .. k) \ {Max(1 .. k)} = 1 .. k - 1
  <1>1. 1 .. k \in SUBSET (0 .. k) /\ 1 .. k # {} /\ k \in 1 .. k
    OBVIOUS
  <1>2. Max(1 .. k) \in 1 .. k /\ \A i \in 1 .. k : i <= Max(1 .. k)
    BY <1>1, Greatest
  <1>3. Max(1 .. k) = k
    BY <1>1, <1>2
  <1>4. (1 .. k) \ {k} = 1 .. k - 1
    OBVIOUS
  <1>5. QED
    BY <1>1, <1>3, <1>4

-----------------------------------------------------------------------------
(* Sums and concatenations.                                                *)

LEMMA SeqMade ==
  ASSUME NEW V, NEW n \in Nat, NEW s \in [1 .. n -> V]
  PROVE  s \in Seq(V) /\ Len(s) = n
  OBVIOUS

LEMMA SeqParts ==
  ASSUME NEW V, NEW s \in Seq(V)
  PROVE  /\ Len(s) \in Nat /\ DOMAIN s = 1 .. Len(s) /\ s \in [1 .. Len(s) -> V]
         /\ \A i \in 1 .. Len(s) : s[i] \in V
  OBVIOUS

\* The first n elements, and the others.
LEMMA SubSeqParts ==
  ASSUME NEW V, NEW s \in Seq(V), NEW n \in 0 .. Len(s)
  PROVE  /\ SubSeq(s, 1, n) \in Seq(V) /\ Len(SubSeq(s, 1, n)) = n
         /\ \A i \in 1 .. n : SubSeq(s, 1, n)[i] = s[i]
         /\ SubSeq(s, n + 1, Len(s)) \in Seq(V)
         /\ Len(SubSeq(s, n + 1, Len(s))) = Len(s) - n
         /\ \A i \in 1 .. Len(s) - n : SubSeq(s, n + 1, Len(s))[i] = s[n + i]
  <1>1. PICK l \in Nat : l = Len(s)
    BY SeqParts
  <1>2. n \in Nat /\ n <= l /\ n + 1 \in Int /\ l \in Int
    BY <1>1
  <1>3. \A i \in 1 .. l : s[i] \in V
    BY <1>1
  <1>4. (\A i \in 1 .. n : s[i] \in V) /\ \A i \in n + 1 .. l : s[i] \in V
    BY <1>2, <1>3
  <1>5. /\ SubSeq(s, 1, n) \in Seq(V)
        /\ Len(SubSeq(s, 1, n)) = IF 1 <= n THEN n - 1 + 1 ELSE 0
        /\ \A i \in 1 .. n - 1 + 1 : SubSeq(s, 1, n)[i] = s[1 + i - 1]
    BY <1>2, <1>4, SubSeqProperties
  <1>6. /\ SubSeq(s, n + 1, l) \in Seq(V)
        /\ Len(SubSeq(s, n + 1, l)) = IF n + 1 <= l THEN l - (n + 1) + 1 ELSE 0
        /\ \A i \in 1 .. l - (n + 1) + 1 : SubSeq(s, n + 1, l)[i] = s[n + 1 + i - 1]
    BY <1>2, <1>4, SubSeqProperties
  <1>7. Len(SubSeq(s, 1, n)) = n /\ Len(SubSeq(s, n + 1, l)) = l - n
    BY <1>2, <1>5, <1>6
  <1>8. \A i \in 1 .. n : SubSeq(s, 1, n)[i] = s[i]
    <2>1. n - 1 + 1 = n /\ \A i \in 1 .. n : 1 + i - 1 = i
      BY <1>2
    <2>2. QED
      BY <1>5, <2>1
  <1>9. \A i \in 1 .. l - n : SubSeq(s, n + 1, l)[i] = s[n + i]
    <2>1. l - (n + 1) + 1 = l - n /\ \A i \in 1 .. l - n : n + 1 + i - 1 = n + i
      BY <1>2
    <2>2. QED
      BY <1>6, <2>1
  <1>10. QED
    BY <1>1, <1>5, <1>6, <1>7, <1>8, <1>9

\* x is s, of n elements, and then v, of l.
Concat(x, s, v, n, l) ==
    /\ x = s \o v /\ Len(x) = n + l /\ Len(s) = n /\ Len(v) = l
    /\ \A i \in 1 .. n : x[i] = s[i]
    /\ \A i \in 1 .. l : x[n + i] = v[i]

LEMMA ConcatParts ==
  ASSUME NEW V, NEW s \in Seq(V), NEW v \in Seq(V)
  PROVE  \E x \in Seq(V) : Concat(x, s, v, Len(s), Len(v))
  <1>1. /\ s \o v \in Seq(V) /\ Len(s \o v) = Len(s) + Len(v)
        /\ \A i \in 1 .. Len(s) : (s \o v)[i] = s[i]
        /\ \A i \in 1 .. Len(v) : (s \o v)[Len(s) + i] = v[i]
    BY ConcatProperties
  <1>2. QED
    BY <1>1 DEF Concat

Associates(s, v, w) == s \o (v \o w) = (s \o v) \o w

LEMMA ConcatThree ==
  ASSUME NEW V, NEW s \in Seq(V), NEW v \in Seq(V), NEW w \in Seq(V)
  PROVE  Associates(s, v, w)
  BY ConcatAssociative DEF Associates

\* z is s, of n elements, and then x.
Extended(z, s, x, n) ==
    /\ z = Append(s, x) /\ Len(z) = n + 1 /\ z[n + 1] = x
    /\ \A i \in 1 .. n : z[i] = s[i]

LEMMA AppendParts ==
  ASSUME NEW V, NEW s \in Seq(V), NEW x \in V
  PROVE  \E z \in Seq(V) : Extended(z, s, x, Len(s))
  <1>1. Append(s, x) \in Seq(V)
    OBVIOUS
  <1>2. Extended(Append(s, x), s, x, Len(s))
    BY DEF Extended
  <1>3. QED
    BY <1>1, <1>2

LEMMA FrontLast ==
  ASSUME NEW V, NEW s \in Seq(V), s # <<>>
  PROVE  Front(s) \in Seq(V) /\ Last(s) \in V /\ s = Append(Front(s), Last(s))
  <1>1. Len(s) \in Nat /\ Len(s) # 0
    OBVIOUS
  <1>2. PICK n \in Nat : n = Len(s) /\ n # 0
    BY <1>1
  <1>3. Front(s) = [i \in 1 .. n - 1 |-> s[i]] /\ n - 1 \in Nat /\ Last(s) = s[n]
    BY <1>2 DEF Front, Last
  <1>4. \A i \in 1 .. n : s[i] \in V
    BY <1>2
  <1>5. Front(s) \in [1 .. n - 1 -> V]
    BY <1>3, <1>4
  <1>6. Front(s) \in Seq(V) /\ Len(Front(s)) = n - 1
    BY <1>3, <1>5, SeqMade
  <1>7. PICK f \in Seq(V), x \in V : f = Front(s) /\ x = Last(s) /\ Len(f) = n - 1
    BY <1>2, <1>3, <1>4, <1>6
  <1>8. PICK z \in Seq(V) : Extended(z, f, x, Len(f))
    BY AppendParts
  <1>9. /\ z = Append(f, x) /\ Len(z) = n /\ z[n] = x
        /\ \A i \in 1 .. n - 1 : z[i] = f[i]
    <2>1. (n - 1) + 1 = n
      OBVIOUS
    <2>2. QED
      BY <1>7, <1>8, <2>1, Zenon DEF Extended
  <1>10. \A i \in 1 .. n : z[i] = s[i]
    <2>1. SUFFICES ASSUME NEW i \in 1 .. n PROVE z[i] = s[i]
      OBVIOUS
    <2>2. CASE i = n
      BY <1>3, <1>7, <1>9, <2>2
    <2>3. CASE i # n
      <3>1. i \in 1 .. n - 1
        BY <2>3
      <3>2. QED
        BY <1>3, <1>7, <1>9, <2>3, <3>1
    <2>4. QED
      BY <2>2, <2>3
  <1>11. z = s
    BY <1>2, <1>9, <1>10, SeqEqual
  <1>12. QED
    BY <1>7, <1>9, <1>11

LEMMA JoinAppend ==
  ASSUME NEW V, NEW s \in Seq(V), NEW v \in Seq(V), NEW x \in V
  PROVE  s \o Append(v, x) = Append(s \o v, x) /\ s \o v \in Seq(V)
  BY AppendIsConcat, ConcatAssociative, ConcatProperties

\* t[k] is the sum of the first k of the n numbers u.
Sums(t, u, n) == t[0] = 0 /\ \A i \in 1 .. n : t[i] = t[i - 1] + u[i]

LEMMA SumsExist ==
  ASSUME NEW n \in Nat, NEW u \in [1 .. n -> Nat]
  PROVE  \E t \in [0 .. n -> Nat] : Sums(t, u, n)
  <1> DEFINE step == [i \in 1 .. n |-> [x \in Nat |-> x + u[i]]]
  <1>1. step \in [1 .. n -> [Nat -> Nat]]
    OBVIOUS
  <1>2. \A i \in 1 .. n, x \in Nat : step[i][x] = x + u[i]
    OBVIOUS
  <1> HIDE DEF step
  <1>3. PICK t \in [0 .. n -> Nat] : Runs(t, 0, step, n)
    BY <1>1, RunExists
  <1>4. ASSUME NEW i \in 1 .. n
        PROVE  t[i] = t[i - 1] + u[i]
    <2>1. t[i - 1] \in Nat
      OBVIOUS
    <2>2. QED
      BY <1>2, <1>3, <2>1 DEF Runs
  <1>5. QED
    BY <1>3, <1>4 DEF Runs, Sums

\* The sums of numbers grow.
LEMMA SumsGrow ==
  ASSUME NEW n \in Nat, NEW u \in [1 .. n -> Nat], NEW t, Sums(t, u, n)
  PROVE  /\ \A i \in 0 .. n : t[i] \in Nat
         /\ \A i \in 0 .. n : \A j \in 0 .. i : t[j] <= t[i]
  <1> DEFINE T == {i \in 0 .. n :
                     \A j \in 0 .. i : t[j] \in Nat /\ t[j] <= t[i]}
  <1>1. 0 \in T
    BY DEF Sums
  <1>2. ASSUME NEW i \in 1 .. n, i - 1 \in T
        PROVE  i \in T
    <2>1. t[i] = t[i - 1] + u[i] /\ u[i] \in Nat /\ t[i - 1] \in Nat
      BY <1>2 DEF Sums
    <2>2. \A j \in 0 .. i - 1 : t[j] \in Nat /\ t[j] <= t[i - 1]
      BY <1>2
    <2>3. \A j \in 0 .. i : j = i \/ j \in 0 .. i - 1
      OBVIOUS
    <2>4. t[i] \in Nat /\ t[i - 1] <= t[i]
      BY <2>1
    <2>5. ASSUME NEW j \in 0 .. i
          PROVE  t[j] \in Nat /\ t[j] <= t[i]
      BY <2>1, <2>2, <2>3, <2>4
    <2>6. QED
      BY <2>5
  <1>3. \A i \in 0 .. n : i \in T
    <2> HIDE DEF T
    <2>1. QED
      BY <1>1, <1>2, UpTo
  <1>4. ASSUME NEW i \in 0 .. n
        PROVE  t[i] \in Nat /\ \A j \in 0 .. i : t[j] <= t[i]
    <2>1. i \in T /\ i \in 0 .. i
      BY <1>3
    <2>2. QED
      BY <2>1
  <1>5. QED
    BY <1>4

\* Numbers have one sum.
LEMMA SumsAgree ==
  ASSUME NEW n \in Nat, NEW k \in 0 .. n, NEW m \in Nat, k <= m, NEW u, NEW w,
         NEW s, Sums(s, u, n), NEW t, Sums(t, w, m), \A i \in 1 .. k : u[i] = w[i]
  PROVE  \A i \in 0 .. k : s[i] = t[i]
  <1> DEFINE T == {i \in 0 .. k : s[i] = t[i]}
  <1>1. 0 \in T
    BY DEF Sums
  <1>2. \A i \in 1 .. k : i - 1 \in T => i \in T
    BY DEF Sums
  <1>3. \A i \in 0 .. k : i \in T
    <2> HIDE DEF T
    <2>1. QED
      BY <1>1, <1>2, UpTo
  <1>4. QED
    BY <1>3

\* Each number up to the sum falls into one of the summands.
LEMMA SumsCover ==
  ASSUME NEW n \in Nat, NEW u \in [1 .. n -> Nat], NEW t, Sums(t, u, n),
         NEW x \in 1 .. t[n]
  PROVE  \E i \in 1 .. n : \E j \in 1 .. u[i] : x = t[i - 1] + j
  <1> DEFINE T == {i \in 0 .. n : x <= t[i]}
  <1>0. \A i \in 0 .. n : t[i] \in Nat
    BY SumsGrow
  <1>1. T \in SUBSET Nat /\ n \in T
    BY <1>0
  <1>2. Min(T) \in T /\ \A i \in T : Min(T) <= i
    BY <1>1, Least
  <1>3. PICK i \in 0 .. n : x <= t[i] /\ \A k \in 0 .. n : x <= t[k] => i <= k
    BY <1>2
  <1>4. i # 0 /\ i - 1 \in 0 .. n /\ i \in 1 .. n
    BY <1>3 DEF Sums
  <1>5. ~ (x <= t[i - 1])
    BY <1>3, <1>4
  <1>6. t[i] = t[i - 1] + u[i] /\ t[i] \in Nat /\ t[i - 1] \in Nat /\ u[i] \in Nat
    BY <1>0, <1>4 DEF Sums
  <1>7. x - t[i - 1] \in 1 .. u[i] /\ x = t[i - 1] + (x - t[i - 1])
    BY <1>3, <1>5, <1>6
  <1>8. QED
    BY <1>4, <1>7

\* What is left of the summands when the first off of them are taken away, or
\* those and a part of the next one: the first k - 1 and j, len in all.
TakenFrom(i, k, j) == IF i = k THEN j ELSE 0

Lasting(w, u, n, t, off, k, j, len) ==
    /\ n \in Nat /\ u \in [1 .. n -> Nat] /\ Sums(t, u, n)
    /\ k \in 1 .. n /\ j \in 1 .. u[k]
    /\ off \in {k - 1, k} /\ (off = k => j = u[k])
    /\ len = t[k - 1] + j
    /\ w \in [1 .. n - off -> Nat]
    /\ \A i \in 1 .. n - off : w[i] = u[off + i] - TakenFrom(off + i, k, j)

\* Its sums v.
LeftSums(v, w, n, t, off, k, j, len) ==
    /\ Sums(v, w, n - off) /\ v[n - off] = t[n] - len
    /\ \A i \in 1 .. n - off :
         /\ v[i - 1] \in Nat /\ t[off + i - 1] \in Nat
         /\ len + v[i - 1] = t[off + i - 1] + TakenFrom(off + i, k, j)

LEMMA SumsSuffix ==
  ASSUME NEW w, NEW u, NEW n, NEW t, NEW off, NEW k, NEW j, NEW len,
         Lasting(w, u, n, t, off, k, j, len)
  PROVE  \E v : LeftSums(v, w, n, t, off, k, j, len)
  <1>0. /\ n \in Nat /\ u \in [1 .. n -> Nat] /\ Sums(t, u, n)
        /\ k \in 1 .. n /\ j \in 1 .. u[k]
        /\ off \in {k - 1, k} /\ (off = k => j = u[k])
        /\ len = t[k - 1] + j
        /\ w \in [1 .. n - off -> Nat]
        /\ \A i \in 1 .. n - off : w[i] = u[off + i] - TakenFrom(off + i, k, j)
    BY DEF Lasting
  <1> USE <1>0
  <1>1. /\ \A i \in 0 .. n : t[i] \in Nat
        /\ \A i \in 0 .. n : \A i2 \in 0 .. i : t[i2] <= t[i]
        /\ t[0] = 0 /\ \A i \in 1 .. n : t[i] = t[i - 1] + u[i]
    BY SumsGrow DEF Sums
  <1>2. /\ t[k - 1] \in Nat /\ t[k] \in Nat /\ t[k] = t[k - 1] + u[k] /\ u[k] \in Nat
        /\ t[n] \in Nat /\ t[k] <= t[n]
    <2>1. k - 1 \in 0 .. n /\ k \in 0 .. n /\ n \in 0 .. n /\ k \in 0 .. n
      OBVIOUS
    <2>2. QED
      BY <1>1, <2>1
  <1>3. len \in Nat /\ len <= t[n] /\ len <= t[k]
    <2>1. PICK a \in Nat, b \in Nat, c \in Nat, d \in Nat :
            /\ a = t[k - 1] /\ b = t[k] /\ c = u[k] /\ d = t[n]
            /\ b = a + c /\ b <= d
      BY <1>2
    <2>2. j \in 1 .. c /\ len = a + j
      BY <2>1
    <2>3. b = a + c /\ b <= d
      BY ONLY <2>1
    <2>4. a + j \in Nat /\ a + j <= d /\ a + j <= b
      BY ONLY <2>2, <2>3, a \in Nat, b \in Nat, c \in Nat, d \in Nat
    <2>5. QED
      BY <2>1, <2>2, <2>4, Zenon
  <1>4. off \in Nat /\ off <= n /\ n - off \in Nat
    OBVIOUS
  <1> DEFINE v == [i \in 0 .. n - off |-> IF i = 0 THEN 0 ELSE t[off + i] - len]
  <1>5. v[0] = 0 /\ \A i \in 1 .. n - off : v[i] = t[off + i] - len
    BY <1>4
  <1>6. v[n - off] = t[n] - len
    <2>1. CASE n - off = 0
      <3>1. off = k /\ k = n
        BY <2>1
      <3>2. t[n] = len
        BY <1>2, <3>1
      <3>3. QED
        BY <1>3, <1>5, <2>1, <3>2
    <2>2. CASE n - off # 0
      <3>1. n - off \in 1 .. n - off /\ off + (n - off) = n
        BY <1>4, <2>2
      <3>2. QED
        BY <1>5, <3>1
    <2>3. QED
      BY <2>1, <2>2
  <1> HIDE DEF v
  <1>7. ASSUME NEW i \in 1 .. n - off
        PROVE  /\ v[i] = v[i - 1] + w[i] /\ v[i - 1] \in Nat /\ t[off + i - 1] \in Nat
               /\ len + v[i - 1] = t[off + i - 1] + TakenFrom(off + i, k, j)
    <2>1. PICK e \in 1 .. n : e = off + i /\ e - 1 = off + i - 1 /\ e \in 0 .. n
                              /\ e - 1 \in 0 .. n
      BY <1>4
    <2>2. PICK a \in Nat, b \in Nat, c \in Nat, l \in Nat, tk \in Nat, y \in Nat :
            /\ a = t[e - 1] /\ b = t[e] /\ c = u[e] /\ b = a + c
            /\ l = len /\ tk = t[k] /\ l <= tk /\ y = j
      <3>1. t[e - 1] \in Nat /\ t[e] \in Nat /\ u[e] \in Nat /\ t[e] = t[e - 1] + u[e]
        BY <1>1, <2>1
      <3>2. j \in Nat
        BY <1>2
      <3>3. QED
        BY <1>2, <1>3, <3>1, <3>2
    <2>3. b = a + c /\ l <= tk
      BY ONLY <2>2
    <2>4. PICK x \in Int, p \in Nat :
            x = v[i - 1] /\ p = TakenFrom(e, k, j) /\ x \in Nat /\ b - l = x + (c - p) /\ l + x = a + p
      <3>1. CASE i = 1
        <4>1. v[i - 1] = 0
          BY <1>5, <3>1
        <4>2. CASE off = k - 1
          <5>1. e = k /\ e - 1 = k - 1
            BY <2>1, <3>1, <4>2
          <5>2. TakenFrom(e, k, j) = y /\ l = a + y
            BY <2>2, <5>1 DEF TakenFrom
          <5>3. b - l = 0 + (c - y) /\ l + 0 = a + y /\ 0 \in Nat /\ 0 \in Int
            BY ONLY <2>3, <5>2, a \in Nat, b \in Nat, c \in Nat, l \in Nat, y \in Nat
          <5>4. QED
            BY <4>1, <5>2, <5>3, Zenon
        <4>3. CASE off = k
          <5>1. e - 1 = k /\ e # k
            BY <2>1, <3>1, <4>3
          <5>2. TakenFrom(e, k, j) = 0 /\ a = tk
            BY <2>2, <5>1 DEF TakenFrom
          <5>3. l = tk
            BY <1>2, <2>2, <4>3
          <5>4. b - l = 0 + (c - 0) /\ l + 0 = a + 0 /\ 0 \in Nat /\ 0 \in Int
            BY ONLY <2>3, <5>2, <5>3, a \in Nat, b \in Nat, c \in Nat, l \in Nat
          <5>5. QED
            BY <4>1, <5>2, <5>4, Zenon
        <4>4. QED
          BY <4>2, <4>3
      <3>2. CASE i # 1
        <4>1. i - 1 \in 1 .. n - off /\ off + (i - 1) = e - 1
              /\ k \in 0 .. e - 1 /\ e # k
          BY <1>4, <2>1, <3>2
        <4>2. v[i - 1] = a - l /\ TakenFrom(e, k, j) = 0
          BY <1>5, <2>2, <4>1 DEF TakenFrom
        <4>3. tk <= a
          BY <1>1, <2>1, <2>2, <4>1
        <4>4. a - l \in Nat /\ a - l \in Int /\ 0 \in Nat
              /\ b - l = (a - l) + (c - 0) /\ l + (a - l) = a + 0
          BY ONLY <2>3, <4>3, a \in Nat, b \in Nat, c \in Nat, l \in Nat, tk \in Nat
        <4>5. QED
          BY <4>2, <4>4, Zenon
      <3>3. QED
        BY <3>1, <3>2
    <2>5. w[i] = c - p
      BY <2>1, <2>2, <2>4
    <2>6. v[i] = b - l
      BY <1>5, <2>1, <2>2
    <2>7. QED
      BY <2>1, <2>2, <2>4, <2>5, <2>6, Zenon
  <1>8. Sums(v, w, n - off)
    BY <1>5, <1>7 DEF Sums
  <1>9. LeftSums(v, w, n, t, off, k, j, len)
    BY <1>6, <1>7, <1>8 DEF LeftSums
  <1>10. QED
    BY <1>9

LEMMA TotalSums ==
  ASSUME NEW s \in Seq(Nat), NEW t, Sums(t, s, Len(s))
  PROVE  Total(s) = t[Len(s)] /\ Total(s) \in Nat
  <1> DEFINE n == Len(s)
             Is(c) == c = [u \in SUBSET (1 .. n) |->
                             IF u = {} THEN 0 ELSE c[u \ {Max(u)}] + s[Max(u)]]
             c0 == CHOOSE c : Is(c)
  <1>1. n \in Nat /\ DOMAIN s = 1 .. n /\ s \in [1 .. n -> Nat]
    OBVIOUS
  <1>2. Total(s) = c0[1 .. n]
    BY <1>1 DEF Total, FoldLeft, MapThenFoldSet
  <1> HIDE DEF n
  <1>3. \E c : Is(c)
    <2> DEFINE step == [i \in 1 .. n |-> [x \in Nat |-> x + s[i]]]
    <2>1. step \in [1 .. n -> [Nat -> Nat]]
      BY <1>1
    <2>2. \A i \in 1 .. n, x \in Nat : step[i][x] = x + s[i]
      OBVIOUS
    <2> HIDE DEF step
    <2>3. PICK c \in [SUBSET (1 .. n) -> Nat] : Folds(c, 0, step, n)
      BY <1>1, <2>1, FoldExists
    <2>4. ASSUME NEW u \in SUBSET (1 .. n), u # {}
          PROVE  step[Max(u)][c[u \ {Max(u)}]] = c[u \ {Max(u)}] + s[Max(u)]
      <3>1. u \in SUBSET (0 .. n)
        BY <1>1
      <3>2. Max(u) \in u
        BY <1>1, <2>4, <3>1, Greatest
      <3>3. Max(u) \in 1 .. n /\ c[u \ {Max(u)}] \in Nat
        BY <3>2
      <3>4. QED
        BY <2>2, <3>3
    <2>5. Is(c)
      BY <2>3, <2>4 DEF Folds
    <2> HIDE DEF Is
    <2>6. QED
      BY <2>5
  <1>4. Is(c0)
    <2> HIDE DEF Is
    <2>1. QED
      BY <1>3
  <1>5. \A u \in SUBSET (1 .. n) :
          c0[u] = IF u = {} THEN 0 ELSE c0[u \ {Max(u)}] + s[Max(u)]
    <2> HIDE DEF c0
    <2>1. QED
      BY <1>4
  <1> HIDE DEF c0, Is
  <1>6. /\ \A i \in 0 .. n : t[i] \in Nat
        /\ t[0] = 0 /\ \A i \in 1 .. n : t[i] = t[i - 1] + s[i]
    <2>1. Sums(t, s, n)
      BY DEF n
    <2>2. QED
      BY <1>1, <2>1, SumsGrow DEF Sums
  <1> DEFINE T == {i \in 0 .. n : c0[1 .. i] = t[i]}
  <1>7. 0 \in T
    <2>1. 1 .. 0 = {} /\ {} \in SUBSET (1 .. n) /\ 0 \in 0 .. n
      BY <1>1
    <2>2. c0[1 .. 0] = t[0]
      BY <1>5, <1>6, <2>1
    <2>3. QED
      BY <2>1, <2>2
  <1>8. ASSUME NEW k \in 1 .. n, k - 1 \in T
        PROVE  k \in T
    <2>1. c0[1 .. k - 1] = t[k - 1]
      BY <1>8
    <2>2. 1 .. k # {} /\ Max(1 .. k) = k /\ (1 .. k) \ {Max(1 .. k)} = 1 .. k - 1
      <3>1. k \in Nat /\ k # 0
        BY <1>1
      <3>2. QED
        BY ONLY <3>1, MaxUpTo
    <2>3. 1 .. k \in SUBSET (1 .. n)
      BY <1>1
    <2>4. c0[1 .. k] = c0[1 .. k - 1] + s[k]
      BY <1>5, <2>2, <2>3
    <2>5. c0[1 .. k] = t[k]
      BY <1>6, <2>1, <2>4
    <2>6. QED
      BY <1>1, <2>5
  <1>9. \A k \in 0 .. n : k \in T
    <2> HIDE DEF T
    <2>1. QED
      BY <1>1, <1>7, <1>8, UpTo
  <1>10. n \in 0 .. n /\ n \in T
    BY <1>1, <1>9
  <1>11. QED
    BY <1>2, <1>6, <1>10 DEF n

LEMMA TotalEmpty == Total(<<>>) = 0
  <1> DEFINE t == [i \in 0 .. 0 |-> 0]
  <1>1. Sums(t, <<>>, Len(<<>>)) /\ <<>> \in Seq(Nat) /\ Len(<<>>) = 0 /\ t[0] = 0
    BY DEF Sums
  <1> HIDE DEF t
  <1>2. QED
    BY <1>1, TotalSums

LEMMA TotalType ==
  ASSUME NEW s \in Seq(Nat)
  PROVE  Total(s) \in Nat
  <1>1. Len(s) \in Nat /\ s \in [1 .. Len(s) -> Nat]
    OBVIOUS
  <1>2. PICK t : Sums(t, s, Len(s))
    BY <1>1, SumsExist
  <1>3. QED
    BY <1>2, TotalSums

LEMMA TotalAppend ==
  ASSUME NEW s \in Seq(Nat), NEW x \in Nat
  PROVE  Total(Append(s, x)) = Total(s) + x
  <1> DEFINE n == Len(s)
             a == Append(s, x)
  <1>1. /\ n \in Nat /\ s \in [1 .. n -> Nat] /\ a \in Seq(Nat) /\ Len(a) = n + 1
        /\ a \in [1 .. n + 1 -> Nat] /\ a[n + 1] = x /\ \A i \in 1 .. n : a[i] = s[i]
    <2>1. /\ n \in Nat /\ s \in [1 .. n -> Nat] /\ a \in Seq(Nat)
      OBVIOUS
    <2>2. /\ Len(a) = n + 1 /\ a[n + 1] = x /\ \A i \in 1 .. n : a[i] = s[i]
      OBVIOUS
    <2> HIDE DEF n, a
    <2>3. QED
      BY <2>1, <2>2
  <1> HIDE DEF n, a
  <1>2. PICK t : Sums(t, a, n + 1)
    <2>1. n + 1 \in Nat
      BY <1>1
    <2>2. QED
      BY <1>1, <2>1, SumsExist
  <1>3. Sums(t, s, n)
    BY <1>1, <1>2 DEF Sums
  <1>4. Total(a) = t[n + 1]
    BY <1>1, <1>2, TotalSums
  <1>5. Total(s) = t[n]
    BY <1>1, <1>3, TotalSums DEF n
  <1>6. t[n + 1] = t[n] + x
    <2>1. n + 1 \in 1 .. n + 1 /\ n + 1 - 1 = n
      BY <1>1
    <2>2. QED
      BY <1>1, <1>2, <2>1 DEF Sums
  <1>7. QED
    BY <1>4, <1>5, <1>6 DEF a

\* The total of a sequence with one summand, or with none.
LEMMA TotalOnly ==
  ASSUME NEW s \in Seq(Nat), NEW k \in 1 .. Len(s), \A i \in 1 .. Len(s) : i # k => s[i] = 0
  PROVE  Total(s) = s[k]
  <1>1. PICK n \in Nat : n = Len(s)
    OBVIOUS
  <1> DEFINE t == [i \in 0 .. n |-> IF i < k THEN 0 ELSE s[k]]
  <1>2. t[0] = 0 /\ t[n] = s[k] /\ s[k] \in Nat
    BY <1>1
  <1>3. ASSUME NEW i \in 1 .. n
        PROVE  t[i] = t[i - 1] + s[i]
    <2>1. CASE i < k
      <3>1. t[i] = 0 /\ t[i - 1] = 0 /\ s[i] = 0
        BY <1>1, <2>1
      <3>2. QED
        BY <3>1
    <2>2. CASE i = k
      <3>1. t[i] = s[k] /\ t[i - 1] = 0
        BY <1>1, <2>2
      <3>2. QED
        BY <1>2, <2>2, <3>1
    <2>3. CASE i > k
      <3>1. t[i] = s[k] /\ t[i - 1] = s[k] /\ s[i] = 0
        BY <1>1, <2>3
      <3>2. QED
        BY <1>2, <3>1
    <2>4. QED
      BY <1>1, <2>1, <2>2, <2>3
  <1> HIDE DEF t
  <1>4. Sums(t, s, Len(s))
    BY <1>1, <1>2, <1>3 DEF Sums
  <1>5. QED
    BY <1>1, <1>2, <1>4, TotalSums

LEMMA TotalNone ==
  ASSUME NEW s \in Seq(Nat), \A i \in 1 .. Len(s) : s[i] = 0
  PROVE  Total(s) = 0
  <1>1. PICK n \in Nat : n = Len(s)
    OBVIOUS
  <1> DEFINE t == [i \in 0 .. n |-> 0]
  <1>2. t[0] = 0 /\ t[n] = 0 /\ \A i \in 1 .. n : t[i] = t[i - 1] + s[i]
    BY <1>1
  <1> HIDE DEF t
  <1>3. Sums(t, s, Len(s))
    BY <1>1, <1>2 DEF Sums
  <1>4. QED
    BY <1>1, <1>2, <1>3, TotalSums

LEMMA TotalJoin ==
  ASSUME NEW s \in Seq(Nat), NEW u \in Seq(Nat)
  PROVE  Total(s \o u) = Total(s) + Total(u)
  <1> DEFINE T == {k \in 0 .. Len(u) :
                     Total(s \o SubSeq(u, 1, k)) = Total(s) + Total(SubSeq(u, 1, k))}
  <1>1. Len(u) \in Nat /\ Total(s) \in Nat
    BY TotalType
  <1>2. 0 \in T
    <2>1. SubSeq(u, 1, 0) = <<>> /\ s \o <<>> = s
      BY ConcatEmptySeq, SubSeqEmpty
    <2>2. Total(s \o SubSeq(u, 1, 0)) = Total(s) + Total(SubSeq(u, 1, 0))
      <3>1. Total(s \o SubSeq(u, 1, 0)) = Total(s) /\ Total(SubSeq(u, 1, 0)) = 0
        BY <2>1, TotalEmpty
      <3>2. QED
        BY <1>1, <3>1
    <2>3. QED
      BY <1>1, <2>2
  <1>3. ASSUME NEW k \in 1 .. Len(u), k - 1 \in T
        PROVE  k \in T
    <2> DEFINE v == SubSeq(u, 1, k - 1)
    <2>1. /\ v \in Seq(Nat) /\ u[k] \in Nat /\ SubSeq(u, 1, k) = Append(v, u[k])
      OBVIOUS
    <2>2. Total(s \o v) = Total(s) + Total(v)
      BY <1>3
    <2> HIDE DEF v
    <2>3. s \o Append(v, u[k]) = Append(s \o v, u[k]) /\ s \o v \in Seq(Nat)
      <3>1. PICK x \in Nat : x = u[k]
        BY <2>1
      <3>2. s \o Append(v, x) = Append(s \o v, x) /\ s \o v \in Seq(Nat)
        <4>1. v \in Seq(Nat)
          BY <2>1
        <4>2. QED
          BY ONLY <4>1, s \in Seq(Nat), x \in Nat, JoinAppend
      <3>3. QED
        BY <3>1, <3>2
    <2>4. Total(s \o Append(v, u[k])) = Total(s \o v) + u[k]
      BY <2>1, <2>3, TotalAppend
    <2>5. Total(Append(v, u[k])) = Total(v) + u[k] /\ Total(v) \in Nat
      BY <2>1, TotalAppend, TotalType
    <2>6. Total(s \o SubSeq(u, 1, k)) = Total(s) + Total(SubSeq(u, 1, k))
      <3>1. PICK a \in Nat, b \in Nat, x \in Nat :
              a = Total(s) /\ b = Total(v) /\ x = u[k]
        BY <1>1, <2>1, <2>5
      <3>2. Total(s \o SubSeq(u, 1, k)) = (a + b) + x
        BY <2>1, <2>2, <2>4, <3>1
      <3>3. Total(SubSeq(u, 1, k)) = b + x
        BY <2>1, <2>5, <3>1
      <3>4. QED
        BY <3>1, <3>2, <3>3
    <2>7. QED
      BY <2>6
  <1>4. \A k \in 0 .. Len(u) : k \in T
    <2> HIDE DEF T
    <2>1. QED
      BY <1>1, <1>2, <1>3, UpTo
  <1>5. Len(u) \in T /\ SubSeq(u, 1, Len(u)) = u
    BY <1>1, <1>4
  <1>6. QED
    BY <1>5

\* Joined is what FlattenSeq gives, one sequence after the other.
Joined(g, s) ==
    g[0] = <<>> /\ \A i \in 1 .. Len(s) : g[i] = g[i - 1] \o s[i]

LEMMA FlattenJoins ==
  ASSUME NEW V, NEW s \in Seq(Seq(V))
  PROVE  \E g \in [0 .. Len(s) -> Seq(V)] :
           Joined(g, s) /\ FlattenSeq(s) = g[Len(s)]
  <1> DEFINE step == [i \in 1 .. Len(s) |-> [x \in Seq(V) |-> x \o s[i]]]
             Is(f) == f = [i \in 1 .. Len(s) |->
                             IF i = 1 THEN s[i] ELSE f[i - 1] \o s[i]]
  <1>1. /\ Len(s) \in Nat /\ <<>> \in Seq(V)
        /\ \A i \in 1 .. Len(s) : s[i] \in Seq(V)
        /\ \A x, y \in Seq(V) : x \o y \in Seq(V)
        /\ \A x \in Seq(V) : <<>> \o x = x
    OBVIOUS
  <1>2. step \in [1 .. Len(s) -> [Seq(V) -> Seq(V)]]
    BY <1>1
  <1>3. \A i \in 1 .. Len(s), x \in Seq(V) : step[i][x] = x \o s[i]
    OBVIOUS
  <1> HIDE DEF step
  <1>4. PICK g \in [0 .. Len(s) -> Seq(V)] : Runs(g, <<>>, step, Len(s))
    BY <1>1, <1>2, RunExists
  <1>5. g[0] = <<>> /\ \A i \in 1 .. Len(s) : g[i] = g[i - 1] \o s[i]
    <2>1. ASSUME NEW i \in 1 .. Len(s)
          PROVE  g[i] = g[i - 1] \o s[i]
      <3>1. g[i - 1] \in Seq(V)
        <4>1. i - 1 \in 0 .. Len(s)
          BY <1>1
        <4>2. QED
          BY <4>1
      <3>2. QED
        BY <1>3, <1>4, <3>1 DEF Runs
    <2>2. QED
      BY <1>4, <2>1 DEF Runs
  <1>6. Is([i \in 1 .. Len(s) |-> g[i]])
    <2>1. ASSUME NEW i \in 1 .. Len(s)
          PROVE  g[i] = IF i = 1 THEN s[i] ELSE g[i - 1] \o s[i]
      <3>1. s[i] \in Seq(V) /\ <<>> \o s[i] = s[i]
        BY <1>1
      <3>2. g[i] = g[i - 1] \o s[i]
        BY <1>5
      <3>3. CASE i = 1
        <4>1. i - 1 = 0
          BY <3>3
        <4>2. g[i] = <<>> \o s[i]
          BY <3>2, <1>5, <4>1
        <4>3. QED
          BY <3>1, <3>3, <4>2
      <3>4. CASE i # 1
        BY <3>2, <3>4
      <3>5. QED
        BY <3>3, <3>4
    <2>2. \A i \in 1 .. Len(s) : i # 1 => i - 1 \in 1 .. Len(s)
      BY <1>1
    <2>3. QED
      BY <2>1, <2>2
  <1> DEFINE flat == CHOOSE f : Is(f)
  <1>7. FlattenSeq(s) = IF Len(s) = 0 THEN s ELSE flat[Len(s)]
    BY DEF FlattenSeq
  <1>8. Is(flat)
    <2> HIDE DEF Is
    <2>1. QED
      BY <1>6
  <1>9. \A i \in 1 .. Len(s) :
          flat[i] = IF i = 1 THEN s[i] ELSE flat[i - 1] \o s[i]
    <2> HIDE DEF flat
    <2>1. QED
      BY <1>8
  <1> HIDE DEF flat, Is
  <1> DEFINE T == {i \in 0 .. Len(s) : i = 0 \/ flat[i] = g[i]}
  <1>10. 0 \in T
    BY <1>1
  <1>11. \A i \in 1 .. Len(s) : i - 1 \in T => i \in T
    <2>1. ASSUME NEW i \in 1 .. Len(s), i - 1 \in T
          PROVE  i \in T
      <3>1. CASE i = 1
        <4>1. i - 1 = 0 /\ s[i] \in Seq(V)
          BY <1>1, <3>1
        <4>2. g[i] = <<>> \o s[i] /\ <<>> \o s[i] = s[i]
          BY <1>1, <1>5, <4>1
        <4>3. flat[i] = s[i]
          BY <1>9, <3>1
        <4>4. QED
          BY <1>1, <4>2, <4>3
      <3>2. CASE i # 1
        <4>1. i - 1 \in 1 .. Len(s) /\ i - 1 # 0
          BY <1>1, <3>2
        <4>2. flat[i - 1] = g[i - 1]
          BY <2>1, <4>1
        <4>3. flat[i] = g[i]
          BY <1>5, <1>9, <3>2, <4>2
        <4>4. QED
          BY <4>3
      <3>3. QED
        BY <3>1, <3>2
    <2>2. QED
      BY <2>1
  <1>12. \A i \in 0 .. Len(s) : i \in T
    <2> HIDE DEF T
    <2>1. QED
      BY <1>1, <1>10, <1>11, UpTo
  <1>13. FlattenSeq(s) = g[Len(s)]
    <2>1. CASE Len(s) = 0
      BY <1>1, <1>5, <1>7, <2>1
    <2>2. CASE Len(s) # 0
      BY <1>1, <1>7, <1>12, <2>2
    <2>3. QED
      BY <2>1, <2>2
  <1>14. QED
    BY <1>5, <1>13 DEF Joined

LEMMA FlattenEmpty == FlattenSeq(<<>>) = <<>>
  <1>1. <<>> \in Seq(Seq(Nat)) /\ Len(<<>>) = 0
    OBVIOUS
  <1>2. PICK g : Joined(g, <<>>) /\ FlattenSeq(<<>>) = g[Len(<<>>)]
    BY <1>1, FlattenJoins
  <1>3. QED
    BY <1>1, <1>2 DEF Joined

LEMMA FlattenType ==
  ASSUME NEW V, NEW s \in Seq(Seq(V))
  PROVE  FlattenSeq(s) \in Seq(V)
  <1>1. PICK g \in [0 .. Len(s) -> Seq(V)] : FlattenSeq(s) = g[Len(s)]
    BY FlattenJoins
  <1>2. Len(s) \in 0 .. Len(s)
    OBVIOUS
  <1>3. QED
    BY <1>1, <1>2

LEMMA FlattenAppend ==
  ASSUME NEW V, NEW s \in Seq(Seq(V)), NEW x \in Seq(V)
  PROVE  FlattenSeq(Append(s, x)) = FlattenSeq(s) \o x
  <1>1. PICK n \in Nat, a \in Seq(Seq(V)) :
          /\ n = Len(s) /\ a = Append(s, x) /\ Len(a) = n + 1 /\ a[n + 1] = x
          /\ \A i \in 1 .. n : a[i] = s[i]
    <2>1. /\ Len(s) \in Nat /\ Append(s, x) \in Seq(Seq(V))
          /\ Len(Append(s, x)) = Len(s) + 1 /\ Append(s, x)[Len(s) + 1] = x
          /\ \A i \in 1 .. Len(s) : Append(s, x)[i] = s[i]
      BY AppendProperties
    <2>2. QED
      BY <2>1
  <1>2. PICK g : Joined(g, a) /\ FlattenSeq(a) = g[n + 1]
    BY <1>1, FlattenJoins
  <1>3. PICK h : Joined(h, s) /\ FlattenSeq(s) = h[n]
    BY <1>1, FlattenJoins
  <1> DEFINE T == {i \in 0 .. n : g[i] = h[i]}
  <1>4. 0 \in T
    BY <1>2, <1>3 DEF Joined
  <1>5. \A i \in 1 .. n : i - 1 \in T => i \in T
    <2>1. ASSUME NEW i \in 1 .. n, i - 1 \in T
          PROVE  g[i] = h[i]
      <3>1. i \in 1 .. n + 1
        OBVIOUS
      <3>2. g[i] = g[i - 1] \o a[i] /\ h[i] = h[i - 1] \o s[i]
        BY <1>1, <1>2, <1>3, <3>1 DEF Joined
      <3>3. QED
        BY <1>1, <2>1, <3>2
    <2>2. QED
      BY <2>1
  <1>6. \A i \in 0 .. n : i \in T
    <2> HIDE DEF T
    <2>1. QED
      BY <1>4, <1>5, UpTo
  <1>7. g[n] = h[n]
    <2>1. n \in T
      BY <1>6
    <2>2. QED
      BY <2>1
  <1>8. g[n + 1] = g[n] \o x
    <2>1. \A i \in 1 .. n + 1 : g[i] = g[i - 1] \o a[i]
      BY <1>1, <1>2 DEF Joined
    <2>2. PICK m \in 1 .. n + 1 : m = n + 1 /\ m - 1 = n
      OBVIOUS
    <2>3. g[m] = g[m - 1] \o a[m]
      BY ONLY <2>1, m \in 1 .. n + 1
    <2>4. a[m] = x
      BY <1>1, <2>2
    <2>5. g[m] = g[n] \o x
      BY <2>2, <2>3, <2>4, Zenon
    <2>6. QED
      BY <2>2, <2>5, Zenon
  <1>9. QED
    BY <1>1, <1>2, <1>3, <1>7, <1>8

LengthsOf(s) == [i \in 1 .. Len(s) |-> Len(s[i])]

\* The j-th element of the i-th sequence comes after the sequences before.
Placed(r, s, t, k) ==
    \A i \in 1 .. k : \A j \in 1 .. Len(s[i]) : r[t[i - 1] + j] = s[i][j]

LEMMA Flattened ==
  ASSUME NEW V, NEW s \in Seq(Seq(V)), NEW t, Sums(t, LengthsOf(s), Len(s))
  PROVE  /\ FlattenSeq(s) \in Seq(V)
         /\ Len(FlattenSeq(s)) = t[Len(s)]
         /\ Placed(FlattenSeq(s), s, t, Len(s))
  <1>1. PICK g \in [0 .. Len(s) -> Seq(V)] :
          Joined(g, s) /\ FlattenSeq(s) = g[Len(s)]
    BY FlattenJoins
  <1>2. /\ Len(s) \in Nat
        /\ \A i \in 1 .. Len(s) : s[i] \in Seq(V) /\ Len(s[i]) \in Nat
        /\ LengthsOf(s) \in [1 .. Len(s) -> Nat]
    BY DEF LengthsOf
  <1>3. /\ \A i \in 0 .. Len(s) : t[i] \in Nat
        /\ \A i \in 0 .. Len(s) : \A j \in 0 .. i : t[j] <= t[i]
    BY <1>2, SumsGrow
  <1>4. \A i \in 1 .. Len(s) : t[i] = t[i - 1] + Len(s[i])
    BY DEF Sums, LengthsOf
  <1> DEFINE T == {k \in 0 .. Len(s) : Len(g[k]) = t[k] /\ Placed(g[k], s, t, k)}
  <1>5. 0 \in T
    BY <1>1, <1>2 DEF Joined, Placed, Sums
  <1>6. ASSUME NEW k \in 1 .. Len(s), k - 1 \in T
        PROVE  k \in T
    <2>1. /\ g[k] = g[k - 1] \o s[k] /\ g[k - 1] \in Seq(V) /\ s[k] \in Seq(V)
          /\ Len(g[k - 1]) = t[k - 1] /\ Placed(g[k - 1], s, t, k - 1)
      BY <1>1, <1>2, <1>6 DEF Joined
    <2>2. /\ Len(g[k]) = t[k - 1] + Len(s[k])
          /\ \A x \in 1 .. Len(g[k]) :
               g[k][x] = IF x <= t[k - 1] THEN g[k - 1][x] ELSE s[k][x - t[k - 1]]
      <3>1. PICK a \in Seq(V), b \in Seq(V) : a = g[k - 1] /\ b = s[k]
        BY <2>1
      <3>2. /\ Len(a \o b) = Len(a) + Len(b)
            /\ \A x \in 1 .. Len(a) + Len(b) :
                 (a \o b)[x] = IF x <= Len(a) THEN a[x] ELSE b[x - Len(a)]
        BY ONLY ConcatProperties, a \in Seq(V), b \in Seq(V)
      <3>3. QED
        BY <2>1, <3>1, <3>2
    <2>3. ASSUME NEW i \in 1 .. k, NEW j \in 1 .. Len(s[i])
          PROVE  g[k][t[i - 1] + j] = s[i][j]
      <3>1. CASE i = k
        <4>1. t[k - 1] \in Nat /\ Len(s[k]) \in Nat /\ j \in 1 .. Len(s[k])
          BY <1>2, <1>3, <3>1
        <4>2. /\ t[k - 1] + j \in 1 .. t[k - 1] + Len(s[k])
              /\ ~ (t[k - 1] + j <= t[k - 1])
              /\ (t[k - 1] + j) - t[k - 1] = j
          <5>1. PICK x \in Nat, l \in Nat, y \in Nat :
                  x = t[k - 1] /\ l = Len(s[k]) /\ y = j
            BY ONLY <4>1
          <5>2. y \in 1 .. l
            BY <4>1, <5>1
          <5>3. x + y \in 1 .. x + l /\ ~ (x + y <= x) /\ (x + y) - x = y
            BY ONLY <5>2, x \in Nat, l \in Nat, y \in Nat
          <5>4. QED
            BY <5>1, <5>3
        <4>3. QED
          BY <2>2, <3>1, <4>2
      <3>2. CASE i # k
        <4>1. i \in 1 .. k - 1 /\ i \in 1 .. Len(s) /\ i \in 0 .. k - 1
              /\ k - 1 \in 0 .. Len(s) /\ i - 1 \in 0 .. Len(s)
          BY <1>2, <3>2
        <4>2. /\ t[i] = t[i - 1] + Len(s[i]) /\ t[i] <= t[k - 1]
              /\ t[i - 1] \in Nat /\ t[i] \in Nat /\ t[k - 1] \in Nat
              /\ Len(s[i]) \in Nat /\ Len(s[k]) \in Nat
          <5>1. t[i] = t[i - 1] + Len(s[i]) /\ Len(s[i]) \in Nat
            BY <1>2, <1>4, <4>1
          <5>2. Len(s[k]) \in Nat
            BY <1>2
          <5>3. i \in 0 .. Len(s)
            BY <4>1
          <5>4. t[i] <= t[k - 1] /\ t[i - 1] \in Nat /\ t[i] \in Nat /\ t[k - 1] \in Nat
            BY <1>3, <4>1, <5>3
          <5>5. QED
            BY <5>1, <5>2, <5>4
        <4>3. /\ t[i - 1] + j \in 1 .. t[k - 1] + Len(s[k])
              /\ t[i - 1] + j <= t[k - 1]
          <5>1. PICK x \in Nat, y \in Nat, z \in Nat, w \in Nat, u \in Nat :
                  /\ x = t[i - 1] /\ y = t[i] /\ z = t[k - 1]
                  /\ w = Len(s[i]) /\ u = Len(s[k])
            BY ONLY <4>2
          <5>2. y = x + w /\ y <= z /\ j \in 1 .. w
            BY <4>2, <5>1
          <5>3. x + j \in 1 .. z + u /\ x + j <= z
            BY ONLY <5>2, x \in Nat, y \in Nat, z \in Nat, w \in Nat, u \in Nat
          <5>4. QED
            BY <5>1, <5>3
        <4>4. g[k - 1][t[i - 1] + j] = s[i][j]
          BY <2>1, <4>1 DEF Placed
        <4>5. QED
          BY <2>2, <4>3, <4>4
      <3>3. QED
        BY <3>1, <3>2
    <2>4. QED
      BY <1>4, <2>2, <2>3 DEF Placed
  <1>7. \A k \in 0 .. Len(s) : k \in T
    <2> HIDE DEF T
    <2>1. QED
      BY <1>2, <1>5, <1>6, UpTo
  <1>8. QED
    BY <1>1, <1>2, <1>7
=============================================================================
