------------------------- MODULE ScoringReplayProofs ------------------------
(***************************************************************************)
(* What a replay leaves of any history.  Replay is a fold over the         *)
(* deliveries of an innings, between them over its transitions, and around *)
(* it over the innings of a match; what holds of every replayed state is   *)
(* what each delivery and each transition preserves.  The last part is     *)
(* about an innings that goes on: who may bowl and who may bat in it.      *)
(***************************************************************************)
EXTENDS ScoringReplay, FiniteSetTheorems, WellFoundedInduction, TLAPS

-----------------------------------------------------------------------------
(* Induction over positions.                                               *)

\* Every set of numbers has a least one: the induction behind the next lemmas.
LEMMA LeastNumber ==
  ASSUME NEW T \in SUBSET Nat, T # {}
  PROVE  \E x \in T : \A y \in T : x <= y
<1> DEFINE R == OpToRel(<, Nat)
<1>1. IsWellFoundedOn(R, Nat)
  BY NatLessThanWellFounded
<1>2. ASSUME NEW x \in Nat, NEW y \in Nat, y < x PROVE <<y, x>> \in R
  BY <1>2 DEF OpToRel
<1> HIDE DEF R
<1>3. PICK x \in T : \A y \in T : ~ (<<y, x>> \in R)
  BY <1>1, WFMin
<1>4. ASSUME NEW y \in T PROVE x <= y
  <2>1. ~(y < x)
    BY <1>2, <1>3
  <2> QED BY <2>1
<1> QED BY <1>4

\* What holds of the first and of each next one holds of the last.
LEMMA ChainHolds ==
  ASSUME NEW N \in Nat, NEW P, 0 \in P, \A i \in 1 .. N : i - 1 \in P => i \in P
  PROVE  N \in P
<1> DEFINE T == {i \in 0 .. N : i \notin P}
<1> SUFFICES ASSUME T # {} PROVE FALSE
  OBVIOUS
<1>1. PICK i \in T : \A j \in T : i <= j
  <2>1. T \in SUBSET Nat
    OBVIOUS
  <2> HIDE DEF T
  <2> QED BY <2>1, LeastNumber
<1>2. i \in 1 .. N /\ i - 1 \in 0 .. N /\ ~(i <= i - 1)
  OBVIOUS
<1>3. i - 1 \notin T
  <2> HIDE DEF T
  <2> QED BY <1>1, <1>2
<1> QED BY <1>2, <1>3

LEMMA MaxOf ==
  ASSUME NEW n \in Nat, NEW s \in SUBSET (1 .. n), s # {}
  PROVE  Max(s) \in s /\ (\A y \in s : Max(s) >= y) /\ s \ {Max(s)} \in SUBSET (1 .. (n - 1))
<1> DEFINE T == {n - y : y \in s}
<1>1. T \in SUBSET Nat /\ T # {}
  <2>1. \A y \in s : n - y \in Nat
    OBVIOUS
  <2> QED BY <2>1
<1>2. PICK x \in T : \A y \in T : x <= y
  <2> HIDE DEF T
  <2> QED BY <1>1, LeastNumber
<1>3. PICK m \in s : x = n - m
  OBVIOUS
<1>4. \A y \in s : m >= y
  <2>1. ASSUME NEW y \in s PROVE m >= y
    <3>1. n - y \in T
      OBVIOUS
    <3>2. n - m <= n - y
      <4> HIDE DEF T
      <4> QED BY <1>2, <1>3, <3>1
    <3> QED BY <3>2
  <2> QED BY <2>1
<1>5. \E z \in s : \A y \in s : z >= y
  BY <1>4
<1>6. Max(s) \in s /\ \A y \in s : Max(s) >= y
  BY <1>5 DEF Max
<1>7. ASSUME NEW y \in s \ {Max(s)} PROVE y \in 1 .. (n - 1)
  <2>1. PICK w \in 1 .. n : w = Max(s)
    BY <1>6
  <2>2. y \in 1 .. n /\ w >= y /\ w # y
    BY <1>6, <2>1
  <2> QED BY <2>2
<1> QED BY <1>6, <1>7

LEMMA MaxOfPrefix ==
  ASSUME NEW n \in Nat, n # 0
  PROVE  Max(1 .. n) = n /\ (1 .. n) \ {n} = 1 .. (n - 1)
<1>1. Max(1 .. n) \in 1 .. n /\ \A y \in 1 .. n : Max(1 .. n) >= y
  <2>1. 1 .. n \in SUBSET (1 .. n) /\ 1 .. n # {}
    OBVIOUS
  <2> QED BY <2>1, MaxOf
<1>2. Max(1 .. n) >= n /\ Max(1 .. n) \in Int
  BY <1>1
<1> QED BY <1>1, <1>2

-----------------------------------------------------------------------------
(* Folds, unfolded: the states they go through.                            *)

\* The states after each transition, of which those of attempt n take part.
AttemptPath(h, s, n, pol, source, N) ==
  /\ h[0] = s
  /\ AfterAttempt(s, n, pol, source) = h[N]
  /\ \A i \in 1 .. N : h[i] = IF source.transitions[i].anchor = n
                              THEN ApplyTransition(h[i - 1], source.transitions[i], pol,
                                                   source.batters, source.fielders)
                              ELSE h[i - 1]

LEMMA AfterAttemptTrace ==
  ASSUME NEW s, NEW n, NEW pol, NEW source, NEW N \in Nat,
         DOMAIN source.transitions = 1 .. N
  PROVE  \E h : AttemptPath(h, s, n, pol, source, N)
<1> DEFINE W == source.transitions
           start == s
           op(r, x) == IF x.anchor = n
                       THEN ApplyTransition(r, x, pol, source.batters, source.fielders)
                       ELSE r
           e(f, u) == IF u = {} THEN start ELSE op(f[u \ {Max(u)}], W[Max(u)])
           iter[u \in SUBSET DOMAIN W] ==
             IF u = {} THEN start ELSE LET x == Max(u) IN op(iter[u \ {x}], W[x])
           P == {m \in 0 .. N : \E f : f = [u \in SUBSET (1 .. m) |-> e(f, u)]}
<1>1. AfterAttempt(s, n, pol, source) = iter[DOMAIN W]
  BY DEF AfterAttempt, FoldLeft, MapThenFoldSet
<1>d. DOMAIN W = 1 .. N /\ \A i \in 1 .. N : W[i] = source.transitions[i]
  OBVIOUS
<1> HIDE DEF op, W, start
<1>2. 0 \in P
  <2> DEFINE f == [u \in SUBSET (1 .. 0) |-> start]
  <2>1. f = [u \in SUBSET (1 .. 0) |-> e(f, u)]
    OBVIOUS
  <2> HIDE DEF f, e
  <2> QED BY <2>1
<1>3. ASSUME NEW m \in 1 .. N, m - 1 \in P PROVE m \in P
  <2> m \in Nat /\ m \in 0 .. N
    OBVIOUS
  <2>1. PICK f : f = [u \in SUBSET (1 .. (m - 1)) |-> e(f, u)]
    <3> HIDE DEF e
    <3> QED BY <1>3
  <2> DEFINE g == [u \in SUBSET (1 .. m) |->
                     IF u \in SUBSET (1 .. (m - 1)) THEN f[u] ELSE e(f, u)]
  <2>2. ASSUME NEW u \in SUBSET (1 .. m), u # {}
        PROVE  u \ {Max(u)} \in SUBSET (1 .. (m - 1))
    BY <2>2, MaxOf
  <2>3. ASSUME NEW u \in SUBSET (1 .. m) PROVE g[u] = e(g, u)
    <3>1. CASE u = {}
      <4>1. g[u] = f[u] /\ f[u] = e(f, u)
        BY <2>1, <3>1
      <4> QED BY <3>1, <4>1
    <3>2. CASE u # {}
      <4>1. g[u \ {Max(u)}] = f[u \ {Max(u)}]
        <5> HIDE DEF e
        <5> QED BY <2>2, <3>2
      <4>2. e(g, u) = e(f, u)
        <5> HIDE DEF g
        <5> QED BY <4>1
      <4>3. g[u] = e(f, u)
        <5> HIDE DEF e
        <5> QED BY <2>1
      <4> QED BY <4>2, <4>3
    <3> QED BY <3>1, <3>2
  <2>4. g = [u \in SUBSET (1 .. m) |-> e(g, u)]
    <3> HIDE DEF e
    <3> QED BY <2>3
  <2> HIDE DEF g, e
  <2> QED BY <2>4
<1>4. N \in P
  <2> HIDE DEF P
  <2> QED BY <1>2, <1>3, ChainHolds
<1>5. iter = [u \in SUBSET (1 .. N) |-> e(iter, u)]
  <2>1. \E f : f = [u \in SUBSET DOMAIN W |->
                      IF u = {} THEN start ELSE LET x == Max(u) IN op(f[u \ {x}], W[x])]
    BY <1>4, <1>d
  <2> QED BY <1>d, <2>1 DEF iter
<1> HIDE DEF iter, P
<1>6. iter[1 .. 0] = start
  BY <1>5
<1>7. ASSUME NEW i \in 1 .. N PROVE iter[1 .. i] = op(iter[1 .. (i - 1)], W[i])
  <2>1. Max(1 .. i) = i /\ (1 .. i) \ {i} = 1 .. (i - 1) /\ 1 .. i # {}
    <3>1. i \in Nat /\ i # 0 /\ i \in 1 .. i
      OBVIOUS
    <3> QED BY <3>1, MaxOfPrefix
  <2>2. iter[1 .. i] = e(iter, 1 .. i)
    <3> HIDE DEF e
    <3> QED BY <1>5
  <2> QED BY <2>1, <2>2
<1> DEFINE h == [i \in 0 .. N |-> iter[1 .. i]]
<1>8. h[0] = start /\ h[N] = iter[1 .. N]
  BY <1>6
<1>9. ASSUME NEW i \in 1 .. N PROVE h[i] = op(h[i - 1], W[i])
  BY <1>7
<1> HIDE DEF h
<1>10. \A i \in 1 .. N : h[i] = IF source.transitions[i].anchor = n
                            THEN ApplyTransition(h[i - 1], source.transitions[i], pol,
                                                 source.batters, source.fielders)
                            ELSE h[i - 1]
  BY <1>9, <1>d DEF op
<1>11. AttemptPath(h, s, n, pol, source, N)
  BY <1>1, <1>d, <1>8, <1>10 DEF AttemptPath, start
<1> QED BY <1>11

\* The states after each attempt.
ReplayPath(h, pol, source, target, corrected, N) ==
  /\ h[0] = AfterAttempt(Opening(pol, source.batters, source.fielders,
                                 source.openers, target), 0, pol, source)
  /\ ReplayInnings(pol, source, target, corrected) = h[N]
  /\ \A i \in 1 .. N : h[i] = Attempt(h[i - 1], i, pol, source, corrected)

LEMMA ReplayInningsTrace ==
  ASSUME NEW pol, NEW source, NEW target, NEW corrected, NEW N \in Nat,
         DOMAIN source.deliveries = 1 .. N
  PROVE  \E h : ReplayPath(h, pol, source, target, corrected, N)
<1> DEFINE W == [i \in DOMAIN source.deliveries |-> i]
           start == AfterAttempt(Opening(pol, source.batters, source.fielders,
                                              source.openers, target), 0, pol, source)
           op(r, x) == Attempt(r, x, pol, source, corrected)
           e(f, u) == IF u = {} THEN start ELSE op(f[u \ {Max(u)}], W[Max(u)])
           iter[u \in SUBSET DOMAIN W] ==
             IF u = {} THEN start ELSE LET x == Max(u) IN op(iter[u \ {x}], W[x])
           P == {m \in 0 .. N : \E f : f = [u \in SUBSET (1 .. m) |-> e(f, u)]}
<1>1. ReplayInnings(pol, source, target, corrected) = iter[DOMAIN W]
  BY DEF ReplayInnings, FoldLeftDomain, FoldLeft, MapThenFoldSet
<1>d. DOMAIN W = 1 .. N /\ \A i \in 1 .. N : W[i] = i
  OBVIOUS
<1> HIDE DEF op, W, start
<1>2. 0 \in P
  <2> DEFINE f == [u \in SUBSET (1 .. 0) |-> start]
  <2>1. f = [u \in SUBSET (1 .. 0) |-> e(f, u)]
    OBVIOUS
  <2> HIDE DEF f, e
  <2> QED BY <2>1
<1>3. ASSUME NEW m \in 1 .. N, m - 1 \in P PROVE m \in P
  <2> m \in Nat /\ m \in 0 .. N
    OBVIOUS
  <2>1. PICK f : f = [u \in SUBSET (1 .. (m - 1)) |-> e(f, u)]
    <3> HIDE DEF e
    <3> QED BY <1>3
  <2> DEFINE g == [u \in SUBSET (1 .. m) |->
                     IF u \in SUBSET (1 .. (m - 1)) THEN f[u] ELSE e(f, u)]
  <2>2. ASSUME NEW u \in SUBSET (1 .. m), u # {}
        PROVE  u \ {Max(u)} \in SUBSET (1 .. (m - 1))
    BY <2>2, MaxOf
  <2>3. ASSUME NEW u \in SUBSET (1 .. m) PROVE g[u] = e(g, u)
    <3>1. CASE u = {}
      <4>1. g[u] = f[u] /\ f[u] = e(f, u)
        BY <2>1, <3>1
      <4> QED BY <3>1, <4>1
    <3>2. CASE u # {}
      <4>1. g[u \ {Max(u)}] = f[u \ {Max(u)}]
        <5> HIDE DEF e
        <5> QED BY <2>2, <3>2
      <4>2. e(g, u) = e(f, u)
        <5> HIDE DEF g
        <5> QED BY <4>1
      <4>3. g[u] = e(f, u)
        <5> HIDE DEF e
        <5> QED BY <2>1
      <4> QED BY <4>2, <4>3
    <3> QED BY <3>1, <3>2
  <2>4. g = [u \in SUBSET (1 .. m) |-> e(g, u)]
    <3> HIDE DEF e
    <3> QED BY <2>3
  <2> HIDE DEF g, e
  <2> QED BY <2>4
<1>4. N \in P
  <2> HIDE DEF P
  <2> QED BY <1>2, <1>3, ChainHolds
<1>5. iter = [u \in SUBSET (1 .. N) |-> e(iter, u)]
  <2>1. \E f : f = [u \in SUBSET DOMAIN W |->
                      IF u = {} THEN start ELSE LET x == Max(u) IN op(f[u \ {x}], W[x])]
    BY <1>4, <1>d
  <2> QED BY <1>d, <2>1 DEF iter
<1> HIDE DEF iter, P
<1>6. iter[1 .. 0] = start
  BY <1>5
<1>7. ASSUME NEW i \in 1 .. N PROVE iter[1 .. i] = op(iter[1 .. (i - 1)], W[i])
  <2>1. Max(1 .. i) = i /\ (1 .. i) \ {i} = 1 .. (i - 1) /\ 1 .. i # {}
    <3>1. i \in Nat /\ i # 0 /\ i \in 1 .. i
      OBVIOUS
    <3> QED BY <3>1, MaxOfPrefix
  <2>2. iter[1 .. i] = e(iter, 1 .. i)
    <3> HIDE DEF e
    <3> QED BY <1>5
  <2> QED BY <2>1, <2>2
<1> DEFINE h == [i \in 0 .. N |-> iter[1 .. i]]
<1>8. h[0] = start /\ h[N] = iter[1 .. N]
  BY <1>6
<1>9. ASSUME NEW i \in 1 .. N PROVE h[i] = op(h[i - 1], W[i])
  BY <1>7
<1> HIDE DEF h
<1>10. \A i \in 1 .. N : h[i] = Attempt(h[i - 1], i, pol, source, corrected)
  BY <1>9, <1>d DEF op
<1>11. ReplayPath(h, pol, source, target, corrected, N)
  BY <1>1, <1>d, <1>8, <1>10 DEF ReplayPath, start
<1> QED BY <1>11

\* The states of the first innings, after each of them.
MatchPath(h, pol, sources, k, n, N) ==
  /\ h[0] = <<>>
  /\ ReplayMatch(pol, sources, k, n) = h[N]
  /\ \A i \in 1 .. N :
        h[i] = ReplayNext(h[i - 1], pol, sources[i], CorrectedFrom(i, k, n))

LEMMA ReplayMatchTrace ==
  ASSUME NEW pol, NEW sources, NEW k, NEW n, NEW N \in Nat,
         DOMAIN sources = 1 .. N
  PROVE  \E h : MatchPath(h, pol, sources, k, n, N)
<1> DEFINE W == [i \in DOMAIN sources |-> i]
           start == <<>>
           op(r, x) == ReplayNext(r, pol, sources[x], CorrectedFrom(x, k, n))
           e(f, u) == IF u = {} THEN start ELSE op(f[u \ {Max(u)}], W[Max(u)])
           iter[u \in SUBSET DOMAIN W] ==
             IF u = {} THEN start ELSE LET x == Max(u) IN op(iter[u \ {x}], W[x])
           P == {m \in 0 .. N : \E f : f = [u \in SUBSET (1 .. m) |-> e(f, u)]}
<1>1. ReplayMatch(pol, sources, k, n) = iter[DOMAIN W]
  BY DEF ReplayMatch, FoldLeftDomain, FoldLeft, MapThenFoldSet
<1>d. DOMAIN W = 1 .. N /\ \A i \in 1 .. N : W[i] = i
  OBVIOUS
<1> HIDE DEF op, W, start
<1>2. 0 \in P
  <2> DEFINE f == [u \in SUBSET (1 .. 0) |-> start]
  <2>1. f = [u \in SUBSET (1 .. 0) |-> e(f, u)]
    OBVIOUS
  <2> HIDE DEF f, e
  <2> QED BY <2>1
<1>3. ASSUME NEW m \in 1 .. N, m - 1 \in P PROVE m \in P
  <2> m \in Nat /\ m \in 0 .. N
    OBVIOUS
  <2>1. PICK f : f = [u \in SUBSET (1 .. (m - 1)) |-> e(f, u)]
    <3> HIDE DEF e
    <3> QED BY <1>3
  <2> DEFINE g == [u \in SUBSET (1 .. m) |->
                     IF u \in SUBSET (1 .. (m - 1)) THEN f[u] ELSE e(f, u)]
  <2>2. ASSUME NEW u \in SUBSET (1 .. m), u # {}
        PROVE  u \ {Max(u)} \in SUBSET (1 .. (m - 1))
    BY <2>2, MaxOf
  <2>3. ASSUME NEW u \in SUBSET (1 .. m) PROVE g[u] = e(g, u)
    <3>1. CASE u = {}
      <4>1. g[u] = f[u] /\ f[u] = e(f, u)
        BY <2>1, <3>1
      <4> QED BY <3>1, <4>1
    <3>2. CASE u # {}
      <4>1. g[u \ {Max(u)}] = f[u \ {Max(u)}]
        <5> HIDE DEF e
        <5> QED BY <2>2, <3>2
      <4>2. e(g, u) = e(f, u)
        <5> HIDE DEF g
        <5> QED BY <4>1
      <4>3. g[u] = e(f, u)
        <5> HIDE DEF e
        <5> QED BY <2>1
      <4> QED BY <4>2, <4>3
    <3> QED BY <3>1, <3>2
  <2>4. g = [u \in SUBSET (1 .. m) |-> e(g, u)]
    <3> HIDE DEF e
    <3> QED BY <2>3
  <2> HIDE DEF g, e
  <2> QED BY <2>4
<1>4. N \in P
  <2> HIDE DEF P
  <2> QED BY <1>2, <1>3, ChainHolds
<1>5. iter = [u \in SUBSET (1 .. N) |-> e(iter, u)]
  <2>1. \E f : f = [u \in SUBSET DOMAIN W |->
                      IF u = {} THEN start ELSE LET x == Max(u) IN op(f[u \ {x}], W[x])]
    BY <1>4, <1>d
  <2> QED BY <1>d, <2>1 DEF iter
<1> HIDE DEF iter, P
<1>6. iter[1 .. 0] = start
  BY <1>5
<1>7. ASSUME NEW i \in 1 .. N PROVE iter[1 .. i] = op(iter[1 .. (i - 1)], W[i])
  <2>1. Max(1 .. i) = i /\ (1 .. i) \ {i} = 1 .. (i - 1) /\ 1 .. i # {}
    <3>1. i \in Nat /\ i # 0 /\ i \in 1 .. i
      OBVIOUS
    <3> QED BY <3>1, MaxOfPrefix
  <2>2. iter[1 .. i] = e(iter, 1 .. i)
    <3> HIDE DEF e
    <3> QED BY <1>5
  <2> QED BY <2>1, <2>2
<1> DEFINE h == [i \in 0 .. N |-> iter[1 .. i]]
<1>8. h[0] = start /\ h[N] = iter[1 .. N]
  BY <1>6
<1>9. ASSUME NEW i \in 1 .. N PROVE h[i] = op(h[i - 1], W[i])
  BY <1>7
<1> HIDE DEF h
<1>10. \A i \in 1 .. N : h[i] = ReplayNext(h[i - 1], pol, sources[i], CorrectedFrom(i, k, n))
  BY <1>9, <1>d DEF op
<1>11. MatchPath(h, pol, sources, k, n, N)
  BY <1>1, <1>d, <1>8, <1>10 DEF MatchPath, start
<1> QED BY <1>11

\* What a sequence of numbers adds up to.
SeqSum(g) == FoldLeft(+, 0, g)

\* The sums of the first i numbers, for every i.
SumPath(h, g, N) ==
  h[0] = 0 /\ SeqSum(g) = h[N] /\ \A i \in 1 .. N : h[i] = h[i - 1] + g[i]

LEMMA SumTrace ==
  ASSUME NEW g, NEW N \in Nat,
         DOMAIN g = 1 .. N
  PROVE  \E h : SumPath(h, g, N)
<1> DEFINE W == g
           start == 0
           op(r, x) == r + x
           e(f, u) == IF u = {} THEN start ELSE op(f[u \ {Max(u)}], W[Max(u)])
           iter[u \in SUBSET DOMAIN W] ==
             IF u = {} THEN start ELSE LET x == Max(u) IN op(iter[u \ {x}], W[x])
           P == {m \in 0 .. N : \E f : f = [u \in SUBSET (1 .. m) |-> e(f, u)]}
<1>1. SeqSum(g) = iter[DOMAIN W]
  BY DEF SeqSum, FoldLeft, MapThenFoldSet
<1>d. DOMAIN W = 1 .. N /\ \A i \in 1 .. N : W[i] = g[i]
  OBVIOUS
<1> HIDE DEF op, W, start
<1>2. 0 \in P
  <2> DEFINE f == [u \in SUBSET (1 .. 0) |-> start]
  <2>1. f = [u \in SUBSET (1 .. 0) |-> e(f, u)]
    OBVIOUS
  <2> HIDE DEF f, e
  <2> QED BY <2>1
<1>3. ASSUME NEW m \in 1 .. N, m - 1 \in P PROVE m \in P
  <2> m \in Nat /\ m \in 0 .. N
    OBVIOUS
  <2>1. PICK f : f = [u \in SUBSET (1 .. (m - 1)) |-> e(f, u)]
    <3> HIDE DEF e
    <3> QED BY <1>3
  <2> DEFINE q == [u \in SUBSET (1 .. m) |->
                     IF u \in SUBSET (1 .. (m - 1)) THEN f[u] ELSE e(f, u)]
  <2>2. ASSUME NEW u \in SUBSET (1 .. m), u # {}
        PROVE  u \ {Max(u)} \in SUBSET (1 .. (m - 1))
    BY <2>2, MaxOf
  <2>3. ASSUME NEW u \in SUBSET (1 .. m) PROVE q[u] = e(q, u)
    <3>1. CASE u = {}
      <4>1. q[u] = f[u] /\ f[u] = e(f, u)
        BY <2>1, <3>1
      <4> QED BY <3>1, <4>1
    <3>2. CASE u # {}
      <4>1. q[u \ {Max(u)}] = f[u \ {Max(u)}]
        <5> HIDE DEF e
        <5> QED BY <2>2, <3>2
      <4>2. e(q, u) = e(f, u)
        <5> HIDE DEF q
        <5> QED BY <4>1
      <4>3. q[u] = e(f, u)
        <5> HIDE DEF e
        <5> QED BY <2>1
      <4> QED BY <4>2, <4>3
    <3> QED BY <3>1, <3>2
  <2>4. q = [u \in SUBSET (1 .. m) |-> e(q, u)]
    <3> HIDE DEF e
    <3> QED BY <2>3
  <2> HIDE DEF q, e
  <2> QED BY <2>4
<1>4. N \in P
  <2> HIDE DEF P
  <2> QED BY <1>2, <1>3, ChainHolds
<1>5. iter = [u \in SUBSET (1 .. N) |-> e(iter, u)]
  <2>1. \E f : f = [u \in SUBSET DOMAIN W |->
                      IF u = {} THEN start ELSE LET x == Max(u) IN op(f[u \ {x}], W[x])]
    BY <1>4, <1>d
  <2> QED BY <1>d, <2>1 DEF iter
<1> HIDE DEF iter, P
<1>6. iter[1 .. 0] = start
  BY <1>5
<1>7. ASSUME NEW i \in 1 .. N PROVE iter[1 .. i] = op(iter[1 .. (i - 1)], W[i])
  <2>1. Max(1 .. i) = i /\ (1 .. i) \ {i} = 1 .. (i - 1) /\ 1 .. i # {}
    <3>1. i \in Nat /\ i # 0 /\ i \in 1 .. i
      OBVIOUS
    <3> QED BY <3>1, MaxOfPrefix
  <2>2. iter[1 .. i] = e(iter, 1 .. i)
    <3> HIDE DEF e
    <3> QED BY <1>5
  <2> QED BY <2>1, <2>2
<1> DEFINE h == [i \in 0 .. N |-> iter[1 .. i]]
<1>8. h[0] = start /\ h[N] = iter[1 .. N]
  BY <1>6
<1>9. ASSUME NEW i \in 1 .. N PROVE h[i] = op(h[i - 1], W[i])
  BY <1>7
<1> HIDE DEF h
<1>10. \A i \in 1 .. N : h[i] = h[i - 1] + g[i]
  BY <1>9, <1>d DEF op
<1>11. SumPath(h, g, N)
  BY <1>1, <1>d, <1>8, <1>10 DEF SumPath, start
<1> QED BY <1>11

-----------------------------------------------------------------------------
(* Types of what a replay works on.                                        *)

Ends  == {"striker_end", "non_striker_end"}
Roles == RunOutRoles \cup {"bowler", "catcher"}
BatterStates == {"not_batted", "active", "dismissed", "retired_hurt", "retired_out"}

Persons ==
  [state : BatterStates, how : DismissalTypes \cup {None}, runs : Nat, faced : Nat,
   fours : Nat, sixes : Nat, bowled : Nat, conceded : Nat, taken : Nat, wides : Nat,
   noBalls : Nat, dismissals : Nat, catches : Nat, stumpings : Nat, runOuts : Nat]

Wickets(bat, field) ==
  [kind : DismissalTypes, end : Ends \cup {None}, out : bat,
   fielders : Seq([who : field, role : Roles])]

Facts(bat, field) ==
  [striker : bat, nonStriker : bat, bowler : field, bat : Nat, wide : Nat, noBall : Nat,
   bye : Nat, legBye : Nat, penalty : Nat, wicket : Wickets(bat, field) \cup {None}]

Classes(bat) ==
  [total : Nat, legal : BOOLEAN, completed : Nat, conceded : Nat, over : Nat, ball : Nat,
   four : BOOLEAN, six : BOOLEAN, out : bat \cup {None}]

OverRows(field) ==
  [bowler : field, legal : Nat, runs : Nat, conceded : Nat, wickets : Nat,
   complete : BOOLEAN]

FallRows(bat) ==
  [sequence : Nat, score : Nat, number : Nat, who : bat, how : DismissalTypes]

ExtraKinds == {"wide", "noBall", "bye", "legBye", "penalty"}

ReplayStates(bat, field) ==
  [life : {"in_progress", "completed", "reconciliation_required"},
   striker : bat \cup {None}, nonStriker : bat \cup {None}, bowler : field \cup {None},
   reason : AutomaticModes \cup ExplicitModes \cup {None},
   halted : Nat \cup {None}, unreplayed : Int,
   legal : Nat, runs : Nat, wickets : Nat, target : Nat \cup {None},
   extras : [ExtraKinds -> Nat], people : [bat \cup field -> Persons],
   overs : Seq(OverRows(field)), falls : Seq(FallRows(bat)), applied : Seq(Classes(bat)),
   error : {None, "conflict", "invalid"}]

LEMMA OpeningTyped ==
  ASSUME NEW bat, NEW field, NEW pol,
         NEW openers \in [striker : bat, nonStriker : bat, bowler : field],
         NEW target \in Nat \cup {None}
  PROVE  Opening(pol, bat, field, openers, target) \in ReplayStates(bat, field)
<1> DEFINE people == [p \in bat \cup field |->
                 IF p \in {openers.striker, openers.nonStriker}
                 THEN [Unused EXCEPT !.state = "active"] ELSE Unused]
           extras == [wide |-> 0, noBall |-> 0, bye |-> 0, legBye |-> 0, penalty |-> 0]
<1>1. Unused \in Persons /\ [Unused EXCEPT !.state = "active"] \in Persons
  BY DEF Unused, Persons, BatterStates
<1>2. people \in [bat \cup field -> Persons]
  <2> HIDE DEF Persons, Unused
  <2> QED BY <1>1
<1>3. extras \in [ExtraKinds -> Nat]
  BY DEF ExtraKinds
<1> HIDE DEF people, extras
<1>4. <<>> \in Seq(OverRows(field)) /\ <<>> \in Seq(FallRows(bat)) /\ <<>> \in Seq(Classes(bat))
  OBVIOUS
<1>5. Opening(pol, bat, field, openers, target) =
      [life |-> "in_progress", striker |-> openers.striker,
   nonStriker |-> openers.nonStriker, bowler |-> openers.bowler,
   reason |-> None, halted |-> None, unreplayed |-> 0,
   legal |-> 0, runs |-> 0, wickets |-> 0, target |-> target,
   extras |-> extras, people |-> people,
   overs |-> <<>>, falls |-> <<>>, applied |-> <<>>, error |-> None]
  BY DEF Opening, people, extras
<1> QED BY <1>2, <1>3, <1>4, <1>5 DEF ReplayStates

-----------------------------------------------------------------------------
(* One delivery, field by field.                                           *)

\* A player after a delivery is scored, before a wicket is.
ScoredPerson(s, f, c, p) ==
  IF p = f.striker THEN Credit(s.people[p], f, c)
  ELSE IF p = f.bowler THEN Debit(s.people[p], f, c) ELSE s.people[p]

\* The over of a delivery before it, which the delivery may open.
OverBefore(s, f, c) ==
  IF c.over + 1 \in DOMAIN s.overs THEN s.overs[c.over + 1]
  ELSE [bowler |-> f.bowler, legal |-> 0, runs |-> 0, conceded |-> 0, wickets |-> 0,
        complete |-> FALSE]

OverScored(s, f, c) ==
  [OverBefore(s, f, c) EXCEPT !.legal = @ + Bool01(c.legal), !.runs = @ + c.total,
                              !.conceded = @ + c.conceded]

\* Deliveries are of the over in progress or of the next one.
OverFits(s, c) == c.over \in {Len(s.overs) - 1, Len(s.overs)}

LEMMA CreditTyped ==
  ASSUME NEW bat, NEW field, NEW f \in Facts(bat, field), NEW c \in Classes(bat),
         NEW p \in Persons
  PROVE  Credit(p, f, c) \in Persons /\ Debit(p, f, c) \in Persons
<1>1. f.bat \in Nat /\ f.wide \in Nat /\ f.noBall \in Nat /\ c.conceded \in Nat
  BY DEF Facts, Classes
<1>2. Bool01(c.legal) \in Nat /\ Bool01(c.four) \in Nat /\ Bool01(c.six) \in Nat
  BY DEF Bool01
<1>3. /\ p.runs \in Nat /\ p.faced \in Nat /\ p.fours \in Nat /\ p.sixes \in Nat
      /\ p.bowled \in Nat /\ p.conceded \in Nat /\ p.wides \in Nat /\ p.noBalls \in Nat
  BY DEF Persons
<1>4. /\ p.runs + f.bat \in Nat /\ p.faced + Bool01(c.legal) \in Nat
      /\ p.fours + Bool01(c.four) \in Nat /\ p.sixes + Bool01(c.six) \in Nat
      /\ p.bowled + Bool01(c.legal) \in Nat /\ p.conceded + c.conceded \in Nat
      /\ p.wides + f.wide \in Nat /\ p.noBalls + f.noBall \in Nat
  BY <1>1, <1>2, <1>3
<1>5. Credit(p, f, c) \in Persons
  BY <1>4 DEF Credit, Persons
<1>6. Debit(p, f, c) \in Persons
  BY <1>4 DEF Debit, Persons
<1> QED BY <1>5, <1>6

LEMMA OverBeforeTyped ==
  ASSUME NEW bat, NEW field, NEW s \in ReplayStates(bat, field),
         NEW f \in Facts(bat, field), NEW c
  PROVE  OverBefore(s, f, c) \in OverRows(field)
<1>1. s.overs \in Seq(OverRows(field)) /\ f.bowler \in field
  BY DEF ReplayStates, Facts
<1>2. CASE c.over + 1 \in DOMAIN s.overs
  BY <1>1, <1>2 DEF OverBefore
<1>3. CASE c.over + 1 \notin DOMAIN s.overs
  BY <1>1, <1>3 DEF OverBefore, OverRows
<1> QED BY <1>2, <1>3

LEMMA ScoredIs ==
  ASSUME NEW bat, NEW field, bat \cap field = {},
         NEW s \in ReplayStates(bat, field), NEW f \in Facts(bat, field),
         NEW c \in Classes(bat), OverFits(s, c)
  PROVE  /\ Scored(s, f, c) \in ReplayStates(bat, field)
         /\ Scored(s, f, c).applied = Append(s.applied, c)
         /\ Scored(s, f, c).runs = s.runs + c.total
         /\ Scored(s, f, c).legal = s.legal + Bool01(c.legal)
         /\ \A e \in ExtraKinds : Scored(s, f, c).extras[e] = s.extras[e] + f[e]
         /\ \A p \in bat \cup field : Scored(s, f, c).people[p] = ScoredPerson(s, f, c, p)
         /\ c.over + 1 \in 1 .. Len(Scored(s, f, c).overs)
         /\ Len(Scored(s, f, c).overs) = c.over + 1
         /\ \A m \in 1 .. c.over : Scored(s, f, c).overs[m] = s.overs[m]
         /\ Scored(s, f, c).overs[c.over + 1] = OverScored(s, f, c)
         /\ Scored(s, f, c).striker = s.striker /\ Scored(s, f, c).nonStriker = s.nonStriker
         /\ Scored(s, f, c).bowler = s.bowler /\ Scored(s, f, c).life = s.life
         /\ Scored(s, f, c).reason = s.reason /\ Scored(s, f, c).halted = s.halted
         /\ Scored(s, f, c).unreplayed = s.unreplayed /\ Scored(s, f, c).target = s.target
         /\ Scored(s, f, c).wickets = s.wickets /\ Scored(s, f, c).falls = s.falls
         /\ Scored(s, f, c).error = s.error
<1> DEFINE n == c.over + 1
           A == Append(s.applied, c)
           R == s.runs + c.total
           L == s.legal + Bool01(c.legal)
           X == [e \in DOMAIN s.extras |-> s.extras[e] + f[e]]
           Q == [s.people EXCEPT ![f.striker] = Credit(s.people[f.striker], f, c)]
           Z == [Q EXCEPT ![f.bowler] = Debit(Q[f.bowler], f, c)]
           more == OverScored(s, f, c)
           V == IF n \in DOMAIN s.overs THEN [s.overs EXCEPT ![n] = more]
                ELSE Append(s.overs, more)
<1>1. /\ s.applied \in Seq(Classes(bat)) /\ s.runs \in Nat /\ s.legal \in Nat
      /\ s.extras \in [ExtraKinds -> Nat] /\ s.people \in [bat \cup field -> Persons]
      /\ s.overs \in Seq(OverRows(field))
  BY DEF ReplayStates
<1>2. /\ c.total \in Nat /\ c.over \in Nat /\ c.conceded \in Nat /\ c.legal \in BOOLEAN
      /\ f.striker \in bat /\ f.bowler \in field /\ f.striker # f.bowler
      /\ f.wide \in Nat /\ f.noBall \in Nat /\ f.bye \in Nat /\ f.legBye \in Nat
      /\ f.penalty \in Nat
  BY SMTT(60) DEF Facts, Classes
<1>3. A \in Seq(Classes(bat)) /\ R \in Nat /\ L \in Nat
  BY <1>1, <1>2 DEF Bool01
<1>4. X \in [ExtraKinds -> Nat] /\ \A e \in ExtraKinds : X[e] = s.extras[e] + f[e]
  <2>1. \A e \in ExtraKinds : f[e] \in Nat
    BY <1>2 DEF ExtraKinds, Facts
  <2> QED BY <1>1, <2>1
<1>5. /\ Z \in [bat \cup field -> Persons]
      /\ \A p \in bat \cup field : Z[p] = ScoredPerson(s, f, c, p)
  <2>1. \A p \in Persons : Credit(p, f, c) \in Persons /\ Debit(p, f, c) \in Persons
    BY CreditTyped
  <2> HIDE DEF Persons
  <2> QED BY <1>1, <1>2, <2>1 DEF ScoredPerson
<1>6. more \in OverRows(field)
  <2>1. OverBefore(s, f, c) \in OverRows(field)
    BY OverBeforeTyped
  <2> DEFINE b == OverBefore(s, f, c)
  <2>2. b \in OverRows(field) /\ b.legal \in Nat /\ b.runs \in Nat /\ b.conceded \in Nat
    BY <2>1 DEF OverRows
  <2>3. /\ b.legal + Bool01(c.legal) \in Nat /\ b.runs + c.total \in Nat
        /\ b.conceded + c.conceded \in Nat
    <3> HIDE DEF b
    <3> QED BY <1>2, <2>2 DEF Bool01
  <2>4. more = [b EXCEPT !.legal = b.legal + Bool01(c.legal), !.runs = b.runs + c.total,
                         !.conceded = b.conceded + c.conceded]
    BY DEF OverScored
  <2> HIDE DEF b, more
  <2>5. \A x, y, z \in Nat :
          [b EXCEPT !.legal = x, !.runs = y, !.conceded = z] \in OverRows(field)
    BY <2>2 DEF OverRows
  <2> QED BY <2>3, <2>4, <2>5
<1>7. /\ V \in Seq(OverRows(field)) /\ Len(V) = n /\ V[n] = more
      /\ \A m \in 1 .. c.over : V[m] = s.overs[m]
  <2> HIDE DEF more
  <2>0. n \in Nat /\ DOMAIN s.overs = 1 .. Len(s.overs) /\ Len(s.overs) \in Nat
    BY <1>1, <1>2
  <2>1. CASE c.over = Len(s.overs)
    <3>1. V = Append(s.overs, more)
      BY <2>0, <2>1
    <3> QED BY <1>1, <1>2, <1>6, <2>0, <2>1, <3>1
  <2>2. CASE c.over = Len(s.overs) - 1
    <3>1. V = [s.overs EXCEPT ![n] = more] /\ n = Len(s.overs)
      BY <1>2, <2>0, <2>2
    <3> QED BY <1>1, <1>2, <1>6, <2>0, <2>2, <3>1
  <2> QED BY <2>1, <2>2 DEF OverFits
<1>8. Scored(s, f, c) = [s EXCEPT !.applied = A, !.runs = R, !.legal = L, !.extras = X,
                                  !.people = Z, !.overs = V]
  <2>1. s.people[f.striker] \in Persons /\ DOMAIN s.people = bat \cup field
    BY <1>1, <1>2
  <2>2. more = [OverBefore(s, f, c) EXCEPT !.legal = @ + Bool01(c.legal), !.runs = @ + c.total,
                                           !.conceded = @ + c.conceded]
    BY DEF OverScored
  <2> HIDE DEF more
  <2>3. Scored(s, f, c) =
          [s EXCEPT !.applied = A, !.runs = R, !.legal = L, !.extras = X,
                    !.people[f.striker] = Credit(@, f, c),
                    !.people[f.bowler] = Debit(@, f, c), !.overs = V]
    BY <2>2 DEF Scored, OverBefore
  <2> HIDE DEF A, R, L, X, V
  <2> QED BY <1>2, <2>1, <2>3 DEF ReplayStates
<1> HIDE DEF A, R, L, X, Z, V, more
<1> DEFINE r == [s EXCEPT !.applied = A, !.runs = R, !.legal = L, !.extras = X,
                          !.people = Z, !.overs = V]
<1>9. /\ r \in ReplayStates(bat, field)
      /\ r.applied = A /\ r.runs = R /\ r.legal = L /\ r.extras = X /\ r.people = Z
      /\ r.overs = V
      /\ r.striker = s.striker /\ r.nonStriker = s.nonStriker
      /\ r.bowler = s.bowler /\ r.life = s.life
      /\ r.reason = s.reason /\ r.halted = s.halted
      /\ r.unreplayed = s.unreplayed /\ r.target = s.target
      /\ r.wickets = s.wickets /\ r.falls = s.falls /\ r.error = s.error
  BY <1>3, <1>4, <1>5, <1>7 DEF ReplayStates
<1>10. n \in 1 .. n
  BY <1>2
<1> HIDE DEF r
<1> QED BY <1>4, <1>5, <1>7, <1>8, <1>9, <1>10 DEF A, R, L, more, r

\* A player after the wicket of a delivery, if it has one.
WicketPerson(f, p, q) ==
  IF f.wicket = None THEN q
  ELSE FieldedBy(IF p = f.wicket.out THEN Dismissed(q, f.wicket)
                 ELSE IF p = f.bowler THEN Credited(q, f.wicket) ELSE q, p, f.wicket)

\* What a wicket leaves alone, and what it counts.
KeepsScore(q, r) ==
  /\ r.runs = q.runs /\ r.faced = q.faced /\ r.bowled = q.bowled
  /\ r.conceded = q.conceded

LEMMA FieldedByIs ==
  ASSUME NEW bat, NEW field, NEW w \in Wickets(bat, field), NEW p, NEW q \in Persons
  PROVE  /\ FieldedBy(q, p, w) \in Persons
         /\ KeepsScore(q, FieldedBy(q, p, w))
         /\ FieldedBy(q, p, w).how = q.how /\ FieldedBy(q, p, w).state = q.state
         /\ \E t \in Nat :
              /\ FieldedBy(q, p, w).dismissals = q.dismissals + t
              /\ FieldedBy(q, p, w).catches \in {q.catches, q.catches + t}
              /\ FieldedBy(q, p, w).stumpings \in {q.stumpings, q.stumpings + t}
              /\ FieldedBy(q, p, w).runOuts \in {q.runOuts, q.runOuts + t}
<1> DEFINE N == {n \in DOMAIN w.fielders : w.fielders[n].who = p}
           t == Cardinality(N)
           If(kinds) == IF w.kind \in kinds THEN t ELSE 0
           a == q.dismissals + t
           b == q.catches + If({"caught", "caught_and_bowled"})
           d == q.stumpings + If({"stumped"})
           e == q.runOuts + If({"run_out"})
<1>1. t \in Nat
  <2>1. w.fielders \in Seq([who : field, role : Roles])
    BY DEF Wickets
  <2>2. DOMAIN w.fielders = 1 .. Len(w.fielders) /\ Len(w.fielders) \in Nat
    BY <2>1
  <2>3. IsFiniteSet(1 .. Len(w.fielders)) /\ N \in SUBSET (1 .. Len(w.fielders))
    BY <2>2, FS_Interval
  <2> HIDE DEF N
  <2> QED BY <2>3, FS_Subset, FS_CardinalityType
<1>2. /\ q.dismissals \in Nat /\ q.catches \in Nat /\ q.stumpings \in Nat /\ q.runOuts \in Nat
  BY DEF Persons
<1> HIDE DEF t
<1>3. /\ a \in Nat /\ b \in Nat /\ d \in Nat /\ e \in Nat
      /\ b \in {q.catches, q.catches + t} /\ d \in {q.stumpings, q.stumpings + t}
      /\ e \in {q.runOuts, q.runOuts + t}
  BY <1>1, <1>2
<1>4. FieldedBy(q, p, w) = [q EXCEPT !.dismissals = a, !.catches = b, !.stumpings = d,
                                     !.runOuts = e]
  BY DEF FieldedBy, t
<1> HIDE DEF a, b, d, e
<1> DEFINE r == [q EXCEPT !.dismissals = a, !.catches = b, !.stumpings = d, !.runOuts = e]
<1>5. r \in Persons
  BY <1>3 DEF Persons
<1>6. /\ r.dismissals = a /\ r.catches = b /\ r.stumpings = d /\ r.runOuts = e
      /\ r.how = q.how /\ r.state = q.state /\ KeepsScore(q, r)
  BY DEF Persons, KeepsScore
<1> HIDE DEF r
<1>7. FieldedBy(q, p, w) = r /\ a = q.dismissals + t
  BY <1>4 DEF r, a
<1> QED BY <1>1, <1>3, <1>5, <1>6, <1>7

LEMMA WicketPersonIs ==
  ASSUME NEW bat, NEW field, NEW f \in Facts(bat, field), f.wicket # None,
         NEW p, NEW q \in Persons
  PROVE  LET r == WicketPerson(f, p, q) IN
         /\ r \in Persons /\ KeepsScore(q, r)
         /\ p = f.wicket.out => /\ r.how = f.wicket.kind
                                /\ r.state \in {"dismissed", "retired_out"}
         /\ p # f.wicket.out => r.how = q.how /\ r.state = q.state
         /\ \E t \in Nat :
              /\ r.dismissals = q.dismissals + t
              /\ r.catches \in {q.catches, q.catches + t}
              /\ r.stumpings \in {q.stumpings, q.stumpings + t}
              /\ r.runOuts \in {q.runOuts, q.runOuts + t}
<1> DEFINE w == f.wicket
           m == IF p = w.out THEN Dismissed(q, w)
                ELSE IF p = f.bowler THEN Credited(q, w) ELSE q
<1>1. w \in Wickets(bat, field)
  BY DEF Facts
<1>2. w.kind \in DismissalTypes
  BY <1>1 DEF Wickets
<1>3. /\ Dismissed(q, w) \in Persons /\ KeepsScore(q, Dismissed(q, w))
      /\ Dismissed(q, w).how = w.kind
      /\ Dismissed(q, w).state \in {"dismissed", "retired_out"}
      /\ Dismissed(q, w).dismissals = q.dismissals /\ Dismissed(q, w).catches = q.catches
      /\ Dismissed(q, w).stumpings = q.stumpings /\ Dismissed(q, w).runOuts = q.runOuts
  BY <1>2 DEF Dismissed, Persons, KeepsScore, BatterStates
<1>4. /\ Credited(q, w) \in Persons /\ KeepsScore(q, Credited(q, w))
      /\ Credited(q, w).how = q.how /\ Credited(q, w).state = q.state
      /\ Credited(q, w).dismissals = q.dismissals /\ Credited(q, w).catches = q.catches
      /\ Credited(q, w).stumpings = q.stumpings /\ Credited(q, w).runOuts = q.runOuts
  <2>1. q.taken + Bool01(w.kind \notin {"run_out", "retired_out"}) \in Nat
    BY DEF Persons, Bool01
  <2>2. \A x \in Nat : LET r == [q EXCEPT !.taken = x] IN
          /\ r \in Persons /\ KeepsScore(q, r) /\ r.how = q.how /\ r.state = q.state
          /\ r.dismissals = q.dismissals /\ r.catches = q.catches
          /\ r.stumpings = q.stumpings /\ r.runOuts = q.runOuts
    BY DEF Persons, KeepsScore
  <2> QED BY <2>1, <2>2 DEF Credited
<1>5. /\ m \in Persons /\ KeepsScore(q, m)
      /\ p = w.out => m.how = w.kind /\ m.state \in {"dismissed", "retired_out"}
      /\ p # w.out => m.how = q.how /\ m.state = q.state
      /\ m.dismissals = q.dismissals /\ m.catches = q.catches
      /\ m.stumpings = q.stumpings /\ m.runOuts = q.runOuts
  <2>1. KeepsScore(q, q)
    BY DEF KeepsScore
  <2> HIDE DEF w
  <2> QED BY <1>3, <1>4, <2>1
<1>6. WicketPerson(f, p, q) = FieldedBy(m, p, w)
  BY DEF WicketPerson
<1> HIDE DEF m, w
<1>7. /\ FieldedBy(m, p, w) \in Persons
      /\ KeepsScore(m, FieldedBy(m, p, w))
      /\ FieldedBy(m, p, w).how = m.how /\ FieldedBy(m, p, w).state = m.state
      /\ \E t \in Nat :
              /\ FieldedBy(m, p, w).dismissals = m.dismissals + t
              /\ FieldedBy(m, p, w).catches \in {m.catches, m.catches + t}
              /\ FieldedBy(m, p, w).stumpings \in {m.stumpings, m.stumpings + t}
              /\ FieldedBy(m, p, w).runOuts \in {m.runOuts, m.runOuts + t}
  BY <1>1, <1>5, FieldedByIs
<1>8. KeepsScore(q, FieldedBy(m, p, w))
  BY <1>5, <1>7 DEF KeepsScore
<1>9. w = f.wicket
  BY DEF w
<1> QED BY <1>5, <1>6, <1>7, <1>8, <1>9

\* The facts of an attempt fit the state they are applied to.
Fitting(s, f) ==
  /\ f.striker = s.striker /\ f.nonStriker = s.nonStriker /\ f.bowler = s.bowler
  /\ f.striker # f.nonStriker
  /\ f.wicket # None => f.wicket.out \in {f.striker, f.nonStriker}

Ended(s) == {s.striker, s.nonStriker}

\* Everything a wicket or the end of an over leaves alone.
KeepsTotals(s, r) ==
  /\ r.applied = s.applied /\ r.runs = s.runs /\ r.legal = s.legal /\ r.extras = s.extras
  /\ r.life = s.life /\ r.reason = s.reason /\ r.halted = s.halted
  /\ r.unreplayed = s.unreplayed /\ r.target = s.target /\ r.error = s.error

LEMMA FallenIs ==
  ASSUME NEW bat, NEW field, NEW s \in ReplayStates(bat, field),
         NEW f \in Facts(bat, field), NEW c \in Classes(bat), NEW n \in Nat,
         f.wicket # None, f.striker # f.nonStriker,
         f.wicket.out \in {f.striker, f.nonStriker},
         Ended(s) = {f.striker, f.nonStriker},
         Len(s.overs) = c.over + 1
  PROVE  LET r == Fallen(s, f, c, n) IN
         /\ r \in ReplayStates(bat, field)
         /\ KeepsTotals(s, r) /\ r.bowler = s.bowler
         /\ r.wickets = s.wickets + 1 /\ Len(r.falls) = Len(s.falls) + 1
         /\ \A p \in bat \cup field : r.people[p] = WicketPerson(f, p, s.people[p])
         /\ Len(r.overs) = c.over + 1
         /\ \A m \in 1 .. c.over : r.overs[m] = s.overs[m]
         /\ r.overs[c.over + 1] =
              [s.overs[c.over + 1] EXCEPT !.wickets = s.overs[c.over + 1].wickets + 1]
         /\ Ended(r) = (Ended(s) \ {f.wicket.out}) \cup {None}
<1> DEFINE w == f.wicket
           survivor == IF w.out = f.striker THEN f.nonStriker ELSE f.striker
           k == c.over + 1
           W == s.wickets + 1
           o == [s.overs[k] EXCEPT !.wickets = s.overs[k].wickets + 1]
           V == [s.overs EXCEPT ![k] = o]
           Q == [p \in DOMAIN s.people |-> WicketPerson(f, p, s.people[p])]
           X == IF w.kind = "run_out" THEN IF w.end = "striker_end" THEN None ELSE survivor
                ELSE IF s.striker = w.out THEN None ELSE s.striker
           Y == IF w.kind = "run_out" THEN IF w.end = "striker_end" THEN survivor ELSE None
                ELSE IF s.nonStriker = w.out THEN None ELSE s.nonStriker
           F == Append(s.falls, [sequence |-> n, score |-> s.runs, number |-> s.wickets + 1,
                                 who |-> w.out, how |-> w.kind])
<1>1. /\ s.wickets \in Nat /\ s.runs \in Nat /\ s.people \in [bat \cup field -> Persons]
      /\ s.overs \in Seq(OverRows(field)) /\ s.falls \in Seq(FallRows(bat))
      /\ s.striker \in bat \cup {None} /\ s.nonStriker \in bat \cup {None}
  BY DEF ReplayStates
<1>2. /\ w \in Wickets(bat, field) /\ w.out \in bat /\ w.kind \in DismissalTypes
      /\ f.striker \in bat /\ f.nonStriker \in bat /\ c.over \in Nat
  BY DEF Facts, Wickets, Classes
<1>3. W \in Nat
  BY <1>1
<1>4. /\ V \in Seq(OverRows(field)) /\ Len(V) = k /\ V[k] = o
      /\ \A m \in 1 .. c.over : V[m] = s.overs[m]
  <2>1. k \in DOMAIN s.overs /\ Len(s.overs) = k /\ DOMAIN s.overs = 1 .. k
    BY <1>1, <1>2
  <2>2. s.overs[k] \in OverRows(field)
    BY <1>1, <2>1
  <2>3. o \in OverRows(field)
    <3>1. s.overs[k].wickets + 1 \in Nat
      BY <2>2 DEF OverRows
    <3>2. \A x \in Nat : [s.overs[k] EXCEPT !.wickets = x] \in OverRows(field)
      BY <2>2 DEF OverRows
    <3> QED BY <3>1, <3>2
  <2> HIDE DEF o
  <2> QED BY <1>1, <1>2, <2>1, <2>3
<1>5. /\ Q \in [bat \cup field -> Persons]
      /\ \A p \in bat \cup field : Q[p] = WicketPerson(f, p, s.people[p])
  <2>1. \A p \in bat \cup field : WicketPerson(f, p, s.people[p]) \in Persons
    BY <1>1, WicketPersonIs
  <2> QED BY <1>1, <2>1
<1>6. X \in bat \cup {None} /\ Y \in bat \cup {None}
  BY <1>1, <1>2
<1>7. {X, Y} = (Ended(s) \ {w.out}) \cup {None}
  BY <1>2 DEF Ended
<1>8. F \in Seq(FallRows(bat)) /\ Len(F) = Len(s.falls) + 1
  <2> DEFINE fall == [sequence |-> n, score |-> s.runs, number |-> s.wickets + 1,
                      who |-> w.out, how |-> w.kind]
  <2>1. fall \in FallRows(bat)
    BY <1>1, <1>2 DEF FallRows
  <2> HIDE DEF fall
  <2> QED BY <1>1, <2>1 DEF fall
<1>9. Fallen(s, f, c, n) = [s EXCEPT !.wickets = W, !.overs = V, !.people = Q,
                                     !.striker = X, !.nonStriker = Y, !.falls = F]
  BY DEF Fallen, ReplayStates, WicketPerson
<1> HIDE DEF W, V, Q, X, Y, F, o
<1> DEFINE r == [s EXCEPT !.wickets = W, !.overs = V, !.people = Q,
                          !.striker = X, !.nonStriker = Y, !.falls = F]
<1>10. /\ r \in ReplayStates(bat, field)
       /\ r.wickets = W /\ r.overs = V /\ r.people = Q /\ r.striker = X /\ r.nonStriker = Y
       /\ r.falls = F /\ r.bowler = s.bowler
       /\ KeepsTotals(s, r)
  BY <1>3, <1>4, <1>5, <1>6, <1>8 DEF ReplayStates, KeepsTotals
<1> HIDE DEF r
<1>11. Ended(r) = {X, Y}
  BY <1>10 DEF Ended
<1>12. Fallen(s, f, c, n) = r /\ W = s.wickets + 1
  BY <1>9 DEF r, W
<1>13. r.overs[k] = [s.overs[k] EXCEPT !.wickets = s.overs[k].wickets + 1]
  BY <1>4, <1>10 DEF o
<1>14. \A p \in bat \cup field : r.people[p] = WicketPerson(f, p, s.people[p])
  BY <1>5, <1>10
<1>15. Len(r.overs) = k /\ \A m \in 1 .. c.over : r.overs[m] = s.overs[m]
  BY <1>4, <1>10
<1>16. Len(r.falls) = Len(s.falls) + 1 /\ Ended(r) = (Ended(s) \ {f.wicket.out}) \cup {None}
  BY <1>7, <1>8, <1>10, <1>11
<1> QED BY <1>10, <1>12, <1>13, <1>14, <1>15, <1>16

LEMMA OverEndsIs ==
  ASSUME NEW bat, NEW field, NEW s \in ReplayStates(bat, field), NEW over \in Nat,
         Len(s.overs) = over + 1
  PROVE  LET r == OverEnds(s, over) IN
         /\ r \in ReplayStates(bat, field)
         /\ KeepsTotals(s, r) /\ r.bowler = None
         /\ r.wickets = s.wickets /\ r.falls = s.falls /\ r.people = s.people
         /\ Len(r.overs) = over + 1
         /\ \A m \in 1 .. over : r.overs[m] = s.overs[m]
         /\ r.overs[over + 1] = [s.overs[over + 1] EXCEPT !.complete = TRUE]
         /\ Ended(r) = Ended(s)
<1> DEFINE k == over + 1
           o == [s.overs[k] EXCEPT !.complete = TRUE]
           V == [s.overs EXCEPT ![k] = o]
<1>1. /\ s.overs \in Seq(OverRows(field))
      /\ s.striker \in bat \cup {None} /\ s.nonStriker \in bat \cup {None}
  BY DEF ReplayStates
<1>2. /\ V \in Seq(OverRows(field)) /\ Len(V) = k /\ V[k] = o
      /\ \A m \in 1 .. over : V[m] = s.overs[m]
  <2>1. k \in DOMAIN s.overs /\ Len(s.overs) = k /\ DOMAIN s.overs = 1 .. k
    BY <1>1
  <2>2. s.overs[k] \in OverRows(field)
    BY <1>1, <2>1
  <2>3. o \in OverRows(field)
    BY <2>2 DEF OverRows
  <2> HIDE DEF o
  <2> QED BY <1>1, <2>1, <2>3
<1>3. OverEnds(s, over) = [s EXCEPT !.overs = V, !.bowler = None,
                                    !.striker = s.nonStriker, !.nonStriker = s.striker]
  BY DEF OverEnds, Swap, ReplayStates
<1> HIDE DEF V, o
<1> DEFINE r == [s EXCEPT !.overs = V, !.bowler = None,
                          !.striker = s.nonStriker, !.nonStriker = s.striker]
<1>4. /\ r \in ReplayStates(bat, field)
      /\ r.wickets = s.wickets /\ r.overs = V /\ r.people = s.people
      /\ r.striker = s.nonStriker /\ r.nonStriker = s.striker
      /\ r.falls = s.falls /\ r.bowler = None
      /\ KeepsTotals(s, r)
  BY <1>1, <1>2 DEF ReplayStates, KeepsTotals
<1> HIDE DEF r
<1>5. Ended(r) = Ended(s)
  BY <1>4 DEF Ended
<1> QED BY <1>2, <1>3, <1>4, <1>5 DEF r, o

LEMMA SwapIs ==
  ASSUME NEW bat, NEW field, NEW s \in ReplayStates(bat, field)
  PROVE  LET r == Swap(s) IN
         /\ r \in ReplayStates(bat, field)
         /\ KeepsTotals(s, r) /\ r.bowler = s.bowler
         /\ r.wickets = s.wickets /\ r.falls = s.falls /\ r.people = s.people
         /\ r.overs = s.overs /\ Ended(r) = Ended(s)
<1>1. s.striker \in bat \cup {None} /\ s.nonStriker \in bat \cup {None}
  BY DEF ReplayStates
<1> DEFINE r == [s EXCEPT !.striker = s.nonStriker, !.nonStriker = s.striker]
<1>2. /\ r \in ReplayStates(bat, field)
      /\ r.wickets = s.wickets /\ r.overs = s.overs /\ r.people = s.people
      /\ r.striker = s.nonStriker /\ r.nonStriker = s.striker
      /\ r.falls = s.falls /\ r.bowler = s.bowler
      /\ KeepsTotals(s, r)
  BY <1>1 DEF ReplayStates, KeepsTotals
<1> HIDE DEF r
<1>3. Ended(r) = Ended(s)
  BY <1>2 DEF Ended
<1> QED BY <1>2, <1>3 DEF Swap, r

\* The state after an accepted delivery, in the order of the code.
Delivered(s, f, c, n, pol) ==
  AfterBall(AfterWicket(AfterRuns(Scored(s, f, c), c), f, c, n), c, pol)

PersonAfter(s, f, c, p) == WicketPerson(f, p, ScoredPerson(s, f, c, p))
Fell(f) == Bool01(f.wicket # None)
Closes(s, c, pol) == c.legal /\ (s.legal + Bool01(c.legal)) % pol.over = 0

\* What a delivery adds to its over b, which becomes o.
OverGrows(b, o, s, f, c, pol) ==
  /\ o.bowler = b.bowler /\ o.legal = b.legal + Bool01(c.legal)
  /\ o.runs = b.runs + c.total /\ o.conceded = b.conceded + c.conceded
  /\ o.wickets = b.wickets + Fell(f)
  /\ o.complete = (b.complete \/ Closes(s, c, pol))

DeliveredFrom(s, r, f, c, pol, people) ==
  /\ r.applied = Append(s.applied, c)
  /\ r.runs = s.runs + c.total /\ r.legal = s.legal + Bool01(c.legal)
  /\ \A e \in ExtraKinds : r.extras[e] = s.extras[e] + f[e]
  /\ r.life = s.life /\ r.reason = s.reason /\ r.halted = s.halted
  /\ r.unreplayed = s.unreplayed /\ r.target = s.target /\ r.error = s.error
  /\ r.wickets = s.wickets + Fell(f) /\ Len(r.falls) = Len(s.falls) + Fell(f)
  /\ \A p \in people : r.people[p] = PersonAfter(s, f, c, p)
  /\ Len(r.overs) = c.over + 1
  /\ \A m \in 1 .. c.over : r.overs[m] = s.overs[m]
  /\ OverGrows(OverBefore(s, f, c), r.overs[c.over + 1], s, f, c, pol)
  /\ Ended(r) = IF f.wicket = None THEN Ended(s)
                ELSE (Ended(s) \ {f.wicket.out}) \cup {None}
  /\ r.bowler = IF Closes(s, c, pol) THEN None ELSE s.bowler

LEMMA DeliveredIs ==
  ASSUME NEW bat, NEW field, bat \cap field = {},
         NEW s \in ReplayStates(bat, field), NEW f \in Facts(bat, field),
         NEW c \in Classes(bat), NEW n \in Nat, NEW pol,
         OverFits(s, c), Fitting(s, f)
  PROVE  /\ Delivered(s, f, c, n, pol) \in ReplayStates(bat, field)
         /\ DeliveredFrom(s, Delivered(s, f, c, n, pol), f, c, pol, bat \cup field)
<1> DEFINE a == Scored(s, f, c)
           b == AfterRuns(a, c)
           d == AfterWicket(b, f, c, n)
           r == AfterBall(d, c, pol)
           k == c.over + 1
<1>1. /\ a \in ReplayStates(bat, field)
      /\ a.applied = Append(s.applied, c)
      /\ a.runs = s.runs + c.total
      /\ a.legal = s.legal + Bool01(c.legal)
      /\ \A e \in ExtraKinds : a.extras[e] = s.extras[e] + f[e]
      /\ \A p \in bat \cup field : a.people[p] = ScoredPerson(s, f, c, p)
      /\ Len(a.overs) = k
      /\ \A m \in 1 .. c.over : a.overs[m] = s.overs[m]
      /\ a.overs[k] = OverScored(s, f, c)
      /\ a.striker = s.striker /\ a.nonStriker = s.nonStriker
      /\ a.bowler = s.bowler /\ a.life = s.life
      /\ a.reason = s.reason /\ a.halted = s.halted
      /\ a.unreplayed = s.unreplayed /\ a.target = s.target
      /\ a.wickets = s.wickets /\ a.falls = s.falls
      /\ a.error = s.error
  BY ScoredIs
<1> HIDE DEF a
<1>2. /\ b \in ReplayStates(bat, field)
      /\ KeepsTotals(a, b) /\ b.bowler = a.bowler
      /\ b.wickets = a.wickets /\ b.falls = a.falls /\ b.people = a.people
      /\ b.overs = a.overs /\ Ended(b) = Ended(a)
  <2>1. CASE c.completed % 2 = 1
    <3>1. b = Swap(a)
      BY <2>1 DEF AfterRuns
    <3> HIDE DEF b
    <3> QED BY <1>1, <3>1, SwapIs
  <2>2. CASE c.completed % 2 # 1
    BY <1>1, <2>2 DEF AfterRuns, KeepsTotals
  <2> QED BY <2>1, <2>2
<1>3. Ended(b) = Ended(s) /\ Ended(s) = {f.striker, f.nonStriker}
  BY <1>1, <1>2 DEF Ended, Fitting
<1>4. OverBefore(s, f, c) \in OverRows(field)
  BY OverBeforeTyped
<1> DEFINE o == OverBefore(s, f, c)
<1>5. /\ a.overs[k].bowler = o.bowler /\ a.overs[k].legal = o.legal + Bool01(c.legal)
      /\ a.overs[k].runs = o.runs + c.total
      /\ a.overs[k].conceded = o.conceded + c.conceded
      /\ a.overs[k].wickets = o.wickets /\ a.overs[k].complete = o.complete
      /\ a.overs[k] \in OverRows(field)
  <2>1. a.overs[k] \in OverRows(field)
    <3>1. a.overs \in Seq(OverRows(field)) /\ c.over \in Nat
      BY <1>1 DEF ReplayStates, Classes
    <3>2. k \in 1 .. Len(a.overs)
      BY <1>1, <3>1
    <3> QED BY <3>1, <3>2
  <2>2. a.overs[k] = [o EXCEPT !.legal = o.legal + Bool01(c.legal), !.runs = o.runs + c.total,
                               !.conceded = o.conceded + c.conceded]
    BY <1>1 DEF OverScored
  <2>3. o \in OverRows(field)
    BY <1>4
  <2> HIDE DEF o
  <2>4. \A x, y, z : LET v == [o EXCEPT !.legal = x, !.runs = y, !.conceded = z] IN
          /\ v.bowler = o.bowler /\ v.legal = x /\ v.runs = y /\ v.conceded = z
          /\ v.wickets = o.wickets /\ v.complete = o.complete
    BY <2>3 DEF OverRows
  <2> QED BY <2>1, <2>2, <2>4
<1> HIDE DEF b
<1>6. /\ d \in ReplayStates(bat, field)
      /\ KeepsTotals(a, d) /\ d.bowler = a.bowler
      /\ d.wickets = s.wickets + Fell(f) /\ Len(d.falls) = Len(s.falls) + Fell(f)
      /\ \A p \in bat \cup field : d.people[p] = PersonAfter(s, f, c, p)
      /\ Len(d.overs) = k
      /\ \A m \in 1 .. c.over : d.overs[m] = s.overs[m]
      /\ d.overs[k].bowler = o.bowler /\ d.overs[k].legal = o.legal + Bool01(c.legal)
      /\ d.overs[k].runs = o.runs + c.total
      /\ d.overs[k].conceded = o.conceded + c.conceded
      /\ d.overs[k].wickets = o.wickets + Fell(f) /\ d.overs[k].complete = o.complete
      /\ d.overs[k] \in OverRows(field)
      /\ Ended(d) = IF f.wicket = None THEN Ended(s)
                    ELSE (Ended(s) \ {f.wicket.out}) \cup {None}
  <2>0. s.wickets \in Nat /\ o.wickets \in Nat /\ Len(s.falls) \in Nat
    BY <1>4 DEF ReplayStates, OverRows
  <2>1. CASE f.wicket = None
    <3>1. d = b
      BY <2>1 DEF AfterWicket
    <3>2. Fell(f) = 0
      BY <2>1 DEF Fell, Bool01
    <3>3. \A p \in bat \cup field : b.people[p] = PersonAfter(s, f, c, p)
      BY <1>1, <1>2, <2>1 DEF PersonAfter, WicketPerson
    <3> HIDE DEF d, o
    <3> QED BY <1>1, <1>2, <1>3, <1>5, <2>0, <2>1, <3>1, <3>2, <3>3
  <2>2. CASE f.wicket # None
    <3>1. d = Fallen(b, f, c, n)
      BY <2>2 DEF AfterWicket
    <3>2. Fell(f) = 1
      BY <2>2 DEF Fell, Bool01
    <3>3. f.striker # f.nonStriker /\ f.wicket.out \in {f.striker, f.nonStriker}
      BY <2>2 DEF Fitting
    <3> HIDE DEF d
    <3>4. /\ d \in ReplayStates(bat, field)
          /\ KeepsTotals(b, d) /\ d.bowler = b.bowler
          /\ d.wickets = b.wickets + 1 /\ Len(d.falls) = Len(b.falls) + 1
          /\ \A p \in bat \cup field : d.people[p] = WicketPerson(f, p, b.people[p])
          /\ Len(d.overs) = k
          /\ \A m \in 1 .. c.over : d.overs[m] = b.overs[m]
          /\ d.overs[k] = [b.overs[k] EXCEPT !.wickets = b.overs[k].wickets + 1]
          /\ Ended(d) = (Ended(b) \ {f.wicket.out}) \cup {None}
      <4>1. Len(b.overs) = k /\ Ended(b) = {f.striker, f.nonStriker}
        BY <1>1, <1>2, <1>3
      <4>2. LET r1 == Fallen(b, f, c, n) IN
            /\ r1 \in ReplayStates(bat, field)
            /\ KeepsTotals(b, r1) /\ r1.bowler = b.bowler
            /\ r1.wickets = b.wickets + 1 /\ Len(r1.falls) = Len(b.falls) + 1
            /\ \A p \in bat \cup field : r1.people[p] = WicketPerson(f, p, b.people[p])
            /\ Len(r1.overs) = c.over + 1
            /\ \A m \in 1 .. c.over : r1.overs[m] = b.overs[m]
            /\ r1.overs[c.over + 1] =
                 [b.overs[c.over + 1] EXCEPT !.wickets = b.overs[c.over + 1].wickets + 1]
            /\ Ended(r1) = (Ended(b) \ {f.wicket.out}) \cup {None}
        BY <1>2, <2>2, <3>3, <4>1, FallenIs
      <4> QED BY <3>1, <4>2, SMTT(60)
    <3>5. \A p \in bat \cup field : d.people[p] = PersonAfter(s, f, c, p)
      BY <1>1, <1>2, <3>4 DEF PersonAfter
    <3>6. KeepsTotals(a, d)
      BY <1>2, <3>4 DEF KeepsTotals
    <3>7. /\ d.overs[k].bowler = a.overs[k].bowler /\ d.overs[k].legal = a.overs[k].legal
          /\ d.overs[k].runs = a.overs[k].runs
          /\ d.overs[k].conceded = a.overs[k].conceded
          /\ d.overs[k].wickets = a.overs[k].wickets + 1
          /\ d.overs[k].complete = a.overs[k].complete
          /\ d.overs[k] \in OverRows(field)
      <4>1. d.overs[k] = [a.overs[k] EXCEPT !.wickets = a.overs[k].wickets + 1]
        BY <1>2, <3>4
      <4>2. a.overs[k].wickets + 1 \in Nat
        BY <1>5, <2>0
      <4>3. \A x \in Nat : LET v == [a.overs[k] EXCEPT !.wickets = x] IN
              /\ v.bowler = a.overs[k].bowler /\ v.legal = a.overs[k].legal
              /\ v.runs = a.overs[k].runs /\ v.conceded = a.overs[k].conceded
              /\ v.wickets = x /\ v.complete = a.overs[k].complete
              /\ v \in OverRows(field)
        BY <1>5 DEF OverRows
      <4> QED BY <4>1, <4>2, <4>3
    <3> HIDE DEF o
    <3> QED BY <1>1, <1>2, <1>3, <1>5, <2>0, <2>2, <3>2, <3>4, <3>5, <3>6, <3>7
  <2> QED BY <2>1, <2>2
<1> HIDE DEF d
<1>7. /\ r \in ReplayStates(bat, field)
      /\ KeepsTotals(d, r) /\ r.bowler = IF Closes(s, c, pol) THEN None ELSE s.bowler
      /\ r.wickets = d.wickets /\ r.falls = d.falls /\ r.people = d.people
      /\ Len(r.overs) = k
      /\ \A m \in 1 .. c.over : r.overs[m] = d.overs[m]
      /\ OverGrows(o, r.overs[k], s, f, c, pol)
      /\ Ended(r) = Ended(d)
  <2>1. d.legal = s.legal + Bool01(c.legal) /\ c.over \in Nat /\ o.complete \in BOOLEAN
        /\ d.bowler = s.bowler
    BY <1>1, <1>4, <1>6 DEF KeepsTotals, Classes, OverRows
  <2>2. CASE Closes(s, c, pol)
    <3>1. r = OverEnds(d, c.over)
      BY <2>1, <2>2 DEF AfterBall, Closes
    <3> HIDE DEF r
    <3>2. /\ r \in ReplayStates(bat, field)
          /\ KeepsTotals(d, r) /\ r.bowler = None
          /\ r.wickets = d.wickets /\ r.falls = d.falls /\ r.people = d.people
          /\ Len(r.overs) = k
          /\ \A m \in 1 .. c.over : r.overs[m] = d.overs[m]
          /\ r.overs[k] = [d.overs[k] EXCEPT !.complete = TRUE]
          /\ Ended(r) = Ended(d)
      <4>0. d \in ReplayStates(bat, field) /\ Len(d.overs) = c.over + 1 /\ c.over \in Nat
        BY <1>6, <2>1
      <4>1. LET r1 == OverEnds(d, c.over) IN
            /\ r1 \in ReplayStates(bat, field)
            /\ KeepsTotals(d, r1) /\ r1.bowler = None
            /\ r1.wickets = d.wickets /\ r1.falls = d.falls /\ r1.people = d.people
            /\ Len(r1.overs) = c.over + 1
            /\ \A m \in 1 .. c.over : r1.overs[m] = d.overs[m]
            /\ r1.overs[c.over + 1] = [d.overs[c.over + 1] EXCEPT !.complete = TRUE]
            /\ Ended(r1) = Ended(d)
        BY <4>0, OverEndsIs
      <4> QED BY <3>1, <4>1
    <3>3. /\ r.overs[k].bowler = d.overs[k].bowler /\ r.overs[k].legal = d.overs[k].legal
          /\ r.overs[k].runs = d.overs[k].runs
          /\ r.overs[k].conceded = d.overs[k].conceded
          /\ r.overs[k].wickets = d.overs[k].wickets /\ r.overs[k].complete = TRUE
      BY <1>6, <3>2 DEF OverRows
    <3> HIDE DEF o
    <3>4. OverGrows(o, r.overs[k], s, f, c, pol)
      BY <1>6, <2>2, <3>3 DEF OverGrows
    <3> QED BY <2>2, <3>2, <3>4
  <2>3. CASE ~Closes(s, c, pol)
    <3>1. r = d
      BY <2>1, <2>3 DEF AfterBall, Closes
    <3> HIDE DEF r, o
    <3>2. OverGrows(o, r.overs[k], s, f, c, pol)
      BY <1>6, <2>1, <2>3, <3>1 DEF OverGrows
    <3>3. KeepsTotals(d, d)
      BY DEF KeepsTotals
    <3> QED BY <1>6, <2>1, <2>3, <3>1, <3>2, <3>3
  <2> QED BY <2>2, <2>3
<1> HIDE DEF r
<1>8. Delivered(s, f, c, n, pol) = r
  BY DEF Delivered, r, d, b, a
<1>9. KeepsTotals(a, r)
  BY <1>6, <1>7 DEF KeepsTotals
<1>10. /\ r.applied = Append(s.applied, c)
       /\ r.runs = s.runs + c.total /\ r.legal = s.legal + Bool01(c.legal)
       /\ \A e \in ExtraKinds : r.extras[e] = s.extras[e] + f[e]
       /\ r.life = s.life /\ r.reason = s.reason /\ r.halted = s.halted
       /\ r.unreplayed = s.unreplayed /\ r.target = s.target /\ r.error = s.error
  BY <1>1, <1>9 DEF KeepsTotals
<1>11. /\ r.wickets = s.wickets + Fell(f) /\ Len(r.falls) = Len(s.falls) + Fell(f)
       /\ \A p \in bat \cup field : r.people[p] = PersonAfter(s, f, c, p)
       /\ Ended(r) = IF f.wicket = None THEN Ended(s)
                     ELSE (Ended(s) \ {f.wicket.out}) \cup {None}
       /\ \A m \in 1 .. c.over : r.overs[m] = s.overs[m]
  BY <1>6, <1>7
<1> QED BY <1>7, <1>8, <1>10, <1>11 DEF DeliveredFrom

-----------------------------------------------------------------------------
(* One transition, field by field.                                         *)

Transitions(bat, field) ==
  [kind : {"next_batter"} \cup Retirements, who : bat, mode : {None}, anchor : Nat]
    \cup [kind : {"next_bowler"}, who : field, mode : {None}, anchor : Nat]
    \cup [kind : {"innings_completed"}, who : {None}, mode : ExplicitModes, anchor : Nat]

KeepsScorecard(s, r) ==
  /\ r.applied = s.applied /\ r.runs = s.runs /\ r.legal = s.legal /\ r.extras = s.extras
  /\ r.halted = s.halted /\ r.unreplayed = s.unreplayed /\ r.target = s.target
  /\ r.wickets = s.wickets /\ r.falls = s.falls /\ r.overs = s.overs

Errs(s, r) ==
  /\ KeepsScorecard(s, r) /\ r.people = s.people /\ Ended(r) = Ended(s)
  /\ r.bowler = s.bowler /\ r.life = s.life /\ r.reason = s.reason
  /\ r.error \in {"conflict", "invalid"}

BowlerChosen(s, r, pol, field) ==
  /\ KeepsScorecard(s, r) /\ r.people = s.people /\ Ended(r) = Ended(s)
  /\ r.life = s.life /\ r.reason = s.reason /\ r.error = s.error
  /\ s.bowler = None /\ r.bowler \in field /\ s.legal # 0 /\ s.legal % pol.over = 0
  /\ Ineligibility(pol, r.bowler, field, Balls(s),
                   PreviousBowler(s, s.legal \div pol.over)) = None

BatterCame(s, r, bat) ==
  /\ KeepsScorecard(s, r) /\ r.bowler = s.bowler
  /\ r.life = s.life /\ r.reason = s.reason /\ r.error = s.error
  /\ \E who \in bat, x \in bat \cup {None} :
       /\ Ended(s) = {None, x} /\ Ended(r) = {who, x}
       /\ s.people[who].state \in {"not_batted", "retired_hurt"}
       /\ r.people = [s.people EXCEPT ![who] = [s.people[who] EXCEPT !.state = "active"]]

BatterLeft(s, r, bat) ==
  /\ KeepsScorecard(s, r) /\ r.bowler = s.bowler
  /\ r.life = s.life /\ r.reason = s.reason /\ r.error = s.error
  /\ \E who \in bat, x \in bat \cup {None} :
       /\ Ended(s) = {who, x} /\ x # who /\ Ended(r) = {None, x}
       /\ r.people = [s.people EXCEPT ![who] =
                        [s.people[who] EXCEPT !.state = "retired_hurt"]]

Finishes(s, r, pol) ==
  /\ KeepsScorecard(s, r) /\ r.people = s.people /\ Ended(r) = Ended(s)
  /\ r.bowler = s.bowler /\ r.error = s.error
  /\ r.life = IF r.reason = None THEN s.life ELSE "completed"
  /\ r.reason \in {AutomaticCompletion(pol, s)} \cup (ExplicitModes \cap pol.modes)

Transits(s, r, pol, bat, field) ==
  \/ r = s \/ Errs(s, r) \/ BowlerChosen(s, r, pol, field)
  \/ BatterCame(s, r, bat) \/ BatterLeft(s, r, bat)
  \/ s.life # "completed" /\ Finishes(s, r, pol)

\* Two people at the ends are different.
Apart(s) == s.striker = s.nonStriker => s.striker = None

LEMMA ErrsIs ==
  ASSUME NEW bat, NEW field, NEW s \in ReplayStates(bat, field),
         NEW e \in {"conflict", "invalid"}
  PROVE  LET r == [s EXCEPT !.error = e] IN
         r \in ReplayStates(bat, field) /\ Errs(s, r)
<1> DEFINE r == [s EXCEPT !.error = e]
<1>1. r \in ReplayStates(bat, field)
  BY DEF ReplayStates
<1>2. Errs(s, r)
  BY DEF ReplayStates, Errs, KeepsScorecard, Ended
<1> QED BY <1>1, <1>2

LEMMA ConflictIs ==
  ASSUME NEW bat, NEW field, NEW s \in ReplayStates(bat, field)
  PROVE  Conflict(s) \in ReplayStates(bat, field) /\ Errs(s, Conflict(s))
BY ErrsIs DEF Conflict

LEMMA AutomaticCompletionIs ==
  ASSUME NEW pol, NEW s
  PROVE  AutomaticCompletion(pol, s) \in AutomaticModes \cup {None}
BY DEF AutomaticCompletion, AutomaticModes

LEMMA CompleteIs ==
  ASSUME NEW bat, NEW field, NEW s \in ReplayStates(bat, field), NEW pol,
         NEW m \in {AutomaticCompletion(pol, s)} \cup (ExplicitModes \cap pol.modes)
  PROVE  Complete(s, m) \in ReplayStates(bat, field) /\ Finishes(s, Complete(s, m), pol)
<1>1. m \in AutomaticModes \cup ExplicitModes \cup {None}
  BY AutomaticCompletionIs
<1> DEFINE l == IF m = None THEN s.life ELSE "completed"
           r == [s EXCEPT !.life = l, !.reason = m]
<1>3. Complete(s, m) = r
  BY DEF Complete, ReplayStates
<1>2. l \in {"in_progress", "completed", "reconciliation_required"}
  BY DEF ReplayStates
<1>5. r \in ReplayStates(bat, field)
  <2> HIDE DEF l
  <2> QED BY <1>1, <1>2 DEF ReplayStates
<1>4. /\ r.life = l /\ r.reason = m
      /\ KeepsScorecard(s, r) /\ r.people = s.people /\ Ended(r) = Ended(s)
      /\ r.bowler = s.bowler /\ r.error = s.error
  <2> HIDE DEF l
  <2> QED BY DEF ReplayStates, KeepsScorecard, Ended
<1> HIDE DEF r
<1> QED BY <1>3, <1>4, <1>5 DEF Finishes

LEMMA ArrivesIs ==
  ASSUME NEW bat, NEW field, NEW s \in ReplayStates(bat, field), NEW who \in bat,
         s.people[who].state \in {"not_batted", "retired_hurt"}
  PROVE  /\ Arrives(s, who) \in ReplayStates(bat, field)
         /\ Errs(s, Arrives(s, who)) \/ BatterCame(s, Arrives(s, who), bat)
<1> DEFINE P == [s.people EXCEPT ![who] = [s.people[who] EXCEPT !.state = "active"]]
<1>1. P \in [bat \cup field -> Persons]
  <2>1. s.people \in [bat \cup field -> Persons]
    BY DEF ReplayStates
  <2>2. [s.people[who] EXCEPT !.state = "active"] \in Persons
    BY <2>1 DEF Persons, BatterStates
  <2> QED BY <2>1, <2>2
<1>2. /\ [s EXCEPT !.striker = who, !.people[who].state = "active"]
           = [s EXCEPT !.striker = who, !.people = P]
      /\ [s EXCEPT !.nonStriker = who, !.people[who].state = "active"]
           = [s EXCEPT !.nonStriker = who, !.people = P]
  BY DEF ReplayStates
<1>3. s.striker \in bat \cup {None} /\ s.nonStriker \in bat \cup {None}
  BY DEF ReplayStates
<1> HIDE DEF P
<1>4. CASE s.striker = None
  <2> DEFINE r == [s EXCEPT !.striker = who, !.people = P]
  <2>1. Arrives(s, who) = r
    BY <1>2, <1>4 DEF Arrives
  <2>2. /\ r \in ReplayStates(bat, field)
        /\ KeepsScorecard(s, r) /\ r.bowler = s.bowler /\ r.people = P
        /\ r.life = s.life /\ r.reason = s.reason /\ r.error = s.error
        /\ r.striker = who /\ r.nonStriker = s.nonStriker
    BY <1>1 DEF ReplayStates, KeepsScorecard
  <2> HIDE DEF r
  <2>3. Ended(s) = {None, s.nonStriker} /\ Ended(r) = {who, s.nonStriker}
    BY <1>4, <2>2 DEF Ended
  <2>4. BatterCame(s, r, bat)
    BY <1>3, <2>2, <2>3 DEF BatterCame, P
  <2> QED BY <2>1, <2>2, <2>4
<1>5. CASE s.striker # None /\ s.nonStriker = None
  <2> DEFINE r == [s EXCEPT !.nonStriker = who, !.people = P]
  <2>1. Arrives(s, who) = r
    BY <1>2, <1>5 DEF Arrives
  <2>2. /\ r \in ReplayStates(bat, field)
        /\ KeepsScorecard(s, r) /\ r.bowler = s.bowler /\ r.people = P
        /\ r.life = s.life /\ r.reason = s.reason /\ r.error = s.error
        /\ r.striker = s.striker /\ r.nonStriker = who
    BY <1>1 DEF ReplayStates, KeepsScorecard
  <2> HIDE DEF r
  <2>3. Ended(s) = {None, s.striker} /\ Ended(r) = {who, s.striker}
    BY <1>5, <2>2 DEF Ended
  <2>4. BatterCame(s, r, bat)
    BY <1>3, <2>2, <2>3 DEF BatterCame, P
  <2> QED BY <2>1, <2>2, <2>4
<1>6. CASE s.striker # None /\ s.nonStriker # None
  <2>1. Arrives(s, who) = Conflict(s)
    BY <1>6 DEF Arrives
  <2> QED BY <2>1, ConflictIs
<1> QED BY <1>4, <1>5, <1>6

LEMMA RetireHurtIs ==
  ASSUME NEW bat, NEW field, NEW s \in ReplayStates(bat, field), NEW who \in bat,
         None \notin bat, Apart(s)
  PROVE  /\ RetireHurt(s, who) \in ReplayStates(bat, field)
         /\ Errs(s, RetireHurt(s, who)) \/ BatterLeft(s, RetireHurt(s, who), bat)
<1> DEFINE P == [s.people EXCEPT ![who] = [s.people[who] EXCEPT !.state = "retired_hurt"]]
           X == IF s.striker = who THEN None ELSE s.striker
           Y == IF s.nonStriker = who THEN None ELSE s.nonStriker
           r == [s EXCEPT !.people = P, !.striker = X, !.nonStriker = Y]
<1>1. P \in [bat \cup field -> Persons]
  <2>1. s.people \in [bat \cup field -> Persons]
    BY DEF ReplayStates
  <2>2. [s.people[who] EXCEPT !.state = "retired_hurt"] \in Persons
    BY <2>1 DEF Persons, BatterStates
  <2> QED BY <2>1, <2>2
<1>2. s.striker \in bat \cup {None} /\ s.nonStriker \in bat \cup {None}
  BY DEF ReplayStates
<1>3. CASE who \notin {s.striker, s.nonStriker}
  <2>1. RetireHurt(s, who) = Conflict(s)
    BY <1>3 DEF RetireHurt
  <2> QED BY <2>1, ConflictIs
<1>4. CASE who \in {s.striker, s.nonStriker}
  <2>1. RetireHurt(s, who) = r
    BY <1>4 DEF RetireHurt, ReplayStates
  <2>2. X \in bat \cup {None} /\ Y \in bat \cup {None}
    BY <1>2
  <2>3. \E x \in bat \cup {None} : Ended(s) = {who, x} /\ x # who /\ {X, Y} = {None, x}
    <3>1. CASE who = s.striker
      BY <1>2, <3>1 DEF Ended, Apart
    <3>2. CASE who = s.nonStriker
      BY <1>2, <3>2 DEF Ended, Apart
    <3> QED BY <1>4, <3>1, <3>2
  <2> HIDE DEF P, X, Y
  <2>4. /\ r \in ReplayStates(bat, field)
        /\ KeepsScorecard(s, r) /\ r.bowler = s.bowler /\ r.people = P
        /\ r.life = s.life /\ r.reason = s.reason /\ r.error = s.error
        /\ r.striker = X /\ r.nonStriker = Y
    BY <1>1, <2>2 DEF ReplayStates, KeepsScorecard
  <2> HIDE DEF r
  <2>5. Ended(r) = {X, Y}
    BY <2>4 DEF Ended
  <2>6. BatterLeft(s, r, bat)
    BY <2>3, <2>4, <2>5 DEF BatterLeft, P
  <2> QED BY <2>1, <2>4, <2>6
<1> QED BY <1>3, <1>4

LEMMA NextBowlerIs ==
  ASSUME NEW bat, NEW field, NEW s \in ReplayStates(bat, field), NEW who \in field, NEW pol
  PROVE  /\ NextBowler(s, who, pol, field) \in ReplayStates(bat, field)
         /\ \/ Errs(s, NextBowler(s, who, pol, field))
            \/ BowlerChosen(s, NextBowler(s, who, pol, field), pol, field)
<1> DEFINE r == [s EXCEPT !.bowler = who]
           free == /\ s.bowler = None /\ s.legal # 0 /\ s.legal % pol.over = 0
                   /\ Ineligibility(pol, who, field, Balls(s),
                                    PreviousBowler(s, s.legal \div pol.over)) = None
<1>1. CASE free
  <2>1. NextBowler(s, who, pol, field) = r
    BY <1>1 DEF NextBowler
  <2>2. /\ r \in ReplayStates(bat, field)
        /\ KeepsScorecard(s, r) /\ r.bowler = who /\ r.people = s.people
        /\ r.life = s.life /\ r.reason = s.reason /\ r.error = s.error
        /\ Ended(r) = Ended(s)
    BY DEF ReplayStates, KeepsScorecard, Ended
  <2> HIDE DEF r
  <2> QED BY <1>1, <2>1, <2>2 DEF BowlerChosen
<1>2. CASE ~free
  <2>1. NextBowler(s, who, pol, field) = Conflict(s)
    BY <1>2 DEF NextBowler
  <2> QED BY <2>1, ConflictIs
<1> QED BY <1>1, <1>2

LEMMA ApplyTransitionIs ==
  ASSUME NEW bat, NEW field, NEW s \in ReplayStates(bat, field), NEW pol,
         NEW t \in Transitions(bat, field), None \notin bat, Apart(s)
  PROVE  LET r == ApplyTransition(s, t, pol, bat, field) IN
         r \in ReplayStates(bat, field) /\ Transits(s, r, pol, bat, field)
<1> DEFINE r == ApplyTransition(s, t, pol, bat, field)
           conflict == Conflict(s)
<1>1. conflict \in ReplayStates(bat, field) /\ Transits(s, conflict, pol, bat, field)
  BY ConflictIs DEF Transits
<1>2. s \in ReplayStates(bat, field) /\ Transits(s, s, pol, bat, field)
  BY DEF Transits
<1> HIDE DEF conflict
<1>3. CASE Fails(s) \/ s.life = "completed"
  <2>1. r \in {s, conflict}
    BY <1>3 DEF ApplyTransition, conflict
  <2> HIDE DEF r
  <2> QED BY <1>1, <1>2, <2>1 DEF r
<1>4. CASE ~Fails(s) /\ s.life # "completed"
  <2>1. CASE t.kind \in Retirements \ pol.transitions
    <3>1. r = conflict
      BY <1>4, <2>1 DEF ApplyTransition, conflict, Retirements
    <3> QED BY <1>1, <3>1
  <2>2. CASE t.kind = "next_bowler"
    <3>1. t.who \in field
      BY <2>2 DEF Transitions, Retirements
    <3>2. r = NextBowler(s, t.who, pol, field)
      BY <1>4, <2>2 DEF ApplyTransition, Retirements
    <3> QED BY <3>1, <3>2, NextBowlerIs DEF Transits
  <2>3. CASE t.kind = "next_batter"
    <3>1. t.who \in bat
      BY <2>3 DEF Transitions, Retirements
    <3>2. r = NextBatter(s, t.who, bat)
      BY <1>4, <2>3 DEF ApplyTransition, Retirements
    <3>3. CASE s.people[t.who].state = "not_batted"
      <4>1. r = Arrives(s, t.who)
        BY <3>1, <3>2, <3>3 DEF NextBatter
      <4> QED BY <3>1, <3>3, <4>1, ArrivesIs DEF Transits
    <3>4. CASE s.people[t.who].state # "not_batted"
      <4>1. r = conflict
        BY <3>1, <3>2, <3>4 DEF NextBatter, conflict
      <4> QED BY <1>1, <4>1
    <3> QED BY <3>3, <3>4
  <2>4. CASE t.kind = "retired_hurt" /\ t.kind \in pol.transitions
    <3>1. t.who \in bat
      BY <2>4 DEF Transitions, Retirements
    <3>2. r = RetireHurt(s, t.who)
      BY <1>4, <2>4 DEF ApplyTransition, Retirements
    <3> QED BY <3>1, <3>2, RetireHurtIs DEF Transits
  <2>5. CASE t.kind = "retired_hurt_return" /\ t.kind \in pol.transitions
    <3>1. t.who \in bat
      BY <2>5 DEF Transitions, Retirements
    <3>2. r = RetiredHurtReturn(s, t.who)
      BY <1>4, <2>5 DEF ApplyTransition, Retirements
    <3>3. CASE s.people[t.who].state = "retired_hurt"
      <4>1. r = Arrives(s, t.who)
        BY <3>2, <3>3 DEF RetiredHurtReturn
      <4> QED BY <3>1, <3>3, <4>1, ArrivesIs DEF Transits
    <3>4. CASE s.people[t.who].state # "retired_hurt"
      <4>1. r = conflict
        BY <3>2, <3>4 DEF RetiredHurtReturn, conflict
      <4> QED BY <1>1, <4>1
    <3> QED BY <3>3, <3>4
  <2>6. CASE t.kind = "innings_completed"
    <3>1. r = InningsCompleted(s, t.mode, pol)
      BY <1>4, <2>6 DEF ApplyTransition, Retirements
    <3> DEFINE automatic == Complete(s, AutomaticCompletion(pol, s))
               explicit == Complete(s, t.mode)
    <3>2. automatic \in ReplayStates(bat, field) /\ Finishes(s, automatic, pol)
      BY CompleteIs
    <3>3. t.mode \in ExplicitModes \cap pol.modes =>
            explicit \in ReplayStates(bat, field) /\ Finishes(s, explicit, pol)
      BY CompleteIs
    <3>4. \/ r = automatic \/ r = conflict
          \/ r = explicit /\ t.mode \in ExplicitModes \cap pol.modes
      BY <3>1 DEF InningsCompleted, conflict
    <3> HIDE DEF automatic, explicit, r
    <3> QED BY <1>1, <1>4, <3>2, <3>3, <3>4 DEF Transits, r
  <2>7. t.kind \in {"next_batter", "next_bowler", "innings_completed"} \cup Retirements
    BY DEF Transitions
  <2> QED BY <2>1, <2>2, <2>3, <2>4, <2>5, <2>6, <2>7 DEF Retirements
<1> QED BY <1>3, <1>4

-----------------------------------------------------------------------------
(* Whole overs and the balls of the next one.                              *)

LEMMA Divided ==
  ASSUME NEW a \in Nat, NEW n \in Nat \ {0}
  PROVE  a \div n \in Nat /\ a % n \in 0 .. (n - 1) /\ a = (n * (a \div n)) + (a % n)
<1>1. a \div n \in Nat
  OBVIOUS
<1>2. a % n \in 0 .. (n - 1)
  OBVIOUS
<1>3. a = (n * (a \div n)) + (a % n)
  OBVIOUS
<1> QED BY <1>1, <1>2, <1>3

LEMMA DividedOnce ==
  ASSUME NEW n \in Nat \ {0}, NEW p \in Nat, NEW q \in Nat,
         NEW r \in 0 .. (n - 1), NEW t \in 0 .. (n - 1), (n * p) + r = (n * q) + t
  PROVE  p = q /\ r = t
<1>1. CASE p < q
  <2>1. n * (p + 1) <= n * q
    <3>1. p + 1 <= q
      BY <1>1
    <3> QED BY <3>1
  <2> QED BY <2>1
<1>2. CASE q < p
  <2>1. n * (q + 1) <= n * p
    <3>1. q + 1 <= p
      BY <1>2
    <3> QED BY <3>1
  <2> QED BY <2>1
<1> QED BY <1>1, <1>2

\* One more legal ball closes the over or is of the same one.
LEMMA NextBall ==
  ASSUME NEW a \in Nat, NEW n \in Nat \ {0}
  PROVE  /\ a % n = n - 1 => (a + 1) \div n = (a \div n) + 1 /\ (a + 1) % n = 0
         /\ a % n # n - 1 => (a + 1) \div n = a \div n /\ (a + 1) % n = (a % n) + 1
<1> DEFINE b == a + 1
<1>0. b \in Nat /\ b = a + 1
  OBVIOUS
<1> HIDE DEF b
<1> DEFINE d == a \div n
           m == a % n
<1>1. d \in Nat /\ m \in 0 .. (n - 1) /\ a = (n * d) + m
  BY Divided
<1>2. /\ b \div n \in Nat /\ b % n \in 0 .. (n - 1)
      /\ b = (n * (b \div n)) + (b % n)
  BY <1>0, Divided
<1> HIDE DEF d, m
<1>3. CASE m = n - 1
  <2>1. d + 1 \in Nat /\ 0 \in 0 .. (n - 1)
    BY <1>1
  <2>2. (n * (b \div n)) + (b % n) = (n * (d + 1)) + 0
    <3>1. n * (d + 1) = (n * d) + n
      BY <1>1
    <3>2. a + 1 = (n * d) + n
      BY <1>1, <1>3
    <3> QED BY <1>0, <1>2, <3>1, <3>2
  <2> DEFINE p == d + 1
  <2> HIDE DEF p
  <2>3. (n * (b \div n)) + (b % n) = (n * p) + 0 /\ p \in Nat
    BY <2>1, <2>2 DEF p
  <2>4. b \div n = p /\ b % n = 0
    BY <1>2, <2>1, <2>3, DividedOnce
  <2> QED BY <1>0, <1>3, <2>4 DEF p, d, m
<1>4. CASE m # n - 1
  <2> DEFINE p == m + 1
  <2>1. p \in 0 .. (n - 1) /\ a + 1 = (n * d) + p
    BY <1>1, <1>4
  <2> HIDE DEF p
  <2>2. (n * (b \div n)) + (b % n) = (n * d) + p
    BY <1>0, <1>2, <2>1
  <2> DEFINE e == b \div n
             g == b % n
  <2>3. e \in Nat /\ g \in 0 .. (n - 1) /\ (n * e) + g = (n * d) + p /\ d \in Nat
    BY <1>1, <1>2, <2>2
  <2> HIDE DEF e, g
  <2>4. e = d /\ g = p
    BY <2>1, <2>3, DividedOnce
  <2> QED BY <1>0, <1>4, <2>4 DEF p, d, m, e, g
<1> QED BY <1>3, <1>4 DEF m

-----------------------------------------------------------------------------
(* Sums.                                                                   *)

LEMMA OneLess ==
  ASSUME NEW S, IsFiniteSet(S), NEW x \in S
  PROVE  /\ IsFiniteSet(S \ {x}) /\ Cardinality(S) \in Nat /\ Cardinality(S) - 1 \in Nat
         /\ Cardinality(S \ {x}) = Cardinality(S) - 1
<1>1. IsFiniteSet(S \ {x}) /\ Cardinality(S \ {x}) = Cardinality(S) - 1
  BY FS_RemoveElement
<1>2. Cardinality(S) \in Nat /\ Cardinality(S \ {x}) \in Nat
  BY <1>1, FS_CardinalityType
<1> QED BY <1>1, <1>2

\* Among parts of a finite set there is one with no smaller one.
LEMMA SmallestPart ==
  ASSUME NEW S, IsFiniteSet(S), NEW B \in SUBSET SUBSET S, B # {}
  PROVE  \E u \in B : \A x \in u : u \ {x} \notin B
<1>1. \A u \in SUBSET S : IsFiniteSet(u) /\ Cardinality(u) \in Nat
  BY FS_Subset, FS_CardinalityType
<1> DEFINE T == {n \in Nat : \E u \in B : Cardinality(u) = n}
<1>2. PICK n \in T : \A m \in T : n <= m
  <2>1. T \in SUBSET Nat /\ T # {}
    BY <1>1
  <2> HIDE DEF T
  <2> QED BY <2>1, LeastNumber
<1>3. PICK u \in B : Cardinality(u) = n
  BY <1>2
<1>4. ASSUME NEW x \in u PROVE u \ {x} \notin B
  <2>1. Cardinality(u \ {x}) = n - 1 /\ n \in Nat /\ n - 1 \in Nat
    BY <1>1, <1>3, OneLess
  <2>2. ~(n <= n - 1)
    BY <2>1
  <2>3. n - 1 \notin T
    <3> HIDE DEF T
    <3> QED BY <1>2, <2>1, <2>2
  <2> QED BY <2>1, <2>3
<1> QED BY <1>4

\* f[u] is the sum of g over u, the elements taken one by one in some order.
SumsTo(g, f) ==
  \A u \in DOMAIN f :
    f[u] = IF u = {} THEN 0
           ELSE LET x == CHOOSE x \in u : TRUE IN g[x] + f[u \ {x}]

Small(S, n) == {u \in SUBSET S : Cardinality(u) <= n}

LEMMA SumExists ==
  ASSUME NEW S, IsFiniteSet(S), NEW g
  PROVE  \E f : DOMAIN f = SUBSET S /\ SumsTo(g, f)
<1> DEFINE P == {n \in Nat : \E f : /\ f = [u \in Small(S, n) |-> f[u]]
                                     /\ SumsTo(g, f)}
           N == Cardinality(S)
           first(u) == CHOOSE x \in u : TRUE
<1>1. \A u \in SUBSET S : IsFiniteSet(u) /\ Cardinality(u) \in Nat /\ Cardinality(u) <= N
  BY FS_Subset, FS_CardinalityType
<1>2. 0 \in P
  <2> DEFINE f == [u \in Small(S, 0) |-> 0]
  <2>1. \A u \in Small(S, 0) : u = {}
    BY <1>1, FS_EmptySet DEF Small
  <2>2. SumsTo(g, f) /\ f = [u \in Small(S, 0) |-> f[u]]
    BY <2>1 DEF SumsTo
  <2> HIDE DEF f
  <2> QED BY <2>2
<1>3. ASSUME NEW n \in 1 .. N, n - 1 \in P PROVE n \in P
  <2>1. PICK f : f = [u \in Small(S, n - 1) |-> f[u]] /\ SumsTo(g, f)
    BY <1>3
  <2> DEFINE h == [u \in Small(S, n) |->
                     IF u = {} THEN 0 ELSE g[first(u)] + f[u \ {first(u)}]]
  <2>2. ASSUME NEW u \in Small(S, n), u # {}
        PROVE  first(u) \in u /\ u \ {first(u)} \in Small(S, n - 1)
    <3>1. first(u) \in u /\ u \in SUBSET S /\ Cardinality(u) <= n /\ n \in Nat
      BY <2>2 DEF Small
    <3> HIDE DEF first
    <3>2. Cardinality(u \ {first(u)}) = Cardinality(u) - 1
      BY <1>1, <3>1, FS_RemoveElement
    <3>3. Cardinality(u) - 1 <= n - 1
      BY <1>1, <3>1
    <3> QED BY <3>1, <3>2, <3>3 DEF Small
  <2>3. Small(S, n - 1) \subseteq Small(S, n)
    BY <1>1 DEF Small
  <2>4. DOMAIN f = Small(S, n - 1)
    BY <2>1
  <2>5. \A u \in Small(S, n - 1) : h[u] = f[u]
    BY <2>1, <2>3, <2>4 DEF SumsTo
  <2>6. ASSUME NEW u \in Small(S, n), u # {}
        PROVE  h[u] = g[first(u)] + h[u \ {first(u)}]
    <3>1. h[u] = g[first(u)] + f[u \ {first(u)}]
      BY <2>6
    <3>2. f[u \ {first(u)}] = h[u \ {first(u)}]
      <4> HIDE DEF first, h
      <4> QED BY <2>2, <2>5, <2>6
    <3> QED BY <3>1, <3>2
  <2>7. /\ h = [u \in Small(S, n) |-> h[u]] /\ DOMAIN h = Small(S, n)
        /\ \A u \in Small(S, n) : u = {} => h[u] = 0
    OBVIOUS
  <2> HIDE DEF h
  <2>8. SumsTo(g, h)
    BY <2>6, <2>7 DEF SumsTo
  <2> QED BY <2>7, <2>8
<1>4. N \in P
  <2>1. N \in Nat
    BY FS_CardinalityType
  <2> HIDE DEF P, N
  <2> QED BY <1>2, <1>3, <2>1, ChainHolds
<1>5. Small(S, N) = SUBSET S
  BY <1>1 DEF Small
<1> QED BY <1>4, <1>5

\* What a person's fields add up to.
PeopleSum(people, fd) == MapThenSumSet(LAMBDA p : people[p][fd], DOMAIN people)

\* h[u] is what the people in u add up to, for every part u of S.
Adds(people, fd, S, h) ==
  /\ h \in [SUBSET S -> Nat]
  /\ PeopleSum(people, fd) = h[S] /\ h[{}] = 0
  /\ \A u \in SUBSET S : \A x \in u : h[u] = people[x][fd] + h[u \ {x}]

LEMMA PeopleSumIs ==
  ASSUME NEW S, IsFiniteSet(S), NEW people, DOMAIN people = S, NEW fd,
         \A p \in S : people[p][fd] \in Nat
  PROVE  \E h : Adds(people, fd, S, h)
<1> DEFINE g == [p \in S |-> people[p][fd]]
           iter[u \in SUBSET S] ==
             IF u = {} THEN 0
             ELSE LET x == CHOOSE x \in u : TRUE IN people[x][fd] + iter[u \ {x}]
           e(f, u) == IF u = {} THEN 0
                      ELSE LET x == CHOOSE x \in u : TRUE IN people[x][fd] + f[u \ {x}]
<1>1. PeopleSum(people, fd) = iter[S]
  BY DEF PeopleSum, MapThenSumSet, MapThenFoldSet
<1>2. PICK f : DOMAIN f = SUBSET S /\ SumsTo(g, f)
  BY SumExists
<1>3. ASSUME NEW u \in SUBSET S PROVE f[u] = e(f, u)
  <2>1. CASE u = {}
    BY <1>2, <2>1 DEF SumsTo
  <2>2. CASE u # {}
    <3> DEFINE x == CHOOSE x \in u : TRUE
    <3>1. x \in u /\ x \in S
      BY <2>2
    <3>2. f[u] = g[x] + f[u \ {x}]
      BY <1>2, <2>2 DEF SumsTo
    <3>3. g[x] = people[x][fd]
      <4> HIDE DEF x
      <4> QED BY <3>1
    <3> HIDE DEF g
    <3> QED BY <2>2, <3>2, <3>3
  <2> QED BY <2>1, <2>2
<1> DEFINE k == [u \in SUBSET S |-> f[u]]
<1>4. k = [u \in SUBSET S |-> e(k, u)]
  <2>1. ASSUME NEW u \in SUBSET S PROVE e(k, u) = e(f, u)
    <3>1. CASE u = {}
      BY <3>1
    <3>2. CASE u # {}
      <4> DEFINE x == CHOOSE x \in u : TRUE
      <4>1. k[u \ {x}] = f[u \ {x}]
        OBVIOUS
      <4> HIDE DEF k
      <4> QED BY <3>2, <4>1
    <3> QED BY <3>1, <3>2
  <2> HIDE DEF e
  <2> QED BY <1>3, <2>1
<1> HIDE DEF k
<1>5. iter = [u \in SUBSET S |-> e(iter, u)]
  <2>1. \E r : r = [u \in SUBSET S |->
                      IF u = {} THEN 0
                      ELSE LET x == CHOOSE x \in u : TRUE IN people[x][fd] + r[u \ {x}]]
    BY <1>4
  <2> QED BY <2>1 DEF iter
<1> HIDE DEF iter
<1>6. \A u \in SUBSET S : iter[u] = e(iter, u)
  <2> HIDE DEF e
  <2> QED BY <1>5
<1>7. iter[{}] = 0
  BY <1>6
<1>8. ASSUME NEW u \in SUBSET S, u # {}
      PROVE  \E x \in u : iter[u] = people[x][fd] + iter[u \ {x}]
  <2> DEFINE x == CHOOSE x \in u : TRUE
  <2>1. x \in u
    BY <1>8
  <2>2. iter[u] = people[x][fd] + iter[u \ {x}]
    BY <1>6, <1>8
  <2> HIDE DEF x
  <2> QED BY <2>1, <2>2
<1> DEFINE P == {u \in SUBSET S : iter[u] \in Nat}
           Q == {u \in SUBSET S : \A x \in u : iter[u] = people[x][fd] + iter[u \ {x}]}
<1>9. SUBSET S \subseteq P
  <2>1. ASSUME NEW u \in SUBSET S, \A x \in u : u \ {x} \in P PROVE u \in P
    <3>1. CASE u = {}
      BY <1>7, <3>1
    <3>2. CASE u # {}
      <4>1. PICK x \in u : iter[u] = people[x][fd] + iter[u \ {x}]
        BY <1>8, <3>2
      <4>2. iter[u \ {x}] \in Nat /\ people[x][fd] \in Nat
        BY <2>1, <4>1
      <4> QED BY <4>1, <4>2
    <3> QED BY <3>1, <3>2
  <2> DEFINE B == (SUBSET S) \ P
  <2>2. ASSUME NEW u \in B, \A x \in u : u \ {x} \notin B PROVE FALSE
    BY <2>1, <2>2
  <2>3. B \in SUBSET SUBSET S
    OBVIOUS
  <2> HIDE DEF B
  <2>4. B = {}
    BY <2>2, <2>3, SmallestPart
  <2> QED BY <2>4 DEF B
<1>10. SUBSET S \subseteq Q
  <2>1. ASSUME NEW u \in SUBSET S, \A x \in u : u \ {x} \in Q, NEW y \in u
        PROVE  iter[u] = people[y][fd] + iter[u \ {y}]
    <3>1. PICK x \in u : iter[u] = people[x][fd] + iter[u \ {x}]
      BY <1>8, <2>1
    <3>2. CASE y = x
      BY <3>1, <3>2
    <3>3. CASE y # x
      <4> DEFINE a == people[x][fd]
                 b == people[y][fd]
                 c == iter[(u \ {x}) \ {y}]
      <4>1. a \in Nat /\ b \in Nat /\ c \in Nat
        BY <1>9
      <4>2. iter[u \ {x}] = b + c
        BY <2>1, <3>3
      <4>3. iter[u \ {y}] = a + c
        <5>1. (u \ {x}) \ {y} = (u \ {y}) \ {x}
          OBVIOUS
        <5> QED BY <2>1, <3>3, <5>1
      <4>4. iter[u] = a + (b + c)
        BY <3>1, <4>2
      <4>5. a + (b + c) = b + (a + c)
        <5> HIDE DEF a, b, c
        <5> QED BY <4>1
      <4> QED BY <4>3, <4>4, <4>5
    <3> QED BY <3>2, <3>3
  <2>0. ASSUME NEW u \in SUBSET S, \A x \in u : u \ {x} \in Q PROVE u \in Q
    BY <2>0, <2>1
  <2> DEFINE B == (SUBSET S) \ Q
  <2>2. ASSUME NEW u \in B, \A x \in u : u \ {x} \notin B PROVE FALSE
    <3> HIDE DEF Q
    <3> QED BY <2>0, <2>2
  <2>3. B \in SUBSET SUBSET S
    OBVIOUS
  <2> HIDE DEF B
  <2>4. B = {}
    BY <2>2, <2>3, SmallestPart
  <2> QED BY <2>4 DEF B
<1> DEFINE h == [u \in SUBSET S |-> iter[u]]
<1>11. /\ h \in [SUBSET S -> Nat] /\ h[S] = iter[S] /\ h[{}] = 0
       /\ \A u \in SUBSET S : \A x \in u : h[u] = people[x][fd] + h[u \ {x}]
  BY <1>7, <1>9, <1>10
<1> HIDE DEF h
<1>12. Adds(people, fd, S, h)
  BY <1>1, <1>11 DEF Adds
<1> QED BY <1>12

\* When one person changes, the sum changes by as much.
LEMMA SumChanges ==
  ASSUME NEW S, IsFiniteSet(S), NEW people, NEW others, DOMAIN people = S, DOMAIN others = S,
         NEW fd, \A p \in S : people[p][fd] \in Nat /\ others[p][fd] \in Nat,
         NEW x \in S, \A p \in S \ {x} : others[p][fd] = people[p][fd]
  PROVE  /\ PeopleSum(people, fd) \in Nat /\ PeopleSum(others, fd) \in Nat
         /\ PeopleSum(others, fd) + people[x][fd] = PeopleSum(people, fd) + others[x][fd]
<1>1. PICK h : Adds(people, fd, S, h)
  BY PeopleSumIs
<1>2. PICK g : Adds(others, fd, S, g)
  BY PeopleSumIs
<1> DEFINE B == {u \in SUBSET (S \ {x}) : g[u] # h[u]}
<1>3. ASSUME NEW u \in B, \A y \in u : u \ {y} \notin B PROVE FALSE
  <2>1. CASE u = {}
    BY <1>1, <1>2, <1>3, <2>1 DEF Adds
  <2>2. CASE u # {}
    <3>1. PICK y \in u : TRUE
      BY <2>2
    <3>2. g[u \ {y}] = h[u \ {y}]
      BY <1>3, <3>1
    <3>3. y \in S \ {x} /\ u \in SUBSET S /\ g[u] # h[u]
      BY <1>3
    <3> QED BY <1>1, <1>2, <3>1, <3>2, <3>3 DEF Adds
  <2> QED BY <2>1, <2>2
<1>4. B = {}
  <2>1. B \in SUBSET SUBSET S
    OBVIOUS
  <2> HIDE DEF B
  <2> QED BY <1>3, <2>1, SmallestPart
<1>5. g[S \ {x}] = h[S \ {x}]
  BY <1>4
<1>6. /\ h[S] = people[x][fd] + h[S \ {x}] /\ g[S] = others[x][fd] + g[S \ {x}]
      /\ h[S \ {x}] \in Nat /\ people[x][fd] \in Nat /\ others[x][fd] \in Nat
  BY <1>1, <1>2 DEF Adds
<1> DEFINE a == people[x][fd]
           b == others[x][fd]
           c == h[S \ {x}]
<1> HIDE DEF a, b, c
<1>7. h[S] = a + c /\ g[S] = b + c /\ a \in Nat /\ b \in Nat /\ c \in Nat
  BY <1>5, <1>6 DEF a, b, c
<1> QED BY <1>1, <1>2, <1>7 DEF a, b, Adds

\* When nobody changes, neither does the sum, and nothing adds up to nothing.
LEMMA SumKept ==
  ASSUME NEW S, IsFiniteSet(S), NEW people, NEW others, DOMAIN people = S, DOMAIN others = S,
         NEW fd, \A p \in S : people[p][fd] \in Nat /\ others[p][fd] = people[p][fd]
  PROVE  PeopleSum(people, fd) \in Nat /\ PeopleSum(others, fd) = PeopleSum(people, fd)
<1>1. CASE S = {}
  <2>1. PICK h : Adds(people, fd, S, h)
    BY PeopleSumIs
  <2>2. PICK g : Adds(others, fd, S, g)
    BY PeopleSumIs
  <2> QED BY <1>1, <2>1, <2>2 DEF Adds
<1>2. CASE S # {}
  <2>1. PICK x \in S : TRUE
    BY <1>2
  <2> QED BY <2>1, SumChanges
<1> QED BY <1>1, <1>2

LEMMA SumOfNothing ==
  ASSUME NEW S, IsFiniteSet(S), NEW people, DOMAIN people = S, NEW fd,
         \A p \in S : people[p][fd] = 0
  PROVE  PeopleSum(people, fd) = 0
<1>1. PICK h : Adds(people, fd, S, h)
  BY PeopleSumIs
<1> DEFINE B == {u \in SUBSET S : h[u] # 0}
<1>2. ASSUME NEW u \in B, \A y \in u : u \ {y} \notin B PROVE FALSE
  <2>1. CASE u = {}
    BY <1>1, <1>2, <2>1 DEF Adds
  <2>2. CASE u # {}
    <3>1. PICK y \in u : TRUE
      BY <2>2
    <3>2. h[u \ {y}] = 0
      BY <1>2, <3>1
    <3>3. y \in S /\ u \in SUBSET S /\ h[u] # 0
      BY <1>2
    <3> QED BY <1>1, <3>1, <3>2, <3>3 DEF Adds
  <2> QED BY <2>1, <2>2
<1>3. B = {}
  <2>1. B \in SUBSET SUBSET S
    OBVIOUS
  <2> HIDE DEF B
  <2> QED BY <1>2, <2>1, SmallestPart
<1> QED BY <1>1, <1>3 DEF Adds

LEMMA SeqSumIs ==
  ASSUME NEW g, NEW N \in Nat, DOMAIN g = 1 .. N, \A i \in 1 .. N : g[i] \in Nat
  PROVE  \E h : SumPath(h, g, N) /\ \A i \in 0 .. N : h[i] \in Nat
<1>1. PICK h : SumPath(h, g, N)
  BY SumTrace
<1>2. ASSUME NEW n \in 0 .. N PROVE h[n] \in Nat
  <2> DEFINE P == {i \in 0 .. n : h[i] \in Nat}
  <2>0. n \in Nat /\ n <= N
    OBVIOUS
  <2>1. 0 \in P
    BY <1>1, <2>0 DEF SumPath
  <2>2. ASSUME NEW i \in 1 .. n, i - 1 \in P PROVE i \in P
    <3>1. i \in 1 .. N /\ h[i - 1] \in Nat /\ i \in 0 .. n
      BY <2>0, <2>2
    <3>2. h[i] = h[i - 1] + g[i] /\ g[i] \in Nat
      BY <1>1, <3>1 DEF SumPath
    <3> QED BY <3>1, <3>2
  <2> HIDE DEF P
  <2>3. n \in P
    BY <2>0, <2>1, <2>2, ChainHolds
  <2> QED BY <2>3 DEF P
<1> QED BY <1>1, <1>2

\* Adding at the end, or changing there, changes the sum by as much.
LEMMA SeqSumChanges ==
  ASSUME NEW n \in Nat, NEW g, NEW h, NEW m \in {n, n + 1},
         DOMAIN g = 1 .. m, DOMAIN h = 1 .. (n + 1),
         \A i \in 1 .. m : g[i] \in Nat, \A i \in 1 .. (n + 1) : h[i] \in Nat,
         \A i \in 1 .. n : h[i] = g[i]
  PROVE  /\ SeqSum(g) \in Nat /\ SeqSum(h) \in Nat
         /\ SeqSum(h) + (IF m = n THEN 0 ELSE g[n + 1]) = SeqSum(g) + h[n + 1]
<1>0. m \in Nat
  OBVIOUS
<1>1. PICK a : SumPath(a, g, m) /\ \A i \in 0 .. m : a[i] \in Nat
  BY <1>0, SeqSumIs
<1>2. PICK b : SumPath(b, h, n + 1) /\ \A i \in 0 .. (n + 1) : b[i] \in Nat
  <2> DEFINE k == n + 1
  <2>1. k \in Nat
    OBVIOUS
  <2> HIDE DEF k
  <2>2. DOMAIN h = 1 .. k /\ \A i \in 1 .. k : h[i] \in Nat
    BY DEF k
  <2>3. \E b : SumPath(b, h, k) /\ \A i \in 0 .. k : b[i] \in Nat
    BY <2>1, <2>2, SeqSumIs
  <2> QED BY <2>3 DEF k
<1> DEFINE P == {i \in 0 .. n : a[i] = b[i]}
<1>3. n \in P
  <2>1. 0 \in P
    BY <1>1, <1>2 DEF SumPath
  <2>2. ASSUME NEW i \in 1 .. n, i - 1 \in P PROVE i \in P
    <3>1. i \in 1 .. m /\ i \in 1 .. (n + 1) /\ a[i - 1] = b[i - 1] /\ h[i] = g[i]
      BY <2>2
    <3> QED BY <1>1, <1>2, <2>2, <3>1 DEF SumPath
  <2> HIDE DEF P
  <2> QED BY <2>1, <2>2, ChainHolds
<1>4. a[n] = b[n] /\ b[n + 1] = b[n] + h[n + 1] /\ b[n] \in Nat /\ h[n + 1] \in Nat
  BY <1>2, <1>3 DEF SumPath
<1>5. CASE m = n
  BY <1>1, <1>2, <1>4, <1>5 DEF SumPath
<1>6. CASE m = n + 1
  <2>1. a[n + 1] = a[n] + g[n + 1] /\ g[n + 1] \in Nat /\ m # n
    BY <1>1, <1>6 DEF SumPath
  <2> QED BY <1>1, <1>2, <1>4, <1>6, <2>1 DEF SumPath
<1> QED BY <1>5, <1>6

-----------------------------------------------------------------------------
(* What holds of every state of a replay.                                  *)

\* The overs are those that the legal balls fill, and perhaps the one in
\* progress; without a bowler it is the end of an over.
Placed(s, pol) ==
  LET q == s.legal \div pol.over IN
  /\ Len(s.overs) \in {q, q + 1}
  /\ s.legal % pol.over # 0 => Len(s.overs) = q + 1
  /\ \A m \in 1 .. q : s.overs[m].complete /\ s.overs[m].legal = pol.over
  /\ Len(s.overs) = q + 1 =>
       /\ ~s.overs[q + 1].complete /\ s.overs[q + 1].legal = s.legal % pol.over
       /\ s.overs[q + 1].bowler = s.bowler
  /\ s.bowler = None => s.legal # 0 /\ s.legal % pol.over = 0 /\ Len(s.overs) = q

Out == {"dismissed", "retired_out"}
Lost(s, people) == {p \in people : s.people[p].how # None}

\* The batters in are the active ones, and a wicket is somebody out.
Manned(s, bat, field) ==
  /\ Apart(s)
  /\ \A p \in bat : p \in Ended(s) <=> s.people[p].state = "active"
  /\ \A p \in bat \cup field : s.people[p].how # None <=> s.people[p].state \in Out
  /\ \A p \in field : s.people[p].state = "not_batted"
  /\ Cardinality(Lost(s, bat \cup field)) = s.wickets

OverSum(s, fd) == SeqSum([n \in 1 .. Len(s.overs) |-> s.overs[n][fd]])

\* The score, three ways, and the balls and the wickets.
Balances(s) ==
  LET x == s.extras IN
  /\ s.runs = PeopleSum(s.people, "runs")
                + x["wide"] + x["noBall"] + x["bye"] + x["legBye"] + x["penalty"]
  /\ s.runs = OverSum(s, "runs")
  /\ s.runs = PeopleSum(s.people, "conceded") + x["bye"] + x["legBye"] + x["penalty"]
  /\ s.legal = PeopleSum(s.people, "bowled") /\ s.legal = PeopleSum(s.people, "faced")
  /\ OverSum(s, "conceded") = PeopleSum(s.people, "conceded")
  /\ s.wickets = OverSum(s, "wickets") /\ s.wickets = Len(s.falls)
  /\ s.legal = OverSum(s, "legal")

\* The bowlers kept to the rules of the capability, and every delivery that
\* counted is in an over of its own bowler.
Ruled(s, pol, field, facts) ==
  /\ pol.noConsecutive =>
       \A n \in 2 .. Len(s.overs) : s.overs[n].bowler # s.overs[n - 1].bowler
  /\ pol.quota # None => \A p \in DOMAIN s.people : s.people[p].bowled <= pol.quota
  /\ \A n \in 1 .. Len(s.applied) :
       /\ n \in 1 .. Len(facts) /\ s.applied[n].over + 1 \in 1 .. Len(s.overs)
       /\ facts[n].bowler = s.overs[s.applied[n].over + 1].bowler

\* Nobody's figures are larger than the total, and that is within its bound.
Bounded(s, bat, field) ==
  /\ s.runs <= RunMax
  /\ \A p \in bat \cup field :
       LET q == s.people[p] IN
       /\ q.runs <= s.runs /\ q.conceded <= s.runs
       /\ q.catches <= q.dismissals /\ q.stumpings <= q.dismissals
       /\ q.runOuts <= q.dismissals
  /\ \A n \in 1 .. Len(s.overs) : s.overs[n].runs <= s.runs /\ s.overs[n].conceded <= s.runs

Sound(s, pol, bat, field, facts) ==
  /\ Placed(s, pol) /\ Manned(s, bat, field) /\ Balances(s)
  /\ Ruled(s, pol, field, facts) /\ Bounded(s, bat, field)

\* A change of anything but the score, the people and the overs.
Untouched(s, r) ==
  /\ r.applied = s.applied /\ r.runs = s.runs /\ r.legal = s.legal /\ r.extras = s.extras
  /\ r.wickets = s.wickets /\ r.falls = s.falls /\ r.overs = s.overs
  /\ r.people = s.people /\ r.bowler = s.bowler /\ Ended(r) = Ended(s)

LEMMA EndsApart ==
  ASSUME NEW s, NEW r, Ended(r) = Ended(s), Apart(s)
  PROVE  Apart(r)
BY DEF Ended, Apart

LEMMA UntouchedSound ==
  ASSUME NEW pol, NEW bat, NEW field, NEW facts, NEW s, NEW r,
         Sound(s, pol, bat, field, facts), Untouched(s, r)
  PROVE  Sound(r, pol, bat, field, facts)
<1>1. Apart(r)
  BY EndsApart DEF Sound, Manned, Untouched
<1>2. Lost(r, bat \cup field) = Lost(s, bat \cup field)
  BY DEF Untouched, Lost
<1>3. Manned(r, bat, field)
  BY <1>1, <1>2 DEF Sound, Manned, Untouched
<1>4. Placed(r, pol)
  BY DEF Sound, Placed, Untouched
<1>5. \A fd : OverSum(r, fd) = OverSum(s, fd)
  BY DEF OverSum, Untouched
<1>6. Balances(r)
  BY <1>5 DEF Sound, Balances, Untouched
<1>7. Ruled(r, pol, field, facts)
  BY DEF Sound, Ruled, Untouched
<1>8. Bounded(r, bat, field)
  BY DEF Sound, Bounded, Untouched
<1> QED BY <1>3, <1>4, <1>6, <1>7, <1>8 DEF Sound

LEMMA ClassifyTyped ==
  ASSUME NEW bat, NEW field, NEW f \in Facts(bat, field), NEW legal \in Nat,
         NEW over \in Nat \ {0}
  PROVE  LET c == Classify(f, legal, over) IN
         /\ c \in Classes(bat) /\ c.over = legal \div over
         /\ c.total = f.bat + (f.wide + f.noBall + f.bye + f.legBye + f.penalty)
         /\ c.conceded = f.bat + f.wide + f.noBall
<1>1. /\ f.bat \in Nat /\ f.wide \in Nat /\ f.noBall \in Nat /\ f.bye \in Nat
      /\ f.legBye \in Nat /\ f.penalty \in Nat /\ f.wicket \in Wickets(bat, field) \cup {None}
  BY DEF Facts
<1>2. (IF f.wicket = None THEN None ELSE f.wicket.out) \in bat \cup {None}
  BY <1>1 DEF Wickets
<1>3. legal \div over \in Nat /\ (legal % over) + 1 \in Nat
  BY Divided
<1>4. NotLess(0, f.wide - 1) \in Nat
  BY <1>1 DEF NotLess
<1>5. /\ TotalOf(f) \in Nat /\ f.bat + f.bye + f.legBye + NotLess(0, f.wide - 1) \in Nat
      /\ f.bat + f.wide + f.noBall \in Nat
      /\ TotalOf(f) = f.bat + (f.wide + f.noBall + f.bye + f.legBye + f.penalty)
  BY <1>1, <1>4 DEF TotalOf, ExtrasOf
<1> DEFINE a == TotalOf(f)
           b == f.wide = 0 /\ f.noBall = 0
           d == f.bat + f.bye + f.legBye + NotLess(0, f.wide - 1)
           e == f.bat + f.wide + f.noBall
           g == legal \div over
           h == (legal % over) + 1
           i == (f.wide = 0 /\ f.bye = 0 /\ f.legBye = 0) /\ f.bat = 4
           j == (f.wide = 0 /\ f.bye = 0 /\ f.legBye = 0) /\ f.bat = 6
           k == IF f.wicket = None THEN None ELSE f.wicket.out
<1>6. /\ a \in Nat /\ b \in BOOLEAN /\ d \in Nat /\ e \in Nat /\ g \in Nat /\ h \in Nat
      /\ i \in BOOLEAN /\ j \in BOOLEAN /\ k \in bat \cup {None}
  BY <1>2, <1>3, <1>5
<1>7. Classify(f, legal, over) =
        [total |-> a, legal |-> b, completed |-> d, conceded |-> e, over |-> g, ball |-> h,
         four |-> i, six |-> j, out |-> k]
  BY DEF Classify
<1> HIDE DEF a, b, d, e, g, h, i, j, k
<1>8. Classify(f, legal, over) \in Classes(bat)
  BY <1>6, <1>7 DEF Classes
<1> QED BY <1>5, <1>7, <1>8 DEF a, e, g

\* An accepted delivery f of class c takes s to r.
Delivers(s, r, f, c, pol, bat, field) ==
  /\ s \in ReplayStates(bat, field) /\ r \in ReplayStates(bat, field)
  /\ f \in Facts(bat, field) /\ c \in Classes(bat) /\ pol.over \in Nat \ {0}
  /\ c.over = s.legal \div pol.over
  /\ c.total = f.bat + (f.wide + f.noBall + f.bye + f.legBye + f.penalty)
  /\ c.conceded = f.bat + f.wide + f.noBall
  /\ Fitting(s, f) /\ MayBowl(s, f, c, pol, field) /\ RunsFit(c.total, s.runs)
  /\ DeliveredFrom(s, r, f, c, pol, bat \cup field)

LEMMA DeliveredPlaced ==
  ASSUME NEW pol, NEW bat, NEW field, NEW s, NEW r, NEW f, NEW c, None \notin field,
         Placed(s, pol), Delivers(s, r, f, c, pol, bat, field)
  PROVE  Placed(r, pol) /\ OverBefore(s, f, c).bowler = s.bowler
<1> DEFINE N == pol.over
           L == s.legal
           q == L \div N
           m == L % N
           b == OverBefore(s, f, c)
           o == r.overs[q + 1]
<1>1. N \in Nat \ {0} /\ L \in Nat /\ c.over = q /\ c.legal \in BOOLEAN
  BY DEF Delivers, ReplayStates, Classes
<1>2. q \in Nat /\ m \in 0 .. (N - 1) /\ L = (N * q) + m
  BY <1>1, Divided
<1>3. /\ m = N - 1 => (L + 1) \div N = q + 1 /\ (L + 1) % N = 0
      /\ m # N - 1 => (L + 1) \div N = q /\ (L + 1) % N = m + 1
  BY <1>1, NextBall
<1>4. s.overs \in Seq(OverRows(field)) /\ f.bowler = s.bowler /\ f.bowler \in field
  BY DEF Delivers, ReplayStates, Fitting, Facts
<1>5. /\ Len(s.overs) \in {q, q + 1} /\ (m # 0 => Len(s.overs) = q + 1)
      /\ \A n \in 1 .. q : s.overs[n].complete /\ s.overs[n].legal = N
      /\ Len(s.overs) = q + 1 =>
           ~s.overs[q + 1].complete /\ s.overs[q + 1].legal = m
             /\ s.overs[q + 1].bowler = s.bowler
  BY DEF Placed
<1>6. b.legal = m /\ ~b.complete /\ b.bowler = s.bowler
  <2>1. CASE Len(s.overs) = q + 1
    <3>1. q + 1 \in DOMAIN s.overs
      BY <1>2, <1>4, <2>1
    <3>2. b = s.overs[q + 1]
      BY <1>1, <3>1 DEF OverBefore
    <3> HIDE DEF b
    <3> QED BY <1>5, <2>1, <3>2
  <2>2. CASE Len(s.overs) = q
    <3>1. q + 1 \notin DOMAIN s.overs
      BY <1>2, <1>4, <2>2
    <3>2. b = [bowler |-> f.bowler, legal |-> 0, runs |-> 0, conceded |-> 0, wickets |-> 0,
               complete |-> FALSE]
      BY <1>1, <3>1 DEF OverBefore
    <3>3. m = 0
      BY <1>2, <1>5, <2>2
    <3> HIDE DEF b
    <3> QED BY <1>4, <3>2, <3>3
  <2> QED BY <1>5, <2>1, <2>2
<1> HIDE DEF b
<1>7. /\ r.legal = L + Bool01(c.legal) /\ Len(r.overs) = q + 1
      /\ \A n \in 1 .. q : r.overs[n] = s.overs[n]
      /\ OverGrows(b, o, s, f, c, pol)
      /\ r.bowler = IF Closes(s, c, pol) THEN None ELSE s.bowler
  BY <1>1 DEF Delivers, DeliveredFrom, b
<1>8. /\ o.legal = m + Bool01(c.legal) /\ o.bowler = s.bowler
      /\ o.complete <=> Closes(s, c, pol)
  BY <1>6, <1>7 DEF OverGrows
<1>9. \A n \in 1 .. q : r.overs[n].complete /\ r.overs[n].legal = N
  BY <1>5, <1>7
<1>10. Closes(s, c, pol) <=> c.legal /\ (L + Bool01(c.legal)) % N = 0
  BY DEF Closes
<1> HIDE DEF q, m, o, L, N
<1>11. Bool01(c.legal) = IF c.legal THEN 1 ELSE 0
  BY DEF Bool01
<1>12. CASE c.legal /\ m = N - 1
  <2>1. Closes(s, c, pol) /\ r.legal = L + 1 /\ r.legal \div N = q + 1 /\ r.legal % N = 0
    BY <1>3, <1>7, <1>10, <1>11, <1>12
  <2>2. o.legal = N /\ o.complete /\ r.bowler = None
    BY <1>1, <1>2, <1>7, <1>8, <1>11, <1>12, <2>1
  <2>3. \A n \in 1 .. (q + 1) : r.overs[n].complete /\ r.overs[n].legal = N
    BY <1>2, <1>9, <2>2 DEF o
  <2>4. r.legal # 0
    BY <1>1, <1>7, <1>11, <1>12
  <2> QED BY <1>2, <1>6, <1>7, <2>1, <2>3, <2>4 DEF Placed, N, b
<1>13. CASE ~(c.legal /\ m = N - 1)
  <2>1. /\ ~Closes(s, c, pol) /\ r.legal \div N = q
        /\ r.legal % N = m + Bool01(c.legal)
    <3>1. CASE c.legal
      <4>1. m # N - 1 /\ m + 1 # 0 /\ r.legal = L + 1
        BY <1>1, <1>2, <1>7, <1>11, <1>13, <3>1
      <4> QED BY <1>3, <1>10, <1>11, <3>1, <4>1
    <3>2. CASE ~c.legal
      <4>1. r.legal = L /\ m + Bool01(c.legal) = m
        BY <1>1, <1>2, <1>7, <1>11, <3>2
      <4> QED BY <1>10, <3>2, <4>1 DEF q, m
    <3> QED BY <3>1, <3>2
  <2>2. ~o.complete /\ o.legal = r.legal % N /\ o.bowler = r.bowler /\ r.bowler # None
    BY <1>4, <1>7, <1>8, <2>1
  <2> QED BY <1>2, <1>6, <1>7, <1>9, <2>1, <2>2 DEF Placed, N, o, b
<1> QED BY <1>12, <1>13

LEMMA OverFitsPlaced ==
  ASSUME NEW pol, NEW bat, NEW field, NEW s \in ReplayStates(bat, field), NEW c,
         Placed(s, pol), pol.over \in Nat \ {0}, c.over = s.legal \div pol.over
  PROVE  OverFits(s, c)
<1>1. Len(s.overs) \in {c.over, c.over + 1}
  BY DEF Placed
<1>2. s.legal \in Nat
  BY DEF ReplayStates
<1>3. c.over \in Nat
  BY <1>2, Divided
<1> QED BY <1>1, <1>3 DEF OverFits

LEMMA DeliveredManned ==
  ASSUME NEW pol, NEW bat, NEW field, NEW s, NEW r, NEW f, NEW c,
         None \notin bat, bat \cap field = {}, IsFiniteSet(bat), IsFiniteSet(field),
         Manned(s, bat, field), Delivers(s, r, f, c, pol, bat, field)
  PROVE  Manned(r, bat, field)
<1> DEFINE all == bat \cup field
<1>1. /\ s.people \in [all -> Persons] /\ r.people \in [all -> Persons]
      /\ f.striker \in bat /\ f.nonStriker \in bat /\ f.striker # f.nonStriker
      /\ Ended(s) = {f.striker, f.nonStriker}
      /\ f.wicket # None => f.wicket.out \in {f.striker, f.nonStriker}
  BY DEF Delivers, ReplayStates, Facts, Fitting, Ended
<1>2. /\ \A p \in all : r.people[p] = PersonAfter(s, f, c, p)
      /\ r.wickets = s.wickets + Fell(f)
      /\ Ended(r) = IF f.wicket = None THEN Ended(s) ELSE (Ended(s) \ {f.wicket.out}) \cup {None}
  BY DEF Delivers, DeliveredFrom
<1>3. \A p \in all : /\ ScoredPerson(s, f, c, p) \in Persons
                     /\ ScoredPerson(s, f, c, p).how = s.people[p].how
                     /\ ScoredPerson(s, f, c, p).state = s.people[p].state
  <2> TAKE p \in all
  <2>0. s.people[p] \in Persons
    BY <1>1
  <2> DEFINE q == s.people[p]
  <2>1. /\ Credit(q, f, c).how = q.how /\ Credit(q, f, c).state = q.state
        /\ Debit(q, f, c).how = q.how /\ Debit(q, f, c).state = q.state
    BY <2>0 DEF Persons, Credit, Debit
  <2>2. Credit(q, f, c) \in Persons /\ Debit(q, f, c) \in Persons
    BY <2>0, CreditTyped DEF Delivers
  <2> QED BY <2>0, <2>1, <2>2 DEF ScoredPerson
<1>4. Apart(r)
  <2>1. CASE f.wicket = None
    BY <1>1, <1>2, <2>1 DEF Apart, Ended
  <2>2. CASE f.wicket # None
    BY <1>1, <1>2, <2>2 DEF Apart, Ended
  <2> QED BY <2>1, <2>2
<1>5. CASE f.wicket = None
  <2>1. \A p \in all : r.people[p].how = s.people[p].how /\ r.people[p].state = s.people[p].state
    BY <1>2, <1>3, <1>5 DEF PersonAfter, WicketPerson
  <2>2. Lost(r, all) = Lost(s, all)
    BY <2>1 DEF Lost
  <2>3. r.wickets = s.wickets
    BY <1>2, <1>5 DEF Fell, Bool01, Delivers, ReplayStates
  <2> QED BY <1>2, <1>4, <1>5, <2>1, <2>2, <2>3 DEF Manned
<1>6. CASE f.wicket # None
  <2> DEFINE w == f.wicket.out
  <2>1. w \in bat /\ w \in Ended(s) /\ f.wicket.kind \in DismissalTypes
    BY <1>1, <1>6 DEF Delivers, Facts, Wickets
  <2>2. ASSUME NEW p \in all
        PROVE  /\ p = w => /\ r.people[p].how = f.wicket.kind /\ r.people[p].state \in Out
               /\ p # w => /\ r.people[p].how = s.people[p].how
                           /\ r.people[p].state = s.people[p].state
    <3> DEFINE q == ScoredPerson(s, f, c, p)
    <3>1. q \in Persons
      BY <1>3
    <3>2. LET r1 == WicketPerson(f, p, q) IN
         /\ r1 \in Persons /\ KeepsScore(q, r1)
         /\ p = f.wicket.out => /\ r1.how = f.wicket.kind
                                /\ r1.state \in {"dismissed", "retired_out"}
         /\ p # f.wicket.out => r1.how = q.how /\ r1.state = q.state
         /\ \E t \in Nat :
              /\ r1.dismissals = q.dismissals + t
              /\ r1.catches \in {q.catches, q.catches + t}
              /\ r1.stumpings \in {q.stumpings, q.stumpings + t}
              /\ r1.runOuts \in {q.runOuts, q.runOuts + t}
      <4> HIDE DEF q
      <4> QED BY <1>6, <3>1, WicketPersonIs DEF Delivers
    <3>3. r.people[p] = WicketPerson(f, p, q)
      BY <1>2 DEF PersonAfter
    <3> QED BY <1>3, <3>2, <3>3 DEF Out
  <2>3. f.wicket.kind # None /\ s.people[w].how = None /\ w \in all
    <3>1. s.people[w].state = "active" /\ w \in all
      BY <2>1 DEF Manned
    <3>2. s.people[w].how = None
      BY <3>1 DEF Manned, Out
    <3> QED BY <2>1, <3>1, <3>2, NoneAssumption
  <2>4. Lost(r, all) = Lost(s, all) \cup {w} /\ w \notin Lost(s, all)
    <3> HIDE DEF w
    <3> QED BY <2>2, <2>3 DEF Lost, w
  <2>5. /\ IsFiniteSet(Lost(s, all)) /\ IsFiniteSet(all)
        /\ Cardinality(Lost(r, all)) = Cardinality(Lost(s, all)) + 1
    <3>1. IsFiniteSet(all)
      BY FS_Union
    <3>2. IsFiniteSet(Lost(s, all))
      BY <3>1, FS_Subset DEF Lost
    <3> HIDE DEF all, w
    <3> QED BY <2>4, <3>1, <3>2, FS_AddElement
  <2>6. Cardinality(Lost(r, all)) = r.wickets
    BY <1>2, <1>6, <2>5 DEF Fell, Bool01, Manned
  <2>7. \A p \in field : r.people[p].state = "not_batted"
    BY <2>1, <2>2 DEF Manned
  <2>8. ASSUME NEW p \in bat PROVE p \in Ended(r) <=> r.people[p].state = "active"
    <3>1. p \in Ended(s) <=> s.people[p].state = "active"
      BY DEF Manned
    <3>2. p \in Ended(r) <=> p \in Ended(s) /\ p # w
      BY <1>2, <1>6
    <3>3. p \in all
      OBVIOUS
    <3>4. CASE p = w
      BY <2>2, <3>2, <3>3, <3>4 DEF Out
    <3>5. CASE p # w
      BY <2>2, <3>1, <3>2, <3>3, <3>5
    <3> QED BY <3>4, <3>5
  <2>9. ASSUME NEW p \in all PROVE r.people[p].how # None <=> r.people[p].state \in Out
    <3>1. s.people[p].how # None <=> s.people[p].state \in Out
      BY DEF Manned
    <3>2. CASE p = w
      BY <2>2, <2>3, <3>2
    <3>3. CASE p # w
      BY <2>2, <3>1, <3>3
    <3> QED BY <3>2, <3>3
  <2> QED BY <1>4, <2>6, <2>7, <2>8, <2>9 DEF Manned
<1> QED BY <1>5, <1>6

\* What a delivery adds to the figures of each person.
LEMMA DeliveredFigures ==
  ASSUME NEW pol, NEW bat, NEW field, NEW s, NEW r, NEW f, NEW c, bat \cap field = {},
         Delivers(s, r, f, c, pol, bat, field), NEW p \in bat \cup field
  PROVE  LET a == s.people[p]
             b == r.people[p] IN
         /\ a \in Persons /\ b \in Persons
         /\ b.runs = a.runs + (IF p = f.striker THEN f.bat ELSE 0)
         /\ b.faced = a.faced + (IF p = f.striker THEN Bool01(c.legal) ELSE 0)
         /\ b.bowled = a.bowled + (IF p = f.bowler THEN Bool01(c.legal) ELSE 0)
         /\ b.conceded = a.conceded + (IF p = f.bowler THEN c.conceded ELSE 0)
         /\ \E t \in Nat :
              /\ b.dismissals = a.dismissals + t
              /\ b.catches \in {a.catches, a.catches + t}
              /\ b.stumpings \in {a.stumpings, a.stumpings + t}
              /\ b.runOuts \in {a.runOuts, a.runOuts + t}
<1> DEFINE a == s.people[p]
           b == r.people[p]
           q == ScoredPerson(s, f, c, p)
<1>1. /\ a \in Persons /\ b \in Persons /\ b = WicketPerson(f, p, q)
      /\ f.striker \in bat /\ f.bowler \in field /\ f.bat \in Nat /\ c.conceded \in Nat
      /\ c.legal \in BOOLEAN /\ f.wide \in Nat /\ f.noBall \in Nat
  BY DEF Delivers, DeliveredFrom, PersonAfter, ReplayStates, Facts, Classes
<1>2. Bool01(c.legal) \in Nat
  BY DEF Bool01
<1>3. /\ a.runs \in Nat /\ a.faced \in Nat /\ a.bowled \in Nat /\ a.conceded \in Nat
      /\ a.dismissals \in Nat /\ a.catches \in Nat /\ a.stumpings \in Nat /\ a.runOuts \in Nat
  BY <1>1 DEF Persons
<1>4. /\ q \in Persons
      /\ q.runs = a.runs + (IF p = f.striker THEN f.bat ELSE 0)
      /\ q.faced = a.faced + (IF p = f.striker THEN Bool01(c.legal) ELSE 0)
      /\ q.bowled = a.bowled + (IF p = f.bowler THEN Bool01(c.legal) ELSE 0)
      /\ q.conceded = a.conceded + (IF p = f.bowler THEN c.conceded ELSE 0)
      /\ q.dismissals = a.dismissals /\ q.catches = a.catches
      /\ q.stumpings = a.stumpings /\ q.runOuts = a.runOuts
  <2>1. Credit(a, f, c) \in Persons /\ Debit(a, f, c) \in Persons
    BY <1>1, CreditTyped DEF Delivers
  <2> HIDE DEF a, b
  <2>2. CASE p = f.striker
    <3>1. q = Credit(a, f, c) /\ p # f.bowler
      BY <1>1, <2>2 DEF ScoredPerson, a
    <3>2. /\ Credit(a, f, c).runs = a.runs + f.bat
          /\ Credit(a, f, c).faced = a.faced + Bool01(c.legal)
          /\ Credit(a, f, c).bowled = a.bowled /\ Credit(a, f, c).conceded = a.conceded
          /\ Credit(a, f, c).dismissals = a.dismissals /\ Credit(a, f, c).catches = a.catches
          /\ Credit(a, f, c).stumpings = a.stumpings /\ Credit(a, f, c).runOuts = a.runOuts
      BY <1>1 DEF Credit, Persons
    <3> QED BY <1>3, <2>1, <2>2, <3>1, <3>2
  <2>3. CASE p # f.striker /\ p = f.bowler
    <3>1. q = Debit(a, f, c)
      BY <1>1, <2>3 DEF ScoredPerson, a
    <3>2. /\ Debit(a, f, c).runs = a.runs /\ Debit(a, f, c).faced = a.faced
          /\ Debit(a, f, c).bowled = a.bowled + Bool01(c.legal)
          /\ Debit(a, f, c).conceded = a.conceded + c.conceded
          /\ Debit(a, f, c).dismissals = a.dismissals /\ Debit(a, f, c).catches = a.catches
          /\ Debit(a, f, c).stumpings = a.stumpings /\ Debit(a, f, c).runOuts = a.runOuts
      BY <1>1 DEF Debit, Persons
    <3> QED BY <1>3, <2>1, <2>3, <3>1, <3>2
  <2>4. CASE p # f.striker /\ p # f.bowler
    <3>1. q = a
      BY <2>4 DEF ScoredPerson, a
    <3> QED BY <1>1, <1>3, <2>4, <3>1
  <2> QED BY <2>2, <2>3, <2>4
<1> HIDE DEF a, b, q
<1>5. CASE f.wicket = None
  <2>1. b = q
    BY <1>1, <1>5 DEF WicketPerson
  <2>2. /\ b.dismissals = a.dismissals + 0
        /\ b.catches \in {a.catches, a.catches + 0}
        /\ b.stumpings \in {a.stumpings, a.stumpings + 0}
        /\ b.runOuts \in {a.runOuts, a.runOuts + 0}
    BY <1>3, <1>4, <2>1
  <2>3. \E t \in Nat :
              /\ b.dismissals = a.dismissals + t
              /\ b.catches \in {a.catches, a.catches + t}
              /\ b.stumpings \in {a.stumpings, a.stumpings + t}
              /\ b.runOuts \in {a.runOuts, a.runOuts + t}
    <3>1. 0 \in Nat
      OBVIOUS
    <3> QED BY <2>2, <3>1
  <2> QED BY <1>1, <1>4, <2>1, <2>3 DEF a, b
<1>6. CASE f.wicket # None
  <2>1. LET r1 == WicketPerson(f, p, q) IN
         /\ r1 \in Persons /\ KeepsScore(q, r1)
         /\ p = f.wicket.out => /\ r1.how = f.wicket.kind
                                /\ r1.state \in {"dismissed", "retired_out"}
         /\ p # f.wicket.out => r1.how = q.how /\ r1.state = q.state
         /\ \E t \in Nat :
              /\ r1.dismissals = q.dismissals + t
              /\ r1.catches \in {q.catches, q.catches + t}
              /\ r1.stumpings \in {q.stumpings, q.stumpings + t}
              /\ r1.runOuts \in {q.runOuts, q.runOuts + t}
    BY <1>4, <1>6, WicketPersonIs DEF Delivers
  <2>2. /\ KeepsScore(q, b)
        /\ \E t \in Nat :
              /\ b.dismissals = q.dismissals + t
              /\ b.catches \in {q.catches, q.catches + t}
              /\ b.stumpings \in {q.stumpings, q.stumpings + t}
              /\ b.runOuts \in {q.runOuts, q.runOuts + t}
    BY <1>1, <2>1
  <2> QED BY <1>1, <1>4, <2>2 DEF a, b, KeepsScore
<1> QED BY <1>5, <1>6

\* What a delivery adds to the sum of the overs.
LEMMA DeliveredOvers ==
  ASSUME NEW pol, NEW bat, NEW field, NEW s, NEW r, NEW f, NEW c,
         Placed(s, pol), Delivers(s, r, f, c, pol, bat, field),
         NEW fd \in {"runs", "conceded", "wickets", "legal"}
  PROVE  /\ OverSum(s, fd) \in Nat
         /\ OverSum(r, fd) = OverSum(s, fd) + (CASE fd = "runs" -> c.total
                                                 [] fd = "conceded" -> c.conceded
                                                 [] fd = "wickets" -> Fell(f)
                                                 [] fd = "legal" -> Bool01(c.legal))
<1> DEFINE q == c.over
           m == Len(s.overs)
           b == OverBefore(s, f, c)
           o == r.overs[q + 1]
           g == [n \in 1 .. m |-> s.overs[n][fd]]
           h == [n \in 1 .. (q + 1) |-> r.overs[n][fd]]
           x == CASE fd = "runs" -> c.total
                  [] fd = "conceded" -> c.conceded
                  [] fd = "wickets" -> Fell(f)
                  [] fd = "legal" -> Bool01(c.legal)
<1>1. /\ s.overs \in Seq(OverRows(field)) /\ r.overs \in Seq(OverRows(field))
      /\ q \in Nat /\ c.total \in Nat /\ c.conceded \in Nat
      /\ Len(r.overs) = q + 1 /\ \A n \in 1 .. q : r.overs[n] = s.overs[n]
      /\ OverGrows(b, o, s, f, c, pol)
  BY DEF Delivers, ReplayStates, Classes, DeliveredFrom
<1>2. m \in {q, q + 1}
  BY DEF Placed, Delivers
<1>3. b \in OverRows(field)
  BY OverBeforeTyped DEF Delivers
<1>4. b[fd] = IF m = q THEN 0 ELSE s.overs[q + 1][fd]
  BY <1>1, <1>2 DEF OverBefore
<1>5. x \in Nat /\ b[fd] \in Nat /\ o[fd] = b[fd] + x
  <2>1. CASE fd = "runs"
    BY <1>1, <1>3, <2>1 DEF OverGrows, OverRows
  <2>2. CASE fd = "conceded"
    BY <1>1, <1>3, <2>2 DEF OverGrows, OverRows
  <2>3. CASE fd = "wickets"
    BY <1>1, <1>3, <2>3 DEF OverGrows, OverRows, Fell, Bool01
  <2>4. CASE fd = "legal"
    BY <1>1, <1>3, <2>4 DEF OverGrows, OverRows, Bool01
  <2> QED BY <2>1, <2>2, <2>3, <2>4
<1>0. \A v \in OverRows(field) : v[fd] \in Nat
  BY DEF OverRows
<1>6. \A n \in 1 .. m : g[n] \in Nat
  BY <1>0, <1>1
<1>7. \A n \in 1 .. (q + 1) : h[n] \in Nat
  BY <1>0, <1>1
<1>8. \A n \in 1 .. q : h[n] = g[n]
  BY <1>1, <1>2
<1>9. OverSum(s, fd) = SeqSum(g) /\ OverSum(r, fd) = SeqSum(h)
  BY <1>1 DEF OverSum
<1>10. h[q + 1] = o[fd] /\ (m = q + 1 => g[q + 1] = s.overs[q + 1][fd])
  BY <1>1
<1>11. DOMAIN g = 1 .. m /\ DOMAIN h = 1 .. (q + 1)
  OBVIOUS
<1> HIDE DEF q, m, b, o, g, h, x
<1>12. /\ SeqSum(g) \in Nat /\ SeqSum(h) \in Nat
       /\ SeqSum(h) + (IF m = q THEN 0 ELSE g[q + 1]) = SeqSum(g) + h[q + 1]
  <2>1. q \in Nat
    BY <1>1
  <2> QED BY <2>1, <1>2, <1>6, <1>7, <1>8, <1>11, SeqSumChanges
<1>13. (IF m = q THEN 0 ELSE g[q + 1]) = b[fd]
  BY <1>1, <1>2, <1>4, <1>10
<1>14. SeqSum(h) = SeqSum(g) + x
  BY <1>5, <1>10, <1>12, <1>13
<1> QED BY <1>9, <1>12, <1>14 DEF x

LEMMA DeliveredBalanced ==
  ASSUME NEW pol, NEW bat, NEW field, NEW s, NEW r, NEW f, NEW c, bat \cap field = {},
         IsFiniteSet(bat), IsFiniteSet(field),
         Placed(s, pol), Balances(s), Delivers(s, r, f, c, pol, bat, field)
  PROVE  Balances(r)
<1> DEFINE all == bat \cup field
           Q == s.people
           R == r.people
           x == s.extras
           y == r.extras
<1>1. /\ Q \in [all -> Persons] /\ R \in [all -> Persons]
      /\ f.striker \in all /\ f.bowler \in all /\ f.striker # f.bowler
      /\ f.bat \in Nat /\ c.conceded \in Nat /\ c.total \in Nat
      /\ f.wide \in Nat /\ f.noBall \in Nat /\ f.bye \in Nat /\ f.legBye \in Nat
      /\ f.penalty \in Nat
  BY DEF Delivers, ReplayStates, Facts, Classes
<1>2. IsFiniteSet(all) /\ Bool01(c.legal) \in Nat /\ Fell(f) \in Nat
  BY FS_Union DEF Bool01, Fell
<1>3. \A p \in all :
         /\ R[p].runs = Q[p].runs + (IF p = f.striker THEN f.bat ELSE 0)
         /\ R[p].faced = Q[p].faced + (IF p = f.striker THEN Bool01(c.legal) ELSE 0)
         /\ R[p].bowled = Q[p].bowled + (IF p = f.bowler THEN Bool01(c.legal) ELSE 0)
         /\ R[p].conceded = Q[p].conceded + (IF p = f.bowler THEN c.conceded ELSE 0)
  BY DeliveredFigures
<1>4. \A p \in all : /\ Q[p].runs \in Nat /\ Q[p].faced \in Nat /\ Q[p].bowled \in Nat
                     /\ Q[p].conceded \in Nat
                     /\ R[p].runs \in Nat /\ R[p].faced \in Nat /\ R[p].bowled \in Nat
                     /\ R[p].conceded \in Nat
  BY <1>1 DEF Persons
<1> DEFINE sums(fd, who, d) ==
             /\ PeopleSum(Q, fd) \in Nat
             /\ PeopleSum(R, fd) = PeopleSum(Q, fd) + d
<1>5. ASSUME NEW fd, NEW who \in all, NEW d \in Nat,
             \A p \in all : Q[p][fd] \in Nat /\ R[p][fd] \in Nat,
             \A p \in all : R[p][fd] = Q[p][fd] + (IF p = who THEN d ELSE 0)
      PROVE  sums(fd, who, d)
  <2> HIDE DEF all, Q, R
  <2>1. DOMAIN Q = all /\ DOMAIN R = all
    BY <1>1
  <2>2. \A p \in all \ {who} : R[p][fd] = Q[p][fd]
    BY <1>5
  <2>3. /\ PeopleSum(Q, fd) \in Nat /\ PeopleSum(R, fd) \in Nat
        /\ PeopleSum(R, fd) + Q[who][fd] = PeopleSum(Q, fd) + R[who][fd]
    BY <1>2, <1>5, <2>1, <2>2, SumChanges
  <2>4. R[who][fd] = Q[who][fd] + d /\ Q[who][fd] \in Nat
    BY <1>5
  <2> QED BY <2>3, <2>4
<1>6. sums("runs", f.striker, f.bat)
  <2>1. /\ \A p \in all : Q[p]["runs"] \in Nat /\ R[p]["runs"] \in Nat
        /\ \A p \in all : R[p]["runs"] = Q[p]["runs"] + (IF p = f.striker THEN f.bat ELSE 0)
    BY <1>3, <1>4
  <2> HIDE DEF all, Q, R, sums
  <2> QED BY <1>1, <1>5, <2>1
<1>7. sums("faced", f.striker, Bool01(c.legal))
  <2>1. /\ \A p \in all : Q[p]["faced"] \in Nat /\ R[p]["faced"] \in Nat
        /\ \A p \in all :
             R[p]["faced"] = Q[p]["faced"] + (IF p = f.striker THEN Bool01(c.legal) ELSE 0)
    BY <1>3, <1>4
  <2> HIDE DEF all, Q, R, sums
  <2> QED BY <1>1, <1>2, <1>5, <2>1
<1>8. sums("bowled", f.bowler, Bool01(c.legal))
  <2>1. /\ \A p \in all : Q[p]["bowled"] \in Nat /\ R[p]["bowled"] \in Nat
        /\ \A p \in all :
             R[p]["bowled"] = Q[p]["bowled"] + (IF p = f.bowler THEN Bool01(c.legal) ELSE 0)
    BY <1>3, <1>4
  <2> HIDE DEF all, Q, R, sums
  <2> QED BY <1>1, <1>2, <1>5, <2>1
<1>9. sums("conceded", f.bowler, c.conceded)
  <2>1. /\ \A p \in all : Q[p]["conceded"] \in Nat /\ R[p]["conceded"] \in Nat
        /\ \A p \in all :
             R[p]["conceded"] = Q[p]["conceded"] + (IF p = f.bowler THEN c.conceded ELSE 0)
    BY <1>3, <1>4
  <2> HIDE DEF all, Q, R, sums
  <2> QED BY <1>1, <1>5, <2>1
<1>10. /\ OverSum(s, "runs") \in Nat /\ OverSum(r, "runs") = OverSum(s, "runs") + c.total
       /\ OverSum(s, "conceded") \in Nat
       /\ OverSum(r, "conceded") = OverSum(s, "conceded") + c.conceded
       /\ OverSum(s, "wickets") \in Nat
       /\ OverSum(r, "wickets") = OverSum(s, "wickets") + Fell(f)
       /\ OverSum(s, "legal") \in Nat
       /\ OverSum(r, "legal") = OverSum(s, "legal") + Bool01(c.legal)
  <2>1. OverSum(s, "runs") \in Nat /\ OverSum(r, "runs") = OverSum(s, "runs") + c.total
    BY DeliveredOvers
  <2>2. /\ OverSum(s, "conceded") \in Nat
        /\ OverSum(r, "conceded") = OverSum(s, "conceded") + c.conceded
    BY DeliveredOvers
  <2>3. /\ OverSum(s, "wickets") \in Nat
        /\ OverSum(r, "wickets") = OverSum(s, "wickets") + Fell(f)
    BY DeliveredOvers
  <2>4. /\ OverSum(s, "legal") \in Nat
        /\ OverSum(r, "legal") = OverSum(s, "legal") + Bool01(c.legal)
    BY DeliveredOvers
  <2> QED BY <2>1, <2>2, <2>3, <2>4
<1>11. /\ r.runs = s.runs + c.total /\ r.legal = s.legal + Bool01(c.legal)
       /\ r.wickets = s.wickets + Fell(f) /\ Len(r.falls) = Len(s.falls) + Fell(f)
       /\ y["wide"] = x["wide"] + f.wide /\ y["noBall"] = x["noBall"] + f.noBall
       /\ y["bye"] = x["bye"] + f.bye /\ y["legBye"] = x["legBye"] + f.legBye
       /\ y["penalty"] = x["penalty"] + f.penalty
  BY DEF Delivers, DeliveredFrom, ExtraKinds
<1>12. /\ s.runs \in Nat /\ s.legal \in Nat /\ s.wickets \in Nat /\ Len(s.falls) \in Nat
       /\ x["wide"] \in Nat /\ x["noBall"] \in Nat /\ x["bye"] \in Nat /\ x["legBye"] \in Nat
       /\ x["penalty"] \in Nat
  <2>1. /\ s.runs \in Nat /\ s.legal \in Nat /\ s.wickets \in Nat
        /\ x \in [ExtraKinds -> Nat] /\ s.falls \in Seq(FallRows(bat))
    BY DEF Delivers, ReplayStates
  <2>2. Len(s.falls) \in Nat
    BY <2>1
  <2> HIDE DEF x
  <2> QED BY <2>1, <2>2 DEF ExtraKinds
<1>13. /\ c.total = f.bat + (f.wide + f.noBall + f.bye + f.legBye + f.penalty)
       /\ c.conceded = f.bat + f.wide + f.noBall
  BY DEF Delivers
<1>14. /\ s.runs = PeopleSum(Q, "runs")
                     + x["wide"] + x["noBall"] + x["bye"] + x["legBye"] + x["penalty"]
       /\ s.runs = OverSum(s, "runs")
       /\ s.runs = PeopleSum(Q, "conceded") + x["bye"] + x["legBye"] + x["penalty"]
       /\ s.legal = PeopleSum(Q, "bowled") /\ s.legal = PeopleSum(Q, "faced")
       /\ OverSum(s, "conceded") = PeopleSum(Q, "conceded")
       /\ s.wickets = OverSum(s, "wickets") /\ s.wickets = Len(s.falls)
       /\ s.legal = OverSum(s, "legal")
  BY DEF Balances
<1> HIDE DEF Q, R, x, y, all
<1>15. /\ r.runs = PeopleSum(R, "runs")
                     + y["wide"] + y["noBall"] + y["bye"] + y["legBye"] + y["penalty"]
       /\ r.runs = PeopleSum(R, "conceded") + y["bye"] + y["legBye"] + y["penalty"]
  <2> DEFINE P == PeopleSum(Q, "runs")
             C == PeopleSum(Q, "conceded")
             PP == PeopleSum(R, "runs")
             CC == PeopleSum(R, "conceded")
  <2>1. P \in Nat /\ PP = P + f.bat
    BY <1>6
  <2>2. C \in Nat /\ CC = C + c.conceded
    BY <1>9
  <2>3. /\ s.runs = P + x["wide"] + x["noBall"] + x["bye"] + x["legBye"] + x["penalty"]
        /\ s.runs = C + x["bye"] + x["legBye"] + x["penalty"]
    BY <1>14
  <2> HIDE DEF P, C, PP, CC
  <2>4. r.runs = PP + y["wide"] + y["noBall"] + y["bye"] + y["legBye"] + y["penalty"]
    <3>1. (P + x["wide"] + x["noBall"] + x["bye"] + x["legBye"] + x["penalty"])
            + (f.bat + (f.wide + f.noBall + f.bye + f.legBye + f.penalty))
          = (P + f.bat) + (x["wide"] + f.wide) + (x["noBall"] + f.noBall)
              + (x["bye"] + f.bye) + (x["legBye"] + f.legBye) + (x["penalty"] + f.penalty)
      <4> DEFINE x1 == x["wide"]
                 x2 == x["noBall"]
                 x3 == x["bye"]
                 x4 == x["legBye"]
                 x5 == x["penalty"]
                 f0 == f.bat
                 f1 == f.wide
                 f2 == f.noBall
                 f3 == f.bye
                 f4 == f.legBye
                 f5 == f.penalty
      <4>1. /\ x1 \in Nat /\ x2 \in Nat /\ x3 \in Nat /\ x4 \in Nat /\ x5 \in Nat
            /\ f0 \in Nat /\ f1 \in Nat /\ f2 \in Nat /\ f3 \in Nat /\ f4 \in Nat
            /\ f5 \in Nat /\ P \in Nat
        BY <1>1, <2>1, <1>12
      <4> HIDE DEF x1, x2, x3, x4, x5, f0, f1, f2, f3, f4, f5
      <4>2. (P + x1 + x2 + x3 + x4 + x5) + (f0 + (f1 + f2 + f3 + f4 + f5))
              = (P + f0) + (x1 + f1) + (x2 + f2) + (x3 + f3) + (x4 + f4) + (x5 + f5)
        BY <4>1
      <4> QED BY <4>2 DEF x1, x2, x3, x4, x5, f0, f1, f2, f3, f4, f5
    <3>2. r.runs = s.runs + c.total
      BY <1>11
    <3> QED BY <3>1, <3>2, <2>1, <2>3, <1>11, <1>13, Zenon
  <2>5. r.runs = CC + y["bye"] + y["legBye"] + y["penalty"]
    <3>1. (C + x["bye"] + x["legBye"] + x["penalty"])
            + (f.bat + (f.wide + f.noBall + f.bye + f.legBye + f.penalty))
          = (C + (f.bat + f.wide + f.noBall))
              + (x["bye"] + f.bye) + (x["legBye"] + f.legBye) + (x["penalty"] + f.penalty)
      <4> DEFINE x1 == x["wide"]
                 x2 == x["noBall"]
                 x3 == x["bye"]
                 x4 == x["legBye"]
                 x5 == x["penalty"]
                 f0 == f.bat
                 f1 == f.wide
                 f2 == f.noBall
                 f3 == f.bye
                 f4 == f.legBye
                 f5 == f.penalty
      <4>1. /\ x1 \in Nat /\ x2 \in Nat /\ x3 \in Nat /\ x4 \in Nat /\ x5 \in Nat
            /\ f0 \in Nat /\ f1 \in Nat /\ f2 \in Nat /\ f3 \in Nat /\ f4 \in Nat
            /\ f5 \in Nat /\ C \in Nat
        BY <1>1, <2>2, <1>12
      <4> HIDE DEF x1, x2, x3, x4, x5, f0, f1, f2, f3, f4, f5
      <4>2. (C + x3 + x4 + x5) + (f0 + (f1 + f2 + f3 + f4 + f5))
              = (C + (f0 + f1 + f2)) + (x3 + f3) + (x4 + f4) + (x5 + f5)
        BY <4>1
      <4> QED BY <4>2 DEF x1, x2, x3, x4, x5, f0, f1, f2, f3, f4, f5
    <3>2. r.runs = s.runs + c.total
      BY <1>11
    <3> QED BY <3>1, <3>2, <2>2, <2>3, <1>11, <1>13, Zenon
  <2> QED BY <2>4, <2>5 DEF PP, CC
<1>16. /\ r.runs = OverSum(r, "runs")
       /\ OverSum(r, "conceded") = PeopleSum(R, "conceded")
       /\ r.wickets = OverSum(r, "wickets") /\ r.wickets = Len(r.falls)
       /\ r.legal = OverSum(r, "legal")
  BY <1>9, <1>10, <1>11, <1>14
<1>17. r.legal = PeopleSum(R, "bowled") /\ r.legal = PeopleSum(R, "faced")
  BY <1>7, <1>8, <1>11, <1>14
<1> QED BY <1>15, <1>16, <1>17 DEF Balances, R, y

LEMMA DeliveredBounded ==
  ASSUME NEW pol, NEW bat, NEW field, NEW s, NEW r, NEW f, NEW c, bat \cap field = {},
         Placed(s, pol), Bounded(s, bat, field), Delivers(s, r, f, c, pol, bat, field)
  PROVE  Bounded(r, bat, field)
<1>1. /\ s.runs \in Nat /\ c.total \in Nat /\ c.conceded \in Nat /\ RunMax \in Nat
      /\ r.runs = s.runs + c.total /\ f.bat <= c.total /\ c.conceded <= c.total
      /\ f.bat \in Nat
  <2>1. /\ s.runs \in Nat /\ c.total \in Nat /\ f.bat \in Nat /\ f.wide \in Nat
        /\ f.noBall \in Nat /\ f.bye \in Nat /\ f.legBye \in Nat /\ f.penalty \in Nat
        /\ r.runs = s.runs + c.total
    BY DEF Delivers, ReplayStates, DeliveredFrom, Classes, Facts
  <2>2. /\ c.total = f.bat + (f.wide + f.noBall + f.bye + f.legBye + f.penalty)
        /\ c.conceded = f.bat + f.wide + f.noBall
    BY DEF Delivers
  <2> QED BY <2>1, <2>2, RunMaxAssumption
<1>2. r.runs <= RunMax
  BY <1>1 DEF Delivers, RunsFit
<1>3. ASSUME NEW p \in bat \cup field
      PROVE  LET q == r.people[p] IN
             /\ q.runs <= r.runs /\ q.conceded <= r.runs
             /\ q.catches <= q.dismissals /\ q.stumpings <= q.dismissals
             /\ q.runOuts <= q.dismissals
  <2> DEFINE a == s.people[p]
             b == r.people[p]
  <2>1. /\ a \in Persons /\ b \in Persons
         /\ b.runs = a.runs + (IF p = f.striker THEN f.bat ELSE 0)
         /\ b.conceded = a.conceded + (IF p = f.bowler THEN c.conceded ELSE 0)
         /\ \E t \in Nat :
              /\ b.dismissals = a.dismissals + t
              /\ b.catches \in {a.catches, a.catches + t}
              /\ b.stumpings \in {a.stumpings, a.stumpings + t}
              /\ b.runOuts \in {a.runOuts, a.runOuts + t}
    BY DeliveredFigures
  <2>2. /\ a.runs <= s.runs /\ a.conceded <= s.runs
        /\ a.catches <= a.dismissals /\ a.stumpings <= a.dismissals
        /\ a.runOuts <= a.dismissals
    BY DEF Bounded
  <2> HIDE DEF a, b
  <2>3. /\ a.runs \in Nat /\ a.conceded \in Nat /\ a.dismissals \in Nat /\ a.catches \in Nat
        /\ a.stumpings \in Nat /\ a.runOuts \in Nat
    BY <2>1 DEF Persons
  <2>4. b.runs <= r.runs /\ b.conceded <= r.runs
    BY <1>1, <2>1, <2>2, <2>3
  <2>5. PICK t \in Nat :
              /\ b.dismissals = a.dismissals + t
              /\ b.catches \in {a.catches, a.catches + t}
              /\ b.stumpings \in {a.stumpings, a.stumpings + t}
              /\ b.runOuts \in {a.runOuts, a.runOuts + t}
    BY <2>1
  <2>6. /\ b.catches <= b.dismissals /\ b.stumpings <= b.dismissals
        /\ b.runOuts <= b.dismissals
    BY <2>2, <2>3, <2>5
  <2> QED BY <2>4, <2>6 DEF b
<1>4. ASSUME NEW n \in 1 .. Len(r.overs)
      PROVE  r.overs[n].runs <= r.runs /\ r.overs[n].conceded <= r.runs
  <2> DEFINE b == OverBefore(s, f, c)
  <2>1. /\ s.overs \in Seq(OverRows(field)) /\ c.over \in Nat
        /\ Len(r.overs) = c.over + 1 /\ \A m \in 1 .. c.over : r.overs[m] = s.overs[m]
        /\ r.overs[c.over + 1].runs = b.runs + c.total
        /\ r.overs[c.over + 1].conceded = b.conceded + c.conceded
    BY DEF Delivers, ReplayStates, Classes, DeliveredFrom, OverGrows
  <2>2. Len(s.overs) \in {c.over, c.over + 1}
    BY DEF Placed, Delivers
  <2>3. \A m \in 1 .. Len(s.overs) :
          /\ s.overs[m].runs <= s.runs /\ s.overs[m].conceded <= s.runs
          /\ s.overs[m].runs \in Nat /\ s.overs[m].conceded \in Nat
    <3>1. \A m \in 1 .. Len(s.overs) : s.overs[m] \in OverRows(field)
      BY <2>1
    <3>2. \A v \in OverRows(field) : v.runs \in Nat /\ v.conceded \in Nat
      BY DEF OverRows
    <3>3. \A m \in 1 .. Len(s.overs) :
            s.overs[m].runs <= s.runs /\ s.overs[m].conceded <= s.runs
      BY DEF Bounded
    <3> QED BY <3>1, <3>2, <3>3
  <2>4. /\ b.runs <= s.runs /\ b.conceded <= s.runs /\ b.runs \in Nat /\ b.conceded \in Nat
    <3>1. CASE Len(s.overs) = c.over + 1
      <4>1. c.over + 1 \in DOMAIN s.overs /\ c.over + 1 \in 1 .. Len(s.overs)
        BY <2>1, <3>1
      <4>2. b = s.overs[c.over + 1]
        BY <4>1 DEF OverBefore
      <4> HIDE DEF b
      <4> QED BY <2>3, <4>1, <4>2
    <3>2. CASE Len(s.overs) = c.over
      <4>1. c.over + 1 \notin DOMAIN s.overs
        BY <2>1, <3>2
      <4>2. b.runs = 0 /\ b.conceded = 0
        BY <4>1 DEF OverBefore
      <4> HIDE DEF b
      <4> QED BY <1>1, <4>2
    <3> QED BY <2>2, <3>1, <3>2
  <2> HIDE DEF b
  <2>5. CASE n = c.over + 1
    BY <1>1, <2>1, <2>4, <2>5
  <2>6. CASE n # c.over + 1
    <3>1. n \in 1 .. c.over /\ n \in 1 .. Len(s.overs)
      BY <2>1, <2>2, <2>6
    <3>2. r.overs[n] = s.overs[n]
      BY <2>1, <3>1
    <3>3. /\ s.overs[n].runs <= s.runs /\ s.overs[n].conceded <= s.runs
          /\ s.overs[n].runs \in Nat /\ s.overs[n].conceded \in Nat /\ s.runs <= r.runs
          /\ s.runs \in Nat /\ r.runs \in Nat
      BY <1>1, <2>3, <3>1
    <3> QED BY <3>2, <3>3
  <2> QED BY <2>5, <2>6
<1> QED BY <1>2, <1>3, <1>4 DEF Bounded

LEMMA DeliveredRuled ==
  ASSUME NEW pol, NEW bat, NEW field, NEW facts, NEW s, NEW r, NEW f, NEW c,
         bat \cap field = {}, None \notin field,
         pol.noConsecutive \in BOOLEAN, pol.quota \in Nat \cup {None},
         facts \in Seq(Facts(bat, field)), Len(s.applied) + 1 \in 1 .. Len(facts),
         f = facts[Len(s.applied) + 1],
         Placed(s, pol), Ruled(s, pol, field, facts), Delivers(s, r, f, c, pol, bat, field)
  PROVE  Ruled(r, pol, field, facts)
<1> DEFINE q == c.over
           N == Len(s.applied)
<1>1. /\ s.overs \in Seq(OverRows(field)) /\ q \in Nat /\ Len(r.overs) = q + 1
      /\ \A m \in 1 .. q : r.overs[m] = s.overs[m]
      /\ f.bowler \in field /\ f.bowler = s.bowler
      /\ r.overs[q + 1].bowler = OverBefore(s, f, c).bowler
      /\ s.applied \in Seq(Classes(bat)) /\ r.applied = Append(s.applied, c)
      /\ DOMAIN r.people = bat \cup field /\ DOMAIN s.people = bat \cup field
      /\ \A m \in 1 .. N : s.applied[m].over \in Nat
  <2>1. /\ s.overs \in Seq(OverRows(field)) /\ s.applied \in Seq(Classes(bat))
        /\ DOMAIN r.people = bat \cup field /\ DOMAIN s.people = bat \cup field
    BY DEF Delivers, ReplayStates
  <2>2. \A v \in Classes(bat) : v.over \in Nat
    BY DEF Classes
  <2>3. q \in Nat /\ f.bowler \in field /\ f.bowler = s.bowler
    BY <2>2 DEF Delivers, Facts, Fitting
  <2>4. \A m \in 1 .. N : s.applied[m].over \in Nat
    BY <2>1, <2>2
  <2>5. /\ Len(r.overs) = q + 1 /\ \A m \in 1 .. q : r.overs[m] = s.overs[m]
        /\ r.overs[q + 1].bowler = OverBefore(s, f, c).bowler
        /\ r.applied = Append(s.applied, c)
    BY DEF Delivers, DeliveredFrom, OverGrows
  <2> QED BY <2>1, <2>3, <2>4, <2>5
<1>2. Len(s.overs) \in {q, q + 1}
  BY DEF Placed, Delivers
<1>3. OverBefore(s, f, c).bowler = s.bowler
  BY DeliveredPlaced
<1>4. Ineligibility(pol, f.bowler, field, Balls(s), PreviousBowler(s, q)) = None
  BY DEF Delivers, MayBowl
<1>5. /\ pol.noConsecutive => f.bowler # PreviousBowler(s, q)
      /\ pol.quota # None => ~(Balls(s)[f.bowler] >= pol.quota)
  BY <1>1, <1>4, NoneAssumption DEF Ineligibility
<1>6. ASSUME pol.noConsecutive, NEW n \in 2 .. Len(r.overs)
      PROVE  r.overs[n].bowler # r.overs[n - 1].bowler
  <2>0. q \in Nat /\ Len(r.overs) = q + 1 /\ n \in 2 .. (q + 1) /\ Len(s.overs) \in {q, q + 1}
    BY <1>1, <1>2
  <2>1. CASE n = q + 1
    <3>1. q \in 1 .. q /\ q \in 1 .. Len(s.overs) /\ n - 1 = q
      <4> HIDE DEF q
      <4> QED BY <2>0, <2>1
    <3>2. PreviousBowler(s, q) = s.overs[q].bowler
      BY <1>1, <3>1 DEF PreviousBowler
    <3> QED BY <1>1, <1>3, <1>5, <1>6, <2>1, <3>1, <3>2
  <2>2. CASE n # q + 1
    <3>1. n \in 1 .. q /\ n - 1 \in 1 .. q /\ n \in 2 .. Len(s.overs)
      <4> HIDE DEF q
      <4> QED BY <2>0, <2>2
    <3>2. s.overs[n].bowler # s.overs[n - 1].bowler
      BY <1>6, <3>1 DEF Ruled
    <3> QED BY <1>1, <3>1, <3>2
  <2> QED BY <2>1, <2>2
<1>7. ASSUME pol.quota # None, NEW p \in DOMAIN r.people
      PROVE  r.people[p].bowled <= pol.quota
  <2>1. /\ p \in bat \cup field /\ pol.quota \in Nat /\ s.people[p].bowled <= pol.quota
    BY <1>1, <1>7 DEF Ruled
  <2>2. /\ s.people[p] \in Persons
        /\ r.people[p].bowled = s.people[p].bowled + (IF p = f.bowler THEN Bool01(c.legal) ELSE 0)
    BY <2>1, DeliveredFigures
  <2>3. s.people[p].bowled \in Nat
    BY <2>2 DEF Persons
  <2>4. CASE p = f.bowler
    <3>1. ~(s.people[p].bowled >= pol.quota)
      BY <1>1, <1>5, <1>7, <2>1, <2>4 DEF Balls
    <3>2. Bool01(c.legal) \in 0 .. 1
      BY DEF Bool01
    <3> QED BY <2>1, <2>2, <2>3, <2>4, <3>1, <3>2
  <2>5. CASE p # f.bowler
    BY <2>1, <2>2, <2>3, <2>5
  <2> QED BY <2>4, <2>5
<1>8. ASSUME NEW n \in 1 .. Len(r.applied)
      PROVE  /\ n \in 1 .. Len(facts) /\ r.applied[n].over + 1 \in 1 .. Len(r.overs)
             /\ facts[n].bowler = r.overs[r.applied[n].over + 1].bowler
  <2>1. N \in Nat /\ Len(r.applied) = N + 1
    BY <1>1
  <2>2. CASE n = N + 1
    <3>1. r.applied[n] = c
      BY <1>1, <2>1, <2>2
    <3>2. q + 1 \in 1 .. Len(r.overs)
      BY <1>1
    <3> QED BY <1>1, <1>3, <2>2, <3>1, <3>2
  <2>3. CASE n # N + 1
    <3>1. n \in 1 .. N /\ r.applied[n] = s.applied[n]
      BY <1>1, <2>1, <2>3
    <3> DEFINE k == s.applied[n].over + 1
    <3>2. n \in 1 .. Len(facts) /\ k \in 1 .. Len(s.overs) /\ facts[n].bowler = s.overs[k].bowler
      BY <3>1 DEF Ruled
    <3>3. k \in Nat
      BY <1>1, <3>1
    <3> HIDE DEF k
    <3>4. k \in 1 .. Len(r.overs) /\ r.overs[k].bowler = s.overs[k].bowler
      <4>0. q \in Nat /\ Len(r.overs) = q + 1 /\ \A m \in 1 .. q : r.overs[m] = s.overs[m]
        BY <1>1
      <4>1. CASE k \in 1 .. q
        <5> HIDE DEF q
        <5> QED BY <4>0, <4>1
      <4>2. CASE k \notin 1 .. q
        <5>1. k = q + 1 /\ Len(s.overs) = q + 1
          BY <1>1, <1>2, <3>2, <3>3, <4>2
        <5>2. s.overs[q + 1].bowler = s.bowler
          BY <5>1 DEF Placed, Delivers
        <5>3. r.overs[q + 1].bowler = s.bowler
          BY <1>1, <1>3
        <5> QED BY <1>1, <5>1, <5>2, <5>3
      <4> QED BY <4>1, <4>2
    <3> QED BY <3>1, <3>2, <3>4 DEF k
  <2> QED BY <2>2, <2>3
<1> QED BY <1>6, <1>7, <1>8 DEF Ruled

-----------------------------------------------------------------------------
(* Openers and transitions keep a replay sound.                            *)

\* The openers of an innings, with nothing scored.
LEMMA OpeningSound ==
  ASSUME NEW pol, NEW bat, NEW field, NEW facts, NEW openers, NEW target,
         bat \cap field = {}, IsFiniteSet(bat), IsFiniteSet(field), None \notin field,
         None \notin bat,
         openers \in [striker : bat, nonStriker : bat, bowler : field],
         openers.striker # openers.nonStriker,
         pol.over \in Nat \ {0}, pol.quota \in Nat \cup {None},
         target \in Nat \cup {None}
  PROVE  Sound(Opening(pol, bat, field, openers, target), pol, bat, field, facts)
<1> DEFINE s == Opening(pol, bat, field, openers, target)
           all == bat \cup field
<1>1. /\ s.striker = openers.striker /\ s.nonStriker = openers.nonStriker
      /\ s.bowler = openers.bowler /\ s.legal = 0 /\ s.runs = 0 /\ s.wickets = 0
      /\ s.overs = <<>> /\ s.falls = <<>> /\ s.applied = <<>>
      /\ s.extras["wide"] = 0 /\ s.extras["noBall"] = 0 /\ s.extras["bye"] = 0
      /\ s.extras["legBye"] = 0 /\ s.extras["penalty"] = 0
      /\ DOMAIN s.people = all
      /\ \A p \in all : s.people[p] = IF p \in {openers.striker, openers.nonStriker}
                                      THEN [Unused EXCEPT !.state = "active"] ELSE Unused
  BY DEF Opening
<1> HIDE DEF s
<1>2. /\ openers.striker \in bat /\ openers.nonStriker \in bat /\ openers.bowler \in field
  OBVIOUS
<1>3. \A p \in all :
        /\ s.people[p].runs = 0 /\ s.people[p].faced = 0 /\ s.people[p].bowled = 0
        /\ s.people[p].conceded = 0 /\ s.people[p].dismissals = 0 /\ s.people[p].catches = 0
        /\ s.people[p].stumpings = 0 /\ s.people[p].runOuts = 0 /\ s.people[p].how = None
        /\ s.people[p].state = IF p \in {openers.striker, openers.nonStriker}
                               THEN "active" ELSE "not_batted"
  BY <1>1 DEF Unused
<1>4. IsFiniteSet(all)
  BY FS_Union
<1>5. Placed(s, pol)
  <2>1. 0 \div pol.over = 0 /\ 0 % pol.over = 0
    <3>1. 0 \div pol.over \in Nat /\ 0 % pol.over \in 0 .. (pol.over - 1)
          /\ 0 = (pol.over * (0 \div pol.over)) + (0 % pol.over)
      BY Divided
    <3>2. pol.over \in Nat \ {0} /\ 0 \in Nat /\ 0 \in 0 .. (pol.over - 1)
          /\ (pol.over * 0) + 0 = 0
      OBVIOUS
    <3> DEFINE n == pol.over
               a == 0 \div n
               b == 0 % n
    <3>3. (n * a) + b = (n * 0) + 0
      BY <3>1, <3>2
    <3> HIDE DEF n, a, b
    <3> QED BY <3>1, <3>2, <3>3, DividedOnce DEF n, a, b
  <2> QED BY <1>1, <1>2, <2>1 DEF Placed
<1>6. Manned(s, bat, field)
  <2>1. Apart(s)
    BY <1>1, <1>2 DEF Apart
  <2>2. Lost(s, all) = {}
    BY <1>3 DEF Lost
  <2>3. Cardinality(Lost(s, all)) = s.wickets
    BY <1>1, <2>2, FS_EmptySet
  <2>4. \A p \in bat : p \in Ended(s) <=> s.people[p].state = "active"
    BY <1>1, <1>3 DEF Ended
  <2>5. \A p \in all : s.people[p].how # None <=> s.people[p].state \in Out
    BY <1>3 DEF Out
  <2>6. \A p \in field : s.people[p].state = "not_batted"
    BY <1>2, <1>3
  <2> QED BY <2>1, <2>3, <2>4, <2>5, <2>6 DEF Manned
<1>7. Balances(s)
  <2>1. /\ PeopleSum(s.people, "runs") = 0 /\ PeopleSum(s.people, "faced") = 0
        /\ PeopleSum(s.people, "bowled") = 0 /\ PeopleSum(s.people, "conceded") = 0
    <3>1. \A p \in all : s.people[p]["runs"] = 0 /\ s.people[p]["faced"] = 0
                         /\ s.people[p]["bowled"] = 0 /\ s.people[p]["conceded"] = 0
      BY <1>3
    <3> DEFINE Q == s.people
    <3>2. DOMAIN Q = all
      BY <1>1
    <3> HIDE DEF Q, all
    <3>3. \A p \in all : Q[p]["runs"] = 0
      BY <3>1 DEF Q
    <3>4. \A p \in all : Q[p]["faced"] = 0
      BY <3>1 DEF Q
    <3>5. \A p \in all : Q[p]["bowled"] = 0
      BY <3>1 DEF Q
    <3>6. \A p \in all : Q[p]["conceded"] = 0
      BY <3>1 DEF Q
    <3>7. PeopleSum(Q, "runs") = 0
      BY <1>4, <3>2, <3>3, SumOfNothing
    <3>8. PeopleSum(Q, "faced") = 0
      BY <1>4, <3>2, <3>4, SumOfNothing
    <3>9. PeopleSum(Q, "bowled") = 0
      BY <1>4, <3>2, <3>5, SumOfNothing
    <3>10. PeopleSum(Q, "conceded") = 0
      BY <1>4, <3>2, <3>6, SumOfNothing
    <3> QED BY <3>7, <3>8, <3>9, <3>10 DEF Q
  <2>2. ASSUME NEW fd PROVE OverSum(s, fd) = 0
    <3> DEFINE g == [n \in 1 .. Len(s.overs) |-> s.overs[n][fd]]
    <3>1. DOMAIN g = 1 .. 0 /\ 0 \in Nat
      BY <1>1
    <3> HIDE DEF g
    <3>2. PICK h : SumPath(h, g, 0)
      BY <3>1, SumTrace
    <3>3. SeqSum(g) = 0
      BY <3>2 DEF SumPath
    <3> QED BY <3>3 DEF OverSum, g
  <2>3. Len(s.falls) = 0
    BY <1>1
  <2> QED BY <1>1, <2>1, <2>2, <2>3 DEF Balances
<1>8. Ruled(s, pol, field, facts)
  BY <1>1, <1>3 DEF Ruled
<1>9. Bounded(s, bat, field)
  BY <1>1, <1>3, RunMaxAssumption DEF Bounded
<1> QED BY <1>5, <1>6, <1>7, <1>8, <1>9 DEF Sound, s

\* The states of the batters change, and nothing else about the people.
Restated(s, r, all) ==
  /\ s.people \in [all -> Persons] /\ r.people \in [all -> Persons]
  /\ \A p \in all :
       LET a == s.people[p]
           b == r.people[p] IN
       /\ b.how = a.how /\ b.runs = a.runs /\ b.faced = a.faced /\ b.bowled = a.bowled
       /\ b.conceded = a.conceded /\ b.dismissals = a.dismissals /\ b.catches = a.catches
       /\ b.stumpings = a.stumpings /\ b.runOuts = a.runOuts

\* What a change of states keeps of the soundness of a replay.
LEMMA RestatedSound ==
  ASSUME NEW pol, NEW bat, NEW field, NEW facts, NEW s, NEW r,
         IsFiniteSet(bat), IsFiniteSet(field), Sound(s, pol, bat, field, facts),
         KeepsScorecard(s, r), Restated(s, r, bat \cup field), r.bowler = s.bowler,
         Apart(r), \A p \in bat : p \in Ended(r) <=> r.people[p].state = "active",
         \A p \in bat \cup field :
           r.people[p].state = s.people[p].state
             \/ (s.people[p].state \notin Out /\ r.people[p].state \notin Out),
         \A p \in field : r.people[p].state = s.people[p].state
  PROVE  Sound(r, pol, bat, field, facts)
<1> DEFINE all == bat \cup field
<1>1. DOMAIN s.people = all /\ DOMAIN r.people = all /\ IsFiniteSet(all)
  BY FS_Union DEF Restated
<1>2. Manned(r, bat, field)
  <2>1. Lost(r, all) = Lost(s, all)
    BY DEF Lost, Restated
  <2>2. \A p \in all : r.people[p].how # None <=> r.people[p].state \in Out
    BY DEF Restated, Sound, Manned
  <2>3. Cardinality(Lost(r, all)) = r.wickets
    BY <2>1 DEF KeepsScorecard, Sound, Manned
  <2>4. \A p \in field : r.people[p].state = "not_batted"
    BY DEF Sound, Manned
  <2> QED BY <2>2, <2>3, <2>4 DEF Manned
<1>3. Placed(r, pol)
  BY DEF Sound, Placed, KeepsScorecard
<1>4. /\ PeopleSum(r.people, "runs") = PeopleSum(s.people, "runs")
      /\ PeopleSum(r.people, "faced") = PeopleSum(s.people, "faced")
      /\ PeopleSum(r.people, "bowled") = PeopleSum(s.people, "bowled")
      /\ PeopleSum(r.people, "conceded") = PeopleSum(s.people, "conceded")
  <2> DEFINE Q == s.people
             R == r.people
  <2>1. /\ Q \in [all -> Persons]
        /\ \A p \in all : /\ R[p].runs = Q[p].runs /\ R[p].faced = Q[p].faced
                          /\ R[p].bowled = Q[p].bowled /\ R[p].conceded = Q[p].conceded
    BY DEF Restated
  <2>2. \A v \in Persons : v.runs \in Nat /\ v.faced \in Nat /\ v.bowled \in Nat
                             /\ v.conceded \in Nat
    BY DEF Persons
  <2> HIDE DEF Q, R, all
  <2>3. \A p \in all : Q[p]["runs"] \in Nat /\ R[p]["runs"] = Q[p]["runs"]
    BY <2>1, <2>2
  <2>4. \A p \in all : Q[p]["faced"] \in Nat /\ R[p]["faced"] = Q[p]["faced"]
    BY <2>1, <2>2
  <2>5. \A p \in all : Q[p]["bowled"] \in Nat /\ R[p]["bowled"] = Q[p]["bowled"]
    BY <2>1, <2>2
  <2>6. \A p \in all : Q[p]["conceded"] \in Nat /\ R[p]["conceded"] = Q[p]["conceded"]
    BY <2>1, <2>2
  <2>7. DOMAIN Q = all /\ DOMAIN R = all
    BY <1>1 DEF Q, R
  <2>8. PeopleSum(R, "runs") = PeopleSum(Q, "runs")
    BY <1>1, <2>3, <2>7, SumKept
  <2>9. PeopleSum(R, "faced") = PeopleSum(Q, "faced")
    BY <1>1, <2>4, <2>7, SumKept
  <2>10. PeopleSum(R, "bowled") = PeopleSum(Q, "bowled")
    BY <1>1, <2>5, <2>7, SumKept
  <2>11. PeopleSum(R, "conceded") = PeopleSum(Q, "conceded")
    BY <1>1, <2>6, <2>7, SumKept
  <2> QED BY <2>8, <2>9, <2>10, <2>11 DEF Q, R
<1>5. \A fd : OverSum(r, fd) = OverSum(s, fd)
  BY DEF OverSum, KeepsScorecard
<1>6. Balances(r)
  BY <1>4, <1>5 DEF Sound, Balances, KeepsScorecard
<1>7. Ruled(r, pol, field, facts)
  BY <1>1 DEF Sound, Ruled, KeepsScorecard, Restated
<1>8. Bounded(r, bat, field)
  BY DEF Sound, Bounded, KeepsScorecard, Restated
<1> QED BY <1>2, <1>3, <1>6, <1>7, <1>8 DEF Sound

\* Who is out of the facts of a delivery.
OutOf(f) == IF f.wicket = None THEN None ELSE f.wicket.out

\* The life of an innings, its end and its dismissals agree with what was played.
Settled(s, pol, target, facts) ==
  /\ s.target = target
  /\ s.life # "reconciliation_required" => s.halted = None
  /\ s.life = "reconciliation_required" => s.halted # None
  /\ s.life = "in_progress" => s.reason = None
  /\ s.life = "completed" => s.reason # None
  /\ s.reason = "target_reached" => s.target # None /\ s.runs >= s.target
  /\ "all_out" \in pol.modes => s.wickets <= pol.wickets
  /\ \A n \in 1 .. Len(s.applied) : s.applied[n].out = OutOf(facts[n])
  /\ \A p \in DOMAIN s.people :
       s.people[p].how # None <=> \E n \in 1 .. Len(s.applied) : s.applied[n].out = p

\* A live innings has a wicket left, where wickets end it.
WicketLeft(s, pol) ==
  "all_out" \in pol.modes /\ s.life = "in_progress" => s.wickets < pol.wickets

Good(s, pol, target, bat, field, facts) ==
  /\ Sound(s, pol, bat, field, facts)
  /\ Settled(s, pol, target, facts)
  /\ WicketLeft(s, pol)

\* The assumptions under which an innings is replayed.
Playable(pol, bat, field, facts, target) ==
  /\ bat \cap field = {} /\ IsFiniteSet(bat) /\ IsFiniteSet(field)
  /\ None \notin bat /\ None \notin field
  /\ pol.over \in Nat \ {0} /\ pol.quota \in Nat \cup {None} /\ pol.noConsecutive \in BOOLEAN
  /\ pol.wickets \in Nat \ {0}
  /\ facts \in Seq(Facts(bat, field)) /\ target \in Nat \cup {None}

LEMMA FinishesGood ==
  ASSUME NEW pol, NEW target, NEW bat, NEW field, NEW facts, NEW s, NEW r,
         s \in ReplayStates(bat, field), r \in ReplayStates(bat, field),
         Sound(s, pol, bat, field, facts), Settled(s, pol, target, facts),
         pol.wickets \in Nat,
         s.life = "in_progress", Finishes(s, r, pol),
         WicketLeft(s, pol) \/ r.reason = AutomaticCompletion(pol, s)
  PROVE  Good(r, pol, target, bat, field, facts)
<1>1. Untouched(s, r)
  BY DEF Finishes, KeepsScorecard, Untouched
<1>2. Sound(r, pol, bat, field, facts)
  BY <1>1, UntouchedSound
<1>3. /\ r.life = IF r.reason = None THEN s.life ELSE "completed"
      /\ r.target = s.target /\ r.halted = s.halted /\ r.wickets = s.wickets
      /\ r.applied = s.applied /\ r.people = s.people /\ r.runs = s.runs
  BY DEF Finishes, KeepsScorecard
<1>4. r.reason = "target_reached" => s.target # None /\ s.runs >= s.target
  <2>1. r.reason = AutomaticCompletion(pol, s) \/ r.reason \in ExplicitModes
    BY DEF Finishes
  <2>2. AutomaticCompletion(pol, s) = "target_reached" =>
           s.target # None /\ s.runs >= s.target
    BY NoneAssumption DEF AutomaticCompletion, AutomaticModes
  <2> QED BY <2>1, <2>2 DEF ExplicitModes
<1>5. WicketLeft(r, pol)
  <2>1. CASE WicketLeft(s, pol)
    BY <1>3, <2>1 DEF WicketLeft
  <2>2. CASE r.reason = AutomaticCompletion(pol, s)
    <3>1. s.wickets \in Nat /\ pol.wickets \in Nat
      BY DEF ReplayStates
    <3>2. r.reason = None /\ "all_out" \in pol.modes => s.wickets < pol.wickets
      BY <2>2, <3>1, NoneAssumption DEF AutomaticCompletion, AutomaticModes
    <3> QED BY <1>3, <3>2 DEF WicketLeft
  <2> QED BY <2>1, <2>2
<1>6. Settled(r, pol, target, facts)
  BY <1>3, <1>4 DEF Settled
<1> QED BY <1>2, <1>5, <1>6 DEF Good

\* A transition keeps a live or ended innings good.
LEMMA TransitGood ==
  ASSUME NEW pol, NEW target, NEW bat, NEW field, NEW facts, NEW s, NEW r,
         Playable(pol, bat, field, facts, target),
         s \in ReplayStates(bat, field), r \in ReplayStates(bat, field),
         Good(s, pol, target, bat, field, facts), s.halted = None,
         Transits(s, r, pol, bat, field)
  PROVE  Good(r, pol, target, bat, field, facts) /\ r.halted = None
<1>0. IsFiniteSet(bat) /\ IsFiniteSet(field) /\ bat \cap field = {} /\ None \notin bat
  BY DEF Playable
<1>1. CASE r = s
  BY <1>1
<1>2. CASE Errs(s, r)
  <2>1. Untouched(s, r)
    BY <1>2 DEF Errs, KeepsScorecard, Untouched
  <2>2. Sound(r, pol, bat, field, facts)
    BY <2>1, UntouchedSound DEF Good
  <2>3. Settled(r, pol, target, facts) /\ WicketLeft(r, pol) /\ r.halted = None
    BY <1>2 DEF Errs, KeepsScorecard, Good, Settled, WicketLeft
  <2> QED BY <2>2, <2>3 DEF Good
<1>3. CASE BowlerChosen(s, r, pol, field)
  <2>1. Placed(r, pol)
    <3>1. /\ r.overs = s.overs /\ r.legal = s.legal /\ s.bowler = None /\ r.bowler \in field
      BY <1>3 DEF BowlerChosen, KeepsScorecard
    <3>2. Len(s.overs) = s.legal \div pol.over /\ r.bowler # None
      BY <3>1 DEF Good, Sound, Placed, Playable
    <3>3. s.legal \div pol.over \in Nat
      BY Divided DEF ReplayStates, Playable
    <3>4. Len(s.overs) # (s.legal \div pol.over) + 1
      <4> DEFINE q == s.legal \div pol.over
      <4> HIDE DEF q
      <4>1. q \in Nat /\ Len(s.overs) = q
        BY <3>2, <3>3 DEF q
      <4>2. Len(s.overs) # q + 1
        BY <4>1
      <4> QED BY <4>2 DEF q
    <3> QED BY <3>1, <3>2, <3>4 DEF Good, Sound, Placed
  <2>2. Apart(r)
    BY <1>3, EndsApart DEF BowlerChosen, Good, Sound, Manned
  <2>3. Lost(r, bat \cup field) = Lost(s, bat \cup field)
    BY <1>3 DEF BowlerChosen, Lost
  <2>4. Manned(r, bat, field)
    BY <1>3, <2>2, <2>3 DEF BowlerChosen, KeepsScorecard, Good, Sound, Manned
  <2>5. \A fd : OverSum(r, fd) = OverSum(s, fd)
    BY <1>3 DEF OverSum, BowlerChosen, KeepsScorecard
  <2>6. Balances(r)
    BY <1>3, <2>5 DEF BowlerChosen, KeepsScorecard, Good, Sound, Balances
  <2>7. Ruled(r, pol, field, facts)
    BY <1>3 DEF BowlerChosen, KeepsScorecard, Good, Sound, Ruled
  <2>8. Bounded(r, bat, field)
    BY <1>3 DEF BowlerChosen, KeepsScorecard, Good, Sound, Bounded
  <2>9. Settled(r, pol, target, facts) /\ WicketLeft(r, pol) /\ r.halted = None
    BY <1>3 DEF BowlerChosen, KeepsScorecard, Good, Settled, WicketLeft
  <2> QED BY <2>1, <2>4, <2>6, <2>7, <2>8, <2>9 DEF Sound, Good
<1>4. ASSUME KeepsScorecard(s, r), r.bowler = s.bowler, r.life = s.life, r.reason = s.reason,
             NEW who \in bat, NEW x \in bat \cup {None}, NEW st \in BatterStates \ Out,
             r.people = [s.people EXCEPT ![who] = [s.people[who] EXCEPT !.state = st]],
             s.people[who].state \notin Out,
             Ended(r) = IF st = "active" THEN {who, x} ELSE {None, x}, x # who,
             \A p \in bat : p # who => (p \in Ended(s) <=> p = x)
      PROVE  Good(r, pol, target, bat, field, facts) /\ r.halted = None
  <2>1. /\ s.people \in [bat \cup field -> Persons] /\ r.people \in [bat \cup field -> Persons]
        /\ who \in bat \cup field
    BY DEF ReplayStates
  <2>2. s.people[who] \in Persons
    BY <2>1
  <2>3. \A p \in bat \cup field :
          r.people[p] = IF p = who THEN [s.people[who] EXCEPT !.state = st] ELSE s.people[p]
    BY <1>4, <2>1
  <2> DEFINE v == [s.people[who] EXCEPT !.state = st]
             a == s.people[who]
  <2>4. /\ v.state = st /\ v.how = a.how /\ v.runs = a.runs /\ v.faced = a.faced
        /\ v.bowled = a.bowled /\ v.conceded = a.conceded /\ v.dismissals = a.dismissals
        /\ v.catches = a.catches /\ v.stumpings = a.stumpings /\ v.runOuts = a.runOuts
    BY <2>2 DEF Persons
  <2> HIDE DEF v, a
  <2>5. \A p \in bat \cup field : r.people[p] = IF p = who THEN v ELSE s.people[p]
    BY <2>3 DEF v
  <2>6. Restated(s, r, bat \cup field)
    BY <2>1, <2>4, <2>5 DEF Restated, a
  <2>7. \A p \in bat \cup field :
          r.people[p].state = s.people[p].state
            \/ (s.people[p].state \notin Out /\ r.people[p].state \notin Out)
    BY <1>4, <2>4, <2>5
  <2>8. \A p \in field : r.people[p].state = s.people[p].state
    BY <1>0, <2>5
  <2>9. \A p \in bat : p \in Ended(r) <=> r.people[p].state = "active"
    <3> TAKE p \in bat
    <3>1. CASE p = who
      BY <1>0, <1>4, <2>4, <2>5, <3>1
    <3>2. CASE p # who
      <4>1. r.people[p].state = s.people[p].state
        BY <2>5, <3>2
      <4>2. p \in Ended(s) <=> s.people[p].state = "active"
        BY DEF Good, Sound, Manned
      <4>3. p \in Ended(r) <=> p = x
        BY <1>0, <1>4, <3>2
      <4> QED BY <1>4, <3>2, <4>1, <4>2, <4>3
    <3> QED BY <3>1, <3>2
  <2>10. Apart(r)
    BY <1>0, <1>4 DEF Apart, Ended
  <2>11. Sound(r, pol, bat, field, facts)
    BY <1>0, <1>4, <2>6, <2>7, <2>8, <2>9, <2>10, RestatedSound DEF Good
  <2>12. \A p \in DOMAIN r.people : r.people[p].how = s.people[p].how /\ p \in DOMAIN s.people
    BY <2>1, <2>6 DEF Restated
  <2>13. Settled(r, pol, target, facts)
    BY <1>4, <2>12 DEF KeepsScorecard, Good, Settled
  <2>14. WicketLeft(r, pol) /\ r.halted = None
    BY <1>4 DEF KeepsScorecard, Good, WicketLeft
  <2> QED BY <2>11, <2>13, <2>14 DEF Good
<1>5. CASE BatterCame(s, r, bat)
  <2>1. PICK who \in bat, x \in bat \cup {None} :
       /\ Ended(s) = {None, x} /\ Ended(r) = {who, x}
       /\ s.people[who].state \in {"not_batted", "retired_hurt"}
       /\ r.people = [s.people EXCEPT ![who] = [s.people[who] EXCEPT !.state = "active"]]
    BY <1>5 DEF BatterCame
  <2>2. who \notin Ended(s)
    BY <2>1 DEF Good, Sound, Manned
  <2>3. x # who /\ \A p \in bat : p # who => (p \in Ended(s) <=> p = x)
    BY <1>0, <2>1, <2>2
  <2>4. "active" \in BatterStates \ Out /\ s.people[who].state \notin Out
    BY <2>1 DEF BatterStates, Out
  <2> QED BY <1>4, <1>5, <2>1, <2>3, <2>4 DEF BatterCame
<1>6. CASE BatterLeft(s, r, bat)
  <2>1. PICK who \in bat, x \in bat \cup {None} :
       /\ Ended(s) = {who, x} /\ x # who /\ Ended(r) = {None, x}
       /\ r.people = [s.people EXCEPT ![who] =
                        [s.people[who] EXCEPT !.state = "retired_hurt"]]
    BY <1>6 DEF BatterLeft
  <2>2. s.people[who].state = "active"
    BY <2>1 DEF Good, Sound, Manned
  <2>3. \A p \in bat : p # who => (p \in Ended(s) <=> p = x)
    BY <2>1
  <2>4. "retired_hurt" \in BatterStates \ Out /\ s.people[who].state \notin Out
    BY <2>2 DEF BatterStates, Out
  <2> QED BY <1>4, <1>6, <2>1, <2>3, <2>4 DEF BatterLeft
<1>7. CASE s.life # "completed" /\ Finishes(s, r, pol)
  <2>1. s.life = "in_progress"
    BY <1>7 DEF Good, Settled, ReplayStates
  <2>2. Good(r, pol, target, bat, field, facts)
    BY <1>7, <2>1, FinishesGood DEF Good, Playable
  <2>3. r.halted = None
    BY <1>7 DEF Finishes, KeepsScorecard
  <2> QED BY <2>2, <2>3
<1> QED BY <1>1, <1>2, <1>3, <1>5, <1>6, <1>7 DEF Transits

-----------------------------------------------------------------------------
(* A whole innings.                                                        *)

Sourced(source, bat, field) ==
  /\ source.batters = bat /\ source.fielders = field
  /\ source.openers \in [striker : bat, nonStriker : bat, bowler : field]
  /\ source.openers.striker # source.openers.nonStriker
  /\ source.deliveries \in Seq(Facts(bat, field))
  /\ source.transitions \in Seq(Transitions(bat, field))

LEMMA AfterAttemptGood ==
  ASSUME NEW pol, NEW target, NEW bat, NEW field, NEW facts, NEW source, NEW n, NEW s,
         Playable(pol, bat, field, facts, target), Sourced(source, bat, field),
         s \in ReplayStates(bat, field), Good(s, pol, target, bat, field, facts),
         s.halted = None
  PROVE  LET r == AfterAttempt(s, n, pol, source) IN
         /\ r \in ReplayStates(bat, field) /\ Good(r, pol, target, bat, field, facts)
         /\ r.halted = None /\ r.applied = s.applied
<1> DEFINE N == Len(source.transitions)
           Fine(r) == /\ r \in ReplayStates(bat, field)
                      /\ Good(r, pol, target, bat, field, facts)
                      /\ r.halted = None /\ r.applied = s.applied
<1>1. /\ N \in Nat /\ DOMAIN source.transitions = 1 .. N
      /\ source.batters = bat /\ source.fielders = field
      /\ \A i \in 1 .. N : source.transitions[i] \in Transitions(bat, field)
  BY DEF Sourced
<1>2. PICK h : AttemptPath(h, s, n, pol, source, N)
  BY <1>1, AfterAttemptTrace
<1>3. ASSUME NEW i \in 1 .. N, Fine(h[i - 1]) PROVE Fine(h[i])
  <2> DEFINE a == h[i - 1]
             t == source.transitions[i]
             b == ApplyTransition(a, t, pol, bat, field)
  <2>1. h[i] = IF t.anchor = n THEN b ELSE a
    BY <1>1, <1>2 DEF AttemptPath
  <2>2. /\ a \in ReplayStates(bat, field) /\ Good(a, pol, target, bat, field, facts)
        /\ a.halted = None /\ a.applied = s.applied /\ t \in Transitions(bat, field)
    BY <1>1, <1>3
  <2>3. Apart(a) /\ None \notin bat
    BY <2>2 DEF Good, Sound, Manned, Playable
  <2>4. b \in ReplayStates(bat, field) /\ Transits(a, b, pol, bat, field)
    <3> HIDE DEF a, t
    <3> QED BY <2>2, <2>3, ApplyTransitionIs
  <2> HIDE DEF a, b, t
  <2>5. Good(b, pol, target, bat, field, facts) /\ b.halted = None
    BY <2>2, <2>4, TransitGood
  <2>6. b.applied = a.applied
    BY <2>4 DEF Transits, Errs, BowlerChosen, BatterCame, BatterLeft, Finishes,
                KeepsScorecard
  <2>7. Fine(a) /\ Fine(b)
    BY <2>2, <2>4, <2>5, <2>6
  <2> HIDE DEF Fine
  <2> QED BY <2>1, <2>7
<1>4. Fine(h[0])
  BY <1>2 DEF AttemptPath
<1>5. Fine(h[N])
  <2> DEFINE P == {i \in 0 .. N : Fine(h[i])}
  <2> HIDE DEF N, Fine
  <2>1. 0 \in P
    BY <1>1, <1>4
  <2>2. ASSUME NEW i \in 1 .. N, i - 1 \in P PROVE i \in P
    <3>1. i \in 0 .. N
      BY <1>1
    <3> QED BY <1>3, <2>2, <3>1
  <2> HIDE DEF P
  <2>3. N \in P
    BY <1>1, <2>1, <2>2, ChainHolds
  <2> QED BY <2>3 DEF P
<1> QED BY <1>2, <1>5 DEF AttemptPath

\* A conflict that is allowed stops the replay where it is.
LEMMA HaltGood ==
  ASSUME NEW pol, NEW target, NEW bat, NEW field, NEW facts, NEW source, NEW n \in Nat, NEW s,
         Playable(pol, bat, field, facts, target), Sourced(source, bat, field),
         s \in ReplayStates(bat, field), Sound(s, pol, bat, field, facts),
         Settled(s, pol, target, facts)
  PROVE  LET r == Halt(s, n, source) IN
         /\ r \in ReplayStates(bat, field) /\ Good(r, pol, target, bat, field, facts)
         /\ r.applied = s.applied /\ r.halted = n /\ n # None
         /\ r.error = None
<1> DEFINE u == Len(source.deliveries) - Len(s.applied)
           r == [s EXCEPT !.life = "reconciliation_required", !.halted = n, !.error = None,
                          !.unreplayed = u]
<1>1. u \in Int
  <2>1. source.deliveries \in Seq(Facts(bat, field)) /\ s.applied \in Seq(Classes(bat))
    BY DEF Sourced, ReplayStates
  <2>2. Len(source.deliveries) \in Nat /\ Len(s.applied) \in Nat
    BY <2>1
  <2> QED BY <2>2
<1>2. Halt(s, n, source) = r
  BY DEF Halt
<1>3. n # None
  BY NoneAssumption
<1> HIDE DEF u
<1>4. /\ r \in ReplayStates(bat, field)
      /\ r.life = "reconciliation_required" /\ r.halted = n /\ r.error = None
      /\ r.reason = s.reason /\ r.target = s.target
  BY <1>1 DEF ReplayStates
<1>5. Untouched(s, r)
  BY DEF ReplayStates, Untouched, Ended
<1> HIDE DEF r
<1>6. Sound(r, pol, bat, field, facts)
  BY <1>5, UntouchedSound
<1>7. Settled(r, pol, target, facts)
  BY <1>3, <1>4, <1>5 DEF Settled, Untouched
<1>8. WicketLeft(r, pol)
  BY <1>4 DEF WicketLeft
<1> QED BY <1>2, <1>3, <1>4, <1>5, <1>6, <1>7, <1>8 DEF Good, Untouched

\* Who is out after a delivery.
LEMMA DeliveredHow ==
  ASSUME NEW pol, NEW bat, NEW field, NEW s, NEW r, NEW f, NEW c, bat \cap field = {},
         Delivers(s, r, f, c, pol, bat, field), NEW p \in bat \cup field, None \notin bat
  PROVE  /\ p = OutOf(f) /\ OutOf(f) # None => r.people[p].how # None
         /\ p # OutOf(f) => r.people[p].how = s.people[p].how
<1> DEFINE a == s.people[p]
           b == r.people[p]
           q == ScoredPerson(s, f, c, p)
<1>1. /\ a \in Persons /\ b = WicketPerson(f, p, q)
      /\ f.wicket # None => f.wicket.kind \in DismissalTypes /\ f.wicket.out \in bat
      /\ f \in Facts(bat, field)
  BY DEF Delivers, DeliveredFrom, PersonAfter, ReplayStates, Facts, Wickets
<1>2. q \in Persons /\ q.how = a.how
  <2>1. Credit(a, f, c) \in Persons /\ Debit(a, f, c) \in Persons
    BY <1>1, CreditTyped DEF Delivers
  <2>2. Credit(a, f, c).how = a.how /\ Debit(a, f, c).how = a.how
    BY <1>1 DEF Credit, Debit, Persons
  <2> HIDE DEF a
  <2>3. q \in {Credit(a, f, c), Debit(a, f, c), a}
    BY DEF ScoredPerson, a
  <2> HIDE DEF q
  <2> QED BY <1>1, <2>1, <2>2, <2>3
<1> HIDE DEF a, b, q
<1>3. CASE f.wicket = None
  BY <1>1, <1>2, <1>3 DEF WicketPerson, OutOf, a, b
<1>4. CASE f.wicket # None
  <2>1. LET r1 == WicketPerson(f, p, q) IN
         /\ r1 \in Persons /\ KeepsScore(q, r1)
         /\ p = f.wicket.out => /\ r1.how = f.wicket.kind
                                /\ r1.state \in {"dismissed", "retired_out"}
         /\ p # f.wicket.out => r1.how = q.how /\ r1.state = q.state
         /\ \E t \in Nat :
              /\ r1.dismissals = q.dismissals + t
              /\ r1.catches \in {q.catches, q.catches + t}
              /\ r1.stumpings \in {q.stumpings, q.stumpings + t}
              /\ r1.runOuts \in {q.runOuts, q.runOuts + t}
    BY <1>1, <1>2, <1>4, WicketPersonIs
  <2>2. OutOf(f) = f.wicket.out /\ f.wicket.kind # None
    BY <1>1, <1>4, NoneAssumption DEF OutOf
  <2> QED BY <1>1, <1>2, <2>1, <2>2 DEF a, b
<1> QED BY <1>3, <1>4

\* f is the next of the facts to apply to s.
IsNext(f, s, facts) ==
  Len(s.applied) + 1 \in 1 .. Len(facts) /\ f = facts[Len(s.applied) + 1]

LEMMA DeliveredGood ==
  ASSUME NEW pol, NEW target, NEW bat, NEW field, NEW facts, NEW s, NEW r, NEW f, NEW c,
         Playable(pol, bat, field, facts, target),
         Good(s, pol, target, bat, field, facts), s.life = "in_progress",
         IsNext(f, s, facts),
         Delivers(s, r, f, c, pol, bat, field), c.out = OutOf(f)
  PROVE  /\ Sound(r, pol, bat, field, facts) /\ Settled(r, pol, target, facts)
         /\ r.life = "in_progress" /\ r.halted = None
         /\ Len(r.applied) = Len(s.applied) + 1
<1>0. /\ bat \cap field = {} /\ IsFiniteSet(bat) /\ IsFiniteSet(field)
      /\ None \notin bat /\ None \notin field /\ facts \in Seq(Facts(bat, field))
      /\ pol.quota \in Nat \cup {None} /\ pol.noConsecutive \in BOOLEAN
      /\ pol.wickets \in Nat
      /\ Placed(s, pol) /\ Manned(s, bat, field) /\ Balances(s)
      /\ Ruled(s, pol, field, facts) /\ Bounded(s, bat, field)
  BY DEF Playable, Good, Sound
<1>1. Sound(r, pol, bat, field, facts)
  <2>1. Placed(r, pol)
    BY <1>0, DeliveredPlaced
  <2>2. Manned(r, bat, field)
    BY <1>0, DeliveredManned
  <2>3. Balances(r)
    BY <1>0, DeliveredBalanced
  <2>4. Ruled(r, pol, field, facts)
    BY <1>0, DeliveredRuled DEF IsNext
  <2>5. Bounded(r, bat, field)
    BY <1>0, DeliveredBounded
  <2> QED BY <2>1, <2>2, <2>3, <2>4, <2>5 DEF Sound
<1>2. /\ r.applied = Append(s.applied, c) /\ s.applied \in Seq(Classes(bat))
      /\ r.life = s.life /\ r.reason = s.reason /\ r.halted = s.halted /\ r.target = s.target
      /\ r.wickets = s.wickets + Fell(f) /\ s.wickets \in Nat
      /\ DOMAIN r.people = bat \cup field /\ DOMAIN s.people = bat \cup field
      /\ f.wicket = None \/ f.wicket.out \in bat
  BY DEF Delivers, DeliveredFrom, ReplayStates, Facts, Wickets
<1> DEFINE N == Len(s.applied)
<1>3. /\ N \in Nat /\ Len(r.applied) = N + 1 /\ r.applied[N + 1] = c
      /\ \A n \in 1 .. N : r.applied[n] = s.applied[n]
  BY <1>2
<1> HIDE DEF N
<1>4. \A n \in 1 .. Len(r.applied) : r.applied[n].out = OutOf(facts[n])
  <2> TAKE n \in 1 .. Len(r.applied)
  <2>1. CASE n = N + 1
    BY <1>3, <2>1 DEF N, IsNext
  <2>2. CASE n # N + 1
    <3>1. n \in 1 .. N
      BY <1>3, <2>2
    <3> QED BY <1>3, <3>1 DEF Good, Settled, N
  <2> QED BY <2>1, <2>2
<1>5. ASSUME NEW p \in DOMAIN r.people
      PROVE  r.people[p].how # None <=> \E n \in 1 .. Len(r.applied) : r.applied[n].out = p
  <2>1. p \in bat \cup field /\ p # None
    BY <1>0, <1>2, <1>5
  <2>2. s.people[p].how # None <=> \E n \in 1 .. N : s.applied[n].out = p
    BY <1>2, <2>1 DEF Good, Settled, N
  <2>3. /\ p = OutOf(f) /\ OutOf(f) # None => r.people[p].how # None
        /\ p # OutOf(f) => r.people[p].how = s.people[p].how
    BY <1>0, <2>1, DeliveredHow
  <2>4. (\E n \in 1 .. Len(r.applied) : r.applied[n].out = p)
          <=> (\E n \in 1 .. N : s.applied[n].out = p) \/ OutOf(f) = p
    <3>1. \A n : n \in 1 .. Len(r.applied) <=> n \in 1 .. N \/ n = N + 1
      BY <1>3
    <3> QED BY <1>3, <3>1
  <2> QED BY <2>1, <2>2, <2>3, <2>4
<1>6. "all_out" \in pol.modes => r.wickets <= pol.wickets
  <2>1. "all_out" \in pol.modes => s.wickets < pol.wickets
    BY DEF Good, WicketLeft
  <2>2. Fell(f) \in {0, 1}
    BY DEF Fell, Bool01
  <2> QED BY <1>0, <1>2, <2>1, <2>2
<1>7. r.reason # "target_reached"
  BY <1>2, NoneAssumption DEF Good, Settled, AutomaticModes
<1>8. Settled(r, pol, target, facts)
  BY <1>2, <1>4, <1>5, <1>6, <1>7 DEF Good, Settled
<1> QED BY <1>1, <1>2, <1>3, <1>8 DEF Good, Settled, N

\* What counting a delivery on s comes to.
CountedWell(r, s, pol, target, bat, field, facts) ==
  /\ r \in ReplayStates(bat, field)
  /\ r.error # None =>
        /\ Good(r, pol, target, bat, field, facts) /\ r.applied = s.applied
        /\ r.halted = None
  /\ r.error = None =>
        /\ Sound(r, pol, bat, field, facts) /\ Settled(r, pol, target, facts)
        /\ r.life = "in_progress" /\ r.halted = None
        /\ Len(r.applied) = Len(s.applied) + 1

\* An accepted delivery, of the code's checks alone.
LEMMA CountedGood ==
  ASSUME NEW pol, NEW target, NEW bat, NEW field, NEW facts, NEW s, NEW f, NEW n \in Nat,
         Playable(pol, bat, field, facts, target),
         s \in ReplayStates(bat, field), Good(s, pol, target, bat, field, facts),
         s.halted = None, s.error = None,
         IsNext(f, s, facts)
  PROVE  CountedWell(ApplyDelivery(s, f, n, pol, field), s, pol, target, bat, field, facts)
<1> DEFINE c == Classify(f, s.legal, pol.over)
           d == Delivered(s, f, c, n, pol)
           e(x) == [s EXCEPT !.error = x]
           r == ApplyDelivery(s, f, n, pol, field)
<1>0. /\ f \in Facts(bat, field) /\ s.legal \in Nat /\ pol.over \in Nat \ {0}
      /\ bat \cap field = {} /\ None \notin bat
  BY DEF Playable, ReplayStates, IsNext
<1>1. /\ c \in Classes(bat) /\ c.over = s.legal \div pol.over
      /\ c.total = f.bat + (f.wide + f.noBall + f.bye + f.legBye + f.penalty)
      /\ c.conceded = f.bat + f.wide + f.noBall
  <2> DEFINE L == s.legal
             V == pol.over
  <2>1. L \in Nat /\ V \in Nat \ {0}
    BY <1>0
  <2> HIDE DEF L, V
  <2>2. LET k == Classify(f, L, V) IN
         /\ k \in Classes(bat) /\ k.over = L \div V
         /\ k.total = f.bat + (f.wide + f.noBall + f.bye + f.legBye + f.penalty)
         /\ k.conceded = f.bat + f.wide + f.noBall
    BY <1>0, <2>1, ClassifyTyped, ZenonT(30)
  <2> QED BY <2>2 DEF L, V
<1>2. c.out = OutOf(f)
  BY DEF Classify, OutOf
<1>3. ASSUME NEW x \in {"conflict", "invalid"}
      PROVE  /\ e(x) \in ReplayStates(bat, field)
             /\ Good(e(x), pol, target, bat, field, facts) /\ e(x).applied = s.applied
             /\ e(x).halted = None /\ e(x).error # None
  <2>1. e(x) \in ReplayStates(bat, field) /\ Errs(s, e(x))
    BY ErrsIs
  <2> HIDE DEF e
  <2>2. Transits(s, e(x), pol, bat, field)
    BY <2>1 DEF Transits
  <2>3. Good(e(x), pol, target, bat, field, facts) /\ e(x).halted = None
    BY <2>1, <2>2, TransitGood
  <2> QED BY <2>1, <2>3, NoneAssumption DEF Errs, KeepsScorecard
<1>4. CASE \E x \in {"conflict", "invalid"} : r = e(x)
  <2> HIDE DEF r, e
  <2> QED BY <1>3, <1>4 DEF r, CountedWell
<1>5. CASE /\ Follows(s, f) /\ WicketFits(f, field, pol) /\ RunsFit(c.total, s.runs)
           /\ MayBowl(s, f, c, pol, field)
  <2>1. r = d
    BY <1>5 DEF ApplyDelivery, Counted, Delivered
  <2>2. s.life = "in_progress"
    BY <1>5 DEF Follows, Good, Settled, ReplayStates
  <2>3. Fitting(s, f)
    <3>1. f.striker # f.nonStriker
      BY <1>0, <1>5 DEF Follows, Good, Sound, Manned, Apart, Facts
    <3> QED BY <1>5, <3>1 DEF Fitting, Follows, WicketFits
  <2>4. OverFits(s, c)
    <3> HIDE DEF c
    <3> QED BY <1>0, <1>1, OverFitsPlaced DEF Good, Sound
  <2> HIDE DEF c
  <2>5. d \in ReplayStates(bat, field) /\ DeliveredFrom(s, d, f, c, pol, bat \cup field)
    BY <1>0, <1>1, <2>3, <2>4, DeliveredIs
  <2> HIDE DEF d
  <2>6. Delivers(s, d, f, c, pol, bat, field)
    BY <1>0, <1>1, <1>5, <2>3, <2>5 DEF Delivers
  <2>7. /\ Sound(d, pol, bat, field, facts) /\ Settled(d, pol, target, facts)
        /\ d.life = "in_progress" /\ d.halted = None
        /\ Len(d.applied) = Len(s.applied) + 1
    BY <1>2, <2>2, <2>6, DeliveredGood
  <2>8. d.error = None
    BY <2>5 DEF DeliveredFrom
  <2> HIDE DEF r
  <2> QED BY <2>1, <2>5, <2>7, <2>8 DEF r, CountedWell
<1>6. CASE ~(/\ Follows(s, f) /\ WicketFits(f, field, pol) /\ RunsFit(c.total, s.runs)
             /\ MayBowl(s, f, c, pol, field))
  <2>1. r = e("conflict") \/ r = e("invalid")
    BY <1>6 DEF ApplyDelivery, Counted, Conflict
  <2> HIDE DEF r, e
  <2> QED BY <1>4, <2>1
<1> QED BY <1>5, <1>6

\* A replay that neither failed nor stopped has counted every attempt.
Counts(s, i) ==
  /\ Len(s.applied) <= i
  /\ s.error = None /\ s.halted = None => Len(s.applied) = i

\* An attempt that neither fails nor stops is the same whatever is corrected.
Definite(r, s, i, pol, source) ==
  r.halted = None /\ ~Fails(r) => \A c : Attempt(s, i, pol, source, c) = r

\* Only a correction stops a replay.
Unstopped(r, s, corrected) == s.halted = None /\ corrected = None => r.halted = None

LEMMA AttemptGood ==
  ASSUME NEW pol, NEW target, NEW bat, NEW field, NEW source, NEW corrected, NEW s,
         NEW i \in 1 .. Len(source.deliveries),
         Playable(pol, bat, field, source.deliveries, target), Sourced(source, bat, field),
         s \in ReplayStates(bat, field),
         Good(s, pol, target, bat, field, source.deliveries), Counts(s, i - 1)
  PROVE  LET r == Attempt(s, i, pol, source, corrected) IN
         /\ r \in ReplayStates(bat, field)
         /\ Good(r, pol, target, bat, field, source.deliveries) /\ Counts(r, i)
         /\ Definite(r, s, i, pol, source) /\ Unstopped(r, s, corrected)
<1> DEFINE facts == source.deliveries
           r == Attempt(s, i, pol, source, corrected)
           f == facts[i]
           d == ApplyDelivery(s, f, i, pol, field)
           z == Complete(d, AutomaticCompletion(pol, d))
           y == AfterAttempt(z, i, pol, source)
           Fine(x) == /\ x \in ReplayStates(bat, field)
                      /\ Good(x, pol, target, bat, field, facts) /\ Counts(x, i)
<1>0. /\ facts \in Seq(Facts(bat, field)) /\ i \in Nat /\ i \in 1 .. Len(facts)
      /\ s.applied \in Seq(Classes(bat)) /\ Len(s.applied) \in Nat
      /\ source.fielders = field /\ source.deliveries[i] = f
      /\ Playable(pol, bat, field, facts, target) /\ Good(s, pol, target, bat, field, facts)
  BY DEF Playable, ReplayStates, Sourced
<1> HIDE DEF facts
<1>1. CASE Fails(s) \/ s.halted # None
  <2>1. r = s
    BY <1>1 DEF Attempt
  <2>2. Counts(s, i)
    BY <1>0, <1>1 DEF Fails, Counts
  <2>3. Definite(r, s, i, pol, source) /\ Unstopped(r, s, corrected)
    BY <1>1, <2>1 DEF Definite, Attempt, Unstopped
  <2> HIDE DEF r
  <2> QED BY <2>1, <2>2, <2>3 DEF r, facts
<1>2. CASE ~Fails(s) /\ s.halted = None
  <2>1. s.error = None /\ Len(s.applied) = i - 1
    BY <1>2 DEF Fails, Counts
  <2>2. IsNext(f, s, facts)
    <3>1. Len(s.applied) + 1 = i
      BY <1>0, <2>1
    <3> QED BY <1>0, <3>1 DEF IsNext
  <2>3. /\ d \in ReplayStates(bat, field)
        /\ d.error # None =>
              /\ Good(d, pol, target, bat, field, facts) /\ d.applied = s.applied
              /\ d.halted = None
        /\ d.error = None =>
              /\ Sound(d, pol, bat, field, facts) /\ Settled(d, pol, target, facts)
              /\ d.life = "in_progress" /\ d.halted = None
              /\ Len(d.applied) = Len(s.applied) + 1
    <3>1. CountedWell(d, s, pol, target, bat, field, facts)
      <4>1. i \in Nat /\ Playable(pol, bat, field, facts, target)
            /\ Good(s, pol, target, bat, field, facts)
        BY <1>0
      <4>2. s.halted = None /\ s.error = None /\ IsNext(f, s, facts)
        BY <1>2, <2>1, <2>2
      <4> HIDE DEF f
      <4> QED BY <4>1, <4>2, CountedGood
    <3> HIDE DEF d
    <3> QED BY <3>1 DEF CountedWell
  <2>4. r = AfterDelivery(s, d, i, pol, source, corrected)
    BY <1>0, <1>2 DEF Attempt
  <2> HIDE DEF d
  <2>5. CASE d.error # None
    <3> DEFINE h == Halt(s, i, source)
    <3>1. r = d \/ r = h
      BY <2>4, <2>5 DEF AfterDelivery, Fails
    <3>2. Fine(d)
      BY <1>0, <2>1, <2>3, <2>5 DEF Counts
    <3>3. /\ h \in ReplayStates(bat, field) /\ Good(h, pol, target, bat, field, facts)
          /\ h.applied = s.applied /\ h.halted = i /\ i # None /\ h.error = None
      BY <1>0, HaltGood DEF Good, facts
    <3> HIDE DEF h
    <3>4. Fine(h)
      BY <1>0, <2>1, <3>3 DEF Counts
    <3> HIDE DEF r
    <3>5. Definite(r, s, i, pol, source)
      BY <2>5, <3>1, <3>3 DEF Definite, Fails
    <3>6. corrected = None => r = d
      BY <2>4, <2>5 DEF AfterDelivery, Fails, Tolerated
    <3>7. Unstopped(r, s, corrected)
      BY <2>3, <2>5, <3>6 DEF Unstopped
    <3> QED BY <3>1, <3>2, <3>4, <3>5, <3>7 DEF r, facts
  <2>6. CASE d.error = None
    <3>0. pol.wickets \in Nat
      BY DEF Playable
    <3>1. z \in ReplayStates(bat, field) /\ Finishes(d, z, pol)
      BY <2>3, CompleteIs
    <3>2. z.reason = AutomaticCompletion(pol, d)
      BY <2>3 DEF Complete, ReplayStates
    <3> HIDE DEF z
    <3>3. Good(z, pol, target, bat, field, facts)
      BY <2>3, <2>6, <3>0, <3>1, <3>2, FinishesGood
    <3>4. z.halted = None /\ Len(z.applied) = i
      BY <1>0, <2>1, <2>3, <2>6, <3>1 DEF Finishes, KeepsScorecard
    <3>5. /\ y \in ReplayStates(bat, field) /\ Good(y, pol, target, bat, field, facts)
          /\ y.halted = None /\ y.applied = z.applied
      BY <3>1, <3>3, <3>4, AfterAttemptGood DEF facts
    <3> DEFINE h == Halt(y, i, source)
    <3>6. r = y \/ r = h
      BY <2>4, <2>6, NoneAssumption DEF AfterDelivery, Fails, AfterTransitions, z
    <3>11. corrected = None => r = y
      BY <2>4, <2>6, NoneAssumption DEF AfterDelivery, Fails, AfterTransitions, Tolerated, z
    <3> HIDE DEF y
    <3>7. /\ h \in ReplayStates(bat, field) /\ Good(h, pol, target, bat, field, facts)
          /\ h.applied = y.applied /\ h.halted = i /\ i # None /\ h.error = None
      BY <1>0, <3>5, HaltGood DEF Good, facts
    <3> HIDE DEF h
    <3>8. Fine(y) /\ Fine(h)
      BY <1>0, <3>4, <3>5, <3>7 DEF Counts
    <3>9. Definite(r, s, i, pol, source)
      <4>1. ASSUME NEW e
            PROVE  Attempt(s, i, pol, source, e) = AfterTransitions(y, i, source, e)
        BY <1>0, <1>2, <2>6, NoneAssumption DEF Attempt, AfterDelivery, Fails, y, z, d
      <4> HIDE DEF r
      <4>2. CASE r = y
        BY <4>1, <4>2 DEF Definite, AfterTransitions
      <4>3. CASE r = h
        BY <3>7, <4>3 DEF Definite
      <4> QED BY <3>6, <4>2, <4>3
    <3> HIDE DEF r
    <3>10. Unstopped(r, s, corrected)
      BY <3>5, <3>11 DEF Unstopped
    <3> QED BY <3>6, <3>8, <3>9, <3>10 DEF r, facts
  <2> QED BY <2>5, <2>6
<1> QED BY <1>1, <1>2 DEF Fails

Opened(s, pol, target, bat, field, facts) ==
  /\ s \in ReplayStates(bat, field) /\ Good(s, pol, target, bat, field, facts)
  /\ s.halted = None /\ s.error = None /\ s.life = "in_progress"
  /\ s.applied = <<>> /\ s.reason = None

LEMMA OpeningGood ==
  ASSUME NEW pol, NEW target, NEW bat, NEW field, NEW source,
         Playable(pol, bat, field, source.deliveries, target), Sourced(source, bat, field)
  PROVE  Opened(Opening(pol, bat, field, source.openers, target), pol, target, bat, field,
                source.deliveries)
<1> DEFINE o == source.openers
           s == Opening(pol, bat, field, o, target)
           facts == source.deliveries
<1>0. /\ bat \cap field = {} /\ IsFiniteSet(bat) /\ IsFiniteSet(field)
      /\ None \notin bat /\ None \notin field
      /\ pol.over \in Nat \ {0} /\ pol.quota \in Nat \cup {None}
      /\ pol.wickets \in Nat \ {0} /\ target \in Nat \cup {None}
      /\ o \in [striker : bat, nonStriker : bat, bowler : field]
      /\ o.striker # o.nonStriker
  BY DEF Playable, Sourced
<1>1. s \in ReplayStates(bat, field)
  <2> HIDE DEF o
  <2> QED BY <1>0, OpeningTyped
<1>2. Sound(s, pol, bat, field, facts)
  <2> HIDE DEF o, facts
  <2> QED BY <1>0, OpeningSound
<1>3. /\ s.life = "in_progress" /\ s.halted = None /\ s.reason = None /\ s.target = target
      /\ s.wickets = 0 /\ s.applied = <<>> /\ s.error = None
  BY DEF Opening
<1>4. \A p \in DOMAIN s.people : s.people[p].how = None
  BY DEF Opening, Unused
<1> HIDE DEF s, o, facts
<1>5. Settled(s, pol, target, facts)
  BY <1>0, <1>3, <1>4, NoneAssumption DEF Settled, AutomaticModes
<1>6. WicketLeft(s, pol)
  BY <1>0, <1>3 DEF WicketLeft
<1> QED BY <1>1, <1>2, <1>3, <1>5, <1>6 DEF Opened, Good, s, o, facts

\* Every replay of a typed source is good, whatever it was corrected from.
LEMMA ReplayGood ==
  ASSUME NEW pol, NEW target, NEW bat, NEW field, NEW source, NEW corrected,
         Playable(pol, bat, field, source.deliveries, target), Sourced(source, bat, field)
  PROVE  LET s == ReplayInnings(pol, source, target, corrected) IN
         /\ s \in ReplayStates(bat, field)
         /\ Good(s, pol, target, bat, field, source.deliveries)
         /\ Counts(s, Len(source.deliveries))
         /\ corrected = None => s.halted = None
<1> DEFINE facts == source.deliveries
           N == Len(facts)
           first == Opening(pol, bat, field, source.openers, target)
           Fine(x, i) == /\ x \in ReplayStates(bat, field)
                         /\ Good(x, pol, target, bat, field, facts) /\ Counts(x, i)
                         /\ (corrected = None => x.halted = None)
<1>0. /\ N \in Nat /\ DOMAIN source.deliveries = 1 .. N
      /\ source.batters = bat /\ source.fielders = field
  BY DEF Sourced
<1>1. PICK h : ReplayPath(h, pol, source, target, corrected, N)
  BY <1>0, ReplayInningsTrace
<1>2. Fine(h[0], 0)
  <2>1. /\ first \in ReplayStates(bat, field)
        /\ Good(first, pol, target, bat, field, facts)
        /\ first.halted = None /\ first.applied = <<>>
    BY OpeningGood DEF Opened
  <2>2. h[0] = AfterAttempt(first, 0, pol, source)
    BY <1>0, <1>1 DEF ReplayPath
  <2> HIDE DEF first
  <2>3. /\ h[0] \in ReplayStates(bat, field) /\ Good(h[0], pol, target, bat, field, facts)
        /\ h[0].applied = first.applied /\ h[0].halted = None
    BY <2>1, <2>2, AfterAttemptGood
  <2> QED BY <2>1, <2>3 DEF Counts
<1>3. ASSUME NEW i \in 1 .. N, Fine(h[i - 1], i - 1) PROVE Fine(h[i], i)
  <2> DEFINE a == h[i - 1]
  <2>1. h[i] = Attempt(a, i, pol, source, corrected)
    BY <1>1 DEF ReplayPath
  <2>2. /\ a \in ReplayStates(bat, field) /\ Good(a, pol, target, bat, field, facts)
        /\ Counts(a, i - 1) /\ (corrected = None => a.halted = None)
    BY <1>3
  <2> HIDE DEF a
  <2> QED BY <2>1, <2>2, AttemptGood DEF Unstopped
<1>4. Fine(h[N], N)
  <2> DEFINE P == {i \in 0 .. N : Fine(h[i], i)}
  <2> HIDE DEF N, Fine
  <2>1. 0 \in P
    BY <1>0, <1>2
  <2>2. ASSUME NEW i \in 1 .. N, i - 1 \in P PROVE i \in P
    <3>1. i \in 0 .. N
      BY <1>0
    <3> QED BY <1>3, <2>2, <3>1
  <2> HIDE DEF P
  <2>3. N \in P
    BY <1>0, <2>1, <2>2, ChainHolds
  <2> QED BY <2>3 DEF P
<1> QED BY <1>1, <1>4 DEF ReplayPath

\* Two replays of a source that succeed agree, whatever each was corrected from.
LEMMA ReplaysAgree ==
  ASSUME NEW pol, NEW target, NEW source, NEW c1, NEW c2, NEW N \in Nat,
         DOMAIN source.deliveries = 1 .. N,
         ~Fails(ReplayInnings(pol, source, target, c1)),
         ~Fails(ReplayInnings(pol, source, target, c2))
  PROVE  ReplayInnings(pol, source, target, c1) = ReplayInnings(pol, source, target, c2)
<1>1. PICK h : ReplayPath(h, pol, source, target, c1, N)
  BY ReplayInningsTrace
<1>2. PICK g : ReplayPath(g, pol, source, target, c2, N)
  BY ReplayInningsTrace
<1> DEFINE Agree(i) == h[i] = g[i] \/ Fails(h[i]) \/ Fails(g[i])
<1>3. Agree(0)
  BY <1>1, <1>2 DEF ReplayPath
<1>4. ASSUME NEW i \in 1 .. N, Agree(i - 1) PROVE Agree(i)
  <2>1. /\ h[i] = Attempt(h[i - 1], i, pol, source, c1)
        /\ g[i] = Attempt(g[i - 1], i, pol, source, c2)
    BY <1>1, <1>2 DEF ReplayPath
  <2>2. CASE Fails(h[i - 1])
    BY <2>1, <2>2 DEF Attempt
  <2>3. CASE Fails(g[i - 1])
    BY <2>1, <2>3 DEF Attempt
  <2>4. CASE h[i - 1] = g[i - 1] /\ ~Fails(h[i - 1])
    <3> DEFINE s == h[i - 1]
               d == ApplyDelivery(s, source.deliveries[i], i, pol, source.fielders)
               y == AfterAttempt(Complete(d, AutomaticCompletion(pol, d)), i, pol, source)
    <3>1. CASE s.halted # None
      BY <2>1, <2>4, <3>1 DEF Attempt
    <3>2. CASE s.halted = None
      <4>1. /\ h[i] = AfterDelivery(s, d, i, pol, source, c1)
            /\ g[i] = AfterDelivery(s, d, i, pol, source, c2)
        BY <2>1, <2>4, <3>2 DEF Attempt
      <4>2. CASE d.error = "conflict"
        <5>1. Fails(d)
          BY <4>2, NoneAssumption DEF Fails
        <5> HIDE DEF d, s
        <5> QED BY <4>1, <4>2, <5>1 DEF AfterDelivery
      <4>3. CASE d.error # "conflict"
        <5> HIDE DEF s
        <5>1. CASE Fails(d)
          BY <4>1, <4>3, <5>1 DEF AfterDelivery
        <5>2. CASE ~Fails(d)
          <6>1. /\ h[i] = AfterTransitions(y, i, source, c1)
                /\ g[i] = AfterTransitions(y, i, source, c2)
            BY <4>1, <4>3, <5>2 DEF AfterDelivery
          <6> HIDE DEF y
          <6> QED BY <6>1 DEF AfterTransitions
        <5> QED BY <5>1, <5>2
      <4> QED BY <4>2, <4>3
    <3> QED BY <3>1, <3>2
  <2> QED BY <1>4, <2>2, <2>3, <2>4
<1>5. Agree(N)
  <2> DEFINE P == {i \in 0 .. N : Agree(i)}
  <2> HIDE DEF Agree
  <2>1. 0 \in P
    BY <1>3
  <2>2. ASSUME NEW i \in 1 .. N, i - 1 \in P PROVE i \in P
    BY <1>4, <2>2
  <2> HIDE DEF P
  <2>3. N \in P
    BY <2>1, <2>2, ChainHolds
  <2> QED BY <2>3 DEF P
<1>6. /\ h[N] = ReplayInnings(pol, source, target, c1)
      /\ g[N] = ReplayInnings(pol, source, target, c2)
  BY <1>1, <1>2 DEF ReplayPath
<1> QED BY <1>5, <1>6


\* A source is a row of these.
SourceRows(bat, field) ==
  [side : Sides, batters : {bat}, fielders : {field},
   openers : {o \in [striker : bat, nonStriker : bat, bowler : field] :
                o.striker # o.nonStriker},
   deliveries : Seq(Facts(bat, field)), transitions : Seq(Transitions(bat, field))]

LEMMA SourceRowSourced ==
  ASSUME NEW bat, NEW field, NEW source \in SourceRows(bat, field)
  PROVE  Sourced(source, bat, field)
<1> DEFINE O == {o \in [striker : bat, nonStriker : bat, bowler : field] :
                o.striker # o.nonStriker}
           F == Facts(bat, field)
           T == Transitions(bat, field)
<1>1. source \in [side : Sides, batters : {bat}, fielders : {field}, openers : O,
                  deliveries : Seq(F), transitions : Seq(T)]
  BY DEF SourceRows
<1>2. \A o \in O : o \in [striker : bat, nonStriker : bat, bowler : field]
                     /\ o.striker # o.nonStriker
  OBVIOUS
<1> HIDE DEF O, F, T
<1>3. /\ source.batters = bat /\ source.fielders = field /\ source.openers \in O
      /\ source.deliveries \in Seq(F) /\ source.transitions \in Seq(T)
  BY <1>1
<1> QED BY <1>2, <1>3 DEF Sourced, F, T

\* Without deliveries and transitions a replay is its opening.
LEMMA UnplayedIs ==
  ASSUME NEW pol, NEW bat, NEW field, NEW source \in SourceRows(bat, field), NEW target, NEW c
  PROVE  /\ Unplayed(source) \in SourceRows(bat, field)
         /\ Unplayed(source).deliveries = <<>>
         /\ Unplayed(source).openers = source.openers
         /\ ReplayInnings(pol, Unplayed(source), target, c)
              = Opening(pol, bat, field, source.openers, target)
<1> DEFINE O == {o \in [striker : bat, nonStriker : bat, bowler : field] :
                o.striker # o.nonStriker}
           F == Facts(bat, field)
           T == Transitions(bat, field)
           u == Unplayed(source)
           s == Opening(pol, bat, field, source.openers, target)
<1>1. source \in [side : Sides, batters : {bat}, fielders : {field}, openers : O,
                  deliveries : Seq(F), transitions : Seq(T)]
  BY DEF SourceRows
<1> HIDE DEF O, F, T
<1>2. /\ u \in [side : Sides, batters : {bat}, fielders : {field}, openers : O,
                  deliveries : Seq(F), transitions : Seq(T)]
      /\ u.deliveries = <<>> /\ u.transitions = <<>> /\ u.openers = source.openers
      /\ u.batters = bat /\ u.fielders = field
  <2> DEFINE d == <<>>
             e == <<>>
  <2>1. d \in Seq(F) /\ e \in Seq(T)
    OBVIOUS
  <2>2. u = [source EXCEPT !.deliveries = d, !.transitions = e]
    BY DEF Unplayed
  <2> HIDE DEF d, e, u
  <2>3. /\ u \in [side : Sides, batters : {bat}, fielders : {field}, openers : O,
                  deliveries : Seq(F), transitions : Seq(T)]
        /\ u.deliveries = d /\ u.transitions = e /\ u.openers = source.openers
    BY <1>1, <2>1, <2>2
  <2>4. u.batters = bat /\ u.fielders = field
    BY <2>3
  <2> QED BY <2>3, <2>4 DEF d, e
<1> HIDE DEF u
<1>3. DOMAIN u.deliveries = 1 .. 0 /\ DOMAIN u.transitions = 1 .. 0 /\ 0 \in Nat
  BY <1>2
<1>4. PICK h : ReplayPath(h, pol, u, target, c, 0)
  BY <1>3, ReplayInningsTrace
<1>5. PICK g : AttemptPath(g, s, 0, pol, u, 0)
  BY <1>3, AfterAttemptTrace
<1> HIDE DEF s
<1>6. AfterAttempt(s, 0, pol, u) = s
  BY <1>5 DEF AttemptPath
<1>7. ReplayInnings(pol, u, target, c) = AfterAttempt(s, 0, pol, u)
  BY <1>2, <1>4 DEF ReplayPath, s
<1> QED BY <1>2, <1>6, <1>7 DEF u, s, SourceRows, O, F, T

\* An innings is played by the sides of its row.
Sided(source, pol, A, B) ==
  LET bat   == source.batters
      field == source.fielders IN
  /\ source \in SourceRows(bat, field)
  /\ Playable(pol, bat, field, source.deliveries, None)
  /\ \/ bat = A /\ field = B
     \/ bat = B /\ field = A

LEMMA SidedPlayable ==
  ASSUME NEW source, NEW pol, NEW A, NEW B, Sided(source, pol, A, B),
         NEW target \in Nat \cup {None}
  PROVE  /\ Sourced(source, source.batters, source.fielders)
         /\ Playable(pol, source.batters, source.fielders, source.deliveries, target)
<1>1. Sourced(source, source.batters, source.fielders)
  BY SourceRowSourced DEF Sided
<1> QED BY <1>1 DEF Sided, Playable

\* An innings that follows an unfinished one keeps its openers alone.
LEMMA NotReplayedGood ==
  ASSUME NEW source, NEW pol, NEW A, NEW B, Sided(source, pol, A, B), NEW c
  PROVE  LET bat   == source.batters
             field == source.fielders
             r == NotReplayed(ReplayInnings(pol, Unplayed(source), None, c), source) IN
         /\ r \in ReplayStates(bat, field)
         /\ Good(r, pol, None, bat, field, source.deliveries)
         /\ r.error = None /\ r.life = "reconciliation_required" /\ r.applied = <<>>
         /\ r = NotReplayed(Opening(pol, bat, field, source.openers, None), source)
<1> DEFINE bat   == source.batters
           field == source.fielders
           facts == source.deliveries
           o == source.openers
           s == Opening(pol, bat, field, o, None)
           r == NotReplayed(s, source)
           n == Len(source.deliveries)
<1>1. /\ source \in SourceRows(bat, field) /\ Sourced(source, bat, field)
      /\ Playable(pol, bat, field, facts, None)
  <2>1. Sourced(source, bat, field) /\ Playable(pol, bat, field, facts, None)
    BY SidedPlayable
  <2> QED BY <2>1 DEF Sided
<1>2. /\ s \in ReplayStates(bat, field) /\ Good(s, pol, None, bat, field, facts)
      /\ s.error = None /\ s.applied = <<>> /\ s.reason = None
  <2> HIDE DEF bat, field
  <2>1. Opened(Opening(pol, bat, field, source.openers, None), pol, None, bat, field,
               source.deliveries)
    BY <1>1, OpeningGood
  <2> QED BY <2>1 DEF Opened
<1>3. ReplayInnings(pol, Unplayed(source), None, c) = s
  <2> HIDE DEF bat, field
  <2> QED BY <1>1, UnplayedIs
<1> DEFINE zero == 0
<1>4. n \in Int /\ zero # None /\ zero \in Nat
  BY <1>1, NoneAssumption DEF Playable
<1> HIDE DEF s, bat, field, facts, n, o, zero
<1>5. r = [s EXCEPT !.life = "reconciliation_required", !.halted = zero, !.unreplayed = n]
  BY DEF NotReplayed, n, zero
<1> DEFINE q == [s EXCEPT !.life = "reconciliation_required", !.halted = zero, !.unreplayed = n]
<1>6. /\ q \in ReplayStates(bat, field)
      /\ q.life = "reconciliation_required" /\ q.halted = zero /\ q.error = s.error
      /\ q.reason = s.reason /\ q.target = s.target /\ q.applied = s.applied
  <2>1. s \in ReplayStates(bat, field)
    BY <1>2
  <2>2. q \in ReplayStates(bat, field)
    BY <1>4, <2>1 DEF ReplayStates
  <2> QED BY <2>1, <2>2 DEF ReplayStates
<1>7. Untouched(s, q)
  BY <1>2 DEF ReplayStates, Untouched, Ended
<1> HIDE DEF q
<1>8. Sound(q, pol, bat, field, facts)
  BY <1>2, <1>7, UntouchedSound DEF Good
<1>9. Settled(q, pol, None, facts) /\ WicketLeft(q, pol)
  BY <1>2, <1>4, <1>6, <1>7, NoneAssumption DEF Good, Settled, Untouched, WicketLeft
<1>10. r = q
  BY <1>5 DEF q
<1>11. /\ r \in ReplayStates(bat, field) /\ Good(r, pol, None, bat, field, facts)
       /\ r.error = None /\ r.life = "reconciliation_required" /\ r.applied = <<>>
  BY <1>2, <1>6, <1>8, <1>9, <1>10 DEF Good
<1> HIDE DEF r
<1>12. NotReplayed(ReplayInnings(pol, Unplayed(source), None, c), source) = r
  BY <1>3 DEF r
<1> QED BY <1>11, <1>12 DEF s, r, bat, field, facts, o

-----------------------------------------------------------------------------
(* The innings of a match.                                                 *)

\* Every innings before the i-th has ended.
PlayedBefore(states, i) == \A j \in 1 .. (i - 1) : states[j].life = "completed"

\* What the i-th innings is, its attempts corrected from c on.
StepOf(pol, source, states, i, c) ==
  IF PlayedBefore(states, i) THEN ReplayInnings(pol, source, Target(pol, i, states), c)
  ELSE NotReplayed(ReplayInnings(pol, Unplayed(source), None, c), source)

\* The target of the i-th innings.
TargetOf(pol, states, i) == IF PlayedBefore(states, i) THEN Target(pol, i, states) ELSE None

LEMMA StepOfPrefix ==
  ASSUME NEW pol, NEW source, NEW states, NEW others, NEW i \in Nat \ {0}, NEW c,
         \A j \in 1 .. (i - 1) : others[j] = states[j]
  PROVE  /\ StepOf(pol, source, others, i, c) = StepOf(pol, source, states, i, c)
         /\ TargetOf(pol, others, i) = TargetOf(pol, states, i)
<1>1. PlayedBefore(others, i) <=> PlayedBefore(states, i)
  BY DEF PlayedBefore
<1>2. Target(pol, i, others) = Target(pol, i, states)
  <2>1. CASE i = 2
    <3>1. others[1] = states[1]
      BY <2>1
    <3> QED BY <3>1 DEF Target
  <2>2. CASE i # 2
    BY <2>2 DEF Target
  <2> QED BY <2>1, <2>2
<1> QED BY <1>1, <1>2 DEF StepOf, TargetOf

\* The i-th state of a match is one of these.
StatesOf(A, B) == ReplayStates(A, B) \cup ReplayStates(B, A)

\* What a step of a replayed match is, whatever it is corrected from.
Stepped(s, pol, source, target) ==
  /\ s \in ReplayStates(source.batters, source.fielders)
  /\ Good(s, pol, target, source.batters, source.fielders, source.deliveries)
  /\ Counts(s, Len(source.deliveries))

LEMMA StepGood ==
  ASSUME NEW pol, NEW A, NEW B, NEW source, Sided(source, pol, A, B), NEW states,
         NEW i \in Nat \ {0}, NEW c, \A j \in 1 .. (i - 1) : states[j] \in StatesOf(A, B)
  PROVE  /\ Stepped(StepOf(pol, source, states, i, c), pol, source, TargetOf(pol, states, i))
         /\ StepOf(pol, source, states, i, c) \in StatesOf(A, B)
         /\ TargetOf(pol, states, i) \in Nat \cup {None}
<1> DEFINE bat == source.batters
           field == source.fielders
           t == TargetOf(pol, states, i)
           s == StepOf(pol, source, states, i, c)
<1>1. Target(pol, i, states) \in Nat \cup {None}
  <2>1. CASE i = 2
    <3>1. states[1] \in StatesOf(A, B)
      BY <2>1
    <3>2. states[1].runs \in Nat
      BY <3>1 DEF StatesOf, ReplayStates
    <3> QED BY <3>2 DEF Target
  <2>2. CASE i # 2
    BY <2>2 DEF Target
  <2> QED BY <2>1, <2>2
<1>2. t \in Nat \cup {None}
  BY <1>1 DEF TargetOf
<1>3. Stepped(s, pol, source, t)
  <2>1. CASE PlayedBefore(states, i)
    <3>1. s = ReplayInnings(pol, source, t, c)
      BY <2>1 DEF StepOf, TargetOf
    <3> HIDE DEF t, s, bat, field
    <3>2. Sourced(source, bat, field) /\ Playable(pol, bat, field, source.deliveries, t)
      BY <1>2, SidedPlayable DEF bat, field
    <3>3. /\ s \in ReplayStates(bat, field)
          /\ Good(s, pol, t, bat, field, source.deliveries)
          /\ Counts(s, Len(source.deliveries))
      BY <3>1, <3>2, ReplayGood
    <3> QED BY <3>3 DEF Stepped, bat, field
  <2>2. CASE ~PlayedBefore(states, i)
    <3>1. s = NotReplayed(ReplayInnings(pol, Unplayed(source), None, c), source) /\ t = None
      BY <2>2 DEF StepOf, TargetOf
    <3> HIDE DEF s, t
    <3>2. /\ s \in ReplayStates(bat, field) /\ Good(s, pol, None, bat, field, source.deliveries)
          /\ s.error = None /\ s.life = "reconciliation_required" /\ s.applied = <<>>
      BY <3>1, NotReplayedGood
    <3>3. Len(source.deliveries) \in Nat
      BY DEF Sided, Playable
    <3>4. s.halted # None
      BY <3>2 DEF Good, Settled
    <3>5. Counts(s, Len(source.deliveries))
      BY <3>2, <3>3, <3>4 DEF Counts
    <3> QED BY <3>1, <3>2, <3>5 DEF Stepped
  <2> QED BY <2>1, <2>2
<1> HIDE DEF s, t
<1>4. s \in StatesOf(A, B)
  BY <1>3 DEF Stepped, StatesOf, Sided
<1> QED BY <1>2, <1>3, <1>4 DEF s, t

\* A replayed match has one state for each innings, that its step gives.
IsReplay(states, pol, sources, k, n, N) ==
  /\ Len(states) = N
  /\ \A i \in 1 .. N :
       states[i] = StepOf(pol, sources[i], states, i, CorrectedFrom(i, k, n))

LEMMA MatchReplayed ==
  ASSUME NEW pol, NEW A, NEW B, NEW sources, NEW k, NEW n, NEW N \in Nat,
         DOMAIN sources = 1 .. N, \A i \in 1 .. N : Sided(sources[i], pol, A, B)
  PROVE  /\ ReplayMatch(pol, sources, k, n) \in Seq(StatesOf(A, B))
         /\ IsReplay(ReplayMatch(pol, sources, k, n), pol, sources, k, n, N)
<1>1. PICK h : MatchPath(h, pol, sources, k, n, N)
  BY ReplayMatchTrace
<1> DEFINE Fine(i) == h[i] \in Seq(StatesOf(A, B)) /\ IsReplay(h[i], pol, sources, k, n, i)
<1>2. Fine(0)
  BY <1>1 DEF MatchPath, IsReplay
<1>3. ASSUME NEW i \in 1 .. N, Fine(i - 1) PROVE Fine(i)
  <2> DEFINE a == h[i - 1]
             b == h[i]
             c == CorrectedFrom(i, k, n)
             x == StepOf(pol, sources[i], a, i, c)
  <2>1. /\ a \in Seq(StatesOf(A, B)) /\ Len(a) = i - 1
        /\ \A j \in 1 .. (i - 1) :
             a[j] = StepOf(pol, sources[j], a, j, CorrectedFrom(j, k, n))
    BY <1>3 DEF IsReplay
  <2>2. b = ReplayNext(a, pol, sources[i], c)
    BY <1>1 DEF MatchPath
  <2> HIDE DEF a, b, c
  <2>3. DOMAIN a = 1 .. (i - 1) /\ Len(a) + 1 = i
    BY <2>1
  <2>4. b = Append(a, x)
    BY <2>2, <2>3 DEF ReplayNext, StepOf, PlayedBefore
  <2>5. x \in StatesOf(A, B)
    <3>1. \A j \in 1 .. (i - 1) : a[j] \in StatesOf(A, B)
      BY <2>1
    <3>2. i \in Nat \ {0} /\ Sided(sources[i], pol, A, B)
      OBVIOUS
    <3> QED BY <3>1, <3>2, StepGood
  <2> HIDE DEF x
  <2>6. /\ b \in Seq(StatesOf(A, B)) /\ Len(b) = i /\ b[i] = x
        /\ \A j \in 1 .. (i - 1) : b[j] = a[j]
    <3> DEFINE S == StatesOf(A, B)
    <3> HIDE DEF S
    <3>1. a \in Seq(S) /\ x \in S
      BY <2>1, <2>5 DEF S
    <3>2. Len(a) = i - 1
      BY <2>1
    <3>3. b \in Seq(S) /\ Len(b) = i /\ b[i] = x /\ \A j \in 1 .. (i - 1) : b[j] = a[j]
      BY <2>4, <3>1, <3>2
    <3> QED BY <3>3 DEF S
  <2>7. ASSUME NEW j \in 1 .. i
        PROVE  b[j] = StepOf(pol, sources[j], b, j, CorrectedFrom(j, k, n))
    <3>1. \A m \in 1 .. (j - 1) : b[m] = a[m]
      BY <2>6
    <3>2. j \in Nat \ {0}
      OBVIOUS
    <3>3. StepOf(pol, sources[j], b, j, CorrectedFrom(j, k, n))
            = StepOf(pol, sources[j], a, j, CorrectedFrom(j, k, n))
      BY <3>1, <3>2, StepOfPrefix
    <3>4. CASE j = i
      BY <2>6, <3>3, <3>4 DEF x, c
    <3>5. CASE j # i
      <4>1. j \in 1 .. (i - 1)
        BY <3>5
      <4> QED BY <2>1, <2>6, <3>3, <4>1
    <3> QED BY <3>4, <3>5
  <2> QED BY <2>6, <2>7 DEF IsReplay, b
<1>4. Fine(N)
  <2> DEFINE P == {i \in 0 .. N : Fine(i)}
  <2> HIDE DEF Fine
  <2>1. 0 \in P
    BY <1>2
  <2>2. ASSUME NEW i \in 1 .. N, i - 1 \in P PROVE i \in P
    BY <1>3, <2>2
  <2> HIDE DEF P
  <2>3. N \in P
    BY <2>1, <2>2, ChainHolds
  <2> QED BY <2>3 DEF P
<1> QED BY <1>1, <1>4 DEF MatchPath

\* A replay that neither fails nor stops is the same whatever is corrected.
LEMMA UnhaltedAgree ==
  ASSUME NEW pol, NEW target, NEW bat, NEW field, NEW source, NEW c1, NEW c2,
         Playable(pol, bat, field, source.deliveries, target), Sourced(source, bat, field),
         ~Fails(ReplayInnings(pol, source, target, c1)),
         ReplayInnings(pol, source, target, c1).halted = None
  PROVE  ReplayInnings(pol, source, target, c2) = ReplayInnings(pol, source, target, c1)
<1> DEFINE facts == source.deliveries
           N == Len(facts)
           first == Opening(pol, bat, field, source.openers, target)
           Fine(x, i) == /\ x \in ReplayStates(bat, field)
                         /\ Good(x, pol, target, bat, field, facts) /\ Counts(x, i)
           Clean(x) == ~Fails(x) /\ x.halted = None
<1>0. /\ N \in Nat /\ DOMAIN source.deliveries = 1 .. N
      /\ source.batters = bat /\ source.fielders = field
  BY DEF Sourced
<1>1. PICK h : ReplayPath(h, pol, source, target, c1, N)
  BY <1>0, ReplayInningsTrace
<1>2. PICK g : ReplayPath(g, pol, source, target, c2, N)
  BY <1>0, ReplayInningsTrace
<1>3. Fine(h[0], 0) /\ h[0] = g[0]
  <2>1. /\ first \in ReplayStates(bat, field)
        /\ Good(first, pol, target, bat, field, facts)
        /\ first.halted = None /\ first.applied = <<>>
    BY OpeningGood DEF Opened
  <2>2. h[0] = AfterAttempt(first, 0, pol, source) /\ g[0] = h[0]
    BY <1>0, <1>1, <1>2 DEF ReplayPath
  <2> HIDE DEF first
  <2>3. /\ h[0] \in ReplayStates(bat, field) /\ Good(h[0], pol, target, bat, field, facts)
        /\ h[0].applied = first.applied
    BY <2>1, <2>2, AfterAttemptGood
  <2> QED BY <2>1, <2>2, <2>3 DEF Counts
<1> DEFINE Agree(i) == Fine(h[i], i) /\ (Clean(h[i]) => g[i] = h[i])
<1>4. ASSUME NEW i \in 1 .. N, Agree(i - 1) PROVE Agree(i)
  <2> DEFINE a == h[i - 1]
             b == h[i]
  <2>1. b = Attempt(a, i, pol, source, c1) /\ g[i] = Attempt(g[i - 1], i, pol, source, c2)
    BY <1>1, <1>2 DEF ReplayPath
  <2>2. /\ a \in ReplayStates(bat, field) /\ Good(a, pol, target, bat, field, facts)
        /\ Counts(a, i - 1) /\ (Clean(a) => g[i - 1] = a)
    BY <1>4
  <2> HIDE DEF a, b
  <2>3. /\ Fine(b, i) /\ Definite(b, a, i, pol, source)
    BY <2>1, <2>2, AttemptGood
  <2>4. Clean(b) => Clean(a)
    BY <2>1 DEF Attempt
  <2>5. Clean(b) => g[i] = b
    BY <2>1, <2>2, <2>3, <2>4 DEF Definite
  <2> QED BY <2>3, <2>5 DEF b
<1>5. Agree(N)
  <2> DEFINE P == {i \in 0 .. N : Agree(i)}
  <2> HIDE DEF N, Agree
  <2>1. 0 \in P
    BY <1>0, <1>3 DEF Agree
  <2>2. ASSUME NEW i \in 1 .. N, i - 1 \in P PROVE i \in P
    <3>1. i \in 0 .. N
      BY <1>0
    <3> QED BY <1>4, <2>2, <3>1
  <2> HIDE DEF P
  <2>3. N \in P
    BY <1>0, <2>1, <2>2, ChainHolds
  <2> QED BY <2>3 DEF P
<1> QED BY <1>1, <1>2, <1>5 DEF ReplayPath
-----------------------------------------------------------------------------
(* What lets a live innings go on: the bowlers, the vacant ends, the balls.  *)

\* The bowler did not bowl the over before, and had balls left when this one began.
Rested(s, pol) ==
  s.bowler # None =>
    /\ pol.noConsecutive => s.bowler # PreviousBowler(s, s.legal \div pol.over)
    /\ pol.quota # None => s.people[s.bowler].bowled < pol.quota + (s.legal % pol.over)

InOver(s, pol, p) == IF p = s.bowler THEN s.legal % pol.over ELSE 0

\* Bowlers bowl whole overs, but for the one in progress.
WholeOvers(s, pol, field) ==
  \A p \in field : \E m \in Nat : s.people[p].bowled = (pol.over * m) + InOver(s, pol, p)

\* For a vacant end somebody left, and for two vacant ends one may return.
Vacancies(s, bat) ==
  /\ None \in Ended(s) => \E p \in bat : s.people[p].state \in Out \cup {"retired_hurt"}
  /\ Ended(s) = {None} =>
       \E p, q \in bat : /\ p # q /\ s.people[p].state \in Out \cup {"retired_hurt"}
                         /\ s.people[q].state = "retired_hurt"

\* A live innings has a ball left, where balls end it.
BallsLeft(s, pol) ==
  "legal_ball_limit" \in pol.modes /\ pol.limit # None /\ s.life = "in_progress" =>
    s.legal < pol.limit

Onward(s, pol, bat, field) ==
  /\ Rested(s, pol) /\ WholeOvers(s, pol, field) /\ Vacancies(s, bat) /\ BallsLeft(s, pol)

\* A capability under which an innings can begin: its numbers are not zero.
Generous(pol) ==
  pol.quota \in (Nat \ {0}) \cup {None} /\ pol.limit \in (Nat \ {0}) \cup {None}

LEMMA OpeningOnward ==
  ASSUME NEW pol, NEW bat, NEW field, NEW openers, NEW target,
         openers \in [striker : bat, nonStriker : bat, bowler : field],
         bat \cap field = {}, None \notin bat, None \notin field,
         pol.over \in Nat \ {0}, Generous(pol)
  PROVE  Onward(Opening(pol, bat, field, openers, target), pol, bat, field)
<1> DEFINE s == Opening(pol, bat, field, openers, target)
<1>1. /\ s.striker = openers.striker /\ s.nonStriker = openers.nonStriker
      /\ s.bowler = openers.bowler /\ s.legal = 0 /\ s.overs = <<>>
      /\ \A p \in bat \cup field : s.people[p].bowled = 0
  BY DEF Opening, Unused
<1> HIDE DEF s
<1>2. openers.striker \in bat /\ openers.nonStriker \in bat /\ openers.bowler \in field
  OBVIOUS
<1>3. 0 \div pol.over \in Nat /\ 0 % pol.over = 0
  <2> DEFINE n == pol.over
             a == 0 \div n
             b == 0 % n
  <2>1. a \in Nat /\ b \in 0 .. (n - 1) /\ 0 = (n * a) + b
    BY Divided
  <2>2. n \in Nat \ {0} /\ 0 \in Nat /\ 0 \in 0 .. (n - 1) /\ (n * a) + b = (n * 0) + 0
    BY <2>1
  <2> HIDE DEF n, a, b
  <2>3. b = 0
    BY <2>1, <2>2, DividedOnce
  <2> QED BY <2>1, <2>3 DEF n, a, b
<1>4. Rested(s, pol)
  <2>1. PreviousBowler(s, s.legal \div pol.over) = None
    BY <1>1 DEF PreviousBowler
  <2>2. pol.quota # None => s.people[s.bowler].bowled < pol.quota + (s.legal % pol.over)
    <3>1. s.people[s.bowler].bowled = 0 /\ s.legal % pol.over = 0
      BY <1>1, <1>2, <1>3
    <3>2. pol.quota # None => pol.quota \in Nat /\ 0 < pol.quota
      BY DEF Generous
    <3> QED BY <3>1, <3>2
  <2> QED BY <1>1, <1>2, <2>1, <2>2 DEF Rested
<1>5. WholeOvers(s, pol, field)
  <2>1. ASSUME NEW p \in field
        PROVE  s.people[p].bowled = (pol.over * 0) + InOver(s, pol, p)
    <3>1. InOver(s, pol, p) = 0 /\ s.people[p].bowled = 0
      BY <1>1, <1>3 DEF InOver
    <3> QED BY <3>1
  <2> QED BY <2>1 DEF WholeOvers
<1>6. Vacancies(s, bat)
  BY <1>1, <1>2 DEF Vacancies, Ended
<1>7. BallsLeft(s, pol)
  <2>1. pol.limit # None => pol.limit \in Nat /\ 0 < pol.limit
    BY DEF Generous
  <2> QED BY <1>1, <2>1 DEF BallsLeft
<1> QED BY <1>4, <1>5, <1>6, <1>7 DEF Onward, s

\* What none of this looks at may change.
LEMMA OnwardKept ==
  ASSUME NEW pol, NEW bat, NEW field, NEW s, NEW r, Onward(s, pol, bat, field),
         r.bowler = s.bowler, r.overs = s.overs, r.legal = s.legal, r.people = s.people,
         Ended(r) = Ended(s), r.life = "in_progress" => s.life = "in_progress"
  PROVE  Onward(r, pol, bat, field)
<1>1. Rested(r, pol)
  BY DEF Onward, Rested, PreviousBowler
<1>2. WholeOvers(r, pol, field)
  BY DEF Onward, WholeOvers, InOver
<1>3. Vacancies(r, bat)
  BY DEF Onward, Vacancies
<1>4. BallsLeft(r, pol)
  BY DEF Onward, BallsLeft
<1> QED BY <1>1, <1>2, <1>3, <1>4 DEF Onward

LEMMA TransitOnward ==
  ASSUME NEW pol, NEW bat, NEW field, NEW s, NEW r,
         s \in ReplayStates(bat, field), r \in ReplayStates(bat, field),
         bat \cap field = {}, None \notin bat, None \notin field,
         Manned(s, bat, field), Onward(s, pol, bat, field), Generous(pol),
         Transits(s, r, pol, bat, field)
  PROVE  Onward(r, pol, bat, field)
<1>1. CASE r = s
  BY <1>1
<1>2. CASE Errs(s, r)
  <2>1. /\ r.bowler = s.bowler /\ r.overs = s.overs /\ r.legal = s.legal
        /\ r.people = s.people /\ Ended(r) = Ended(s) /\ r.life = s.life
    BY <1>2 DEF Errs, KeepsScorecard
  <2> QED BY <2>1, OnwardKept
<1>3. CASE s.life # "completed" /\ Finishes(s, r, pol)
  <2>1. /\ r.bowler = s.bowler /\ r.overs = s.overs /\ r.legal = s.legal
        /\ r.people = s.people /\ Ended(r) = Ended(s)
        /\ (r.life = "in_progress" => s.life = "in_progress")
    BY <1>3 DEF Finishes, KeepsScorecard
  <2> QED BY <2>1, OnwardKept
<1>4. CASE BowlerChosen(s, r, pol, field)
  <2>1. /\ r.overs = s.overs /\ r.legal = s.legal /\ r.people = s.people
        /\ Ended(r) = Ended(s) /\ r.life = s.life /\ s.bowler = None
        /\ r.bowler \in field /\ s.legal % pol.over = 0
        /\ Ineligibility(pol, r.bowler, field, Balls(s),
                         PreviousBowler(s, s.legal \div pol.over)) = None
    BY <1>4 DEF BowlerChosen, KeepsScorecard
  <2>2. /\ pol.noConsecutive => r.bowler # PreviousBowler(s, s.legal \div pol.over)
        /\ pol.quota # None => ~(Balls(s)[r.bowler] >= pol.quota)
    BY <2>1, NoneAssumption DEF Ineligibility
  <2>3. Rested(r, pol)
    <3>1. PreviousBowler(r, r.legal \div pol.over) = PreviousBowler(s, s.legal \div pol.over)
      BY <2>1 DEF PreviousBowler
    <3>2. pol.quota # None => r.people[r.bowler].bowled < pol.quota + (r.legal % pol.over)
      <4>1. r.legal % pol.over = 0
        BY <2>1
      <4>2. Balls(s)[r.bowler] = r.people[r.bowler].bowled
        BY <2>1 DEF Balls, ReplayStates
      <4>3. r.people[r.bowler] \in Persons
        BY <2>1 DEF ReplayStates
      <4>4. r.people[r.bowler].bowled \in Nat /\ (pol.quota # None => pol.quota \in Nat)
        BY <4>3 DEF Persons, Generous
      <4> QED BY <2>2, <4>1, <4>2, <4>4
    <3> QED BY <2>2, <3>1, <3>2 DEF Rested
  <2>4. WholeOvers(r, pol, field)
    <3>1. \A p \in field : InOver(r, pol, p) = 0 /\ InOver(s, pol, p) = 0
      BY <2>1 DEF InOver
    <3> QED BY <2>1, <3>1 DEF Onward, WholeOvers
  <2>5. Vacancies(r, bat) /\ BallsLeft(r, pol)
    BY <2>1 DEF Onward, Vacancies, BallsLeft
  <2> QED BY <2>3, <2>4, <2>5 DEF Onward
<1>5. ASSUME KeepsScorecard(s, r), r.bowler = s.bowler, r.life = s.life,
             NEW who \in bat, NEW st \in BatterStates,
             r.people = [s.people EXCEPT ![who] = [s.people[who] EXCEPT !.state = st]]
      PROVE  /\ Rested(r, pol) /\ WholeOvers(r, pol, field) /\ BallsLeft(r, pol)
             /\ r.people[who].state = st
             /\ \A p \in bat : p # who => r.people[p].state = s.people[p].state
  <2>1. s.people \in [bat \cup field -> Persons] /\ who \in bat \cup field
    BY DEF ReplayStates
  <2>2. s.people[who] \in Persons
    BY <2>1
  <2>3. [s.people[who] EXCEPT !.state = st].state = st
    BY <2>2 DEF Persons
  <2> DEFINE v == [s.people[who] EXCEPT !.state = st]
  <2> HIDE DEF v
  <2>4. r.people = [s.people EXCEPT ![who] = v]
    BY <1>5 DEF v
  <2>5. /\ r.people[who] = v
        /\ \A p \in bat \cup field : p # who => r.people[p] = s.people[p]
    BY <2>1, <2>4
  <2>6. r.overs = s.overs /\ r.legal = s.legal
    BY <1>5 DEF KeepsScorecard
  <2>7. \A p \in field : r.people[p] = s.people[p]
    BY <2>5
  <2>8. s.bowler # None => s.bowler \in field
    BY DEF ReplayStates
  <2>9. Rested(r, pol)
    <3>1. PreviousBowler(r, r.legal \div pol.over) = PreviousBowler(s, s.legal \div pol.over)
      BY <2>6 DEF PreviousBowler
    <3> QED BY <1>5, <2>6, <2>7, <2>8, <3>1 DEF Onward, Rested
  <2>10. WholeOvers(r, pol, field)
    BY <1>5, <2>6, <2>7 DEF Onward, WholeOvers, InOver
  <2>11. BallsLeft(r, pol)
    BY <1>5, <2>6 DEF Onward, BallsLeft
  <2> QED BY <2>3, <2>5, <2>9, <2>10, <2>11 DEF v
<1>6. CASE BatterCame(s, r, bat)
  <2>1. PICK who \in bat, x \in bat \cup {None} :
       /\ Ended(s) = {None, x} /\ Ended(r) = {who, x}
       /\ s.people[who].state \in {"not_batted", "retired_hurt"}
       /\ r.people = [s.people EXCEPT ![who] = [s.people[who] EXCEPT !.state = "active"]]
    BY <1>6 DEF BatterCame
  <2>2. /\ Rested(r, pol) /\ WholeOvers(r, pol, field) /\ BallsLeft(r, pol)
        /\ \A p \in bat : p # who => r.people[p].state = s.people[p].state
    <3>1. "active" \in BatterStates /\ KeepsScorecard(s, r) /\ r.bowler = s.bowler
          /\ r.life = s.life
      BY <1>6 DEF BatterStates, BatterCame
    <3> QED BY <1>5, <2>1, <3>1
  <2>3. Vacancies(r, bat)
    <3>1. Ended(r) # {None}
      BY <2>1
    <3>2. ASSUME None \in Ended(r)
          PROVE  \E p \in bat : r.people[p].state \in Out \cup {"retired_hurt"}
      <4>1. x = None /\ Ended(s) = {None}
        BY <2>1, <3>2
      <4>2. PICK p, q \in bat : /\ p # q /\ s.people[p].state \in Out \cup {"retired_hurt"}
                                /\ s.people[q].state = "retired_hurt"
        BY <4>1 DEF Onward, Vacancies
      <4> QED BY <2>2, <4>2
    <3> QED BY <3>1, <3>2 DEF Vacancies
  <2> QED BY <2>2, <2>3 DEF Onward
<1>7. CASE BatterLeft(s, r, bat)
  <2>1. PICK who \in bat, x \in bat \cup {None} :
       /\ Ended(s) = {who, x} /\ x # who /\ Ended(r) = {None, x}
       /\ r.people = [s.people EXCEPT ![who] =
                        [s.people[who] EXCEPT !.state = "retired_hurt"]]
    BY <1>7 DEF BatterLeft
  <2>2. /\ Rested(r, pol) /\ WholeOvers(r, pol, field) /\ BallsLeft(r, pol)
        /\ r.people[who].state = "retired_hurt"
        /\ \A p \in bat : p # who => r.people[p].state = s.people[p].state
    <3>1. "retired_hurt" \in BatterStates /\ KeepsScorecard(s, r) /\ r.bowler = s.bowler
          /\ r.life = s.life
      BY <1>7 DEF BatterStates, BatterLeft
    <3> QED BY <1>5, <2>1, <3>1
  <2>3. s.people[who].state = "active"
    BY <2>1 DEF Manned
  <2>4. Vacancies(r, bat)
    <3>1. ASSUME Ended(r) = {None}
          PROVE  \E p, q \in bat : /\ p # q /\ r.people[p].state \in Out \cup {"retired_hurt"}
                                   /\ r.people[q].state = "retired_hurt"
      <4>1. None \in Ended(s)
        BY <2>1, <3>1
      <4>2. PICK p \in bat : s.people[p].state \in Out \cup {"retired_hurt"}
        BY <4>1 DEF Onward, Vacancies
      <4>3. p # who
        BY <2>3, <4>2 DEF Out
      <4> QED BY <2>2, <4>2, <4>3
    <3> QED BY <2>2, <3>1 DEF Vacancies
  <2> QED BY <2>2, <2>4 DEF Onward
<1> QED BY <1>1, <1>2, <1>3, <1>4, <1>6, <1>7 DEF Transits

\* A delivery after which the over goes on, or which ends it.
LEMMA DeliveredTurns ==
  ASSUME NEW pol, NEW bat, NEW field, NEW s, NEW r, NEW f, NEW c, None \notin field,
         bat \cap field = {}, Placed(s, pol), Generous(pol),
         WholeOvers(s, pol, field), Delivers(s, r, f, c, pol, bat, field)
  PROVE  Rested(r, pol) /\ WholeOvers(r, pol, field)
<1> DEFINE N == pol.over
           L == s.legal
           q == L \div N
           m == L % N
           b == f.bowler
           i == Bool01(c.legal)
<1>1. /\ N \in Nat \ {0} /\ L \in Nat /\ c.over = q /\ c.legal \in BOOLEAN
      /\ s.bowler = b /\ b \in field /\ s.overs \in Seq(OverRows(field))
  BY DEF Delivers, ReplayStates, Classes, Fitting, Facts
<1>2. q \in Nat /\ m \in 0 .. (N - 1) /\ L = (N * q) + m
  BY <1>1, Divided
<1>3. /\ m = N - 1 => (L + 1) \div N = q + 1 /\ (L + 1) % N = 0
      /\ m # N - 1 => (L + 1) \div N = q /\ (L + 1) % N = m + 1
  BY <1>1, NextBall
<1>4. /\ r.legal = L + i /\ Len(r.overs) = q + 1 /\ \A n \in 1 .. q : r.overs[n] = s.overs[n]
      /\ r.bowler = IF Closes(s, c, pol) THEN None ELSE b
      /\ Len(s.overs) \in {q, q + 1} /\ r.overs \in Seq(OverRows(field))
  BY <1>1 DEF Delivers, DeliveredFrom, Placed, ReplayStates
<1>5. \A p \in field : /\ s.people[p].bowled \in Nat
                       /\ r.people[p].bowled = s.people[p].bowled + (IF p = b THEN i ELSE 0)
  <2> TAKE p \in field
  <2>1. p \in bat \cup field
    OBVIOUS
  <2>2. /\ s.people[p] \in Persons
        /\ r.people[p].bowled = s.people[p].bowled + (IF p = f.bowler THEN Bool01(c.legal) ELSE 0)
    BY <2>1, DeliveredFigures
  <2> QED BY <2>2 DEF Persons
<1>6. Ineligibility(pol, b, field, Balls(s), PreviousBowler(s, q)) = None
  BY <1>1 DEF Delivers, MayBowl
<1>7. /\ pol.noConsecutive => b # PreviousBowler(s, q)
      /\ pol.quota # None => ~(Balls(s)[b] >= pol.quota)
  BY <1>1, <1>6, NoneAssumption DEF Ineligibility
<1>8. Balls(s)[b] = s.people[b].bowled
  BY <1>1 DEF Balls, Delivers, ReplayStates
<1>9. /\ i \in 0 .. 1 /\ (c.legal <=> i = 1)
      /\ (Closes(s, c, pol) <=> c.legal /\ (L + i) % N = 0)
  BY <1>1 DEF Bool01, Closes
<1>10. PreviousBowler(r, q) = PreviousBowler(s, q)
  <2>0. q \in DOMAIN r.overs <=> q \in DOMAIN s.overs
    <3> HIDE DEF q
    <3>1. DOMAIN r.overs = 1 .. Len(r.overs) /\ DOMAIN s.overs = 1 .. Len(s.overs)
      BY <1>1, <1>4
    <3> QED BY <1>2, <1>4, <3>1
  <2>1. q \in DOMAIN s.overs => r.overs[q] = s.overs[q]
    <3> HIDE DEF q
    <3>1. DOMAIN s.overs = 1 .. Len(s.overs)
      BY <1>1
    <3> QED BY <1>2, <1>4, <3>1
  <2> QED BY <2>0, <2>1 DEF PreviousBowler
<1>11. \A p \in field : \E k \in Nat : s.people[p].bowled = (N * k) + (IF p = b THEN m ELSE 0)
  BY <1>1 DEF WholeOvers, InOver
<1> HIDE DEF N, L, q, m, b, i
<1>12. CASE Closes(s, c, pol)
  <2>1. i = 1 /\ m = N - 1 /\ r.bowler = None /\ r.legal = L + 1 /\ r.legal % N = 0
    <3>1. i = 1 /\ r.legal = L + 1 /\ (L + 1) % N = 0 /\ r.bowler = None
      BY <1>1, <1>4, <1>9, <1>12
    <3>2. m = N - 1
      BY <1>2, <1>3, <3>1
    <3> QED BY <3>1, <3>2
  <2>2. ASSUME NEW p \in field
        PROVE  \E k \in Nat : r.people[p].bowled = (N * k) + InOver(r, pol, p)
    <3>1. InOver(r, pol, p) = 0
      BY <2>1 DEF InOver, N
    <3>2. PICK k \in Nat : s.people[p].bowled = (N * k) + (IF p = b THEN m ELSE 0)
      BY <1>11
    <3>3. CASE p = b
      <4>1. r.people[p].bowled = ((N * k) + (N - 1)) + 1
        BY <1>5, <2>1, <3>2, <3>3
      <4>2. k + 1 \in Nat /\ N * (k + 1) = (N * k) + N /\ N * k \in Nat
        BY <1>1
      <4>3. r.people[p].bowled = (N * (k + 1)) + 0
        BY <1>1, <4>1, <4>2
      <4> QED BY <3>1, <4>2, <4>3
    <3>4. CASE p # b
      BY <1>5, <3>1, <3>2, <3>4
    <3> QED BY <3>3, <3>4
  <2> QED BY <2>1, <2>2 DEF Rested, WholeOvers, N
<1>13. CASE ~Closes(s, c, pol)
  <2>1. r.bowler = b /\ r.legal \div N = q /\ r.legal % N = m + i
    <3>1. CASE i = 1
      <4>1. m # N - 1 /\ r.legal = L + 1
        BY <1>1, <1>3, <1>4, <1>9, <1>13, <3>1
      <4> QED BY <1>3, <1>4, <1>13, <3>1, <4>1
    <3>2. CASE i = 0
      <4>1. r.legal = L /\ m + i = m
        BY <1>1, <1>2, <1>4, <3>2
      <4> QED BY <1>4, <1>13, <4>1 DEF q, m
    <3> QED BY <1>9, <3>1, <3>2
  <2>2. ASSUME NEW p \in field
        PROVE  \E k \in Nat : r.people[p].bowled = (N * k) + InOver(r, pol, p)
    <3>1. InOver(r, pol, p) = IF p = b THEN m + i ELSE 0
      BY <2>1 DEF InOver, N
    <3>2. PICK k \in Nat : s.people[p].bowled = (N * k) + (IF p = b THEN m ELSE 0)
      BY <1>11
    <3>3. N * k \in Nat
      BY <1>1
    <3>4. r.people[p].bowled = (N * k) + InOver(r, pol, p)
      <4> DEFINE e == N * k
      <4> HIDE DEF e
      <4>1. s.people[p].bowled = e + (IF p = b THEN m ELSE 0) /\ e \in Nat
        BY <3>2, <3>3 DEF e
      <4>2. r.people[p].bowled = e + InOver(r, pol, p)
        BY <1>2, <1>5, <1>9, <3>1, <4>1
      <4> QED BY <4>2 DEF e
    <3> QED BY <3>4
  <2>3. pol.quota # None => r.people[b].bowled < pol.quota + (r.legal % N)
    <3>1. ASSUME pol.quota # None PROVE r.people[b].bowled < pol.quota + (m + i)
      <4>1. s.people[b].bowled \in Nat /\ r.people[b].bowled = s.people[b].bowled + i
        BY <1>1, <1>5
      <4>2. pol.quota \in Nat /\ ~(s.people[b].bowled >= pol.quota)
        BY <1>7, <1>8, <3>1 DEF Generous
      <4> QED BY <1>2, <1>9, <4>1, <4>2
    <3> QED BY <2>1, <3>1
  <2>4. pol.noConsecutive => b # PreviousBowler(r, q)
    BY <1>7, <1>10
  <2>5. Rested(r, pol)
    BY <2>1, <2>3, <2>4 DEF Rested, N
  <2> QED BY <2>2, <2>5 DEF WholeOvers, N
<1> QED BY <1>12, <1>13

\* The end a wicket leaves vacant is that of somebody who is out.
LEMMA DeliveredVacancies ==
  ASSUME NEW pol, NEW bat, NEW field, NEW s, NEW r, NEW f, NEW c,
         None \notin bat, bat \cap field = {}, Manned(r, bat, field),
         Delivers(s, r, f, c, pol, bat, field)
  PROVE  Vacancies(r, bat)
<1>1. /\ f.striker \in bat /\ f.nonStriker \in bat /\ f.striker # f.nonStriker
      /\ Ended(s) = {f.striker, f.nonStriker}
      /\ f.wicket # None => f.wicket.out \in {f.striker, f.nonStriker}
      /\ Ended(r) = IF f.wicket = None THEN Ended(s)
                    ELSE (Ended(s) \ {f.wicket.out}) \cup {None}
  BY DEF Delivers, DeliveredFrom, Facts, Fitting, Ended
<1>2. Ended(r) # {None}
  BY <1>1
<1>3. ASSUME None \in Ended(r) PROVE \E p \in bat : r.people[p].state \in Out
  <2>1. f.wicket # None /\ f.wicket.out \in bat
    BY <1>1, <1>3
  <2>2. OutOf(f) = f.wicket.out /\ OutOf(f) # None
    BY <2>1 DEF OutOf
  <2> DEFINE p == f.wicket.out
  <2>3. p \in bat \cup field /\ p = OutOf(f)
    BY <2>1, <2>2
  <2> HIDE DEF p
  <2>4. r.people[p].how # None
    BY <2>2, <2>3, DeliveredHow
  <2>5. r.people[p].state \in Out
    BY <2>3, <2>4 DEF Manned
  <2> QED BY <2>1, <2>5 DEF p
<1> QED BY <1>2, <1>3 DEF Vacancies

\* A delivery that the code applies without an error is one it accepts.
LEMMA AppliedDelivers ==
  ASSUME NEW pol, NEW bat, NEW field, NEW s \in ReplayStates(bat, field),
         NEW f \in Facts(bat, field), NEW n \in Nat, bat \cap field = {},
         pol.over \in Nat \ {0}, Placed(s, pol), Manned(s, bat, field), None \notin bat,
         ApplyDelivery(s, f, n, pol, field).error = None
  PROVE  LET r == ApplyDelivery(s, f, n, pol, field) IN
         /\ s.life # "completed"
         /\ \E c : Delivers(s, r, f, c, pol, bat, field)
<1> DEFINE c == Classify(f, s.legal, pol.over)
           d == Delivered(s, f, c, n, pol)
           r == ApplyDelivery(s, f, n, pol, field)
<1>0. s.legal \in Nat /\ pol.over \in Nat \ {0}
  BY DEF ReplayStates
<1>1. /\ c \in Classes(bat) /\ c.over = s.legal \div pol.over
      /\ c.total = f.bat + (f.wide + f.noBall + f.bye + f.legBye + f.penalty)
      /\ c.conceded = f.bat + f.wide + f.noBall
  <2> DEFINE L == s.legal
             V == pol.over
  <2>1. L \in Nat /\ V \in Nat \ {0}
    BY <1>0
  <2> HIDE DEF L, V
  <2>2. LET k == Classify(f, L, V) IN
         /\ k \in Classes(bat) /\ k.over = L \div V
         /\ k.total = f.bat + (f.wide + f.noBall + f.bye + f.legBye + f.penalty)
         /\ k.conceded = f.bat + f.wide + f.noBall
    BY <2>1, ClassifyTyped, ZenonT(30)
  <2> QED BY <2>2 DEF L, V
<1>2. \A x \in {"conflict", "invalid"} : [s EXCEPT !.error = x].error = x /\ x # None
  BY NoneAssumption DEF ReplayStates
<1>3. /\ Follows(s, f) /\ WicketFits(f, field, pol) /\ RunsFit(c.total, s.runs)
      /\ MayBowl(s, f, c, pol, field)
  <2> SUFFICES ASSUME ~(/\ Follows(s, f) /\ WicketFits(f, field, pol)
                        /\ RunsFit(c.total, s.runs) /\ MayBowl(s, f, c, pol, field))
               PROVE  r.error # None
    OBVIOUS
  <2> DEFINE e(x) == [s EXCEPT !.error = x]
  <2>1. r = e("conflict") \/ r = e("invalid")
    BY DEF ApplyDelivery, Counted, Conflict
  <2> HIDE DEF r
  <2> QED BY <1>2, <2>1
<1>4. r = d
  BY <1>3 DEF ApplyDelivery, Counted, Delivered
<1>5. Fitting(s, f)
  <2>1. f.striker # f.nonStriker
    BY <1>3 DEF Follows, Manned, Apart, Facts
  <2> QED BY <1>3, <2>1 DEF Fitting, Follows, WicketFits
<1>6. OverFits(s, c)
  <2> HIDE DEF c
  <2> QED BY <1>0, <1>1, OverFitsPlaced
<1> HIDE DEF c
<1>7. d \in ReplayStates(bat, field) /\ DeliveredFrom(s, d, f, c, pol, bat \cup field)
  BY <1>0, <1>1, <1>5, <1>6, DeliveredIs
<1> HIDE DEF d
<1>8. Delivers(s, d, f, c, pol, bat, field)
  BY <1>0, <1>1, <1>3, <1>5, <1>7 DEF Delivers
<1>9. s.life # "completed"
  BY <1>3 DEF Follows
<1> QED BY <1>4, <1>8, <1>9 DEF d

\* The automatic completion leaves a live innings its balls.
LEMMA CompletedOnward ==
  ASSUME NEW pol, NEW bat, NEW field, NEW d \in ReplayStates(bat, field), Generous(pol),
         Rested(d, pol), WholeOvers(d, pol, field), Vacancies(d, bat)
  PROVE  Onward(Complete(d, AutomaticCompletion(pol, d)), pol, bat, field)
<1> DEFINE z == Complete(d, AutomaticCompletion(pol, d))
<1>1. /\ z.bowler = d.bowler /\ z.overs = d.overs /\ z.legal = d.legal
      /\ z.people = d.people /\ Ended(z) = Ended(d) /\ z.reason = AutomaticCompletion(pol, d)
      /\ z.life = IF z.reason = None THEN d.life ELSE "completed"
  <2>1. Finishes(d, z, pol)
    BY CompleteIs
  <2>2. z.reason = AutomaticCompletion(pol, d)
    BY DEF Complete, ReplayStates
  <2> HIDE DEF z
  <2> QED BY <2>1, <2>2 DEF Finishes, KeepsScorecard
<1> HIDE DEF z
<1>2. BallsLeft(z, pol)
  <2>1. d.legal \in Nat
    BY DEF ReplayStates
  <2>2. ASSUME z.reason = None, "legal_ball_limit" \in pol.modes, pol.limit # None
        PROVE  d.legal < pol.limit
    <3>1. ~(d.legal >= pol.limit)
      BY <1>1, <2>2, NoneAssumption DEF AutomaticCompletion, AutomaticModes
    <3> QED BY <2>1, <2>2, <3>1 DEF Generous
  <2> QED BY <1>1, <2>2 DEF BallsLeft
<1>3. Rested(z, pol)
  BY <1>1 DEF Rested, PreviousBowler
<1>4. WholeOvers(z, pol, field)
  BY <1>1 DEF WholeOvers, InOver
<1>5. Vacancies(z, bat)
  BY <1>1 DEF Vacancies
<1> QED BY <1>2, <1>3, <1>4, <1>5 DEF Onward, z

LEMMA AfterAttemptOnward ==
  ASSUME NEW pol, NEW target, NEW bat, NEW field, NEW facts, NEW source, NEW n, NEW s,
         Playable(pol, bat, field, facts, target), Sourced(source, bat, field),
         s \in ReplayStates(bat, field), Good(s, pol, target, bat, field, facts),
         s.halted = None, Generous(pol), Onward(s, pol, bat, field)
  PROVE  Onward(AfterAttempt(s, n, pol, source), pol, bat, field)
<1> DEFINE N == Len(source.transitions)
           Fine(r) == /\ r \in ReplayStates(bat, field)
                      /\ Good(r, pol, target, bat, field, facts)
                      /\ r.halted = None /\ Onward(r, pol, bat, field)
<1>1. /\ N \in Nat /\ DOMAIN source.transitions = 1 .. N
      /\ source.batters = bat /\ source.fielders = field
      /\ \A i \in 1 .. N : source.transitions[i] \in Transitions(bat, field)
      /\ bat \cap field = {} /\ None \notin bat /\ None \notin field
  BY DEF Sourced, Playable
<1>2. PICK h : AttemptPath(h, s, n, pol, source, N)
  BY <1>1, AfterAttemptTrace
<1>3. ASSUME NEW i \in 1 .. N, Fine(h[i - 1]) PROVE Fine(h[i])
  <2> DEFINE a == h[i - 1]
             t == source.transitions[i]
             b == ApplyTransition(a, t, pol, bat, field)
  <2>1. h[i] = IF t.anchor = n THEN b ELSE a
    BY <1>1, <1>2 DEF AttemptPath
  <2>2. /\ a \in ReplayStates(bat, field) /\ Good(a, pol, target, bat, field, facts)
        /\ a.halted = None /\ Onward(a, pol, bat, field) /\ t \in Transitions(bat, field)
    BY <1>1, <1>3
  <2>3. Apart(a) /\ Manned(a, bat, field)
    BY <2>2 DEF Good, Sound, Manned
  <2>4. b \in ReplayStates(bat, field) /\ Transits(a, b, pol, bat, field)
    <3> HIDE DEF a, t
    <3> QED BY <1>1, <2>2, <2>3, ApplyTransitionIs
  <2> HIDE DEF a, b, t
  <2>5. Good(b, pol, target, bat, field, facts) /\ b.halted = None
    BY <2>2, <2>4, TransitGood
  <2>6. Onward(b, pol, bat, field)
    BY <1>1, <2>2, <2>3, <2>4, TransitOnward
  <2>7. Fine(a) /\ Fine(b)
    BY <2>2, <2>4, <2>5, <2>6
  <2> HIDE DEF Fine
  <2> QED BY <2>1, <2>7
<1>4. Fine(h[0])
  BY <1>2 DEF AttemptPath
<1>5. Fine(h[N])
  <2> DEFINE P == {i \in 0 .. N : Fine(h[i])}
  <2> HIDE DEF N, Fine
  <2>1. 0 \in P
    BY <1>1, <1>4
  <2>2. ASSUME NEW i \in 1 .. N, i - 1 \in P PROVE i \in P
    <3>1. i \in 0 .. N
      BY <1>1
    <3> QED BY <1>3, <2>2, <3>1
  <2> HIDE DEF P
  <2>3. N \in P
    BY <1>1, <2>1, <2>2, ChainHolds
  <2> QED BY <2>3 DEF P
<1> QED BY <1>2, <1>5 DEF AttemptPath

\* An attempt after which the replay goes on, with nothing corrected.
LEMMA AttemptOnward ==
  ASSUME NEW pol, NEW target, NEW bat, NEW field, NEW source, NEW corrected, NEW s,
         NEW i \in 1 .. Len(source.deliveries),
         Playable(pol, bat, field, source.deliveries, target), Sourced(source, bat, field),
         Generous(pol), corrected = None, s \in ReplayStates(bat, field),
         Good(s, pol, target, bat, field, source.deliveries), Counts(s, i - 1),
         s.halted = None, ~Fails(s) => Onward(s, pol, bat, field),
         ~Fails(Attempt(s, i, pol, source, corrected))
  PROVE  Onward(Attempt(s, i, pol, source, corrected), pol, bat, field)
<1> DEFINE facts == source.deliveries
           r == Attempt(s, i, pol, source, corrected)
           f == facts[i]
           d == ApplyDelivery(s, f, i, pol, field)
           z == Complete(d, AutomaticCompletion(pol, d))
           y == AfterAttempt(z, i, pol, source)
<1>0. /\ facts \in Seq(Facts(bat, field)) /\ i \in Nat /\ i \in 1 .. Len(facts)
      /\ s.applied \in Seq(Classes(bat)) /\ Len(s.applied) \in Nat
      /\ source.fielders = field /\ source.deliveries[i] = f
      /\ Playable(pol, bat, field, facts, target) /\ Good(s, pol, target, bat, field, facts)
      /\ bat \cap field = {} /\ None \notin bat /\ None \notin field
      /\ pol.over \in Nat \ {0} /\ pol.wickets \in Nat
  BY DEF Playable, ReplayStates, Sourced
<1>1. ~Fails(s)
  BY DEF Attempt
<1> HIDE DEF facts
<1>2. s.error = None /\ Len(s.applied) = i - 1 /\ Onward(s, pol, bat, field)
  BY <1>1 DEF Fails, Counts
<1>3. f \in Facts(bat, field) /\ IsNext(f, s, facts)
  <2>1. Len(s.applied) + 1 = i
    BY <1>0, <1>2
  <2> QED BY <1>0, <2>1 DEF IsNext
<1>4. r = AfterDelivery(s, d, i, pol, source, corrected)
  BY <1>0, <1>1 DEF Attempt
<1>5. /\ d \in ReplayStates(bat, field)
      /\ d.error = None =>
            /\ Sound(d, pol, bat, field, facts) /\ Settled(d, pol, target, facts)
            /\ d.life = "in_progress" /\ d.halted = None
            /\ Len(d.applied) = Len(s.applied) + 1
  <2>1. CountedWell(d, s, pol, target, bat, field, facts)
    <3>1. i \in Nat /\ Playable(pol, bat, field, facts, target)
          /\ Good(s, pol, target, bat, field, facts)
      BY <1>0
    <3>2. s.halted = None /\ s.error = None /\ IsNext(f, s, facts)
      BY <1>2, <1>3
    <3> HIDE DEF f
    <3> QED BY <3>1, <3>2, CountedGood
  <2> HIDE DEF d
  <2> QED BY <2>1 DEF CountedWell
<1>6. d.error = None
  <2> HIDE DEF d
  <2>1. d.error # None => r = d
    BY <1>0, <1>4 DEF AfterDelivery, Fails, Tolerated
  <2> HIDE DEF r
  <2> QED BY <2>1 DEF Fails, r
<1>7. \E c : Delivers(s, d, f, c, pol, bat, field)
  <2>1. Placed(s, pol) /\ Manned(s, bat, field)
    BY <1>0 DEF Good, Sound
  <2> HIDE DEF f
  <2> QED BY <1>0, <1>3, <1>6, <2>1, AppliedDelivers
<1> HIDE DEF d
<1>8. Rested(d, pol) /\ WholeOvers(d, pol, field) /\ Vacancies(d, bat)
  <2>1. PICK c : Delivers(s, d, f, c, pol, bat, field)
    BY <1>7
  <2>2. /\ Placed(s, pol) /\ WholeOvers(s, pol, field) /\ Manned(d, bat, field)
    BY <1>0, <1>2, <1>5, <1>6 DEF Good, Sound, Onward
  <2> HIDE DEF f
  <2>3. Rested(d, pol) /\ WholeOvers(d, pol, field)
    BY <1>0, <2>1, <2>2, DeliveredTurns
  <2>4. Vacancies(d, bat)
    BY <1>0, <2>1, <2>2, DeliveredVacancies
  <2> QED BY <2>3, <2>4
<1>9. Onward(z, pol, bat, field)
  BY <1>5, <1>8, CompletedOnward
<1>10. z \in ReplayStates(bat, field) /\ Finishes(d, z, pol)
  BY <1>5, CompleteIs
<1>11. z.reason = AutomaticCompletion(pol, d)
  BY <1>5 DEF Complete, ReplayStates
<1>12. r = y
  BY <1>4, <1>6, NoneAssumption DEF AfterDelivery, Fails, AfterTransitions, Tolerated, z
<1> HIDE DEF z
<1>13. Good(z, pol, target, bat, field, facts) /\ z.halted = None
  <2>1. Good(z, pol, target, bat, field, facts)
    BY <1>0, <1>5, <1>6, <1>10, <1>11, FinishesGood
  <2> QED BY <1>5, <1>6, <1>10, <2>1 DEF Finishes, KeepsScorecard
<1>14. Onward(y, pol, bat, field)
  BY <1>0, <1>9, <1>10, <1>13, AfterAttemptOnward
<1> QED BY <1>12, <1>14

\* Every replay that neither failed nor was corrected may go on.
LEMMA ReplayOnward ==
  ASSUME NEW pol, NEW target, NEW bat, NEW field, NEW source, NEW corrected,
         Playable(pol, bat, field, source.deliveries, target), Sourced(source, bat, field),
         Generous(pol), corrected = None,
         ~Fails(ReplayInnings(pol, source, target, corrected))
  PROVE  Onward(ReplayInnings(pol, source, target, corrected), pol, bat, field)
<1> DEFINE facts == source.deliveries
           N == Len(facts)
           first == Opening(pol, bat, field, source.openers, target)
           Fine(x, i) == /\ x \in ReplayStates(bat, field)
                         /\ Good(x, pol, target, bat, field, facts) /\ Counts(x, i)
                         /\ x.halted = None
                         /\ (~Fails(x) => Onward(x, pol, bat, field))
<1>0. /\ N \in Nat /\ DOMAIN source.deliveries = 1 .. N
      /\ source.batters = bat /\ source.fielders = field
      /\ source.openers \in [striker : bat, nonStriker : bat, bowler : field]
      /\ bat \cap field = {} /\ None \notin bat /\ None \notin field
      /\ pol.over \in Nat \ {0}
  BY DEF Sourced, Playable
<1>1. PICK h : ReplayPath(h, pol, source, target, corrected, N)
  BY <1>0, ReplayInningsTrace
<1>2. Fine(h[0], 0)
  <2>1. /\ first \in ReplayStates(bat, field)
        /\ Good(first, pol, target, bat, field, facts)
        /\ first.halted = None /\ first.applied = <<>>
    BY OpeningGood DEF Opened
  <2>2. h[0] = AfterAttempt(first, 0, pol, source)
    BY <1>0, <1>1 DEF ReplayPath
  <2>3. Onward(first, pol, bat, field)
    BY <1>0, OpeningOnward
  <2> HIDE DEF first
  <2>4. /\ h[0] \in ReplayStates(bat, field) /\ Good(h[0], pol, target, bat, field, facts)
        /\ h[0].applied = first.applied /\ h[0].halted = None
    BY <2>1, <2>2, AfterAttemptGood
  <2>5. Onward(h[0], pol, bat, field)
    BY <2>1, <2>2, <2>3, AfterAttemptOnward
  <2> QED BY <2>1, <2>4, <2>5 DEF Counts
<1>3. ASSUME NEW i \in 1 .. N, Fine(h[i - 1], i - 1) PROVE Fine(h[i], i)
  <2> DEFINE a == h[i - 1]
  <2>1. h[i] = Attempt(a, i, pol, source, corrected)
    BY <1>1 DEF ReplayPath
  <2>2. /\ a \in ReplayStates(bat, field) /\ Good(a, pol, target, bat, field, facts)
        /\ Counts(a, i - 1) /\ a.halted = None
        /\ (~Fails(a) => Onward(a, pol, bat, field))
    BY <1>3
  <2> HIDE DEF a
  <2>3. /\ h[i] \in ReplayStates(bat, field) /\ Good(h[i], pol, target, bat, field, facts)
        /\ Counts(h[i], i) /\ h[i].halted = None
    <3>1. /\ Attempt(a, i, pol, source, corrected) \in ReplayStates(bat, field)
          /\ Good(Attempt(a, i, pol, source, corrected), pol, target, bat, field, facts)
          /\ Counts(Attempt(a, i, pol, source, corrected), i)
          /\ Definite(Attempt(a, i, pol, source, corrected), a, i, pol, source)
          /\ Unstopped(Attempt(a, i, pol, source, corrected), a, corrected)
      BY <2>2, AttemptGood, ZenonT(60)
    <3> QED BY <2>1, <2>2, <3>1 DEF Unstopped
  <2>4. ~Fails(h[i]) => Onward(h[i], pol, bat, field)
    BY <2>1, <2>2, AttemptOnward
  <2> QED BY <2>3, <2>4
<1>4. Fine(h[N], N)
  <2> DEFINE P == {i \in 0 .. N : Fine(h[i], i)}
  <2> HIDE DEF N, Fine
  <2>1. 0 \in P
    BY <1>0, <1>2
  <2>2. ASSUME NEW i \in 1 .. N, i - 1 \in P PROVE i \in P
    <3>1. i \in 0 .. N
      BY <1>0
    <3> QED BY <1>3, <2>2, <3>1
  <2> HIDE DEF P
  <2>3. N \in P
    BY <1>0, <2>1, <2>2, ChainHolds
  <2> QED BY <2>3 DEF P
<1> QED BY <1>1, <1>4 DEF ReplayPath

\* People who each have a number of balls have them together.
LEMMA SumAtLeast ==
  ASSUME NEW S, IsFiniteSet(S), NEW people, DOMAIN people = S, NEW fd,
         \A p \in S : people[p][fd] \in Nat,
         NEW each \in Nat, NEW T \in SUBSET S, \A p \in T : people[p][fd] >= each
  PROVE  PeopleSum(people, fd) >= each * Cardinality(T)
<1>1. PICK h : Adds(people, fd, S, h)
  BY PeopleSumIs
<1>2. /\ h \in [SUBSET S -> Nat] /\ PeopleSum(people, fd) = h[S] /\ h[{}] = 0
      /\ \A u \in SUBSET S : \A x \in u : h[u] = people[x][fd] + h[u \ {x}]
  BY <1>1 DEF Adds
<1> DEFINE c(u) == Cardinality(u \cap T)
           B == {u \in SUBSET S : ~(h[u] >= each * c(u))}
<1>3. ASSUME NEW u \in SUBSET S PROVE IsFiniteSet(u \cap T) /\ c(u) \in Nat
  BY FS_Subset, FS_CardinalityType
<1>4. B = {}
  <2> SUFFICES ASSUME B # {} PROVE FALSE
    OBVIOUS
  <2>1. PICK u \in B : \A x \in u : u \ {x} \notin B
    <3>1. B \in SUBSET SUBSET S
      OBVIOUS
    <3> HIDE DEF B
    <3> QED BY <3>1, SmallestPart
  <2>2. u \in SUBSET S /\ ~(h[u] >= each * c(u))
    OBVIOUS
  <2>3. CASE u = {}
    <3>1. c(u) = 0
      <4>1. u \cap T = {}
        BY <2>3
      <4> QED BY <4>1, FS_EmptySet
    <3>2. each * 0 = 0
      OBVIOUS
    <3> HIDE DEF c
    <3> QED BY <1>2, <2>2, <2>3, <3>1, <3>2
  <2>4. CASE u # {}
    <3>1. PICK x \in u : TRUE
      BY <2>4
    <3> DEFINE v == u \ {x}
               m == c(v)
               n == c(u)
               a == h[v]
               b == people[x][fd]
    <3>2. v \in SUBSET S /\ v \notin B
      BY <2>1, <2>2
    <3>3. a >= each * m
      BY <3>2
    <3>4. m \in Nat /\ n \in Nat /\ a \in Nat /\ b \in Nat /\ h[u] = b + a
      BY <1>2, <1>3, <2>2, <3>2
    <3>5. ~(b + a >= each * n)
      BY <2>2, <3>4
    <3>6. CASE x \in T
      <4>1. v \cap T = (u \cap T) \ {x} /\ x \in u \cap T
        BY <3>6
      <4>2. m = n - 1
        BY <1>3, <2>2, <4>1, OneLess
      <4>3. b >= each
        BY <3>6
      <4> HIDE DEF m, n, a, b
      <4>4. each * n = (each * (n - 1)) + each
        BY <3>4
      <4>5. each * n \in Int /\ each * (n - 1) \in Int
        BY <3>4
      <4> DEFINE y == each * n
                 z == each * (n - 1)
      <4>6. y = z + each /\ y \in Int /\ z \in Int /\ a >= z /\ ~(b + a >= y)
        BY <3>3, <3>5, <4>2, <4>4, <4>5
      <4> HIDE DEF y, z
      <4> QED BY <3>4, <4>3, <4>6
    <3>7. CASE x \notin T
      <4>1. v \cap T = u \cap T
        BY <3>7
      <4>2. m = n
        BY <4>1
      <4> HIDE DEF m, n, a, b
      <4> DEFINE y == each * n
      <4>3. y \in Int /\ a >= y /\ ~(b + a >= y)
        BY <3>3, <3>4, <3>5, <4>2
      <4> HIDE DEF y
      <4> QED BY <3>4, <4>3
    <3> QED BY <3>6, <3>7
  <2> QED BY <2>3, <2>4
<1>5. S \cap T = T
  OBVIOUS
<1>6. h[S] >= each * c(S)
  BY <1>4
<1> QED BY <1>2, <1>5, <1>6

\* The bowler of a live innings may bowl the next ball, if quotas are of whole overs.
LEMMA BowlerGoesOn ==
  ASSUME NEW pol, NEW bat, NEW field, NEW s \in ReplayStates(bat, field),
         pol.over \in Nat \ {0}, Generous(pol), Onward(s, pol, bat, field),
         s.bowler # None, pol.quota # None => pol.quota % pol.over = 0
  PROVE  Ineligibility(pol, s.bowler, field, Balls(s),
                       PreviousBowler(s, s.legal \div pol.over)) = None
<1>1. s.bowler \in field /\ s.people[s.bowler] \in Persons /\ s.legal \in Nat
      /\ s.bowler \in DOMAIN s.people
  BY DEF ReplayStates
<1>2. Balls(s)[s.bowler] = s.people[s.bowler].bowled
  BY <1>1 DEF Balls
<1>3. pol.noConsecutive => s.bowler # PreviousBowler(s, s.legal \div pol.over)
  BY DEF Onward, Rested
<1>4. ASSUME pol.quota # None PROVE ~(Balls(s)[s.bowler] >= pol.quota)
  <2> DEFINE V == pol.over
             Q == pol.quota
             t == s.legal % V
             w == s.people[s.bowler].bowled
  <2>1. PICK m \in Nat : w = (V * m) + t
    BY <1>1 DEF Onward, WholeOvers, InOver
  <2>2. w < Q + t
    BY <1>4 DEF Onward, Rested
  <2>3. V \in Nat \ {0} /\ Q \in Nat /\ Q % V = 0 /\ w \in Nat
    BY <1>1, <1>4 DEF Generous, Persons
  <2>4. t \in 0 .. (V - 1)
    BY <1>1, <2>3, Divided
  <2> HIDE DEF V, Q, t, w
  <2> DEFINE j == Q \div V
  <2>5. j \in Nat /\ Q = (V * j) + (Q % V)
    BY <2>3, Divided
  <2>6. Q = V * j
    <3> HIDE DEF j
    <3> QED BY <2>3, <2>5
  <2> HIDE DEF j
  <2>7. V * m \in Int /\ V * j \in Int
    BY <2>3, <2>5
  <2>8. V * m < V * j
    BY <2>1, <2>2, <2>3, <2>4, <2>6, <2>7
  <2>9. m < j
    <3> SUFFICES ASSUME j <= m PROVE V * j <= V * m
      BY <2>5, <2>7, <2>8
    <3> QED BY <2>3, <2>5
  <2>10. V * (m + 1) <= V * j
    <3>1. m + 1 <= j
      BY <2>5, <2>9
    <3> QED BY <2>3, <2>5, <3>1
  <2>11. V * (m + 1) = (V * m) + V
    BY <2>3
  <2>12. w < Q
    <3> DEFINE y == V * m
               z == V * (m + 1)
    <3>1. y \in Int /\ z = y + V /\ z <= Q /\ w = y + t
      BY <2>1, <2>6, <2>7, <2>10, <2>11
    <3> HIDE DEF y, z
    <3> QED BY <2>3, <2>4, <3>1
  <2>13. w = Balls(s)[s.bowler] /\ Q = pol.quota
    BY <1>2 DEF w, Q
  <2> QED BY <2>3, <2>12, <2>13
<1> QED BY <1>1, <1>3, <1>4 DEF Ineligibility

\* Where the others can bowl an innings out, one of them has overs left.
LEMMA OtherBowlerLeft ==
  ASSUME NEW pol, NEW bat, NEW field, NEW s \in ReplayStates(bat, field), NEW previous,
         IsFiniteSet(bat), IsFiniteSet(field), bat \cap field = {},
         Generous(pol), Balances(s), BallsLeft(s, pol), s.life = "in_progress",
         "legal_ball_limit" \in pol.modes, pol.limit # None, pol.quota # None,
         Cardinality(field) - 1 > 0, pol.limit <= pol.quota * (Cardinality(field) - 1)
  PROVE  \E p \in field \ {previous} : s.people[p].bowled < pol.quota
<1> SUFFICES ASSUME \A p \in field \ {previous} : ~(s.people[p].bowled < pol.quota)
             PROVE  FALSE
  OBVIOUS
<1>1. /\ DOMAIN s.people = bat \cup field /\ s.legal \in Nat
      /\ \A p \in bat \cup field : s.people[p]["bowled"] \in Nat
  BY DEF ReplayStates, Persons
<1>2. pol.quota \in Nat /\ pol.limit \in Nat /\ s.legal < pol.limit
  BY DEF Generous, BallsLeft
<1>3. Cardinality(field) \in Nat /\ IsFiniteSet(bat \cup field)
  BY FS_CardinalityType, FS_Union
<1>4. field # {}
  BY <1>3, FS_EmptySet
<1>5. PICK x \in field : previous \in field => x = previous
  BY <1>4
<1> DEFINE T == field \ {x}
<1>6. Cardinality(T) = Cardinality(field) - 1
  BY <1>5, OneLess
<1>7. T \in SUBSET (bat \cup field) /\ \A p \in T : s.people[p]["bowled"] >= pol.quota
  <2>1. ASSUME NEW p \in T PROVE s.people[p]["bowled"] >= pol.quota
    <3>1. p \in field \ {previous}
      BY <1>5
    <3> QED BY <1>1, <1>2, <3>1
  <2> QED BY <2>1
<1> DEFINE S == bat \cup field
           Q == s.people
           n == PeopleSum(Q, "bowled")
           each == pol.quota
<1>8. s.legal = n
  BY DEF Balances
<1>9. /\ IsFiniteSet(S) /\ DOMAIN Q = S /\ \A p \in S : Q[p]["bowled"] \in Nat
      /\ each \in Nat /\ T \in SUBSET S /\ \A p \in T : Q[p]["bowled"] >= each
  BY <1>1, <1>2, <1>3, <1>7
<1>10. n >= each * Cardinality(T)
  <2> HIDE DEF S, Q, T, each
  <2> QED BY <1>9, SumAtLeast
<1> DEFINE b == pol.quota * (Cardinality(field) - 1)
<1>11. n >= b /\ b \in Int /\ pol.limit <= b
  BY <1>2, <1>3, <1>6, <1>10
<1> HIDE DEF n, b
<1> QED BY <1>1, <1>2, <1>8, <1>11

\* Where wickets end an innings, a full side has somebody for a vacant end.
LEMMA NextBatterLeft ==
  ASSUME NEW pol, NEW bat, NEW field, NEW s \in ReplayStates(bat, field),
         IsFiniteSet(bat), IsFiniteSet(field), None \notin bat,
         pol.wickets \in Nat, Manned(s, bat, field), WicketLeft(s, pol), Vacancies(s, bat),
         "all_out" \in pol.modes, s.life = "in_progress", None \in Ended(s),
         Cardinality(bat) > pol.wickets, \A p \in bat : s.people[p].state # "retired_hurt"
  PROVE  \E a, who, gone \in bat :
           /\ Ended(s) = {None, a} /\ gone # a /\ s.people[who].state = "not_batted"
           /\ s.people[gone].state \in Out
<1>1. /\ s.striker \in bat \cup {None} /\ s.nonStriker \in bat \cup {None} /\ s.wickets \in Nat
      /\ \A p \in bat : s.people[p] \in Persons
  BY DEF ReplayStates
<1>2. PICK a \in bat : Ended(s) = {None, a}
  <2>1. Ended(s) # {None}
    BY DEF Vacancies
  <2> QED BY <1>1, <2>1 DEF Ended
<1>3. PICK gone \in bat : s.people[gone].state \in Out
  BY DEF Vacancies
<1>4. s.people[a].state = "active" /\ gone # a
  BY <1>2, <1>3 DEF Manned, Out
<1>5. \E who \in bat : s.people[who].state = "not_batted"
  <2> SUFFICES ASSUME \A who \in bat : s.people[who].state # "not_batted" PROVE FALSE
    OBVIOUS
  <2> DEFINE L == Lost(s, bat \cup field)
  <2>1. bat \ {a} \subseteq L
    <3>1. ASSUME NEW p \in bat, p # a PROVE p \in L
      <4>1. s.people[p].state # "active"
        BY <1>2, <3>1 DEF Manned
      <4>2. s.people[p].state \in BatterStates
        BY <1>1 DEF Persons
      <4>3. s.people[p].state \in Out
        BY <4>1, <4>2 DEF BatterStates, Out
      <4> QED BY <4>3 DEF Manned, Lost
    <3> QED BY <3>1
  <2>2. IsFiniteSet(L) /\ Cardinality(L) = s.wickets
    <3>1. IsFiniteSet(bat \cup field) /\ L \subseteq bat \cup field
      BY FS_Union DEF Lost
    <3> QED BY <3>1, FS_Subset DEF Manned
  <2> HIDE DEF L
  <2>3. Cardinality(bat \ {a}) <= Cardinality(L)
    BY <2>1, <2>2, FS_Subset
  <2>4. Cardinality(bat \ {a}) = Cardinality(bat) - 1 /\ Cardinality(bat) \in Nat
    BY OneLess
  <2>5. s.wickets < pol.wickets
    BY DEF WicketLeft
  <2> QED BY <1>1, <2>2, <2>3, <2>4, <2>5
<1> QED BY <1>2, <1>3, <1>4, <1>5

\* Between two overs, all of those bowled are complete.
LEMMA OversAllDone ==
  ASSUME NEW pol, NEW bat, NEW field, NEW s \in ReplayStates(bat, field),
         pol.over \in Nat \ {0}, Placed(s, pol), s.bowler = None
  PROVE  LET q == s.legal \div pol.over IN
         /\ s.legal # 0 /\ s.legal % pol.over = 0 /\ q \in Nat \ {0} /\ Len(s.overs) = q
         /\ DOMAIN s.overs = 1 .. q /\ \A n \in 1 .. q : s.overs[n].complete
<1> DEFINE V == pol.over
           L == s.legal
           q == L \div V
<1>1. L # 0 /\ L % V = 0 /\ Len(s.overs) = q /\ \A n \in 1 .. q : s.overs[n].complete
  BY DEF Placed
<1>2. L \in Nat /\ V \in Nat \ {0}
  BY DEF ReplayStates
<1>3. DOMAIN s.overs = 1 .. q
  <2> DEFINE R == OverRows(field)
  <2>1. s.overs \in Seq(R)
    BY DEF ReplayStates
  <2> HIDE DEF R, q
  <2> QED BY <1>1, <2>1
<1>4. q \in Nat \ {0}
  <2> HIDE DEF L, V
  <2>1. q \in Nat /\ L = (V * q) + (L % V)
    BY <1>2, Divided
  <2> HIDE DEF q
  <2>2. q # 0
    <3>1. V * 0 = 0
      BY <1>2
    <3> QED BY <1>1, <2>1, <3>1
  <2> QED BY <2>1, <2>2
<1> QED BY <1>1, <1>3, <1>4
=============================================================================
