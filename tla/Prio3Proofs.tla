----------------------------- MODULE Prio3Proofs -----------------------------
(***************************************************************************)
(* Prio3, for every number of reports, aggregators and mixed-up inputs:    *)
(* the aggregators release together or not at all, a report that came      *)
(* right is verified, and what the collector unshards is the sum of the    *)
(* measurements.                                                           *)
(***************************************************************************)
EXTENDS Prio3, FiniteSetTheorems, SequenceTheorems, NumberLemmas

-----------------------------------------------------------------------------
(* Sums of vectors *)

\* g gives the sum of each front part of vs.
Prefix(g, vs) == /\ g \in [0 .. Len(vs) -> Vector] /\ g[0] = Zero
                 /\ \A k \in 0 .. Len(vs) - 1 : g[k + 1] = Plus(g[k], vs[k + 1])

LEMMA PlusVector ==
  /\ Zero \in Vector
  /\ \A v, w \in Vector : /\ Plus(v, w) \in Vector /\ Minus(v, w) \in Vector
                          /\ \A t \in Term : Plus(v, w)[t] = v[t] + w[t] /\ Minus(v, w)[t] = v[t] - w[t]
BY DEF Zero, Vector, Plus, Minus

LEMMA SumPrefix ==
  ASSUME NEW vs \in Seq(Vector)
  PROVE  \E g : Prefix(g, vs) /\ Sum(vs) = g[Len(vs)]
<1> DEFINE m == Len(vs)
           G == [x \in Nat \X Vector |-> IF x[1] < m THEN Plus(x[2], vs[x[1] + 1]) ELSE Zero]
           Body(f) == [n \in 0 .. m |-> IF n = 0 THEN Zero ELSE Plus(f[n - 1], vs[n])]
<1>1. m \in Nat /\ \A k \in 1 .. m : vs[k] \in Vector
  OBVIOUS
<1> HIDE DEF m
<1>2. G \in [Nat \X Vector -> Vector]
  <2> SUFFICES ASSUME NEW a \in Nat, NEW v \in Vector
               PROVE  (IF a < m THEN Plus(v, vs[a + 1]) ELSE Zero) \in Vector
    OBVIOUS
  <2>1. a < m => a + 1 \in 1 .. m
    BY <1>1
  <2>2. QED
    BY <1>1, <2>1, PlusVector
<1>3. PICK f \in [0 .. m -> Vector] : Follows(f, Zero, G, m)
  <2> HIDE DEF G
  <2>1. QED
    BY <1>1, <1>2, PlusVector, RecursionUpTo
<1>4. f[0] = Zero /\ \A k \in 0 .. m - 1 : f[k + 1] = Plus(f[k], vs[k + 1])
  <2>1. ASSUME NEW k \in 0 .. m - 1 PROVE f[k + 1] = Plus(f[k], vs[k + 1])
    <3>1. k \in Nat /\ k < m /\ k \in 0 .. m
      BY <1>1
    <3>2. <<k, f[k]>> \in Nat \X Vector
      BY <1>3, <3>1
    <3>3. f[k + 1] = G[<<k, f[k]>>]
      BY <1>3, <2>1 DEF Follows
    <3>4. QED
      BY <3>1, <3>2, <3>3
  <2>2. QED
    BY <1>3, <2>1 DEF Follows
<1>5. f = Body(f)
  <2>1. ASSUME NEW n \in 0 .. m PROVE f[n] = (IF n = 0 THEN Zero ELSE Plus(f[n - 1], vs[n]))
    <3>1. n # 0 => n - 1 \in 0 .. m - 1 /\ (n - 1) + 1 = n
      BY <1>1
    <3>2. QED
      BY <1>4, <3>1
  <2>2. QED
    BY <2>1
<1> DEFINE s == CHOOSE g : g = Body(g)
<1>6. s = Body(s)
  <2> HIDE DEF Body
  <2>1. QED
    BY <1>5
<1>7. Sum(vs) = s[m]
  BY DEF Sum, m
<1> HIDE DEF s
<1>8. \A n \in 0 .. m : s[n] = IF n = 0 THEN Zero ELSE Plus(s[n - 1], vs[n])
  BY <1>6
<1>9. s[0] = Zero /\ \A k \in 0 .. m - 1 : s[k + 1] = Plus(s[k], vs[k + 1])
  <2>1. 0 \in 0 .. m
    BY <1>1
  <2>2. \A k \in 0 .. m - 1 : k + 1 \in 0 .. m /\ k + 1 # 0 /\ (k + 1) - 1 = k
    BY <1>1
  <2>3. QED
    BY <1>8, <2>1, <2>2
<1>10. s \in [0 .. m -> Vector]
  <2> DEFINE S == {n \in Nat : n <= m => s[n] \in Vector}
  <2>1. 0 \in S
    BY <1>9, PlusVector
  <2>2. ASSUME NEW n \in Nat, n \in S PROVE n + 1 \in S
    <3> SUFFICES ASSUME n + 1 <= m PROVE s[n + 1] \in Vector
      OBVIOUS
    <3>1. n \in 0 .. m - 1 /\ n + 1 \in 1 .. m /\ s[n] \in Vector
      BY <1>1, <2>2
    <3>2. QED
      BY <1>1, <1>9, <3>1, PlusVector
  <2> HIDE DEF S
  <2>3. Nat \subseteq S
    BY <2>1, <2>2, Induction
  <2>4. \A n \in 0 .. m : s[n] \in Vector
    <3>1. \A n \in 0 .. m : n \in S /\ n <= m
      BY <1>1, <2>3
    <3>2. QED
      BY <3>1 DEF S
  <2>5. s = [n \in 0 .. m |-> s[n]]
    BY <1>6
  <2>6. QED
    BY <2>4, <2>5
<1>11. Prefix(s, vs)
  BY <1>9, <1>10 DEF Prefix, m
<1>12. QED
  BY <1>7, <1>11 DEF m

\* The front parts' sums are determined, so that any function that gives them ends
\* in the sum.
LEMMA SumIs ==
  ASSUME NEW vs \in Seq(Vector), NEW g, Prefix(g, vs)
  PROVE  Sum(vs) = g[Len(vs)]
<1>1. PICK f : Prefix(f, vs) /\ Sum(vs) = f[Len(vs)]
  BY SumPrefix
<1>2. Len(vs) \in Nat
  OBVIOUS
<1> DEFINE m == Len(vs)
           S == {n \in Nat : n <= m => f[n] = g[n]}
<1>3. 0 \in S
  BY <1>1 DEF Prefix
<1>4. ASSUME NEW n \in Nat, n \in S PROVE n + 1 \in S
  <2> SUFFICES ASSUME n + 1 <= m PROVE f[n + 1] = g[n + 1]
    OBVIOUS
  <2>1. n \in 0 .. m - 1 /\ f[n] = g[n]
    BY <1>2, <1>4
  <2>2. QED
    BY <1>1, <2>1 DEF Prefix
<1> HIDE DEF S
<1>5. m \in S
  BY <1>2, <1>3, <1>4, Induction
<1>6. QED
  BY <1>1, <1>2, <1>5 DEF S

LEMMA SumVector == ASSUME NEW vs \in Seq(Vector) PROVE Sum(vs) \in Vector
<1>1. PICK f : Prefix(f, vs) /\ Sum(vs) = f[Len(vs)]
  BY SumPrefix
<1>2. Len(vs) \in 0 .. Len(vs)
  OBVIOUS
<1>3. QED
  BY <1>1, <1>2 DEF Prefix

\* Where each vector has at u the opposite of what it has at t, so has the sum.
LEMMA SumOpposed ==
  ASSUME NEW vs \in Seq(Vector), NEW t \in Term, NEW u \in Term,
         \A k \in 1 .. Len(vs) : vs[k][u] = -vs[k][t]
  PROVE  Sum(vs)[u] = -Sum(vs)[t]
<1>1. PICK f : Prefix(f, vs) /\ Sum(vs) = f[Len(vs)]
  BY SumPrefix
<1>2. Len(vs) \in Nat /\ \A k \in 1 .. Len(vs) : vs[k] \in Vector
  OBVIOUS
<1> DEFINE m == Len(vs)
           S == {n \in Nat : n <= m => f[n][u] = -f[n][t]}
<1>3. 0 \in S
  BY <1>1 DEF Prefix, Zero
<1>4. ASSUME NEW n \in Nat, n \in S PROVE n + 1 \in S
  <2> SUFFICES ASSUME n + 1 <= m PROVE f[n + 1][u] = -f[n + 1][t]
    OBVIOUS
  <2>1. n \in 0 .. m - 1 /\ n \in 0 .. m /\ n + 1 \in 1 .. m /\ f[n][u] = -f[n][t]
    BY <1>2, <1>4
  <2>2. f[n + 1] = Plus(f[n], vs[n + 1]) /\ f[n] \in Vector /\ vs[n + 1] \in Vector
    BY <1>1, <1>2, <2>1 DEF Prefix
  <2>3. f[n + 1][u] = f[n][u] + vs[n + 1][u] /\ f[n + 1][t] = f[n][t] + vs[n + 1][t]
    BY <2>2, PlusVector
  <2>4. f[n][t] \in Int /\ vs[n + 1][t] \in Int /\ vs[n + 1][u] = -vs[n + 1][t]
    BY <2>1, <2>2 DEF Vector
  <2>5. QED
    BY <2>1, <2>3, <2>4
<1> HIDE DEF S
<1>5. m \in S
  BY <1>2, <1>3, <1>4, Induction
<1>6. QED
  BY <1>1, <1>2, <1>5 DEF S

\* Where every vector is zero, so is the sum.
LEMMA SumNone ==
  ASSUME NEW vs \in Seq(Vector), NEW t \in Term, \A k \in 1 .. Len(vs) : vs[k][t] = 0
  PROVE  Sum(vs)[t] = 0
<1>1. Sum(vs)[t] = -Sum(vs)[t]
  BY SumOpposed
<1>2. Sum(vs)[t] \in Int
  BY SumVector DEF Vector
<1>3. QED
  BY <1>1, <1>2
-----------------------------------------------------------------------------
(* Shares *)

Kind == {"meas", "proof"}
Seed(r, k) == <<"expand", r, k, k>>

\* What the seeds of the first n helpers of report r expand to, together.
Seeds(r, n) == [t \in Term |-> IF \E k \in 1 .. n : t = Seed(r, k) THEN 1 ELSE 0]

\* The leader's measurement or proof share, and anyone's.
LeaderShare(u, r)  == Minus(Unit(<<u, r>>), Seeds(r, shares - 1))
ShareOf(u, j, x, k) == IF j = 0 THEN LeaderShare(u, x) ELSE expand(x, k, j)

LEMMA Terms ==
  /\ \A u \in Kind, r \in Report : <<u, r>> \in Term
  /\ \A r \in Report, k \in Helper, j \in AggID \ {0} : <<"expand", r, k, j>> \in Term
  /\ \A u, r, x, k, j : <<u, r>> # <<"expand", x, k, j>>
  /\ \A k \in Helper : k \in AggID \ {0} /\ k \in Aggregator
  /\ shares - 1 \in Nat /\ shares \in Nat /\ shares >= 2
<1>1. \A u \in Kind, r \in Report : <<u, r>> \in Term
  BY DEF Term, Kind
<1>2. \A r \in Report, k \in Helper, j \in AggID \ {0} : <<"expand", r, k, j>> \in Term
  BY DEF Term
<1>3. \A u, r, x, k, j : <<u, r>> # <<"expand", x, k, j>>
  OBVIOUS
<1>4. QED
  BY <1>1, <1>2, <1>3, SharesAssumption DEF Helper, AggID, Aggregator

LEMMA UnitVector ==
  \A a \in Term : Unit(a) \in Vector /\ \A t \in Term : Unit(a)[t] = IF t = a THEN 1 ELSE 0
BY DEF Unit, Zero, Vector

LEMMA SeedTerm == ASSUME NEW r \in Report, NEW k \in Helper PROVE Seed(r, k) \in Term
BY Terms DEF Seed

LEMMA SeedsGrow ==
  ASSUME NEW r \in Report, NEW n \in Nat, n + 1 \in Helper
  PROVE  /\ Seeds(r, n) \in Vector /\ Seeds(r, n + 1) \in Vector
         /\ \A t \in Term : Seeds(r, n + 1)[t] = Seeds(r, n)[t] + Unit(Seed(r, n + 1))[t]
<1>1. Seeds(r, n) \in Vector /\ Seeds(r, n + 1) \in Vector
  BY DEF Seeds, Vector
<1>2. ASSUME NEW t \in Term
      PROVE  Seeds(r, n + 1)[t] = Seeds(r, n)[t] + Unit(Seed(r, n + 1))[t]
  <2>1. Unit(Seed(r, n + 1))[t] = IF t = Seed(r, n + 1) THEN 1 ELSE 0
    BY SeedTerm, UnitVector
  <2>2. \A k \in 1 .. n : Seed(r, k) # Seed(r, n + 1)
    BY DEF Seed
  <2>3. \A k \in 1 .. n + 1 : k \in 1 .. n \/ k = n + 1
    OBVIOUS
  <2>4. n + 1 \in 1 .. n + 1 /\ \A k \in 1 .. n : k \in 1 .. n + 1
    OBVIOUS
  <2>5. (\E k \in 1 .. n + 1 : t = Seed(r, k)) <=> (\E k \in 1 .. n : t = Seed(r, k)) \/ t = Seed(r, n + 1)
    BY <2>3, <2>4
  <2>6. t = Seed(r, n + 1) => ~\E k \in 1 .. n : t = Seed(r, k)
    BY <2>2
  <2>7. /\ Seeds(r, n + 1)[t] = IF \E k \in 1 .. n + 1 : t = Seed(r, k) THEN 1 ELSE 0
        /\ Seeds(r, n)[t] = IF \E k \in 1 .. n : t = Seed(r, k) THEN 1 ELSE 0
    BY DEF Seeds
  <2>8. QED
    BY <2>1, <2>5, <2>6, <2>7
<1>3. QED
  BY <1>1, <1>2

\* Vectors that agree everywhere are equal.
LEMMA SameVector ==
  ASSUME NEW v \in Vector, NEW w \in Vector, \A t \in Term : v[t] = w[t]
  PROVE  v = w
BY DEF Vector

LEMMA SeedsNone == ASSUME NEW r PROVE Seeds(r, 0) = Zero
BY DEF Seeds, Zero

LEMMA SeedsSum == ASSUME NEW r \in Report PROVE Sum([i \in Helper |-> expand(r, i, i)]) = Seeds(r, shares - 1)
<1> DEFINE m == shares - 1
           vs == [i \in Helper |-> expand(r, i, i)]
           g == [n \in 0 .. m |-> Seeds(r, n)]
<1>1. m \in Nat /\ Helper = 1 .. m
  BY Terms DEF Helper
<1>2. \A i \in Helper : expand(r, i, i) = Unit(Seed(r, i)) /\ expand(r, i, i) \in Vector
  BY SeedTerm, UnitVector DEF expand, Seed
<1>3. vs \in Seq(Vector) /\ Len(vs) = m
  <2>1. vs = [i \in 1 .. m |-> expand(r, i, i)] /\ \A i \in 1 .. m : expand(r, i, i) \in Vector
    BY <1>1, <1>2
  <2> HIDE DEF m, vs
  <2>2. QED
    BY <1>1, <2>1
<1> HIDE DEF m
<1>4. Prefix(g, vs)
  <2>1. \A n \in 0 .. m : Seeds(r, n) \in Vector
    BY DEF Seeds, Vector
  <2>2. g[0] = Zero
    BY <1>1, SeedsNone
  <2>3. ASSUME NEW k \in 0 .. m - 1 PROVE g[k + 1] = Plus(g[k], vs[k + 1])
    <3>1. k \in Nat /\ k \in 0 .. m /\ k + 1 \in 0 .. m /\ k + 1 \in Helper
      BY <1>1
    <3>2. g[k] = Seeds(r, k) /\ g[k + 1] = Seeds(r, k + 1) /\ vs[k + 1] = Unit(Seed(r, k + 1))
      BY <1>2, <3>1
    <3>3. Seeds(r, k) \in Vector /\ Seeds(r, k + 1) \in Vector /\ Unit(Seed(r, k + 1)) \in Vector
      BY <1>2, <3>1, SeedsGrow
    <3>4. \A t \in Term : Seeds(r, k + 1)[t] = Plus(Seeds(r, k), Unit(Seed(r, k + 1)))[t]
      BY <3>1, <3>3, SeedsGrow, PlusVector
    <3>5. Seeds(r, k + 1) = Plus(Seeds(r, k), Unit(Seed(r, k + 1)))
      BY <3>3, <3>4, PlusVector, SameVector
    <3>6. QED
      BY <3>2, <3>5
  <2> HIDE DEF vs
  <2>4. QED
    BY <1>3, <2>1, <2>2, <2>3 DEF Prefix
<1> HIDE DEF vs
<1>5. Sum(vs) = g[m]
  BY <1>3, <1>4, SumIs
<1>6. QED
  BY <1>1, <1>5 DEF vs, m

LEMMA LeaderVector ==
  ASSUME NEW u \in Kind, NEW r \in Report
  PROVE  /\ LeaderShare(u, r) \in Vector
         /\ \A t \in Term : LeaderShare(u, r)[t] = Unit(<<u, r>>)[t] - Seeds(r, shares - 1)[t]
<1>1. Unit(<<u, r>>) \in Vector /\ Seeds(r, shares - 1) \in Vector
  BY Terms, UnitVector DEF Seeds, Vector
<1>2. QED
  BY <1>1, PlusVector DEF LeaderShare

LEMMA ShareVector ==
  ASSUME NEW u \in Kind, NEW x \in Report, NEW j \in AggID, NEW k \in Aggregator, (j = 0) <=> (k = 0)
  PROVE  ShareOf(u, j, x, k) \in Vector
<1>1. CASE j = 0
  BY <1>1, LeaderVector DEF ShareOf
<1>2. CASE j # 0
  <2>1. k \in Helper /\ j \in AggID \ {0}
    BY <1>2, Terms DEF Aggregator, Helper
  <2>2. QED
    BY <1>2, <2>1, Terms, UnitVector DEF ShareOf, expand
<1>3. QED
  BY <1>1, <1>2

\* The shares of a report, each read by its aggregator, add up to what was shared.
LEMMA SharesSum ==
  ASSUME NEW u \in Kind, NEW r \in Report
  PROVE  Sum([i \in 1 .. shares |-> ShareOf(u, i - 1, r, i - 1)]) = Unit(<<u, r>>)
<1> DEFINE vs == [i \in 1 .. shares |-> ShareOf(u, i - 1, r, i - 1)]
           a == Unit(<<u, r>>)
           Left(n) == IF n = 0 THEN Zero
                      ELSE [t \in Term |-> LeaderShare(u, r)[t] + Seeds(r, n - 1)[t]]
           g == [n \in 0 .. shares |-> Left(n)]
<1>1. shares \in Nat /\ shares >= 2
  BY Terms
<1>2. vs \in Seq(Vector) /\ Len(vs) = shares
  <2>1. \A i \in 1 .. shares : ShareOf(u, i - 1, r, i - 1) \in Vector
    <3> TAKE i \in 1 .. shares
    <3>1. i - 1 \in AggID /\ i - 1 \in Aggregator
      BY <1>1 DEF AggID, Aggregator
    <3>2. QED
      BY <3>1, ShareVector
  <2>2. QED
    BY <1>1, <2>1
<1>3. LeaderShare(u, r) \in Vector /\ \A n \in Nat : Seeds(r, n) \in Vector
  <2>1. \A n \in Nat : Seeds(r, n) \in Vector
    BY DEF Seeds, Vector
  <2>2. QED
    BY <2>1, LeaderVector
<1>4. \A n \in 0 .. shares : Left(n) \in Vector
  <2> TAKE n \in 0 .. shares
  <2>1. CASE n = 0
    BY <2>1, PlusVector
  <2>2. CASE n # 0
    <3>1. Seeds(r, n - 1) \in Vector /\ LeaderShare(u, r) \in Vector
      <4>1. n - 1 \in Nat
        BY <1>1, <2>2
      <4>2. QED
        BY <1>3, <4>1
    <3>2. QED
      BY <2>2, <3>1 DEF Vector
  <2>3. QED
    BY <2>1, <2>2
<1>5. Prefix(g, vs)
  <2>1. g \in [0 .. shares -> Vector] /\ g[0] = Zero
    <3> HIDE DEF Left
    <3>1. g \in [0 .. shares -> Vector]
      BY <1>4
    <3>2. 0 \in 0 .. shares
      BY <1>1
    <3>3. QED
      BY <3>1, <3>2 DEF Left
  <2>2. ASSUME NEW k \in 0 .. shares - 1 PROVE g[k + 1] = Plus(g[k], vs[k + 1])
    <3>1. k \in 0 .. shares /\ k + 1 \in 0 .. shares /\ k + 1 \in 1 .. shares /\ (k + 1) - 1 = k
      BY <1>1
    <3>2. g[k] = Left(k) /\ g[k + 1] = Left(k + 1) /\ vs[k + 1] = ShareOf(u, k, r, k)
      BY <3>1
    <3>3. Left(k) \in Vector /\ Left(k + 1) \in Vector /\ ShareOf(u, k, r, k) \in Vector
      <4>1. k \in AggID /\ k \in Aggregator
        BY <1>1 DEF AggID, Aggregator
      <4>2. QED
        BY <1>4, <3>1, <4>1, ShareVector
    <3>4. ASSUME NEW t \in Term PROVE Left(k + 1)[t] = Left(k)[t] + ShareOf(u, k, r, k)[t]
      <4>1. Left(k + 1)[t] = LeaderShare(u, r)[t] + Seeds(r, k)[t]
        BY <1>1, <3>1
      <4>2. LeaderShare(u, r)[t] \in Int /\ Seeds(r, k)[t] \in Int
        <5>1. k \in Nat
          BY <1>1
        <5>2. Seeds(r, k) \in Vector
          BY <1>3, <5>1
        <5>3. QED
          BY <1>3, <5>2 DEF Vector
      <4>3. CASE k = 0
        BY <4>1, <4>2, <4>3, SeedsNone DEF ShareOf, Zero
      <4>4. CASE k # 0
        <5>1. k - 1 \in Nat /\ (k - 1) + 1 = k /\ k \in Helper
          BY <1>1, <4>4 DEF Helper
        <5>2. Seeds(r, k)[t] = Seeds(r, k - 1)[t] + Unit(Seed(r, k))[t]
          BY <5>1, SeedsGrow
        <5>3. ShareOf(u, k, r, k) = Unit(Seed(r, k))
          BY <4>4 DEF ShareOf, expand, Seed
        <5>4. Left(k)[t] = LeaderShare(u, r)[t] + Seeds(r, k - 1)[t]
          BY <4>4
        <5>5. Seeds(r, k - 1)[t] \in Int /\ Unit(Seed(r, k))[t] \in Int
          BY <1>3, <5>1, SeedTerm, UnitVector DEF Vector
        <5>6. QED
          BY <4>1, <4>2, <5>2, <5>3, <5>4, <5>5
      <4>5. QED
        BY <4>3, <4>4
    <3> HIDE DEF Left, g, vs
    <3>5. Left(k + 1) = Plus(Left(k), ShareOf(u, k, r, k))
      <4>1. \A t \in Term : Left(k + 1)[t] = Plus(Left(k), ShareOf(u, k, r, k))[t]
        BY <3>3, <3>4, PlusVector
      <4>2. QED
        BY <3>3, <4>1, PlusVector, SameVector
    <3>6. QED
      BY <3>2, <3>5
  <2> HIDE DEF g, vs
  <2>3. QED
    BY <1>2, <2>1, <2>2 DEF Prefix
<1>6. Sum(vs) = Left(shares)
  <2>1. g[shares] = Left(shares)
    BY <1>1
  <2> HIDE DEF g, vs, Left
  <2>2. QED
    BY <1>2, <1>5, <2>1, SumIs
<1>7. Left(shares) = a
  <2>1. a \in Vector /\ Left(shares) \in Vector
    BY <1>1, <1>4, Terms, UnitVector
  <2>2. \A t \in Term : Left(shares)[t] = a[t]
    <3> TAKE t \in Term
    <3>1. Left(shares)[t] = LeaderShare(u, r)[t] + Seeds(r, shares - 1)[t]
      BY <1>1
    <3>2. LeaderShare(u, r)[t] = a[t] - Seeds(r, shares - 1)[t]
      BY LeaderVector
    <3>3. a[t] \in Int /\ Seeds(r, shares - 1)[t] \in Int
      BY <1>3, <2>1, Terms DEF Vector
    <3> HIDE DEF Left, a
    <3>4. QED
      BY <3>1, <3>2, <3>3
  <2> HIDE DEF Left, a
  <2>3. QED
    BY <2>1, <2>2, SameVector
<1>8. QED
  BY <1>6, <1>7

\* What a measurement share has at the measurement of r and at the seed of helper h.
LEMMA ShareAt ==
  ASSUME NEW x \in Report, NEW j \in AggID, NEW k \in Aggregator, (j = 0) <=> (k = 0),
         NEW r \in Report, NEW h \in Helper
  PROVE  /\ ShareOf("meas", j, x, k)[<<"meas", r>>] = IF j = 0 /\ x = r THEN 1 ELSE 0
         /\ ShareOf("meas", j, x, k)[Seed(r, h)] = IF j = 0 THEN IF x = r THEN -1 ELSE 0
                                                  ELSE IF x = r /\ j = h /\ k = h THEN 1 ELSE 0
<1>1. <<"meas", r>> \in Term /\ <<"meas", x>> \in Term /\ Seed(r, h) \in Term /\ "meas" \in Kind
  BY Terms, SeedTerm DEF Kind
<1>2. CASE j = 0
  <2>1. \A t \in Term : ShareOf("meas", j, x, k)[t] = Unit(<<"meas", x>>)[t] - Seeds(x, shares - 1)[t]
    BY <1>1, <1>2, LeaderVector DEF ShareOf
  <2>2. Seeds(x, shares - 1)[<<"meas", r>>] = 0
    BY <1>1, Terms DEF Seeds, Seed
  <2>3. Seeds(x, shares - 1)[Seed(r, h)] = IF x = r THEN 1 ELSE 0
    <3>1. (\E i \in 1 .. shares - 1 : Seed(r, h) = Seed(x, i)) <=> x = r
      <4>1. h \in 1 .. shares - 1
        BY DEF Helper
      <4>2. \A i : Seed(r, h) = Seed(x, i) <=> (x = r /\ i = h)
        BY DEF Seed
      <4>3. QED
        BY <4>1, <4>2
    <3>2. QED
      BY <1>1, <3>1 DEF Seeds
  <2>4. Unit(<<"meas", x>>)[<<"meas", r>>] = IF x = r THEN 1 ELSE 0
    <3>1. <<"meas", r>> = <<"meas", x>> <=> x = r
      OBVIOUS
    <3>2. QED
      BY <1>1, <3>1, UnitVector
  <2>5. Unit(<<"meas", x>>)[Seed(r, h)] = 0
    <3>1. Seed(r, h) # <<"meas", x>>
      BY Terms DEF Seed
    <3>2. QED
      BY <1>1, <3>1, UnitVector
  <2>6. QED
    BY <1>1, <1>2, <2>1, <2>2, <2>3, <2>4, <2>5
<1>3. CASE j # 0
  <2>1. k \in Helper /\ j \in AggID \ {0}
    BY <1>3, Terms DEF Aggregator, Helper
  <2>2. ShareOf("meas", j, x, k) = Unit(<<"expand", x, k, j>>) /\ <<"expand", x, k, j>> \in Term
    BY <1>3, <2>1, Terms DEF ShareOf, expand
  <2>3. <<"meas", r>> # <<"expand", x, k, j>>
    BY Terms
  <2>4. Seed(r, h) = <<"expand", x, k, j>> <=> (x = r /\ j = h /\ k = h)
    BY DEF Seed
  <2>5. QED
    BY <1>1, <1>3, <2>2, <2>3, <2>4, UnitVector
<1>4. QED
  BY <1>2, <1>3
-----------------------------------------------------------------------------
(* The aggregators' states *)

\* The public share of report p, with joint randomness, and what PrepInit makes of it
\* and of share k of report x.
Public(p) == [i \in 1 .. shares |-> <<p, i - 1, i - 1, p, ShareOf("meas", i - 1, p, i - 1)>>]

PrepOf(j, n, p, x, k) ==
  [given |-> [public |-> p, report |-> x, share |-> k],
   outShare |-> ShareOf("meas", j, x, k),
   corrected |-> IF jointRand THEN Public(p) ELSE nil,
   part |-> IF jointRand THEN <<x, k, j, n, ShareOf("meas", j, x, k)>> ELSE nil,
   verifiersShare |-> [nonce |-> n, jointRand |-> IF jointRand THEN Public(p) ELSE nil,
                       meas |-> ShareOf("meas", j, x, k), proof |-> ShareOf("proof", j, x, k)]]

ReportInv == /\ jointRand \in BOOLEAN /\ DOMAIN report = Report
             /\ \A r \in Report : report[r] # nil => report[r] = ShardReport(r)

Begun(j, n, g) ==
  /\ g.public \in Report /\ g.report \in Report /\ g.share \in Aggregator
  /\ report[g.public] # nil /\ report[g.report] # nil /\ ((j = 0) <=> (g.share = 0))
  /\ prep[j][n] = PrepOf(j, n, g.public, g.report, g.share)

PrepInv == /\ DOMAIN prep = AggID
           /\ \A j \in AggID : /\ DOMAIN prep[j] = Report
                               /\ \A n \in Report : prep[j][n] # nil => Begun(j, n, prep[j][n].given)

OutInv == /\ DOMAIN out = Aggregator
          /\ \A j \in Aggregator :
               /\ DOMAIN out[j] = Report
               /\ \A n \in Report : out[j][n] # nil => /\ prep[j][n] # nil
                                                       /\ out[j][n].share = prep[j][n].outShare

StateInv == ReportInv /\ PrepInv /\ OutInv /\ VerifiedTogether

LEMMA ShardIs ==
  ASSUME NEW r \in Report, jointRand \in BOOLEAN
  PROVE  ShardReport(r) = [public |-> IF jointRand THEN Public(r) ELSE <<>>,
                           measShare |-> LeaderShare("meas", r),
                           proofShare |-> LeaderShare("proof", r)]
<1> DEFINE all == Sum([i \in Helper |-> expand(r, i, i)])
           meas == Minus(Unit(<<"meas", r>>), all)
           parts == [i \in 1 .. shares |->
                  IF i = 1 THEN jointRandPart(r, 0, 0, r, meas)
                           ELSE jointRandPart(r, i - 1, i - 1, r, expand(r, i - 1, i - 1))]
<1>1. all = Seeds(r, shares - 1)
  BY SeedsSum
<1>2. meas = LeaderShare("meas", r)
  <2> HIDE DEF all
  <2>1. QED
    BY <1>1 DEF LeaderShare
<1>3. Minus(Unit(<<"proof", r>>), all) = LeaderShare("proof", r)
  <2> HIDE DEF all
  <2>1. QED
    BY <1>1 DEF LeaderShare
<1>4. ShardReport(r) = [public |-> IF jointRand THEN parts ELSE <<>>, measShare |-> meas,
                        proofShare |-> Minus(Unit(<<"proof", r>>), all)]
  BY DEF ShardReport
<1> HIDE DEF meas, all
<1>5. parts = Public(r)
  <2>1. ASSUME NEW i \in 1 .. shares
        PROVE  (IF i = 1 THEN jointRandPart(r, 0, 0, r, meas)
                         ELSE jointRandPart(r, i - 1, i - 1, r, expand(r, i - 1, i - 1)))
               = <<r, i - 1, i - 1, r, ShareOf("meas", i - 1, r, i - 1)>>
    <3>1. CASE i = 1
      BY <1>2, <3>1 DEF jointRandPart, ShareOf
    <3>2. CASE i # 1
      <4>1. i - 1 # 0
        BY <3>2
      <4>2. QED
        BY <3>2, <4>1 DEF jointRandPart, ShareOf
    <3>3. QED
      BY <3>1, <3>2
  <2>2. QED
    BY <2>1 DEF Public
<1>6. QED
  BY <1>2, <1>3, <1>4, <1>5

LEMMA PrepInitIs ==
  ASSUME ReportInv, NEW j \in AggID, NEW n \in Report, NEW p \in Report, NEW x \in Report,
         NEW k \in Aggregator, report[p] # nil, report[x] # nil, getInputShareContent(j, x, k) # nil
  PROVE  ((j = 0) <=> (k = 0)) /\ PrepInitOf(j, n, p, x, k) = PrepOf(j, n, p, x, k)
<1>1. (j = 0) <=> (k = 0)
  BY DEF getInputShareContent
<1>2. report[p] = ShardReport(p) /\ report[x] = ShardReport(x) /\ jointRand \in BOOLEAN
  BY DEF ReportInv
<1>3. report[x].measShare = LeaderShare("meas", x) /\ report[x].proofShare = LeaderShare("proof", x)
  BY <1>2, ShardIs
<1>4. jointRand => report[p].public = Public(p)
  BY <1>2, ShardIs
<1>5. getInputShareContent(j, x, k) = [meas |-> ShareOf("meas", j, x, k), proof |-> ShareOf("proof", j, x, k)]
  BY <1>1, <1>3 DEF getInputShareContent, ShareOf
<1>6. QED
  BY <1>1, <1>4, <1>5 DEF PrepInitOf, PrepOf, Query, jointRandPart, jointRandSeed

LEMMA StateInit == Init => StateInv
<1> SUFFICES ASSUME Init PROVE StateInv
  OBVIOUS
<1>1. ReportInv
  BY DEF Init, None, ReportInv
<1>2. PrepInv
  BY DEF Init, None, PrepInv
<1>3. OutInv
  BY DEF Init, None, OutInv
<1>4. VerifiedTogether
  BY DEF Init, None, VerifiedTogether
<1>5. QED
  BY <1>1, <1>2, <1>3, <1>4 DEF StateInv

\* Where prep only grows and out stays, what was released together stays so.
LEMMA StillTogether ==
  ASSUME StateInv, UNCHANGED <<jointRand, out>>,
         \A j \in AggID, n \in Report : prep[j][n] # nil => prep'[j][n] = prep[j][n]
  PROVE  VerifiedTogether'
<1> SUFFICES ASSUME NEW j \in Aggregator, NEW n \in Report, out'[j][n] # nil,
                    MadeFor(j, n)'
             PROVE  AllVerified(j, n)'
  BY Zenon DEF VerifiedTogether
<1>1. \A i \in Aggregator : i \in AggID
  BY SharesAssumption DEF Aggregator, AggID
<1>2. prep[j][n] # nil
  BY DEF StateInv, OutInv
<1>3. prep'[j][n] = prep[j][n]
  BY <1>1, <1>2
<1>4. AllVerified(j, n)
  BY <1>3 DEF StateInv, VerifiedTogether, MadeFor
<1>5. \A x \in Report : Shared(n, x) => Shared(n, x)'
  BY <1>1 DEF Shared
<1>6. QED
  BY <1>3, <1>4, <1>5 DEF AllVerified

LEMMA StateShard == ASSUME StateInv, NEW r \in Report, Shard(r) PROVE StateInv'
<1>1. /\ report[r] = nil /\ report' = [report EXCEPT ![r] = ShardReport(r)]
      /\ UNCHANGED <<jointRand, prep, out, agg, batch>>
  BY DEF Shard
<1>2. ShardReport(r)' = ShardReport(r) /\ \A q \in Report : ShardReport(q)' = ShardReport(q)
  BY <1>1 DEF ShardReport, Sum
<1>3. \A q \in Report : report[q] # nil => report'[q] = report[q]
  BY <1>1 DEF StateInv, ReportInv
<1>4. ReportInv'
  BY <1>1, <1>2 DEF StateInv, ReportInv
<1>5. \A j \in AggID, n \in Report : \A g : Begun(j, n, g) => Begun(j, n, g)'
  <2> TAKE j \in AggID, n \in Report
  <2> TAKE g
  <2>1. PrepOf(j, n, g.public, g.report, g.share)' = PrepOf(j, n, g.public, g.report, g.share)
    BY <1>1 DEF PrepOf, Public
  <2>2. QED
    BY <1>1, <1>3, <2>1 DEF Begun
<1>6. PrepInv'
  BY <1>1, <1>5 DEF StateInv, PrepInv
<1>7. OutInv'
  BY <1>1 DEF StateInv, OutInv
<1>8. VerifiedTogether'
  BY <1>1, StillTogether
<1>9. QED
  BY <1>4, <1>6, <1>7, <1>8 DEF StateInv

LEMMA StatePrepInit ==
  ASSUME StateInv, NEW j \in AggID, NEW nonce \in Report, NEW p \in Report, NEW x \in Report,
         NEW k \in Aggregator, PrepInit(j, nonce, p, x, k)
  PROVE  StateInv'
<1>1. /\ prep[j][nonce] = nil
      /\ report[nonce] # nil /\ report[p] # nil /\ report[x] # nil
      /\ getInputShareContent(j, x, k) # nil
      /\ prep' = [prep EXCEPT ![j][nonce] = PrepInitOf(j, nonce, p, x, k)]
      /\ UNCHANGED <<jointRand, report, out, agg, batch>>
  BY DEF PrepInit
<1>2. ((j = 0) <=> (k = 0)) /\ PrepInitOf(j, nonce, p, x, k) = PrepOf(j, nonce, p, x, k)
  BY <1>1, PrepInitIs DEF StateInv
<1>3. DOMAIN prep = AggID /\ \A i \in AggID : DOMAIN prep[i] = Report
  BY DEF StateInv, PrepInv
<1>4. /\ DOMAIN prep' = AggID /\ \A i \in AggID : DOMAIN prep'[i] = Report
      /\ prep'[j][nonce] = PrepOf(j, nonce, p, x, k)
      /\ \A i \in AggID, n \in Report : i # j \/ n # nonce => prep'[i][n] = prep[i][n]
  BY <1>1, <1>2, <1>3
<1>5. \A i \in AggID, n \in Report : prep[i][n] # nil => prep'[i][n] = prep[i][n]
  BY <1>1, <1>4
<1>6. ReportInv'
  <2>1. \A q \in Report : ShardReport(q)' = ShardReport(q)
    BY <1>1 DEF ShardReport, Sum
  <2>2. QED
    BY <1>1, <2>1 DEF StateInv, ReportInv
<1>7. \A i, n, q, y, h : PrepOf(i, n, q, y, h)' = PrepOf(i, n, q, y, h)
  BY <1>1 DEF PrepOf, Public
<1>8. PrepInv'
  <2> SUFFICES ASSUME NEW i \in AggID, NEW n \in Report, prep'[i][n] # nil
               PROVE  Begun(i, n, prep[i][n].given)'
    BY <1>4, Zenon DEF PrepInv
  <2>1. CASE i = j /\ n = nonce
    <3>1. prep'[i][n] = PrepOf(j, nonce, p, x, k)
      BY <1>4, <2>1
    <3>2. prep'[i][n].given = [public |-> p, report |-> x, share |-> k]
      BY <3>1 DEF PrepOf
    <3>3. QED
      BY <1>1, <1>2, <1>7, <2>1, <3>1, <3>2 DEF Begun
  <2>2. CASE i # j \/ n # nonce
    <3>1. prep'[i][n] = prep[i][n]
      BY <1>4, <2>2
    <3>2. Begun(i, n, prep[i][n].given)
      BY <3>1 DEF StateInv, PrepInv
    <3>3. QED
      BY <1>1, <1>7, <3>1, <3>2 DEF Begun
  <2>3. QED
    BY <2>1, <2>2
<1>9. OutInv'
  <2>1. \A i \in Aggregator : i \in AggID
    BY SharesAssumption DEF Aggregator, AggID
  <2>2. QED
    BY <1>1, <1>5, <2>1 DEF StateInv, OutInv
<1>10. VerifiedTogether'
  BY <1>1, <1>5, StillTogether
<1>11. QED
  BY <1>6, <1>8, <1>9, <1>10 DEF StateInv

\* What a message is: some aggregators' prep shares that decide, and what they say.
Combined(msg, m, senders) ==
  /\ senders \in [1 .. m -> AggID \X Report]
  /\ \A i \in 1 .. m : prep[senders[i][1]][senders[i][2]] # nil
  /\ Decide([i \in 1 .. m |-> prep[senders[i][1]][senders[i][2]].verifiersShare])
  /\ msg = [nonces |-> {prep[senders[i][1]][senders[i][2]].verifiersShare.nonce : i \in 1 .. m},
            joinRand |-> IF jointRand THEN [i \in 1 .. m |-> prep[senders[i][1]][senders[i][2]].part]
                                      ELSE nil]

LEMMA MessageIs ==
  ASSUME NEW msg \in Messages
  PROVE  \E m \in Nat : \E senders : Combined(msg, m, senders)
<1>1. PICK senders \in SeqOf(Prepared, shares) :
        /\ msg = PrepSharesToPrep([i \in DOMAIN senders |-> prep[senders[i][1]][senders[i][2]]])
        /\ msg # nil
  BY DEF Messages
<1>2. PICK m \in 0 .. shares : senders \in [1 .. m -> Prepared]
  BY <1>1 DEF SeqOf
<1> DEFINE ps == [i \in DOMAIN senders |-> prep[senders[i][1]][senders[i][2]]]
<1>3. DOMAIN senders = 1 .. m /\ DOMAIN ps = 1 .. m
  BY <1>2
<1>4. \A i \in 1 .. m : senders[i] \in Prepared
  BY <1>2
<1>5. \A i \in 1 .. m : senders[i] \in AggID \X Report /\ prep[senders[i][1]][senders[i][2]] # nil
  BY <1>4 DEF Prepared
<1>6. senders \in [1 .. m -> AggID \X Report]
  BY <1>2, <1>5
<1>7. \A i \in 1 .. m : ps[i] = prep[senders[i][1]][senders[i][2]]
  BY <1>3
<1> HIDE DEF ps
<1>8. msg = PrepSharesToPrep(ps) /\ msg # nil
  BY <1>1 DEF ps
<1>9. /\ Decide([i \in 1 .. m |-> ps[i].verifiersShare])
      /\ msg = [nonces |-> {ps[i].verifiersShare.nonce : i \in 1 .. m},
                joinRand |-> IF jointRand THEN [i \in 1 .. m |-> ps[i].part] ELSE nil]
  BY <1>3, <1>8 DEF PrepSharesToPrep, jointRandSeed
<1>10. [i \in 1 .. m |-> ps[i].verifiersShare] = [i \in 1 .. m |-> prep[senders[i][1]][senders[i][2]].verifiersShare]
  BY <1>7
<1>11. [i \in 1 .. m |-> ps[i].part] = [i \in 1 .. m |-> prep[senders[i][1]][senders[i][2]].part]
  BY <1>7
<1>12. {ps[i].verifiersShare.nonce : i \in 1 .. m}
       = {prep[senders[i][1]][senders[i][2]].verifiersShare.nonce : i \in 1 .. m}
  BY <1>7
<1>13. Combined(msg, m, senders)
  BY <1>5, <1>6, <1>9, <1>10, <1>11, <1>12 DEF Combined
<1>14. QED
  BY <1>2, <1>13, SharesAssumption

\* The sender of a prep share, what it began with, and its prep share.
Sender(senders, i) == senders[i][1]
Under(senders, i)  == senders[i][2]
PrepShare(senders, i) == prep[Sender(senders, i)][Under(senders, i)]

LEMMA SenderIs ==
  ASSUME StateInv, NEW msg, NEW m \in Nat, NEW senders, Combined(msg, m, senders), NEW i \in 1 .. m,
         NEW j, j = Sender(senders, i), NEW n, n = Under(senders, i)
  PROVE  /\ j \in AggID /\ n \in Report /\ prep[j][n] # nil /\ Begun(j, n, prep[j][n].given)
         /\ prep[j][n].verifiersShare.nonce = n
         /\ prep[j][n].verifiersShare.meas = ShareOf("meas", j, prep[j][n].given.report, prep[j][n].given.share)
         /\ jointRand => prep[j][n].part = <<prep[j][n].given.report, prep[j][n].given.share, j, n,
                                             prep[j][n].verifiersShare.meas>>
<1>1. j \in AggID /\ n \in Report /\ prep[j][n] # nil
  BY DEF Combined, Sender, Under
<1>2. Begun(j, n, prep[j][n].given)
  BY <1>1 DEF StateInv, PrepInv
<1> DEFINE g == prep[j][n].given
<1>3. prep[j][n] = PrepOf(j, n, g.public, g.report, g.share)
  BY <1>2 DEF Begun
<1> HIDE DEF g
<1>4. /\ prep[j][n].verifiersShare.nonce = n
      /\ prep[j][n].verifiersShare.meas = ShareOf("meas", j, g.report, g.share)
      /\ jointRand => prep[j][n].part = <<g.report, g.share, j, n, ShareOf("meas", j, g.report, g.share)>>
  BY <1>3 DEF PrepOf
<1>5. QED
  BY <1>1, <1>2, <1>4 DEF g

LEMMA PartIs ==
  \A x \in Report, k \in Aggregator, j \in AggID, n \in Report, v \in Vector : <<x, k, j, n, v>> \in Part
BY DEF Part

\* A public share is not nil.
LEMMA PublicSeq == ASSUME NEW p \in Report PROVE Public(p) \in Seq(Part) /\ Public(p) # nil
<1>1. ASSUME NEW i \in 1 .. shares
      PROVE  <<p, i - 1, i - 1, p, ShareOf("meas", i - 1, p, i - 1)>> \in Part
  <2>1. i - 1 \in Aggregator /\ i - 1 \in AggID
    BY Terms DEF Aggregator, AggID
  <2>2. ShareOf("meas", i - 1, p, i - 1) \in Vector
    BY <2>1, ShareVector DEF Kind
  <2>3. QED
    BY <2>1, <2>2 DEF Part
<1>2. Public(p) \in Seq(Part)
  BY <1>1, Terms DEF Public
<1>3. QED
  BY <1>2, NilAssumption

\* With joint randomness, its seed tells who made which part of it, from what.
LEMMA JointRelease ==
  ASSUME StateInv, jointRand, NEW msg, NEW m \in Nat, NEW senders, Combined(msg, m, senders),
         NEW j \in Aggregator, NEW nonce \in Report, prep[j][nonce] # nil,
         Releases(prep[j][nonce], msg),
         msg.nonces = {nonce} \/ prep[j][nonce].given.public = nonce
  PROVE  Shared(nonce, nonce) /\ prep[j][nonce].given.public = nonce
<1> DEFINE p == prep[j][nonce].given.public
           J == [i \in 1 .. m |-> prep[senders[i][1]][senders[i][2]].part]
<1>1. j \in AggID /\ \A i \in Aggregator : i \in AggID /\ i + 1 \in 1 .. shares /\ (i + 1) - 1 = i
  BY Terms DEF Aggregator, AggID
<1>2. Begun(j, nonce, prep[j][nonce].given)
  BY <1>1 DEF StateInv, PrepInv
<1>3. p \in Report /\ prep[j][nonce].corrected = Public(p)
  BY <1>2 DEF Begun, PrepOf
<1>4. msg.joinRand = J
  BY DEF Combined
<1>5. \A i \in 1 .. m : /\ Sender(senders, i) \in AggID /\ Under(senders, i) \in Report
                        /\ PrepShare(senders, i) # nil
                        /\ Begun(Sender(senders, i), Under(senders, i), PrepShare(senders, i).given)
                        /\ PrepShare(senders, i).verifiersShare.nonce = Under(senders, i)
                        /\ PrepShare(senders, i).verifiersShare.meas \in Vector
                        /\ PrepShare(senders, i).part
                             = <<PrepShare(senders, i).given.report, PrepShare(senders, i).given.share,
                                 Sender(senders, i), Under(senders, i),
                                 PrepShare(senders, i).verifiersShare.meas>>
  <2> TAKE i \in 1 .. m
  <2> DEFINE a == Sender(senders, i)
             b == Under(senders, i)
  <2>1. /\ a \in AggID /\ b \in Report /\ prep[a][b] # nil /\ Begun(a, b, prep[a][b].given)
        /\ prep[a][b].verifiersShare.nonce = b
        /\ prep[a][b].verifiersShare.meas = ShareOf("meas", a, prep[a][b].given.report, prep[a][b].given.share)
    BY SenderIs
  <2>2. prep[a][b].verifiersShare.meas \in Vector
    BY <2>1, ShareVector DEF Begun, Kind
  <2>3. jointRand => prep[a][b].part = <<prep[a][b].given.report, prep[a][b].given.share, a, b,
                                         prep[a][b].verifiersShare.meas>>
    BY SenderIs
  <2>4. prep[a][b].part = <<prep[a][b].given.report, prep[a][b].given.share, a, b,
                            prep[a][b].verifiersShare.meas>>
    BY <2>3, Zenon
  <2>5. QED
    BY <2>1, <2>2, <2>4 DEF PrepShare
<1>6. \A i \in 1 .. m : J[i] = PrepShare(senders, i).part
  BY DEF PrepShare, Sender, Under
<1>7. J # nil
  <2>1. \A i \in 1 .. m : J[i] \in Part
    <3>1. \A i \in 1 .. m : PrepShare(senders, i).part \in Part
      <4> TAKE i \in 1 .. m
      <4>1. PICK a \in AggID, b \in Report, w \in Vector :
              /\ a = Sender(senders, i) /\ b = Under(senders, i)
              /\ w = PrepShare(senders, i).verifiersShare.meas
        BY <1>5
      <4>2. PICK x \in Report, k \in Aggregator :
              x = PrepShare(senders, i).given.report /\ k = PrepShare(senders, i).given.share
        BY <1>5, Zenon DEF Begun
      <4>3. PrepShare(senders, i).part = <<x, k, a, b, w>>
        BY <1>5, <4>1, <4>2
      <4>4. <<x, k, a, b, w>> \in Part
        BY PartIs
      <4>5. QED
        BY <4>3, <4>4
    <3> HIDE DEF J
    <3>2. QED
      BY <1>6, <3>1
  <2>2. J = [i \in 1 .. m |-> J[i]]
    OBVIOUS
  <2> HIDE DEF J
  <2>3. J \in Seq(Part)
    BY <2>1, <2>2
  <2>4. QED
    BY <2>3, NilAssumption
<1> HIDE DEF J, p
<1>8. J = Public(p)
  BY <1>3, <1>4, <1>7, PublicSeq DEF Releases
<1>9. \A i \in 1 .. shares : i \in 1 .. m /\ J[i] = <<p, i - 1, i - 1, p, ShareOf("meas", i - 1, p, i - 1)>>
  <2>1. DOMAIN J = 1 .. m
    BY DEF J
  <2>2. QED
    BY <1>8, <2>1 DEF Public
<1>10. \A i \in 1 .. shares : /\ PrepShare(senders, i).given.report = p
                              /\ PrepShare(senders, i).given.share = i - 1
                              /\ Sender(senders, i) = i - 1 /\ Under(senders, i) = p
  BY <1>5, <1>6, <1>9
<1>11. p = nonce
  <2>1. CASE msg.nonces = {nonce}
    <3>1. 1 \in 1 .. shares /\ 1 \in 1 .. m
      BY <1>9, Terms
    <3>2. PrepShare(senders, 1).verifiersShare.nonce \in msg.nonces
      BY <3>1 DEF Combined, PrepShare, Sender, Under
    <3>3. PrepShare(senders, 1).verifiersShare.nonce = p
      BY <1>5, <1>10, <3>1
    <3>4. QED
      BY <2>1, <3>2, <3>3
  <2>2. CASE prep[j][nonce].given.public = nonce
    BY <2>2 DEF p
  <2>3. QED
    BY <2>1, <2>2
<1>12. Shared(nonce, nonce)
  <2> SUFFICES ASSUME NEW i \in Aggregator
               PROVE  /\ prep[i][nonce] # nil
                      /\ prep[i][nonce].given.report = nonce /\ prep[i][nonce].given.share = i
    BY DEF Shared
  <2>1. i + 1 \in 1 .. shares /\ (i + 1) - 1 = i /\ i + 1 \in 1 .. m
    BY <1>1, <1>9
  <2>2. PrepShare(senders, i + 1) = prep[i][nonce]
    BY <1>10, <1>11, <2>1 DEF PrepShare
  <2>3. QED
    BY <1>5, <1>10, <1>11, <2>1, <2>2
<1>13. QED
  BY <1>11, <1>12 DEF p

\* Without it, the terms tell who verified: the leader's share brings the measurement,
\* and takes with it what the seed of each helper expands to, which only that helper
\* brings back.
LEMMA PlainRelease ==
  ASSUME StateInv, NEW msg, NEW m \in Nat, NEW senders, Combined(msg, m, senders),
         NEW nonce \in Report, msg.nonces = {nonce}
  PROVE  \E x \in Report : Shared(nonce, x)
<1> DEFINE ver == [i \in 1 .. m |-> prep[senders[i][1]][senders[i][2]].verifiersShare]
           vs == [i \in DOMAIN ver |-> ver[i].meas]
           X(i) == PrepShare(senders, i).given.report
           K(i) == PrepShare(senders, i).given.share
<1>1. \A i \in 1 .. m : ver[i] = PrepShare(senders, i).verifiersShare
  BY DEF PrepShare, Sender, Under
<1>2. DOMAIN ver = 1 .. m
  OBVIOUS
<1>3. \A i \in 1 .. m : PrepShare(senders, i).verifiersShare.nonce \in msg.nonces
  BY DEF Combined, PrepShare, Sender, Under
<1>4. ver # <<>>
  <2>1. m # 0
    <3>1. PICK c \in msg.nonces : TRUE
      OBVIOUS
    <3>2. c \in {prep[senders[i][1]][senders[i][2]].verifiersShare.nonce : i \in 1 .. m}
      BY <3>1 DEF Combined
    <3>3. PICK i \in 1 .. m : TRUE
      BY <3>2, Zenon
    <3>4. QED
      BY <3>3
  <2>2. QED
    BY <1>2, <2>1
<1>5. Decide(ver)
  BY DEF Combined
<1> HIDE DEF ver
<1>6. PICK r \in Report : Sum(vs) = Unit(<<"meas", r>>)
  BY <1>4, <1>5 DEF Decide
<1>7. \A i \in 1 .. m : /\ Sender(senders, i) \in AggID /\ Under(senders, i) = nonce
                        /\ PrepShare(senders, i) # nil
                        /\ X(i) \in Report /\ K(i) \in Aggregator /\ ((Sender(senders, i) = 0) <=> (K(i) = 0))
                        /\ vs[i] = ShareOf("meas", Sender(senders, i), X(i), K(i))
  <2> TAKE i \in 1 .. m
  <2> DEFINE a == Sender(senders, i)
             b == Under(senders, i)
  <2>1. /\ a \in AggID /\ b \in Report /\ prep[a][b] # nil /\ Begun(a, b, prep[a][b].given)
        /\ prep[a][b].verifiersShare.nonce = b
        /\ prep[a][b].verifiersShare.meas = ShareOf("meas", a, prep[a][b].given.report, prep[a][b].given.share)
    BY SenderIs
  <2>2. b = nonce
    BY <1>3, <2>1 DEF PrepShare
  <2>3. vs[i] = prep[a][b].verifiersShare.meas
    BY <1>1, <1>2 DEF PrepShare
  <2> HIDE DEF vs
  <2>4. QED
    BY <2>1, <2>2, <2>3 DEF PrepShare, Begun
<1>8. vs \in Seq(Vector) /\ Len(vs) = m
  <2>1. vs = [i \in 1 .. m |-> vs[i]]
    BY <1>2
  <2> HIDE DEF vs
  <2>2. \A i \in 1 .. m : vs[i] \in Vector
    BY <1>7, ShareVector DEF Kind
  <2>3. QED
    BY <2>1, <2>2
<1> HIDE DEF vs, X, K
<1>9. <<"meas", r>> \in Term /\ Unit(<<"meas", r>>)[<<"meas", r>>] = 1
  BY Terms, UnitVector DEF Kind
<1>10. 1 \in Helper
  BY Terms DEF Helper
<1>11. PICK l \in 1 .. m : Sender(senders, l) = 0 /\ X(l) = r
  <2> SUFFICES ASSUME \A l \in 1 .. m : ~(Sender(senders, l) = 0 /\ X(l) = r) PROVE FALSE
    OBVIOUS
  <2>1. \A i \in 1 .. m : vs[i][<<"meas", r>>] = 0
    BY <1>7, <1>10, ShareAt
  <2>2. Sum(vs)[<<"meas", r>>] = 0
    BY <1>8, <1>9, <2>1, SumNone
  <2>3. QED
    BY <1>6, <1>9, <2>2
<1>12. ASSUME NEW h \in Helper
       PROVE  \E i \in 1 .. m : X(i) = r /\ Sender(senders, i) = h /\ K(i) = h
  <2> SUFFICES ASSUME \A i \in 1 .. m : ~(X(i) = r /\ Sender(senders, i) = h /\ K(i) = h) PROVE FALSE
    OBVIOUS
  <2>1. Seed(r, h) \in Term /\ Seed(r, h) # <<"meas", r>>
    BY SeedTerm, Terms DEF Seed
  <2>2. \A i \in 1 .. m : vs[i][Seed(r, h)] = -vs[i][<<"meas", r>>]
    <3> TAKE i \in 1 .. m
    <3>1. /\ vs[i][<<"meas", r>>] = IF Sender(senders, i) = 0 /\ X(i) = r THEN 1 ELSE 0
          /\ vs[i][Seed(r, h)] = IF Sender(senders, i) = 0 THEN IF X(i) = r THEN -1 ELSE 0
                                 ELSE IF X(i) = r /\ Sender(senders, i) = h /\ K(i) = h THEN 1 ELSE 0
      BY <1>7, ShareAt
    <3>2. QED
      BY <3>1
  <2>3. Sum(vs)[Seed(r, h)] = -Sum(vs)[<<"meas", r>>]
    BY <1>8, <1>9, <2>1, <2>2, SumOpposed
  <2>4. Unit(<<"meas", r>>)[Seed(r, h)] = 0
    BY <1>9, <2>1, UnitVector
  <2>5. QED
    BY <1>6, <1>9, <2>3, <2>4
<1>13. Shared(nonce, r)
  <2> SUFFICES ASSUME NEW h \in Aggregator
               PROVE  /\ prep[h][nonce] # nil
                      /\ prep[h][nonce].given.report = r /\ prep[h][nonce].given.share = h
    BY DEF Shared
  <2>1. \E i \in 1 .. m : X(i) = r /\ Sender(senders, i) = h /\ K(i) = h
    <3>1. CASE h = 0
      BY <1>7, <1>11, <3>1
    <3>2. CASE h # 0
      <4>1. h \in Helper
        BY <3>2, Terms DEF Aggregator, Helper
      <4>2. QED
        BY <1>12, <4>1
    <3>3. QED
      BY <3>1, <3>2
  <2>2. PICK i \in 1 .. m : X(i) = r /\ Sender(senders, i) = h /\ K(i) = h
    BY <2>1
  <2>3. PrepShare(senders, i) = prep[h][nonce] /\ PrepShare(senders, i) # nil
    BY <1>7, <2>2 DEF PrepShare
  <2>4. QED
    BY <2>2, <2>3 DEF X, K
<1>14. QED
  BY <1>13

\* PrepNext releases an output share; what it was released on is new, all else stays.
LEMMA StatePrepNext ==
  ASSUME StateInv, NEW msg \in Messages, NEW j \in Aggregator, NEW nonce \in Report,
         PrepNext(j, nonce, msg)
  PROVE  StateInv'
<1>1. /\ prep[j][nonce] # nil /\ out[j][nonce] = nil
      /\ Releases(prep[j][nonce], msg)
      /\ out' = [out EXCEPT ![j][nonce] = [share |-> prep[j][nonce].outShare, on |-> msg.nonces]]
      /\ UNCHANGED <<jointRand, report, prep, agg, batch>>
  BY DEF PrepNext
<1>2. DOMAIN out = Aggregator /\ \A i \in Aggregator : DOMAIN out[i] = Report
  BY DEF StateInv, OutInv
<1>3. /\ DOMAIN out' = Aggregator /\ \A i \in Aggregator : DOMAIN out'[i] = Report
      /\ out'[j][nonce] = [share |-> prep[j][nonce].outShare, on |-> msg.nonces]
      /\ \A i \in Aggregator, n \in Report : i # j \/ n # nonce => out'[i][n] = out[i][n]
  BY <1>1, <1>2
<1>4. ReportInv'
  <2>1. \A q \in Report : ShardReport(q)' = ShardReport(q)
    BY <1>1 DEF ShardReport, Sum
  <2>2. QED
    BY <1>1, <2>1 DEF StateInv, ReportInv
<1>5. PrepInv'
  <2>1. \A i, n, q, y, h : PrepOf(i, n, q, y, h)' = PrepOf(i, n, q, y, h)
    BY <1>1 DEF PrepOf, Public
  <2>2. \A i, n, g : Begun(i, n, g)' <=> Begun(i, n, g)
    BY <1>1, <2>1 DEF Begun
  <2>3. QED
    BY <1>1, <2>2 DEF StateInv, PrepInv
<1>6. OutInv'
  <2> SUFFICES ASSUME NEW i \in Aggregator, NEW n \in Report, out'[i][n] # nil
               PROVE  prep'[i][n] # nil /\ out'[i][n].share = prep'[i][n].outShare
    BY <1>3, Zenon DEF OutInv
  <2>1. CASE i = j /\ n = nonce
    BY <1>1, <1>3, <2>1
  <2>2. CASE i # j \/ n # nonce
    BY <1>1, <1>3, <2>2 DEF StateInv, OutInv
  <2>3. QED
    BY <2>1, <2>2
<1>7. VerifiedTogether'
  <2> SUFFICES ASSUME NEW i \in Aggregator, NEW n \in Report, out'[i][n] # nil, MadeFor(i, n)'
               PROVE  AllVerified(i, n)'
    BY Zenon DEF VerifiedTogether
  <2>1. AllVerified(i, n)' <=> AllVerified(i, n)
    BY <1>1 DEF AllVerified, Shared
  <2>2. CASE i = j /\ n = nonce
    <3>1. MadeFor(j, nonce)'
      BY <2>2
    <3>2. \/ msg.nonces = {nonce}
          \/ jointRand /\ prep[j][nonce].given.public = nonce
      BY <1>1, <1>3, <3>1, Zenon DEF MadeFor
    <3>3. PICK m \in Nat : \E senders : Combined(msg, m, senders)
      BY MessageIs
    <3>4. PICK senders : Combined(msg, m, senders)
      BY <3>3
    <3>5. ASSUME jointRand PROVE AllVerified(j, nonce)
      <4>1. msg.nonces = {nonce} \/ prep[j][nonce].given.public = nonce
        BY <3>2, Zenon
      <4>2. Shared(nonce, nonce) /\ prep[j][nonce].given.public = nonce
        BY <1>1, <3>4, <3>5, <4>1, JointRelease
      <4>3. QED
        BY <3>5, <4>2, Zenon DEF AllVerified
    <3>6. ASSUME ~jointRand PROVE AllVerified(j, nonce)
      <4>1. msg.nonces = {nonce}
        BY <3>2, <3>6, Zenon
      <4>2. \E x \in Report : Shared(nonce, x)
        BY <3>4, <4>1, PlainRelease
      <4>3. QED
        BY <3>6, <4>2, Zenon DEF AllVerified
    <3>7. QED
      BY <2>1, <2>2, <3>5, <3>6, Zenon
  <2>3. CASE i # j \/ n # nonce
    <3>1. out'[i][n] = out[i][n]
      BY <1>3, <2>3
    <3>2. MadeFor(i, n)
      BY <1>1, <3>1 DEF MadeFor
    <3>3. AllVerified(i, n)
      BY <3>1, <3>2 DEF StateInv, VerifiedTogether
    <3>4. QED
      BY <2>1, <3>3, Zenon
  <2>4. QED
    BY <2>2, <2>3
<1>8. QED
  BY <1>4, <1>5, <1>6, <1>7 DEF StateInv

\* The invariant reads neither agg nor batch.
LEMMA StateStays ==
  ASSUME StateInv, UNCHANGED <<jointRand, report, prep, out>>
  PROVE  StateInv'
<1>1. ReportInv'
  <2>1. \A q \in Report : ShardReport(q)' = ShardReport(q)
    BY DEF ShardReport, Sum
  <2>2. QED
    BY <2>1 DEF StateInv, ReportInv
<1>2. PrepInv'
  <2>1. \A i, n, q, y, h : PrepOf(i, n, q, y, h)' = PrepOf(i, n, q, y, h)
    BY DEF PrepOf, Public
  <2>2. \A i, n, g : Begun(i, n, g)' <=> Begun(i, n, g)
    BY <2>1 DEF Begun
  <2>3. QED
    BY <2>2 DEF StateInv, PrepInv
<1>3. OutInv'
  BY DEF StateInv, OutInv
<1>4. VerifiedTogether'
  BY StillTogether
<1>5. QED
  BY <1>1, <1>2, <1>3, <1>4 DEF StateInv

LEMMA StateStep == StateInv /\ [Next]_vars => StateInv'
<1> SUFFICES ASSUME StateInv, [Next]_vars PROVE StateInv'
  OBVIOUS
<1>1. ASSUME NEW r \in Report, Shard(r) PROVE StateInv'
  BY <1>1, StateShard
<1>2. ASSUME NEW j \in AggID, NEW nonce \in Report, NEW p \in Report, NEW x \in Report,
             NEW k \in Aggregator, PrepInit(j, nonce, p, x, k)
      PROVE  StateInv'
  BY <1>2, StatePrepInit
<1>3. ASSUME NEW msg \in Messages, NEW j \in Aggregator, NEW nonce \in Report,
             PrepNext(j, nonce, msg)
      PROVE  StateInv'
  BY <1>3, StatePrepNext
<1>4. ASSUME NEW j \in Aggregator, NEW nonce \in Report, AggregateUpdate(j, nonce)
      PROVE  StateInv'
  BY <1>4, StateStays DEF AggregateUpdate
<1>5. CASE UNCHANGED vars
  BY <1>5, StateStays DEF vars
<1>6. QED
  BY <1>1, <1>2, <1>3, <1>4, <1>5 DEF Next

\* No aggregator releases an output share unless every aggregator verified its share of
\* one report under that nonce: for every number of aggregators and reports, whatever
\* is mixed up, whatever prep shares PrepSharesToPrep is given, whichever message
\* PrepNext is.
THEOREM ReleasedTogether == Spec => []VerifiedTogether
<1>1. Init => StateInv
  BY StateInit
<1>2. StateInv /\ [Next]_vars => StateInv'
  BY StateStep
<1>3. StateInv => VerifiedTogether
  BY DEF StateInv
<1>4. QED
  BY <1>1, <1>2, <1>3, PTL DEF Spec
-----------------------------------------------------------------------------
(* A report that came right *)

\* What each aggregator has of report r when it came right.
CameRight(r) == \A j \in Aggregator : prep[j][r] # nil /\ prep[j][r].given = Right(j, r)

SeedFor(p) == IF jointRand THEN Public(p) ELSE nil

LEMMA RightIs ==
  ASSUME StateInv, NEW r \in Report, CameRight(r)
  PROVE  \A j \in Aggregator :
           /\ report[r] # nil
           /\ prep[j][r].verifiersShare.nonce = r
           /\ prep[j][r].verifiersShare.jointRand = SeedFor(r)
           /\ prep[j][r].corrected = SeedFor(r)
           /\ prep[j][r].verifiersShare.meas = ShareOf("meas", j, r, j)
           /\ prep[j][r].verifiersShare.proof = ShareOf("proof", j, r, j)
           /\ jointRand => prep[j][r].part = <<r, j, j, r, ShareOf("meas", j, r, j)>>
<1> TAKE j \in Aggregator
<1>1. j \in AggID
  BY Terms DEF Aggregator, AggID
<1>2. prep[j][r] # nil /\ prep[j][r].given = [public |-> r, report |-> r, share |-> j]
  BY DEF CameRight, Right
<1>3. Begun(j, r, prep[j][r].given)
  BY <1>1, <1>2 DEF StateInv, PrepInv
<1>4. prep[j][r] = PrepOf(j, r, r, r, j) /\ report[r] # nil
  BY <1>2, <1>3 DEF Begun
<1>5. PICK a : a = PrepOf(j, r, r, r, j)
  OBVIOUS
<1>6. a.corrected = SeedFor(r) /\ a.verifiersShare.jointRand = SeedFor(r)
  BY <1>5 DEF PrepOf, SeedFor
<1>7. a.verifiersShare.nonce = r
  BY <1>5 DEF PrepOf
<1>8. a.verifiersShare.meas = ShareOf("meas", j, r, j) /\ a.verifiersShare.proof = ShareOf("proof", j, r, j)
  BY <1>5 DEF PrepOf
<1>9. jointRand => a.part = <<r, j, j, r, ShareOf("meas", j, r, j)>>
  BY <1>5 DEF PrepOf
<1>10. QED
  BY <1>4, <1>5, <1>6, <1>7, <1>8, <1>9

LEMMA RightPasses == StateInv => RightReportPasses
<1> SUFFICES ASSUME StateInv, NEW r \in Report, CameRight(r)
             PROVE  LET msg == PrepSharesToPrep([i \in 1 .. shares |-> prep[i - 1][r]])
                    IN  msg # nil /\ \A j \in Aggregator : Releases(prep[j][r], msg)
  BY Zenon DEF RightReportPasses, CameRight
<1> DEFINE ps == [i \in 1 .. shares |-> prep[i - 1][r]]
           ver == [i \in DOMAIN ps |-> ps[i].verifiersShare]
           C == SeedFor(r)
           J == IF jointRand THEN [i \in DOMAIN ps |-> ps[i].part] ELSE nil
           msg == PrepSharesToPrep(ps)
<1>1. /\ shares \in Nat /\ shares >= 2 /\ 1 \in 1 .. shares /\ 0 \in Aggregator
      /\ \A i \in 1 .. shares : i - 1 \in Aggregator
      /\ \A j \in Aggregator : j \in AggID
  BY Terms DEF Aggregator, AggID
<1>2. DOMAIN ps = 1 .. shares
  OBVIOUS
<1>3. \A i \in 1 .. shares : ver[i] = prep[i - 1][r].verifiersShare /\ ps[i].part = prep[i - 1][r].part
  BY <1>2
<1>4. DOMAIN ver = 1 .. shares
  BY <1>2
<1> HIDE DEF ps, ver
<1>5. \A i \in 1 .. shares : /\ ver[i].nonce = r /\ ver[i].jointRand = C
                             /\ ver[i].meas = ShareOf("meas", i - 1, r, i - 1)
                             /\ ver[i].proof = ShareOf("proof", i - 1, r, i - 1)
                             /\ jointRand => ps[i].part = <<r, i - 1, i - 1, r, ShareOf("meas", i - 1, r, i - 1)>>
  <2> TAKE i \in 1 .. shares
  <2>1. PICK j \in Aggregator : j = i - 1
    BY <1>1
  <2>2. ver[i] = prep[j][r].verifiersShare /\ ps[i].part = prep[j][r].part
    BY <1>3, <2>1
  <2>3. jointRand => ps[i].part = <<r, j, j, r, ShareOf("meas", j, r, j)>>
    BY <2>2, RightIs
  <2>4. /\ ver[i].nonce = r /\ ver[i].jointRand = C
        /\ ver[i].meas = ShareOf("meas", j, r, j)
        /\ ver[i].proof = ShareOf("proof", j, r, j)
    BY <2>2, RightIs
  <2>5. QED
    BY <2>1, <2>3, <2>4
<1>6. Decide(ver)
  <2>1. [i \in DOMAIN ver |-> ver[i].meas] = [i \in 1 .. shares |-> ShareOf("meas", i - 1, r, i - 1)]
    BY <1>4, <1>5
  <2>2. [i \in DOMAIN ver |-> ver[i].proof] = [i \in 1 .. shares |-> ShareOf("proof", i - 1, r, i - 1)]
    BY <1>4, <1>5
  <2>3. /\ Sum([i \in DOMAIN ver |-> ver[i].meas]) = Unit(<<"meas", r>>)
        /\ Sum([i \in DOMAIN ver |-> ver[i].proof]) = Unit(<<"proof", r>>)
    BY <2>1, <2>2, SharesSum DEF Kind
  <2>4. report[r] # nil
    BY <1>1, RightIs
  <2>5. jointRand => ver[1].jointRand = jointRandSeed(report[r].public)
    <3>1. report[r] = ShardReport(r) /\ jointRand \in BOOLEAN
      BY <2>4 DEF StateInv, ReportInv
    <3>2. jointRand => report[r].public = Public(r)
      BY <3>1, ShardIs
    <3>3. jointRand => ver[1].jointRand = Public(r)
      BY <1>1, <1>5 DEF SeedFor
    <3>4. QED
      BY <3>2, <3>3 DEF jointRandSeed
  <2>6. \A i \in DOMAIN ver : ver[i].nonce = ver[1].nonce /\ ver[i].jointRand = ver[1].jointRand
    BY <1>1, <1>4, <1>5
  <2>7. QED
    BY <2>3, <2>4, <2>5, <2>6 DEF Decide
<1>7. msg = [nonces |-> {ps[i].verifiersShare.nonce : i \in DOMAIN ps}, joinRand |-> J]
  BY <1>6 DEF PrepSharesToPrep, jointRandSeed, ver
<1>8. J = C
  <2>1. CASE jointRand
    <3>1. [i \in DOMAIN ps |-> ps[i].part] = Public(r)
      BY <1>2, <1>5, <2>1 DEF Public
    <3>2. QED
      BY <2>1, <3>1 DEF SeedFor
  <2>2. CASE ~jointRand
    BY <2>2 DEF SeedFor
  <2>3. QED
    BY <2>1, <2>2, Zenon
<1> HIDE DEF J
<1>9. msg # nil
  <2>1. {ps[i].verifiersShare.nonce : i \in DOMAIN ps} \subseteq Report
    BY <1>2, <1>4, <1>5 DEF ver
  <2>2. J \in Seq(Part) \union {nil}
    <3>1. Public(r) \in Seq(Part)
      BY PublicSeq
    <3> HIDE DEF C
    <3>2. C \in {Public(r), nil}
      BY Zenon DEF C, SeedFor
    <3>3. QED
      BY <1>8, <3>1, <3>2
  <2>3. msg \in Message
    BY <1>7, <2>1, <2>2 DEF Message
  <2>4. QED
    BY <2>3, NilAssumption
<1>10. ASSUME NEW j \in Aggregator PROVE Releases(prep[j][r], msg)
  <2>1. prep[j][r].corrected = C
    BY RightIs
  <2>2. msg.joinRand = C
    BY <1>7, <1>8
  <2>3. QED
    BY <2>1, <2>2 DEF Releases
<1>11. QED
  BY <1>9, <1>10 DEF ps

\* A report whose shares reached their aggregators under its own nonce and with its own
\* public share is verified: PrepSharesToPrep makes a message of the prep shares, and
\* each aggregator releases its output share on it.
THEOREM RightReportsPass == Spec => []RightReportPasses
<1>1. Init => StateInv
  BY StateInit
<1>2. StateInv /\ [Next]_vars => StateInv'
  BY StateStep
<1>3. StateInv => RightReportPasses
  BY RightPasses
<1>4. QED
  BY <1>1, <1>2, <1>3, PTL DEF Spec
-----------------------------------------------------------------------------
(* Sums in another order *)

LEMMA PlusMoves ==
  ASSUME NEW a \in Vector, NEW b \in Vector, NEW c \in Vector, NEW d \in Vector
  PROVE  Plus(Plus(a, b), Plus(c, d)) = Plus(Plus(a, c), Plus(b, d))
<1> DEFINE x == Plus(Plus(a, b), Plus(c, d))
           y == Plus(Plus(a, c), Plus(b, d))
<1>1. /\ Plus(a, b) \in Vector /\ Plus(c, d) \in Vector /\ Plus(a, c) \in Vector
      /\ Plus(b, d) \in Vector /\ x \in Vector /\ y \in Vector
  BY PlusVector
<1>2. ASSUME NEW t \in Term PROVE x[t] = y[t]
  <2>1. a[t] \in Int /\ b[t] \in Int /\ c[t] \in Int /\ d[t] \in Int
    BY DEF Vector
  <2>2. x[t] = (a[t] + b[t]) + (c[t] + d[t]) /\ y[t] = (a[t] + c[t]) + (b[t] + d[t])
    BY <1>1, PlusVector
  <2>3. QED
    BY <2>1, <2>2
<1> HIDE DEF x, y
<1>3. x = y
  BY <1>1, <1>2, SameVector
<1>4. QED
  BY <1>3 DEF x, y

\* The sum of sums is the sum, both ways.
LEMMA SumPlus ==
  ASSUME NEW n \in Nat, NEW v \in [1 .. n -> Vector], NEW w \in [1 .. n -> Vector]
  PROVE  Sum([i \in 1 .. n |-> Plus(v[i], w[i])]) = Plus(Sum(v), Sum(w))
<1> DEFINE u == [i \in 1 .. n |-> Plus(v[i], w[i])]
<1>1. /\ v \in Seq(Vector) /\ Len(v) = n /\ w \in Seq(Vector) /\ Len(w) = n
      /\ u \in Seq(Vector) /\ Len(u) = n
  <2>1. \A i \in 1 .. n : Plus(v[i], w[i]) \in Vector
    BY PlusVector
  <2>2. u \in [1 .. n -> Vector]
    BY <2>1
  <2> HIDE DEF u
  <2>3. QED
    BY <2>2
<1>2. PICK f : Prefix(f, v) /\ Sum(v) = f[n]
  BY <1>1, SumPrefix
<1>3. PICK g : Prefix(g, w) /\ Sum(w) = g[n]
  BY <1>1, SumPrefix
<1> DEFINE h == [k \in 0 .. n |-> Plus(f[k], g[k])]
<1>4. \A k \in 0 .. n : f[k] \in Vector /\ g[k] \in Vector
  BY <1>1, <1>2, <1>3 DEF Prefix
<1>5. Prefix(h, u)
  <2>1. \A k \in 0 .. n : Plus(f[k], g[k]) \in Vector
    BY <1>4, PlusVector
  <2>2. h \in [0 .. n -> Vector]
    BY <2>1
  <2>3. h[0] = Zero
    <3>1. 0 \in 0 .. n /\ f[0] = Zero /\ g[0] = Zero
      BY <1>2, <1>3 DEF Prefix
    <3>2. Plus(Zero, Zero) = Zero
      BY DEF Plus, Zero
    <3>3. QED
      BY <3>1, <3>2
  <2>4. ASSUME NEW k \in 0 .. n - 1 PROVE h[k + 1] = Plus(h[k], u[k + 1])
    <3>1. k \in 0 .. n /\ k + 1 \in 0 .. n /\ k + 1 \in 1 .. n
      OBVIOUS
    <3>2. f[k + 1] = Plus(f[k], v[k + 1]) /\ g[k + 1] = Plus(g[k], w[k + 1])
      BY <1>1, <1>2, <1>3 DEF Prefix
    <3>3. /\ h[k + 1] = Plus(f[k + 1], g[k + 1]) /\ h[k] = Plus(f[k], g[k])
          /\ u[k + 1] = Plus(v[k + 1], w[k + 1])
      BY <3>1
    <3>4. v[k + 1] \in Vector /\ w[k + 1] \in Vector /\ f[k] \in Vector /\ g[k] \in Vector
      BY <1>4, <3>1
    <3>5. Plus(Plus(f[k], v[k + 1]), Plus(g[k], w[k + 1])) = Plus(Plus(f[k], g[k]), Plus(v[k + 1], w[k + 1]))
      BY <3>4, PlusMoves
    <3> HIDE DEF h, u
    <3>6. QED
      BY <3>2, <3>3, <3>5
  <2> HIDE DEF h, u
  <2>5. QED
    BY <1>1, <2>2, <2>3, <2>4 DEF Prefix
<1>6. h[n] = Plus(f[n], g[n])
  BY <1>1
<1> HIDE DEF h, u
<1>7. Sum(u) = h[n]
  BY <1>1, <1>5, SumIs
<1>8. QED
  BY <1>2, <1>3, <1>6, <1>7 DEF u

LEMMA ZeroSum == ASSUME NEW n \in Nat PROVE Sum([i \in 1 .. n |-> Zero]) = Zero
<1> DEFINE u == [i \in 1 .. n |-> Zero]
           h == [k \in 0 .. n |-> Zero]
<1>1. u \in Seq(Vector) /\ Len(u) = n
  <2>1. u \in [1 .. n -> Vector]
    BY PlusVector
  <2> HIDE DEF u
  <2>2. QED
    BY <2>1
<1>2. Plus(Zero, Zero) = Zero
  BY DEF Plus, Zero
<1>3. Prefix(h, u)
  BY <1>1, <1>2, PlusVector DEF Prefix
<1>4. h[n] = Zero
  OBVIOUS
<1> HIDE DEF h, u
<1>5. Sum(u) = h[n]
  BY <1>1, <1>3, SumIs
<1>6. QED
  BY <1>4, <1>5 DEF u

\* The rows' sums add up to what the columns' add up to.
LEMMA SumExchange ==
  ASSUME NEW m \in Nat, NEW n \in Nat, NEW v \in [1 .. m -> [1 .. n -> Vector]]
  PROVE  Sum([j \in 1 .. m |-> Sum(v[j])])
           = Sum([i \in 1 .. n |-> Sum([j \in 1 .. m |-> v[j][i]])])
<1> DEFINE col(i) == [j \in 1 .. m |-> v[j][i]]
           cols == [i \in 1 .. n |-> Sum(col(i))]
           P(j) == CHOOSE f : Prefix(f, v[j]) /\ Sum(v[j]) = f[n]
           front(k) == [j \in 1 .. m |-> P(j)[k]]
           g == [k \in 0 .. n |-> Sum(front(k))]
<1>1. \A j \in 1 .. m : v[j] \in Seq(Vector) /\ Len(v[j]) = n
  OBVIOUS
<1>2. \A j \in 1 .. m : Prefix(P(j), v[j]) /\ Sum(v[j]) = P(j)[n]
  <2> TAKE j \in 1 .. m
  <2>1. \E f : Prefix(f, v[j]) /\ Sum(v[j]) = f[n]
    BY <1>1, SumPrefix
  <2>2. QED
    BY <2>1
<1> HIDE DEF P
<1>3. \A j \in 1 .. m : \A k \in 0 .. n : P(j)[k] \in Vector
  BY <1>1, <1>2 DEF Prefix
<1>4. \A k \in 0 .. n : front(k) \in [1 .. m -> Vector] /\ front(k) \in Seq(Vector)
  <2> TAKE k \in 0 .. n
  <2>1. front(k) \in [1 .. m -> Vector]
    BY <1>3
  <2> HIDE DEF front
  <2>2. QED
    BY <2>1
<1>5. \A i \in 1 .. n : col(i) \in [1 .. m -> Vector] /\ col(i) \in Seq(Vector)
  <2> TAKE i \in 1 .. n
  <2>1. col(i) \in [1 .. m -> Vector]
    OBVIOUS
  <2> HIDE DEF col
  <2>2. QED
    BY <2>1
<1>6. ASSUME NEW k \in 0 .. n - 1
      PROVE  Sum(front(k + 1)) = Plus(Sum(front(k)), Sum(col(k + 1)))
  <2>1. k \in 0 .. n /\ k + 1 \in 0 .. n /\ k + 1 \in 1 .. n
    OBVIOUS
  <2>2. \A j \in 1 .. m : P(j)[k + 1] = Plus(P(j)[k], v[j][k + 1])
    BY <1>1, <1>2 DEF Prefix
  <2>3. front(k + 1) = [j \in 1 .. m |-> Plus(front(k)[j], col(k + 1)[j])]
    BY <2>2
  <2>4. front(k) \in [1 .. m -> Vector] /\ col(k + 1) \in [1 .. m -> Vector]
    BY <1>4, <1>5, <2>1
  <2> HIDE DEF front, col
  <2>5. PICK a \in [1 .. m -> Vector], b \in [1 .. m -> Vector] : a = front(k) /\ b = col(k + 1)
    BY <2>4
  <2>6. front(k + 1) = [j \in 1 .. m |-> Plus(a[j], b[j])]
    BY <2>3, <2>5
  <2>7. Sum([j \in 1 .. m |-> Plus(a[j], b[j])]) = Plus(Sum(a), Sum(b))
    BY SumPlus
  <2>8. QED
    BY <2>5, <2>6, <2>7
<1>7. front(0) = [j \in 1 .. m |-> Zero]
  <2>1. \A j \in 1 .. m : P(j)[0] = Zero
    BY <1>2 DEF Prefix
  <2>2. QED
    BY <2>1
<1>8. front(n) = [j \in 1 .. m |-> Sum(v[j])]
  BY <1>2
<1> HIDE DEF front, col
<1>9. cols \in Seq(Vector) /\ Len(cols) = n
  <2>1. cols \in [1 .. n -> Vector]
    BY <1>5, SumVector
  <2> HIDE DEF cols
  <2>2. QED
    BY <2>1
<1>10. \A i \in 1 .. n : cols[i] = Sum(col(i))
  OBVIOUS
<1>11. /\ g \in [0 .. n -> Vector] /\ g[0] = Zero /\ g[n] = Sum(front(n))
       /\ \A k \in 0 .. n : g[k] = Sum(front(k))
  <2>1. \A k \in 0 .. n : Sum(front(k)) \in Vector
    BY <1>4, SumVector
  <2>2. Sum(front(0)) = Zero
    BY <1>7, ZeroSum
  <2>3. 0 \in 0 .. n /\ n \in 0 .. n
    OBVIOUS
  <2>4. QED
    BY <2>1, <2>2, <2>3
<1> HIDE DEF g, cols
<1>12. Prefix(g, cols)
  <2>1. ASSUME NEW k \in 0 .. n - 1 PROVE g[k + 1] = Plus(g[k], cols[k + 1])
    <3>1. k \in 0 .. n /\ k + 1 \in 0 .. n /\ k + 1 \in 1 .. n
      OBVIOUS
    <3>2. QED
      BY <1>6, <1>10, <1>11, <3>1
  <2>2. QED
    BY <1>9, <1>11, <2>1 DEF Prefix
<1>13. Sum(cols) = g[n]
  BY <1>9, <1>12, SumIs
<1>14. QED
  BY <1>8, <1>11, <1>13 DEF cols, col

LEMMA VectorLaws ==
  ASSUME NEW a \in Vector, NEW b \in Vector, NEW c \in Vector
  PROVE  /\ Plus(Minus(a, b), b) = a
         /\ Minus(Plus(a, c), b) = Plus(Minus(a, b), c)
         /\ Minus(Plus(Plus(a, b), c), b) = Plus(a, c)
<1>1. /\ Plus(a, b) \in Vector /\ Plus(a, c) \in Vector /\ Minus(a, b) \in Vector
      /\ Plus(Plus(a, b), c) \in Vector
  BY PlusVector
<1>2. /\ Plus(Minus(a, b), b) \in Vector /\ Minus(Plus(a, c), b) \in Vector
      /\ Plus(Minus(a, b), c) \in Vector /\ Minus(Plus(Plus(a, b), c), b) \in Vector
  BY <1>1, PlusVector
<1>3. \A t \in Term : a[t] \in Int /\ b[t] \in Int /\ c[t] \in Int
  BY DEF Vector
<1>4. \A t \in Term : Plus(Minus(a, b), b)[t] = a[t]
  BY <1>1, <1>3, PlusVector
<1>5. \A t \in Term : Minus(Plus(a, c), b)[t] = Plus(Minus(a, b), c)[t]
  BY <1>1, <1>3, PlusVector
<1>6. \A t \in Term : Minus(Plus(Plus(a, b), c), b)[t] = Plus(a, c)[t]
  BY <1>1, <1>3, PlusVector
<1>7. Plus(Minus(a, b), b) = a
  BY <1>2, <1>4, SameVector
<1>8. Minus(Plus(a, c), b) = Plus(Minus(a, b), c)
  BY <1>2, <1>5, SameVector
<1>9. Minus(Plus(Plus(a, b), c), b) = Plus(a, c)
  BY <1>1, <1>2, <1>6, SameVector
<1>10. QED
  BY <1>7, <1>8, <1>9

\* The first n of a sequence, without the one at k.
Without(v, n, k) == [i \in 1 .. n - 1 |-> IF i < k THEN v[i] ELSE v[i + 1]]

LEMMA SumWithout ==
  ASSUME NEW n \in Nat, NEW v \in [1 .. n -> Vector], NEW k \in 1 .. n
  PROVE  Sum(v) = Plus(Sum(Without(v, n, k)), v[k])
<1> DEFINE w == Without(v, n, k)
<1>1. v \in Seq(Vector) /\ Len(v) = n /\ n - 1 \in Nat
  OBVIOUS
<1>2. w \in Seq(Vector) /\ Len(w) = n - 1
  <2>1. w \in [1 .. n - 1 -> Vector]
    BY DEF Without
  <2> HIDE DEF w
  <2>2. QED
    BY <1>1, <2>1
<1>3. PICK f : Prefix(f, v) /\ Sum(v) = f[n]
  BY <1>1, SumPrefix
<1> DEFINE b == v[k]
           h == [i \in 0 .. n - 1 |-> IF i < k THEN f[i] ELSE Minus(f[i + 1], b)]
<1>4. /\ \A i \in 0 .. n : f[i] \in Vector
      /\ \A i \in 1 .. n : v[i] \in Vector
      /\ b \in Vector /\ f[0] = Zero
  BY <1>1, <1>3 DEF Prefix
<1>5. \A i \in 0 .. n - 1 : f[i + 1] = Plus(f[i], v[i + 1])
  BY <1>1, <1>3 DEF Prefix
<1> HIDE DEF b
<1>6. h \in [0 .. n - 1 -> Vector] /\ h[0] = Zero
  <2>1. \A i \in 0 .. n - 1 : (IF i < k THEN f[i] ELSE Minus(f[i + 1], b)) \in Vector
    <3> TAKE i \in 0 .. n - 1
    <3>1. f[i] \in Vector /\ f[i + 1] \in Vector
      BY <1>1, <1>4
    <3>2. Minus(f[i + 1], b) \in Vector
      BY <1>4, <3>1, PlusVector
    <3>3. QED
      BY <3>1, <3>2
  <2>2. h \in [0 .. n - 1 -> Vector]
    BY <2>1
  <2>3. 0 \in 0 .. n - 1 /\ 0 < k
    BY <1>1
  <2>4. QED
    BY <1>4, <2>2, <2>3
<1>7. ASSUME NEW i \in 0 .. n - 2 PROVE h[i + 1] = Plus(h[i], w[i + 1])
  <2>1. /\ i \in 0 .. n - 1 /\ i + 1 \in 0 .. n - 1 /\ i + 1 \in 1 .. n - 1 /\ i \in 0 .. n
        /\ i + 1 \in 0 .. n /\ i + 1 \in 1 .. n /\ i + 2 \in 1 .. n /\ (i + 1) + 1 = i + 2
    BY <1>1
  <2>2. /\ f[i] \in Vector /\ f[i + 1] \in Vector /\ v[i + 1] \in Vector /\ v[i + 2] \in Vector
    BY <1>4, <2>1
  <2>3. f[i + 1] = Plus(f[i], v[i + 1]) /\ f[i + 2] = Plus(f[i + 1], v[i + 2])
    BY <1>5, <2>1
  <2>4. w[i + 1] = IF i + 1 < k THEN v[i + 1] ELSE v[i + 2]
    BY <2>1 DEF Without
  <2>5. /\ h[i] = IF i < k THEN f[i] ELSE Minus(f[i + 1], b)
        /\ h[i + 1] = IF i + 1 < k THEN f[i + 1] ELSE Minus(f[i + 2], b)
    BY <2>1
  <2> HIDE DEF h, w
  <2>6. CASE i + 1 < k
    <3>1. i < k
      BY <2>1, <2>6
    <3>2. QED
      BY <2>3, <2>4, <2>5, <2>6, <3>1
  <2>7. CASE i + 1 = k
    <3>1. i < k /\ ~(i + 1 < k) /\ v[i + 1] = b
      BY <2>1, <2>7 DEF b
    <3>2. Minus(Plus(Plus(f[i], b), v[i + 2]), b) = Plus(f[i], v[i + 2])
      BY <1>4, <2>2, VectorLaws
    <3>3. QED
      BY <2>3, <2>4, <2>5, <3>1, <3>2
  <2>8. CASE i + 1 > k
    <3>1. ~(i < k) /\ ~(i + 1 < k)
      BY <2>1, <2>8
    <3>2. Minus(Plus(f[i + 1], v[i + 2]), b) = Plus(Minus(f[i + 1], b), v[i + 2])
      BY <1>4, <2>2, VectorLaws
    <3>3. QED
      BY <2>3, <2>4, <2>5, <3>1, <3>2
  <2>9. QED
    BY <2>1, <2>6, <2>7, <2>8
<1>8. f[n] = Plus(h[n - 1], b)
  <2>1. /\ n - 1 \in 0 .. n - 1 /\ n - 1 \in 0 .. n /\ n \in 0 .. n /\ n \in 1 .. n
        /\ (n - 1) + 1 = n
    BY <1>1
  <2>2. h[n - 1] = IF n - 1 < k THEN f[n - 1] ELSE Minus(f[n], b)
    BY <2>1
  <2>3. f[n] = Plus(f[n - 1], v[n])
    BY <1>5, <2>1
  <2> HIDE DEF h
  <2>4. CASE n = k
    <3>1. n - 1 < k /\ v[n] = b
      BY <2>4 DEF b
    <3>2. QED
      BY <2>2, <2>3, <3>1
  <2>5. CASE n # k
    <3>1. ~(n - 1 < k)
      BY <2>5
    <3>2. Plus(Minus(f[n], b), b) = f[n]
      BY <1>4, <2>1, VectorLaws
    <3>3. QED
      BY <2>2, <3>1, <3>2
  <2>6. QED
    BY <2>4, <2>5
<1> HIDE DEF h, w
<1>9. Prefix(h, w)
  <2>1. Len(w) - 1 = n - 2
    BY <1>1, <1>2
  <2>2. QED
    BY <1>2, <1>6, <1>7, <2>1 DEF Prefix
<1>10. Sum(w) = h[n - 1]
  BY <1>2, <1>9, SumIs
<1>11. QED
  BY <1>3, <1>8, <1>10 DEF b, w
-----------------------------------------------------------------------------
(* Aggregate shares *)

\* q lists the elements of S, each once.
Lists(q, n, S) == /\ q \in [1 .. n -> S] /\ \A s \in S : \E i \in 1 .. n : q[i] = s
                  /\ \A a, b \in 1 .. n : q[a] = q[b] => a = b

\* An aggregate share is the sum of the output shares of its batch, listed anyhow.
Listed(j, n, q) == [i \in 1 .. n |-> out[j][q[i]].share]

AggIs(j) == \A n \in Nat : \A q : Lists(q, n, batch[j]) => agg[j] = Sum(Listed(j, n, q))

BatchInv == /\ DOMAIN agg = Aggregator /\ DOMAIN batch = Aggregator
            /\ \A j \in Aggregator : /\ batch[j] \subseteq Report /\ IsFiniteSet(batch[j])
                                     /\ \A r \in batch[j] : out[j][r] # nil

AggInv == BatchInv /\ \A j \in Aggregator : AggIs(j)

LEMMA ListsWithout ==
  ASSUME NEW S, NEW x, x \notin S, NEW n \in Nat, NEW q, Lists(q, n, S \union {x})
  PROVE  \E k \in 1 .. n : q[k] = x /\ Lists(Without(q, n, k), n - 1, S)
<1>1. PICK k \in 1 .. n : q[k] = x
  BY DEF Lists
<1> DEFINE w == Without(q, n, k)
<1>2. /\ \A i \in 1 .. n : q[i] \in S \union {x}
      /\ \A s \in S : \E i \in 1 .. n : q[i] = s
      /\ \A a, b \in 1 .. n : q[a] = q[b] => a = b
  BY DEF Lists
<1>3. \A i \in 1 .. n : i # k => q[i] \in S
  BY <1>1, <1>2
<1>4. \A i \in 1 .. n - 1 : w[i] = IF i < k THEN q[i] ELSE q[i + 1]
  BY DEF Without
<1>5. \A i \in 1 .. n - 1 : i \in 1 .. n /\ i + 1 \in 1 .. n
  OBVIOUS
<1>6. w \in [1 .. n - 1 -> S]
  <2>1. \A i \in 1 .. n - 1 : w[i] \in S
    <3> TAKE i \in 1 .. n - 1
    <3>1. CASE i < k
      <4>1. i # k
        BY <3>1
      <4> HIDE DEF w
      <4>2. QED
        BY <1>3, <1>4, <1>5, <3>1, <4>1
    <3>2. CASE ~(i < k)
      <4>1. i + 1 # k
        BY <3>2
      <4> HIDE DEF w
      <4>2. QED
        BY <1>3, <1>4, <1>5, <3>2, <4>1
    <3>3. QED
      BY <3>1, <3>2
  <2>2. w = [i \in 1 .. n - 1 |-> w[i]]
    BY DEF Without
  <2> HIDE DEF w
  <2>3. QED
    BY <2>1, <2>2
<1>7. ASSUME NEW s \in S PROVE \E i \in 1 .. n - 1 : w[i] = s
  <2>1. PICK c \in 1 .. n : q[c] = s
    BY <1>2
  <2>2. c # k
    BY <1>1, <2>1
  <2> HIDE DEF w
  <2>3. CASE c < k
    <3>1. c \in 1 .. n - 1
      BY <2>3
    <3>2. QED
      BY <1>4, <2>1, <2>3, <3>1
  <2>4. CASE ~(c < k)
    <3>1. c - 1 \in 1 .. n - 1 /\ ~(c - 1 < k) /\ (c - 1) + 1 = c
      BY <2>2, <2>4
    <3>2. QED
      BY <1>4, <2>1, <3>1
  <2>5. QED
    BY <2>3, <2>4
<1>8. ASSUME NEW a \in 1 .. n - 1, NEW b \in 1 .. n - 1, w[a] = w[b] PROVE a = b
  <2> HIDE DEF w
  <2>1. CASE a < k /\ b < k
    BY <1>2, <1>4, <1>5, <1>8, <2>1
  <2>2. CASE a < k /\ ~(b < k)
    <3>1. q[a] = q[b + 1] /\ a \in 1 .. n /\ b + 1 \in 1 .. n
      BY <1>4, <1>5, <1>8, <2>2
    <3>2. a = b + 1
      BY <1>2, <3>1
    <3>3. QED
      BY <2>2, <3>2
  <2>3. CASE ~(a < k) /\ b < k
    <3>1. q[a + 1] = q[b] /\ a + 1 \in 1 .. n /\ b \in 1 .. n
      BY <1>4, <1>5, <1>8, <2>3
    <3>2. a + 1 = b
      BY <1>2, <3>1
    <3>3. QED
      BY <2>3, <3>2
  <2>4. CASE ~(a < k) /\ ~(b < k)
    <3>1. q[a + 1] = q[b + 1] /\ a + 1 \in 1 .. n /\ b + 1 \in 1 .. n
      BY <1>4, <1>5, <1>8, <2>4
    <3>2. a + 1 = b + 1
      BY <1>2, <3>1
    <3>3. QED
      BY <3>2
  <2>5. QED
    BY <2>1, <2>2, <2>3, <2>4
<1>9. Lists(w, n - 1, S)
  BY <1>6, <1>7, <1>8 DEF Lists
<1>10. QED
  BY <1>1, <1>9

\* What an aggregator releases is the measurement share that it began with.
LEMMA OutIs ==
  ASSUME StateInv, NEW j \in Aggregator, NEW r \in Report, out[j][r] # nil
  PROVE  /\ prep[j][r] # nil
         /\ prep[j][r].given.report \in Report /\ prep[j][r].given.share \in Aggregator
         /\ ((j = 0) <=> (prep[j][r].given.share = 0))
         /\ out[j][r].share = ShareOf("meas", j, prep[j][r].given.report, prep[j][r].given.share)
<1>1. j \in AggID
  BY Terms DEF Aggregator, AggID
<1>2. prep[j][r] # nil /\ out[j][r].share = prep[j][r].outShare
  BY DEF StateInv, OutInv
<1>3. Begun(j, r, prep[j][r].given)
  BY <1>1, <1>2 DEF StateInv, PrepInv
<1>4. PICK g : g = prep[j][r].given
  OBVIOUS
<1>5. prep[j][r] = PrepOf(j, r, g.public, g.report, g.share)
  BY <1>3, <1>4 DEF Begun
<1>6. prep[j][r].outShare = ShareOf("meas", j, g.report, g.share)
  BY <1>5 DEF PrepOf
<1>7. /\ g.report \in Report /\ g.share \in Aggregator /\ ((j = 0) <=> (g.share = 0))
  BY <1>3, <1>4 DEF Begun
<1>8. QED
  BY <1>2, <1>4, <1>6, <1>7

LEMMA OutVector ==
  ASSUME StateInv, NEW j \in Aggregator, NEW r \in Report, out[j][r] # nil
  PROVE  out[j][r].share \in Vector
<1>1. j \in AggID
  BY Terms DEF Aggregator, AggID
<1>2. PICK x \in Report, k \in Aggregator :
        ((j = 0) <=> (k = 0)) /\ out[j][r].share = ShareOf("meas", j, x, k)
  BY OutIs
<1>3. ShareOf("meas", j, x, k) \in Vector
  BY <1>1, <1>2, ShareVector DEF Kind
<1>4. QED
  BY <1>2, <1>3

LEMMA AggInit == Init => AggInv
<1> SUFFICES ASSUME Init PROVE AggInv
  OBVIOUS
<1>1. BatchInv
  BY FS_EmptySet DEF Init, BatchInv
<1>2. ASSUME NEW j \in Aggregator, NEW n \in Nat, NEW q, Lists(q, n, batch[j])
      PROVE  agg[j] = Sum(Listed(j, n, q))
  <2>1. batch[j] = {} /\ agg[j] = Zero
    BY DEF Init
  <2>2. n = 0
    <3>1. \A i \in 1 .. n : q[i] \in {}
      BY <1>2, <2>1 DEF Lists
    <3>2. QED
      BY <3>1
  <2>3. Listed(j, n, q) = [i \in 1 .. 0 |-> Zero]
    BY <2>2 DEF Listed
  <2>4. QED
    BY <2>1, <2>3, ZeroSum
<1>3. QED
  BY <1>1, <1>2 DEF AggInv, AggIs

\* Where no output share that was released changes, nor agg, nor batch.
LEMMA AggStays ==
  ASSUME AggInv, UNCHANGED <<agg, batch>>,
         \A j \in Aggregator, r \in Report : out[j][r] # nil => out'[j][r] = out[j][r]
  PROVE  AggInv'
<1>1. \A j \in Aggregator : \A r \in batch[j] : out[j][r] # nil /\ out'[j][r] = out[j][r]
  BY DEF AggInv, BatchInv
<1>2. BatchInv'
  BY <1>1 DEF AggInv, BatchInv
<1>3. ASSUME NEW j \in Aggregator PROVE AggIs(j)'
  <2> SUFFICES ASSUME NEW n \in Nat, NEW q, Lists(q, n, batch'[j]) PROVE agg'[j] = Sum(Listed(j, n, q))'
    BY DEF AggIs, Lists
  <2>1. \A i \in 1 .. n : q[i] \in batch[j]
    BY DEF Lists
  <2>2. Listed(j, n, q)' = Listed(j, n, q)
    BY <1>1, <2>1 DEF Listed
  <2>3. Sum(Listed(j, n, q))' = Sum(Listed(j, n, q))
    BY <2>2 DEF Sum
  <2>4. agg[j] = Sum(Listed(j, n, q))
    BY DEF AggInv, AggIs
  <2>5. QED
    BY <2>3, <2>4
<1>4. QED
  BY <1>2, <1>3 DEF AggInv

LEMMA AggUpdate ==
  ASSUME StateInv, AggInv, NEW j \in Aggregator, NEW nonce \in Report, AggregateUpdate(j, nonce)
  PROVE  AggInv'
<1>1. /\ out[j][nonce] # nil /\ nonce \notin batch[j]
      /\ agg' = [agg EXCEPT ![j] = Plus(agg[j], out[j][nonce].share)]
      /\ batch' = [batch EXCEPT ![j] = batch[j] \union {nonce}]
      /\ out' = out
  BY DEF AggregateUpdate, Aggregate
<1>2. /\ DOMAIN agg = Aggregator /\ DOMAIN batch = Aggregator
      /\ \A i \in Aggregator : /\ batch[i] \subseteq Report /\ IsFiniteSet(batch[i])
                               /\ \A r \in batch[i] : out[i][r] # nil
  BY DEF AggInv, BatchInv
<1>3. /\ agg'[j] = Plus(agg[j], out[j][nonce].share) /\ batch'[j] = batch[j] \union {nonce}
      /\ DOMAIN agg' = Aggregator /\ DOMAIN batch' = Aggregator
      /\ \A i \in Aggregator : i # j => agg'[i] = agg[i] /\ batch'[i] = batch[i]
  BY <1>1, <1>2
<1>4. BatchInv'
  <2> SUFFICES ASSUME NEW i \in Aggregator
               PROVE  /\ batch'[i] \subseteq Report /\ IsFiniteSet(batch'[i])
                      /\ \A r \in batch'[i] : out'[i][r] # nil
    BY <1>3, Zenon DEF BatchInv
  <2>1. CASE i = j
    <3>1. IsFiniteSet(batch[j] \union {nonce})
      BY <1>2, FS_AddElement
    <3>2. QED
      BY <1>1, <1>2, <1>3, <2>1, <3>1
  <2>2. CASE i # j
    BY <1>1, <1>2, <1>3, <2>2
  <2>3. QED
    BY <2>1, <2>2
<1>5. ASSUME NEW i \in Aggregator, NEW n \in Nat, NEW q, Lists(q, n, batch'[i])
      PROVE  agg'[i] = Sum(Listed(i, n, q))
  <2>1. CASE i = j
    <3>1. Lists(q, n, batch[j] \union {nonce})
      BY <1>3, <1>5, <2>1
    <3>2. PICK k \in 1 .. n : q[k] = nonce /\ Lists(Without(q, n, k), n - 1, batch[j])
      BY <1>1, <3>1, ListsWithout
    <3> DEFINE v == Listed(j, n, q)
               w == Without(q, n, k)
    <3>3. v \in [1 .. n -> Vector]
      <4>1. \A a \in 1 .. n : out[j][q[a]].share \in Vector
        <5> TAKE a \in 1 .. n
        <5>1. q[a] \in batch[j] \union {nonce}
          BY <3>1 DEF Lists
        <5>2. q[a] \in Report /\ out[j][q[a]] # nil
          BY <1>1, <1>2, <5>1
        <5>3. QED
          BY <5>2, OutVector
      <4>2. QED
        BY <4>1 DEF Listed
    <3>4. Without(v, n, k) = Listed(j, n - 1, w)
      BY DEF Without, Listed
    <3>5. agg[j] = Sum(Listed(j, n - 1, w))
      <4>1. n - 1 \in Nat
        OBVIOUS
      <4>2. AggIs(j)
        BY DEF AggInv
      <4> HIDE DEF w
      <4>3. Lists(w, n - 1, batch[j])
        BY <3>2 DEF w
      <4>4. QED
        BY <4>1, <4>2, <4>3 DEF AggIs
    <3>6. v[k] = out[j][nonce].share
      BY <3>2 DEF Listed
    <3> HIDE DEF v, w
    <3>7. Sum(v) = Plus(Sum(Without(v, n, k)), v[k])
      BY <3>3, SumWithout
    <3>8. QED
      BY <1>3, <2>1, <3>4, <3>5, <3>6, <3>7 DEF v
  <2>2. CASE i # j
    <3>1. Lists(q, n, batch[i])
      BY <1>3, <1>5, <2>2
    <3>2. agg[i] = Sum(Listed(i, n, q))
      BY <3>1 DEF AggInv, AggIs
    <3>3. QED
      BY <1>3, <2>2, <3>2
  <2>3. QED
    BY <2>1, <2>2
<1>6. ASSUME NEW i \in Aggregator PROVE AggIs(i)'
  <2> SUFFICES ASSUME NEW n \in Nat, NEW q, Lists(q, n, batch'[i]) PROVE agg'[i] = Sum(Listed(i, n, q))'
    BY DEF AggIs, Lists
  <2>1. Listed(i, n, q)' = Listed(i, n, q)
    BY <1>1 DEF Listed
  <2>2. Sum(Listed(i, n, q))' = Sum(Listed(i, n, q))
    BY <2>1 DEF Sum
  <2>3. QED
    BY <1>5, <2>2
<1>7. QED
  BY <1>4, <1>6 DEF AggInv

LEMMA AggStep == StateInv /\ AggInv /\ [Next]_vars => AggInv'
<1> SUFFICES ASSUME StateInv, AggInv, [Next]_vars PROVE AggInv'
  OBVIOUS
<1>1. ASSUME NEW r \in Report, Shard(r) PROVE AggInv'
  BY <1>1, AggStays DEF Shard
<1>2. ASSUME NEW j \in AggID, NEW nonce \in Report, NEW p \in Report, NEW x \in Report,
             NEW k \in Aggregator, PrepInit(j, nonce, p, x, k)
      PROVE  AggInv'
  BY <1>2, AggStays DEF PrepInit
<1>3. ASSUME NEW msg \in Messages, NEW j \in Aggregator, NEW nonce \in Report,
             PrepNext(j, nonce, msg)
      PROVE  AggInv'
  <2>1. /\ out[j][nonce] = nil
        /\ out' = [out EXCEPT ![j][nonce] = [share |-> prep[j][nonce].outShare, on |-> msg.nonces]]
        /\ UNCHANGED <<agg, batch>>
    BY <1>3 DEF PrepNext
  <2>2. \A i \in Aggregator, r \in Report : out[i][r] # nil => out'[i][r] = out[i][r]
    BY <2>1 DEF StateInv, OutInv
  <2>3. QED
    BY <2>1, <2>2, AggStays
<1>4. ASSUME NEW j \in Aggregator, NEW nonce \in Report, AggregateUpdate(j, nonce)
      PROVE  AggInv'
  BY <1>4, AggUpdate
<1>5. CASE UNCHANGED vars
  BY <1>5, AggStays DEF vars
<1>6. QED
  BY <1>1, <1>2, <1>3, <1>4, <1>5 DEF Next

LEMMA SetToSeqLists ==
  ASSUME NEW S, IsFiniteSet(S)
  PROVE  Cardinality(S) \in Nat /\ Lists(SetToSeq(S), Cardinality(S), S)
<1> DEFINE n == Cardinality(S)
           p == SetToSeq(S)
<1>1. n \in Nat /\ ExistsBijection(1 .. n, S)
  BY FS_CardinalityType
<1> HIDE DEF n
<1>2. \E f \in [1 .. n -> S] : IsInjective(f)
  BY <1>1 DEF ExistsBijection, Bijection, Injection
<1>3. p = CHOOSE f \in [1 .. n -> S] : IsInjective(f)
  BY DEF SetToSeq, n
<1> HIDE DEF p
<1>4. p \in [1 .. n -> S] /\ IsInjective(p)
  BY <1>2, <1>3
<1>5. p \in Injection(1 .. n, S)
  BY <1>4 DEF Injection
<1>6. Cardinality(1 .. n) = Cardinality(S)
  <2>1. 1 \in Int /\ n \in Int
    BY <1>1
  <2>2. Cardinality(1 .. n) = IF 1 > n THEN 0 ELSE n - 1 + 1
    BY <2>1, FS_Interval
  <2>3. Cardinality(1 .. n) = n
    BY <1>1, <2>2
  <2>4. QED
    BY <2>3 DEF n
<1>7. p \in Surjection(1 .. n, S)
  BY <1>5, <1>6, FS_Injection
<1>8. \A s \in S : \E i \in 1 .. n : p[i] = s
  BY <1>7 DEF Surjection
<1>9. Lists(p, n, S)
  BY <1>4, <1>8 DEF Lists, IsInjective
<1>10. QED
  BY <1>1, <1>9 DEF n, p

\* The report that the aggregators share under a nonce.
SharedReport(r) == CHOOSE x \in Report : Shared(r, x)

LEMMA Collected == StateInv /\ AggInv => CollectedIsSum
<1> DEFINE B == batch[0]
           n == Cardinality(B)
           p == SetToSeq(B)
           units == [i \in 1 .. n |-> Unit(<<"meas", SharedReport(p[i])>>)]
           sums == [i \in 1 .. shares |-> agg[i - 1]]
<1> SUFFICES ASSUME StateInv, AggInv,
                    \A j \in Aggregator : batch[j] = B /\ \A r \in B : out[j][r].on = {r}
             PROVE  Unshard(sums) = Sum(units)
  BY Zenon DEF CollectedIsSum, SharedReport
<1>1. /\ shares \in Nat /\ shares >= 2 /\ 0 \in Aggregator
      /\ \A j \in 1 .. shares : j - 1 \in Aggregator /\ j - 1 \in AggID
      /\ \A j \in Aggregator : j \in AggID
  BY Terms DEF Aggregator, AggID
<1>2. /\ B \subseteq Report /\ IsFiniteSet(B)
      /\ \A j \in Aggregator : \A r \in B : out[j][r] # nil
  BY <1>1 DEF AggInv, BatchInv
<1>3. n \in Nat /\ Lists(p, n, B)
  BY <1>2, SetToSeqLists
<1>4. \A i \in 1 .. n : p[i] \in B
  BY <1>3 DEF Lists
<1>5. ASSUME NEW r \in B
      PROVE  /\ SharedReport(r) \in Report
             /\ \A j \in Aggregator : out[j][r].share = ShareOf("meas", j, SharedReport(r), j)
  <2>1. r \in Report /\ out[0][r] # nil
    BY <1>1, <1>2
  <2>2. MadeFor(0, r)
    BY <1>1 DEF MadeFor
  <2>3. AllVerified(0, r)
    BY <1>1, <2>1, <2>2 DEF StateInv, VerifiedTogether
  <2>4. \E x \in Report : Shared(r, x)
    BY <2>1, <2>3 DEF AllVerified
  <2>5. SharedReport(r) \in Report /\ Shared(r, SharedReport(r))
    BY <2>4 DEF SharedReport
  <2>6. ASSUME NEW j \in Aggregator
        PROVE  out[j][r].share = ShareOf("meas", j, SharedReport(r), j)
    <3>1. out[j][r] # nil
      BY <1>2
    <3>2. prep[j][r].given.report = SharedReport(r) /\ prep[j][r].given.share = j
      BY <2>5 DEF Shared
    <3>3. out[j][r].share = ShareOf("meas", j, prep[j][r].given.report, prep[j][r].given.share)
      BY <2>1, <3>1, OutIs
    <3>4. QED
      BY <3>2, <3>3
  <2>7. QED
    BY <2>5, <2>6
<1> DEFINE v == [j \in 1 .. shares |-> [i \in 1 .. n |-> ShareOf("meas", j - 1, SharedReport(p[i]), j - 1)]]
<1>6. v \in [1 .. shares -> [1 .. n -> Vector]]
  <2>1. ASSUME NEW j \in 1 .. shares, NEW i \in 1 .. n
        PROVE  ShareOf("meas", j - 1, SharedReport(p[i]), j - 1) \in Vector
    <3>1. SharedReport(p[i]) \in Report
      BY <1>4, <1>5
    <3>2. j - 1 \in Aggregator /\ j - 1 \in AggID
      BY <1>1
    <3>3. QED
      BY <3>1, <3>2, ShareVector DEF Kind
  <2>2. QED
    BY <2>1
<1>7. \A j \in 1 .. shares : agg[j - 1] = Sum(v[j])
  <2> TAKE j \in 1 .. shares
  <2>1. j - 1 \in Aggregator
    BY <1>1
  <2>2. Lists(p, n, batch[j - 1])
    BY <1>3, <2>1
  <2>3. agg[j - 1] = Sum(Listed(j - 1, n, p))
    BY <1>3, <2>1, <2>2 DEF AggInv, AggIs
  <2>4. \A i \in 1 .. n : out[j - 1][p[i]].share = ShareOf("meas", j - 1, SharedReport(p[i]), j - 1)
    BY <1>4, <1>5, <2>1
  <2>5. Listed(j - 1, n, p) = v[j]
    BY <2>4 DEF Listed
  <2>6. QED
    BY <2>3, <2>5
<1>8. \A i \in 1 .. n : Sum([j \in 1 .. shares |-> v[j][i]]) = Unit(<<"meas", SharedReport(p[i])>>)
  <2> TAKE i \in 1 .. n
  <2>1. SharedReport(p[i]) \in Report
    BY <1>4, <1>5
  <2>2. [j \in 1 .. shares |-> v[j][i]]
          = [j \in 1 .. shares |-> ShareOf("meas", j - 1, SharedReport(p[i]), j - 1)]
    OBVIOUS
  <2>3. PICK x \in Report : x = SharedReport(p[i])
    BY <2>1
  <2>4. Sum([j \in 1 .. shares |-> ShareOf("meas", j - 1, x, j - 1)]) = Unit(<<"meas", x>>)
    BY SharesSum DEF Kind
  <2> HIDE DEF v
  <2>5. QED
    BY <2>2, <2>3, <2>4
<1> HIDE DEF v
<1>9. Sum([j \in 1 .. shares |-> Sum(v[j])]) = Sum([i \in 1 .. n |-> Sum([j \in 1 .. shares |-> v[j][i]])])
  BY <1>1, <1>3, <1>6, SumExchange
<1>10. sums = [j \in 1 .. shares |-> Sum(v[j])]
  BY <1>7
<1>11. units = [i \in 1 .. n |-> Sum([j \in 1 .. shares |-> v[j][i]])]
  BY <1>8
<1>12. Len(sums) = shares
  BY <1>1
<1> HIDE DEF sums, units
<1>13. QED
  BY <1>9, <1>10, <1>11, <1>12 DEF Unshard

\* The aggregate shares of aggregators that added up the same nonces, each on the
\* message for it, unshard to the sum of the measurements of the reports verified under
\* those nonces: nothing of what the seeds expand to is left, in whatever order each
\* aggregator added.
THEOREM SumCollected == Spec => []CollectedIsSum
<1>1. Init => StateInv /\ AggInv
  BY StateInit, AggInit
<1>2. (StateInv /\ AggInv) /\ [Next]_vars => (StateInv /\ AggInv)'
  BY StateStep, AggStep
<1>3. StateInv /\ AggInv => CollectedIsSum
  BY Collected
<1>4. QED
  BY <1>1, <1>2, <1>3, PTL DEF Spec
=============================================================================
