------------------------- MODULE PostQuantumProofs -------------------------
(***************************************************************************)
(* What is proved of the lattice schemes, for every value of the           *)
(* constants.                                                              *)
(*                                                                         *)
(* HintPacking: a hint of ML-DSA has one encoding, however many            *)
(* polynomials and coefficients there are.                                 *)
(*                                                                         *)
(* KyberNtt: the inner product of decryption never leaves 16 bits, whatever *)
(* the key and the ciphertext are.  The transforms run on the real modulus *)
(* and the real tables; the proof carries a bound of every coefficient     *)
(* through every layer, as the comments of the code do by hand.            *)
(***************************************************************************)
EXTENDS HintPacking, KyberNtt, NumberLemmas, FiniteSetTheorems

-----------------------------------------------------------------------------
(***************************************************************************)
(* HintPacking. The buffer is cut by the ends of the polynomials; each     *)
(* piece lists the ones of its polynomial in ascending order, and there is *)
(* one such list of a set.                                                 *)
(***************************************************************************)

\* s lists the n elements of S in ascending order.
Lists(s, n, S) == /\ n \in Nat /\ s \in [1 .. n -> S]
                  /\ \A j, k \in 1 .. n : j < k => s[j] < s[k]
                  /\ \A w \in S : \E j \in 1 .. n : s[j] = w

\* A set of indices can be listed in ascending order.
LEMMA ListExists ==
  ASSUME NEW top \in Nat, NEW S, S \subseteq 0 .. top - 1
  PROVE  \E n, s : Lists(s, n, S)
<1> DEFINE T == {l \in Nat : \A U : U \subseteq 0 .. l - 1 => \E n, s : Lists(s, n, U)}
<1>1. 0 \in T
  <2> SUFFICES ASSUME NEW U, U \subseteq 0 .. 0 - 1 PROVE \E n, s : Lists(s, n, U)
    OBVIOUS
  <2>1. U = {}
    OBVIOUS
  <2>2. Lists([j \in 1 .. 0 |-> 0], 0, U)
    BY <2>1 DEF Lists
  <2>3. QED
    BY <2>2
<1>2. ASSUME NEW l \in Nat, l \in T PROVE l + 1 \in T
  <2> SUFFICES ASSUME NEW U, U \subseteq 0 .. (l + 1) - 1 PROVE \E n, s : Lists(s, n, U)
    OBVIOUS
  <2> DEFINE Rest == U \ {l}
  <2>1. Rest \subseteq 0 .. l - 1
    OBVIOUS
  <2>2. PICK n, s : Lists(s, n, Rest)
    BY <1>2, <2>1
  <2>3. CASE l \notin U
    BY <2>2, <2>3, U = Rest
  <2>4. CASE l \in U
    <3> DEFINE t == [j \in 1 .. n + 1 |-> IF j = n + 1 THEN l ELSE s[j]]
    <3>1. n \in Nat /\ s \in [1 .. n -> Rest] /\ n + 1 \in Nat
      BY <2>2 DEF Lists
    <3>2. ASSUME NEW j \in 1 .. n + 1, j # n + 1 PROVE j \in 1 .. n /\ t[j] = s[j] /\ s[j] \in Rest
      BY <3>1, <3>2
    <3>3. t[n + 1] = l
      BY <3>1
    <3>4. t \in [1 .. n + 1 -> U]
      BY <2>4, <3>2
    <3>5. ASSUME NEW j \in 1 .. n + 1, NEW k \in 1 .. n + 1, j < k PROVE t[j] < t[k]
      <4>1. j # n + 1 /\ j \in 1 .. n /\ t[j] = s[j] /\ s[j] \in 0 .. l - 1
        <5>1. j # n + 1
          BY <3>1, <3>5
        <5>2. j \in 1 .. n /\ t[j] = s[j] /\ s[j] \in Rest
          BY <3>2, <5>1
        <5>3. QED
          BY <2>1, <5>1, <5>2
      <4>2. CASE k = n + 1
        BY <3>3, <4>1, <4>2
      <4>3. CASE k # n + 1
        <5>1. k \in 1 .. n /\ t[k] = s[k]
          BY <3>2, <4>3
        <5>2. QED
          BY <2>2, <3>5, <4>1, <5>1 DEF Lists
      <4>4. QED
        BY <4>2, <4>3
    <3>6. ASSUME NEW w \in U PROVE \E j \in 1 .. n + 1 : t[j] = w
      <4>1. CASE w = l
        BY <3>1, <3>3, <4>1
      <4>2. CASE w # l
        <5>1. PICK j \in 1 .. n : s[j] = w
          BY <2>2, <4>2 DEF Lists
        <5>2. j \in 1 .. n + 1 /\ j # n + 1
          BY <3>1
        <5>3. QED
          BY <5>1, <5>2
      <4>3. QED
        BY <4>1, <4>2
    <3> HIDE DEF t
    <3>7. Lists(t, n + 1, U)
      BY <3>1, <3>4, <3>5, <3>6 DEF Lists
    <3>8. QED
      BY <3>7
  <2>5. QED
    BY <2>3, <2>4
<1>3. top \in T
  <2> HIDE DEF T
  <2>1. QED
    BY <1>1, <1>2, Induction
<1>4. QED
  BY <1>3

\* The length of such a list is the number of elements.
LEMMA ListLength ==
  ASSUME NEW S, NEW n, NEW s, S \subseteq Int, Lists(s, n, S)
  PROVE  IsFiniteSet(S) /\ Cardinality(S) = n
<1>1. n \in Nat /\ s \in [1 .. n -> S] /\ \A w \in S : \E j \in 1 .. n : s[j] = w
  BY DEF Lists
<1>2. ASSUME NEW j \in 1 .. n, NEW k \in 1 .. n, s[j] = s[k] PROVE j = k
  <2>1. s[j] \in Int /\ s[k] \in Int
    BY <1>1
  <2>2. ~(s[j] < s[k]) /\ ~(s[k] < s[j])
    BY <1>2, <2>1
  <2>3. QED
    BY <1>1, <2>2 DEF Lists
<1>3. s \in Bijection(1 .. n, S)
  BY <1>1, <1>2 DEF Bijection, Injection, Surjection, IsInjective
<1>4. ExistsBijection(1 .. n, S)
  BY <1>3 DEF ExistsBijection
<1>5. QED
  BY <1>1, <1>4, FS_CountingElements, FS_NatBijection

\* There is one list.
LEMMA ListUnique ==
  ASSUME NEW S, NEW n, NEW m, NEW s, NEW t, S \subseteq Int, Lists(s, n, S), Lists(t, m, S)
  PROVE  n = m /\ s = t
<1>1. n = m /\ n \in Nat
  <2>1. Cardinality(S) = n /\ Cardinality(S) = m
    BY ListLength
  <2>2. QED
    BY <2>1 DEF Lists
<1>2. /\ s \in [1 .. n -> S] /\ t \in [1 .. n -> S]
      /\ \A j \in 1 .. n : s[j] \in Int /\ t[j] \in Int
  BY <1>1 DEF Lists
<1> DEFINE T == {i \in Nat : i <= n => \A j \in 1 .. i : s[j] = t[j]}
<1>3. 0 \in T
  OBVIOUS
<1>4. ASSUME NEW i \in Nat, i \in T PROVE i + 1 \in T
  <2> SUFFICES ASSUME i + 1 <= n PROVE \A j \in 1 .. i + 1 : s[j] = t[j]
    OBVIOUS
  <2>1. i + 1 \in 1 .. n /\ \A j \in 1 .. i : j \in 1 .. n /\ j < i + 1 /\ s[j] = t[j]
    BY <1>1, <1>4
  <2>2. PICK k \in 1 .. n : t[k] = s[i + 1]
    BY <1>1, <1>2, <2>1 DEF Lists
  <2>3. PICK l \in 1 .. n : s[l] = t[i + 1]
    BY <1>1, <1>2, <2>1 DEF Lists
  <2>4. ~(k <= i)
    <3> SUFFICES ASSUME k <= i PROVE FALSE
      OBVIOUS
    <3>1. k \in 1 .. i /\ s[k] = t[k] /\ k < i + 1
      BY <2>1
    <3>2. s[k] < s[i + 1]
      BY <2>1, <3>1 DEF Lists
    <3>3. QED
      BY <1>2, <2>1, <2>2, <3>1, <3>2
  <2>5. ~(l <= i)
    <3> SUFFICES ASSUME l <= i PROVE FALSE
      OBVIOUS
    <3>1. l \in 1 .. i /\ s[l] = t[l] /\ l < i + 1
      BY <2>1
    <3>2. t[l] < t[i + 1]
      BY <1>1, <2>1, <3>1 DEF Lists
    <3>3. QED
      BY <1>2, <2>1, <2>3, <3>1, <3>2
  <2>6. t[i + 1] <= t[k]
    <3>1. k = i + 1 \/ i + 1 < k
      BY <2>4
    <3>2. i + 1 < k => t[i + 1] < t[k]
      BY <1>1, <2>1 DEF Lists
    <3>3. QED
      BY <1>2, <2>1, <3>1, <3>2
  <2>7. s[i + 1] <= s[l]
    <3>1. l = i + 1 \/ i + 1 < l
      BY <2>5
    <3>2. i + 1 < l => s[i + 1] < s[l]
      BY <2>1 DEF Lists
    <3>3. QED
      BY <1>2, <2>1, <3>1, <3>2
  <2>8. s[i + 1] = t[i + 1]
    BY <1>2, <2>1, <2>2, <2>3, <2>6, <2>7
  <2>9. QED
    BY <2>1, <2>8
<1>5. n \in T
  <2> HIDE DEF T
  <2>1. QED
    BY <1>1, <1>3, <1>4, Induction
<1>6. QED
  BY <1>1, <1>2, <1>5

\* Ascending is such a list.
LEMMA AscendingIs ==
  ASSUME HintAssumption, NEW S, S \subseteq Index
  PROVE  Lists(Ascending(S), Cardinality(S), S)
<1>0. HintN \in Nat /\ S \subseteq Int /\ S \subseteq 0 .. HintN - 1
  BY DEF HintAssumption, Index
<1>1. PICK n, s : Lists(s, n, S)
  BY <1>0, ListExists
<1>2. IsFiniteSet(S) /\ Cardinality(S) = n /\ n \in Nat
  <2>1. IsFiniteSet(S) /\ Cardinality(S) = n
    BY <1>0, <1>1, ListLength
  <2>2. QED
    BY <1>1, <2>1 DEF Lists
<1> DEFINE Good(a) == a \in [1 .. Cardinality(S) -> S] /\ \A j, k \in DOMAIN a : j < k => a[j] < a[k]
           chosen == CHOOSE a \in [1 .. Cardinality(S) -> S] : \A j, k \in DOMAIN a : j < k => a[j] < a[k]
<1>3. Good(s)
  BY <1>1, <1>2 DEF Lists
<1>4. Good(chosen)
  BY <1>3
<1>5. chosen = Ascending(S)
  BY DEF Ascending
<1> HIDE DEF chosen
<1>6. chosen \in [1 .. n -> S] /\ \A j, k \in 1 .. n : j < k => chosen[j] < chosen[k]
  BY <1>2, <1>4
<1>7. chosen \in Surjection(1 .. n, S)
  <2>1. ASSUME NEW j \in 1 .. n, NEW k \in 1 .. n, chosen[j] = chosen[k] PROVE j = k
    <3>1. chosen[j] \in Int /\ chosen[k] \in Int
      BY <1>0, <1>6
    <3>2. ~(chosen[j] < chosen[k]) /\ ~(chosen[k] < chosen[j])
      BY <2>1, <3>1
    <3>3. QED
      BY <1>2, <1>6, <3>2
  <2>2. chosen \in Injection(1 .. n, S)
    BY <1>6, <2>1 DEF Injection, IsInjective
  <2>3. Cardinality(1 .. n) = Cardinality(S)
    <3>1. 1 \in Int /\ n \in Int
      BY <1>2
    <3>2. Cardinality(1 .. n) = IF 1 > n THEN 0 ELSE n - 1 + 1
      BY <3>1, FS_Interval
    <3>3. QED
      BY <1>2, <3>2
  <2>4. QED
    BY <1>2, <2>2, <2>3, FS_Injection
<1>8. \A w \in S : \E j \in 1 .. n : chosen[j] = w
  BY <1>7 DEF Surjection
<1>9. QED
  BY <1>2, <1>5, <1>6, <1>8 DEF Lists

-----------------------------------------------------------------------------
(* What is packed *)

\* sum[i] is the number of ones in the first i polynomials, list[i] lists them.
Sums(sum, v) == /\ sum \in [0 .. HintK -> Nat] /\ sum[0] = 0
                /\ \A i \in 1 .. HintK : sum[i] = sum[i - 1] + Cardinality(v[i])
Joins(list, v) == /\ list \in [0 .. HintK -> Seq(Index)] /\ list[0] = <<>>
                  /\ \A i \in 1 .. HintK : list[i] = list[i - 1] \o Ascending(v[i])

\* The ones of a polynomial, as they are listed.
LEMMA OnesAre ==
  ASSUME HintAssumption, NEW v \in Hint, NEW i \in 1 .. HintK
  PROVE  /\ v[i] \subseteq Index /\ Cardinality(v[i]) \in Nat
         /\ Ascending(v[i]) \in Seq(Index) /\ Len(Ascending(v[i])) = Cardinality(v[i])
<1>1. v[i] \subseteq Index
  BY DEF Hint
<1>2. Lists(Ascending(v[i]), Cardinality(v[i]), v[i])
  BY <1>1, AscendingIs
<1>3. PICK n \in Nat : n = Cardinality(v[i]) /\ Ascending(v[i]) \in [1 .. n -> Index]
  BY <1>1, <1>2 DEF Lists
<1>4. QED
  BY <1>1, <1>3

\* Population adds up the ones of the polynomials.
LEMMA PopulationIs ==
  ASSUME HintAssumption, NEW v \in Hint
  PROVE  \E sum : Sums(sum, v) /\ Population(v) = sum[HintK]
<1> DEFINE Body(f) == [i \in 0 .. HintK |-> IF i = 0 THEN 0 ELSE f[i - 1] + Cardinality(v[i])]
           upTo == CHOOSE f : f = Body(f)
           G == [z \in Nat \X Nat |-> IF z[1] + 1 \in 1 .. HintK
                                      THEN z[2] + Cardinality(v[z[1] + 1]) ELSE z[2]]
<1>0. HintK \in Nat \ {0}
  BY DEF HintAssumption
<1>1. Population(v) = upTo[HintK]
  BY DEF Population
<1>2. G \in [Nat \X Nat -> Nat]
  BY OnesAre
<1>3. PICK f \in [0 .. HintK -> Nat] : Follows(f, 0, G, HintK)
  <2> HIDE DEF G
  <2>1. QED
    BY <1>0, <1>2, RecursionUpTo
<1>4. ASSUME NEW i \in 1 .. HintK PROVE f[i] = f[i - 1] + Cardinality(v[i])
  <2>1. i - 1 \in 0 .. HintK - 1 /\ (i - 1) + 1 = i /\ i - 1 \in Nat /\ i - 1 \in 0 .. HintK
    BY <1>0
  <2>2. f[(i - 1) + 1] = G[<<i - 1, f[i - 1]>>]
    BY <1>3, <2>1 DEF Follows
  <2>3. f[i - 1] \in Nat
    BY <2>1
  <2>4. QED
    BY <2>1, <2>2, <2>3
<1>5. f[0] = 0
  BY <1>3 DEF Follows
<1>6. f = Body(f)
  BY <1>4, <1>5
<1> HIDE DEF Body
<1>7. upTo = Body(upTo)
  BY <1>6
<1> HIDE DEF upTo
<1>8. /\ DOMAIN upTo = 0 .. HintK /\ upTo = [i \in DOMAIN upTo |-> upTo[i]]
      /\ upTo[0] = 0 /\ \A i \in 1 .. HintK : upTo[i] = upTo[i - 1] + Cardinality(v[i])
  BY <1>0, <1>7 DEF Body
<1> DEFINE T == {i \in Nat : i <= HintK => upTo[i] = f[i]}
<1>9. 0 \in T
  BY <1>5, <1>8
<1>10. ASSUME NEW i \in Nat, i \in T PROVE i + 1 \in T
  <2> SUFFICES ASSUME i + 1 <= HintK PROVE upTo[i + 1] = f[i + 1]
    OBVIOUS
  <2>1. i + 1 \in 1 .. HintK /\ (i + 1) - 1 = i /\ upTo[i] = f[i]
    BY <1>0, <1>10
  <2>2. QED
    BY <1>4, <1>8, <2>1
<1>11. \A i \in Nat : i \in T
  <2> HIDE DEF T
  <2>1. QED
    BY <1>9, <1>10, Induction
<1>12. \A i \in 0 .. HintK : upTo[i] = f[i]
  BY <1>0, <1>11
<1>13. upTo = f
  BY <1>8, <1>12
<1>14. Sums(f, v)
  BY <1>4, <1>5 DEF Sums
<1>15. QED
  BY <1>1, <1>13, <1>14

\* PackHint pads the list and appends the ends.
LEMMA PackIs ==
  ASSUME HintAssumption, NEW v \in Hint
  PROVE  \E list : /\ Joins(list, v)
                   /\ PackHint(v) = [p \in 1 .. HintOmega |->
                                       IF p <= Len(list[HintK]) THEN list[HintK][p] ELSE 0]
                                    \o [i \in 1 .. HintK |-> Len(list[i])]
<1> DEFINE Body(f) == [i \in 0 .. HintK |-> IF i = 0 THEN <<>> ELSE f[i - 1] \o Ascending(v[i])]
           list == CHOOSE f : f = Body(f)
           V == Seq(Index)
           G == [z \in Nat \X V |-> IF z[1] + 1 \in 1 .. HintK
                                    THEN z[2] \o Ascending(v[z[1] + 1]) ELSE z[2]]
           Buffer(f) == [p \in 1 .. HintOmega |-> IF p <= Len(f[HintK]) THEN f[HintK][p] ELSE 0]
                        \o [i \in 1 .. HintK |-> Len(f[i])]
<1>0. HintK \in Nat \ {0}
  BY DEF HintAssumption
<1>1. PackHint(v) = Buffer(list)
  BY DEF PackHint
<1> HIDE DEF Buffer
<1>2. G \in [Nat \X V -> V] /\ <<>> \in V
  <2>1. ASSUME NEW z \in Nat \X V PROVE G[z] \in V
    <3>1. z[2] \in Seq(Index) /\ z[1] + 1 \in Nat
      OBVIOUS
    <3>2. CASE z[1] + 1 \in 1 .. HintK
      <4>1. Ascending(v[z[1] + 1]) \in Seq(Index)
        BY <3>2, OnesAre
      <4>2. z[2] \o Ascending(v[z[1] + 1]) \in Seq(Index)
        BY <3>1, <4>1
      <4>3. QED
        BY <3>2, <4>2
    <3>3. CASE ~(z[1] + 1 \in 1 .. HintK)
      BY <3>1, <3>3
    <3>4. QED
      BY <3>2, <3>3
  <2>2. QED
    BY <2>1
<1>3. PICK f \in [0 .. HintK -> V] : Follows(f, <<>>, G, HintK)
  <2> HIDE DEF G, V
  <2>1. QED
    BY <1>0, <1>2, RecursionUpTo
<1>4. ASSUME NEW i \in 1 .. HintK PROVE f[i] = f[i - 1] \o Ascending(v[i])
  <2>1. i - 1 \in 0 .. HintK - 1 /\ (i - 1) + 1 = i /\ i - 1 \in Nat /\ i - 1 \in 0 .. HintK
    BY <1>0
  <2>2. f[(i - 1) + 1] = G[<<i - 1, f[i - 1]>>]
    BY <1>3, <2>1 DEF Follows
  <2>3. f[i - 1] \in V
    BY <2>1
  <2> HIDE DEF V
  <2>4. QED
    BY <2>1, <2>2, <2>3
<1>5. f[0] = <<>>
  BY <1>3 DEF Follows
<1> HIDE DEF V, G
<1>6. f = Body(f)
  <2>1. ASSUME NEW i \in 0 .. HintK
        PROVE  f[i] = IF i = 0 THEN <<>> ELSE f[i - 1] \o Ascending(v[i])
    <3>1. CASE i = 0
      BY <1>5, <3>1
    <3>2. CASE i # 0
      <4>1. i \in 1 .. HintK
        BY <1>0, <3>2
      <4>2. QED
        BY <1>4, <3>2, <4>1
    <3>3. QED
      BY <3>1, <3>2
  <2>2. QED
    BY <2>1
<1> HIDE DEF Body
<1>7. list = Body(list)
  BY <1>6
<1> HIDE DEF list
<1>8. /\ DOMAIN list = 0 .. HintK /\ list = [i \in DOMAIN list |-> list[i]]
      /\ list[0] = <<>> /\ \A i \in 1 .. HintK : list[i] = list[i - 1] \o Ascending(v[i])
  BY <1>0, <1>7 DEF Body
<1> DEFINE T == {i \in Nat : i <= HintK => list[i] = f[i]}
<1>9. 0 \in T
  BY <1>5, <1>8
<1>10. ASSUME NEW i \in Nat, i \in T PROVE i + 1 \in T
  <2> SUFFICES ASSUME i + 1 <= HintK PROVE list[i + 1] = f[i + 1]
    OBVIOUS
  <2>1. i + 1 \in 1 .. HintK /\ (i + 1) - 1 = i /\ list[i] = f[i]
    BY <1>0, <1>10
  <2>2. QED
    BY <1>4, <1>8, <2>1
<1>11. \A i \in Nat : i \in T
  <2> HIDE DEF T
  <2>1. QED
    BY <1>9, <1>10, Induction
<1>12. \A i \in 0 .. HintK : list[i] = f[i]
  BY <1>0, <1>11
<1>13. list = f
  BY <1>8, <1>12
<1>14. Joins(f, v)
  BY <1>4, <1>5 DEF Joins, V
<1>15. QED
  BY <1>1, <1>13, <1>14 DEF Buffer

\* The end of a polynomial is the number of ones up to it.
LEMMA JoinsSums ==
  ASSUME HintAssumption, NEW v \in Hint, NEW list, Joins(list, v), NEW sum, Sums(sum, v)
  PROVE  \A i \in 0 .. HintK : Len(list[i]) = sum[i]
<1>0. HintK \in Nat \ {0}
  BY DEF HintAssumption
<1> DEFINE T == {i \in Nat : i <= HintK => Len(list[i]) = sum[i]}
<1>1. 0 \in T
  BY DEF Joins, Sums
<1>2. ASSUME NEW i \in Nat, i \in T PROVE i + 1 \in T
  <2> SUFFICES ASSUME i + 1 <= HintK PROVE Len(list[i + 1]) = sum[i + 1]
    OBVIOUS
  <2>1. i + 1 \in 1 .. HintK /\ (i + 1) - 1 = i /\ i \in 0 .. HintK /\ Len(list[i]) = sum[i]
    BY <1>0, <1>2
  <2>2. list[i + 1] = list[i] \o Ascending(v[i + 1]) /\ list[i] \in Seq(Index)
    BY <2>1 DEF Joins
  <2>3. /\ Ascending(v[i + 1]) \in Seq(Index)
        /\ Len(Ascending(v[i + 1])) = Cardinality(v[i + 1])
    BY <2>1, OnesAre
  <2>4. Len(list[i + 1]) = Len(list[i]) + Cardinality(v[i + 1])
    <3>1. \A s, t \in Seq(Index) : Len(s \o t) = Len(s) + Len(t)
      OBVIOUS
    <3>2. QED
      BY <2>2, <2>3, <3>1
  <2>5. QED
    BY <2>1, <2>4 DEF Sums
<1>3. \A i \in Nat : i \in T
  <2> HIDE DEF T
  <2>1. QED
    BY <1>1, <1>2, Induction
<1>4. QED
  BY <1>0, <1>3

\* A list goes on in the next ones.
LEMMA JoinsGoOn ==
  ASSUME HintAssumption, NEW v \in Hint, NEW list, Joins(list, v), NEW i \in 0 .. HintK
  PROVE  \A j \in i .. HintK : /\ Len(list[i]) <= Len(list[j])
                               /\ \A p \in 1 .. Len(list[i]) : list[j][p] = list[i][p]
<1>0. HintK \in Nat \ {0} /\ i \in Nat
  BY DEF HintAssumption
<1> DEFINE T == {d \in Nat : i + d <= HintK =>
                    /\ Len(list[i]) <= Len(list[i + d])
                    /\ \A p \in 1 .. Len(list[i]) : list[i + d][p] = list[i][p]}
<1>1. 0 \in T
  <2>1. list[i] \in Seq(Index) /\ i + 0 = i
    BY <1>0 DEF Joins
  <2>2. Len(list[i]) \in Nat
    BY <2>1
  <2>3. QED
    BY <2>1, <2>2
<1>2. ASSUME NEW d \in Nat, d \in T PROVE d + 1 \in T
  <2> SUFFICES ASSUME i + (d + 1) <= HintK
               PROVE  /\ Len(list[i]) <= Len(list[i + (d + 1)])
                      /\ \A p \in 1 .. Len(list[i]) : list[i + (d + 1)][p] = list[i][p]
    OBVIOUS
  <2>1. PICK k \in 1 .. HintK : k = i + (d + 1) /\ k - 1 = i + d /\ k - 1 \in 0 .. HintK
    BY <1>0
  <2>2. list[i] \in Seq(Index) /\ list[k - 1] \in Seq(Index) /\ list[k] = list[k - 1] \o Ascending(v[k])
    BY <2>1 DEF Joins
  <2>3. /\ Len(list[i]) <= Len(list[k - 1])
        /\ \A p \in 1 .. Len(list[i]) : list[k - 1][p] = list[i][p]
    BY <1>0, <1>2, <2>1
  <2>4. Ascending(v[k]) \in Seq(Index)
    BY OnesAre
  <2>5. \A s, t \in Seq(Index) : /\ Len(s) \in Nat /\ Len(s) <= Len(s \o t)
                                 /\ \A p \in 1 .. Len(s) : (s \o t)[p] = s[p]
    OBVIOUS
  <2>6. Len(list[k - 1]) <= Len(list[k]) /\ \A p \in 1 .. Len(list[k - 1]) : list[k][p] = list[k - 1][p]
    <3>1. PICK s \in Seq(Index), t \in Seq(Index) : s = list[k - 1] /\ list[k] = s \o t
      BY <2>2, <2>4, Zenon
    <3>2. PICK w : w = s \o t
      OBVIOUS
    <3>3. Len(s) <= Len(w) /\ \A p \in 1 .. Len(s) : w[p] = s[p]
      BY <3>2, <2>5, Zenon
    <3>4. QED
      BY <3>1, <3>2, <3>3, Zenon
  <2>7. Len(list[i]) \in Nat /\ Len(list[k - 1]) \in Nat /\ Len(list[k]) \in Nat
    BY <2>1, <2>2 DEF Joins
  <2>8. \A p \in 1 .. Len(list[i]) : p \in 1 .. Len(list[k - 1])
    BY <2>3, <2>7
  <2>9. QED
    BY <2>1, <2>3, <2>6, <2>7, <2>8
<1>3. \A d \in Nat : d \in T
  <2> HIDE DEF T
  <2>1. QED
    BY <1>1, <1>2, Induction
<1>4. ASSUME NEW j \in i .. HintK
      PROVE  /\ Len(list[i]) <= Len(list[j])
             /\ \A p \in 1 .. Len(list[i]) : list[j][p] = list[i][p]
  <2>1. j - i \in Nat /\ i + (j - i) = j /\ j <= HintK
    BY <1>0
  <2>2. QED
    BY <1>3, <2>1
<1>5. QED
  BY <1>4

\* Where the ones of a polynomial are in the whole list.
LEMMA JoinsPiece ==
  ASSUME HintAssumption, NEW v \in Hint, NEW list, Joins(list, v), NEW i \in 1 .. HintK
  PROVE  /\ Len(list[i - 1]) \in Nat /\ Len(list[i]) \in Nat /\ Len(list[HintK]) \in Nat
         /\ Len(list[i]) = Len(list[i - 1]) + Cardinality(v[i])
         /\ Len(list[i]) <= Len(list[HintK])
         /\ \A k \in 1 .. Cardinality(v[i]) :
              list[HintK][Len(list[i - 1]) + k] = Ascending(v[i])[k]
<1>0. HintK \in Nat \ {0} /\ i \in 0 .. HintK /\ i - 1 \in 0 .. HintK /\ HintK \in i .. HintK
      /\ HintK \in 0 .. HintK
  BY DEF HintAssumption
<1>1. /\ list[i - 1] \in Seq(Index) /\ list[i] \in Seq(Index) /\ list[HintK] \in Seq(Index)
      /\ list[i] = list[i - 1] \o Ascending(v[i])
  BY <1>0 DEF Joins
<1>2. /\ Ascending(v[i]) \in Seq(Index) /\ Len(Ascending(v[i])) = Cardinality(v[i])
      /\ Cardinality(v[i]) \in Nat
  BY OnesAre
<1>4. /\ Len(list[i - 1]) \in Nat /\ Len(list[i]) \in Nat /\ Len(list[HintK]) \in Nat
      /\ Len(list[i]) = Len(list[i - 1]) + Cardinality(v[i])
      /\ \A k \in 1 .. Cardinality(v[i]) : list[i][Len(list[i - 1]) + k] = Ascending(v[i])[k]
  <2>1. PICK n \in Nat, l \in Nat : n = Len(list[i - 1]) /\ l = Cardinality(v[i])
    BY <1>1, <1>2
  <2>2. /\ Len(list[i]) = n + l
        /\ \A k \in 1 .. l : list[i][n + k] = Ascending(v[i])[k]
    <3>1. /\ list[i - 1] \in Seq(Index) /\ Ascending(v[i]) \in Seq(Index)
          /\ Len(list[i - 1]) = n /\ Len(Ascending(v[i])) = l
      BY <1>1, <1>2, <2>1
    <3>2. PICK s \in Seq(Index), t \in Seq(Index) :
            s = list[i - 1] /\ t = Ascending(v[i]) /\ Len(s) = n /\ Len(t) = l
      BY <3>1, Zenon
    <3>3. Len(s \o t) = n + l /\ \A k \in 1 .. l : (s \o t)[n + k] = t[k]
      <4>1. Len(s) = n /\ Len(t) = l
        BY <3>2, Zenon
      <4>2. Len(s \o t) = n + l
        BY <4>1
      <4>3. ASSUME NEW k \in 1 .. l PROVE (s \o t)[n + k] = t[k]
        BY <4>1
      <4>4. QED
        BY <4>2, <4>3, Zenon
    <3>4. QED
      BY <1>1, <3>2, <3>3, Zenon
  <2>3. Len(list[HintK]) \in Nat
    <3>1. \A s \in Seq(Index) : Len(s) \in Nat
      OBVIOUS
    <3>2. QED
      BY <1>1, <3>1, Zenon
  <2>4. \A k \in 1 .. Cardinality(v[i]) : list[i][Len(list[i - 1]) + k] = Ascending(v[i])[k]
    BY <2>1, <2>2, Zenon
  <2>5. Len(list[i]) = Len(list[i - 1]) + Cardinality(v[i])
    BY <2>1, <2>2, Zenon
  <2>6. Len(list[i - 1]) \in Nat /\ Len(list[i]) \in Nat
    <3>1. \A s \in Seq(Index) : Len(s) \in Nat
      OBVIOUS
    <3>2. QED
      BY <1>1, <3>1, Zenon
  <2>7. QED
    BY <2>3, <2>4, <2>5, <2>6, Zenon
<1>5. /\ Len(list[i]) <= Len(list[HintK])
      /\ \A p \in 1 .. Len(list[i]) : list[HintK][p] = list[i][p]
  BY <1>0, JoinsGoOn
<1>6. ASSUME NEW k \in 1 .. Cardinality(v[i])
      PROVE  list[HintK][Len(list[i - 1]) + k] = Ascending(v[i])[k]
  <2>1. Len(list[i - 1]) + k \in 1 .. Len(list[i])
    BY <1>2, <1>4
  <2>2. QED
    BY <1>4, <1>5, <2>1
<1>7. QED
  BY <1>4, <1>5, <1>6

\* What is where in the buffer.
LEMMA BufferIs ==
  ASSUME HintAssumption, NEW v \in Hint, NEW list, Joins(list, v), NEW b, Len(list[HintK]) <= HintOmega,
         b = [p \in 1 .. HintOmega |-> IF p <= Len(list[HintK]) THEN list[HintK][p] ELSE 0]
             \o [i \in 1 .. HintK |-> Len(list[i])]
  PROVE  /\ b \in [1 .. HintOmega + HintK -> Index]
         /\ \A p \in 1 .. HintOmega : b[p] = IF p <= Len(list[HintK]) THEN list[HintK][p] ELSE 0
         /\ \A i \in 0 .. HintK : SOP(b, i) = Len(list[i])
<1> DEFINE front == [p \in 1 .. HintOmega |-> IF p <= Len(list[HintK]) THEN list[HintK][p] ELSE 0]
           back == [i \in 1 .. HintK |-> Len(list[i])]
<1>0. /\ HintK \in Nat \ {0} /\ HintOmega \in Nat \ {0} /\ HintN \in Nat \ {0} /\ HintOmega < HintN
      /\ HintK \in 0 .. HintK
  BY DEF HintAssumption
<1>1. list[HintK] \in Seq(Index) /\ Len(list[0]) = 0
  BY <1>0 DEF Joins
<1>2. ASSUME NEW p \in 1 .. HintOmega PROVE front[p] \in Index
  <2>1. CASE p <= Len(list[HintK])
    <3>1. p \in 1 .. Len(list[HintK])
      BY <1>1, <2>1
    <3>2. QED
      BY <1>1, <2>1, <3>1
  <2>2. CASE ~(p <= Len(list[HintK]))
    BY <1>0, <2>2 DEF Index
  <2>3. QED
    BY <2>1, <2>2
<1>3. front \in Seq(Index) /\ Len(front) = HintOmega
  <2>1. front \in [1 .. HintOmega -> Index]
    BY <1>2
  <2> HIDE DEF front
  <2>2. QED
    BY <1>0, <2>1
<1>4. ASSUME NEW i \in 1 .. HintK PROVE back[i] \in Index
  <2>1. Len(list[i]) \in Nat /\ Len(list[i]) <= Len(list[HintK]) /\ Len(list[HintK]) \in Nat
    BY JoinsPiece
  <2>2. QED
    BY <1>0, <2>1 DEF Index
<1>5. back \in Seq(Index) /\ Len(back) = HintK
  <2>1. back \in [1 .. HintK -> Index]
    BY <1>4
  <2> HIDE DEF back
  <2>2. QED
    BY <1>0, <2>1
<1>6. b = front \o back
  OBVIOUS
<1>7. \A p \in 1 .. HintOmega : front[p] = IF p <= Len(list[HintK]) THEN list[HintK][p] ELSE 0
  OBVIOUS
<1>8. \A i \in 1 .. HintK : back[i] = Len(list[i])
  OBVIOUS
<1> HIDE DEF front, back
<1>9. /\ b \in [1 .. HintOmega + HintK -> Index]
      /\ \A p \in 1 .. HintOmega : b[p] = front[p]
      /\ \A i \in 1 .. HintK : b[HintOmega + i] = back[i]
  <2>1. HintOmega \in Nat /\ HintK \in Nat
    BY <1>0
  <2>2. /\ front \o back \in [1 .. HintOmega + HintK -> Index]
        /\ \A p \in 1 .. HintOmega : (front \o back)[p] = front[p]
        /\ \A i \in 1 .. HintK : (front \o back)[HintOmega + i] = back[i]
    <3>1. PICK s \in Seq(Index), t \in Seq(Index) :
            s = front /\ t = back /\ Len(s) = HintOmega /\ Len(t) = HintK
      BY <1>3, <1>5, Zenon
    <3>2. Len(s) = HintOmega /\ Len(t) = HintK
      BY <3>1, Zenon
    <3>3. /\ s \o t \in [1 .. HintOmega + HintK -> Index]
          /\ \A p \in 1 .. HintOmega : (s \o t)[p] = s[p]
          /\ \A i \in 1 .. HintK : (s \o t)[HintOmega + i] = t[i]
      <4>1. s \o t \in Seq(Index) /\ Len(s \o t) = HintOmega + HintK
        <5>1. s \o t \in Seq(Index)
          OBVIOUS
        <5>2. Len(s \o t) = Len(s) + Len(t)
          OBVIOUS
        <5>3. QED
          BY <3>2, <5>1, <5>2, Zenon
      <4>2. \A w \in Seq(Index) : w \in [1 .. Len(w) -> Index]
        OBVIOUS
      <4>3. s \o t \in [1 .. HintOmega + HintK -> Index]
        BY <4>1, <4>2, Zenon
      <4>4. ASSUME NEW p \in 1 .. HintOmega PROVE (s \o t)[p] = s[p]
        BY <2>1, <3>2
      <4>5. ASSUME NEW i \in 1 .. HintK PROVE (s \o t)[HintOmega + i] = t[i]
        BY <2>1, <3>2
      <4>6. QED
        BY <4>3, <4>4, <4>5, Zenon
    <3>4. QED
      BY <3>1, <3>3, Zenon
  <2>3. QED
    BY <1>6, <2>2, Zenon
<1>10. \A i \in 0 .. HintK : SOP(b, i) = Len(list[i])
  <2>1. ASSUME NEW i \in 0 .. HintK, i # 0 PROVE i \in 1 .. HintK
    BY <1>0, <2>1
  <2>2. QED
    BY <1>1, <1>8, <1>9, <2>1 DEF SOP
<1>11. QED
  BY <1>7, <1>9, <1>10

\* What a signer packs is accepted, and read back.
LEMMA PackedReadBack ==
  ASSUME HintAssumption, NEW v \in Hint, Population(v) <= HintOmega
  PROVE  /\ PackHint(v) \in [1 .. HintOmega + HintK -> Index]
         /\ Accepted(PackHint(v)) /\ UnpackHint(PackHint(v)) = v
<1>0. HintK \in Nat \ {0} /\ HintOmega \in Nat \ {0} /\ HintK \in 1 .. HintK /\ HintK \in 0 .. HintK
  BY DEF HintAssumption
<1>1. PICK b : b = PackHint(v)
  OBVIOUS
<1>2. PICK list : /\ Joins(list, v)
                  /\ b = [p \in 1 .. HintOmega |->
                            IF p <= Len(list[HintK]) THEN list[HintK][p] ELSE 0]
                         \o [i \in 1 .. HintK |-> Len(list[i])]
  BY <1>1, PackIs
<1>3. PICK sum : Sums(sum, v) /\ Population(v) = sum[HintK]
  BY PopulationIs
<1>4. Len(list[HintK]) <= HintOmega
  BY <1>0, <1>2, <1>3, JoinsSums
<1>5. /\ b \in [1 .. HintOmega + HintK -> Index]
      /\ \A p \in 1 .. HintOmega : b[p] = IF p <= Len(list[HintK]) THEN list[HintK][p] ELSE 0
      /\ \A i \in 0 .. HintK : SOP(b, i) = Len(list[i])
  BY <1>2, <1>4, BufferIs
<1>6. ASSUME NEW i \in 1 .. HintK
      PROVE  /\ SOP(b, i - 1) \in Nat /\ SOP(b, i) \in Nat /\ SOP(b, i) <= HintOmega
             /\ SOP(b, i) = SOP(b, i - 1) + Cardinality(v[i]) /\ Cardinality(v[i]) \in Nat
             /\ \A k \in 1 .. Cardinality(v[i]) : b[SOP(b, i - 1) + k] = Ascending(v[i])[k]
  <2>1. /\ Len(list[i - 1]) \in Nat /\ Len(list[i]) \in Nat /\ Len(list[HintK]) \in Nat
        /\ Len(list[i]) = Len(list[i - 1]) + Cardinality(v[i])
        /\ Len(list[i]) <= Len(list[HintK])
        /\ \A k \in 1 .. Cardinality(v[i]) :
             list[HintK][Len(list[i - 1]) + k] = Ascending(v[i])[k]
    BY <1>2, JoinsPiece
  <2>2. SOP(b, i - 1) = Len(list[i - 1]) /\ SOP(b, i) = Len(list[i]) /\ Cardinality(v[i]) \in Nat
    <3>1. i \in 0 .. HintK /\ i - 1 \in 0 .. HintK
      BY <1>0
    <3>2. QED
      BY <1>5, <3>1, OnesAre
  <2>3. ASSUME NEW k \in 1 .. Cardinality(v[i]) PROVE b[SOP(b, i - 1) + k] = Ascending(v[i])[k]
    <3>1. PICK p : p = SOP(b, i - 1) + k
      OBVIOUS
    <3>2. p \in 1 .. HintOmega /\ p <= Len(list[HintK])
      <4>1. PICK l \in Nat, c \in Nat : l = Len(list[i - 1]) /\ c = Cardinality(v[i])
        BY <2>1, <2>2
      <4>2. PICK z \in Nat : z = Len(list[HintK]) /\ l + c <= z /\ z <= HintOmega
        BY <1>4, <2>1, <4>1
      <4>3. k \in 1 .. c /\ p = l + k
        BY <2>2, <3>1, <4>1
      <4>4. QED
        BY <1>0, <4>2, <4>3
    <3>3. b[p] = list[HintK][p]
      BY <1>5, <3>2
    <3>4. QED
      BY <2>1, <2>2, <3>1, <3>3
  <2>4. QED
    BY <1>0, <1>4, <2>1, <2>2, <2>3
<1>7. Accepted(b)
  <2>1. ASSUME NEW i \in 1 .. HintK PROVE SOP(b, i - 1) <= SOP(b, i) /\ SOP(b, i) <= HintOmega
    BY <1>6
  <2>2. ASSUME NEW i \in 1 .. HintK, NEW j \in SOP(b, i - 1) + 2 .. SOP(b, i) PROVE b[j - 1] < b[j]
    <3>1. PICK l \in Nat, c \in Nat : l = SOP(b, i - 1) /\ c = Cardinality(v[i]) /\ SOP(b, i) = l + c
      BY <1>6
    <3>2. PICK k \in 2 .. c : j = l + k /\ j - 1 = l + (k - 1) /\ k \in 1 .. c /\ k - 1 \in 1 .. c
      <4>1. j \in l + 2 .. l + c
        BY <3>1
      <4>2. j - l \in 2 .. c /\ j = l + (j - l) /\ j - 1 = l + ((j - l) - 1)
        BY <4>1
      <4>3. j - l \in 1 .. c /\ (j - l) - 1 \in 1 .. c
        BY <4>1
      <4>4. QED
        BY <4>2, <4>3
    <3>3. b[j] = Ascending(v[i])[k] /\ b[j - 1] = Ascending(v[i])[k - 1]
      BY <1>6, <3>1, <3>2
    <3>4. Lists(Ascending(v[i]), c, v[i])
      BY <3>1, OnesAre, AscendingIs
    <3>5. k - 1 < k
      BY <3>2
    <3>6. QED
      BY <3>2, <3>3, <3>4, <3>5 DEF Lists
  <2>3. ASSUME NEW j \in SOP(b, HintK) + 1 .. HintOmega PROVE b[j] = 0
    <3>1. SOP(b, HintK) = Len(list[HintK]) /\ SOP(b, HintK) \in Nat
      BY <1>0, <1>5, <1>6
    <3>2. j \in 1 .. HintOmega /\ ~(j <= Len(list[HintK]))
      BY <1>0, <3>1
    <3>3. QED
      BY <1>5, <3>2
  <2>4. QED
    BY <2>1, <2>2, <2>3 DEF Accepted
<1>8. ASSUME NEW i \in 1 .. HintK PROVE {b[j] : j \in SOP(b, i - 1) + 1 .. SOP(b, i)} = v[i]
  <2>1. PICK l \in Nat, c \in Nat : l = SOP(b, i - 1) /\ c = Cardinality(v[i]) /\ SOP(b, i) = l + c
    BY <1>6
  <2>2. Lists(Ascending(v[i]), c, v[i])
    BY <2>1, OnesAre, AscendingIs
  <2>3. \A k \in 1 .. c : b[l + k] = Ascending(v[i])[k]
    BY <1>6, <2>1
  <2>4. ASSUME NEW j \in l + 1 .. l + c PROVE b[j] \in v[i]
    <3>1. j - l \in 1 .. c /\ l + (j - l) = j
      BY <2>1
    <3>2. QED
      BY <2>2, <2>3, <3>1 DEF Lists
  <2>5. ASSUME NEW w \in v[i] PROVE \E j \in l + 1 .. l + c : b[j] = w
    <3>1. PICK k \in 1 .. c : Ascending(v[i])[k] = w
      BY <2>2 DEF Lists
    <3>2. l + k \in l + 1 .. l + c
      OBVIOUS
    <3>3. QED
      BY <2>3, <3>1, <3>2
  <2>6. QED
    BY <2>1, <2>4, <2>5
<1>9. UnpackHint(b) = v
  <2>1. UnpackHint(b) = [i \in 1 .. HintK |-> v[i]]
    BY <1>8 DEF UnpackHint
  <2>2. QED
    BY <2>1 DEF Hint
<1>10. QED
  BY <1>1, <1>5, <1>7, <1>9

-----------------------------------------------------------------------------
(* What is accepted *)

\* Anything of the right length.
Buffers == [1 .. HintOmega + HintK -> Index]

\* In a buffer that is accepted the ends are in order and have room.
LEMMA EndsAre ==
  ASSUME HintAssumption, NEW b \in Buffers, Accepted(b)
  PROVE  /\ \A i \in 0 .. HintK : SOP(b, i) \in Nat /\ SOP(b, i) <= HintOmega
         /\ \A i \in 1 .. HintK : SOP(b, i - 1) \in Nat /\ SOP(b, i - 1) <= SOP(b, i)
<1>0. HintK \in Nat \ {0} /\ HintOmega \in Nat \ {0} /\ HintN \in Nat \ {0}
  BY DEF HintAssumption
<1>1. ASSUME NEW i \in 0 .. HintK PROVE SOP(b, i) \in Nat /\ SOP(b, i) <= HintOmega
  <2>1. CASE i = 0
    BY <1>0, <2>1 DEF SOP
  <2>2. CASE i # 0
    <3>1. i \in 1 .. HintK /\ HintOmega + i \in 1 .. HintOmega + HintK
      BY <1>0, <2>2
    <3>2. b[HintOmega + i] \in 0 .. HintN - 1
      BY <3>1 DEF Buffers, Index
    <3>3. SOP(b, i) <= HintOmega
      BY <3>1 DEF Accepted
    <3>4. SOP(b, i) = b[HintOmega + i]
      BY <2>2 DEF SOP
    <3>5. QED
      BY <1>0, <3>2, <3>3, <3>4
  <2>3. QED
    BY <2>1, <2>2
<1>2. ASSUME NEW i \in 1 .. HintK PROVE SOP(b, i - 1) \in Nat /\ SOP(b, i - 1) <= SOP(b, i)
  <2>1. i - 1 \in 0 .. HintK
    BY <1>0
  <2>2. QED
    BY <1>1, <2>1 DEF Accepted
<1>3. QED
  BY <1>1, <1>2

\* The piece of a polynomial lists what is read from it.
LEMMA PieceLists ==
  ASSUME HintAssumption, NEW b \in Buffers, Accepted(b), NEW i \in 1 .. HintK,
         NEW l \in Nat, NEW c \in Nat, l = SOP(b, i - 1), l + c = SOP(b, i)
  PROVE  Lists([k \in 1 .. c |-> b[l + k]], c, UnpackHint(b)[i])
<1> DEFINE s == [k \in 1 .. c |-> b[l + k]]
<1>0. HintK \in Nat \ {0} /\ HintOmega \in Nat \ {0} /\ HintN \in Nat \ {0} /\ l + c <= HintOmega
  BY EndsAre DEF HintAssumption
<1>1. UnpackHint(b)[i] = {b[j] : j \in l + 1 .. l + c}
  BY DEF UnpackHint
<1>2. ASSUME NEW k \in 1 .. c PROVE s[k] \in UnpackHint(b)[i] /\ s[k] \in Int
  <2>1. l + k \in l + 1 .. l + c /\ l + k \in 1 .. HintOmega + HintK
    BY <1>0
  <2>2. b[l + k] \in 0 .. HintN - 1
    BY <2>1 DEF Buffers, Index
  <2>3. QED
    BY <1>0, <1>1, <2>1, <2>2
<1>3. ASSUME NEW k \in 1 .. c, k # 1 PROVE s[k - 1] < s[k]
  <2>1. l + k \in l + 2 .. l + c /\ (l + k) - 1 = l + (k - 1) /\ k - 1 \in 1 .. c
    BY <1>3
  <2>2. b[(l + k) - 1] < b[l + k]
    BY <2>1 DEF Accepted
  <2>3. QED
    BY <2>1, <2>2
<1>4. ASSUME NEW j \in 1 .. c, NEW k \in 1 .. c, j < k PROVE s[j] < s[k]
  <2> DEFINE T == {d \in Nat : (j + d) + 1 <= c => s[j] < s[(j + d) + 1]}
  <2>1. 0 \in T
    <3>1. SUFFICES ASSUME j + 1 <= c PROVE s[j] < s[j + 1]
      OBVIOUS
    <3>2. j + 1 \in 1 .. c /\ j + 1 # 1 /\ (j + 1) - 1 = j
      BY <3>1
    <3> HIDE DEF s
    <3>3. QED
      BY <1>3, <3>2
  <2>2. ASSUME NEW d \in Nat, d \in T PROVE d + 1 \in T
    <3>1. SUFFICES ASSUME (j + (d + 1)) + 1 <= c PROVE s[j] < s[(j + (d + 1)) + 1]
      OBVIOUS
    <3>2. PICK m \in 1 .. c : /\ m = (j + (d + 1)) + 1 /\ m # 1
                              /\ m - 1 = (j + d) + 1 /\ m - 1 \in 1 .. c /\ (j + d) + 1 <= c
      BY <3>1
    <3> HIDE DEF s
    <3>3. s[m - 1] < s[m]
      BY <1>3, <3>2
    <3>4. s[j] < s[m - 1]
      BY <2>2, <3>2
    <3>5. s[j] \in Int /\ s[m - 1] \in Int /\ s[m] \in Int
      BY <1>2, <3>2
    <3>6. s[j] < s[m]
      BY <3>3, <3>4, <3>5
    <3>7. QED
      BY <3>2, <3>6
  <2>3. (k - j) - 1 \in Nat /\ (j + ((k - j) - 1)) + 1 = k
    BY <1>4
  <2>4. (k - j) - 1 \in T
    <3> HIDE DEF T
    <3>1. QED
      BY <2>1, <2>2, <2>3, Induction
  <2> HIDE DEF s
  <2>5. QED
    BY <2>3, <2>4
<1>5. ASSUME NEW w \in UnpackHint(b)[i] PROVE \E k \in 1 .. c : s[k] = w
  <2>1. PICK j \in l + 1 .. l + c : w = b[j]
    BY <1>1
  <2>2. j - l \in 1 .. c /\ l + (j - l) = j
    OBVIOUS
  <2>3. QED
    BY <2>1, <2>2
<1>6. s \in [1 .. c -> UnpackHint(b)[i]]
  BY <1>2
<1> HIDE DEF s
<1>7. Lists(s, c, UnpackHint(b)[i])
  BY <1>4, <1>5, <1>6 DEF Lists
<1>8. QED
  BY <1>7 DEF s

\* What is accepted has room, and is what packing the hint read from it gives.
LEMMA AcceptedIsPacked ==
  ASSUME HintAssumption, NEW b \in Buffers, Accepted(b)
  PROVE  /\ UnpackHint(b) \in Hint /\ Population(UnpackHint(b)) <= HintOmega
         /\ PackHint(UnpackHint(b)) = b
<1>0. /\ HintK \in Nat \ {0} /\ HintOmega \in Nat \ {0} /\ HintN \in Nat \ {0}
      /\ HintK \in 0 .. HintK /\ HintK \in 1 .. HintK
  BY DEF HintAssumption
<1>1. PICK v : v = UnpackHint(b)
  OBVIOUS
<1>2. v \in Hint
  <2>1. ASSUME NEW i \in 1 .. HintK PROVE v[i] \subseteq Index
    <3>1. v[i] = {b[j] : j \in SOP(b, i - 1) + 1 .. SOP(b, i)}
      BY <1>1 DEF UnpackHint
    <3>2. SOP(b, i - 1) \in Nat /\ SOP(b, i) \in Nat /\ SOP(b, i) <= HintOmega
      BY <1>0, EndsAre
    <3>3. ASSUME NEW j \in SOP(b, i - 1) + 1 .. SOP(b, i) PROVE j \in 1 .. HintOmega + HintK
      BY <1>0, <3>2
    <3>4. QED
      BY <3>1, <3>3 DEF Buffers
  <2>2. v = [i \in 1 .. HintK |-> v[i]]
    BY <1>1 DEF UnpackHint
  <2>3. QED
    BY <2>1, <2>2 DEF Hint
<1>3. ASSUME NEW i \in 1 .. HintK
      PROVE  /\ Cardinality(v[i]) \in Nat /\ SOP(b, i) = SOP(b, i - 1) + Cardinality(v[i])
             /\ \A k \in 1 .. Cardinality(v[i]) : Ascending(v[i])[k] = b[SOP(b, i - 1) + k]
  <2>1. PICK l \in Nat, c \in Nat : l = SOP(b, i - 1) /\ l + c = SOP(b, i)
    <3>1. SOP(b, i - 1) \in Nat /\ SOP(b, i) \in Nat /\ SOP(b, i - 1) <= SOP(b, i)
      BY <1>0, EndsAre
    <3>2. SOP(b, i) - SOP(b, i - 1) \in Nat /\ SOP(b, i - 1) + (SOP(b, i) - SOP(b, i - 1)) = SOP(b, i)
      BY <3>1
    <3>3. QED
      BY <3>1, <3>2
  <2> DEFINE s == [k \in 1 .. c |-> b[l + k]]
  <2>2. Lists(s, c, v[i])
    BY <1>1, <2>1, PieceLists
  <2>3. v[i] \subseteq Index /\ v[i] \subseteq Int
    BY <1>2, OnesAre DEF Index
  <2>4. \A k \in 1 .. c : s[k] = b[l + k]
    OBVIOUS
  <2> HIDE DEF s
  <2>5. Cardinality(v[i]) = c
    BY <2>2, <2>3, ListLength
  <2>6. Lists(Ascending(v[i]), c, v[i])
    BY <2>3, <2>5, AscendingIs
  <2>7. Ascending(v[i]) = s
    BY <2>2, <2>3, <2>6, ListUnique
  <2>8. QED
    BY <2>1, <2>4, <2>5, <2>7
<1>4. PICK list : /\ Joins(list, v)
                  /\ PackHint(v) = [p \in 1 .. HintOmega |->
                                      IF p <= Len(list[HintK]) THEN list[HintK][p] ELSE 0]
                                   \o [i \in 1 .. HintK |-> Len(list[i])]
  BY <1>2, PackIs
<1>5. PICK sum : Sums(sum, v) /\ Population(v) = sum[HintK]
  BY <1>2, PopulationIs
<1> DEFINE T == {i \in Nat : i <= HintK =>
                   /\ Len(list[i]) = SOP(b, i)
                   /\ \A p \in 1 .. SOP(b, i) : list[HintK][p] = b[p]}
<1>6. 0 \in T
  BY <1>4 DEF Joins, SOP
<1>7. ASSUME NEW i \in Nat, i \in T PROVE i + 1 \in T
  <2> SUFFICES ASSUME i + 1 <= HintK
               PROVE  /\ Len(list[i + 1]) = SOP(b, i + 1)
                      /\ \A p \in 1 .. SOP(b, i + 1) : list[HintK][p] = b[p]
    OBVIOUS
  <2>1. PICK n \in 1 .. HintK : n = i + 1 /\ n - 1 = i
    BY <1>0
  <2>2. PICK l \in Nat, c \in Nat : l = SOP(b, i) /\ c = Cardinality(v[n]) /\ l + c = SOP(b, n)
    <3>1. SOP(b, n - 1) \in Nat
      BY EndsAre
    <3>2. QED
      BY <1>3, <2>1, <3>1
  <2>3. /\ Len(list[n - 1]) = l /\ Len(list[n]) = l + c
        /\ \A k \in 1 .. c : list[HintK][l + k] = Ascending(v[n])[k]
    <3>1. Len(list[n - 1]) = l
      BY <1>0, <1>7, <2>1, <2>2
    <3>2. /\ Len(list[n]) = Len(list[n - 1]) + Cardinality(v[n])
          /\ \A k \in 1 .. Cardinality(v[n]) :
               list[HintK][Len(list[n - 1]) + k] = Ascending(v[n])[k]
      BY <1>2, <1>4, JoinsPiece
    <3>3. QED
      BY <2>2, <3>1, <3>2
  <2>4. ASSUME NEW p \in 1 .. l + c PROVE list[HintK][p] = b[p]
    <3>1. CASE p <= l
      <4>1. p \in 1 .. SOP(b, i)
        BY <2>2, <3>1
      <4>2. QED
        BY <1>0, <1>7, <2>1, <4>1
    <3>2. CASE ~(p <= l)
      <4>1. p - l \in 1 .. c /\ l + (p - l) = p
        BY <3>2
      <4>2. list[HintK][p] = Ascending(v[n])[p - l]
        BY <2>3, <4>1
      <4>3. Ascending(v[n])[p - l] = b[SOP(b, n - 1) + (p - l)]
        BY <1>3, <2>2, <4>1
      <4>4. QED
        BY <2>1, <2>2, <4>1, <4>2, <4>3
    <3>3. QED
      BY <3>1, <3>2
  <2>5. QED
    BY <2>1, <2>2, <2>3, <2>4
<1>8. \A i \in Nat : i \in T
  <2> HIDE DEF T
  <2>1. QED
    BY <1>6, <1>7, Induction
<1>9. /\ \A i \in 0 .. HintK : Len(list[i]) = SOP(b, i)
      /\ \A p \in 1 .. SOP(b, HintK) : list[HintK][p] = b[p]
  <2>1. ASSUME NEW i \in 0 .. HintK PROVE Len(list[i]) = SOP(b, i)
    BY <1>0, <1>8
  <2>2. QED
    BY <1>0, <1>8, <2>1
<1>10. PICK z \in Nat : z = SOP(b, HintK) /\ z = Len(list[HintK]) /\ z <= HintOmega
  BY <1>0, <1>9, EndsAre
<1>11. PICK packed : packed = PackHint(v)
  OBVIOUS
<1>12. /\ packed \in Buffers
       /\ \A p \in 1 .. HintOmega : packed[p] = IF p <= Len(list[HintK]) THEN list[HintK][p] ELSE 0
       /\ \A i \in 0 .. HintK : SOP(packed, i) = Len(list[i])
  BY <1>2, <1>4, <1>10, <1>11, BufferIs DEF Buffers
<1>13. ASSUME NEW p \in 1 .. HintOmega + HintK PROVE packed[p] = b[p]
  <2>1. CASE p <= z
    <3>1. p \in 1 .. HintOmega /\ p \in 1 .. SOP(b, HintK) /\ p <= Len(list[HintK])
      BY <1>0, <1>10, <2>1
    <3>2. QED
      BY <1>9, <1>12, <3>1
  <2>2. CASE ~(p <= z) /\ p <= HintOmega
    <3>1. p \in 1 .. HintOmega /\ p \in SOP(b, HintK) + 1 .. HintOmega /\ ~(p <= Len(list[HintK]))
      BY <1>0, <1>10, <2>2
    <3>2. b[p] = 0
      BY <3>1 DEF Accepted
    <3>3. QED
      BY <1>12, <3>1, <3>2
  <2>3. CASE ~(p <= HintOmega)
    <3>1. PICK i \in 1 .. HintK : p = HintOmega + i
      <4>1. p - HintOmega \in 1 .. HintK /\ p = HintOmega + (p - HintOmega)
        BY <1>0, <2>3
      <4>2. QED
        BY <4>1
    <3>2. i \in 0 .. HintK /\ i # 0
      BY <1>0
    <3>3. SOP(packed, i) = SOP(b, i)
      BY <1>9, <1>12, <3>2
    <3>4. QED
      BY <3>1, <3>2, <3>3 DEF SOP
  <2>4. QED
    BY <2>1, <2>2, <2>3
<1>14. packed = b
  <2>1. PICK D : D = 1 .. HintOmega + HintK
    OBVIOUS
  <2>2. packed \in [D -> Index] /\ b \in [D -> Index] /\ \A p \in D : packed[p] = b[p]
    BY <1>12, <1>13, <2>1 DEF Buffers
  <2>3. packed = [p \in D |-> packed[p]] /\ b = [p \in D |-> b[p]]
    BY <2>2, Zenon
  <2>4. [p \in D |-> packed[p]] = [p \in D |-> b[p]]
    BY <2>2, Zenon
  <2>5. QED
    BY <2>3, <2>4, Zenon
<1>15. Population(v) <= HintOmega
  <2>1. Len(list[HintK]) = sum[HintK]
    BY <1>0, <1>2, <1>4, <1>5, JoinsSums
  <2>2. QED
    BY <1>5, <1>10, <2>1
<1>16. QED
  BY <1>1, <1>2, <1>11, <1>14, <1>15

(* sign/mldsa, PackHint and UnpackHint: for any numbers of polynomials, of   *)
(* coefficients and of ones, and whichever bytes were changed on the way,   *)
(* the verifier accepts one encoding of a hint only, the signer's.          *)
THEOREM HintHasOneEncoding == ASSUME HintAssumption PROVE HintSpec => []OneEncoding
<1>1. HintInit => buf \in Buffers
  <2> SUFFICES ASSUME HintInit PROVE buf \in Buffers
    OBVIOUS
  <2>1. PICK v \in Hint : Population(v) <= HintOmega /\ buf = PackHint(v)
    BY DEF HintInit, Packed
  <2>2. QED
    BY <2>1, PackedReadBack DEF Buffers
<1>2. buf \in Buffers /\ [Change]_buf => (buf \in Buffers)'
  <2> SUFFICES ASSUME buf \in Buffers, [Change]_buf PROVE buf' \in Buffers
    OBVIOUS
  <2>1. CASE UNCHANGED buf
    BY <2>1
  <2>2. CASE Change
    BY <2>2 DEF Change, Buffers
  <2>3. QED
    BY <2>1, <2>2
<1>3. buf \in Buffers => OneEncoding
  <2> SUFFICES ASSUME buf \in Buffers PROVE OneEncoding
    OBVIOUS
  <2>1. Accepted(buf) => Population(UnpackHint(buf)) <= HintOmega /\ PackHint(UnpackHint(buf)) = buf
    BY AcceptedIsPacked
  <2>2. ASSUME NEW packed \in Packed, buf = packed[2]
        PROVE  Accepted(buf) /\ UnpackHint(buf) = packed[1]
    <3>1. PICK v \in Hint : Population(v) <= HintOmega /\ packed = <<v, PackHint(v)>>
      BY <2>2 DEF Packed
    <3>2. buf = PackHint(v) /\ packed[1] = v
      BY <2>2, <3>1
    <3>3. QED
      BY <3>1, <3>2, PackedReadBack
  <2>3. QED
    BY <2>1, <2>2 DEF OneEncoding
<1>4. QED
  BY <1>1, <1>2, <1>3, PTL DEF HintSpec
-----------------------------------------------------------------------------
(***************************************************************************)
(* KyberNtt. Each operation is bounded by a lemma, each layer by one for   *)
(* all widths: NTT adds to the bound of all coefficients alike, InvNTT     *)
(* doubles that of the upper ends, which Multiple counts coefficient by    *)
(* coefficient. The invariant gives every step of the computation its row  *)
(* of the two tables.                                                      *)
(***************************************************************************)

\* The numbers of the code.
LEMMA Widths == R = 65536 /\ Half = 32768 /\ Q = 3329
BY DEF R, Half, Q

\* The conversion to int16.
LEMMA Int16Is ==
  ASSUME NEW x \in Int
  PROVE  Int16(x) = IF x % 65536 < 32768 THEN x % 65536 ELSE (x % 65536) - 65536
BY Widths, SMT DEF Int16

\* It leaves a number of 16 bits as it is.
LEMMA Int16Range ==
  ASSUME NEW x \in Int
  PROVE  /\ Int16(x) \in Int /\ -32768 <= Int16(x) /\ Int16(x) < 32768
         /\ -32768 <= x /\ x < 32768 => Int16(x) = x
<1>1. Int16(x) = IF x % 65536 < 32768 THEN x % 65536 ELSE (x % 65536) - 65536
  BY Int16Is, SMT
<1>2. PICK y \in Int : y = IF x % 65536 < 32768 THEN x % 65536 ELSE (x % 65536) - 65536
  BY SMT
<1>3. -32768 <= y /\ y < 32768
  BY <1>2, SMT
<1>4. -32768 <= x /\ x < 32768 => y = x
  BY <1>2, SMT
<1>5. QED
  BY <1>1, <1>2, <1>3, <1>4, SMT

\* What is below 2^15 q is divided by 2^16, and q / 2 is added at most.
LEMMA MontReduceRange ==
  ASSUME NEW x \in Int, NEW b \in Nat, b < 109084672, -b <= x, x <= b
  PROVE  /\ montReduce(x) \in Int /\ MontBound(b) = (b + 109084672) \div 65536
         /\ -MontBound(b) <= montReduce(x) /\ montReduce(x) <= MontBound(b)
<1>1. PICK r \in Nat, a \in Int : x = 65536 * a + r /\ r = x % 65536
  <2>1. x % 65536 \in Nat /\ x \div 65536 \in Int /\ x = 65536 * (x \div 65536) + (x % 65536)
    BY SMT
  <2>2. QED
    BY <2>1, SMT
<1>2. PICK y \in Int : y = -3327 * r
  BY SMT
<1>3. MulQinv(x) = Int16(y)
  BY <1>1, <1>2, Widths, SMT DEF MulQinv
<1>4. PICK M \in Int : M = Int16(y) /\ -32768 <= M /\ M < 32768
  BY Int16Range, SMT
<1>5. PICK t \in Int : M = y - 65536 * t
  <2>1. M = y % 65536 \/ M = (y % 65536) - 65536
    BY <1>4, Int16Is, SMT
  <2>2. PICK t \in Int : y % 65536 = y - 65536 * t
    <3>1. PICK t \in Int : t = y \div 65536 /\ y % 65536 = y - 65536 * t
      BY SMT
    <3>2. QED
      BY <3>1, SMT
  <2>3. PICK v \in Int : v = t + 1
    BY SMT
  <2>4. M = y - 65536 * t \/ M = y - 65536 * v
    BY <2>1, <2>2, <2>3, SMT
  <2>5. QED
    BY <2>4, SMT
<1>6. PICK q \in Int : x - M * 3329 = 65536 * q
  <2>1. PICK q \in Int : q = a + 169 * r + t * 3329
    BY <1>1, <1>5, SMT
  <2>2. x - M * 3329 = 65536 * q
    BY <1>1, <1>2, <1>5, <2>1, SMT
  <2>3. QED
    BY <2>2, SMT
<1>7. (65536 * q) \div 65536 = q
  BY SMT
<1>8. montReduce(x) = q
  BY <1>3, <1>4, <1>6, <1>7, Widths, SMT DEF montReduce
<1>9. MontBound(b) = (b + 109084672) \div 65536
  BY Widths, SMT DEF MontBound
<1>10. PICK c \in Int : c = (b + 109084672) \div 65536 /\ 65536 * c <= b + 109084672 /\ b + 109084672 < 65536 * c + 65536
  BY SMT
<1>11. -c <= q /\ q <= c
  BY <1>4, <1>6, <1>10, SMT
<1>12. QED
  BY <1>8, <1>9, <1>10, <1>11, SMT

\* barrettReduce gives 0 to q.
LEMMA BarrettRange ==
  ASSUME NEW x \in Int, -32768 < x, x < 32768
  PROVE  barrettReduce(x) \in Nat /\ barrettReduce(x) <= 3329
<1>1. PICK t \in Int : t = (x * 20159) \div 67108864
                        /\ 67108864 * t <= x * 20159 /\ x * 20159 < 67108864 * t + 67108864
  BY SMT
<1>2. PICK y \in Nat : y = x - t * 3329 /\ y <= 3329
  BY <1>1, SMT
<1>3. Int16(y) = y
  BY <1>2, Int16Range, SMT
<1>4. barrettReduce(x) = Int16(y)
  BY <1>1, <1>2, Widths, SMT DEF barrettReduce
<1>5. QED
  BY <1>2, <1>3, <1>4, SMT

\* normalize gives a number below q.
LEMMA NormalizeRange ==
  ASSUME NEW x \in Int, -32768 < x, x < 32768
  PROVE  normalize(x) \in Nat /\ normalize(x) <= 3328
<1>1. PICK y \in Nat : y = barrettReduce(x) /\ y <= 3329
  BY BarrettRange, SMT
<1>2. PICK z \in Int : z = y - 3329
  BY <1>1, SMT
<1>3. Int16(z) = z /\ Int16(y) = y
  <2>1. -32768 <= z /\ z < 32768 /\ -32768 <= y /\ y < 32768
    BY <1>1, <1>2, SMT
  <2>2. QED
    BY <2>1, Int16Range, SMT
<1>4. z + 3329 = y
  BY <1>1, <1>2, SMT
<1>5. normalize(x) = IF z < 0 THEN y ELSE z
  BY <1>1, <1>2, <1>3, <1>4, Widths, SMT DEF normalize, csubq
<1>6. QED
  BY <1>1, <1>2, <1>5, SMT

\* The powers of the root are below q.
LEMMA ZetaRange ==
  ASSUME NEW k \in Nat, k < 128
  PROVE  Zeta(k) \in Nat /\ Zeta(k) <= 3328
<1> DEFINE Below == {n \in Nat : n <= 3328}
           Row == [1 .. 8 -> Below]
<1>1. <<2285, 2571, 2970, 1812, 1493, 1422, 287, 202>> \in Row
  OBVIOUS
<1>2. <<3158, 622, 1577, 182, 962, 2127, 1855, 1468>> \in Row
  OBVIOUS
<1>3. <<573, 2004, 264, 383, 2500, 1458, 1727, 3199>> \in Row
  OBVIOUS
<1>4. <<2648, 1017, 732, 608, 1787, 411, 3124, 1758>> \in Row
  OBVIOUS
<1>5. <<1223, 652, 2777, 1015, 2036, 1491, 3047, 1785>> \in Row
  OBVIOUS
<1>6. <<516, 3321, 3009, 2663, 1711, 2167, 126, 1469>> \in Row
  OBVIOUS
<1>7. <<2476, 3239, 3058, 830, 107, 1908, 3082, 2378>> \in Row
  OBVIOUS
<1>8. <<2931, 961, 1821, 2604, 448, 2264, 677, 2054>> \in Row
  OBVIOUS
<1>9. <<2226, 430, 555, 843, 2078, 871, 1550, 105>> \in Row
  OBVIOUS
<1>10. <<422, 587, 177, 3094, 3038, 2869, 1574, 1653>> \in Row
  OBVIOUS
<1>11. <<3083, 778, 1159, 3182, 2552, 1483, 2727, 1119>> \in Row
  OBVIOUS
<1>12. <<1739, 644, 2457, 349, 418, 329, 3173, 3254>> \in Row
  OBVIOUS
<1>13. <<817, 1097, 603, 610, 1322, 2044, 1864, 384>> \in Row
  OBVIOUS
<1>14. <<2114, 3193, 1218, 1994, 2455, 220, 2142, 1670>> \in Row
  OBVIOUS
<1>15. <<2144, 1799, 2051, 794, 1819, 2475, 2459, 478>> \in Row
  OBVIOUS
<1>16. <<3221, 3021, 996, 991, 958, 1869, 1522, 1628>> \in Row
  OBVIOUS
<1> HIDE DEF Row, Below
<1>17. Zetas \in [1 .. 16 -> Row]
  BY <1>1, <1>2, <1>3, <1>4, <1>5, <1>6, <1>7, <1>8, <1>9, <1>10, <1>11, <1>12, <1>13, <1>14, <1>15, <1>16, SMTT(60) DEF Zetas
<1>18. Zetas[k \div 8 + 1] \in Row
  <2>1. k \div 8 + 1 \in 1 .. 16
    OBVIOUS
  <2>2. QED
    BY <1>17, <2>1, Zenon
<1>19. QED
  <2>1. (k % 8) + 1 \in 1 .. 8
    OBVIOUS
  <2>2. Zeta(k) \in Below
    BY <1>18, <2>1 DEF Row, Zeta
  <2>3. QED
    BY <2>2 DEF Below

\* The product of two bounded numbers.
LEMMA ProductRange ==
  ASSUME NEW x \in Int, NEW y \in Int, NEW A \in Nat, NEW B \in Nat,
         -A <= x, x <= A, -B <= y, y <= B
  PROVE  x * y \in Int /\ A * B \in Nat /\ -(A * B) <= x * y /\ x * y <= A * B
<1>1. PICK c \in Nat : (c = x \/ c = -x) /\ c <= A
  OBVIOUS
<1>2. PICK d \in Nat : (d = y \/ d = -y) /\ d <= B
  OBVIOUS
<1>3. c * d <= A * B /\ c * d \in Nat
  <2>1. PICK e \in Nat : A = c + e
    BY <1>1
  <2>2. PICK g \in Nat : B = d + g
    BY <1>2
  <2>3. A * B = c * d + c * g + e * d + e * g
    BY <2>1, <2>2
  <2>4. c * d \in Nat /\ c * g \in Nat /\ e * d \in Nat /\ e * g \in Nat
    OBVIOUS
  <2>5. QED
    BY <1>1, <2>3, <2>4
<1>4. x * y = c * d \/ x * y = -(c * d)
  BY <1>1, <1>2
<1>5. x * y \in Int /\ A * B \in Nat
  OBVIOUS
<1>6. QED
  BY <1>3, <1>4, <1>5

\* The index of a coefficient is a byte.
LEMMA CoeffIs == \A j : j \in Coeff <=> j \in Nat /\ j < 256
BY SMT DEF Coeff, NttN

\* A coefficient of a transform after it is multiplied with a power of the root.
LEMMA TermRange ==
  ASSUME NEW c \in Nat, c < 32768, NEW x \in Int, -c <= x, x <= c, NEW z \in Nat, z <= 3328
  PROVE  /\ montReduce(z * x) \in Int /\ MontBound(3328 * c) = (3328 * c + 109084672) \div 65536
         /\ -MontBound(3328 * c) <= montReduce(z * x) /\ montReduce(z * x) <= MontBound(3328 * c)
<1>1. PICK b \in Nat : b = 3328 * c /\ b < 109084672
  BY SMT
<1>2. PICK y \in Int : y = z * x
  BY SMT
<1>3. -b <= y /\ y <= b
  BY <1>1, <1>2, ProductRange, SMT
<1>4. QED
  BY <1>1, <1>2, <1>3, MontReduceRange, SMT

\* The widths of the butterflies of a transform.
Butterflies == {2, 4, 8, 16, 32, 64, 128}

\* The two ends of a butterfly are coefficients, and its power is in the table.
LEMMA Butterfly ==
  ASSUME NEW l \in Butterflies, NEW j \in Coeff
  PROVE  /\ Upper(j, l) => j + l \in Coeff
         /\ ~Upper(j, l) => j - l \in Coeff
         /\ Upper(j, l) => /\ NttN \div (2 * l) + Group(j, l) \in Nat
                           /\ NttN \div (2 * l) + Group(j, l) < 128
         /\ ~Upper(j, l) => /\ NttN \div (2 * l) + Group(j - l, l) \in Nat
                            /\ NttN \div (2 * l) + Group(j - l, l) < 128
         /\ NttN \div l - 1 - Group(j, l) \in Nat /\ NttN \div l - 1 - Group(j, l) < 128
<1>1. j \in Nat /\ j < 256
  BY CoeffIs
<1>2. CASE l = 2
  BY <1>1, <1>2, CoeffIs, SMT DEF Upper, Group, NttN
<1>3. CASE l = 4
  BY <1>1, <1>3, CoeffIs, SMT DEF Upper, Group, NttN
<1>4. CASE l = 8
  BY <1>1, <1>4, CoeffIs, SMT DEF Upper, Group, NttN
<1>5. CASE l = 16
  BY <1>1, <1>5, CoeffIs, SMT DEF Upper, Group, NttN
<1>6. CASE l = 32
  BY <1>1, <1>6, CoeffIs, SMT DEF Upper, Group, NttN
<1>7. CASE l = 64
  BY <1>1, <1>7, CoeffIs, SMT DEF Upper, Group, NttN
<1>8. CASE l = 128
  BY <1>1, <1>8, CoeffIs, SMT DEF Upper, Group, NttN
<1>9. QED
  BY <1>2, <1>3, <1>4, <1>5, <1>6, <1>7, <1>8 DEF Butterflies

\* No coefficient of p is larger than its bound.
Bounded(p, b) == p \in [Coeff -> Int] /\ \A j \in Coeff : -b[j] <= p[j] /\ p[j] <= b[j]

\* A layer of NTT adds the same to every bound.
LEMMA NttLayerRange ==
  ASSUME NEW l \in Butterflies, NEW c \in Nat, NEW d \in Nat, c < 32768, d < 32768,
         d = c + (3328 * c + 109084672) \div 65536,
         NEW p, Bounded(p, OfBound(c))
  PROVE  Bounded(NttLayer(p, l), OfBound(d)) /\ NttLayerBound(OfBound(c), l) = OfBound(d)
<1> DEFINE t(i) == montReduce(Zeta(NttN \div (2 * l) + Group(i, l)) * p[i + l])
<1>1. PICK e \in Nat : e = MontBound(3328 * c) /\ d = c + e
  BY TermRange, SMT
<1>2. \A j \in Coeff : p[j] \in Int /\ -c <= p[j] /\ p[j] <= c
  BY DEF Bounded, OfBound
<1>3. ASSUME NEW i \in Coeff, i + l \in Coeff, NEW k, k = NttN \div (2 * l) + Group(i, l),
             k \in Nat, k < 128
      PROVE  t(i) \in Int /\ -e <= t(i) /\ t(i) <= e
  <2>1. PICK z \in Nat : z = Zeta(k) /\ z <= 3328
    BY <1>3, ZetaRange
  <2>2. PICK x \in Int : x = p[i + l] /\ -c <= x /\ x <= c
    BY <1>2, <1>3
  <2>3. t(i) = montReduce(z * x)
    BY <1>3, <2>1, <2>2
  <2>4. /\ montReduce(z * x) \in Int
        /\ -MontBound(3328 * c) <= montReduce(z * x) /\ montReduce(z * x) <= MontBound(3328 * c)
    BY <2>1, <2>2, TermRange, SMT
  <2>5. QED
    BY <1>1, <2>3, <2>4
<1> HIDE DEF t
<1>4. ASSUME NEW j \in Coeff
      PROVE  /\ NttLayer(p, l)[j] \in Int /\ -d <= NttLayer(p, l)[j] /\ NttLayer(p, l)[j] <= d
             /\ NttLayerBound(OfBound(c), l)[j] = d
  <2>1. NttLayer(p, l)[j] = IF Upper(j, l) THEN Int16(p[j] + t(j)) ELSE Int16(p[j - l] - t(j - l))
    BY DEF NttLayer, t
  <2>2. NttLayerBound(OfBound(c), l)[j] =
          IF Upper(j, l) THEN OfBound(c)[j] + MontBound((Q - 1) * OfBound(c)[j + l])
          ELSE OfBound(c)[j - l] + MontBound((Q - 1) * OfBound(c)[(j - l) + l])
    BY DEF NttLayerBound
  <2>3. Q - 1 = 3328
    BY Widths
  <2>4. CASE Upper(j, l)
    <3>1. j + l \in Coeff
      BY <2>4, Butterfly
    <3>2. t(j) \in Int /\ -e <= t(j) /\ t(j) <= e
      BY <1>3, <2>4, <3>1, Butterfly
    <3>3. PICK y \in Int : y = p[j] + t(j) /\ -d <= y /\ y <= d
      BY <1>1, <1>2, <3>2
    <3>4. Int16(y) = y
      BY <3>3, Int16Range, SMT
    <3>5. NttLayer(p, l)[j] = y
      BY <2>1, <2>4, <3>3, <3>4
    <3>6. NttLayerBound(OfBound(c), l)[j] = d
      BY <1>1, <2>2, <2>3, <2>4, <3>1, SMT DEF OfBound
    <3>7. QED
      BY <3>3, <3>5, <3>6
  <2>5. CASE ~Upper(j, l)
    <3>1. j - l \in Coeff /\ (j - l) + l = j
      BY <2>5, Butterfly, CoeffIs DEF Butterflies
    <3>2. t(j - l) \in Int /\ -e <= t(j - l) /\ t(j - l) <= e
      BY <1>3, <2>5, <3>1, Butterfly
    <3>3. PICK y \in Int : y = p[j - l] - t(j - l) /\ -d <= y /\ y <= d
      BY <1>1, <1>2, <3>1, <3>2
    <3>4. Int16(y) = y
      BY <3>3, Int16Range, SMT
    <3>5. NttLayer(p, l)[j] = y
      BY <2>1, <2>5, <3>3, <3>4
    <3>6. NttLayerBound(OfBound(c), l)[j] = d
      BY <1>1, <2>2, <2>3, <2>5, <3>1, SMT DEF OfBound
    <3>7. QED
      BY <3>3, <3>5, <3>6
  <2>6. QED
    BY <2>4, <2>5
<1>5. NttLayer(p, l) \in [Coeff -> Int]
  <2>1. NttLayer(p, l) = [j \in Coeff |-> NttLayer(p, l)[j]]
    BY DEF NttLayer
  <2>2. QED
    BY <1>4, <2>1
<1>6. NttLayerBound(OfBound(c), l) = OfBound(d)
  <2>1. NttLayerBound(OfBound(c), l) = [j \in Coeff |-> NttLayerBound(OfBound(c), l)[j]]
    BY DEF NttLayerBound
  <2>2. QED
    BY <1>4, <2>1 DEF OfBound
<1>7. QED
  BY <1>4, <1>5, <1>6 DEF Bounded, OfBound

\* How many times q coefficient j may be before the layer of InvNTT of width l, and, for 256, after all.
Multiple(l, j) ==
  CASE l = 2 -> 1
    [] l = 4 -> IF j % 4 < 2 THEN 2 ELSE 1
    [] l = 8 -> IF j % 8 < 2 THEN 4 ELSE IF j % 8 < 4 THEN 2 ELSE 1
    [] l = 16 -> IF j % 16 < 2 THEN (IF j % 32 < 16 THEN 8 ELSE 1)
                 ELSE IF j % 16 < 4 THEN 4 ELSE IF j % 16 < 8 THEN 2 ELSE 1
    [] l = 32 -> IF j % 32 < 2 THEN 1
                 ELSE IF j % 32 < 4 THEN (IF j % 64 < 32 THEN 8 ELSE 1)
                 ELSE IF j % 32 < 8 THEN 4 ELSE IF j % 32 < 16 THEN 2 ELSE 1
    [] l = 64 -> IF j % 64 < 2 THEN 2 ELSE IF j % 64 < 4 THEN 1
                 ELSE IF j % 64 < 8 THEN (IF j % 128 < 64 THEN 8 ELSE 1)
                 ELSE IF j % 64 < 16 THEN 4 ELSE IF j % 64 < 32 THEN 2 ELSE 1
    [] l = 128 -> IF j % 128 < 2 THEN 4 ELSE IF j % 128 < 4 THEN 2 ELSE IF j % 128 < 8 THEN 1
                  ELSE IF j % 128 < 16 THEN (IF j < 128 THEN 8 ELSE 1)
                  ELSE IF j % 128 < 32 THEN 4 ELSE IF j % 128 < 64 THEN 2 ELSE 1
    [] l = 256 -> 9

\* What is reduced, in terms of the place in a block.
LEMMA Reduced ==
  ASSUME NEW j \in Coeff
  PROVE  /\ j % 32 \in {16, 17} => j \in InvNTTReductions[8]
         /\ j % 32 \in {0, 1} \/ j % 64 \in {34, 35} => j \in InvNTTReductions[16]
         /\ j % 128 \in {2, 3, 66, 67, 68, 69, 70, 71} => j \in InvNTTReductions[32]
         /\ j % 128 \in {4, 5, 6, 7} \/ j \in 132 .. 143 => j \in InvNTTReductions[64]
<1>1. j \in Nat /\ j < 256
  BY CoeffIs
<1>2. ASSUME j % 32 \in {16, 17} PROVE j \in InvNTTReductions[8]
  <2>1. PICK i \in {1, 3, 5, 7, 9, 11, 13, 15} : j = 16 * i \/ j = 16 * i + 1
    <3>1. PICK n \in Nat : n = j \div 32 /\ n < 8 /\ (j = 32 * n + 16 \/ j = 32 * n + 17)
      BY <1>1, <1>2
    <3>2. n \in {0, 1, 2, 3, 4, 5, 6, 7}
      BY <3>1
    <3>3. 2 * n + 1 \in {1, 3, 5, 7, 9, 11, 13, 15}
      BY <3>2
    <3>4. QED
      BY <3>1, <3>3
  <2>2. InvNTTReductions[8] = {16 * n : n \in {1, 3, 5, 7, 9, 11, 13, 15}}
                                \cup {16 * n + 1 : n \in {1, 3, 5, 7, 9, 11, 13, 15}}
    BY DEF InvNTTReductions
  <2>3. QED
    BY <2>1, <2>2
<1>3. ASSUME j % 32 \in {0, 1} \/ j % 64 \in {34, 35} PROVE j \in InvNTTReductions[16]
  <2>1. InvNTTReductions[16] = {32 * n + m : n \in 0 .. 7, m \in {0, 1}}
                                 \cup {64 * n + m : n \in 0 .. 3, m \in {34, 35}}
    BY DEF InvNTTReductions
  <2>2. CASE j % 32 \in {0, 1}
    <3>1. PICK n \in 0 .. 7, m \in {0, 1} : j = 32 * n + m
      <4>1. j \div 32 \in 0 .. 7 /\ j = 32 * (j \div 32) + (j % 32)
        BY <1>1
      <4>2. QED
        BY <2>2, <4>1
    <3>2. QED
      BY <2>1, <3>1
  <2>3. CASE j % 64 \in {34, 35}
    <3>1. PICK n \in 0 .. 3, m \in {34, 35} : j = 64 * n + m
      <4>1. j \div 64 \in 0 .. 3 /\ j = 64 * (j \div 64) + (j % 64)
        BY <1>1
      <4>2. QED
        BY <2>3, <4>1
    <3>2. QED
      BY <2>1, <3>1
  <2>4. QED
    BY <1>3, <2>2, <2>3
<1>4. ASSUME j % 128 \in {2, 3, 66, 67, 68, 69, 70, 71} PROVE j \in InvNTTReductions[32]
  <2>1. InvNTTReductions[32] = {2, 3, 130, 131} \cup 66 .. 71 \cup 194 .. 199
    BY DEF InvNTTReductions
  <2>2. j \in {2, 3, 130, 131} \/ (66 <= j /\ j <= 71) \/ (194 <= j /\ j <= 199)
    BY <1>1, <1>4
  <2>3. QED
    BY <1>1, <2>1, <2>2
<1>5. ASSUME j % 128 \in {4, 5, 6, 7} \/ j \in 132 .. 143 PROVE j \in InvNTTReductions[64]
  <2>1. InvNTTReductions[64] = 4 .. 7 \cup 132 .. 143
    BY DEF InvNTTReductions
  <2>2. (4 <= j /\ j <= 7) \/ (132 <= j /\ j <= 143)
    BY <1>1, <1>5
  <2>3. QED
    BY <1>1, <2>1, <2>2
<1>6. QED
  BY <1>2, <1>3, <1>4, <1>5

\* A layer adds up to at most 9 q, and leaves out only reductions that are not needed.
LEMMA MultiplesFit ==
  ASSUME NEW l \in Butterflies, NEW j \in Coeff
  PROVE  /\ Multiple(l, j) \in Nat /\ Multiple(2 * l, j) \in Nat /\ 1 <= Multiple(2 * l, j)
         /\ Upper(j, l) => /\ Multiple(l, j) + Multiple(l, j + l) <= 9
                           /\ \/ j \in InvNTTReductions[l]
                              \/ Multiple(l, j) + Multiple(l, j + l) <= Multiple(2 * l, j)
         /\ ~Upper(j, l) => Multiple(l, j - l) + Multiple(l, j) <= 9
<1>1. j \in Nat /\ j < 256
  BY CoeffIs
<1>2. CASE l = 2
  BY <1>1, <1>2, SMT DEF Multiple, Upper
<1>3. CASE l = 4
  BY <1>1, <1>3, SMT DEF Multiple, Upper
<1>4. CASE l = 8
  BY <1>1, <1>4, Reduced, SMT DEF Multiple, Upper
<1>5. CASE l = 16
  BY <1>1, <1>5, Reduced, SMT DEF Multiple, Upper
<1>6. CASE l = 32
  BY <1>1, <1>6, Reduced, SMT DEF Multiple, Upper
<1>7. CASE l = 64
  BY <1>1, <1>7, Reduced, SMT DEF Multiple, Upper
<1>8. CASE l = 128
  BY <1>1, <1>8, SMT DEF Multiple, Upper
<1>9. QED
  BY <1>2, <1>3, <1>4, <1>5, <1>6, <1>7, <1>8 DEF Butterflies

\* The lower end of a butterfly of InvNTT is at most q, if the difference is at most 9 q.
LEMMA DifferenceTerm ==
  ASSUME NEW c \in Nat, c <= 29961, NEW x \in Int, -c <= x, x <= c, NEW z \in Nat, z <= 3328
  PROVE  /\ MontBound(3328 * c) \in Nat /\ MontBound(3328 * c) <= 3329
         /\ montReduce(z * x) \in Int
         /\ -MontBound(3328 * c) <= montReduce(z * x) /\ montReduce(z * x) <= MontBound(3328 * c)
<1>1. c < 32768
  BY SMT
<1>2. /\ montReduce(z * x) \in Int /\ MontBound(3328 * c) = (3328 * c + 109084672) \div 65536
      /\ -MontBound(3328 * c) <= montReduce(z * x) /\ montReduce(z * x) <= MontBound(3328 * c)
  BY <1>1, TermRange, SMT
<1>3. QED
  BY <1>2, SMT

\* The bounds are the multiples of q that are planned.
Planned(l, b) == b \in [Coeff -> Nat] /\ \A j \in Coeff : b[j] <= 3329 * Multiple(l, j)

\* A layer of InvNTT stays in 16 bits and keeps to the plan.
LEMMA InvNttLayerRange ==
  ASSUME NEW l \in Butterflies, NEW p, NEW b, Planned(l, b), Bounded(p, b)
  PROVE  /\ Bounded(InvNttLayer(p, l), InvNttLayerBound(b, l))
         /\ Planned(2 * l, InvNttLayerBound(b, l))
<1> DEFINE y(j) == IF Upper(j, l) THEN Int16(p[j] + p[j + l])
                   ELSE montReduce(Zeta(NttN \div l - 1 - Group(j, l)) * Int16(p[j] - p[j - l]))
           sum(j) == IF Upper(j, l) THEN b[j] + b[j + l] ELSE b[j - l] + b[j]
           z(j) == IF Upper(j, l) THEN sum(j) ELSE MontBound((Q - 1) * sum(j))
           P == InvNttLayer(p, l)
           B == InvNttLayerBound(b, l)
<1>1. \A j \in Coeff : P[j] = IF j \in InvNTTReductions[l] THEN barrettReduce(y(j)) ELSE y(j)
  BY DEF InvNttLayer
<1>2. \A j \in Coeff : B[j] = IF sum(j) >= Half THEN Unbounded
                              ELSE IF j \in InvNTTReductions[l] THEN BarrettBound ELSE z(j)
  BY DEF InvNttLayerBound
<1>3. \A j \in Coeff : /\ p[j] \in Int /\ b[j] \in Nat /\ -b[j] <= p[j] /\ p[j] <= b[j]
                       /\ b[j] <= 3329 * Multiple(l, j) /\ Multiple(l, j) \in Nat
  BY MultiplesFit DEF Bounded, Planned
<1>4. ASSUME NEW j \in Coeff
      PROVE  /\ y(j) \in Int /\ z(j) \in Nat /\ -z(j) <= y(j) /\ y(j) <= z(j) /\ z(j) <= 29961
             /\ sum(j) \in Nat /\ sum(j) <= 29961
             /\ j \in InvNTTReductions[l] \/ z(j) <= 3329 * Multiple(2 * l, j)
  <2>1. CASE Upper(j, l)
    <3>1. j + l \in Coeff
      BY <2>1, Butterfly
    <3>2. PICK c \in Int, d \in Int : c = p[j] /\ d = p[j + l]
      BY <1>3, <3>1
    <3>3. PICK e \in Nat, f \in Nat : /\ e = b[j] /\ f = b[j + l]
                                      /\ -e <= c /\ c <= e /\ -f <= d /\ d <= f
      BY <1>3, <3>1, <3>2
    <3>4. PICK m \in Nat, n \in Nat, o \in Nat :
            /\ m = Multiple(l, j) /\ n = Multiple(l, j + l) /\ o = Multiple(2 * l, j)
            /\ m + n <= 9 /\ (j \in InvNTTReductions[l] \/ m + n <= o)
            /\ e <= 3329 * m /\ f <= 3329 * n
      BY <1>3, <2>1, <3>1, <3>3, MultiplesFit
    <3>5. PICK s \in Nat : s = e + f
      BY <3>3
    <3>6. s <= 29961 /\ (j \in InvNTTReductions[l] \/ s <= 3329 * o)
      BY <3>4, <3>5, SMT
    <3>7. PICK x \in Int : x = c + d /\ -s <= x /\ x <= s
      BY <3>3, <3>5
    <3>8. Int16(x) = x
      BY <3>6, <3>7, Int16Range, SMT
    <3>9. y(j) = x /\ sum(j) = s /\ z(j) = s
      BY <2>1, <3>2, <3>3, <3>5, <3>7, <3>8
    <3>10. QED
      BY <3>4, <3>6, <3>7, <3>9
  <2>2. CASE ~Upper(j, l)
    <3>1. j - l \in Coeff
      BY <2>2, Butterfly
    <3>2. PICK c \in Int, d \in Int : c = p[j] /\ d = p[j - l]
      BY <1>3, <3>1
    <3>3. PICK e \in Nat, f \in Nat : /\ e = b[j] /\ f = b[j - l]
                                      /\ -e <= c /\ c <= e /\ -f <= d /\ d <= f
      BY <1>3, <3>1, <3>2
    <3>4. PICK m \in Nat, n \in Nat, o \in Nat :
            /\ m = Multiple(l, j) /\ n = Multiple(l, j - l) /\ o = Multiple(2 * l, j)
            /\ n + m <= 9 /\ 1 <= o
            /\ e <= 3329 * m /\ f <= 3329 * n
      BY <1>3, <2>2, <3>1, <3>3, MultiplesFit
    <3>5. PICK s \in Nat : s = f + e
      BY <3>3
    <3>6. s <= 29961
      BY <3>4, <3>5, SMT
    <3>7. PICK x \in Int : x = c - d /\ -s <= x /\ x <= s
      BY <3>3, <3>5
    <3>8. Int16(x) = x
      BY <3>6, <3>7, Int16Range, SMT
    <3>9. PICK k \in Nat : k = Zeta(NttN \div l - 1 - Group(j, l)) /\ k <= 3328
      <4>1. PICK g \in Nat : g = NttN \div l - 1 - Group(j, l) /\ g < 128
        BY Butterfly
      <4>2. QED
        BY <4>1, ZetaRange
    <3>10. PICK w \in Nat : /\ w = MontBound(3328 * s) /\ w <= 3329
                            /\ montReduce(k * x) \in Int /\ -w <= montReduce(k * x) /\ montReduce(k * x) <= w
      <4> HIDE DEF y, sum, z, P, B
      <4>1. s <= 29961 /\ -s <= x /\ x <= s /\ k <= 3328
        BY <3>6, <3>7, <3>9
      <4>2. /\ MontBound(3328 * s) \in Nat /\ MontBound(3328 * s) <= 3329
            /\ montReduce(k * x) \in Int
            /\ -MontBound(3328 * s) <= montReduce(k * x) /\ montReduce(k * x) <= MontBound(3328 * s)
        BY <4>1, DifferenceTerm
      <4>3. QED
        BY <4>2
    <3>11. y(j) = montReduce(k * x) /\ sum(j) = s /\ z(j) = w
      BY <2>2, <3>2, <3>3, <3>5, <3>7, <3>8, <3>9, <3>10, Widths
    <3>12. w <= 3329 * o
      BY <3>4, <3>10, SMT
    <3>13. QED
      BY <3>4, <3>6, <3>10, <3>11, <3>12
  <2>3. QED
    BY <2>1, <2>2
<1> HIDE DEF y, sum, z
<1>5. ASSUME NEW j \in Coeff
      PROVE  /\ P[j] \in Int /\ B[j] \in Nat /\ -B[j] <= P[j] /\ P[j] <= B[j]
             /\ B[j] <= 3329 * Multiple(2 * l, j)
  <2>1. ~(sum(j) >= Half)
    BY <1>4, Widths, SMT
  <2>2. CASE j \in InvNTTReductions[l]
    <3>1. P[j] = barrettReduce(y(j)) /\ B[j] = 3329
      BY <1>1, <1>2, <2>1, <2>2, Widths DEF BarrettBound
    <3>2. PICK x \in Int : x = y(j) /\ -32768 < x /\ x < 32768
      BY <1>4, SMT
    <3>3. barrettReduce(x) \in Nat /\ barrettReduce(x) <= 3329
      BY <3>2, BarrettRange
    <3>4. PICK o \in Nat : o = Multiple(2 * l, j) /\ 1 <= o
      BY MultiplesFit
    <3>5. QED
      BY <3>1, <3>2, <3>3, <3>4, SMT
  <2>3. CASE j \notin InvNTTReductions[l]
    <3>1. P[j] = y(j) /\ B[j] = z(j)
      BY <1>1, <1>2, <2>1, <2>3
    <3>2. QED
      BY <1>4, <2>3, <3>1
  <2>4. QED
    BY <2>2, <2>3
<1>6. P = [j \in Coeff |-> P[j]] /\ B = [j \in Coeff |-> B[j]]
  BY DEF InvNttLayer, InvNttLayerBound
<1> HIDE DEF P, B
<1>7. P \in [Coeff -> Int] /\ B \in [Coeff -> Nat]
  BY <1>5, <1>6
<1>8. Bounded(P, B) /\ \A j \in Coeff : B[j] <= 3329 * Multiple(2 * l, j)
  BY <1>5, <1>7 DEF Bounded
<1>9. QED
  BY <1>7, <1>8 DEF P, B, Planned

\* A product of two coefficients, in Montgomery form.
LEMMA ProductTerm ==
  ASSUME NEW x \in Int, NEW y \in Int, -3329 <= x, x <= 3329, -18289 <= y, y <= 18289
  PROVE  montReduce(x * y) \in Int /\ -2593 <= montReduce(x * y) /\ montReduce(x * y) <= 2593
<1>1. PICK b \in Nat : b = 60884081 /\ b < 109084672
  BY SMT
<1>2. PICK w \in Int : w = x * y
  BY SMT
<1>3. -b <= w /\ w <= b
  BY <1>1, <1>2, ProductRange, SMT
<1>4. MontBound(b) = (b + 109084672) \div 65536 /\ montReduce(w) \in Int
      /\ -MontBound(b) <= montReduce(w) /\ montReduce(w) <= MontBound(b)
  BY <1>1, <1>3, MontReduceRange, SMT
<1>5. MontBound(b) = 2593
  BY <1>1, <1>4, SMT
<1>6. QED
  BY <1>2, <1>4, <1>5

\* The product of two transformed polynomials, pair by pair.
LEMMA MulHatRange ==
  ASSUME NEW x, NEW y, Bounded(x, OfBound(3329)), Bounded(y, OfBound(18289)), NEW j \in Coeff
  PROVE  /\ MulHat(x, y)[j] \in Int
         /\ -MulHatBound(OfBound(3329), OfBound(18289))[j] <= MulHat(x, y)[j]
         /\ MulHat(x, y)[j] <= MulHatBound(OfBound(3329), OfBound(18289))[j]
         /\ MulHatBound(OfBound(3329), OfBound(18289))[j] \in {4389, 5186}
<1> DEFINE i == 2 * (j \div 2)
           M == MulHat(x, y)[j]
           B == MulHatBound(OfBound(3329), OfBound(18289))[j]
           t(k, n) == montReduce(x[k] * y[n])
           top == montReduce(t(i + 1, i + 1) * Zeta(64 + j \div 4))
<1>1. j \in Nat /\ j < 256 /\ i \in Coeff /\ i + 1 \in Coeff
  BY CoeffIs, SMT
<1>2. ASSUME NEW k \in Coeff, NEW n \in Coeff
      PROVE  t(k, n) \in Int /\ -2593 <= t(k, n) /\ t(k, n) <= 2593
  <2>1. PICK v \in Int, w \in Int : v = x[k] /\ w = y[n]
    BY DEF Bounded
  <2>2. -3329 <= v /\ v <= 3329 /\ -18289 <= w /\ w <= 18289
    BY <2>1 DEF Bounded, OfBound
  <2>3. QED
    BY <2>1, <2>2, ProductTerm
<1>3. top \in Int /\ -1796 <= top /\ top <= 1796
  <2>1. PICK v \in Int : v = t(i + 1, i + 1) /\ -2593 <= v /\ v <= 2593
    BY <1>1, <1>2
  <2>2. 64 + j \div 4 \in Nat /\ 64 + j \div 4 < 128
    BY <1>1, SMT
  <2>3. PICK z \in Nat : z = Zeta(64 + j \div 4) /\ z <= 3328
    BY <2>2, ZetaRange
  <2>4. PICK w \in Int : w = v * z
    BY SMT
  <2>5. PICK b \in Nat : b = 8629504
    BY SMT
  <2>6. -b <= w /\ w <= b
    BY <2>1, <2>3, <2>4, <2>5, ProductRange, SMT
  <2>7. /\ montReduce(w) \in Int /\ MontBound(b) = (b + 109084672) \div 65536
        /\ -MontBound(b) <= montReduce(w) /\ montReduce(w) <= MontBound(b)
    BY <2>5, <2>6, MontReduceRange, SMT
  <2>8. MontBound(b) = 1796
    BY <2>5, <2>7, SMT
  <2>9. top = montReduce(w)
    BY <2>1, <2>3, <2>4
  <2>10. QED
    BY <2>7, <2>8, <2>9
<1>4. MontBound(60884081) = 2593 /\ MontBound(8629504) = 1796
  BY Widths, SMT DEF MontBound
<1>5. M = IF j # i THEN Int16(t(i, j) + t(j, i))
          ELSE Int16((IF j % 4 = 0 THEN top ELSE -top) + t(i, i))
  BY DEF MulHat
<1>6. B = IF j # i THEN MontBound(3329 * 18289) + MontBound(3329 * 18289)
          ELSE MontBound(MontBound(3329 * 18289) * (Q - 1)) + MontBound(3329 * 18289)
  BY <1>1 DEF MulHatBound, OfBound
<1>7. B = IF j # i THEN 5186 ELSE 4389
  <2>1. 3329 * 18289 = 60884081 /\ 2593 * (Q - 1) = 8629504
    BY Widths, SMT
  <2>2. QED
    BY <1>4, <1>6, <2>1, SMT
<1> HIDE DEF t, top, M, B, i
<1>8. CASE j # i
  <2>1. PICK v \in Int : v = t(i, j) + t(j, i) /\ -5186 <= v /\ v <= 5186
    BY <1>1, <1>2, SMT
  <2>2. Int16(v) = v
    BY <2>1, Int16Range, SMT
  <2>3. M = v /\ B = 5186
    BY <1>5, <1>7, <1>8, <2>1, <2>2
  <2>4. QED
    BY <2>1, <2>3 DEF M, B
<1>9. CASE j = i
  <2>1. PICK v \in Int : v = (IF j % 4 = 0 THEN top ELSE -top) + t(i, i) /\ -4389 <= v /\ v <= 4389
    BY <1>1, <1>2, <1>3, SMT
  <2>2. Int16(v) = v
    BY <2>1, Int16Range, SMT
  <2>3. M = v /\ B = 4389
    BY <1>5, <1>7, <1>9, <2>1, <2>2
  <2>4. QED
    BY <2>1, <2>3 DEF M, B
<1>10. QED
  BY <1>8, <1>9

\* A sum of terms between -c and c.
LEMMA SumRange ==
  ASSUME NEW c \in Nat, NEW d \in Nat, NEW v \in Int, NEW w \in Int, -d <= v, v <= d, -c <= w, w <= c
  PROVE  v + w \in Int /\ -(d + c) <= v + w /\ v + w <= d + c
OBVIOUS

Between(t, c) == \A i \in 1 .. K : -c <= t[i] /\ t[i] <= c

\* K terms between -c and c add up to at most K c.
LEMMA TotalRange ==
  ASSUME K \in Nat, NEW t \in [1 .. K -> Int], NEW c \in Nat, Between(t, c)
  PROVE  Total(t) \in Int /\ -(K * c) <= Total(t) /\ Total(t) <= K * c
<1> DEFINE Body(f) == [i \in 0 .. K |-> IF i = 0 THEN 0 ELSE f[i - 1] + t[i]]
           sum == CHOOSE f : f = Body(f)
           G == [z \in Nat \X Int |-> z[2] + (IF z[1] + 1 \in 1 .. K THEN t[z[1] + 1] ELSE 0)]
<1>1. Total(t) = sum[K]
  BY DEF Total
<1>2. G \in [Nat \X Int -> Int]
  OBVIOUS
<1>3. PICK f \in [0 .. K -> Int] : Follows(f, 0, G, K)
  <2> HIDE DEF G
  <2>1. PICK V : V = Int /\ 0 \in V
    OBVIOUS
  <2>2. \E f \in [0 .. K -> V] : Follows(f, 0, G, K)
    BY <1>2, <2>1, RecursionUpTo
  <2>3. QED
    BY <2>1, <2>2
<1>4. ASSUME NEW i \in 0 .. K PROVE f[i] = IF i = 0 THEN 0 ELSE f[i - 1] + t[i]
  <2>1. CASE i = 0
    BY <1>3, <2>1 DEF Follows
  <2>2. CASE i # 0
    <3>1. i - 1 \in 0 .. K - 1 /\ (i - 1) + 1 = i /\ i - 1 \in Nat /\ i \in 1 .. K
      BY <2>2
    <3>2. f[(i - 1) + 1] = G[<<i - 1, f[i - 1]>>]
      BY <1>3, <3>1 DEF Follows
    <3>3. f[i - 1] \in Int
      BY <3>1
    <3>4. G[<<i - 1, f[i - 1]>>] = f[i - 1] + t[i]
      BY <3>1, <3>3
    <3>5. QED
      BY <2>2, <3>1, <3>2, <3>4
  <2>3. QED
    BY <2>1, <2>2
<1>5. f = Body(f)
  BY <1>4
<1> HIDE DEF Body
<1>6. sum = Body(sum)
  BY <1>5
<1> HIDE DEF sum
<1>7. \A i \in 0 .. K : sum[i] = IF i = 0 THEN 0 ELSE sum[i - 1] + t[i]
  BY <1>6 DEF Body
<1> DEFINE S == {i \in Nat : i <= K => sum[i] \in Int /\ -(i * c) <= sum[i] /\ sum[i] <= i * c}
<1>8. 0 \in S
  BY <1>7
<1>9. ASSUME NEW n \in Nat, n \in S PROVE n + 1 \in S
  <2> SUFFICES ASSUME n + 1 <= K
               PROVE  sum[n + 1] \in Int /\ -((n + 1) * c) <= sum[n + 1] /\ sum[n + 1] <= (n + 1) * c
    OBVIOUS
  <2>1. n + 1 \in 0 .. K /\ n + 1 # 0 /\ (n + 1) - 1 = n /\ n + 1 \in 1 .. K /\ n <= K
    OBVIOUS
  <2>2. sum[n + 1] = sum[n] + t[n + 1]
    BY <1>7, <2>1
  <2>3. PICK v \in Int, w \in Int : v = sum[n] /\ w = t[n + 1] /\ -c <= w /\ w <= c
    BY <1>9, <2>1 DEF Between
  <2>4. PICK d \in Nat : d = n * c /\ (n + 1) * c = d + c
    OBVIOUS
  <2>5. -d <= v /\ v <= d
    BY <1>9, <2>1, <2>3, <2>4
  <2>6. PICK x \in Int : x = v + w
    OBVIOUS
  <2>7. -(d + c) <= x /\ x <= d + c
    BY <2>3, <2>5, <2>6, SumRange
  <2>8. sum[n + 1] = x
    BY <2>2, <2>3, <2>6
  <2>9. QED
    BY <2>4, <2>7, <2>8
<1> HIDE DEF S
<1>10. K \in S
  BY <1>8, <1>9, Induction
<1>11. QED
  BY <1>1, <1>10 DEF S

\* The products of the polynomials are added up before they are cut to 16 bits.
LEMMA PolyDotHatRange ==
  ASSUME KyberNttAssumption, NEW x, NEW y,
         \A i \in 1 .. K : Bounded(x[i], OfBound(3329)) /\ Bounded(y[i], OfBound(18289)),
         NEW b, b = [j \in Coeff |-> K * MulHatBound(OfBound(3329), OfBound(18289))[j]]
  PROVE  Bounded(PolyDotHat(x, y), b) /\ b \in [Coeff -> Nat] /\ \A j \in Coeff : b[j] <= 32767
<1> DEFINE products == [i \in 1 .. K |-> MulHat(x[i], y[i])]
           B(j) == MulHatBound(OfBound(3329), OfBound(18289))[j]
           Sum(j) == Total([i \in 1 .. K |-> products[i][j]])
           P == PolyDotHat(x, y)
<1>1. K \in Nat /\ 1 <= K /\ K <= 4
  BY DEF KyberNttAssumption
<1>2. \A j \in Coeff : B(j) \in Nat /\ B(j) <= 5186
  <2>1. TAKE j \in Coeff
  <2>2. B(j) \in {4389, 5186}
    BY <1>1, MulHatRange
  <2>3. QED
    BY <2>2
<1>3. ASSUME NEW i \in 1 .. K, NEW j \in Coeff
      PROVE  products[i][j] \in Int /\ -B(j) <= products[i][j] /\ products[i][j] <= B(j)
  BY <1>3, MulHatRange
<1>4. P = [j \in Coeff |-> Int16(Sum(j))]
  BY DEF PolyDotHat
<1>5. ASSUME NEW j \in Coeff
      PROVE  Sum(j) \in Int /\ -(K * B(j)) <= Sum(j) /\ Sum(j) <= K * B(j)
  <2> DEFINE t == [i \in 1 .. K |-> products[i][j]]
  <2>1. PICK c \in Nat : c = B(j)
    BY <1>2
  <2>2. \A i \in 1 .. K : t[i] \in Int /\ -c <= t[i] /\ t[i] <= c
    <3> HIDE DEF products, B
    <3>1. QED
      BY <1>3, <2>1
  <2>3. t \in [1 .. K -> Int]
    BY <2>2
  <2>4. Sum(j) = Total(t)
    OBVIOUS
  <2> HIDE DEF t, Sum, B
  <2>5. Total(t) \in Int /\ -(K * c) <= Total(t) /\ Total(t) <= K * c
    BY <1>1, <2>2, <2>3, TotalRange DEF Between
  <2>6. QED
    BY <2>1, <2>4, <2>5
<1> HIDE DEF Sum, B, products
<1>6. ASSUME NEW j \in Coeff
      PROVE  /\ b[j] \in Nat /\ b[j] <= 32767
             /\ P[j] \in Int /\ -b[j] <= P[j] /\ P[j] <= b[j]
  <2>1. b[j] = K * B(j)
    BY DEF B
  <2>2. PICK c \in Nat : c = B(j) /\ c <= 5186
    BY <1>2
  <2>3. K \in {1, 2, 3, 4}
    BY <1>1
  <2>4. PICK d \in Nat : d = K * c /\ d <= 20744
    BY <2>2, <2>3, SMT
  <2>5. PICK v \in Int : v = Sum(j) /\ -d <= v /\ v <= d
    BY <1>5, <2>2, <2>4
  <2>6. Int16(v) = v
    BY <2>4, <2>5, Int16Range, SMT
  <2>7. P[j] = v
    BY <1>4, <2>5, <2>6
  <2>8. QED
    BY <2>1, <2>2, <2>4, <2>5, <2>7, SMT
<1>7. b = [j \in Coeff |-> b[j]] /\ P = [j \in Coeff |-> P[j]]
  BY <1>4
<1> HIDE DEF P
<1>8. P \in [Coeff -> Int] /\ b \in [Coeff -> Nat]
  BY <1>6, <1>7
<1>9. QED
  BY <1>6, <1>8 DEF Bounded, P

\* No coefficient is planned to be more than 9 q.
LEMMA MultipleAtMost ==
  ASSUME NEW l \in Butterflies, NEW j \in Coeff
  PROVE  Multiple(l, j) \in Nat /\ Multiple(l, j) <= 9 /\ Multiple(256, j) = 9
<1>1. CASE l = 2
  BY <1>1, SMT DEF Multiple
<1>2. CASE l = 4
  BY <1>2, SMT DEF Multiple
<1>3. CASE l = 8
  BY <1>3, SMT DEF Multiple
<1>4. CASE l = 16
  BY <1>4, SMT DEF Multiple
<1>5. CASE l = 32
  BY <1>5, SMT DEF Multiple
<1>6. CASE l = 64
  BY <1>6, SMT DEF Multiple
<1>7. CASE l = 128
  BY <1>7, SMT DEF Multiple
<1>8. QED
  BY <1>1, <1>2, <1>3, <1>4, <1>5, <1>6, <1>7 DEF Butterflies

\* The bound of NTT before the layer of width l, and, for 1, after all.
NttBound(l) ==
  CASE l = 128 -> 3329 [] l = 64 -> 5162 [] l = 32 -> 7088 [] l = 16 -> 9112
    [] l = 8 -> 11239 [] l = 4 -> 13474 [] l = 2 -> 15822 [] l = 1 -> 18289

\* The bounds of the key, the ciphertext and the result, step by step.
BoundOfS == IF step = "s.NTT" THEN NttBound(width) ELSE IF step = "s.Normalize" THEN NttBound(1) ELSE 3329
BoundOfU == IF step \in {"s.NTT", "s.Normalize"} THEN 3329
            ELSE IF step = "u.NTT" THEN NttBound(width) ELSE NttBound(1)

BoundOfM(j) == CASE step \in {"s.NTT", "s.Normalize", "u.NTT", "dot"} -> 0
                 [] step = "m.BarrettReduce" -> 32767
                 [] step = "m.InvNTT" -> 3329 * Multiple(width, j)
                 [] step = "m.Scale" -> 3329 * Multiple(256, j)
                 [] OTHER -> 3329

\* What step may be.
Steps == {"s.NTT", "s.Normalize", "u.NTT", "dot", "m.BarrettReduce", "m.InvNTT", "m.Scale", "m.Sub",
          "done"}

\* The types, and that the key is normalized after its last layer.
NttTypeOK ==
  /\ input \in Inputs /\ step \in Steps /\ width \in Butterflies
  /\ step = "s.Normalize" => width = 128
  /\ bound \in [s : [Coeff -> Nat], u : [Coeff -> Nat], m : [Coeff -> Nat]]

\* Every polynomial of a vector is bounded.
VectorBounded(x, b) == \A i \in 1 .. K : Bounded(x[i], b)

\* The result is bounded as planned.
MPlanned == \A j \in Coeff : bound.m[j] <= BoundOfM(j)

\* The bounds hold, and they are those of the comments.
NttInv ==
  /\ NttTypeOK
  /\ bound.s = OfBound(BoundOfS) /\ bound.u = OfBound(BoundOfU)
  /\ MPlanned
  /\ VectorBounded(sh, bound.s) /\ VectorBounded(uh, bound.u) /\ Bounded(mh, bound.m)

\* One bound for all coefficients.
LEMMA OfBoundNat == ASSUME NEW c \in Nat PROVE OfBound(c) \in [Coeff -> Nat]
BY DEF OfBound

\* The table, row by row.
LEMMA NttBoundIs ==
  /\ NttBound(128) = 3329 /\ NttBound(64) = 5162 /\ NttBound(32) = 7088 /\ NttBound(16) = 9112
  /\ NttBound(8) = 11239 /\ NttBound(4) = 13474 /\ NttBound(2) = 15822 /\ NttBound(1) = 18289
BY SMT DEF NttBound

\* One layer of NTT leads from a row to the next.
LEMMA NttBoundStep ==
  ASSUME NEW l \in Butterflies, NEW n, n = IF l = 2 THEN 1 ELSE l \div 2
  PROVE  /\ NttBound(l) \in Nat /\ NttBound(l) <= 15822 /\ NttBound(n) \in Nat /\ NttBound(n) <= 18289
         /\ NttBound(n) = NttBound(l) + (3328 * NttBound(l) + 109084672) \div 65536
         /\ l # 2 => n \in Butterflies
         /\ l # 128 => 2 * l \in Butterflies
<1>1. CASE l = 2
  <2>1. n = 1
    BY <1>1, SMT
  <2>2. QED
    BY <1>1, <2>1, NttBoundIs, SMT DEF Butterflies
<1>2. CASE l = 4
  <2>1. n = 2
    BY <1>2, SMT
  <2>2. QED
    BY <1>2, <2>1, NttBoundIs, SMT DEF Butterflies
<1>3. CASE l = 8
  <2>1. n = 4
    BY <1>3, SMT
  <2>2. QED
    BY <1>3, <2>1, NttBoundIs, SMT DEF Butterflies
<1>4. CASE l = 16
  <2>1. n = 8
    BY <1>4, SMT
  <2>2. QED
    BY <1>4, <2>1, NttBoundIs, SMT DEF Butterflies
<1>5. CASE l = 32
  <2>1. n = 16
    BY <1>5, SMT
  <2>2. QED
    BY <1>5, <2>1, NttBoundIs, SMT DEF Butterflies
<1>6. CASE l = 64
  <2>1. n = 32
    BY <1>6, SMT
  <2>2. QED
    BY <1>6, <2>1, NttBoundIs, SMT DEF Butterflies
<1>7. CASE l = 128
  <2>1. n = 64
    BY <1>7, SMT
  <2>2. QED
    BY <1>7, <2>1, NttBoundIs, SMT DEF Butterflies
<1>8. QED
  BY <1>1, <1>2, <1>3, <1>4, <1>5, <1>6, <1>7 DEF Butterflies

\* A layer of NTT on a vector.
LEMMA VectorLayer ==
  ASSUME NEW l \in Butterflies, NEW x, VectorBounded(x, OfBound(NttBound(l))), NEW n,
         n = IF l = 2 THEN 1 ELSE l \div 2
  PROVE  /\ VectorBounded([i \in 1 .. K |-> NttLayer(x[i], l)], OfBound(NttBound(n)))
         /\ NttLayerBound(OfBound(NttBound(l)), l) = OfBound(NttBound(n))
         /\ NttBound(n) \in Nat
<1>1. PICK c \in Nat, d \in Nat : /\ c = NttBound(l) /\ d = NttBound(n) /\ c < 32768 /\ d < 32768
                                  /\ d = c + (3328 * c + 109084672) \div 65536
  BY NttBoundStep, SMT
<1>2. ASSUME NEW i \in 1 .. K PROVE Bounded(NttLayer(x[i], l), OfBound(d))
  <2>1. Bounded(x[i], OfBound(c))
    BY <1>1 DEF VectorBounded
  <2>2. QED
    BY <1>1, <2>1, NttLayerRange
<1>3. NttLayerBound(OfBound(c), l) = OfBound(d)
  <2>1. Bounded([j \in Coeff |-> 0], OfBound(c))
    BY <1>1 DEF Bounded, OfBound
  <2>2. QED
    BY <1>1, <2>1, NttLayerRange
<1>4. QED
  BY <1>1, <1>2, <1>3 DEF VectorBounded

\* The invariant holds of small keys and of decompressed ciphertexts.
LEMMA NttInvInit == ASSUME KyberNttAssumption, NttInit PROVE NttInv
<1>1. input \in Inputs /\ step = "s.NTT" /\ width = 128 /\ sh = input.s /\ uh = input.u
      /\ mh = [j \in Coeff |-> 0] /\ bound = [s |-> OfBound(3329), u |-> OfBound(3329), m |-> OfBound(0)]
  BY Widths DEF NttInit, NttN
<1>2. NttTypeOK
  BY <1>1, OfBoundNat DEF NttTypeOK, Steps, Butterflies
<1>3. NttBound(128) = 3329
  BY SMT DEF NttBound
<1>4. bound.s = OfBound(BoundOfS) /\ bound.u = OfBound(BoundOfU)
  BY <1>1, <1>3 DEF BoundOfS, BoundOfU
<1>5. MPlanned
  BY <1>1, SMT DEF MPlanned, BoundOfM, OfBound
<1>6. VectorBounded(sh, bound.s)
  <2>1. ASSUME NEW i \in 1 .. K PROVE Bounded(sh[i], OfBound(3329))
    <3>1. sh[i] \in [Coeff -> -3 .. 3]
      BY <1>1 DEF KyberNttAssumption
    <3>2. QED
      BY <3>1, SMT DEF Bounded, OfBound
  <2>2. QED
    BY <1>1, <2>1 DEF VectorBounded
<1>7. VectorBounded(uh, bound.u)
  <2>1. ASSUME NEW i \in 1 .. K PROVE Bounded(uh[i], OfBound(3329))
    <3>1. uh[i] \in [Coeff -> 0 .. Q - 1]
      BY <1>1 DEF KyberNttAssumption
    <3>2. \A j \in Coeff : uh[i][j] \in Int /\ 0 <= uh[i][j] /\ uh[i][j] <= 3328
      <4>1. \A j \in Coeff : uh[i][j] \in 0 .. Q - 1
        BY <3>1
      <4>2. \A v \in 0 .. Q - 1 : v \in Int /\ 0 <= v /\ v <= 3328
        BY Widths, SMT
      <4>3. QED
        BY <4>1, <4>2
    <3>3. uh[i] \in [Coeff -> Int]
      BY <3>1, <3>2
    <3>4. QED
      BY <3>2, <3>3, SMT DEF Bounded, OfBound
  <2>2. QED
    BY <1>1, <2>1 DEF VectorBounded
<1>8. Bounded(mh, bound.m)
  BY <1>1 DEF Bounded, OfBound
<1>9. QED
  BY <1>2, <1>4, <1>5, <1>6, <1>7, <1>8 DEF NttInv

\* Every step keeps the invariant.
LEMMA NttInvNext == ASSUME KyberNttAssumption, NttInv, [NttNext]_nttVars PROVE NttInv'
<1>1. NttTypeOK /\ MPlanned /\ bound.s = OfBound(BoundOfS) /\ bound.u = OfBound(BoundOfU)
      /\ VectorBounded(sh, bound.s) /\ VectorBounded(uh, bound.u) /\ Bounded(mh, bound.m)
  BY DEF NttInv
<1>2. input \in Inputs /\ step \in Steps /\ width \in Butterflies
      /\ bound \in [s : [Coeff -> Nat], u : [Coeff -> Nat], m : [Coeff -> Nat]]
  BY <1>1 DEF NttTypeOK
<1>3. NttBound(1) = 18289 /\ NttBound(128) = 3329 /\ NttBound(width) \in Nat
  BY <1>2, NttBoundIs, NttBoundStep
<1>4. CASE NttS
  <2>1. step = "s.NTT" /\ bound.s = OfBound(NttBound(width)) /\ bound.u = OfBound(3329)
    BY <1>1, <1>4 DEF NttS, BoundOfS, BoundOfU
  <2>2. PICK n : n = (IF width = 2 THEN 1 ELSE width \div 2)
    OBVIOUS
  <2>3. VectorBounded(sh', OfBound(NttBound(n))) /\ NttLayerBound(bound.s, width) = OfBound(NttBound(n))
        /\ NttBound(n) \in Nat
    <3>1. sh' = [i \in 1 .. K |-> NttLayer(sh[i], width)]
      BY <1>4 DEF NttS
    <3>2. QED
      BY <1>1, <1>2, <2>1, <2>2, <3>1, VectorLayer
  <2>4. /\ bound'.s = OfBound(NttBound(n)) /\ bound'.u = bound.u /\ bound'.m = bound.m
        /\ bound' \in [s : [Coeff -> Nat], u : [Coeff -> Nat], m : [Coeff -> Nat]]
    <3>1. bound' = [bound EXCEPT !.s = OfBound(NttBound(n))]
      BY <1>4, <2>3 DEF NttS
    <3>2. OfBound(NttBound(n)) \in [Coeff -> Nat]
      BY <2>3, OfBoundNat
    <3>3. QED
      BY <1>2, <3>1, <3>2
  <2>5. input' = input /\ uh' = uh /\ mh' = mh
    BY <1>4 DEF NttS
  <2>6. CASE width = 2
    <3>1. step' = "s.Normalize" /\ width' = 128 /\ n = 1
      BY <1>4, <2>2, <2>6 DEF NttS, Narrower, NttN
    <3>2. NttTypeOK'
      BY <1>2, <2>4, <2>5, <3>1 DEF NttTypeOK, Steps, Butterflies
    <3>3. bound'.s = OfBound(BoundOfS') /\ bound'.u = OfBound(BoundOfU')
      BY <2>1, <2>4, <3>1 DEF BoundOfS, BoundOfU
    <3>4. MPlanned'
      BY <1>1, <2>1, <2>4, <3>1 DEF MPlanned, BoundOfM
    <3>5. QED
      BY <1>1, <2>3, <2>4, <2>5, <3>2, <3>3, <3>4 DEF NttInv, VectorBounded, Bounded
  <2>7. CASE width # 2
    <3>1. step' = "s.NTT" /\ width' = n /\ width' \in Butterflies
      <4>1. step' = "s.NTT" /\ width' = n /\ n = width \div 2
        BY <1>4, <2>1, <2>2, <2>7 DEF NttS, Narrower
      <4>2. QED
        BY <1>2, <2>7, <4>1, NttBoundStep
    <3>2. NttTypeOK'
      BY <1>2, <2>4, <2>5, <3>1 DEF NttTypeOK, Steps
    <3>3. bound'.s = OfBound(BoundOfS') /\ bound'.u = OfBound(BoundOfU')
      BY <2>1, <2>4, <3>1 DEF BoundOfS, BoundOfU
    <3>4. MPlanned'
      BY <1>1, <2>1, <2>4, <3>1 DEF MPlanned, BoundOfM
    <3>5. QED
      BY <1>1, <2>3, <2>4, <2>5, <3>2, <3>3, <3>4 DEF NttInv, VectorBounded, Bounded
  <2>8. QED
    BY <2>6, <2>7
<1>5. CASE NormalizeS
  <2>1. step = "s.Normalize" /\ step' = "u.NTT" /\ width' = 128
        /\ bound.s = OfBound(18289) /\ bound.u = OfBound(3329)
    BY <1>1, <1>3, <1>5 DEF NormalizeS, BoundOfS, BoundOfU, NttTypeOK
  <2>2. input' = input /\ uh' = uh /\ mh' = mh
    BY <1>5 DEF NormalizeS
  <2>3. VectorBounded(sh', OfBound(3329))
    <3>1. ASSUME NEW i \in 1 .. K PROVE Bounded(sh'[i], OfBound(3329))
      <4>1. \A j \in Coeff : normalize(sh[i][j]) \in Nat /\ normalize(sh[i][j]) <= 3328
        <5>1. TAKE j \in Coeff
        <5>2. PICK x \in Int : x = sh[i][j] /\ -18289 <= x /\ x <= 18289
          BY <1>1, <2>1 DEF VectorBounded, Bounded, OfBound
        <5>3. -32768 < x /\ x < 32768
          BY <5>2, SMT
        <5>4. QED
          BY <5>2, <5>3, NormalizeRange
      <4>2. sh'[i] = [j \in Coeff |-> normalize(sh[i][j])]
        BY <1>5 DEF NormalizeS
      <4>3. \A j \in Coeff : sh'[i][j] \in Nat /\ sh'[i][j] <= 3328
        BY <4>1, <4>2
      <4>4. sh'[i] \in [Coeff -> Int]
        BY <4>2, <4>3
      <4>5. QED
        BY <4>3, <4>4, SMT DEF Bounded, OfBound
    <3>2. QED
      BY <3>1 DEF VectorBounded
  <2>4. /\ bound'.s = OfBound(3329) /\ bound'.u = bound.u /\ bound'.m = bound.m
        /\ bound' \in [s : [Coeff -> Nat], u : [Coeff -> Nat], m : [Coeff -> Nat]]
    <3>1. bound' = [bound EXCEPT !.s = OfBound(3329)]
      BY <1>5, Widths DEF NormalizeS
    <3>2. OfBound(3329) \in [Coeff -> Nat]
      BY OfBoundNat
    <3>3. QED
      BY <1>2, <3>1, <3>2
  <2>5. NttTypeOK'
    BY <1>2, <2>1, <2>2, <2>4 DEF NttTypeOK, Steps, Butterflies
  <2>6. bound'.s = OfBound(BoundOfS') /\ bound'.u = OfBound(BoundOfU')
    BY <1>3, <2>1, <2>4 DEF BoundOfS, BoundOfU
  <2>7. MPlanned'
    BY <1>1, <2>1, <2>4 DEF MPlanned, BoundOfM
  <2>8. QED
    BY <1>1, <2>2, <2>3, <2>4, <2>5, <2>6, <2>7 DEF NttInv, VectorBounded, Bounded
<1>6. CASE NttU
  <2>1. step = "u.NTT" /\ bound.s = OfBound(3329) /\ bound.u = OfBound(NttBound(width))
    BY <1>1, <1>6 DEF NttU, BoundOfS, BoundOfU
  <2>2. PICK n : n = (IF width = 2 THEN 1 ELSE width \div 2)
    OBVIOUS
  <2>3. VectorBounded(uh', OfBound(NttBound(n))) /\ NttLayerBound(bound.u, width) = OfBound(NttBound(n))
        /\ NttBound(n) \in Nat
    <3>1. uh' = [i \in 1 .. K |-> NttLayer(uh[i], width)]
      BY <1>6 DEF NttU
    <3>2. QED
      BY <1>1, <1>2, <2>1, <2>2, <3>1, VectorLayer
  <2>4. /\ bound'.u = OfBound(NttBound(n)) /\ bound'.s = bound.s /\ bound'.m = bound.m
        /\ bound' \in [s : [Coeff -> Nat], u : [Coeff -> Nat], m : [Coeff -> Nat]]
    <3>1. bound' = [bound EXCEPT !.u = OfBound(NttBound(n))]
      BY <1>6, <2>3 DEF NttU
    <3>2. OfBound(NttBound(n)) \in [Coeff -> Nat]
      BY <2>3, OfBoundNat
    <3>3. QED
      BY <1>2, <3>1, <3>2
  <2>5. input' = input /\ sh' = sh /\ mh' = mh
    BY <1>6 DEF NttU
  <2>6. CASE width = 2
    <3>1. step' = "dot" /\ width' = 128 /\ n = 1
      BY <1>6, <2>2, <2>6 DEF NttU, Narrower, NttN
    <3>2. NttTypeOK'
      BY <1>2, <2>4, <2>5, <3>1 DEF NttTypeOK, Steps, Butterflies
    <3>3. bound'.s = OfBound(BoundOfS') /\ bound'.u = OfBound(BoundOfU')
      BY <2>1, <2>4, <3>1 DEF BoundOfS, BoundOfU
    <3>4. MPlanned'
      BY <1>1, <2>1, <2>4, <3>1 DEF MPlanned, BoundOfM
    <3>5. QED
      BY <1>1, <2>3, <2>4, <2>5, <3>2, <3>3, <3>4 DEF NttInv, VectorBounded, Bounded
  <2>7. CASE width # 2
    <3>1. step' = "u.NTT" /\ width' = n /\ width' \in Butterflies
      <4>1. step' = "u.NTT" /\ width' = n /\ n = width \div 2
        BY <1>6, <2>1, <2>2, <2>7 DEF NttU, Narrower
      <4>2. QED
        BY <1>2, <2>7, <4>1, NttBoundStep
    <3>2. NttTypeOK'
      BY <1>2, <2>4, <2>5, <3>1 DEF NttTypeOK, Steps
    <3>3. bound'.s = OfBound(BoundOfS') /\ bound'.u = OfBound(BoundOfU')
      BY <2>1, <2>4, <3>1 DEF BoundOfS, BoundOfU
    <3>4. MPlanned'
      BY <1>1, <2>1, <2>4, <3>1 DEF MPlanned, BoundOfM
    <3>5. QED
      BY <1>1, <2>3, <2>4, <2>5, <3>2, <3>3, <3>4 DEF NttInv, VectorBounded, Bounded
  <2>8. QED
    BY <2>6, <2>7
<1>7. ASSUME step \in {"dot", "m.BarrettReduce", "m.InvNTT", "m.Scale", "m.Sub"},
             input' = input, sh' = sh, uh' = uh, width' \in Butterflies,
             step' \in {"m.BarrettReduce", "m.InvNTT", "m.Scale", "m.Sub", "done"},
             NEW b \in [Coeff -> Nat], bound' = [bound EXCEPT !.m = b],
             Bounded(mh', b), \A j \in Coeff : b[j] <= BoundOfM(j)'
      PROVE  NttInv'
  <2>1. /\ bound'.s = bound.s /\ bound'.u = bound.u /\ bound'.m = b
        /\ bound' \in [s : [Coeff -> Nat], u : [Coeff -> Nat], m : [Coeff -> Nat]]
    BY <1>2, <1>7
  <2>2. NttTypeOK'
    BY <1>2, <1>7, <2>1 DEF NttTypeOK, Steps
  <2>3. bound'.s = OfBound(BoundOfS') /\ bound'.u = OfBound(BoundOfU')
    BY <1>1, <1>7, <2>1 DEF BoundOfS, BoundOfU
  <2>4. MPlanned'
    BY <1>7, <2>1 DEF MPlanned
  <2>5. QED
    BY <1>1, <1>7, <2>1, <2>2, <2>3, <2>4 DEF NttInv, VectorBounded, Bounded
<1>8. CASE DotHat
  <2>1. step = "dot" /\ step' = "m.BarrettReduce" /\ bound.s = OfBound(3329) /\ bound.u = OfBound(18289)
    BY <1>1, <1>3, <1>8 DEF DotHat, BoundOfS, BoundOfU
  <2> DEFINE b == [j \in Coeff |-> K * MulHatBound(OfBound(3329), OfBound(18289))[j]]
  <2>2. b = [j \in Coeff |-> K * MulHatBound(OfBound(3329), OfBound(18289))[j]]
    OBVIOUS
  <2> HIDE DEF b
  <2>3. bound' = [bound EXCEPT !.m = b] /\ mh' = PolyDotHat(sh, uh)
    BY <1>8, <2>1, <2>2 DEF DotHat
  <2>4. Bounded(mh', b) /\ b \in [Coeff -> Nat] /\ \A j \in Coeff : b[j] <= 32767
    <3>1. \A i \in 1 .. K : Bounded(sh[i], OfBound(3329)) /\ Bounded(uh[i], OfBound(18289))
      BY <1>1, <2>1 DEF VectorBounded
    <3>2. QED
      BY <2>2, <2>3, <3>1, PolyDotHatRange
  <2>5. \A j \in Coeff : b[j] <= BoundOfM(j)'
    BY <2>1, <2>4 DEF BoundOfM
  <2>6. input' = input /\ sh' = sh /\ uh' = uh /\ width' \in Butterflies
    BY <1>2, <1>8 DEF DotHat
  <2>7. QED
    BY <1>7, <2>1, <2>3, <2>4, <2>5, <2>6
<1>9. CASE BarrettReduce
  <2>1. step = "m.BarrettReduce" /\ step' = "m.InvNTT" /\ width' = 2
        /\ input' = input /\ sh' = sh /\ uh' = uh
    BY <1>9 DEF BarrettReduce
  <2>2. PICK b \in [Coeff -> Nat] : b = OfBound(3329)
    BY OfBoundNat
  <2>3. bound' = [bound EXCEPT !.m = b] /\ mh' = [j \in Coeff |-> barrettReduce(mh[j])]
    BY <1>9, <2>2, Widths DEF BarrettReduce, BarrettBound
  <2>4. \A j \in Coeff : barrettReduce(mh[j]) \in Nat /\ barrettReduce(mh[j]) <= 3329
    <3>1. TAKE j \in Coeff
    <3>2. PICK c \in Nat : c = bound.m[j] /\ c <= 32767
      BY <1>1, <1>2, <2>1 DEF MPlanned, BoundOfM
    <3>3. PICK x \in Int : x = mh[j] /\ -c <= x /\ x <= c
      BY <1>1, <3>2 DEF Bounded
    <3>4. -32768 < x /\ x < 32768
      BY <3>2, <3>3, SMT
    <3>5. QED
      BY <3>3, <3>4, BarrettRange
  <2>5. Bounded(mh', b)
    BY <2>2, <2>3, <2>4 DEF Bounded, OfBound
  <2>6. \A j \in Coeff : b[j] <= BoundOfM(j)'
    <3>1. \A j \in Coeff : BoundOfM(j)' = 3329 * Multiple(2, j)
      BY <2>1 DEF BoundOfM
    <3>2. \A j \in Coeff : Multiple(2, j) = 1
      BY SMT DEF Multiple
    <3>3. QED
      BY <2>2, <3>1, <3>2 DEF OfBound
  <2>7. width' \in Butterflies
    BY <2>1 DEF Butterflies
  <2>8. QED
    BY <1>7, <2>1, <2>3, <2>5, <2>6, <2>7
<1>10. CASE InvNtt
  <2>1. step = "m.InvNTT" /\ input' = input /\ sh' = sh /\ uh' = uh
    BY <1>10 DEF InvNtt
  <2>2. PICK b : b = InvNttLayerBound(bound.m, width)
    OBVIOUS
  <2>3. bound' = [bound EXCEPT !.m = b] /\ mh' = InvNttLayer(mh, width)
    BY <1>10, <2>2 DEF InvNtt
  <2>4. Planned(width, bound.m)
    BY <1>1, <1>2, <2>1 DEF MPlanned, BoundOfM, Planned
  <2>5. Bounded(mh', b) /\ Planned(2 * width, b)
    BY <1>1, <1>2, <2>2, <2>3, <2>4, InvNttLayerRange
  <2>6. b \in [Coeff -> Nat] /\ \A j \in Coeff : b[j] <= 3329 * Multiple(2 * width, j)
    BY <2>5 DEF Planned
  <2>7. CASE width = 128
    <3>1. step' = "m.Scale" /\ width' = width /\ 2 * width = 256
      BY <1>10, <2>7 DEF InvNtt, NttN
    <3>2. \A j \in Coeff : b[j] <= BoundOfM(j)'
      BY <2>6, <3>1 DEF BoundOfM
    <3>3. QED
      BY <1>2, <1>7, <2>1, <2>3, <2>5, <2>6, <3>1, <3>2
  <2>8. CASE width # 128
    <3>1. step' = "m.InvNTT" /\ width' = 2 * width
      BY <1>10, <2>1, <2>8 DEF InvNtt, NttN
    <3>2. width' \in Butterflies
      BY <1>2, <2>8, <3>1, NttBoundStep
    <3>3. \A j \in Coeff : b[j] <= BoundOfM(j)'
      BY <2>6, <3>1 DEF BoundOfM
    <3>4. QED
      BY <1>7, <2>1, <2>3, <2>5, <2>6, <3>1, <3>2, <3>3
  <2>9. QED
    BY <2>7, <2>8
<1>11. CASE Scale
  <2>1. step = "m.Scale" /\ step' = "m.Sub" /\ input' = input /\ sh' = sh /\ uh' = uh /\ width' = width
    BY <1>11 DEF Scale
  <2>2. PICK b : b = [j \in Coeff |-> MontBound(1441 * bound.m[j])]
    OBVIOUS
  <2>3. bound' = [bound EXCEPT !.m = b] /\ mh' = [j \in Coeff |-> montReduce(1441 * mh[j])]
    BY <1>11, <2>2 DEF Scale
  <2>4. ASSUME NEW j \in Coeff
        PROVE  b[j] \in Nat /\ b[j] <= 3329 /\ mh'[j] \in Int /\ -b[j] <= mh'[j] /\ mh'[j] <= b[j]
    <3>1. PICK c \in Nat : c = bound.m[j] /\ c <= 29961
      <4>1. bound.m[j] \in Nat /\ bound.m[j] <= 3329 * Multiple(256, j)
        BY <1>1, <1>2, <2>1 DEF MPlanned, BoundOfM
      <4>2. Multiple(256, j) = 9
        BY SMT DEF Multiple
      <4>3. QED
        BY <4>1, <4>2
    <3>2. PICK x \in Int : x = mh[j] /\ -c <= x /\ x <= c
      BY <1>1, <3>1 DEF Bounded
    <3>3. PICK d \in Nat, y \in Int : d = 1441 * c /\ y = 1441 * x
      OBVIOUS
    <3>4. d < 109084672 /\ -d <= y /\ y <= d /\ d <= 43173801
      BY <3>1, <3>2, <3>3, SMT
    <3>5. /\ montReduce(y) \in Int /\ MontBound(d) = (d + 109084672) \div 65536
          /\ -MontBound(d) <= montReduce(y) /\ montReduce(y) <= MontBound(d)
      BY <3>4, MontReduceRange, SMT
    <3>6. MontBound(d) \in Nat /\ MontBound(d) <= 3329
      BY <3>4, <3>5, SMT
    <3>7. b[j] = MontBound(d) /\ mh'[j] = montReduce(y)
      BY <2>2, <2>3, <3>1, <3>2, <3>3
    <3>8. QED
      BY <3>5, <3>6, <3>7
  <2>5. b \in [Coeff -> Nat] /\ mh' \in [Coeff -> Int]
    BY <2>2, <2>3, <2>4
  <2>6. Bounded(mh', b)
    BY <2>4, <2>5 DEF Bounded
  <2>7. \A j \in Coeff : b[j] <= BoundOfM(j)'
    BY <2>1, <2>4 DEF BoundOfM
  <2>8. QED
    BY <1>2, <1>7, <2>1, <2>3, <2>5, <2>6, <2>7
<1>12. CASE SubAndNormalize
  <2>1. step = "m.Sub" /\ step' = "done" /\ input' = input /\ sh' = sh /\ uh' = uh /\ width' = width
    BY <1>12 DEF SubAndNormalize
  <2>2. \A j \in Coeff : bound.m[j] \in Nat /\ bound.m[j] <= 3329
    BY <1>1, <1>2, <2>1 DEF MPlanned, BoundOfM
  <2>3. PICK b \in [Coeff -> Nat] : b = OfBound(3329)
    BY OfBoundNat
  <2>4. bound' = [bound EXCEPT !.m = b]
    <3>1. \A j \in Coeff : Q + bound.m[j] < Half
      BY <2>2, Widths, SMT
    <3>2. [j \in Coeff |-> IF Q + bound.m[j] < Half THEN Q ELSE Unbounded] = OfBound(Q)
      BY <3>1 DEF OfBound
    <3>3. QED
      BY <1>12, <2>3, <3>2, Widths DEF SubAndNormalize
  <2>5. mh' = [j \in Coeff |-> normalize(Int16(input.v[j] - mh[j]))]
    BY <1>12 DEF SubAndNormalize
  <2>6. ASSUME NEW j \in Coeff PROVE mh'[j] \in Nat /\ mh'[j] <= 3328
    <3>1. PICK c \in Nat : c = bound.m[j] /\ c <= 3329
      BY <2>2
    <3>2. PICK x \in Int : x = mh[j] /\ -c <= x /\ x <= c
      BY <1>1, <3>1 DEF Bounded
    <3>3. PICK v \in Nat : v = input.v[j] /\ v <= 3328
      <4>1. input.v \in [Coeff -> 0 .. Q - 1]
        BY <1>2 DEF KyberNttAssumption
      <4>2. input.v[j] \in 0 .. Q - 1
        BY <4>1
      <4>3. \A v \in 0 .. Q - 1 : v \in Nat /\ v <= 3328
        BY Widths, SMT
      <4>4. QED
        BY <4>2, <4>3
    <3>4. PICK y \in Int : y = v - x /\ -32768 < y /\ y < 32768
      BY <3>1, <3>2, <3>3, SMT
    <3>5. Int16(y) = y
      BY <3>4, Int16Range, SMT
    <3>6. mh'[j] = normalize(y)
      BY <2>5, <3>2, <3>3, <3>4, <3>5
    <3>7. QED
      BY <3>4, <3>6, NormalizeRange
  <2>7. Bounded(mh', b)
    <3>1. mh' \in [Coeff -> Int]
      BY <2>5, <2>6
    <3>2. QED
      BY <2>3, <2>6, <3>1, SMT DEF Bounded, OfBound
  <2>8. \A j \in Coeff : b[j] <= BoundOfM(j)'
    BY <2>1, <2>3 DEF BoundOfM, OfBound
  <2>9. QED
    BY <1>2, <1>7, <2>1, <2>3, <2>4, <2>7, <2>8
<1>13. CASE UNCHANGED nttVars
  BY <1>1, <1>13 DEF nttVars, NttInv, NttTypeOK, MPlanned, BoundOfM, BoundOfS, BoundOfU, VectorBounded, Bounded
<1>14. QED
  BY <1>4, <1>5, <1>6, <1>8, <1>9, <1>10, <1>11, <1>12, <1>13 DEF NttNext

\* The bounds of the invariant fit in 16 bits, and in what the comments say.
LEMMA NttInvNoOverflow == ASSUME KyberNttAssumption, NttInv PROVE NoOverflow
<1>1. NttTypeOK /\ MPlanned /\ bound.s = OfBound(BoundOfS) /\ bound.u = OfBound(BoundOfU)
      /\ VectorBounded(sh, bound.s) /\ VectorBounded(uh, bound.u) /\ Bounded(mh, bound.m)
  BY DEF NttInv
<1>2. width \in Butterflies /\ step \in Steps
      /\ bound \in [s : [Coeff -> Nat], u : [Coeff -> Nat], m : [Coeff -> Nat]]
  BY <1>1 DEF NttTypeOK
<1>3. BoundOfS \in Nat /\ BoundOfS <= 18289 /\ BoundOfU \in Nat /\ BoundOfU <= 18289
  <2>1. NttBound(width) \in Nat /\ NttBound(width) <= 18289
    BY <1>2, NttBoundStep, SMT
  <2>2. NttBound(1) = 18289
    BY NttBoundIs
  <2>3. QED
    BY <2>1, <2>2 DEF BoundOfS, BoundOfU
<1>4. \A j \in Coeff : /\ bound.s[j] \in Nat /\ bound.s[j] < 32768
                       /\ bound.u[j] \in Nat /\ bound.u[j] < 32768 /\ bound.u[j] <= 23303
  BY <1>1, <1>3, SMT DEF OfBound
<1>5. ASSUME NEW j \in Coeff
      PROVE  /\ bound.m[j] \in Nat /\ bound.m[j] < 32768
             /\ step = "m.Scale" => bound.m[j] <= 29961
             /\ step = "m.Sub" => bound.m[j] <= 3329
  <2>1. PICK c \in Nat : c = bound.m[j] /\ c <= BoundOfM(j)
    BY <1>1, <1>2 DEF MPlanned
  <2>2. Multiple(width, j) <= 9 /\ Multiple(width, j) \in Nat /\ Multiple(256, j) = 9
    BY <1>2, MultipleAtMost
  <2>3. BoundOfM(j) \in Nat /\ BoundOfM(j) < 32768
    BY <1>2, <2>2, SMT DEF BoundOfM, Steps
  <2>4. step = "m.Scale" => BoundOfM(j) = 29961
    BY <2>2, SMT DEF BoundOfM
  <2>5. step = "m.Sub" => BoundOfM(j) = 3329
    BY SMT DEF BoundOfM
  <2>6. QED
    BY <2>1, <2>3, <2>4, <2>5, SMT
<1>6. \A x, b : Bounded(x, b) /\ (\A j \in Coeff : b[j] \in Nat /\ b[j] < 32768) => Within(x, b)
  <2> SUFFICES ASSUME NEW x, NEW b, Bounded(x, b), \A j \in Coeff : b[j] \in Nat /\ b[j] < 32768,
                      NEW j \in Coeff
               PROVE  Absolute(x[j]) <= b[j] /\ b[j] < Half
    BY DEF Within
  <2>1. PICK v \in Int, c \in Nat : v = x[j] /\ c = b[j] /\ -c <= v /\ v <= c /\ c < 32768
    BY DEF Bounded
  <2>2. QED
    BY <2>1, Widths DEF Absolute
<1>7. Within(mh, bound.m) /\ \A i \in 1 .. K : Within(sh[i], bound.s) /\ Within(uh[i], bound.u)
  BY <1>1, <1>4, <1>5, <1>6 DEF VectorBounded
<1>8. QED
  <2>1. 7 * Q = 23303 /\ 9 * Q = 29961
    BY Widths, SMT
  <2>2. QED
    BY <1>4, <1>5, <1>7, <2>1, Widths DEF NoOverflow

(* For every key, every ciphertext and every number of polynomials: no      *)
(* coefficient leaves 16 bits between the first layer of the transforms and *)
(* the normalized result, and every argument of montReduce is in its range, *)
(* although InvNTT reduces few coefficients and NTT none.                   *)
THEOREM KyberNeverOverflows == ASSUME KyberNttAssumption PROVE NttSpec => []NoOverflow
<1>1. NttInit => NttInv
  BY NttInvInit
<1>2. NttInv /\ [NttNext]_nttVars => NttInv'
  BY NttInvNext
<1>3. NttInv => NoOverflow
  BY NttInvNoOverflow
<1>4. QED
  BY <1>1, <1>2, <1>3, PTL DEF NttSpec
=============================================================================
