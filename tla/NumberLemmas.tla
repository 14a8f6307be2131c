---------------------------- MODULE NumberLemmas ----------------------------
(* The least-number principle, for a set of natural numbers, and what       *)
(* follows from it: induction, for membership in a set, and the existence   *)
(* of functions defined by recursion. And residues, of sums and products.   *)
EXTENDS Integers, WellFoundedInduction, TLAPS

\* Every non-empty set of natural numbers has a least element.
LEMMA LeastNat ==
  ASSUME NEW T, T \subseteq Nat, T # {}
  PROVE  \E x \in T : \A y \in T : x <= y
<1>1. IsWellFoundedOn(OpToRel(<, Nat), Nat)
  BY NatLessThanWellFounded
<1>2. PICK x \in T : \A y \in T : ~(<<y, x>> \in OpToRel(<, Nat))
  BY <1>1, WFMin, Zenon
<1>3. \A y \in T : ~(y < x)
  BY <1>2 DEF OpToRel
<1>4. QED
  BY <1>3

\* Every non-empty set of numbers between 1 and n has a greatest element.
LEMMA GreatestUpTo ==
  ASSUME NEW n \in Nat, NEW T, T \subseteq 1 .. n, T # {}
  PROVE  \E x \in T : \A y \in T : y <= x
<1> DEFINE U == {d \in Nat : \E x \in T : d = n - x}
<1>1. \A y \in T : y \in 1 .. n /\ n - y \in Nat
  OBVIOUS
<1>2. U \subseteq Nat /\ U # {}
  BY <1>1
<1>3. PICK d \in U : \A e \in U : d <= e
  BY <1>2, LeastNat
<1>4. PICK x \in T : d = n - x
  OBVIOUS
<1>5. \A y \in T : n - y \in U
  BY <1>1
<1>6. \A y \in T : y <= x
  BY <1>1, <1>3, <1>4, <1>5
<1>7. QED
  BY <1>6

\* A set with zero and the successor of each of its numbers has all numbers.
LEMMA Induction ==
  ASSUME NEW S, 0 \in S, \A n \in Nat : n \in S => n + 1 \in S
  PROVE  Nat \subseteq S
<1> DEFINE T == Nat \ S
<1> SUFFICES ASSUME T # {} PROVE FALSE
  OBVIOUS
<1>1. T \subseteq Nat
  OBVIOUS
<1>2. PICK x \in T : \A y \in T : x <= y
  BY <1>1, LeastNat
<1>3. x # 0 /\ x \in Nat
  OBVIOUS
<1>4. x - 1 \in Nat /\ ~(x <= x - 1) /\ (x - 1) + 1 = x
  BY <1>3
<1>5. x - 1 \notin T
  BY <1>2, <1>4
<1>6. x - 1 \in S
  BY <1>4, <1>5
<1>7. x \in S
  BY <1>4, <1>6
<1>8. QED
  BY <1>7

\* f is v0 at zero and takes each step up to m by G.
Follows(f, v0, G, m) == f[0] = v0 /\ \A k \in 0 .. m - 1 : f[k + 1] = G[<<k, f[k]>>]

\* Such a function exists, up to any number.
LEMMA RecursionUpTo ==
  ASSUME NEW V, NEW v0 \in V, NEW G \in [Nat \X V -> V], NEW m \in Nat
  PROVE  \E f \in [0 .. m -> V] : Follows(f, v0, G, m)
<1> USE DEF Follows
<1> DEFINE Good(n) == {f \in [0 .. n -> V] : Follows(f, v0, G, n)}
           S == {n \in Nat : Good(n) # {}}
<1>1. 0 \in S
  <2>1. [k \in 0 .. 0 |-> v0] \in Good(0)
    OBVIOUS
  <2>2. QED
    BY <2>1
<1>2. ASSUME NEW n \in Nat, n \in S PROVE n + 1 \in S
  <2>1. PICK f \in [0 .. n -> V] : f[0] = v0 /\ \A k \in 0 .. n - 1 : f[k + 1] = G[<<k, f[k]>>]
    BY <1>2
  <2> DEFINE g == [k \in 0 .. n + 1 |-> IF k = n + 1 THEN G[<<n, f[n]>>] ELSE f[k]]
  <2>2. f[n] \in V /\ <<n, f[n]>> \in Nat \X V
    OBVIOUS
  <2>3. G[<<n, f[n]>>] \in V
    BY <2>2
  <2>4. g \in [0 .. n + 1 -> V]
    BY <2>3
  <2>5. g[0] = v0
    BY <2>1
  <2>6. ASSUME NEW k \in 0 .. (n + 1) - 1 PROVE g[k + 1] = G[<<k, g[k]>>]
    <3>1. CASE k = n
      <4>1. n + 1 \in 0 .. n + 1 /\ n \in 0 .. n + 1 /\ n # n + 1
        OBVIOUS
      <4>2. g[n + 1] = G[<<n, f[n]>>] /\ g[n] = f[n]
        BY <4>1
      <4>3. QED
        BY <3>1, <4>2
    <3>2. CASE k # n
      <4>1. k \in 0 .. n - 1 /\ k + 1 # n + 1 /\ k + 1 \in 0 .. n + 1 /\ k # n + 1
        BY <3>2
      <4>2. g[k + 1] = f[k + 1] /\ g[k] = f[k]
        BY <4>1
      <4>3. QED
        BY <2>1, <4>1, <4>2
    <3>3. QED
      BY <3>1, <3>2
  <2> HIDE DEF g
  <2>7. g \in Good(n + 1)
    BY <2>4, <2>5, <2>6
  <2>8. QED
    BY <2>7
<1>3. m \in S
  <2> HIDE DEF S
  <2>1. QED
    BY <1>1, <1>2, Induction
<1>4. QED
  BY <1>3

\* Two functions of such a recursion agree where both are defined.
LEMMA RecursionUnique ==
  ASSUME NEW v0, NEW G, NEW m \in Nat, NEW n \in Nat, m <= n,
         NEW f, NEW g, Follows(f, v0, G, m), Follows(g, v0, G, n)
  PROVE  f[m] = g[m]
<1> USE DEF Follows
<1> DEFINE S == {i \in Nat : i <= m => f[i] = g[i]}
<1>1. 0 \in S
  OBVIOUS
<1>2. ASSUME NEW i \in Nat, i \in S PROVE i + 1 \in S
  <2> SUFFICES ASSUME i + 1 <= m PROVE f[i + 1] = g[i + 1]
    OBVIOUS
  <2>1. i \in 0 .. m - 1 /\ i \in 0 .. n - 1 /\ i <= m
    OBVIOUS
  <2>2. f[i] = g[i]
    BY <1>2, <2>1
  <2>3. QED
    BY <2>1, <2>2
<1>3. m \in S
  <2> HIDE DEF S
  <2>1. QED
    BY <1>1, <1>2, Induction
<1>4. QED
  BY <1>3

\* f does so for all numbers.
IsRecursive(f, v0, G) == f[0] = v0 /\ \A k \in Nat : f[k + 1] = G[<<k, f[k]>>]

\* The function on all numbers.
LEMMA Recursion ==
  ASSUME NEW V, NEW v0 \in V, NEW G \in [Nat \X V -> V]
  PROVE  \E f \in [Nat -> V] : IsRecursive(f, v0, G)
<1> DEFINE Is(n, f) == f \in [0 .. n -> V] /\ Follows(f, v0, G, n)
           F == [n \in Nat |-> (CHOOSE f : Is(n, f))]
           f == [n \in Nat |-> F[n][n]]
<1>1. ASSUME NEW n \in Nat PROVE Is(n, F[n])
  <2>1. \E h : Is(n, h)
    BY RecursionUpTo
  <2> HIDE DEF Is
  <2>2. Is(n, CHOOSE h : Is(n, h))
    BY <2>1
  <2>3. QED
    BY <2>2
<1> HIDE DEF F
<1>2. f \in [Nat -> V]
  BY <1>1
<1>3. f[0] = v0
  BY <1>1 DEF Follows
<1>4. ASSUME NEW k \in Nat PROVE f[k + 1] = G[<<k, f[k]>>]
  <2>1. Is(k, F[k]) /\ Is(k + 1, F[k + 1])
    BY <1>1
  <2>2. F[k][k] = F[k + 1][k]
    BY <2>1, RecursionUnique
  <2>3. F[k + 1][k + 1] = G[<<k, F[k + 1][k]>>]
    BY <2>1 DEF Follows
  <2>4. QED
    BY <2>2, <2>3
<1>5. IsRecursive(f, v0, G)
  BY <1>3, <1>4 DEF IsRecursive
<1>6. QED
  BY <1>2, <1>5

-----------------------------------------------------------------------------
(* Residues *)

\* Division with remainder.
LEMMA Remainder ==
  ASSUME NEW n \in Nat \ {0}, NEW x \in Int
  PROVE  x % n \in 0 .. n - 1 /\ \E k \in Int : x = (x % n) + k * n
<1>1. x % n \in 0 .. n - 1
  OBVIOUS
<1>2. x \div n \in Int /\ x = (x % n) + (x \div n) * n
  OBVIOUS
<1>3. QED
  BY <1>1, <1>2

\* The remainder is unique.
LEMMA RemainderIs ==
  ASSUME NEW n \in Nat \ {0}, NEW r \in 0 .. n - 1, NEW k \in Int
  PROVE  (r + k * n) % n = r
OBVIOUS

LEMMA RemainderShift ==
  ASSUME NEW n \in Nat \ {0}, NEW x \in Int, NEW k \in Int
  PROVE  (x + k * n) % n = x % n
<1>1. PICK l \in Int : x = (x % n) + l * n
  BY Remainder
<1>2. PICK r \in 0 .. n - 1 : r = x % n
  BY Remainder
<1>3. x + k * n = r + (l + k) * n
  BY <1>1, <1>2, SMT
<1>4. l + k \in Int /\ (r + (l + k) * n) % n = r
  BY RemainderIs
<1>5. QED
  BY <1>2, <1>3, <1>4

\* Sums and products of residues.
LEMMA RemainderSum ==
  ASSUME NEW n \in Nat \ {0}, NEW x \in Int, NEW y \in Int
  PROVE  ((x % n) + y) % n = (x + y) % n
<1>1. PICK l \in Int : x = (x % n) + l * n
  BY Remainder
<1>2. PICK r \in 0 .. n - 1 : r = x % n
  BY Remainder
<1>3. x + y = (r + y) + l * n
  BY <1>1, <1>2, SMT
<1>4. PICK s \in Int : s = r + y
  OBVIOUS
<1>5. (s + l * n) % n = s % n
  BY RemainderShift
<1>6. x + y = s + l * n
  BY <1>3, <1>4
<1>7. QED
  BY <1>2, <1>4, <1>5, <1>6

LEMMA RemainderProduct ==
  ASSUME NEW n \in Nat \ {0}, NEW x \in Int, NEW y \in Int
  PROVE  ((x % n) * y) % n = (x * y) % n
<1>1. PICK l \in Int : x = (x % n) + l * n
  BY Remainder
<1>2. PICK r \in 0 .. n - 1 : r = x % n
  BY Remainder
<1>3. r * y \in Int /\ l * y \in Int /\ (r * y + (l * y) * n) % n = (r * y) % n
  <2>1. r * y \in Int /\ l * y \in Int
    OBVIOUS
  <2>2. QED
    BY <2>1, RemainderShift
<1>4. x * y = (r + l * n) * y
  BY <1>1, <1>2
<1>5. (r + l * n) * y = r * y + (l * y) * n
  <2>1. \A a, b, c \in Int : (a + b) * c = a * c + b * c
    OBVIOUS
  <2>2. l * n \in Int /\ (l * n) * y = (l * y) * n
    BY SMT
  <2>3. QED
    BY <2>1, <2>2
<1>6. QED
  BY <1>2, <1>3, <1>4, <1>5

\* Two numbers of one residue differ by a multiple.
LEMMA RemainderDifference ==
  ASSUME NEW n \in Nat \ {0}, NEW x \in Int, NEW y \in Int
  PROVE  x % n = y % n <=> (x - y) % n = 0
<1>1. PICK k \in Int : x = (x % n) + k * n
  BY Remainder
<1>2. PICK l \in Int : y = (y % n) + l * n
  BY Remainder
<1>3. PICK r \in 0 .. n - 1 : r = x % n
  BY Remainder
<1>4. PICK q \in 0 .. n - 1 : q = y % n
  BY Remainder
<1>5. x - y = (r - q) + (k - l) * n
  BY <1>1, <1>2, <1>3, <1>4, SMT
<1>6. (x - y) % n = (r - q) % n
  <2>1. r - q \in Int /\ k - l \in Int
    OBVIOUS
  <2>2. ((r - q) + (k - l) * n) % n = (r - q) % n
    BY <2>1, RemainderShift
  <2>3. QED
    BY <1>5, <2>2
<1>7. r - q \in -(n - 1) .. n - 1
  OBVIOUS
<1>8. (r - q) % n = 0 <=> r = q
  <2>1. CASE r >= q
    <3>1. r - q \in 0 .. n - 1 /\ r - q = (r - q) + 0 * n
      BY <2>1
    <3>2. (r - q) % n = r - q
      BY <3>1, RemainderIs
    <3>3. QED
      BY <3>2
  <2>2. CASE r < q
    <3>1. (r - q) + n \in 0 .. n - 1 /\ r - q = ((r - q) + n) + (-1) * n
      BY <2>2
    <3>2. (r - q) % n = (r - q) + n
      BY <3>1, RemainderIs
    <3>3. QED
      BY <2>2, <3>1, <3>2
  <2>3. QED
    BY <2>1, <2>2
<1>9. QED
  BY <1>3, <1>4, <1>6, <1>8

LEMMA RemainderAssociative ==
  ASSUME NEW n \in Nat \ {0}, NEW a \in Int, NEW b \in Int, NEW c \in Int
  PROVE  (((a * b) % n) * c) % n = (a * ((b * c) % n)) % n
<1>1. PICK u \in Int : u = a * b
  OBVIOUS
<1>2. PICK v \in Int : v = b * c
  OBVIOUS
<1>3. u * c = v * a
  BY <1>1, <1>2
<1>4. ((u % n) * c) % n = (u * c) % n
  BY RemainderProduct
<1>5. ((v % n) * a) % n = (v * a) % n
  BY RemainderProduct
<1>6. v % n \in Int /\ (v % n) * a = a * (v % n)
  BY Remainder
<1>7. QED
  BY <1>1, <1>2, <1>3, <1>4, <1>5, <1>6
=============================================================================
