------------------------- MODULE ThresholdSignProofs -------------------------
(* The signature share of ThresholdSign, for every modulus, number of callers *)
(* and of players: powers by repeated squaring, inverses of powers, and the  *)
(* invariant on what a caller and its goroutine have done so far.            *)
EXTENDS ThresholdSign, NumberLemmas

Residue == 0 .. N - 1

LEMMA Modulus == N \in Nat \ {0, 1} /\ m \in Int
<1>1. p \in Nat /\ q \in Nat /\ p > 3 /\ q > 3
  BY RsaAssumption
<1>2. p * q >= p /\ p * q \in Nat
  BY <1>1
<1>3. (p - 1) * (q - 1) \in Int
  BY <1>1
<1>4. QED
  BY <1>1, <1>2, <1>3 DEF N, m

-----------------------------------------------------------------------------
(* Powers *)

\* g gives the powers of x, one multiplication each.
Powers(g, x) == /\ g \in [Nat -> Residue] /\ g[0] = 1
                /\ \A n \in Nat : g[n + 1] = (g[n] * x) % N

LEMMA PowersExist == ASSUME NEW x \in Int PROVE \E g : Powers(g, x)
<1> DEFINE G == [z \in Nat \X Residue |-> (z[2] * x) % N]
<1>1. N \in Nat \ {0} /\ 1 \in Residue
  BY Modulus DEF Residue
<1>2. \A y \in Residue : (y * x) % N \in Residue
  <2>1. \A y \in Residue : y * x \in Int
    BY <1>1 DEF Residue
  <2>2. QED
    BY <1>1, <2>1, Remainder DEF Residue
<1>3. G \in [Nat \X Residue -> Residue]
  BY <1>2
<1>4. PICK g \in [Nat -> Residue] : IsRecursive(g, 1, G)
  <2> HIDE DEF G
  <2>1. QED
    BY <1>1, <1>3, Recursion
<1>5. g[0] = 1 /\ \A n \in Nat : g[n + 1] = (g[n] * x) % N
  BY <1>4 DEF IsRecursive
<1>6. QED
  BY <1>5 DEF Powers

\* Multiplying residues.
LEMMA TimesAssociative ==
  ASSUME NEW a \in Residue, NEW b \in Residue, NEW c \in Int
  PROVE  (((a * b) % N) * c) % N = (a * ((b * c) % N)) % N
<1>1. N \in Nat \ {0} /\ a \in Int /\ b \in Int
  BY Modulus DEF Residue
<1>2. QED
  BY <1>1, RemainderAssociative

\* The power of a sum is the product of the powers.
LEMMA PowersSum ==
  ASSUME NEW x \in Int, NEW g, Powers(g, x), NEW a \in Nat, NEW b \in Nat
  PROVE  g[a + b] = (g[a] * g[b]) % N
<1> DEFINE S == {k \in Nat : g[a + k] = (g[a] * g[k]) % N}
<1>1. N \in Nat \ {0, 1} /\ \A k \in Nat : g[k] \in Residue
  BY Modulus DEF Powers
<1>2. 0 \in S
  <2>1. g[a] \in Residue /\ g[0] = 1 /\ a + 0 = a
    BY <1>1 DEF Powers
  <2>2. (g[a] * 1) % N = g[a]
    <3>1. PICK r \in 0 .. N - 1 : r = g[a]
      BY <2>1 DEF Residue
    <3>2. (r + 0 * N) % N = r
      BY <1>1, RemainderIs
    <3>3. QED
      BY <1>1, <3>1, <3>2
  <2>3. QED
    BY <2>1, <2>2
<1>3. ASSUME NEW k \in Nat, k \in S PROVE k + 1 \in S
  <2>1. g[a + k] = (g[a] * g[k]) % N
    BY <1>3
  <2>2. a + (k + 1) = (a + k) + 1 /\ a + k \in Nat
    OBVIOUS
  <2>3. g[(a + k) + 1] = (g[a + k] * x) % N
    BY <2>2, Zenon DEF Powers
  <2>4. g[k + 1] = (g[k] * x) % N
    BY DEF Powers
  <2>5. (((g[a] * g[k]) % N) * x) % N = (g[a] * ((g[k] * x) % N)) % N
    BY <1>1, TimesAssociative
  <2>6. g[a + (k + 1)] = (g[a] * g[k + 1]) % N
    BY <2>1, <2>2, <2>3, <2>4, <2>5
  <2>7. QED
    BY <2>6
<1>4. b \in S
  <2> HIDE DEF S
  <2>1. QED
    BY <1>2, <1>3, Induction
<1>5. QED
  BY <1>4

\* Repeated squaring, one turn.
LEMMA PowersSquare ==
  ASSUME NEW x \in Int, NEW g, Powers(g, x), NEW k \in Nat, k # 0
  PROVE  /\ k \div 2 \in Nat /\ k \div 2 < k
         /\ g[k] = (Square[g[k \div 2]] * (IF k % 2 = 1 THEN x ELSE 1)) % N
<1>1. N \in Nat \ {0, 1} /\ \A i \in Nat : g[i] \in Residue
  BY Modulus DEF Powers
<1>2. PICK h \in Nat : h = k \div 2 /\ h < k
  OBVIOUS
<1>3. g[h + h] = (g[h] * g[h]) % N
  BY PowersSum
<1>4. Square[g[h]] = g[h + h]
  BY <1>1, <1>3 DEF Square, Residue
<1>5. CASE k % 2 = 1
  <2>1. k = (h + h) + 1 /\ h + h \in Nat
    BY <1>2, <1>5
  <2>2. g[(h + h) + 1] = (g[h + h] * x) % N
    BY <2>1, Zenon DEF Powers
  <2>3. QED
    BY <1>2, <1>4, <1>5, <2>1, <2>2
<1>6. CASE k % 2 # 1
  <2>1. k = h + h
    BY <1>2, <1>6
  <2>2. PICK r \in 0 .. N - 1 : r = g[k]
    BY <1>1 DEF Residue
  <2>3. (r + 0 * N) % N = r
    BY <1>1, RemainderIs
  <2>4. (g[k] * 1) % N = g[k]
    BY <1>1, <2>2, <2>3
  <2>5. QED
    BY <1>2, <1>4, <1>6, <2>1, <2>4
<1>7. QED
  BY <1>5, <1>6

\* Power computes the powers.
LEMMA PowerIs ==
  ASSUME NEW x \in Int, NEW g, Powers(g, x), NEW n \in Nat
  PROVE  Power(x, n) = g[n]
<1> DEFINE Body(f) == [k \in Nat |->
                         IF k = 0 THEN 1
                         ELSE (Square[f[k \div 2]] * (IF k % 2 = 1 THEN x ELSE 1)) % N]
           pow == CHOOSE f : f = Body(f)
<1>1. Power(x, n) = pow[n]
  BY DEF Power
<1>2. ASSUME NEW k \in Nat
      PROVE  g[k] = IF k = 0 THEN 1
                    ELSE (Square[g[k \div 2]] * (IF k % 2 = 1 THEN x ELSE 1)) % N
  BY PowersSquare DEF Powers
<1>3. g = Body(g)
  BY <1>2 DEF Powers
<1> HIDE DEF Body
<1>4. pow = Body(pow)
  BY <1>3
<1> HIDE DEF pow
<1>5. \A k \in Nat : pow[k] = IF k = 0 THEN 1
                              ELSE (Square[pow[k \div 2]] * (IF k % 2 = 1 THEN x ELSE 1)) % N
  BY <1>4 DEF Body
<1> DEFINE T == {k \in Nat : pow[k] # g[k]}
<1>6. T = {}
  <2> SUFFICES ASSUME T # {} PROVE FALSE
    OBVIOUS
  <2>1. T \subseteq Nat
    OBVIOUS
  <2>2. PICK k \in T : \A j \in T : k <= j
    <3> HIDE DEF T
    <3>1. QED
      BY <2>1, LeastNat
  <2>3. k \in Nat /\ pow[k] # g[k]
    OBVIOUS
  <2>4. k # 0
    BY <1>2, <1>5, <2>3
  <2>5. k \div 2 \in Nat /\ k \div 2 < k
    BY <2>3, <2>4
  <2>6. k \div 2 \notin T
    BY <2>2, <2>3, <2>5
  <2>7. pow[k \div 2] = g[k \div 2]
    BY <2>5, <2>6
  <2>8. pow[k] = g[k]
    BY <1>2, <1>5, <2>3, <2>4, <2>7
  <2>9. QED
    BY <2>3, <2>8
<1>7. QED
  BY <1>1, <1>6

LEMMA PowerFacts ==
  ASSUME NEW x \in Int, NEW a \in Nat, NEW b \in Nat
  PROVE  /\ Power(x, a) \in Residue /\ Power(x, 0) = 1
         /\ Power(x, a + 1) = (Power(x, a) * x) % N
         /\ Power(x, a + b) = (Power(x, a) * Power(x, b)) % N
<1>1. PICK g : Powers(g, x)
  BY PowersExist
<1>2. \A n \in Nat : Power(x, n) = g[n]
  BY <1>1, PowerIs
<1>3. a + 1 \in Nat /\ a + b \in Nat
  OBVIOUS
<1>4. g[a] \in Residue /\ g[0] = 1 /\ g[a + 1] = (g[a] * x) % N
  BY <1>1 DEF Powers
<1>5. g[a + b] = (g[a] * g[b]) % N
  BY <1>1, PowersSum
<1>6. Power(x, a) = g[a] /\ Power(x, 0) = g[0] /\ Power(x, b) = g[b]
  BY <1>2
<1>7. Power(x, a + 1) = g[a + 1] /\ Power(x, a + b) = g[a + b]
  BY <1>2, <1>3
<1>8. QED
  BY <1>4, <1>5, <1>6, <1>7

-----------------------------------------------------------------------------
(* Inverses *)

Inverts(x, y) == y \in Residue /\ (x * y) % N = 1

LEMMA Inverse ==
  ASSUME NEW x \in Int
  PROVE  /\ ModInverse(x, N) # nil => Inverts(x, ModInverse(x, N))
         /\ ModInverse(x, N) = nil => \A y : ~ Inverts(x, y)
<1>1. CASE \E y \in 0 .. N - 1 : (x * y) % N = 1
  <2>1. ModInverse(x, N) = CHOOSE y \in 0 .. N - 1 : (x * y) % N = 1
    BY <1>1 DEF ModInverse
  <2>2. Inverts(x, ModInverse(x, N))
    BY <1>1, <2>1 DEF Inverts, Residue
  <2>3. ModInverse(x, N) # nil
    BY <2>2, NilAssumption DEF Inverts, Residue
  <2>4. QED
    BY <2>2, <2>3
<1>2. CASE ~ \E y \in 0 .. N - 1 : (x * y) % N = 1
  <2>1. ModInverse(x, N) = nil /\ \A y : ~ Inverts(x, y)
    BY <1>2 DEF ModInverse, Inverts, Residue
  <2>2. QED
    BY <2>1
<1>3. QED
  BY <1>1, <1>2

LEMMA TimesOne == ASSUME NEW a \in Residue PROVE (a * 1) % N = a /\ (1 * a) % N = a
<1>1. N \in Nat \ {0}
  BY Modulus
<1>2. a \in 0 .. N - 1 /\ a * 1 = a /\ 1 * a = a /\ a + 0 * N = a
  BY <1>1 DEF Residue
<1>3. (a + 0 * N) % N = a
  BY <1>1, <1>2, RemainderIs
<1>4. QED
  BY <1>2, <1>3

LEMMA TimesResidue == ASSUME NEW a \in Int, NEW b \in Int PROVE (a * b) % N \in Residue
<1>1. PICK c \in Int : c = a * b
  OBVIOUS
<1>2. c % N \in Residue
  BY Modulus, Remainder DEF Residue
<1>3. QED
  BY <1>1, <1>2

\* The blinding is undone by the inverse of the blind.
LEMMA InverseCancels ==
  ASSUME NEW x \in Int, NEW n \in Nat, NEW r \in Nat, NEW y, Inverts(Power(x, r), y)
  PROVE  (Power(x, n + r) * y) % N = Power(x, n)
<1>1. Power(x, n) \in Residue /\ Power(x, r) \in Residue
  BY PowerFacts
<1>2. Power(x, n + r) = (Power(x, n) * Power(x, r)) % N
  BY PowerFacts
<1>3. y \in Int /\ (Power(x, r) * y) % N = 1
  BY DEF Inverts, Residue
<1> DEFINE a == Power(x, n)
           b == Power(x, r)
<1>4. (((a * b) % N) * y) % N = (a * ((b * y) % N)) % N
  <2> HIDE DEF a, b
  <2>1. a \in Residue /\ b \in Residue
    BY <1>1 DEF a, b
  <2>2. QED
    BY <1>3, <2>1, TimesAssociative
<1>5. (a * 1) % N = a
  BY <1>1, TimesOne
<1>6. QED
  BY <1>2, <1>3, <1>4, <1>5

\* The powers of a unit are units.
LEMMA PowerInvertible ==
  ASSUME NEW x \in Residue, NEW y, Inverts(x, y), NEW r \in Nat
  PROVE  \E z : Inverts(Power(x, r), z)
<1> DEFINE S == {k \in Nat : \E z : Inverts(Power(x, k), z)}
<1>1. x \in Int /\ y \in Residue /\ y \in Int
  BY Modulus DEF Residue, Inverts
<1>2. 0 \in S
  <2>1. Power(x, 0) = 1
    BY <1>1, PowerFacts
  <2>2. 1 \in Residue
    BY Modulus DEF Residue
  <2>3. Inverts(Power(x, 0), 1)
    BY <2>1, <2>2, TimesOne DEF Inverts
  <2>4. QED
    BY <2>3
<1>3. ASSUME NEW k \in Nat, k \in S PROVE k + 1 \in S
  <2>1. PICK z : Inverts(Power(x, k), z)
    BY <1>3
  <2>2. PICK a \in Residue : a = Power(x, k)
    BY <1>1, PowerFacts
  <2>3. z \in Residue /\ z \in Int /\ (a * z) % N = 1
    BY <2>1, <2>2, Modulus DEF Inverts, Residue
  <2>4. PICK w \in Residue : w = (y * z) % N
    BY <1>1, <2>3, TimesResidue
  <2>5. w \in Int
    BY Modulus DEF Residue
  <2>6. (((a * x) % N) * w) % N = (a * ((x * w) % N)) % N
    BY <2>5, TimesAssociative
  <2>7. (((x * y) % N) * z) % N = (x * ((y * z) % N)) % N
    BY <1>1, <2>3, TimesAssociative
  <2>8. (x * w) % N = z
    BY <2>3, <2>4, <2>7, TimesOne DEF Inverts
  <2>9. Power(x, k + 1) = (a * x) % N
    BY <1>1, <2>2, PowerFacts
  <2>10. Inverts(Power(x, k + 1), w)
    BY <2>3, <2>6, <2>8, <2>9 DEF Inverts
  <2>11. QED
    BY <2>10
<1>4. r \in S
  <2> HIDE DEF S
  <2>1. QED
    BY <1>2, <1>3, Induction
<1>5. QED
  BY <1>4

\* When a power has no inverse, its base has none.
LEMMA NoInverse ==
  ASSUME NEW x \in Residue, NEW r \in Nat, ModInverse(Power(x, r), N) = nil
  PROVE  ModInverse(x, N) = nil
<1>1. x \in Int
  BY Modulus DEF Residue
<1>2. Power(x, r) \in Int
  BY <1>1, PowerFacts, Modulus DEF Residue
<1>3. \A z : ~ Inverts(Power(x, r), z)
  BY <1>2, Inverse
<1>4. \A y : ~ Inverts(x, y)
  BY <1>3, PowerInvertible
<1>5. QED
  BY <1>1, <1>4, Inverse

-----------------------------------------------------------------------------
(* The exponent *)

LEMMA DeltaNat == ASSUME NEW l \in Nat PROVE calculateDelta(l) \in Nat
<1> DEFINE Body(f) == [k \in 0 .. l |-> IF k = 0 THEN 1 ELSE k * f[k - 1]]
           product == CHOOSE f : f = Body(f)
           G == [z \in Nat \X Nat |-> (z[1] + 1) * z[2]]
<1>1. calculateDelta(l) = product[l]
  BY DEF calculateDelta
<1>2. G \in [Nat \X Nat -> Nat]
  OBVIOUS
<1>3. PICK f \in [0 .. l -> Nat] : Follows(f, 1, G, l)
  <2> HIDE DEF G
  <2>1. QED
    BY <1>2, RecursionUpTo
<1>4. ASSUME NEW k \in 0 .. l PROVE f[k] = IF k = 0 THEN 1 ELSE k * f[k - 1]
  <2>1. CASE k = 0
    BY <1>3, <2>1 DEF Follows
  <2>2. CASE k # 0
    <3>1. k - 1 \in 0 .. l - 1 /\ (k - 1) + 1 = k /\ k - 1 \in Nat
      BY <2>2
    <3>2. f[(k - 1) + 1] = G[<<k - 1, f[k - 1]>>]
      BY <1>3, <3>1 DEF Follows
    <3>3. f[k - 1] \in Nat
      BY <3>1
    <3>4. G[<<k - 1, f[k - 1]>>] = ((k - 1) + 1) * f[k - 1]
      BY <3>1, <3>3
    <3>5. QED
      BY <2>2, <3>1, <3>2, <3>4
  <2>3. QED
    BY <2>1, <2>2
<1>5. f = Body(f)
  BY <1>4
<1> HIDE DEF Body
<1>6. product = Body(product)
  BY <1>5
<1> HIDE DEF product
<1>7. \A k \in 0 .. l : product[k] = IF k = 0 THEN 1 ELSE k * product[k - 1]
  BY <1>6 DEF Body
<1> DEFINE S == {k \in Nat : k <= l => product[k] \in Nat}
<1>8. 0 \in S
  BY <1>7
<1>9. ASSUME NEW k \in Nat, k \in S PROVE k + 1 \in S
  <2> SUFFICES ASSUME k + 1 <= l PROVE product[k + 1] \in Nat
    OBVIOUS
  <2>1. k + 1 \in 0 .. l /\ k + 1 # 0 /\ (k + 1) - 1 = k
    OBVIOUS
  <2>2. product[k + 1] = (k + 1) * product[k]
    BY <1>7, <2>1
  <2>3. product[k] \in Nat
    BY <1>9
  <2>4. QED
    BY <2>2, <2>3
<1>10. l \in S
  <2> HIDE DEF S
  <2>1. QED
    BY <1>8, <1>9, Induction
<1>11. QED
  BY <1>1, <1>10

\* The exponent of the shares of i.
Exponent(i) == 2 * calculateDelta(players) * si[i]

LEMMA ExponentNat == ASSUME NEW i \in DOMAIN si PROVE Exponent(i) \in Nat
<1>1. calculateDelta(players) \in Nat
  BY DeltaNat, SignAssumption
<1>2. si[i] \in Nat
  BY SignAssumption, Modulus
<1>3. QED
  BY <1>1, <1>2 DEF Exponent

-----------------------------------------------------------------------------
(* The invariant *)

CallRecord ==
  [pc : {"idle", "invert", "join", "returned", "failed"},
   i : DOMAIN si \cup {nil}, x : Digest \cup {nil}, r : Rand \cup {nil},
   expPlusr : Nat \cup {nil}, wg : {0, 1}, worker : {"none", "raise", "done"},
   xi : Residue \cup {nil}, inverse : Residue \cup {nil}]

\* The blinded power is there, or a goroutine is about to compute it and the
\* caller would wait for it.
Blinding(k) ==
  /\ k.i \in DOMAIN si /\ k.x \in Digest /\ k.r \in Rand
  /\ k.expPlusr = Exponent(k.i) + k.r
  /\ \/ k.worker = "raise" /\ k.wg = 1
     \/ k.worker = "done" /\ k.wg = 1 /\ k.xi = Power(k.x, k.expPlusr)
     \/ k.worker = "none" /\ k.wg = 0 /\ k.xi = Power(k.x, k.expPlusr)

CallRight(k) ==
  /\ k.pc \in {"invert", "join"} \/ k.worker # "none" => Blinding(k)
  /\ k.pc = "join" => Inverts(Power(k.x, k.r), k.inverse)
  /\ k.pc \in {"idle", "returned"} => k.worker = "none"
  /\ k.pc = "returned" => k.xi = Power(k.x, Exponent(k.i))
  /\ k.pc = "failed" => k.x = nil \/ ModInverse(k.x, N) = nil

Calls == call \in [Call -> CallRecord] /\ \A c \in Call : CallRight(call[c])

\* What a KeyShare has cached is its exponent.
Caches == /\ twoDeltaSi \in [DOMAIN si -> Nat \cup {nil}]
          /\ \A i \in DOMAIN si : twoDeltaSi[i] \in {nil, Exponent(i)}

SignInvariant == Calls /\ Caches

LEMMA Replaced ==
  ASSUME Calls, NEW c \in Call, NEW k \in CallRecord, CallRight(k),
         call' = [call EXCEPT ![c] = k]
  PROVE  Calls'
<1>1. call' \in [Call -> CallRecord]
  BY DEF Calls
<1>2. ASSUME NEW b \in Call PROVE CallRight(call'[b])
  <2>1. CASE b = c
    <3>1. call'[b] = k
      BY <2>1 DEF Calls
    <3>2. QED
      BY <3>1
  <2>2. CASE b # c
    <3>1. call'[b] = call[b]
      BY <2>2 DEF Calls
    <3>2. QED
      BY <3>1 DEF Calls
  <2>3. QED
    BY <2>1, <2>2
<1>3. QED
  BY <1>1, <1>2 DEF Calls

LEMMA Cached ==
  ASSUME Caches, NEW i \in DOMAIN si
  PROVE  /\ get2DeltaSi(i) = Exponent(i)
         /\ twoDeltaSi' = [twoDeltaSi EXCEPT ![i] = get2DeltaSi(i)] => Caches'
<1>1. get2DeltaSi(i) = Exponent(i)
  BY DEF get2DeltaSi, Caches, Exponent
<1>2. ASSUME twoDeltaSi' = [twoDeltaSi EXCEPT ![i] = Exponent(i)] PROVE Caches'
  <2>1. Exponent(i) \in Nat
    BY ExponentNat
  <2>2. QED
    BY <1>2, <2>1 DEF Caches
<1>3. QED
  BY <1>1, <1>2

LEMMA Numbers ==
  /\ Digest \subseteq Int /\ Digest \subseteq Residue /\ Rand \subseteq Nat
  /\ 0 \in Residue
  BY SignAssumption, Modulus DEF Residue

LEMMA SignStep == ASSUME SignInvariant, Next PROVE SignInvariant'
<1>1. PICK c \in Call :
        \/ \E i \in DOMAIN si, x \in Digest : SignPlain(c, i, x)
        \/ \E i \in DOMAIN si : SignNoRandom(c, i)
        \/ \E i \in DOMAIN si, x \in Digest, r \in Rand, parallel \in BOOLEAN :
             SignBlind(c, i, x, r, parallel)
        \/ Raise(c) \/ Done(c) \/ Invert(c) \/ Join(c)
  BY DEF Next
<1>2. Calls /\ Caches /\ call[c] \in CallRecord /\ CallRight(call[c])
  BY DEF SignInvariant, Calls
<1>3. CASE \E i \in DOMAIN si, x \in Digest : SignPlain(c, i, x)
  <2>1. PICK i \in DOMAIN si, x \in Digest : SignPlain(c, i, x)
    BY <1>3
  <2>2. get2DeltaSi(i) = Exponent(i) /\ Caches'
    BY <1>2, <2>1, Cached DEF SignPlain
  <2> DEFINE k == [Idle EXCEPT !.pc = "returned", !.i = i, !.x = x,
                               !.xi = Power(x, Exponent(i))]
  <2>3. call' = [call EXCEPT ![c] = k]
    BY <2>1, <2>2 DEF SignPlain
  <2>4. Power(x, Exponent(i)) \in Residue
    BY ExponentNat, Numbers, PowerFacts
  <2>5. k \in CallRecord
    BY <2>4 DEF Idle, CallRecord
  <2>6. CallRight(k)
    BY DEF Idle, CallRight
  <2> HIDE DEF k
  <2>7. QED
    BY <1>2, <2>2, <2>3, <2>5, <2>6, Replaced DEF SignInvariant
<1>4. CASE \E i \in DOMAIN si : SignNoRandom(c, i)
  <2>1. PICK i \in DOMAIN si : SignNoRandom(c, i)
    BY <1>4
  <2>2. Caches'
    BY <1>2, <2>1, Cached DEF SignNoRandom
  <2> DEFINE k == [Idle EXCEPT !.pc = "failed"]
  <2>3. call' = [call EXCEPT ![c] = k]
    BY <2>1 DEF SignNoRandom
  <2>4. k \in CallRecord
    BY DEF Idle, CallRecord
  <2>5. CallRight(k)
    BY DEF Idle, CallRight
  <2> HIDE DEF k
  <2>6. QED
    BY <1>2, <2>2, <2>3, <2>4, <2>5, Replaced DEF SignInvariant
<1>5. CASE \E i \in DOMAIN si, x \in Digest, r \in Rand, parallel \in BOOLEAN :
             SignBlind(c, i, x, r, parallel)
  <2>1. PICK i \in DOMAIN si, x \in Digest, r \in Rand, parallel \in BOOLEAN :
          SignBlind(c, i, x, r, parallel)
    BY <1>5
  <2>2. get2DeltaSi(i) = Exponent(i) /\ Caches'
    BY <1>2, <2>1, Cached DEF SignBlind
  <2> DEFINE power == Power(x, Exponent(i) + r)
             k == [Idle EXCEPT !.pc = "invert", !.i = i, !.x = x, !.r = r,
                               !.expPlusr = Exponent(i) + r,
                               !.wg = IF parallel THEN 1 ELSE 0,
                               !.worker = IF parallel THEN "raise" ELSE "none",
                               !.xi = IF parallel THEN 0 ELSE power]
  <2>3. call' = [call EXCEPT ![c] = k]
    BY <2>1, <2>2 DEF SignBlind
  <2>4. Exponent(i) + r \in Nat
    BY ExponentNat, Numbers
  <2>5. power \in Residue /\ 0 \in Residue
    BY <2>4, Numbers, PowerFacts
  <2>6. k \in CallRecord
    <3> HIDE DEF power
    <3>1. QED
      BY <2>4, <2>5 DEF Idle, CallRecord
  <2>7. k.pc = "invert" /\ k.i = i /\ k.x = x /\ k.r = r /\ k.expPlusr = Exponent(i) + r
    BY DEF Idle
  <2>8. \/ k.worker = "raise" /\ k.wg = 1
        \/ k.worker = "none" /\ k.wg = 0 /\ k.xi = power
    <3> HIDE DEF power
    <3>1. QED
      BY DEF Idle
  <2> HIDE DEF k
  <2>9. CallRight(k)
    BY <2>7, <2>8 DEF CallRight, Blinding
  <2>10. QED
    BY <1>2, <2>2, <2>3, <2>6, <2>9, Replaced DEF SignInvariant
<1>6. ASSUME Raise(c) \/ Done(c) \/ Invert(c) \/ Join(c)
      PROVE  Caches'
  BY <1>2, <1>6 DEF Raise, Done, Invert, Join, Caches
<1>7. CASE Raise(c)
  <2> DEFINE power == Power(call[c].x, call[c].expPlusr)
             k == [call[c] EXCEPT !.xi = power, !.worker = "done"]
  <2>1. call[c].worker = "raise" /\ call' = [call EXCEPT ![c] = k]
    BY <1>2, <1>7 DEF Raise, Calls
  <2>2. Blinding(call[c])
    BY <1>2, <2>1 DEF CallRight
  <2>3. call[c].expPlusr \in Nat /\ call[c].x \in Int
    <3>1. PICK n \in Nat : n = Exponent(call[c].i)
      BY <2>2, ExponentNat DEF Blinding
    <3>2. call[c].expPlusr = n + call[c].r /\ call[c].r \in Nat /\ call[c].x \in Int
      BY <2>2, <3>1, Numbers DEF Blinding
    <3>3. QED
      BY <3>2
  <2>4. power \in Residue
    BY <2>3, PowerFacts
  <2>5. k \in CallRecord
    <3> HIDE DEF power
    <3>1. QED
      BY <1>2, <2>4 DEF CallRecord
  <2>6. /\ k.pc = call[c].pc /\ k.i = call[c].i /\ k.x = call[c].x /\ k.r = call[c].r
        /\ k.expPlusr = call[c].expPlusr /\ k.wg = call[c].wg /\ k.inverse = call[c].inverse
        /\ k.worker = "done" /\ k.xi = Power(k.x, k.expPlusr)
    BY <1>2 DEF CallRecord
  <2> HIDE DEF k
  <2>7. Blinding(k)
    BY <2>1, <2>2, <2>6 DEF Blinding
  <2>8. CallRight(k)
    BY <1>2, <2>1, <2>6, <2>7 DEF CallRight
  <2>9. QED
    BY <1>2, <1>6, <1>7, <2>1, <2>5, <2>8, Replaced DEF SignInvariant
<1>8. CASE Done(c)
  <2> DEFINE k == [call[c] EXCEPT !.wg = 0, !.worker = "none"]
  <2>1. call[c].worker = "done"
    BY <1>8 DEF Done
  <2>2. Blinding(call[c])
    BY <1>2, <2>1 DEF CallRight
  <2>3. /\ call[c].wg = 1 /\ call[c].xi = Power(call[c].x, call[c].expPlusr)
        /\ call' = [call EXCEPT ![c] = k]
    <3>1. call[c].wg = 1 /\ call[c].xi = Power(call[c].x, call[c].expPlusr)
      BY <2>1, <2>2 DEF Blinding
    <3>2. call' = [call EXCEPT ![c] = [call[c] EXCEPT !.wg = call[c].wg - 1, !.worker = "none"]]
      BY <1>2, <1>8 DEF Done, Calls
    <3>3. call[c].wg - 1 = 0
      BY <3>1
    <3>4. QED
      BY <3>1, <3>2, <3>3
  <2>4. k \in CallRecord
    BY <1>2 DEF CallRecord
  <2>5. /\ k.pc = call[c].pc /\ k.i = call[c].i /\ k.x = call[c].x /\ k.r = call[c].r
        /\ k.expPlusr = call[c].expPlusr /\ k.wg = 0 /\ k.inverse = call[c].inverse
        /\ k.worker = "none" /\ k.xi = Power(k.x, k.expPlusr)
    BY <1>2, <2>3 DEF CallRecord
  <2> HIDE DEF k
  <2>6. Blinding(k)
    BY <2>2, <2>5 DEF Blinding
  <2>7. CallRight(k)
    BY <1>2, <2>1, <2>5, <2>6 DEF CallRight
  <2>8. QED
    BY <1>2, <1>6, <1>8, <2>3, <2>4, <2>7, Replaced DEF SignInvariant
<1>9. CASE Invert(c)
  <2> DEFINE inverse == ModInverse(Power(call[c].x, call[c].r), N)
             next == IF inverse = nil THEN "failed" ELSE "join"
             k == [call[c] EXCEPT !.pc = next, !.inverse = inverse]
  <2>1. call[c].pc = "invert" /\ call' = [call EXCEPT ![c] = k]
    BY <1>2, <1>9 DEF Invert, Calls
  <2>2. Blinding(call[c])
    BY <1>2, <2>1 DEF CallRight
  <2>3. call[c].x \in Residue /\ call[c].x \in Int /\ call[c].r \in Nat
    BY <2>2, Numbers DEF Blinding
  <2>4. Power(call[c].x, call[c].r) \in Int
    <3>1. Power(call[c].x, call[c].r) \in Residue
      BY <2>3, PowerFacts
    <3>2. QED
      BY <3>1, Modulus DEF Residue
  <2>5. /\ inverse # nil => Inverts(Power(call[c].x, call[c].r), inverse)
        /\ inverse = nil => ModInverse(call[c].x, N) = nil
    BY <2>3, <2>4, Inverse, NoInverse
  <2>6. k \in CallRecord
    <3>1. inverse \in Residue \cup {nil}
      BY <2>5 DEF Inverts
    <3>2. next \in {"failed", "join"}
      OBVIOUS
    <3> HIDE DEF inverse, next
    <3>3. QED
      BY <1>2, <3>1, <3>2 DEF CallRecord
  <2>7. /\ k.pc = next /\ k.inverse = inverse
        /\ k.i = call[c].i /\ k.x = call[c].x /\ k.r = call[c].r
        /\ k.expPlusr = call[c].expPlusr /\ k.wg = call[c].wg
        /\ k.worker = call[c].worker /\ k.xi = call[c].xi
    <3> HIDE DEF inverse, next
    <3>1. QED
      BY <1>2 DEF CallRecord
  <2> HIDE DEF k, inverse
  <2>8. Blinding(k)
    BY <2>2, <2>7 DEF Blinding
  <2>9. CallRight(k)
    BY <2>5, <2>7, <2>8 DEF CallRight
  <2>10. QED
    BY <1>2, <1>6, <1>9, <2>1, <2>6, <2>9, Replaced DEF SignInvariant
<1>10. CASE Join(c)
  <2> DEFINE product == (call[c].xi * call[c].inverse) % N
             k == [call[c] EXCEPT !.pc = "returned", !.xi = product]
  <2>1. call[c].pc = "join" /\ call[c].wg = 0 /\ call' = [call EXCEPT ![c] = k]
    BY <1>2, <1>10 DEF Join, Calls
  <2>2. Blinding(call[c]) /\ Inverts(Power(call[c].x, call[c].r), call[c].inverse)
    BY <1>2, <2>1 DEF CallRight
  <2>3. /\ call[c].worker = "none" /\ call[c].xi = Power(call[c].x, call[c].expPlusr)
        /\ call[c].expPlusr = Exponent(call[c].i) + call[c].r
        /\ call[c].i \in DOMAIN si /\ call[c].x \in Int /\ call[c].r \in Nat
    BY <2>1, <2>2, Numbers DEF Blinding
  <2>4. Exponent(call[c].i) \in Nat
    BY <2>3, ExponentNat
  <2>5. (Power(call[c].x, Exponent(call[c].i) + call[c].r) * call[c].inverse) % N
          = Power(call[c].x, Exponent(call[c].i))
    BY <2>2, <2>3, <2>4, InverseCancels
  <2>6. product = Power(call[c].x, Exponent(call[c].i))
    BY <2>3, <2>5
  <2>7. product \in Residue
    BY <2>3, <2>4, <2>6, PowerFacts
  <2> HIDE DEF product
  <2>8. k \in CallRecord
    BY <1>2, <2>7 DEF CallRecord
  <2>9. /\ k.pc = "returned" /\ k.worker = "none" /\ k.xi = product
        /\ k.i = call[c].i /\ k.x = call[c].x
    BY <1>2, <2>3 DEF CallRecord
  <2> HIDE DEF k
  <2>10. CallRight(k)
    BY <2>6, <2>9 DEF CallRight
  <2>11. QED
    BY <1>2, <1>6, <1>10, <2>1, <2>8, <2>10, Replaced DEF SignInvariant
<1>11. QED
  BY <1>1, <1>3, <1>4, <1>5, <1>7, <1>8, <1>9, <1>10

LEMMA SignStart == ASSUME Init PROVE SignInvariant
<1>1. Idle \in CallRecord /\ CallRight(Idle)
  BY DEF Idle, CallRecord, CallRight
<1>2. Calls
  BY <1>1 DEF Init, Calls
<1>3. Caches
  BY DEF Init, Caches
<1>4. QED
  BY <1>2, <1>3 DEF SignInvariant

(* A signature share is the digest to the exponent of its KeyShare, whether  *)
(* Sign blinded it or not, whether the power was computed by a goroutine or  *)
(* not and whichever finished first; and Sign gives one unless the random    *)
(* source fails or the digest has no inverse.                                *)
THEOREM SharesRight == Spec => []ShareCorrect
<1>1. Init => SignInvariant
  BY SignStart
<1>2. SignInvariant /\ [Next]_vars => SignInvariant'
  <2> SUFFICES ASSUME SignInvariant, [Next]_vars PROVE SignInvariant'
    OBVIOUS
  <2>1. CASE Next
    BY <2>1, SignStep
  <2>2. CASE UNCHANGED vars
    <3>1. call' = call /\ twoDeltaSi' = twoDeltaSi
      BY <2>2 DEF vars
    <3>2. Calls' /\ Caches'
      BY <3>1, Zenon DEF SignInvariant, Calls, Caches
    <3>3. QED
      BY <3>2 DEF SignInvariant
  <2>3. QED
    BY <2>1, <2>2
<1>3. SignInvariant => ShareCorrect
  <2> SUFFICES ASSUME SignInvariant, NEW c \in Call
               PROVE  /\ call[c].pc = "returned"
                           => call[c].xi = Power(call[c].x,
                                 2 * calculateDelta(players) * si[call[c].i])
                      /\ call[c].pc = "failed"
                           => call[c].x = nil \/ ModInverse(call[c].x, N) = nil
    BY Zenon DEF ShareCorrect
  <2>1. CallRight(call[c])
    BY DEF SignInvariant, Calls
  <2>2. QED
    BY <2>1 DEF CallRight, Exponent
<1>4. QED
  BY <1>1, <1>2, <1>3, PTL DEF Spec
=============================================================================
