----------------------------- MODULE K12Proofs -----------------------------
(***************************************************************************)
(* KangarooTwelve, for every chunk size, number of lanes, context and      *)
(* message, however it is cut: the digest is the tree hash of what was     *)
(* written, no write panics before output begins, and a State and its      *)
(* clone have nothing in common.                                           *)
(*                                                                         *)
(* The argument: until output begins a State has absorbed the message      *)
(* written so far, which says where each byte of it is: in the stalk, in   *)
(* the hashes that the stalk absorbed, or in the buffer or the leaf.  Each *)
(* part of a write keeps that, for a longer message.                       *)
(***************************************************************************)
EXTENDS K12, SequenceTheorems, NumberLemmas

-----------------------------------------------------------------------------
(* Numbers *)

LEMMA Constants ==
  ASSUME K12Assumption
  PROVE  chunkSize \in Nat /\ chunkSize >= 1 /\ Radix \in Nat /\ Radix >= 2
BY DEF K12Assumption

LEMMA PowRecursion ==
  ASSUME K12Assumption
  PROVE  /\ pow \in [Nat -> Nat] /\ pow[0] = 1
         /\ \A n \in Nat : pow[n + 1] = Radix * pow[n]
<1> DEFINE G == [x \in Nat \X Nat |-> Radix * x[2]]
           Body(f) == [n \in Nat |-> IF n = 0 THEN 1 ELSE Radix * f[n - 1]]
<1>1. G \in [Nat \X Nat -> Nat]
  BY Constants
<1>2. PICK f \in [Nat -> Nat] : IsRecursive(f, 1, G)
  <2> HIDE DEF G
  <2>1. QED
    BY <1>1, Recursion
<1>3. f[0] = 1 /\ \A k \in Nat : f[k + 1] = Radix * f[k]
  BY <1>2 DEF IsRecursive
<1>4. ASSUME NEW n \in Nat PROVE f[n] = (IF n = 0 THEN 1 ELSE Radix * f[n - 1])
  <2>1. CASE n = 0
    BY <1>3, <2>1
  <2>2. CASE n # 0
    <3>1. n - 1 \in Nat /\ (n - 1) + 1 = n
      BY <2>2
    <3>2. QED
      BY <1>3, <2>2, <3>1
  <2>3. QED
    BY <2>1, <2>2
<1>5. f = Body(f)
  BY <1>4
<1>6. pow = CHOOSE g : g = Body(g)
  BY DEF pow
<1>7. pow = Body(pow)
  <2> HIDE DEF Body
  <2>1. QED
    BY <1>5, <1>6
<1>8. \A n \in Nat : pow[n] = IF n = 0 THEN 1 ELSE Radix * pow[n - 1]
  <2>1. \A n \in Nat : pow[n] = Body(pow)[n]
    BY <1>7, Zenon
  <2>2. QED
    BY <2>1
<1>9. pow[0] = 1 /\ \A n \in Nat : pow[n + 1] = Radix * pow[n]
  <2>1. \A n \in Nat : n + 1 \in Nat /\ n + 1 # 0 /\ (n + 1) - 1 = n
    OBVIOUS
  <2>2. QED
    BY <1>8, <2>1
<1>10. pow \in [Nat -> Nat]
  <2> DEFINE S == {n \in Nat : pow[n] \in Nat}
  <2>1. 0 \in S
    BY <1>9
  <2>2. ASSUME NEW n \in Nat, n \in S PROVE n + 1 \in S
    BY <1>9, <2>2, Constants
  <2> HIDE DEF S
  <2>3. Nat \subseteq S
    BY <2>1, <2>2, Induction
  <2>4. \A n \in Nat : pow[n] \in Nat
    BY <2>3 DEF S
  <2>5. pow = [n \in Nat |-> pow[n]]
    BY <1>7
  <2>6. QED
    BY <2>4, <2>5
<1>11. QED
  BY <1>9, <1>10

LEMMA PowGreater ==
  ASSUME K12Assumption, NEW n \in Nat
  PROVE  pow[n] \in Nat /\ pow[n] > n
<1> DEFINE S == {k \in Nat : pow[k] > k}
<1>1. 0 \in S
  BY PowRecursion
<1>2. ASSUME NEW k \in Nat, k \in S PROVE k + 1 \in S
  <2>1. pow[k + 1] = Radix * pow[k] /\ pow[k] \in Nat
    BY PowRecursion
  <2>2. Radix * pow[k] >= 2 * pow[k]
    BY <2>1, Constants
  <2>3. QED
    BY <1>2, <2>1, <2>2, Constants
<1> HIDE DEF S
<1>3. n \in S
  BY <1>1, <1>2, Induction
<1>4. QED
  BY <1>3, PowRecursion DEF S

LEMMA LengthEncoded ==
  ASSUME K12Assumption, NEW n \in Nat
  PROVE  length_encode(n) \in Seq(Byte)
<1> DEFINE Digits(j) == n < pow[j] /\ \A i \in 0 .. j - 1 : n >= pow[i]
           k == CHOOSE j \in 0 .. n : Digits(j)
           T == {j \in 0 .. n : n < pow[j]}
           digits == [i \in 1 .. k |-> <<"digit", (n \div pow[k - i]) % Radix>>]
<1>1. T \subseteq Nat /\ n \in T
  BY PowGreater
<1>2. PICK x \in T : \A y \in T : x <= y
  BY <1>1, LeastNat
<1>3. x \in 0 .. n /\ Digits(x)
  <2>1. \A i \in 0 .. x - 1 : i \in 0 .. n /\ ~(x <= i) /\ i \in Nat
    OBVIOUS
  <2>2. \A i \in 0 .. x - 1 : ~(n < pow[i])
    BY <1>2, <2>1
  <2>3. QED
    BY <2>1, <2>2, PowGreater
<1>4. k \in 0 .. n
  <2> HIDE DEF Digits
  <2>1. QED
    BY <1>3
<1> HIDE DEF k
<1>5. \A i \in 1 .. k : <<"digit", (n \div pow[k - i]) % Radix>> \in Byte
  <2> TAKE i \in 1 .. k
  <2>1. k - i \in Nat
    BY <1>4
  <2>2. pow[k - i] \in Nat /\ pow[k - i] > 0
    BY <2>1, PowGreater
  <2>3. (n \div pow[k - i]) \in Int
    BY <2>2
  <2>4. (n \div pow[k - i]) % Radix \in Int
    BY <2>3, Constants
  <2>5. QED
    BY <2>4 DEF Byte
<1>6. digits \in Seq(Byte)
  <2>1. k \in Nat
    BY <1>4
  <2>2. digits \in [1 .. k -> Byte]
    <3> DEFINE d(i) == <<"digit", (n \div pow[k - i]) % Radix>>
    <3>1. \A i \in 1 .. k : d(i) \in Byte
      BY <1>5
    <3>2. digits = [i \in 1 .. k |-> d(i)]
      OBVIOUS
    <3> HIDE DEF d, digits
    <3>3. QED
      BY <3>1, <3>2
  <2> HIDE DEF digits
  <2>3. QED
    BY <2>1, <2>2
<1>7. <<<<"digits", k>>>> \in Seq(Byte)
  <2>1. <<"digits", k>> \in Byte
    BY <1>4 DEF Byte
  <2>2. QED
    BY <2>1
<1>8. length_encode(n) = digits \o <<<<"digits", k>>>>
  BY DEF length_encode, k
<1> HIDE DEF digits
<1>9. QED
  BY <1>6, <1>7, <1>8, ConcatProperties

-----------------------------------------------------------------------------
(* Parts of sequences *)

\* The elements of s from place a to place b.
LEMMA Part ==
  ASSUME NEW S, NEW s1 \in Seq(S), NEW a \in Nat, NEW b \in Nat, 1 <= a, b <= Len(s1)
  PROVE  /\ SubSeq(s1, a, b) \in Seq(S)
         /\ a <= b => Len(SubSeq(s1, a, b)) = b - a + 1
         /\ b < a => Len(SubSeq(s1, a, b)) = 0
         /\ \A i \in 1 .. b - a + 1 : SubSeq(s1, a, b)[i] = s1[a + i - 1]
<1>1. \A i \in a .. b : s1[i] \in S
  <2> TAKE i \in a .. b
  <2>1. i \in 1 .. Len(s1)
    OBVIOUS
  <2>2. QED
    BY <2>1, ElementOfSeq
<1>2. a \in Int /\ b \in Int
  OBVIOUS
<1>3. /\ SubSeq(s1, a, b) \in Seq(S)
      /\ Len(SubSeq(s1, a, b)) = IF a <= b THEN b - a + 1 ELSE 0
      /\ \A i \in 1 .. b - a + 1 : SubSeq(s1, a, b)[i] = s1[a + i - 1]
  BY <1>1, <1>2, SubSeqProperties
<1>4. QED
  BY <1>3

\* A part of a sequence is not changed by what follows.
LEMMA PartKept ==
  ASSUME NEW S, NEW s1 \in Seq(S), NEW s2 \in Seq(S),
         NEW a \in Nat, NEW b \in Nat, 1 <= a, b <= Len(s1)
  PROVE  SubSeq(s1 \o s2, a, b) = SubSeq(s1, a, b)
<1>1. s1 \o s2 \in Seq(S) /\ Len(s1 \o s2) = Len(s1) + Len(s2) /\ Len(s1) \in Nat /\ Len(s2) \in Nat
  BY ConcatProperties, LenProperties
<1>2. b <= Len(s1 \o s2)
  BY <1>1
<1> DEFINE x == SubSeq(s1 \o s2, a, b)
           y == SubSeq(s1, a, b)
<1>3. x \in Seq(S) /\ y \in Seq(S) /\ Len(x) = Len(y) /\ Len(x) = IF a <= b THEN b - a + 1 ELSE 0
  BY <1>1, <1>2, Part
<1>4. ASSUME NEW i \in 1 .. Len(x) PROVE x[i] = y[i]
  <2>1. i \in 1 .. b - a + 1 /\ a + i - 1 \in 1 .. Len(s1)
    BY <1>3
  <2>2. x[i] = (s1 \o s2)[a + i - 1] /\ y[i] = s1[a + i - 1]
    BY <1>1, <1>2, <2>1, Part
  <2>3. (s1 \o s2)[a + i - 1] = s1[a + i - 1]
    BY <1>1, <2>1, ConcatProperties
  <2>4. QED
    BY <2>2, <2>3
<1> HIDE DEF x, y
<1>5. x = y
  BY <1>3, <1>4, SeqEqual
<1>6. QED
  BY <1>5 DEF x, y

\* A part that begins in one sequence and ends in the next.
LEMMA PartAcross ==
  ASSUME NEW S, NEW s1 \in Seq(S), NEW s2 \in Seq(S),
         NEW a \in Nat, NEW b \in Nat, 1 <= a, a <= Len(s1) + 1, b <= Len(s2)
  PROVE  SubSeq(s1 \o s2, a, Len(s1) + b) = SubSeq(s1, a, Len(s1)) \o SubSeq(s2, 1, b)
<1>1. s1 \o s2 \in Seq(S) /\ Len(s1 \o s2) = Len(s1) + Len(s2) /\ Len(s1) \in Nat /\ Len(s2) \in Nat
  BY ConcatProperties, LenProperties
<1> DEFINE e == Len(s1) + b
           x == SubSeq(s1 \o s2, a, e)
           y == SubSeq(s1, a, Len(s1))
           z == SubSeq(s2, 1, b)
<1>2. e \in Nat /\ e <= Len(s1 \o s2) /\ a <= e + 1 /\ e = Len(s1) + b
  BY <1>1
<1> HIDE DEF e
<1>3. x \in Seq(S) /\ Len(x) = e - a + 1
  BY <1>1, <1>2, Part
<1>4. y \in Seq(S) /\ Len(y) = Len(s1) - a + 1
  BY <1>1, Part
<1>5. z \in Seq(S) /\ Len(z) = b
  BY <1>1, Part
<1>6. y \o z \in Seq(S) /\ Len(y \o z) = Len(x)
  BY <1>1, <1>2, <1>3, <1>4, <1>5, ConcatProperties
<1>7. ASSUME NEW i \in 1 .. Len(x) PROVE x[i] = (y \o z)[i]
  <2>1. x[i] = (s1 \o s2)[a + i - 1] /\ a + i - 1 \in 1 .. Len(s1) + Len(s2)
    BY <1>1, <1>2, <1>3, Part
  <2>2. CASE a + i - 1 <= Len(s1)
    <3>1. i \in 1 .. Len(y) /\ i \in 1 .. Len(y) + Len(z)
      BY <1>1, <1>4, <1>5, <2>2
    <3>2. (y \o z)[i] = y[i]
      <4> HIDE DEF x, y, z
      <4>1. QED
        BY <1>4, <1>5, <3>1, ConcatProperties
    <3>3. y[i] = s1[a + i - 1]
      BY <1>1, <1>4, <3>1, Part
    <3>4. (s1 \o s2)[a + i - 1] = s1[a + i - 1]
      BY <1>1, <2>1, <2>2, ConcatProperties
    <3>5. QED
      BY <2>1, <3>2, <3>3, <3>4
  <2>3. CASE a + i - 1 > Len(s1)
    <3> DEFINE j == a + i - 1 - Len(s1)
    <3>1. j \in 1 .. b /\ i - Len(y) = j /\ i \in 1 .. Len(y) + Len(z) /\ ~(i <= Len(y))
      BY <1>1, <1>2, <1>3, <1>4, <1>5, <2>3
    <3>2. (y \o z)[i] = z[j]
      <4> HIDE DEF x, y, z, j
      <4>1. QED
        BY <1>4, <1>5, <3>1, ConcatProperties
    <3>3. z[j] = s2[1 + j - 1]
      BY <1>1, <1>5, <3>1, Part
    <3>4. (s1 \o s2)[a + i - 1] = s2[j]
      BY <1>1, <2>1, <2>3, ConcatProperties
    <3>5. 1 + j - 1 = j
      BY <3>1
    <3>6. QED
      BY <2>1, <3>2, <3>3, <3>4, <3>5
  <2>4. a + i - 1 \in Nat
    BY <2>1
  <2>5. a + i - 1 <= Len(s1) \/ a + i - 1 > Len(s1)
    BY <1>1, <2>4
  <2>6. QED
    BY <2>2, <2>3, <2>5, Zenon
<1> HIDE DEF x, y, z
<1>8. x = y \o z
  BY <1>3, <1>6, <1>7, SeqEqual
<1>9. QED
  BY <1>8 DEF x, y, z, e

LEMMA LastPart ==
  ASSUME NEW S, NEW s1 \in Seq(S), NEW s2 \in Seq(S)
  PROVE  SubSeq(s1 \o s2, Len(s1) + 1, Len(s1) + Len(s2)) = s2
<1>1. PICK a \in Nat, b \in Nat : a = Len(s1) + 1 /\ b = Len(s2)
  BY LenProperties
<1>2. 1 <= a /\ a <= Len(s1) + 1 /\ b <= Len(s2) /\ Len(s1) \in Nat
  BY <1>1, LenProperties
<1>3. SubSeq(s1 \o s2, a, Len(s1) + b) = SubSeq(s1, a, Len(s1)) \o SubSeq(s2, 1, b)
  BY <1>2, PartAcross, ZenonT(30)
<1>4. SubSeq(s1, a, Len(s1)) = <<>>
  BY <1>1, <1>2, SubSeqEmpty
<1>5. SubSeq(s2, 1, b) = s2
  BY <1>1, SubSeqFull
<1>6. <<>> \o s2 = s2
  BY ConcatEmptySeq
<1>7. QED
  BY <1>1, <1>3, <1>4, <1>5, <1>6

\* A part of a part.
LEMMA PartOfPart ==
  ASSUME NEW S, NEW s1 \in Seq(S), NEW a \in Nat, NEW b \in Nat, NEW c \in Nat, NEW d \in Nat,
         1 <= a, b <= Len(s1), 1 <= c, a + d - 1 <= b
  PROVE  SubSeq(SubSeq(s1, a, b), c, d) = SubSeq(s1, a + c - 1, a + d - 1)
<1> DEFINE y == SubSeq(s1, a, b)
           a1 == a + c - 1
           b1 == a + d - 1
           x == SubSeq(y, c, d)
           z == SubSeq(s1, a1, b1)
<1>1. Len(s1) \in Nat
  OBVIOUS
<1>2. (y \in Seq(S) /\ d <= Len(y)) \/ d = 0
  BY <1>1, Part
<1>3. CASE d = 0
  <2>1. d < c /\ a + d - 1 < a + c - 1 /\ c \in Int /\ d \in Int /\ a + c - 1 \in Int /\ a + d - 1 \in Int
    BY <1>3
  <2>2. x = <<>>
    BY <2>1, SubSeqEmpty
  <2>3. z = <<>>
    BY <2>1, SubSeqEmpty
  <2>4. QED
    BY <2>2, <2>3
<1>4. CASE d # 0
  <2>1. /\ y \in Seq(S) /\ d <= Len(y)
        /\ \A i \in 1 .. b - a + 1 : y[i] = s1[a + i - 1]
    BY <1>1, <1>2, <1>4, Part
  <2>2. a1 \in Nat /\ b1 \in Nat /\ 1 <= a1 /\ b1 <= Len(s1) /\ b1 - a1 = d - c
    BY <1>1, <1>4
  <2>3. x \in Seq(S) /\ Len(x) = IF c <= d THEN d - c + 1 ELSE 0
    <3> HIDE DEF y
    <3>1. QED
      BY <2>1, Part
  <2>4. \A i \in 1 .. d - c + 1 : x[i] = y[c + i - 1]
    <3> HIDE DEF y
    <3>1. QED
      BY <2>1, Part
  <2>5. z \in Seq(S) /\ Len(z) = IF a1 <= b1 THEN b1 - a1 + 1 ELSE 0
    <3> HIDE DEF a1, b1
    <3>1. QED
      BY <2>2, Part
  <2>6. \A i \in 1 .. b1 - a1 + 1 : z[i] = s1[a1 + i - 1]
    <3> HIDE DEF a1, b1
    <3>1. QED
      BY <2>2, Part
  <2>7. Len(x) = Len(z)
    BY <2>2, <2>3, <2>5
  <2>8. ASSUME NEW i \in 1 .. Len(x) PROVE x[i] = z[i]
    <3>1. i \in 1 .. d - c + 1 /\ i \in 1 .. b1 - a1 + 1 /\ c + i - 1 \in 1 .. b - a + 1
      BY <2>2, <2>3, <2>8
    <3>2. a + (c + i - 1) - 1 = a1 + i - 1
      BY <3>1
    <3>3. QED
      BY <2>1, <2>4, <2>6, <3>1, <3>2
  <2> HIDE DEF x, z
  <2>9. QED
    BY <2>3, <2>5, <2>7, <2>8, SeqEqual DEF x, z
<1>5. QED
  BY <1>3, <1>4 DEF x, z, y, a1, b1

\* A sequence is what it begins with and the rest.
LEMMA FrontRest ==
  ASSUME NEW S, NEW s1 \in Seq(S), NEW n \in Nat, n <= Len(s1)
  PROVE  /\ Front(s1, n) \in Seq(S) /\ Len(Front(s1, n)) = n
         /\ Rest(s1, n) \in Seq(S) /\ Len(Rest(s1, n)) = Len(s1) - n
         /\ Front(s1, n) \o Rest(s1, n) = s1
<1>1. Len(s1) \in Nat
  OBVIOUS
<1>2. Front(s1, n) \in Seq(S) /\ Len(Front(s1, n)) = n
  BY <1>1, Part DEF Front
<1>3. Rest(s1, n) \in Seq(S) /\ Len(Rest(s1, n)) = Len(s1) - n
  BY <1>1, Part DEF Rest
<1>4. SubSeq(s1, 1, n) \o SubSeq(s1, n + 1, Len(s1)) = SubSeq(s1, 1, Len(s1))
  <2>1. 1 \in 1 .. Len(s1) + 1 /\ n \in 1 - 1 .. Len(s1) /\ Len(s1) \in n .. Len(s1)
    BY <1>1
  <2>2. QED
    BY <2>1, ConcatAdjacentSubSeq
<1>5. SubSeq(s1, 1, Len(s1)) = s1
  BY SubSeqFull
<1>6. QED
  BY <1>2, <1>3, <1>4, <1>5 DEF Front, Rest

-----------------------------------------------------------------------------
(* The states of a State *)

Token == Byte \union {<<"cv", p>> : p \in Seq(Byte)} \union {<<"marker", 0>>, <<"final", 0>>}
Stalk == [in : Seq(Token), ds : Nat, squeezing : BOOLEAN]
State == [initialTodo : Nat, stalk : Stalk, context : Nat, buf : Seq(Byte) \union {nil},
          offset : Nat, chunk : Nat, leaf : Leaf \union {nil}, lanes : Nat \ {0},
          panicked : BOOLEAN]

\* No data came past the first chunk.
Young(v) == /\ v \in State
            /\ v.buf = nil /\ v.offset = 0 /\ v.stalk.ds = 7
            /\ v.lanes # 1 => v.leaf = nil

\* The buffer or the leaf is there, and not overfull.
Filled(v) == /\ v \in State
             /\ v.buf # nil /\ v.initialTodo = 0
             /\ IF v.lanes = 1
                  THEN v.leaf # nil /\ v.offset <= chunkSize
                  ELSE v.leaf = nil /\ Len(v.buf) = v.lanes * chunkSize /\ v.offset <= Len(v.buf)

\* It has room.
Ready(v) == Filled(v) /\ v.offset # IF v.lanes = 1 THEN chunkSize ELSE Len(v.buf)

\* The places where chunks end, the hashes of k chunks after the first, and
\* what the stalk has then absorbed.
At(j)         == j * chunkSize
Hashes(m, k)  == [j \in 1 .. k |-> cv(SubSeq(m, At(j) + 1, At(j + 1)))]
Content(m, k) == Front(m, chunkSize) \o Marker \o Hashes(m, k)

\* What has not been hashed yet.
Kept(v) == IF v.lanes = 1 THEN v.leaf.in ELSE Front(v.buf, v.offset)

\* v has absorbed m, of more than a chunk.
Grown(v, m) == /\ ~v.stalk.squeezing /\ ~v.panicked
               /\ v.stalk.ds = 6
               /\ v.stalk.in = Content(m, v.chunk)
               /\ Len(m) = At(v.chunk + 1) + v.offset
               /\ Kept(v) = SubSeq(m, At(v.chunk + 1) + 1, Len(m))
               /\ v.lanes = 1 => ~v.leaf.squeezing

\* What no method undoes: a panic, that output began, and what it outputs.
After(v, w) == /\ v.panicked => w.panicked
               /\ w.stalk.squeezing = v.stalk.squeezing
               /\ v.stalk.squeezing => w.panicked \/ w.stalk = v.stalk
               /\ w.lanes = v.lanes /\ w.context = v.context

LEMMA AfterAfter ==
  ASSUME NEW v \in State, NEW w \in State, NEW x \in State, After(v, w), After(w, x)
  PROVE  After(v, x)
BY DEF After, State, Stalk

LEMMA AfterSame == ASSUME NEW v PROVE After(v, v)
BY DEF After

LEMMA AtFacts ==
  ASSUME K12Assumption, NEW i \in Nat, NEW j \in Nat
  PROVE  /\ At(i) \in Nat /\ At(0) = 0 /\ At(1) = chunkSize
         /\ At(i + j) = At(i) + At(j)
         /\ At(i + 1) = At(i) + chunkSize
         /\ i <= j => At(i) <= At(j)
         /\ i < j => At(i) + chunkSize <= At(j)
<1>1. chunkSize \in Nat /\ chunkSize >= 1
  BY Constants
<1>2. i * chunkSize \in Nat /\ 0 * chunkSize = 0 /\ 1 * chunkSize = chunkSize
  BY <1>1
<1>3. (i + j) * chunkSize = i * chunkSize + j * chunkSize
  BY <1>1
<1>4. (i + 1) * chunkSize = i * chunkSize + chunkSize
  BY <1>1
<1>5. i <= j => i * chunkSize <= j * chunkSize
  BY <1>1
<1>6. i < j => (i + 1) * chunkSize <= j * chunkSize
  BY <1>1
<1>7. QED
  BY <1>2, <1>3, <1>4, <1>5, <1>6 DEF At

LEMMA Tokens ==
  /\ \A p \in Seq(Byte) : p \in Seq(Token) /\ cv(p) \in Token /\ <<cv(p)>> \in Seq(Token)
  /\ Marker \in Seq(Token) /\ Final \in Seq(Token) /\ <<>> \in Seq(Token)
<1>1. ASSUME NEW p \in Seq(Byte) PROVE p \in Seq(Token)
  <2>1. Byte \subseteq Token
    BY DEF Token
  <2>2. QED
    BY <2>1, SeqMonotonic
<1>2. ASSUME NEW p \in Seq(Byte) PROVE cv(p) \in Token
  BY DEF cv, Token
<1>3. <<"marker", 0>> \in Token /\ <<"final", 0>> \in Token
  BY DEF Token
<1> HIDE DEF Token
<1>4. QED
  BY <1>1, <1>2, <1>3 DEF Marker, Final

LEMMA BytesAssociate ==
  \A p, q, r \in Seq(Byte) : (p \o q) \o r = p \o (q \o r)
BY ConcatAssociative, SMTT(30)

LEMMA TokensAssociate ==
  \A p, q, r \in Seq(Token) : (p \o q) \o r = p \o (q \o r)
BY ConcatAssociative, SMTT(30)

LEMMA HashesSeq ==
  ASSUME K12Assumption, NEW m \in Seq(Byte), NEW k \in Nat, At(k + 1) <= Len(m)
  PROVE  /\ Hashes(m, k) \in Seq(Token) /\ Len(Hashes(m, k)) = k
         /\ \A j \in 1 .. k : /\ Hashes(m, k)[j] = cv(SubSeq(m, At(j) + 1, At(j + 1)))
                              /\ SubSeq(m, At(j) + 1, At(j + 1)) \in Seq(Byte)
<1>1. ASSUME NEW j \in 1 .. k PROVE SubSeq(m, At(j) + 1, At(j + 1)) \in Seq(Byte)
  <2>1. j \in Nat /\ j + 1 \in Nat /\ k + 1 \in Nat /\ j + 1 <= k + 1
    OBVIOUS
  <2>2. At(j) \in Nat /\ At(j + 1) \in Nat /\ At(j + 1) <= At(k + 1) /\ At(k + 1) \in Nat
    BY <2>1, AtFacts
  <2>3. At(j) + 1 \in Nat /\ 1 <= At(j) + 1 /\ At(j + 1) <= Len(m) /\ Len(m) \in Nat
    BY <2>2, LenProperties
  <2>4. QED
    BY <2>2, <2>3, Part
<1> DEFINE h(j) == cv(SubSeq(m, At(j) + 1, At(j + 1)))
<1>2. \A j \in 1 .. k : h(j) \in Token
  BY <1>1, Tokens
<1>3. Hashes(m, k) = [j \in 1 .. k |-> h(j)]
  BY DEF Hashes
<1>4. Hashes(m, k) \in [1 .. k -> Token] /\ \A j \in 1 .. k : Hashes(m, k)[j] = h(j)
  <2> HIDE DEF h
  <2>1. QED
    BY <1>2, <1>3
<1>5. Hashes(m, k) \in Seq(Token) /\ Len(Hashes(m, k)) = k
  BY <1>4
<1>6. QED
  BY <1>1, <1>4, <1>5

\* h are the hashes of n chunks of m, after chunk c.
ChunkHashes(h, m, c, n) ==
  Len(h) = n /\ \A i \in 1 .. n : h[i] = cv(SubSeq(m, At(c + i) + 1, At(c + i + 1)))

\* The first n chunks of p are the last ones of m, after chunk c.
LastChunks(m, c, n, p) ==
  Len(m) = At(c + n + 1) /\ SubSeq(m, At(c + 1) + 1, Len(m)) = Front(p, At(n))

\* What came of a message is not changed by what follows.
LEMMA ContentKept ==
  ASSUME K12Assumption, NEW m \in Seq(Byte), NEW q \in Seq(Byte), NEW k \in Nat, At(k + 1) <= Len(m)
  PROVE  /\ Content(m \o q, k) = Content(m, k)
         /\ Hashes(m \o q, k) = Hashes(m, k)
         /\ Front(m \o q, chunkSize) = Front(m, chunkSize)
<1>1. m \o q \in Seq(Byte) /\ Len(m \o q) = Len(m) + Len(q) /\ Len(m) \in Nat /\ Len(q) \in Nat
  BY ConcatProperties, LenProperties
<1>2. ASSUME NEW j \in 1 .. k
      PROVE  SubSeq(m \o q, At(j) + 1, At(j + 1)) = SubSeq(m, At(j) + 1, At(j + 1))
  <2>1. j \in Nat /\ j + 1 \in Nat /\ k + 1 \in Nat /\ j + 1 <= k + 1
    OBVIOUS
  <2>2. At(j) \in Nat /\ At(j + 1) \in Nat /\ At(j + 1) <= At(k + 1) /\ At(k + 1) \in Nat
    BY <2>1, AtFacts
  <2>3. At(j) + 1 \in Nat /\ 1 <= At(j) + 1 /\ At(j + 1) <= Len(m)
    BY <1>1, <2>2
  <2> DEFINE a == At(j) + 1
             b == At(j + 1)
  <2>4. a \in Nat /\ b \in Nat /\ 1 <= a /\ b <= Len(m)
    BY <2>2, <2>3
  <2> HIDE DEF a, b
  <2>5. SubSeq(m \o q, a, b) = SubSeq(m, a, b)
    BY <2>4, PartKept
  <2>6. QED
    BY <2>5 DEF a, b
<1>3. Hashes(m \o q, k) = Hashes(m, k)
  BY <1>2 DEF Hashes
<1>4. Front(m \o q, chunkSize) = Front(m, chunkSize)
  <2>1. At(1) <= At(k + 1) /\ At(1) = chunkSize /\ At(k + 1) \in Nat
    BY AtFacts
  <2>2. chunkSize \in Nat /\ chunkSize <= Len(m)
    BY <1>1, <2>1, Constants
  <2>3. QED
    BY <2>2, PartKept DEF Front
<1>5. QED
  BY <1>3, <1>4 DEF Content

\* More hashes.
LEMMA ContentMore ==
  ASSUME K12Assumption, NEW m \in Seq(Byte), NEW k \in Nat, NEW n \in Nat, At(k + n + 1) <= Len(m),
         NEW h \in Seq(Token), ChunkHashes(h, m, k, n)
  PROVE  Content(m, k + n) = Content(m, k) \o h
<1>0. Len(h) = n /\ \A i \in 1 .. n : h[i] = cv(SubSeq(m, At(k + i) + 1, At(k + i + 1)))
  BY DEF ChunkHashes
<1>1. k + n \in Nat /\ At(k + 1) <= Len(m)
  <2>1. k + 1 \in Nat /\ k + n + 1 \in Nat /\ k + 1 <= k + n + 1
    OBVIOUS
  <2>2. At(k + 1) <= At(k + n + 1) /\ At(k + 1) \in Nat /\ At(k + n + 1) \in Nat
    BY <2>1, AtFacts
  <2>3. QED
    BY <2>2, LenProperties
<1> DEFINE a == Hashes(m, k + n)
           b == Hashes(m, k)
<1>2. /\ a \in Seq(Token) /\ Len(a) = k + n
      /\ \A j \in 1 .. k + n : a[j] = cv(SubSeq(m, At(j) + 1, At(j + 1)))
  BY <1>1, HashesSeq
<1>3. /\ b \in Seq(Token) /\ Len(b) = k
      /\ \A j \in 1 .. k : b[j] = cv(SubSeq(m, At(j) + 1, At(j + 1)))
  BY <1>1, HashesSeq
<1> HIDE DEF a, b
<1>4. b \o h \in Seq(Token) /\ Len(b \o h) = k + n
  BY <1>0, <1>3, ConcatProperties
<1>5. ASSUME NEW j \in 1 .. k + n PROVE a[j] = (b \o h)[j]
  <2>1. CASE j <= k
    <3>1. j \in 1 .. k /\ j \in 1 .. Len(b) + Len(h) /\ j <= Len(b)
      BY <1>0, <1>3, <2>1
    <3>2. (b \o h)[j] = b[j]
      BY <1>3, <3>1, ConcatProperties
    <3>3. QED
      BY <1>2, <1>3, <3>1, <3>2
  <2>2. CASE ~(j <= k)
    <3>1. j - k \in 1 .. n /\ j \in 1 .. Len(b) + Len(h) /\ ~(j <= Len(b)) /\ j - Len(b) = j - k
      BY <1>0, <1>3, <2>2
    <3>2. (b \o h)[j] = h[j - k]
      BY <1>3, <3>1, ConcatProperties
    <3>3. k + (j - k) = j
      OBVIOUS
    <3>4. h[j - k] = cv(SubSeq(m, At(k + (j - k)) + 1, At(k + (j - k) + 1)))
      BY <1>0, <3>1
    <3>5. QED
      BY <1>2, <3>2, <3>3, <3>4
  <2>3. QED
    BY <2>1, <2>2
<1>6. a = b \o h
  BY <1>2, <1>4, <1>5, SeqEqual
<1>7. chunkSize \in Nat /\ chunkSize <= Len(m) /\ Len(m) \in Nat
  <2>0. k + 1 \in Nat /\ 1 \in Nat /\ 1 <= k + 1
    OBVIOUS
  <2>1. At(1) <= At(k + 1) /\ At(1) = chunkSize /\ At(k + 1) \in Nat
    BY <2>0, AtFacts
  <2>2. QED
    BY <1>1, <2>1, Constants
<1>8. Front(m, chunkSize) \in Seq(Token)
  BY <1>7, FrontRest, Tokens
<1>9. Front(m, chunkSize) \o Marker \in Seq(Token)
  BY <1>8, Tokens, ConcatProperties
<1> DEFINE f == Front(m, chunkSize) \o Marker
<1> HIDE DEF f
<1>10. f \o (b \o h) = (f \o b) \o h
  <2>1. f \in Seq(Token)
    BY <1>9 DEF f
  <2>2. b \in Seq(Token) /\ h \in Seq(Token)
    BY <1>3
  <2>3. QED
    BY <2>1, <2>2, TokensAssociate
<1>11. Content(m, k + n) = f \o a /\ Content(m, k) = f \o b
  BY DEF Content, a, b, f
<1>12. QED
  BY <1>6, <1>10, <1>11

LEMMA ContentSeq ==
  ASSUME K12Assumption, NEW m \in Seq(Byte), NEW k \in Nat, At(k + 1) <= Len(m)
  PROVE  Content(m, k) \in Seq(Token)
<1>1. chunkSize \in Nat /\ chunkSize <= Len(m) /\ Len(m) \in Nat
  <2>1. At(1) <= At(k + 1) /\ At(1) = chunkSize /\ At(k + 1) \in Nat
    BY AtFacts
  <2>2. QED
    BY <2>1, Constants
<1>2. Front(m, chunkSize) \in Seq(Token)
  BY <1>1, FrontRest, Tokens
<1>3. Front(m, chunkSize) \o Marker \in Seq(Token)
  BY <1>2, Tokens, ConcatProperties
<1>4. QED
  BY <1>3, HashesSeq, ConcatProperties DEF Content

-----------------------------------------------------------------------------
(* The parts of a write *)

\* w is v after p was written to the stalk, or the panic that this is.
StalkWritten(v, p, w) ==
  /\ w \in State /\ After(v, w)
  /\ w.initialTodo = v.initialTodo /\ w.buf = v.buf /\ w.offset = v.offset
  /\ w.chunk = v.chunk /\ w.leaf = v.leaf /\ w.stalk.ds = v.stalk.ds
  /\ ~v.stalk.squeezing => w.stalk.in = v.stalk.in \o p /\ w.panicked = v.panicked
  /\ v.stalk.squeezing => w.panicked

\* The same for the leaf.
LeafWritten(v, p, w) ==
  /\ w \in State /\ After(v, w)
  /\ w.initialTodo = v.initialTodo /\ w.buf = v.buf /\ w.offset = v.offset
  /\ w.chunk = v.chunk /\ w.stalk = v.stalk
  /\ w.leaf # nil /\ w.leaf.squeezing = v.leaf.squeezing
  /\ ~v.leaf.squeezing => w.leaf.in = v.leaf.in \o p /\ w.panicked = v.panicked

LEMMA StalkWrite ==
  ASSUME NEW v \in State, NEW p \in Seq(Token), NEW w, w = stalkWrite(v, p)
  PROVE  StalkWritten(v, p, w)
<1> USE DEF StalkWritten
<1>1. CASE v.stalk.squeezing
  <2>1. w = [v EXCEPT !.panicked = TRUE]
    BY <1>1 DEF stalkWrite
  <2>2. QED
    BY <1>1, <2>1 DEF State, Stalk, After
<1>2. CASE ~v.stalk.squeezing
  <2>1. w = [v EXCEPT !.stalk.in = @ \o p]
    BY <1>2 DEF stalkWrite
  <2>2. v.stalk \in Stalk /\ v.stalk.in \in Seq(Token)
    BY DEF State, Stalk
  <2>3. v.stalk.in \o p \in Seq(Token)
    BY <2>2, ConcatProperties
  <2>4. QED
    BY <1>2, <2>1, <2>2, <2>3, ZenonT(30) DEF State, Stalk, After
<1>3. QED
  BY <1>1, <1>2

LEMMA LeafWrite ==
  ASSUME NilAssumption,
         NEW v \in State, v.leaf # nil, NEW p \in Seq(Byte), NEW w, w = leafWrite(v, p)
  PROVE  LeafWritten(v, p, w)
<1> USE DEF LeafWritten
<1>1. v.leaf \in Leaf /\ v.leaf.in \in Seq(Byte)
  BY DEF State, Leaf
<1>2. CASE v.leaf.squeezing
  <2>1. w = [v EXCEPT !.panicked = TRUE]
    BY <1>2 DEF leafWrite
  <2>2. QED
    BY <1>2, <2>1 DEF State, Stalk, After
<1>3. CASE ~v.leaf.squeezing
  <2>1. w = [v EXCEPT !.leaf.in = @ \o p]
    BY <1>3 DEF leafWrite
  <2>2. v.leaf.in \o p \in Seq(Byte)
    BY <1>1, ConcatProperties
  <2>3. [v.leaf EXCEPT !.in = @ \o p] \in Leaf
    BY <1>1, <2>2 DEF Leaf
  <2>4. w = [v EXCEPT !.leaf = [v.leaf EXCEPT !.in = @ \o p]]
    BY <2>1
  <2> DEFINE l == [v.leaf EXCEPT !.in = @ \o p]
  <2>5. l.in = v.leaf.in \o p /\ l.squeezing = v.leaf.squeezing /\ l # nil
    BY <1>1, <2>3 DEF Leaf, NilAssumption
  <2>6. l \in Leaf
    BY <2>3
  <2> HIDE DEF l
  <2>7. w = [v EXCEPT !.leaf = l]
    BY <2>4 DEF l
  <2>8. QED
    BY <1>3, <2>5, <2>6, <2>7 DEF State, Stalk, After
<1>4. QED
  BY <1>2, <1>3

LEMMA ZerosSeq ==
  ASSUME NEW n \in Nat
  PROVE  Zeros(n) \in Seq(Byte) /\ Len(Zeros(n)) = n
<1>1. <<"zero", 0>> \in Byte
  BY DEF Byte
<1> DEFINE z == <<"zero", 0>>
<1>2. Zeros(n) = [i \in 1 .. n |-> z]
  BY DEF Zeros
<1>3. z \in Byte
  BY <1>1
<1> HIDE DEF z, Byte
<1>4. Zeros(n) \in [1 .. n -> Byte]
  BY <1>2, <1>3
<1>5. QED
  BY <1>4

\* Making the buffer or the leaf, when a chunk was absorbed and more comes.
LEMMA Grow ==
  ASSUME K12Assumption, NilAssumption,
         NEW v, Young(v), v.initialTodo = 0, NEW m \in Seq(Byte), NEW w, w = grow(v)
  PROVE  /\ Ready(w) /\ After(v, w)
         /\ ~v.stalk.squeezing /\ ~v.panicked /\ v.stalk.in = m /\ v.chunk = 0 /\ Len(m) = chunkSize
              => Grown(w, m)
<1>1. v \in State /\ v.lanes \in Nat \ {0} /\ v.chunk \in Nat
  BY DEF Young, State
<1>2. PICK x : x = stalkWrite(v, Marker)
  OBVIOUS
<1>3. /\ x \in State /\ After(v, x)
      /\ x.initialTodo = 0 /\ x.buf = nil /\ x.offset = 0
      /\ x.chunk = v.chunk /\ x.leaf = v.leaf /\ x.lanes = v.lanes
      /\ ~v.stalk.squeezing => x.stalk.in = v.stalk.in \o Marker /\ x.panicked = v.panicked
      /\ v.stalk.squeezing => x.panicked
  <2>1. Marker \in Seq(Token)
    BY Tokens
  <2>2. v.initialTodo = 0 /\ v.buf = nil /\ v.offset = 0
    BY DEF Young
  <2>3. After(v, x) => x.lanes = v.lanes
    BY DEF After
  <2>4. StalkWritten(v, Marker, x)
    BY <1>1, <1>2, <2>1, StalkWrite
  <2>5. QED
    BY <2>2, <2>3, <2>4 DEF StalkWritten
<1> DEFINE st == [x.stalk EXCEPT !.ds = 6]
<1>10. st \in Stalk /\ st.in = x.stalk.in /\ st.ds = 6 /\ st.squeezing = x.stalk.squeezing
  <2>1. x.stalk \in Stalk
    BY <1>3 DEF State
  <2>2. QED
    BY <2>1 DEF Stalk
<1> HIDE DEF st
<1>4. chunkSize \in Nat /\ chunkSize >= 1
  BY Constants
<1>5. v.lanes * chunkSize \in Nat /\ v.lanes * chunkSize # 0
  BY <1>1, <1>4
<1>6. /\ Zeros(v.lanes * chunkSize) \in Seq(Byte) /\ Len(Zeros(v.lanes * chunkSize)) = v.lanes * chunkSize
      /\ <<>> \in Seq(Byte) /\ <<>> # nil /\ Zeros(v.lanes * chunkSize) # nil
  <2>1. PICK n \in Nat : n = v.lanes * chunkSize
    BY <1>5
  <2>2. Zeros(n) \in Seq(Byte) /\ Len(Zeros(n)) = n
    BY ZerosSeq
  <2>3. <<>> \in Seq(Byte)
    OBVIOUS
  <2>4. QED
    BY <2>1, <2>2, <2>3 DEF NilAssumption
<1>7. CASE v.lanes = 1
  <2> DEFINE l == NewTurboShake128(11)
  <2>1. l \in Leaf /\ l # nil /\ l.in = <<>> /\ ~l.squeezing
    <3>1. l = [in |-> <<>>, ds |-> 11, squeezing |-> FALSE]
      BY DEF NewTurboShake128
    <3>2. l \in Leaf
      <4>1. <<>> \in Seq(Byte)
        OBVIOUS
      <4> HIDE DEF l
      <4>2. QED
        BY <3>1, <4>1 DEF Leaf
    <3>3. QED
      BY <3>1, <3>2 DEF NilAssumption
  <2> HIDE DEF l
  <2>2. w = [x EXCEPT !.stalk = st, !.buf = <<>>, !.leaf = l]
    BY <1>2, <1>3, <1>7 DEF grow, l, st, State
  <2>3. /\ w \in State /\ w.buf = <<>> /\ w.leaf = l /\ w.stalk.ds = 6 /\ w.stalk.in = x.stalk.in
        /\ w.stalk.squeezing = x.stalk.squeezing
        /\ w.panicked = x.panicked /\ w.lanes = 1 /\ w.offset = 0 /\ w.initialTodo = 0 /\ w.chunk = v.chunk
        /\ w.context = x.context
    BY <1>3, <1>6, <1>7, <1>10, <2>1, <2>2 DEF State
  <2>4. Ready(w)
    BY <1>4, <1>6, <2>1, <2>3 DEF Ready, Filled
  <2>5. QED
    <3>1. After(v, w)
      BY <1>3, <1>7, <2>3 DEF After
    <3>2. ASSUME ~v.stalk.squeezing, ~v.panicked, v.stalk.in = m, v.chunk = 0, Len(m) = chunkSize
          PROVE  Grown(w, m)
      <4>1. w.stalk.in = m \o Marker
        BY <1>3, <2>3, <3>2
      <4>2. Content(m, 0) = m \o Marker
        <5>1. Front(m, chunkSize) = m
          BY <3>2, SubSeqFull DEF Front
        <5>2. Hashes(m, 0) = <<>>
          BY DEF Hashes
        <5>3. m \o Marker \in Seq(Token)
          BY Tokens, ConcatProperties
        <5>4. QED
          BY <5>1, <5>2, <5>3, ConcatEmptySeq DEF Content
      <4>3. At(0 + 1) = chunkSize
        BY AtFacts
      <4>4. SubSeq(m, chunkSize + 1, chunkSize) = <<>>
        BY <1>4, SubSeqEmpty
      <4>5. Kept(w) = <<>>
        BY <2>1, <2>3 DEF Kept
      <4>6. QED
        BY <1>3, <1>4, <2>1, <2>3, <3>2, <4>1, <4>2, <4>3, <4>4, <4>5 DEF Grown, After
    <3>3. QED
      BY <2>4, <3>1, <3>2
<1>8. CASE v.lanes # 1
  <2> DEFINE z == Zeros(v.lanes * chunkSize)
  <2>1. z \in Seq(Byte) /\ z # nil /\ Len(z) = v.lanes * chunkSize
    BY <1>6
  <2> HIDE DEF z
  <2>2. w = [x EXCEPT !.stalk = st, !.buf = z]
    BY <1>2, <1>3, <1>8 DEF grow, z, st, State
  <2>3. /\ w \in State /\ w.buf = z /\ w.leaf = nil /\ w.stalk.ds = 6 /\ w.stalk.in = x.stalk.in
        /\ w.stalk.squeezing = x.stalk.squeezing
        /\ w.panicked = x.panicked /\ w.lanes = v.lanes /\ w.offset = 0 /\ w.initialTodo = 0 /\ w.chunk = v.chunk
        /\ w.context = x.context
    BY <1>3, <1>8, <1>10, <2>1, <2>2 DEF State, Young
  <2>4. Ready(w)
    BY <1>5, <1>8, <2>1, <2>3 DEF Ready, Filled
  <2>5. QED
    <3>1. After(v, w)
      BY <1>3, <2>3 DEF After
    <3>2. ASSUME ~v.stalk.squeezing, ~v.panicked, v.stalk.in = m, v.chunk = 0, Len(m) = chunkSize
          PROVE  Grown(w, m)
      <4>1. w.stalk.in = m \o Marker
        BY <1>3, <2>3, <3>2
      <4>2. Content(m, 0) = m \o Marker
        <5>1. Front(m, chunkSize) = m
          BY <3>2, SubSeqFull DEF Front
        <5>2. Hashes(m, 0) = <<>>
          BY DEF Hashes
        <5>3. m \o Marker \in Seq(Token)
          BY Tokens, ConcatProperties
        <5>4. QED
          BY <5>1, <5>2, <5>3, ConcatEmptySeq DEF Content
      <4>3. At(0 + 1) = chunkSize
        BY AtFacts
      <4>4. SubSeq(m, chunkSize + 1, chunkSize) = <<>>
        BY <1>4, SubSeqEmpty
      <4>5. Kept(w) = <<>>
        BY <1>8, <2>3, SubSeqEmpty DEF Kept, Front
      <4>6. QED
        BY <1>3, <1>4, <1>8, <2>3, <3>2, <4>1, <4>2, <4>3, <4>4, <4>5 DEF Grown, After
    <3>3. QED
      BY <2>4, <3>1, <3>2
<1>9. QED
  BY <1>7, <1>8

\* More of the message is kept.
LEMMA GrownMore ==
  ASSUME K12Assumption, NEW v \in State, NEW w \in State, NEW m \in Seq(Byte), NEW q \in Seq(Byte),
         Grown(v, m), w.stalk = v.stalk, w.chunk = v.chunk, w.offset = v.offset + Len(q),
         ~w.panicked, Kept(w) = Kept(v) \o q, w.lanes = 1 => ~w.leaf.squeezing
  PROVE  Grown(w, m \o q)
<1> DEFINE c == v.chunk
           e == At(c + 1)
           a == e + 1
<1>1. /\ c \in Nat /\ v.offset \in Nat /\ Len(q) \in Nat /\ Len(m) \in Nat /\ e \in Nat
  <2>1. c \in Nat /\ v.offset \in Nat
    BY DEF State
  <2>2. c + 1 \in Nat
    BY <2>1
  <2>3. At(c + 1) \in Nat
    BY <2>2, AtFacts
  <2>4. QED
    BY <2>1, <2>3, LenProperties
<1>2. /\ Len(m) = e + v.offset /\ v.stalk.in = Content(m, c) /\ v.stalk.ds = 6
      /\ ~v.stalk.squeezing /\ Kept(v) = SubSeq(m, a, Len(m))
  BY DEF Grown
<1> HIDE DEF e
<1>3. Len(m \o q) = Len(m) + Len(q)
  BY ConcatProperties
<1>4. Content(m \o q, c) = Content(m, c)
  BY <1>1, <1>2, ContentKept DEF e
<1>5. SubSeq(m \o q, a, Len(m) + Len(q)) = SubSeq(m, a, Len(m)) \o SubSeq(q, 1, Len(q))
  <2>1. a \in Nat /\ 1 <= a /\ a <= Len(m) + 1
    BY <1>1, <1>2
  <2> HIDE DEF a
  <2>2. PICK b \in Nat : b = Len(q)
    BY <1>1
  <2>3. SubSeq(m \o q, a, Len(m) + b) = SubSeq(m, a, Len(m)) \o SubSeq(q, 1, b)
    <3>1. b <= Len(q)
      BY <2>2
    <3>2. QED
      BY <2>1, <3>1, PartAcross, ZenonT(30)
  <2>4. QED
    BY <2>2, <2>3
<1>6. SubSeq(q, 1, Len(q)) = q
  BY SubSeqFull
<1>7. Kept(w) = SubSeq(m \o q, a, Len(m \o q))
  BY <1>2, <1>3, <1>5, <1>6
<1>8. Len(m \o q) = e + w.offset
  BY <1>1, <1>2, <1>3
<1>9. QED
  BY <1>2, <1>4, <1>7, <1>8 DEF Grown, e

\* Whole chunks are hashed, the last of the message, and nothing is kept.
LEMMA GrownHashed ==
  ASSUME K12Assumption, NEW v \in State, NEW w \in State, NEW m \in Seq(Byte),
         NEW c \in Nat, NEW n \in Nat,
         v.stalk.in = Content(m, c), v.stalk.ds = 6, ~v.stalk.squeezing, Len(m) = At(c + n + 1),
         NEW h \in Seq(Token), ChunkHashes(h, m, c, n),
         w.stalk.in = v.stalk.in \o h, w.stalk.ds = v.stalk.ds,
         w.stalk.squeezing = v.stalk.squeezing, ~w.panicked,
         w.chunk = c + n, w.offset = 0, w.lanes = 1 => ~w.leaf.squeezing /\ w.leaf.in = <<>>
  PROVE  Grown(w, m)
<1>1. c + n + 1 \in Nat /\ At(c + n + 1) \in Nat /\ At(c + n + 1) <= Len(m)
  <2>1. c + n + 1 \in Nat
    OBVIOUS
  <2>2. QED
    BY <2>1, AtFacts
<1>2. Content(m, c + n) = Content(m, c) \o h
  <2>1. At(c + n + 1) <= Len(m)
    BY <1>1
  <2>2. QED
    BY <2>1, ContentMore
<1>3. SubSeq(m, At(c + n + 1) + 1, Len(m)) = <<>>
  BY <1>1, SubSeqEmpty
<1>4. Kept(w) = <<>>
  <2>1. Front(w.buf, 0) = <<>>
    BY SubSeqEmpty DEF Front
  <2>2. QED
    BY <2>1 DEF Kept
<1>5. QED
  BY <1>1, <1>2, <1>3, <1>4, SMTT(30) DEF Grown

\* One turn of the one-lane loop.
TurnTaken(v, p, y) ==
  /\ Ready(y.v) /\ After(v, y.v)
  /\ \E q \in Seq(Byte) : /\ q \o y.p = p /\ Len(y.p) < Len(p)
                          /\ \A m \in Seq(Byte) : Grown(v, m) => Grown(y.v, m \o q)
  /\ y \in [v : State, p : Seq(Byte)]

LEMMA Turn ==
  ASSUME K12Assumption, NilAssumption,
         NEW v, Ready(v), v.lanes = 1, NEW p \in Seq(Byte), p # <<>>,
         NEW y, y = writeLeaf([v |-> v, p |-> p])
  PROVE  TurnTaken(v, p, y)
<1> DEFINE to == min(chunkSize - v.offset, Len(p))
           q == Front(p, to)
<1>1. /\ v \in State /\ v.leaf # nil /\ v.buf # nil /\ v.offset \in Nat /\ v.offset < chunkSize
      /\ chunkSize \in Nat /\ v.initialTodo = 0 /\ v.chunk \in Nat
  <2>1. v \in State /\ v.leaf # nil /\ v.buf # nil /\ v.offset <= chunkSize /\ v.offset # chunkSize
        /\ v.initialTodo = 0
    BY DEF Ready, Filled
  <2>2. v.offset \in Nat /\ v.chunk \in Nat
    BY <2>1 DEF State
  <2>3. QED
    BY <2>1, <2>2, Constants
<1>2. Len(p) \in Nat /\ Len(p) > 0
  BY EmptySeq
<1>3. to \in Nat /\ to > 0 /\ to <= Len(p) /\ v.offset + to <= chunkSize
  BY <1>1, <1>2 DEF min
<1> HIDE DEF to
<1>4. /\ q \in Seq(Byte) /\ Len(q) = to
      /\ Rest(p, to) \in Seq(Byte) /\ Len(Rest(p, to)) = Len(p) - to
      /\ q \o Rest(p, to) = p
  BY <1>3, FrontRest
<1> HIDE DEF q
<1>5. PICK u : u = leafWrite(v, q)
  OBVIOUS
<1>6. LeafWritten(v, q, u)
  BY <1>1, <1>4, <1>5, LeafWrite
<1>7. PICK w : w = [u EXCEPT !.offset = v.offset + to]
  OBVIOUS
<1>8. /\ w \in State /\ After(v, w) /\ w.buf # nil /\ w.leaf # nil /\ w.lanes = 1 /\ w.initialTodo = 0
      /\ w.offset = v.offset + to /\ w.chunk = v.chunk /\ w.stalk = v.stalk
      /\ w.leaf.squeezing = v.leaf.squeezing
      /\ ~v.leaf.squeezing => w.leaf.in = v.leaf.in \o q /\ w.panicked = v.panicked
  <2>1. /\ u \in State /\ After(v, u) /\ u.buf # nil /\ u.leaf # nil /\ u.initialTodo = 0
        /\ u.chunk = v.chunk /\ u.stalk = v.stalk /\ u.leaf.squeezing = v.leaf.squeezing
        /\ ~v.leaf.squeezing => u.leaf.in = v.leaf.in \o q /\ u.panicked = v.panicked
    BY <1>1, <1>6 DEF LeafWritten
  <2>2. u.lanes = 1
    BY <2>1 DEF After
  <2>3. v.offset + to \in Nat
    BY <1>1, <1>3
  <2>4. /\ w \in State /\ w.buf = u.buf /\ w.leaf = u.leaf /\ w.initialTodo = u.initialTodo
        /\ w.chunk = u.chunk /\ w.stalk = u.stalk /\ w.panicked = u.panicked /\ w.lanes = u.lanes
        /\ w.context = u.context /\ w.offset = v.offset + to
    BY <1>7, <2>1, <2>3 DEF State
  <2>5. After(v, w)
    BY <2>1, <2>4 DEF After
  <2>6. QED
    BY <2>1, <2>2, <2>4, <2>5
<1>9. ASSUME NEW m \in Seq(Byte), Grown(v, m) PROVE Grown(w, m \o q)
  <2>1. ~v.leaf.squeezing /\ ~v.panicked
    BY <1>9 DEF Grown
  <2>2. Kept(w) = Kept(v) \o q
    BY <1>8, <2>1 DEF Kept
  <2>3. QED
    BY <1>1, <1>4, <1>8, <1>9, <2>1, <2>2, GrownMore
<1>15. y.p = Rest(p, to)
  BY DEF writeLeaf, to
<1>10. /\ y.v = IF w.offset = chunkSize
                  THEN [stalkWrite(w, <<cv(w.leaf.in)>>) EXCEPT
                          !.leaf.in = <<>>, !.leaf.squeezing = FALSE,
                          !.offset = 0, !.chunk = @ + 1]
                  ELSE w
       /\ y = [v |-> y.v, p |-> y.p]
  <2>1. u.offset = v.offset
    BY <1>6 DEF LeafWritten
  <2>2. w = [leafWrite(v, q) EXCEPT !.offset = @ + to]
    BY <1>5, <1>7, <2>1
  <2>3. QED
    BY <2>2 DEF writeLeaf, to, q
<1>11. Len(y.p) < Len(p) /\ y.p \in Seq(Byte) /\ q \o y.p = p
  <2>1. PICK r : r = Rest(p, to)
    OBVIOUS
  <2>2. y.p = r /\ r \in Seq(Byte) /\ Len(r) = Len(p) - to /\ q \o r = p
    BY <1>4, <1>15, <2>1
  <2>3. Len(r) < Len(p)
    BY <1>2, <1>3, <2>2
  <2>4. QED
    BY <2>2, <2>3
<1>12. CASE w.offset # chunkSize
  <2>1. y.v = w
    BY <1>10, <1>12
  <2>2. w.offset <= chunkSize
    BY <1>3, <1>8
  <2>3. Ready(w)
    BY <1>8, <1>12, <2>2 DEF Ready, Filled
  <2>4. QED
    BY <1>4, <1>8, <1>9, <1>10, <1>11, <2>1, <2>3 DEF TurnTaken
<1>13. CASE w.offset = chunkSize
  <2> DEFINE h == <<cv(w.leaf.in)>>
             l == [w.leaf EXCEPT !.in = <<>>, !.squeezing = FALSE]
  <2>1. w.leaf \in Leaf /\ w.leaf.in \in Seq(Byte)
    BY <1>8 DEF State, Leaf
  <2>2. h \in Seq(Token) /\ Len(h) = 1 /\ h[1] = cv(w.leaf.in)
    BY <2>1, Tokens
  <2> HIDE DEF h
  <2>3. l \in Leaf /\ l # nil /\ l.in = <<>> /\ ~l.squeezing
    <3>1. <<>> \in Seq(Byte)
      OBVIOUS
    <3>2. l \in Leaf /\ l.in = <<>> /\ ~l.squeezing
      BY <2>1, <3>1 DEF Leaf
    <3>3. QED
      BY <3>2 DEF NilAssumption
  <2>4. PICK x : x = stalkWrite(w, h)
    OBVIOUS
  <2>5. StalkWritten(w, h, x)
    BY <1>8, <2>2, <2>4, StalkWrite
  <2>6. y.v = [x EXCEPT !.leaf = l, !.offset = 0, !.chunk = w.chunk + 1]
    <3>1. y.v = [x EXCEPT !.leaf.in = <<>>, !.leaf.squeezing = FALSE, !.offset = 0, !.chunk = @ + 1]
      BY <1>10, <1>13, <2>4 DEF h
    <3>2. x \in State /\ x.leaf = w.leaf /\ x.chunk = w.chunk
      BY <2>5 DEF StalkWritten
    <3>3. QED
      BY <3>1, <3>2 DEF State
  <2> HIDE DEF l
  <2>7. /\ y.v \in State /\ y.v.leaf = l /\ y.v.offset = 0 /\ y.v.chunk = v.chunk + 1
        /\ y.v.stalk = x.stalk /\ y.v.panicked = x.panicked /\ y.v.lanes = 1 /\ y.v.buf = w.buf
        /\ y.v.initialTodo = 0 /\ After(w, y.v)
    <3>1. x \in State /\ After(w, x) /\ x.buf = w.buf /\ x.initialTodo = 0 /\ w.chunk \in Nat
      BY <1>8, <2>5 DEF StalkWritten, State
    <3>2. w.chunk + 1 \in Nat /\ 0 \in Nat /\ w.chunk = v.chunk
      BY <1>8, <3>1
    <3>3. /\ y.v \in State /\ y.v.leaf = l /\ y.v.offset = 0 /\ y.v.chunk = w.chunk + 1
          /\ y.v.stalk = x.stalk /\ y.v.panicked = x.panicked /\ y.v.lanes = x.lanes /\ y.v.buf = x.buf
          /\ y.v.initialTodo = x.initialTodo /\ y.v.context = x.context
      BY <2>3, <2>6, <3>1, <3>2, ZenonT(30) DEF State
    <3>4. After(w, y.v) /\ x.lanes = 1
      BY <1>8, <3>1, <3>3 DEF After
    <3>5. QED
      BY <3>1, <3>2, <3>3, <3>4
  <2>8. After(v, y.v)
    BY <1>1, <1>8, <2>7, AfterAfter
  <2>9. Ready(y.v)
    BY <1>1, <1>8, <2>3, <2>7 DEF Ready, Filled
  <2>10. ASSUME NEW m \in Seq(Byte), Grown(v, m) PROVE Grown(y.v, m \o q)
    <3> DEFINE M == m \o q
    <3>1. M \in Seq(Byte)
      BY <1>4, ConcatProperties
    <3>2. Grown(w, M)
      BY <1>9, <2>10
    <3> HIDE DEF M
    <3>3. v.chunk + 1 + 1 \in Nat /\ v.chunk + 1 \in Nat /\ At(v.chunk + 1 + 1) = At(v.chunk + 1) + chunkSize
          /\ At(v.chunk + 1) \in Nat
      <4>1. PICK c \in Nat : c = v.chunk + 1
        BY <1>1
      <4>2. At(c + 1) = At(c) + chunkSize /\ At(c) \in Nat
        BY AtFacts
      <4>3. QED
        BY <4>1, <4>2
    <3>4. /\ w.stalk.in = Content(M, v.chunk) /\ w.stalk.ds = 6 /\ ~w.stalk.squeezing /\ ~w.panicked
          /\ Len(M) = At(v.chunk + 1 + 1)
          /\ w.leaf.in = SubSeq(M, At(v.chunk + 1) + 1, Len(M))
      BY <1>8, <1>13, <3>2, <3>3 DEF Grown, Kept
    <3>5. /\ y.v.stalk.in = w.stalk.in \o h /\ y.v.stalk.ds = w.stalk.ds
          /\ y.v.stalk.squeezing = w.stalk.squeezing /\ ~y.v.panicked
      BY <2>5, <2>7, <3>4 DEF StalkWritten, After
    <3>6. \A i \in 1 .. 1 : h[i] = cv(SubSeq(M, At(v.chunk + i) + 1, At(v.chunk + i + 1)))
      BY <2>2, <3>4
    <3>9. ChunkHashes(h, M, v.chunk, 1)
      BY <2>2, <3>6 DEF ChunkHashes
    <3>7. Grown(y.v, M)
      <4>1. PICK c \in Nat, z \in State : c = v.chunk /\ z = y.v
        BY <1>1, <2>7
      <4>2. z.chunk = c + 1 /\ z.offset = 0 /\ (z.lanes = 1 => ~z.leaf.squeezing /\ z.leaf.in = <<>>)
        BY <2>3, <2>7, <4>1
      <4>3. /\ w.stalk.in = Content(M, c) /\ w.stalk.ds = 6 /\ ~w.stalk.squeezing
            /\ Len(M) = At(c + 1 + 1)
            /\ ChunkHashes(h, M, c, 1)
            /\ z.stalk.in = w.stalk.in \o h /\ z.stalk.ds = w.stalk.ds
            /\ z.stalk.squeezing = w.stalk.squeezing /\ ~z.panicked
        BY <3>4, <3>5, <3>9, <4>1
      <4>4. Grown(z, M)
        <5>1. w \in State /\ 1 \in Nat
          BY <1>8
        <5>2. QED
          BY <2>2, <3>1, <4>2, <4>3, <5>1, GrownHashed
      <4>5. QED
        BY <4>1, <4>4
    <3>8. QED
      BY <3>7 DEF M
  <2>11. QED
    BY <1>4, <1>10, <1>11, <2>7, <2>8, <2>9, <2>10 DEF TurnTaken
<1>14. QED
  BY <1>12, <1>13

\* The one-lane loop, for any set V of what its turns start from and end with:
\* it ends with all data taken.
LEMMA Loop ==
  ASSUME NEW V, NEW v, NEW p \in Seq(Byte), [v |-> v, p |-> p] \in V,
         \A x \in V : /\ x.p \in Seq(Byte)
                      /\ x.p # <<>> => writeLeaf(x) \in V /\ Len(writeLeaf(x).p) < Len(x.p)
  PROVE  \E x \in V : x.p = <<>> /\ x.v = writeLeaves(v, p)
<1> DEFINE n == Len(p)
           x0 == [v |-> v, p |-> p]
           Step(x) == IF x.p = <<>> THEN x ELSE writeLeaf(x)
           G == [a \in Nat \X V |-> Step(a[2])]
           Body(f) == [k \in 0 .. n |-> IF k = 0 THEN x0 ELSE Step(f[k - 1])]
           turn == CHOOSE f : f = Body(f)
<1>1. n \in Nat /\ x0 \in V /\ x0.p = p
  BY LenProperties
<1>2. \A x \in V : Step(x) \in V /\ x.p \in Seq(Byte) /\ (x.p # <<>> => Len(Step(x).p) < Len(x.p))
  OBVIOUS
<1>3. writeLeaves(v, p) = turn[n].v
  BY DEF writeLeaves
<1> HIDE DEF x0, Step, n
<1>4. G \in [Nat \X V -> V]
  BY <1>2
<1>5. PICK f \in [0 .. n -> V] : Follows(f, x0, G, n)
  <2> HIDE DEF G
  <2>1. QED
    BY <1>1, <1>4, RecursionUpTo
<1>6. f[0] = x0 /\ \A k \in 0 .. n - 1 : f[k + 1] = Step(f[k])
  <2>1. ASSUME NEW k \in 0 .. n - 1 PROVE f[k + 1] = Step(f[k])
    <3>1. k \in Nat /\ k \in 0 .. n
      BY <1>1
    <3>2. <<k, f[k]>> \in Nat \X V
      BY <1>5, <3>1
    <3>3. f[k + 1] = G[<<k, f[k]>>]
      BY <1>5, <2>1 DEF Follows
    <3>4. QED
      BY <3>2, <3>3
  <2>2. QED
    BY <1>5, <2>1 DEF Follows
<1>7. f = Body(f)
  <2>1. ASSUME NEW k \in 0 .. n PROVE f[k] = (IF k = 0 THEN x0 ELSE Step(f[k - 1]))
    <3>1. k # 0 => k - 1 \in 0 .. n - 1 /\ (k - 1) + 1 = k
      BY <1>1
    <3>2. QED
      BY <1>6, <3>1
  <2>2. QED
    BY <1>5, <2>1
<1>8. turn = Body(turn)
  <2> HIDE DEF Body
  <2>1. QED
    BY <1>7
<1> HIDE DEF turn
<1>9. turn[0] = x0 /\ \A k \in 0 .. n - 1 : turn[k + 1] = Step(turn[k])
  <2>1. \A k \in 0 .. n : turn[k] = IF k = 0 THEN x0 ELSE Step(turn[k - 1])
    BY <1>8
  <2>2. 0 \in 0 .. n
    BY <1>1
  <2>3. \A k \in 0 .. n - 1 : k + 1 \in 0 .. n /\ k + 1 # 0 /\ (k + 1) - 1 = k
    BY <1>1
  <2>4. QED
    BY <2>1, <2>2, <2>3
<1> DEFINE Good(k) == turn[k] \in V /\ (turn[k].p = <<>> \/ Len(turn[k].p) + k <= n)
           S == {k \in Nat : k <= n => Good(k)}
<1>10. 0 \in S
  <2>1. Len(x0.p) + 0 <= n
    BY <1>1 DEF n
  <2>2. QED
    BY <1>1, <1>9, <2>1
<1>11. ASSUME NEW k \in Nat, k \in S PROVE k + 1 \in S
  <2> SUFFICES ASSUME k + 1 <= n PROVE Good(k + 1)
    OBVIOUS
  <2>1. k \in 0 .. n - 1 /\ Good(k)
    BY <1>1, <1>11
  <2>2. PICK x \in V : x = turn[k]
    BY <2>1
  <2>3. PICK y : y = turn[k + 1]
    OBVIOUS
  <2>4. y = Step(x) /\ y \in V /\ y.p \in Seq(Byte) /\ x.p \in Seq(Byte)
    BY <1>2, <1>9, <2>1, <2>2, <2>3
  <2>5. CASE x.p = <<>>
    <3>1. y = x
      BY <2>4, <2>5 DEF Step
    <3>2. QED
      BY <2>3, <2>4, <2>5, <3>1
  <2>6. CASE x.p # <<>>
    <3>1. Len(y.p) < Len(x.p) /\ Len(x.p) + k <= n
      BY <1>2, <2>1, <2>2, <2>4, <2>6
    <3>2. Len(y.p) \in Nat /\ Len(x.p) \in Nat
      BY <2>4, LenProperties
    <3>3. Len(y.p) + (k + 1) <= n
      <4>1. \A a, b \in Nat : a < b /\ b + k <= n => a + (k + 1) <= n
        BY <1>1
      <4>2. QED
        BY <3>1, <3>2, <4>1
    <3>4. QED
      BY <2>3, <2>4, <3>3
  <2>7. QED
    BY <2>5, <2>6
<1>12. n \in S
  <2> HIDE DEF S
  <2>1. QED
    BY <1>1, <1>10, <1>11, Induction
<1>13. Good(n)
  BY <1>1, <1>12
<1>14. PICK x \in V : x = turn[n]
  BY <1>13
<1>15. x.p = <<>>
  <2>1. x.p \in Seq(Byte) /\ Len(x.p) \in Nat
    BY <1>2, LenProperties
  <2>2. x.p = <<>> \/ Len(x.p) = 0
    BY <1>1, <1>13, <1>14, <2>1
  <2>3. QED
    BY <2>1, <2>2, EmptySeq
<1>16. QED
  BY <1>3, <1>14, <1>15

\* Past the first chunk, v took p, and w is what came of it.
Took(v, p, w) == /\ w \in State /\ After(v, w)
                 /\ \A m \in Seq(Byte) : Grown(v, m) => Grown(w, m \o p)

Wrote(v, p, w) == Ready(w) /\ Took(v, p, w)

LEMMA TookTook ==
  ASSUME NEW v \in State, NEW w, NEW x, NEW p \in Seq(Byte), NEW q \in Seq(Byte),
         Took(v, p, w), Took(w, q, x)
  PROVE  Took(v, p \o q, x)
<1>1. w \in State /\ x \in State /\ After(v, x)
  BY AfterAfter DEF Took
<1>2. ASSUME NEW m \in Seq(Byte), Grown(v, m) PROVE Grown(x, m \o (p \o q))
  <2>1. m \o p \in Seq(Byte) /\ Grown(w, m \o p)
    BY <1>2, ConcatProperties DEF Took
  <2>2. Grown(x, (m \o p) \o q)
    BY <2>1 DEF Took
  <2>3. (m \o p) \o q = m \o (p \o q)
    BY BytesAssociate
  <2>4. QED
    BY <2>2, <2>3
<1>3. QED
  BY <1>1, <1>2 DEF Took

LEMMA WriteLeaves ==
  ASSUME K12Assumption, NilAssumption,
         NEW v, Ready(v), v.lanes = 1, NEW p \in Seq(Byte), NEW w, w = writeLeaves(v, p)
  PROVE  Wrote(v, p, w)
<1> DEFINE Is(x, q) == q \o x.p = p /\ \A m \in Seq(Byte) : Grown(v, m) => Grown(x.v, m \o q)
           V == {x \in [v : State, p : Seq(Byte)] : /\ Ready(x.v) /\ After(v, x.v)
                                                    /\ \E q \in Seq(Byte) : Is(x, q)}
<1>1. [v |-> v, p |-> p] \in V
  <2>1. v \in State
    BY DEF Ready, Filled
  <2>2. <<>> \in Seq(Byte) /\ <<>> \o p = p
    BY ConcatEmptySeq
  <2>3. \A m \in Seq(Byte) : m \o <<>> = m
    BY ConcatEmptySeq
  <2>4. PICK x : x = [v |-> v, p |-> p]
    OBVIOUS
  <2>5. x.v = v /\ x.p = p /\ x \in [v : State, p : Seq(Byte)]
    BY <2>1, <2>4
  <2>6. Is(x, <<>>)
    BY <2>2, <2>3, <2>5
  <2>7. QED
    BY <2>2, <2>4, <2>5, <2>6, AfterSame
<1>2. ASSUME NEW x \in V, x.p # <<>>
      PROVE  writeLeaf(x) \in V /\ Len(writeLeaf(x).p) < Len(x.p)
  <2>1. PICK a \in State, b \in Seq(Byte) : x = [v |-> a, p |-> b]
    OBVIOUS
  <2>2. Ready(a) /\ After(v, a) /\ a = x.v /\ b = x.p /\ b # <<>> /\ v \in State
    BY <1>2, <2>1 DEF Ready, Filled
  <2>3. a.lanes = 1
    BY <2>2 DEF After
  <2>4. PICK y : y = writeLeaf(x)
    OBVIOUS
  <2>5. TurnTaken(a, b, y)
    BY <2>1, <2>2, <2>3, <2>4, Turn
  <2>6. PICK q \in Seq(Byte) : Is(x, q)
    OBVIOUS
  <2>7. PICK r \in Seq(Byte) : /\ r \o y.p = b /\ Len(y.p) < Len(b)
                               /\ \A m \in Seq(Byte) : Grown(a, m) => Grown(y.v, m \o r)
    BY <2>5 DEF TurnTaken
  <2>8. /\ Ready(y.v) /\ After(a, y.v) /\ y \in [v : State, p : Seq(Byte)]
        /\ y.v \in State /\ y.p \in Seq(Byte)
    BY <2>5 DEF TurnTaken
  <2>9. After(v, y.v)
    BY <2>2, <2>8, AfterAfter
  <2>10. Is(y, q \o r)
    <3>1. (q \o r) \o y.p = p
      <4>1. (q \o r) \o y.p = q \o (r \o y.p)
        BY <2>8, BytesAssociate, ZenonT(30)
      <4>2. QED
        BY <2>2, <2>6, <2>7, <4>1
    <3>2. ASSUME NEW m \in Seq(Byte), Grown(v, m) PROVE Grown(y.v, m \o (q \o r))
      <4>1. Grown(a, m \o q)
        BY <2>2, <2>6, <3>2
      <4>2. m \o q \in Seq(Byte)
        BY ConcatProperties
      <4>3. Grown(y.v, (m \o q) \o r)
        BY <2>7, <4>1, <4>2
      <4>4. (m \o q) \o r = m \o (q \o r)
        BY BytesAssociate, ZenonT(30)
      <4>5. QED
        BY <4>3, <4>4
    <3>3. QED
      BY <3>1, <3>2
  <2>11. q \o r \in Seq(Byte)
    BY ConcatProperties
  <2>12. y \in V
    BY <2>8, <2>9, <2>10, <2>11
  <2>13. QED
    BY <2>2, <2>4, <2>7, <2>12
<1>3. \A x \in V : x.p \in Seq(Byte)
  OBVIOUS
<1>4. \E x \in V : x.p = <<>> /\ x.v = w
  <2> HIDE DEF V
  <2>1. QED
    BY <1>1, <1>2, <1>3, Loop
<1>5. PICK x \in V : x.p = <<>> /\ x.v = w
  BY <1>4
<1>6. PICK q \in Seq(Byte) : Is(x, q)
  OBVIOUS
<1>7. q = p
  <2>1. q \o <<>> = p
    BY <1>5, <1>6
  <2>2. q \o <<>> = q
    BY ConcatEmptySeq
  <2>3. QED
    BY <2>1, <2>2
<1>8. \A m \in Seq(Byte) : Grown(v, m) => Grown(w, m \o p)
  BY <1>5, <1>6, <1>7
<1>9. Ready(w) /\ After(v, w) /\ w \in State
  BY <1>5
<1>10. QED
  BY <1>8, <1>9 DEF Wrote, Took

\* Filling the buffer.
LEMMA Fill ==
  ASSUME K12Assumption, NilAssumption,
         NEW v, Filled(v), v.lanes # 1, NEW q \in Seq(Byte), v.offset + Len(q) <= Len(v.buf),
         NEW w, w = fill(v, q)
  PROVE  /\ Filled(w) /\ Took(v, q, w)
         /\ w.offset = v.offset + Len(q) /\ Len(w.buf) = Len(v.buf)
<1>1. /\ v \in State /\ v.buf \in Seq(Byte) /\ v.buf # nil /\ v.initialTodo = 0 /\ v.leaf = nil
      /\ Len(v.buf) = v.lanes * chunkSize /\ v.offset \in Nat
  BY DEF Filled, State
<1>2. PICK b \in Seq(Byte) : b = v.buf
  BY <1>1
<1>3. PICK o \in Nat : o = v.offset
  BY <1>1
<1>4. PICK n \in Nat : n = Len(q)
  BY LenProperties
<1>5. o + n <= Len(b) /\ Len(b) \in Nat /\ DOMAIN b = 1 .. Len(b) /\ o + n \in Nat
  BY <1>2, <1>3, <1>4, LenProperties
<1> DEFINE c == [i \in 1 .. Len(b) |-> IF i \in o + 1 .. o + n THEN q[i - o] ELSE b[i]]
<1>6. w = [v EXCEPT !.buf = c, !.offset = o + n]
  BY <1>1, <1>2, <1>3, <1>4, <1>5 DEF fill, State
<1>7. c \in [1 .. Len(b) -> Byte]
  <2>1. ASSUME NEW i \in 1 .. Len(b) PROVE (IF i \in o + 1 .. o + n THEN q[i - o] ELSE b[i]) \in Byte
    <3>1. i \in o + 1 .. o + n => i - o \in 1 .. Len(q)
      BY <1>4
    <3>2. QED
      BY <1>5, <3>1, ElementOfSeq
  <2>2. QED
    BY <2>1
<1>8. \A i \in 1 .. Len(b) : c[i] = IF i \in o + 1 .. o + n THEN q[i - o] ELSE b[i]
  OBVIOUS
<1> HIDE DEF c
<1>9. c \in Seq(Byte) /\ Len(c) = Len(b)
  BY <1>5, <1>7
<1>10. c # nil
  BY <1>9 DEF NilAssumption
<1>11. /\ w \in State /\ w.buf = c /\ w.offset = o + n /\ w.leaf = nil /\ w.lanes = v.lanes
       /\ w.initialTodo = 0 /\ w.stalk = v.stalk /\ w.chunk = v.chunk /\ w.panicked = v.panicked
       /\ w.context = v.context
  BY <1>1, <1>5, <1>6, <1>9 DEF State
<1>12. Filled(w) /\ w.offset = v.offset + Len(q) /\ Len(w.buf) = Len(v.buf)
  BY <1>1, <1>2, <1>3, <1>4, <1>5, <1>9, <1>10, <1>11 DEF Filled
<1>13. After(v, w)
  BY <1>11 DEF After
<1>14. Kept(w) = Kept(v) \o q
  <2> DEFINE x == Front(c, o + n)
             y == Front(b, o)
  <2>1. x \in Seq(Byte) /\ Len(x) = o + n
    BY <1>5, <1>9, FrontRest
  <2>2. y \in Seq(Byte) /\ Len(y) = o
    <3>1. o <= Len(b)
      BY <1>5
    <3>2. QED
      BY <3>1, FrontRest
  <2>3. \A i \in 1 .. o + n : x[i] = c[i]
    <3>1. \A i \in 1 .. (o + n) - 1 + 1 : SubSeq(c, 1, o + n)[i] = c[1 + i - 1]
      BY <1>5, <1>9, Part
    <3>2. (o + n) - 1 + 1 = o + n /\ \A i \in 1 .. o + n : 1 + i - 1 = i
      OBVIOUS
    <3>3. QED
      BY <3>1, <3>2 DEF Front
  <2>4. \A i \in 1 .. o : y[i] = b[i]
    <3>1. \A i \in 1 .. o - 1 + 1 : SubSeq(b, 1, o)[i] = b[1 + i - 1]
      BY <1>5, Part
    <3>2. o - 1 + 1 = o /\ \A i \in 1 .. o : 1 + i - 1 = i
      OBVIOUS
    <3>3. QED
      BY <3>1, <3>2 DEF Front
  <2> HIDE DEF x, y
  <2>5. /\ y \o q \in Seq(Byte) /\ Len(y \o q) = o + n
        /\ \A i \in 1 .. o + n : (y \o q)[i] = IF i <= o THEN y[i] ELSE q[i - o]
    BY <1>4, <2>2, ConcatProperties, ZenonT(30)
  <2>6. ASSUME NEW i \in 1 .. o + n PROVE x[i] = (y \o q)[i]
    <3>1. i \in 1 .. Len(b)
      BY <1>5
    <3>2. CASE i <= o
      <4>1. i \in 1 .. o /\ i \notin o + 1 .. o + n
        BY <3>2
      <4>2. QED
        BY <1>8, <2>3, <2>4, <2>5, <3>1, <3>2, <4>1
    <3>3. CASE ~(i <= o)
      <4>1. i \in o + 1 .. o + n
        BY <3>3
      <4>2. QED
        BY <1>8, <2>3, <2>5, <3>1, <3>3, <4>1
    <3>4. QED
      BY <3>2, <3>3
  <2>7. x = y \o q
    BY <2>1, <2>5, <2>6, SeqEqual
  <2>8. Kept(w) = x /\ Kept(v) = y
    BY <1>2, <1>3, <1>11 DEF Kept, x, y
  <2>9. QED
    BY <2>7, <2>8
<1>15. ASSUME NEW m \in Seq(Byte), Grown(v, m) PROVE Grown(w, m \o q)
  <2>1. ~w.panicked /\ w.lanes # 1
    BY <1>11, <1>15 DEF Grown
  <2>2. w.offset = v.offset + Len(q)
    BY <1>12
  <2>3. QED
    BY <1>1, <1>11, <1>14, <1>15, <2>1, <2>2, GrownMore
<1>16. QED
  BY <1>11, <1>12, <1>13, <1>15 DEF Took

\* The hashes of the first n chunks of p, which are the last ones of m.
LEMMA HashesOf ==
  ASSUME K12Assumption, NEW p \in Seq(Byte), NEW n \in Nat, At(n) <= Len(p),
         NEW h, h = [j \in 1 .. n |-> cv(SubSeq(p, (j - 1) * chunkSize + 1, j * chunkSize))]
  PROVE  /\ h \in Seq(Token)
         /\ \A m \in Seq(Byte) : \A c \in Nat : LastChunks(m, c, n, p) => ChunkHashes(h, m, c, n)
<1>1. Len(p) \in Nat /\ At(n) \in Nat
  BY AtFacts, LenProperties
<1>2. ASSUME NEW j \in 1 .. n
      PROVE  /\ j \in Nat /\ j - 1 \in Nat /\ At(j) \in Nat /\ At(j - 1) \in Nat
             /\ At(j) = At(j - 1) + chunkSize /\ At(j) <= At(n)
             /\ h[j] = cv(SubSeq(p, At(j - 1) + 1, At(j)))
             /\ SubSeq(p, At(j - 1) + 1, At(j)) \in Seq(Byte)
             /\ SubSeq(Front(p, At(n)), At(j - 1) + 1, At(j)) = SubSeq(p, At(j - 1) + 1, At(j))
  <2>1. PICK k \in Nat : k = j - 1
    OBVIOUS
  <2>2. j \in Nat /\ k + 1 = j /\ j <= n
    BY <2>1
  <2>3. At(k) \in Nat /\ At(k + 1) = At(k) + chunkSize
    BY AtFacts
  <2>4. At(j) \in Nat /\ At(j) <= At(n)
    BY <2>2, AtFacts
  <2>5. h[j] = cv(SubSeq(p, At(j - 1) + 1, At(j)))
    BY DEF At
  <2>6. PICK a \in Nat, b \in Nat : a = At(k) + 1 /\ b = At(j)
    BY <2>3, <2>4
  <2>7. 1 <= a /\ b <= Len(p) /\ b <= At(n)
    BY <1>1, <2>3, <2>4, <2>6
  <2>8. SubSeq(p, a, b) \in Seq(Byte)
    BY <2>7, Part
  <2>9. SubSeq(SubSeq(p, 1, At(n)), a, b) = SubSeq(p, a, b)
    <3>1. 1 \in Nat /\ 1 + b - 1 <= At(n) /\ 1 + a - 1 = a /\ 1 + b - 1 = b /\ 1 <= 1
      BY <1>1, <2>7
    <3>2. SubSeq(SubSeq(p, 1, At(n)), a, b) = SubSeq(p, 1 + a - 1, 1 + b - 1)
      BY <1>1, <2>7, <3>1, PartOfPart
    <3>3. QED
      BY <3>1, <3>2
  <2>10. QED
    BY <2>1, <2>2, <2>3, <2>4, <2>5, <2>6, <2>8, <2>9 DEF Front
<1>3. h \in Seq(Token) /\ Len(h) = n
  <2>1. \A j \in 1 .. n : h[j] \in Token
    BY <1>2, Tokens
  <2>2. h = [j \in 1 .. n |-> h[j]]
    OBVIOUS
  <2>3. h \in [1 .. n -> Token]
    BY <2>1, <2>2, Zenon
  <2>4. QED
    BY <2>3
<1>4. ASSUME NEW m \in Seq(Byte), NEW c \in Nat, Len(m) = At(c + n + 1),
             SubSeq(m, At(c + 1) + 1, Len(m)) = Front(p, At(n)), NEW i \in 1 .. n
      PROVE  h[i] = cv(SubSeq(m, At(c + i) + 1, At(c + i + 1)))
  <2>1. PICK k \in Nat, d \in Nat : k = i - 1 /\ d = c + 1
    OBVIOUS
  <2>2. c + i = d + k /\ c + i + 1 = d + i /\ c + n + 1 = d + n /\ i \in Nat
    BY <2>1
  <2>3. At(d + k) = At(d) + At(k) /\ At(d + i) = At(d) + At(i) /\ At(d + n) = At(d) + At(n) /\ At(d) \in Nat
    BY <2>2, AtFacts
  <2>4. /\ At(i) \in Nat /\ At(k) \in Nat /\ At(i) <= At(n)
        /\ h[i] = cv(SubSeq(p, At(k) + 1, At(i)))
        /\ SubSeq(Front(p, At(n)), At(k) + 1, At(i)) = SubSeq(p, At(k) + 1, At(i))
    BY <1>2, <2>1
  <2>5. PICK ad \in Nat, ak \in Nat, f \in Nat, an \in Nat :
          ad = At(d) /\ ak = At(k) /\ f = At(i) /\ an = At(n)
    BY <1>1, <2>3, <2>4
  <2>11. PICK a \in Nat, b \in Nat, e \in Nat : a = ad + 1 /\ b = ad + an /\ e = ak + 1
    OBVIOUS
  <2>12. Len(m) = b
    BY <1>4, <2>2, <2>3, <2>5, <2>11
  <2>13. f <= an
    BY <2>4, <2>5
  <2>6. 1 <= a /\ b <= Len(m) /\ 1 <= e /\ a + f - 1 <= b
    BY <2>11, <2>12, <2>13
  <2>7. SubSeq(SubSeq(m, a, b), e, f) = SubSeq(m, a + e - 1, a + f - 1)
    BY <2>6, PartOfPart
  <2>8. a + e - 1 = At(c + i) + 1 /\ a + f - 1 = At(c + i + 1)
    <3>1. At(c + i) = ad + ak /\ At(c + i + 1) = ad + f
      BY <2>2, <2>3, <2>5
    <3>2. a + e - 1 = ad + ak + 1 /\ a + f - 1 = ad + f
      BY <2>11
    <3>3. QED
      BY <3>1, <3>2
  <2>9. SubSeq(m, a, b) = Front(p, At(n))
    BY <1>4, <2>1, <2>5, <2>11, <2>12
  <2>10. QED
    BY <2>4, <2>5, <2>7, <2>8, <2>9, <2>11
<1>5. QED
  BY <1>3, <1>4 DEF LastChunks, ChunkHashes

\* The whole groups of lanes in p.
LEMMA WholeGroups ==
  ASSUME K12Assumption, NEW v \in State, NEW p \in Seq(Byte)
  PROVE  /\ Whole(v, p) \in Nat /\ At(Whole(v, p)) <= Len(p)
         /\ Len(p) - At(Whole(v, p)) < v.lanes * chunkSize
         /\ Len(p) = v.lanes * chunkSize => Whole(v, p) = v.lanes
         /\ p = <<>> => Whole(v, p) = 0
<1>1. PICK l \in Nat, c \in Nat, n \in Nat : l = v.lanes /\ c = chunkSize /\ n = Len(p)
  BY Constants, LenProperties DEF State
<1>2. l >= 1 /\ c >= 1
  BY <1>1, Constants DEF State
<1>3. PICK w \in Nat : w = l * c
  OBVIOUS
<1>4. w >= 1
  BY <1>2, <1>3
<1>5. PICK d \in Nat : d = n \div w
  BY <1>4, SMTT(30)
<1>6. d * w <= n /\ n - d * w < w
  BY <1>4, <1>5
<1>7. d * l \in Nat /\ (d * l) * c = d * w
  BY <1>3
<1>8. Whole(v, p) = d * l
  BY <1>1, <1>3, <1>5 DEF Whole
<1>9. At(Whole(v, p)) = d * w
  BY <1>1, <1>7, <1>8 DEF At
<1>10. n = w => d = 1
  BY <1>4, <1>5
<1>11. p = <<>> => d = 0
  BY <1>1, <1>4, <1>5
<1>12. (d = 1 => d * l = l) /\ (d = 0 => d * l = 0)
  OBVIOUS
<1>13. QED
  BY <1>1, <1>3, <1>6, <1>7, <1>8, <1>9, <1>10, <1>11, <1>12

\* The hashes of the whole chunks of p were written to the stalk of v.
Hashed(v, p, n, h, w) ==
  /\ w \in State /\ After(v, w)
  /\ w.initialTodo = v.initialTodo /\ w.buf = v.buf /\ w.offset = v.offset
  /\ w.chunk = v.chunk + n /\ w.leaf = v.leaf /\ w.stalk.ds = v.stalk.ds
  /\ ~v.stalk.squeezing => w.stalk.in = v.stalk.in \o h /\ w.panicked = v.panicked
  /\ h = [j \in 1 .. n |-> cv(SubSeq(p, (j - 1) * chunkSize + 1, j * chunkSize))]

LEMMA WriteX ==
  ASSUME K12Assumption, NEW v \in State, NEW p \in Seq(Byte), NEW w, w = writeX(v, p)
  PROVE  \E h \in Seq(Token) : Hashed(v, p, Whole(v, p), h, w)
<1>1. PICK n \in Nat : n = Whole(v, p) /\ At(n) <= Len(p)
  BY WholeGroups
<1>2. PICK h : h = [j \in 1 .. n |-> cv(SubSeq(p, (j - 1) * chunkSize + 1, j * chunkSize))]
  OBVIOUS
<1>3. h \in Seq(Token)
  BY <1>1, <1>2, HashesOf
<1>4. v.chunk \in Nat /\ v.stalk.in \in Seq(Token)
  BY DEF State, Stalk
<1>5. CASE n = 0
  <2>1. w = v
    BY <1>1, <1>5 DEF writeX
  <2>2. h = <<>>
    BY <1>2, <1>5
  <2>3. v.stalk.in \o <<>> = v.stalk.in
    BY <1>4, ConcatEmptySeq
  <2>4. Hashed(v, p, n, h, w)
    BY <1>2, <1>4, <1>5, <2>1, <2>2, <2>3, AfterSame DEF Hashed
  <2>5. QED
    BY <1>1, <1>3, <2>4
<1>6. CASE n # 0
  <2>1. PICK x : x = stalkWrite(v, h)
    OBVIOUS
  <2>2. StalkWritten(v, h, x)
    BY <1>3, <2>1, StalkWrite
  <2>3. x \in State /\ x.chunk = v.chunk /\ After(v, x)
    BY <2>2 DEF StalkWritten
  <2>4. w = [x EXCEPT !.chunk = v.chunk + n]
    <3>1. w = [x EXCEPT !.chunk = @ + n]
      BY <1>1, <1>2, <1>6, <2>1 DEF writeX
    <3>2. QED
      BY <2>3, <3>1 DEF State
  <2>5. v.chunk + n \in Nat
    BY <1>4
  <2>6. /\ w \in State /\ w.initialTodo = x.initialTodo /\ w.buf = x.buf /\ w.offset = x.offset
        /\ w.chunk = v.chunk + n /\ w.leaf = x.leaf /\ w.stalk = x.stalk /\ w.panicked = x.panicked
        /\ w.lanes = x.lanes /\ w.context = x.context
    BY <2>3, <2>4, <2>5 DEF State
  <2>7. After(v, w)
    BY <2>3, <2>6 DEF After
  <2>8. Hashed(v, p, n, h, w)
    BY <1>2, <2>2, <2>6, <2>7 DEF Hashed, StalkWritten
  <2>9. QED
    BY <1>1, <1>3, <2>8
<1>7. QED
  BY <1>5, <1>6

\* When the buffer is full its chunks are hashed.
LEMMA Flush ==
  ASSUME K12Assumption, NilAssumption,
         NEW v, Filled(v), v.lanes # 1, v.offset = Len(v.buf),
         NEW w, w = [writeX(v, v.buf) EXCEPT !.offset = 0]
  PROVE  Wrote(v, <<>>, w) /\ w.offset = 0 /\ Len(w.buf) = Len(v.buf)
<1>1. /\ v \in State /\ v.buf \in Seq(Byte) /\ v.buf # nil /\ v.initialTodo = 0 /\ v.leaf = nil
      /\ Len(v.buf) = v.lanes * chunkSize /\ v.offset \in Nat /\ v.lanes \in Nat \ {0} /\ v.chunk \in Nat
  BY DEF Filled, State
<1>2. PICK n \in Nat, c \in Nat, p \in Seq(Byte) : n = v.lanes /\ c = v.chunk /\ p = v.buf
  BY <1>1
<1>3. Whole(v, p) = n
  BY <1>1, <1>2, WholeGroups
<1>4. At(n) = Len(p)
  BY <1>1, <1>2 DEF At
<1>5. PICK x : x = writeX(v, p)
  OBVIOUS
<1>6. PICK h \in Seq(Token) : Hashed(v, p, n, h, x)
  BY <1>1, <1>3, <1>5, WriteX
<1>7. x \in State /\ After(v, x) /\ x.buf = p /\ x.initialTodo = 0 /\ x.leaf = nil /\ x.chunk = c + n
      /\ x.stalk.ds = v.stalk.ds
      /\ (~v.stalk.squeezing => x.stalk.in = v.stalk.in \o h /\ x.panicked = v.panicked)
  BY <1>1, <1>2, <1>6 DEF Hashed
<1>8. w = [x EXCEPT !.offset = 0]
  BY <1>2, <1>5
<1>9. /\ w \in State /\ w.buf = p /\ w.offset = 0 /\ w.initialTodo = 0 /\ w.leaf = nil /\ w.chunk = c + n
      /\ w.stalk = x.stalk /\ w.panicked = x.panicked /\ w.lanes = x.lanes /\ w.context = x.context
  BY <1>7, <1>8 DEF State
<1>10. After(v, w) /\ w.lanes = n
  BY <1>2, <1>7, <1>9 DEF After
<1>11. Len(p) = n * chunkSize /\ Len(p) # 0
  <2>1. n >= 1 /\ chunkSize >= 1 /\ chunkSize \in Nat
    BY <1>1, <1>2, Constants
  <2>2. n * chunkSize >= 1
    <3>1. At(1) <= At(n) /\ At(1) = chunkSize /\ At(n) \in Nat
      BY <2>1, AtFacts
    <3>2. QED
      BY <2>1, <3>1 DEF At
  <2>3. QED
    BY <1>1, <1>2, <2>2
<1>12. Ready(w)
  BY <1>1, <1>2, <1>9, <1>10, <1>11 DEF Ready, Filled
<1>13. ASSUME NEW m \in Seq(Byte), Grown(v, m) PROVE Grown(w, m)
  <2>1. PICK e \in Nat, a \in Nat : e = At(c + 1) /\ a = At(n)
    <3>1. c + 1 \in Nat
      OBVIOUS
    <3>2. QED
      BY <3>1, AtFacts
  <2>2. At(c + n + 1) = e + a
    <3>1. PICK d \in Nat : d = c + 1
      OBVIOUS
    <3>2. At(d + n) = At(d) + At(n)
      BY AtFacts
    <3>3. c + n + 1 = d + n
      BY <3>1
    <3>4. QED
      BY <2>1, <3>1, <3>2, <3>3
  <2>3. /\ v.stalk.in = Content(m, c) /\ v.stalk.ds = 6 /\ ~v.stalk.squeezing /\ ~v.panicked
        /\ Len(m) = e + a
        /\ SubSeq(m, e + 1, Len(m)) = Front(p, At(n))
    BY <1>1, <1>2, <1>4, <1>13, <2>1 DEF Grown, Kept
  <2>4. ChunkHashes(h, m, c, n)
    <3>1. At(n) <= Len(p)
      BY <1>4, <2>1
    <3>2. h = [j \in 1 .. n |-> cv(SubSeq(p, (j - 1) * chunkSize + 1, j * chunkSize))]
      BY <1>6 DEF Hashed
    <3>3. LastChunks(m, c, n, p)
      BY <2>1, <2>2, <2>3 DEF LastChunks
    <3>4. QED
      BY <3>1, <3>2, <3>3, HashesOf
  <2>5. /\ w.stalk.in = v.stalk.in \o h /\ w.stalk.ds = v.stalk.ds
        /\ w.stalk.squeezing = v.stalk.squeezing /\ ~w.panicked
    BY <1>7, <1>9, <2>3 DEF After
  <2>6. Len(m) = At(c + n + 1) /\ w.lanes # 1
    BY <1>2, <1>10, <2>2, <2>3
  <2>7. QED
    BY <1>1, <1>9, <2>3, <2>4, <2>5, <2>6, GrownHashed
<1>14. \A m \in Seq(Byte) : m \o <<>> = m
  BY ConcatEmptySeq
<1>15. QED
  BY <1>2, <1>9, <1>10, <1>12, <1>13, <1>14 DEF Wrote, Took

\* Whole groups of chunks are hashed straight from the argument.
LEMMA Direct ==
  ASSUME K12Assumption, NilAssumption,
         NEW v, Ready(v), v.lanes # 1, v.offset = 0, NEW p \in Seq(Byte), NEW w, w = writeX(v, p)
  PROVE  Wrote(v, Front(p, At(Whole(v, p))), w) /\ w.offset = 0 /\ Len(w.buf) = Len(v.buf)
<1>1. /\ v \in State /\ v.buf \in Seq(Byte) /\ v.buf # nil /\ v.initialTodo = 0 /\ v.leaf = nil
      /\ Len(v.buf) = v.lanes * chunkSize /\ v.chunk \in Nat /\ 0 # Len(v.buf)
  BY DEF Ready, Filled, State
<1>2. PICK n \in Nat, c \in Nat : n = Whole(v, p) /\ c = v.chunk /\ At(n) <= Len(p)
  BY <1>1, WholeGroups
<1>3. PICK h \in Seq(Token) : Hashed(v, p, n, h, w)
  BY <1>1, <1>2, WriteX
<1>4. w \in State /\ After(v, w) /\ w.buf = v.buf /\ w.initialTodo = 0 /\ w.leaf = nil /\ w.chunk = c + n
      /\ w.stalk.ds = v.stalk.ds /\ w.offset = 0
      /\ (~v.stalk.squeezing => w.stalk.in = v.stalk.in \o h /\ w.panicked = v.panicked)
  BY <1>1, <1>2, <1>3 DEF Hashed
<1>5. w.lanes = v.lanes
  BY <1>4 DEF After
<1>6. Ready(w)
  BY <1>1, <1>4, <1>5 DEF Ready, Filled
<1>7. PICK a \in Nat : a = At(n)
  BY AtFacts
<1>8. PICK q \in Seq(Byte) : q = Front(p, a) /\ Len(q) = a
  BY <1>2, <1>7, FrontRest
<1>9. ASSUME NEW m \in Seq(Byte), Grown(v, m) PROVE Grown(w, m \o q)
  <2>1. PICK e \in Nat : e = At(c + 1)
    <3>1. c + 1 \in Nat
      OBVIOUS
    <3>2. QED
      BY <3>1, AtFacts
  <2>2. At(c + n + 1) = e + a
    <3>1. PICK d \in Nat : d = c + 1
      OBVIOUS
    <3>2. At(d + n) = At(d) + At(n)
      BY AtFacts
    <3>3. c + n + 1 = d + n
      BY <3>1
    <3>4. QED
      BY <1>7, <2>1, <3>1, <3>2, <3>3
  <2>3. /\ v.stalk.in = Content(m, c) /\ v.stalk.ds = 6 /\ ~v.stalk.squeezing /\ ~v.panicked
        /\ Len(m) = e
    BY <1>2, <1>9, <2>1 DEF Grown
  <2>4. PICK M \in Seq(Byte) : M = m \o q /\ Len(M) = e + a
    <3>1. m \o q \in Seq(Byte) /\ Len(m \o q) = Len(m) + Len(q)
      BY ConcatProperties
    <3>2. QED
      BY <1>8, <2>3, <3>1
  <2>5. Content(M, c) = Content(m, c)
    <3>1. At(c + 1) <= Len(m)
      BY <2>1, <2>3
    <3>2. QED
      BY <2>4, <3>1, ContentKept
  <2>6. SubSeq(M, e + 1, Len(M)) = q
    <3>1. SubSeq(m \o q, Len(m) + 1, Len(m) + Len(q)) = q
      BY LastPart
    <3>2. QED
      BY <1>8, <2>3, <2>4, <3>1
  <2>7. ChunkHashes(h, M, c, n)
    <3>1. h = [j \in 1 .. n |-> cv(SubSeq(p, (j - 1) * chunkSize + 1, j * chunkSize))]
      BY <1>3 DEF Hashed
    <3>2. LastChunks(M, c, n, p)
      BY <1>7, <1>8, <2>1, <2>2, <2>4, <2>6 DEF LastChunks
    <3>3. QED
      BY <1>2, <3>1, <3>2, HashesOf
  <2>8. /\ w.stalk.in = v.stalk.in \o h /\ w.stalk.ds = v.stalk.ds
        /\ w.stalk.squeezing = v.stalk.squeezing /\ ~w.panicked
    BY <1>4, <2>3 DEF After
  <2>9. Len(M) = At(c + n + 1) /\ w.lanes # 1 /\ v.stalk.in = Content(M, c)
    BY <1>5, <2>2, <2>3, <2>4, <2>5
  <2>10. Grown(w, M)
    BY <1>1, <1>4, <2>3, <2>7, <2>8, <2>9, GrownHashed
  <2>11. QED
    BY <2>4, <2>10
<1>10. QED
  BY <1>2, <1>4, <1>6, <1>7, <1>8, <1>9 DEF Wrote, Took

LEMMA WriteLanes ==
  ASSUME K12Assumption, NilAssumption,
         NEW v, Ready(v), v.lanes # 1, NEW p \in Seq(Byte), NEW w, w = writeLanes(v, p)
  PROVE  Wrote(v, p, w)
<1> DEFINE to == IF v.offset # 0 \/ Len(p) < Len(v.buf) THEN min(Len(v.buf) - v.offset, Len(p))
                                                       ELSE 0
           q == Front(p, to)
           r == Rest(p, to)
           v1 == fill(v, q)
           v2 == IF v1.offset = Len(v1.buf) THEN [writeX(v1, v1.buf) EXCEPT !.offset = 0] ELSE v1
           v3 == writeX(v2, r)
           r2 == Rest(r, Whole(v, r) * chunkSize)
<1>1. w = IF r # <<>> /\ v2.offset # 0 THEN [v EXCEPT !.panicked = TRUE]
          ELSE IF r2 = <<>> THEN v3
          ELSE fill([v3 EXCEPT !.offset = 0], r2)
  BY DEF writeLanes
<1>2. PICK b \in Nat, o \in Nat, n \in Nat : b = Len(v.buf) /\ o = v.offset /\ n = Len(p) /\ o < b
  <2>1. v.buf \in Seq(Byte) /\ v.offset \in Nat /\ v.offset <= Len(v.buf) /\ v.offset # Len(v.buf)
    BY DEF Ready, Filled, State
  <2>2. QED
    BY <2>1, LenProperties
<1>3. v \in State /\ Filled(v) /\ b = v.lanes * chunkSize
  BY <1>2 DEF Ready, Filled
<1>4. /\ to \in Nat /\ to <= n /\ o + to <= b
      /\ to < n => o + to = b \/ (to = 0 /\ o = 0)
  <2>1. to = IF o # 0 \/ n < b THEN IF b - o < n THEN b - o ELSE n ELSE 0
    BY <1>2 DEF min
  <2> HIDE DEF to
  <2>2. o \in Nat /\ b \in Nat /\ n \in Nat /\ o < b
    BY <1>2
  <2>3. CASE o # 0 \/ n < b
    <3>1. to = IF b - o < n THEN b - o ELSE n
      BY <2>1, <2>3
    <3>2. CASE b - o < n
      <4>1. to = b - o
        BY <3>1, <3>2
      <4>2. QED
        BY <2>2, <3>2, <4>1
    <3>3. CASE ~(b - o < n)
      <4>1. to = n
        BY <3>1, <3>3
      <4>2. QED
        BY <2>2, <3>3, <4>1
    <3>4. QED
      BY <3>2, <3>3
  <2>4. CASE ~(o # 0 \/ n < b)
    <3>1. to = 0
      BY <2>1, <2>4
    <3>2. QED
      BY <2>2, <2>4, <3>1
  <2>5. QED
    BY <2>3, <2>4
<1> HIDE DEF to
<1>5. q \in Seq(Byte) /\ Len(q) = to /\ r \in Seq(Byte) /\ Len(r) = n - to /\ q \o r = p
  BY <1>2, <1>4, FrontRest
<1> HIDE DEF q, r
<1>6. Filled(v1) /\ Took(v, q, v1) /\ v1.offset = o + to /\ Len(v1.buf) = b
  <2>1. v.offset + Len(q) <= Len(v.buf)
    BY <1>2, <1>4, <1>5
  <2>2. PICK x : x = v1
    OBVIOUS
  <2>3. Filled(x) /\ Took(v, q, x) /\ x.offset = v.offset + Len(q) /\ Len(x.buf) = Len(v.buf)
    BY <1>3, <1>5, <2>1, <2>2, Fill
  <2>4. QED
    BY <1>2, <1>5, <2>2, <2>3
<1> HIDE DEF v1
<1>7. v1.lanes = v.lanes
  BY <1>6 DEF Took, After
<1>8. Ready(v2) /\ Took(v1, <<>>, v2) /\ Len(v2.buf) = b /\ (r # <<>> => v2.offset = 0)
  <2>1. CASE v1.offset = Len(v1.buf)
    <3>1. v2 = [writeX(v1, v1.buf) EXCEPT !.offset = 0]
      BY <2>1
    <3> HIDE DEF v2
    <3>2. Wrote(v1, <<>>, v2) /\ v2.offset = 0 /\ Len(v2.buf) = Len(v1.buf)
      BY <1>6, <1>7, <2>1, <3>1, Flush
    <3>3. QED
      BY <1>6, <3>2 DEF Wrote
  <2>2. CASE v1.offset # Len(v1.buf)
    <3>1. v2 = v1
      BY <2>2
    <3> HIDE DEF v2
    <3>2. Ready(v2) /\ v2 \in State
      BY <1>6, <1>7, <2>2, <3>1 DEF Ready, Filled
    <3>3. \A m \in Seq(Byte) : m \o <<>> = m
      BY ConcatEmptySeq
    <3>4. Took(v1, <<>>, v2)
      BY <3>1, <3>2, <3>3, AfterSame DEF Took
    <3>5. r # <<>> => v2.offset = 0
      <4>1. r # <<>> => n - to # 0
        BY <1>5, EmptySeq
      <4>2. o + to # b
        BY <1>6, <2>2
      <4>3. QED
        <5>1. v1.offset = o + to
          BY <1>6
        <5>2. QED
          BY <1>2, <1>4, <3>1, <4>1, <4>2, <5>1
    <3>6. QED
      BY <1>6, <3>1, <3>2, <3>4, <3>5
  <2>3. QED
    BY <2>1, <2>2
<1> HIDE DEF v2
<1>9. v2.lanes = v.lanes /\ v2 \in State
  BY <1>7, <1>8 DEF Took, After
<1>10. Took(v, q, v2)
  <2>1. <<>> \in Seq(Byte) /\ q \o <<>> = q
    BY <1>5, ConcatEmptySeq
  <2>2. Took(v, q \o <<>>, v2)
    BY <1>3, <1>5, <1>6, <1>8, <2>1, TookTook
  <2>3. QED
    BY <2>1, <2>2
<1>11. Whole(v, r) = Whole(v2, r)
  BY <1>9 DEF Whole
<1>12. CASE r = <<>>
  <2>1. Whole(v, r) = 0
    BY <1>3, <1>5, <1>12, WholeGroups
  <2>2. v3 = v2
    BY <1>11, <2>1 DEF writeX
  <2>3. r2 = <<>>
    <3>1. 0 * chunkSize = 0
      BY Constants
    <3>2. r2 = SubSeq(<<>>, 1, 0)
      BY <1>12, <2>1, <3>1 DEF Rest
    <3>3. QED
      BY <3>2, SubSeqEmpty
  <2>4. w = v2
    BY <1>1, <1>12, <2>2, <2>3
  <2>5. q = p
    BY <1>5, <1>12, ConcatEmptySeq
  <2>6. QED
    BY <1>8, <1>10, <2>4, <2>5 DEF Wrote
<1>13. CASE r # <<>>
  <2> DEFINE d == At(Whole(v, r))
             q2 == Front(r, d)
  <2>1. v2.offset = 0
    BY <1>8, <1>13
  <2>2. d \in Nat /\ d <= Len(r) /\ Len(r) - d < b
    BY <1>3, <1>5, AtFacts, WholeGroups
  <2>3. r2 = Rest(r, d)
    BY DEF At
  <2> HIDE DEF d
  <2>4. q2 \in Seq(Byte) /\ r2 \in Seq(Byte) /\ Len(r2) = Len(r) - d /\ q2 \o r2 = r
    <3>1. PICK x \in Nat : x = d /\ x <= Len(r)
      BY <2>2
    <3>2. /\ Front(r, x) \in Seq(Byte) /\ Rest(r, x) \in Seq(Byte)
          /\ Len(Rest(r, x)) = Len(r) - x /\ Front(r, x) \o Rest(r, x) = r
      BY <1>5, <3>1, FrontRest
    <3> HIDE DEF r2
    <3>3. QED
      BY <2>3, <3>1, <3>2
  <2> HIDE DEF q2
  <2>5. Wrote(v2, q2, v3) /\ v3.offset = 0 /\ Len(v3.buf) = b
    <3>1. PICK x : x = v3
      OBVIOUS
    <3>2. x = writeX(v2, r)
      BY <3>1
    <3>3. Wrote(v2, Front(r, At(Whole(v2, r))), x) /\ x.offset = 0 /\ Len(x.buf) = Len(v2.buf)
      BY <1>5, <1>8, <1>9, <2>1, <3>2, Direct
    <3>4. QED
      BY <1>8, <1>11, <3>1, <3>3 DEF d, q2
  <2> HIDE DEF v3, r2
  <2>6. Ready(v3) /\ Took(v2, q2, v3) /\ v3 \in State
    BY <2>5 DEF Wrote, Took
  <2>7. v3.lanes = v.lanes
    BY <1>9, <2>6 DEF Took, After
  <2>8. Took(v, q \o q2, v3) /\ q \o q2 \in Seq(Byte)
    BY <1>3, <1>5, <1>10, <2>4, <2>6, TookTook, ConcatProperties
  <2>9. (q \o q2) \o r2 = p
    <3>1. (q \o q2) \o r2 = q \o (q2 \o r2)
      <4>1. q \in Seq(Byte) /\ q2 \in Seq(Byte) /\ r2 \in Seq(Byte)
        BY <1>5, <2>4
      <4>2. QED
        BY <4>1, BytesAssociate, ZenonT(30)
    <3>2. QED
      BY <1>5, <2>4, <3>1
  <2>10. CASE r2 = <<>>
    <3>1. w = v3
      BY <1>1, <2>1, <2>10
    <3>2. q \o q2 = p
      <4>1. (q \o q2) \o <<>> = q \o q2
        BY <2>8, ConcatEmptySeq
      <4>2. QED
        BY <2>9, <2>10, <4>1
    <3>3. QED
      BY <2>6, <2>8, <3>1, <3>2 DEF Wrote
  <2>11. CASE r2 # <<>>
    <3>1. [v3 EXCEPT !.offset = 0] = v3
      BY <2>5, <2>6 DEF State
    <3>2. w = fill(v3, r2)
      BY <1>1, <2>1, <2>11, <3>1
    <3>3. Filled(v3) /\ v3.lanes # 1 /\ v3.offset + Len(r2) <= Len(v3.buf) /\ Len(r2) < b
      <4>1. Len(r2) \in Nat
        BY <2>4, LenProperties
      <4>2. Len(r2) < b
        BY <2>2, <2>4
      <4>3. QED
        BY <2>5, <2>6, <2>7, <4>1, <4>2 DEF Ready
    <3>4. Filled(w) /\ Took(v3, r2, w) /\ w.offset = v3.offset + Len(r2) /\ Len(w.buf) = Len(v3.buf)
      BY <2>4, <3>2, <3>3, Fill
    <3>5. w.lanes # 1
      BY <3>3, <3>4 DEF Took, After
    <3>6. Ready(w)
      <4>1. w.offset = Len(r2)
        BY <2>4, <2>5, <3>4, LenProperties
      <4>2. w.offset # Len(w.buf)
        BY <2>4, <2>5, <3>3, <3>4, <4>1, LenProperties
      <4>3. QED
        BY <3>4, <3>5, <4>2 DEF Ready
    <3>7. Took(v, (q \o q2) \o r2, w)
      BY <1>3, <2>4, <2>8, <3>4, TookTook
    <3>8. QED
      BY <2>9, <3>6, <3>7 DEF Wrote
  <2>12. QED
    BY <2>10, <2>11
<1>14. QED
  BY <1>12, <1>13

-----------------------------------------------------------------------------
(* A write *)

Shape(v) == Young(v) \/ Ready(v)

\* v has absorbed m.
Absorbed(v, m) ==
  /\ ~v.stalk.squeezing /\ ~v.panicked
  /\ v.buf = nil => /\ Len(m) + v.initialTodo = chunkSize
                    /\ v.chunk = 0 /\ v.stalk.in = m
  /\ v.buf # nil => Grown(v, m) /\ Len(m) > chunkSize

\* Any write leaves a State whole, undoes nothing, and takes a leaf only with a
\* buffer; before output begins it absorbs what is written.
Written(v, p, w) ==
  /\ Shape(w) /\ After(v, w)
  /\ w.buf = nil => v.buf = nil /\ w.leaf = v.leaf
  /\ \A m \in Seq(Byte) : Absorbed(v, m) => Absorbed(w, m \o p)

LEMMA WriteMore ==
  ASSUME K12Assumption, NilAssumption,
         NEW v, Ready(v), NEW p \in Seq(Byte), NEW w,
         w = IF v.lanes = 1 THEN writeLeaves(v, p) ELSE writeLanes(v, p)
  PROVE  Wrote(v, p, w)
<1>1. CASE v.lanes = 1
  BY <1>1, WriteLeaves
<1>2. CASE v.lanes # 1
  BY <1>2, WriteLanes
<1>3. QED
  BY <1>1, <1>2

LEMMA WriteWrites ==
  ASSUME K12Assumption, NilAssumption, NEW v, Shape(v), NEW p \in Seq(Byte), NEW w, w = write(v, p)
  PROVE  Written(v, p, w)
<1> DEFINE taken == min(v.initialTodo, Len(p))
           f == Front(p, taken)
           r == Rest(p, taken)
           v1 == IF v.initialTodo > 0
                   THEN [stalkWrite(v, f) EXCEPT !.initialTodo = @ - taken]
                   ELSE v
           v2 == IF v1.buf = nil THEN grow(v1) ELSE v1
<1>1. w = IF r = <<>> THEN v1
          ELSE IF v2.lanes = 1 THEN writeLeaves(v2, r) ELSE writeLanes(v2, r)
  BY DEF write
<1>2. v \in State
  BY DEF Shape, Young, Ready, Filled
<1>3. PICK t \in Nat, n \in Nat : t = v.initialTodo /\ n = Len(p)
  BY <1>2, LenProperties DEF State
<1>4. taken \in Nat /\ taken <= n /\ taken <= t /\ (taken < n => taken = t)
  BY <1>3 DEF min
<1> HIDE DEF taken
<1>5. f \in Seq(Byte) /\ Len(f) = taken /\ r \in Seq(Byte) /\ Len(r) = n - taken /\ f \o r = p
  BY <1>3, <1>4, FrontRest
<1>6. r # <<>> => taken = t
  <2>1. r # <<>> => n - taken # 0
    BY <1>5, EmptySeq
  <2>2. QED
    BY <1>3, <1>4, <2>1
<1> HIDE DEF f, r
<1>7. /\ v1 \in State /\ After(v, v1) /\ v1.initialTodo = t - taken /\ v1.buf = v.buf
      /\ v1.offset = v.offset /\ v1.chunk = v.chunk /\ v1.leaf = v.leaf /\ v1.stalk.ds = v.stalk.ds
      /\ ~v.stalk.squeezing => v1.stalk.in = v.stalk.in \o f /\ v1.panicked = v.panicked
  <2>1. CASE t > 0
    <3>1. f \in Seq(Token)
      BY <1>5, Tokens
    <3>2. PICK x : x = stalkWrite(v, f)
      OBVIOUS
    <3>3. StalkWritten(v, f, x)
      BY <1>2, <3>1, <3>2, StalkWrite
    <3>4. x \in State /\ After(v, x) /\ x.initialTodo = t
      BY <1>3, <3>3 DEF StalkWritten
    <3>5. v1 = [x EXCEPT !.initialTodo = t - taken]
      BY <1>3, <2>1, <3>2, <3>4 DEF State
    <3> HIDE DEF v1
    <3>6. t - taken \in Nat
      BY <1>3, <1>4
    <3>7. /\ v1 \in State /\ v1.initialTodo = t - taken /\ v1.buf = x.buf /\ v1.offset = x.offset
          /\ v1.chunk = x.chunk /\ v1.leaf = x.leaf /\ v1.stalk = x.stalk /\ v1.panicked = x.panicked
          /\ v1.lanes = x.lanes /\ v1.context = x.context
      BY <3>4, <3>5, <3>6 DEF State
    <3>8. After(v, v1)
      BY <3>4, <3>7 DEF After
    <3>9. QED
      BY <3>3, <3>7, <3>8 DEF StalkWritten
  <2>2. CASE t = 0
    <3>1. v1 = v
      BY <1>3, <2>2
    <3> HIDE DEF v1
    <3>2. taken = 0 /\ t - taken = t
      BY <1>4, <2>2
    <3>3. f = <<>>
      BY <1>5, <3>2, EmptySeq
    <3>4. v.stalk.in \in Seq(Token)
      BY <1>2 DEF State, Stalk
    <3>5. v.stalk.in \o <<>> = v.stalk.in
      BY <3>4, ConcatEmptySeq
    <3>6. QED
      BY <1>2, <1>3, <3>1, <3>2, <3>3, <3>5, AfterSame
  <2>3. QED
    BY <1>3, <2>1, <2>2
<1> HIDE DEF v1
<1>8. v1.lanes = v.lanes
  BY <1>7 DEF After
<1>9. CASE v.buf # nil
  <2>1. Ready(v) /\ t = 0 /\ taken = 0
    <3>1. Ready(v)
      BY <1>9 DEF Shape, Young
    <3>2. QED
      BY <1>3, <1>4, <3>1 DEF Ready, Filled
  <2>2. v1 = v
    <3>1. ~(v.initialTodo > 0)
      BY <1>3, <2>1
    <3>2. QED
      BY <3>1 DEF v1
  <2>3. f = <<>>
    BY <1>5, <2>1, EmptySeq
  <2>4. r = p
    BY <1>5, <2>3, ConcatEmptySeq
  <2>5. v2 = v
    BY <1>9, <2>2
  <2>6. CASE r = <<>>
    <3>1. w = v
      BY <1>1, <2>2, <2>6
    <3>2. \A m \in Seq(Byte) : m \o p = m
      BY <2>4, <2>6, ConcatEmptySeq
    <3>3. QED
      BY <1>9, <2>1, <3>1, <3>2, AfterSame DEF Written, Shape
  <2>7. CASE r # <<>>
    <3>1. w = IF v.lanes = 1 THEN writeLeaves(v, p) ELSE writeLanes(v, p)
      BY <1>1, <2>4, <2>5, <2>7
    <3>2. Wrote(v, p, w)
      BY <2>1, <3>1, WriteMore
    <3>3. Ready(w) /\ After(v, w) /\ w.buf # nil
      BY <3>2 DEF Wrote, Took, Ready, Filled
    <3>4. ASSUME NEW m \in Seq(Byte), Absorbed(v, m) PROVE Absorbed(w, m \o p)
      <4>1. Grown(v, m) /\ Len(m) > chunkSize
        BY <1>9, <3>4 DEF Absorbed
      <4>2. Grown(w, m \o p)
        BY <3>2, <4>1 DEF Wrote, Took
      <4>3. Len(m \o p) > chunkSize
        <5>1. Len(m \o p) = Len(m) + Len(p) /\ Len(m) \in Nat /\ Len(p) \in Nat
          BY ConcatProperties, LenProperties
        <5>2. QED
          BY <4>1, <5>1, Constants
      <4>4. QED
        BY <3>3, <4>2, <4>3 DEF Absorbed, Grown
    <3>5. QED
      BY <3>3, <3>4 DEF Written, Shape
  <2>8. QED
    BY <2>6, <2>7
<1>10. CASE v.buf = nil
  <2>1. Young(v)
    BY <1>10 DEF Shape, Ready, Filled
  <2>2. Young(v1)
    BY <1>7, <1>8, <2>1 DEF Young
  <2>3. ASSUME NEW m \in Seq(Byte), Absorbed(v, m)
        PROVE  Absorbed(v1, m \o f)
    <3>1. Len(m \o f) = Len(m) + taken /\ Len(m) \in Nat
      BY <1>5, ConcatProperties, LenProperties
    <3>2. Len(m) + t = chunkSize /\ v.chunk = 0 /\ v.stalk.in = m /\ ~v.stalk.squeezing /\ ~v.panicked
      BY <1>3, <1>10, <2>3 DEF Absorbed
    <3>3. Len(m \o f) + v1.initialTodo = chunkSize
      BY <1>3, <1>4, <1>7, <3>1, <3>2, Constants
    <3>4. v1.stalk.in = m \o f /\ v1.chunk = 0 /\ ~v1.panicked /\ ~v1.stalk.squeezing /\ v1.buf = nil
      BY <1>7, <1>10, <3>2 DEF After
    <3>5. QED
      BY <3>3, <3>4 DEF Absorbed
  <2>4. CASE r = <<>>
    <3>1. w = v1
      BY <1>1, <2>4
    <3>2. f = p
      BY <1>5, <2>4, ConcatEmptySeq
    <3>3. QED
      BY <1>7, <2>2, <2>3, <3>1, <3>2 DEF Written, Shape
  <2>5. CASE r # <<>>
    <3>1. v1.initialTodo = 0
      BY <1>3, <1>6, <1>7, <2>5
    <3>2. v2 = grow(v1)
      BY <1>7, <1>10
    <3> HIDE DEF v2
    <3>3. Ready(v2) /\ After(v1, v2)
      <4>1. <<>> \in Seq(Byte)
        OBVIOUS
      <4>2. QED
        BY <2>2, <3>1, <3>2, <4>1, Grow
    <3>4. v2 \in State
      BY <3>3 DEF Ready, Filled
    <3>5. w = IF v2.lanes = 1 THEN writeLeaves(v2, r) ELSE writeLanes(v2, r)
      BY <1>1, <2>5
    <3>6. Wrote(v2, r, w)
      BY <1>5, <3>3, <3>5, WriteMore
    <3>7. Ready(w) /\ After(v2, w) /\ w \in State /\ w.buf # nil
      BY <3>6 DEF Wrote, Took, Ready, Filled
    <3>8. After(v, w)
      <4>1. After(v, v2)
        BY <1>2, <1>7, <3>3, <3>4, AfterAfter
      <4>2. QED
        BY <1>2, <3>4, <3>7, <4>1, AfterAfter
    <3>9. ASSUME NEW m \in Seq(Byte), Absorbed(v, m) PROVE Absorbed(w, m \o p)
      <4>1. Absorbed(v1, m \o f)
        BY <2>3, <3>9
      <4>2. PICK k \in Seq(Byte) : k = m \o f
        BY <1>5, ConcatProperties
      <4>3. Len(k) = chunkSize /\ v1.chunk = 0 /\ v1.stalk.in = k /\ ~v1.stalk.squeezing /\ ~v1.panicked
        <5>1. Len(k) + v1.initialTodo = chunkSize /\ Len(k) \in Nat
          BY <1>7, <1>10, <4>1, <4>2, LenProperties DEF Absorbed
        <5>2. v1.chunk = 0 /\ v1.stalk.in = k /\ ~v1.stalk.squeezing /\ ~v1.panicked
          BY <1>7, <1>10, <4>1, <4>2 DEF Absorbed
        <5>3. QED
          BY <3>1, <5>1, <5>2
      <4>4. Grown(v2, k)
        BY <2>2, <3>1, <3>2, <4>3, Grow
      <4>5. Grown(w, k \o r)
        BY <3>6, <4>4 DEF Wrote, Took
      <4>6. k \o r = m \o p
        <5>1. (m \o f) \o r = m \o (f \o r)
          BY <1>5, BytesAssociate, ZenonT(30)
        <5>2. QED
          BY <1>5, <4>2, <5>1
      <4>7. Len(k \o r) > chunkSize
        <5>1. Len(k \o r) = Len(k) + Len(r) /\ Len(k) \in Nat
          BY <1>5, ConcatProperties, LenProperties
        <5>2. Len(r) \in Nat /\ Len(r) > 0
          BY <1>5, <2>5, EmptySeq
        <5>3. QED
          BY <4>3, <5>1, <5>2
      <4>8. QED
        BY <3>7, <4>5, <4>6, <4>7 DEF Absorbed, Grown
    <3>10. QED
      BY <3>7, <3>8, <3>9 DEF Written, Shape
  <2>6. QED
    BY <2>4, <2>5
<1>11. QED
  BY <1>9, <1>10

-----------------------------------------------------------------------------
(* The digest *)

\* The hashes of n chunks of k, of which the last may be shorter.
Pieces(k, n) == [j \in 1 .. n |-> cv(SubSeq(k, At(j - 1) + 1, min(At(j), Len(k))))]

\* How many chunks that is.
Ceil(len) == (len + chunkSize - 1) \div chunkSize

LEMMA CeilFacts ==
  ASSUME K12Assumption, NEW len \in Nat, NEW c \in Nat, NEW n, n = Ceil(len)
  PROVE  /\ n \in Nat /\ (n = 0 <=> len = 0)
         /\ len <= At(n) /\ \A i \in 1 .. n : At(i - 1) < len
         /\ (At(c + 1) + len - 1) \div chunkSize = c + n
         /\ len <= chunkSize /\ len # 0 => n = 1
<1>1. PICK w \in Nat : w = chunkSize
  BY Constants
<1>2. w >= 1
  BY <1>1, Constants
<1>3. PICK x \in Nat : x = len + w - 1
  BY <1>2
<1>4. n = x \div w /\ n \in Nat /\ n * w <= x /\ x < n * w + w
  BY <1>1, <1>2, <1>3 DEF Ceil
<1>5. n = 0 <=> len = 0
  <2>1. CASE len = 0
    <3>1. x < w
      BY <1>3, <2>1
    <3>2. QED
      BY <1>2, <1>4, <2>1, <3>1
  <2>2. CASE len # 0
    <3>1. x >= w
      BY <1>3, <2>2
    <3>2. QED
      BY <1>2, <1>4, <2>2, <3>1
  <2>3. QED
    BY <2>1, <2>2
<1>6. At(n) = n * w /\ At(n) \in Nat
  BY <1>1, <1>4, AtFacts DEF At
<1>7. len <= At(n)
  BY <1>2, <1>3, <1>4, <1>6
<1>8. ASSUME NEW i \in 1 .. n PROVE At(i - 1) < len
  <2>1. PICK k \in Nat : k = i - 1 /\ k < n
    BY <1>4
  <2>2. At(k) + chunkSize <= At(n) /\ At(k) \in Nat
    BY <1>4, <2>1, AtFacts
  <2>3. QED
    BY <1>1, <1>2, <1>3, <1>4, <1>6, <2>1, <2>2
<1>9. (At(c + 1) + len - 1) \div chunkSize = c + n
  <2>1. At(c + 1) = At(c) + chunkSize /\ At(c) \in Nat /\ At(c) = c * w
    BY <1>1, AtFacts DEF At
  <2>2. At(c + 1) + len - 1 = c * w + x
    BY <1>1, <1>3, <2>1
  <2>3. (c + n) * w = c * w + n * w
    BY <1>4
  <2>4. PICK y \in Nat : y = c * w + x
    OBVIOUS
  <2>5. PICK k \in Nat : k = c + n
    <3>1. n \in Nat
      BY <1>4
    <3> HIDE DEF Ceil
    <3>2. c + n \in Nat
      BY <3>1
    <3>3. QED
      BY <3>2
  <2>6. k * w <= y /\ y < k * w + w
    BY <1>4, <2>3, <2>4, <2>5
  <2>7. y \div w = k
    BY <1>2, <2>6
  <2>8. QED
    BY <1>1, <2>2, <2>4, <2>5, <2>7
<1>10. ASSUME len <= chunkSize, len # 0 PROVE n = 1
  <2>1. w <= x /\ x < 2 * w
    BY <1>1, <1>2, <1>3, <1>10
  <2>2. x \div w = 1
    BY <1>2, <2>1
  <2>3. QED
    BY <1>4, <2>2
<1>11. QED
  BY <1>4, <1>5, <1>7, <1>8, <1>9, <1>10

LEMMA PiecesSeq ==
  ASSUME K12Assumption, NEW k \in Seq(Byte), NEW n, n = Ceil(Len(k))
  PROVE  n \in Nat /\ Pieces(k, n) \in Seq(Token) /\ Len(Pieces(k, n)) = n
<1>1. PICK len \in Nat : len = Len(k)
  BY LenProperties
<1>2. n \in Nat /\ \A i \in 1 .. n : At(i - 1) < len
  BY <1>1, CeilFacts
<1> DEFINE h(j) == cv(SubSeq(k, At(j - 1) + 1, min(At(j), len)))
<1>3. ASSUME NEW j \in 1 .. n PROVE h(j) \in Token
  <2>1. PICK i \in Nat : i = j - 1
    OBVIOUS
  <2>2. j \in Nat
    OBVIOUS
  <2>3. PICK x \in Nat, y \in Nat : x = At(i) /\ y = At(j)
    BY <2>2, AtFacts
  <2>4. PICK a \in Nat, b \in Nat : a = x + 1 /\ b = min(y, len)
    BY DEF min
  <2>5. 1 <= a /\ b <= len
    BY <2>4 DEF min
  <2>6. SubSeq(k, a, b) \in Seq(Byte)
    BY <1>1, <2>5, Part
  <2>7. QED
    BY <2>1, <2>3, <2>4, <2>6, Tokens
<1>4. Pieces(k, n) = [j \in 1 .. n |-> h(j)]
  BY <1>1 DEF Pieces
<1> HIDE DEF h
<1>5. Pieces(k, n) \in [1 .. n -> Token]
  BY <1>3, <1>4
<1>6. QED
  BY <1>2, <1>5

\* The tree hash of m, of which the stalk has absorbed what came of the first c
\* chunks after the initial one, and k is the rest.
TreeIs(m, c, k, n) ==
  Tree(m) = [in |-> (Content(m, c) \o Pieces(k, n)) \o (length_encode(c + n) \o Final),
             ds |-> 6, squeezing |-> TRUE]

Unhashed(m, c, off, k) ==
  /\ Len(m) = At(c + 1) + off /\ Len(m) > chunkSize
  /\ k = SubSeq(m, At(c + 1) + 1, Len(m))

LEMMA TreeContent ==
  ASSUME K12Assumption, NEW m \in Seq(Byte), NEW c \in Nat, NEW off \in Nat, NEW k, NEW n,
         Unhashed(m, c, off, k), n = Ceil(off)
  PROVE  k \in Seq(Byte) /\ Len(k) = off /\ TreeIs(m, c, k, n)
<1>0. Len(m) = At(c + 1) + off /\ Len(m) > chunkSize /\ k = SubSeq(m, At(c + 1) + 1, Len(m))
  BY DEF Unhashed
<1>1. PICK e \in Nat : e = At(c + 1)
  <2>1. c + 1 \in Nat
    OBVIOUS
  <2>2. QED
    BY <2>1, AtFacts
<1>2. PICK l \in Nat : l = Len(m) /\ l = e + off
  BY <1>0, <1>1, LenProperties
<1>3. PICK a \in Nat : a = e + 1
  OBVIOUS
<1>4. k = SubSeq(m, a, l)
  BY <1>0, <1>1, <1>2, <1>3
<1>5. k \in Seq(Byte) /\ Len(k) = off
  <2>1. 1 <= a /\ l <= Len(m) /\ (a <= l => l - a + 1 = off) /\ (l < a => off = 0)
    BY <1>2, <1>3
  <2>2. a <= l \/ l < a
    OBVIOUS
  <2>3. PICK x : x = SubSeq(m, a, l)
    OBVIOUS
  <2>4. x \in Seq(Byte) /\ (a <= l => Len(x) = l - a + 1) /\ (l < a => Len(x) = 0)
    BY <2>1, <2>3, Part
  <2>5. QED
    BY <1>4, <2>1, <2>2, <2>3, <2>4
<1>6. /\ n \in Nat /\ \A i \in 1 .. n : At(i - 1) < off
      /\ (e + off - 1) \div chunkSize = c + n
  BY <1>1, CeilFacts
<1> DEFINE h == Pieces(k, n)
           H == Hashes(m, c)
           T == [j \in 1 .. c + n |-> cv(SubSeq(m, j * chunkSize + 1, min((j + 1) * chunkSize, Len(m))))]
<1>7. h \in Seq(Token) /\ Len(h) = n /\ \A i \in 1 .. n : h[i] = cv(SubSeq(k, At(i - 1) + 1, min(At(i), off)))
  <2>1. h \in Seq(Token) /\ Len(h) = n
    BY <1>5, PiecesSeq
  <2>2. \A i \in 1 .. n : h[i] = cv(SubSeq(k, At(i - 1) + 1, min(At(i), off)))
    BY <1>5 DEF Pieces
  <2>3. QED
    BY <2>1, <2>2
<1>8. /\ H \in Seq(Token) /\ Len(H) = c
      /\ \A j \in 1 .. c : H[j] = cv(SubSeq(m, At(j) + 1, At(j + 1)))
  <2>1. At(c + 1) <= Len(m)
    BY <1>1, <1>2
  <2>2. QED
    BY <2>1, HashesSeq
<1> HIDE DEF h, H
<1>9. \A j \in 1 .. c + n : T[j] = cv(SubSeq(m, At(j) + 1, min(At(j + 1), l)))
  BY <1>2 DEF At
<1>10. DOMAIN T = 1 .. c + n /\ T = [j \in 1 .. c + n |-> T[j]]
  OBVIOUS
<1> HIDE DEF T
<1>11. /\ H \o h \in Seq(Token) /\ Len(H \o h) = c + n
       /\ \A j \in 1 .. c + n : (H \o h)[j] = IF j <= c THEN H[j] ELSE h[j - c]
  <2>1. H \in Seq(Token) /\ h \in Seq(Token)
    BY <1>7, <1>8
  <2>2. /\ H \o h \in Seq(Token) /\ Len(H \o h) = Len(H) + Len(h)
        /\ \A j \in 1 .. Len(H) + Len(h) : (H \o h)[j] = IF j <= Len(H) THEN H[j] ELSE h[j - Len(H)]
    BY <2>1, ConcatProperties
  <2>3. Len(H) = c /\ Len(h) = n
    BY <1>7, <1>8
  <2>4. QED
    BY <2>2, <2>3
<1>12. ASSUME NEW j \in 1 .. c + n PROVE T[j] = (H \o h)[j]
  <2>1. CASE j <= c
    <3>1. j \in 1 .. c /\ j + 1 \in Nat /\ j + 1 <= c + 1 /\ c + 1 \in Nat
      BY <2>1
    <3>2. At(j + 1) <= e /\ At(j + 1) \in Nat
      BY <1>1, <3>1, AtFacts
    <3>3. min(At(j + 1), l) = At(j + 1)
      BY <1>2, <3>2 DEF min
    <3>4. QED
      BY <1>8, <1>9, <1>11, <2>1, <3>1, <3>3
  <2>2. CASE ~(j <= c)
    <3>1. PICK i \in 1 .. n : i = j - c
      BY <1>6, <2>2
    <3>2. PICK d \in Nat, g \in Nat : d = c + 1 /\ g = i - 1
      OBVIOUS
    <3>3. j = d + g /\ j + 1 = d + i /\ i \in Nat
      BY <3>1, <3>2
    <3>4. PICK ag \in Nat, ai \in Nat : ag = At(g) /\ ai = At(i)
      BY <3>3, AtFacts
    <3>5. At(j) = e + ag /\ At(j + 1) = e + ai
      <4>1. At(d + g) = At(d) + At(g) /\ At(d + i) = At(d) + At(i)
        BY <3>3, AtFacts
      <4>2. QED
        BY <1>1, <3>2, <3>3, <3>4, <4>1
    <3>6. PICK f \in Nat : f = min(ai, off)
      BY DEF min
    <3>7. f <= off /\ min(e + ai, l) = e + f
      BY <1>2, <3>6 DEF min
    <3>8. PICK b \in Nat : b = ag + 1
      OBVIOUS
    <3>9. SubSeq(SubSeq(m, a, l), b, f) = SubSeq(m, a + b - 1, a + f - 1)
      <4>1. 1 <= a /\ l <= Len(m) /\ 1 <= b /\ a + f - 1 <= l
        BY <1>2, <1>3, <3>7, <3>8
      <4>2. QED
        BY <4>1, PartOfPart
    <3>10. a + b - 1 = e + ag + 1 /\ a + f - 1 = e + f
      BY <1>3, <3>8
    <3>11. h[i] = cv(SubSeq(m, e + ag + 1, e + f))
      BY <1>4, <1>7, <3>2, <3>4, <3>6, <3>8, <3>9, <3>10
    <3>12. T[j] = cv(SubSeq(m, e + ag + 1, e + f))
      BY <1>9, <3>5, <3>7
    <3>13. QED
      BY <1>11, <2>2, <3>1, <3>11, <3>12
  <2>3. QED
    BY <2>1, <2>2
<1>13. T = H \o h
  <2>1. PICK z \in Seq(Token) : z = H \o h
    BY <1>11
  <2>2. z = [j \in 1 .. c + n |-> z[j]]
    BY <1>11, <2>1, LenProperties
  <2>3. QED
    BY <1>10, <1>12, <2>1, <2>2
<1> DEFINE L == length_encode(c + n)
<1>14. L \in Seq(Token) /\ Final \in Seq(Token)
  <2>1. c + n \in Nat
    BY <1>6
  <2>2. QED
    BY <2>1, LengthEncoded, Tokens
<1> HIDE DEF L
<1> DEFINE F == Front(m, chunkSize) \o Marker
<1>15. F \in Seq(Token)
  <2>1. chunkSize \in Nat /\ chunkSize <= Len(m)
    BY <1>0, <1>2, Constants
  <2>2. Front(m, chunkSize) \in Seq(Token)
    BY <2>1, FrontRest, Tokens
  <2>3. QED
    BY <2>2, Tokens, ConcatProperties
<1>16. Tree(m) = [in |-> ((F \o T) \o L) \o Final, ds |-> 6, squeezing |-> TRUE]
  <2>1. ~(Len(m) <= chunkSize)
    BY <1>0, <1>2, Constants
  <2>2. (Len(m) - 1) \div chunkSize = c + n
    BY <1>2, <1>6
  <2>3. QED
    BY <2>1, <2>2 DEF Tree, T, L, F
<1>17. Content(m, c) = F \o H
  BY DEF Content, F, H
<1> HIDE DEF F
<1>18. ((F \o T) \o L) \o Final = ((F \o H) \o h) \o (L \o Final)
  <2>1. F \o (H \o h) = (F \o H) \o h
    <3>1. F \in Seq(Token) /\ H \in Seq(Token) /\ h \in Seq(Token)
      BY <1>7, <1>8, <1>15
    <3>2. QED
      BY <3>1, TokensAssociate
  <2>2. PICK y \in Seq(Token) : y = (F \o H) \o h
    <3>1. F \o H \in Seq(Token) /\ h \in Seq(Token)
      BY <1>7, <1>8, <1>15, ConcatProperties
    <3>2. QED
      BY <3>1, ConcatProperties
  <2>3. (y \o L) \o Final = y \o (L \o Final)
    BY <1>14, TokensAssociate
  <2>4. QED
    BY <1>13, <2>1, <2>2, <2>3
<1>19. QED
  BY <1>5, <1>16, <1>17, <1>18 DEF h, L, TreeIs

Output(v) == [v EXCEPT !.stalk.squeezing = TRUE]

\* Output begins: v becomes x, whose stalk is the tree hash of m.
Finished(v, m, x) ==
  /\ Shape(x) /\ x.stalk.squeezing /\ ~x.panicked /\ x.stalk = Tree(m)
  /\ x.lanes = v.lanes /\ x.context = v.context
  /\ x.buf = v.buf /\ (x.buf = nil => x.leaf = v.leaf)

LEMMA Squeeze ==
  ASSUME NEW t \in Stalk, NEW u, u = [t EXCEPT !.squeezing = TRUE]
  PROVE  u \in Stalk /\ u = [in |-> t.in, ds |-> t.ds, squeezing |-> TRUE]
<1>1. u \in Stalk
  BY DEF Stalk
<1>2. u = [in |-> t.in, ds |-> t.ds, squeezing |-> TRUE]
  BY DEF Stalk
<1>3. QED
  BY <1>1, <1>2

LEMMA FinishYoung ==
  ASSUME K12Assumption, NilAssumption, NEW v, Shape(v), NEW m \in Seq(Byte), Absorbed(v, m),
         v.buf = nil, NEW x, x = Output(finish(v))
  PROVE  Finished(v, m, x)
<1>1. Young(v) /\ v \in State
  BY DEF Shape, Young, Ready, Filled
<1>2. finish(v) = v
  BY DEF finish
<1>3. v.stalk \in Stalk
  BY <1>1 DEF State
<1> DEFINE st == [v.stalk EXCEPT !.squeezing = TRUE]
<1>4. st \in Stalk /\ st = [in |-> v.stalk.in, ds |-> v.stalk.ds, squeezing |-> TRUE]
  BY <1>3, Squeeze
<1> HIDE DEF st
<1>5. x = [v EXCEPT !.stalk = st]
  BY <1>1, <1>2 DEF st, State, Output
<1>6. /\ x \in State /\ x.stalk = st /\ x.buf = v.buf /\ x.offset = v.offset /\ x.leaf = v.leaf
      /\ x.lanes = v.lanes /\ x.context = v.context /\ x.panicked = v.panicked
  BY <1>1, <1>4, <1>5 DEF State
<1>7. Young(x)
  BY <1>1, <1>4, <1>6 DEF Young
<1>8. Len(m) <= chunkSize /\ v.stalk.in = m /\ v.stalk.ds = 7 /\ ~v.panicked
  <2>1. Len(m) + v.initialTodo = chunkSize /\ v.stalk.in = m /\ v.stalk.ds = 7 /\ ~v.panicked
    BY <1>1 DEF Absorbed, Young
  <2>2. Len(m) \in Nat /\ v.initialTodo \in Nat
    BY <1>1, LenProperties DEF State
  <2>3. QED
    BY <2>1, <2>2, Constants
<1>9. Tree(m) = [in |-> m, ds |-> 7, squeezing |-> TRUE]
  BY <1>8 DEF Tree
<1>10. x.stalk = Tree(m)
  BY <1>4, <1>6, <1>8, <1>9
<1>11. x.stalk.squeezing
  BY <1>9, <1>10
<1>12. QED
  BY <1>6, <1>7, <1>8, <1>10, <1>11 DEF Finished, Shape

LEMMA FinishGrown ==
  ASSUME K12Assumption, NilAssumption, NEW v, Shape(v), NEW m \in Seq(Byte), Absorbed(v, m),
         v.buf # nil, NEW x, x = Output(finish(v))
  PROVE  Finished(v, m, x)
<1>1. Ready(v) /\ v \in State /\ Grown(v, m) /\ Len(m) > chunkSize /\ v.initialTodo = 0
  BY DEF Shape, Young, Ready, Filled, Absorbed
<1>2. SUFFICES ASSUME NEW c \in Nat, NEW off \in Nat, NEW k,
                      c = v.chunk, off = v.offset, k = Kept(v)
               PROVE  Finished(v, m, x)
  BY <1>1 DEF State
<1>3. /\ ~v.stalk.squeezing /\ ~v.panicked /\ v.stalk.ds = 6
      /\ v.stalk.in = Content(m, c) /\ Len(m) = At(c + 1) + off
      /\ k = SubSeq(m, At(c + 1) + 1, Len(m))
  BY <1>1, <1>2 DEF Grown
<1>4. PICK n : n = Ceil(off)
  OBVIOUS
<1>5. k \in Seq(Byte) /\ Len(k) = off /\ TreeIs(m, c, k, n)
  <2>1. Unhashed(m, c, off, k)
    BY <1>1, <1>3 DEF Unhashed
  <2>2. QED
    BY <1>4, <2>1, TreeContent
<1>6. /\ n \in Nat /\ (n = 0 <=> off = 0)
      /\ off <= At(n) /\ \A i \in 1 .. n : At(i - 1) < off
      /\ off <= chunkSize /\ off # 0 => n = 1
  BY <1>4, CeilFacts
<1> DEFINE h == Pieces(k, n)
<1>7. h \in Seq(Token) /\ Len(h) = n
  BY <1>4, <1>5, PiecesSeq
<1>8. v.stalk \in Stalk /\ v.stalk.in \in Seq(Token) /\ v.lanes \in Nat
  BY <1>1 DEF State, Stalk
\* The last chunks are written, with the count.
<1> DEFINE w == IF n = 0 THEN v
                ELSE IF v.lanes = 1
                  THEN [stalkWrite(v, <<cv(v.leaf.in)>>) EXCEPT !.leaf.squeezing = TRUE,
                                                                !.chunk = @ + 1]
                  ELSE [stalkWrite(v, [j \in 1 .. n |->
                           cv(SubSeq(v.buf, (j - 1) * chunkSize + 1, min(j * chunkSize, v.offset)))])
                          EXCEPT !.chunk = @ + n]
<1>9. finish(v) = stalkWrite(w, length_encode(w.chunk) \o Final)
  BY <1>2, <1>4 DEF finish, Ceil
<1> HIDE DEF h
<1>10. /\ w \in State /\ w.initialTodo = 0 /\ w.buf = v.buf /\ w.offset = off /\ w.chunk = c + n
       /\ (w.leaf = nil <=> v.leaf = nil) /\ w.lanes = v.lanes /\ w.context = v.context
       /\ w.stalk.ds = 6 /\ ~w.stalk.squeezing /\ ~w.panicked
       /\ w.stalk.in = Content(m, c) \o h
  <2>1. CASE n = 0
    <3>1. w = v
      BY <2>1
    <3> HIDE DEF w
    <3>2. h = <<>>
      BY <1>7, <2>1, EmptySeq
    <3>3. v.stalk.in \o <<>> = v.stalk.in
      BY <1>8, ConcatEmptySeq
    <3>4. QED
      BY <1>1, <1>2, <1>3, <2>1, <3>1, <3>2, <3>3
  <2>2. CASE n # 0 /\ v.lanes = 1
    <3>1. v.leaf # nil /\ off < chunkSize /\ off # 0 /\ k = v.leaf.in
      <4>1. v.leaf # nil /\ v.offset <= chunkSize /\ v.offset # chunkSize
        BY <1>1, <2>2 DEF Ready, Filled
      <4>2. QED
        BY <1>2, <1>6, <2>2, <4>1, Constants DEF Kept
    <3>2. n = 1
      BY <1>6, <3>1, Constants
    <3>3. h = <<cv(v.leaf.in)>>
      <4>1. At(1 - 1) = 0 /\ At(1) = chunkSize
        BY AtFacts
      <4>2. min(chunkSize, Len(k)) = Len(k)
        BY <1>5, <3>1, Constants DEF min
      <4>3. SubSeq(k, 0 + 1, Len(k)) = k
        BY <1>5, SubSeqFull
      <4>4. \A j \in 1 .. 1 : j = 1
        OBVIOUS
      <4>5. Pieces(k, 1) = [j \in 1 .. 1 |-> cv(k)]
        BY <4>1, <4>2, <4>3, <4>4 DEF Pieces
      <4>6. [j \in 1 .. 1 |-> cv(k)] = <<cv(k)>>
        OBVIOUS
      <4>7. QED
        BY <3>1, <3>2, <4>5, <4>6 DEF h
    <3>4. PICK y : y = stalkWrite(v, h)
      OBVIOUS
    <3>5. StalkWritten(v, h, y)
      BY <1>1, <1>7, <3>4, StalkWrite
    <3>6. /\ y \in State /\ y.initialTodo = 0 /\ y.buf = v.buf /\ y.offset = off /\ y.chunk = c
          /\ y.leaf = v.leaf /\ y.lanes = v.lanes /\ y.context = v.context
          /\ y.stalk.ds = 6 /\ ~y.stalk.squeezing /\ ~y.panicked
          /\ y.stalk.in = Content(m, c) \o h
      BY <1>1, <1>2, <1>3, <3>5 DEF StalkWritten, After
    <3> DEFINE l == [v.leaf EXCEPT !.squeezing = TRUE]
    <3>7. l \in Leaf /\ l # nil
      <4>1. v.leaf \in Leaf
        BY <1>1, <3>1 DEF State
      <4>2. l \in Leaf
        BY <4>1 DEF Leaf
      <4>3. QED
        BY <4>2 DEF NilAssumption
    <3> HIDE DEF l
    <3>8. w = [y EXCEPT !.leaf = l, !.chunk = c + 1]
      <4>1. w = [y EXCEPT !.leaf.squeezing = TRUE, !.chunk = @ + 1]
        BY <2>2, <3>3, <3>4
      <4> HIDE DEF w
      <4>2. QED
        BY <3>6, <4>1 DEF l, State
    <3> HIDE DEF w
    <3>9. c + 1 \in Nat /\ c + n = c + 1
      BY <3>2
    <3>10. /\ w \in State /\ w.initialTodo = y.initialTodo /\ w.buf = y.buf /\ w.offset = y.offset
           /\ w.chunk = c + 1 /\ w.leaf = l /\ w.lanes = y.lanes /\ w.context = y.context
           /\ w.stalk = y.stalk /\ w.panicked = y.panicked
      BY <3>6, <3>7, <3>8, <3>9 DEF State
    <3>11. QED
      BY <3>1, <3>6, <3>7, <3>9, <3>10
  <2>3. CASE n # 0 /\ v.lanes # 1
    <3>1. v.buf \in Seq(Byte) /\ off <= Len(v.buf) /\ k = Front(v.buf, off)
      BY <1>1, <1>2, <2>3 DEF Ready, Filled, Kept, State
    <3>2. h = [j \in 1 .. n |-> cv(SubSeq(v.buf, (j - 1) * chunkSize + 1, min(j * chunkSize, v.offset)))]
      <4>1. ASSUME NEW j \in 1 .. n
            PROVE  SubSeq(k, At(j - 1) + 1, min(At(j), Len(k)))
                     = SubSeq(v.buf, At(j - 1) + 1, min(At(j), off))
        <5>1. PICK i \in Nat : i = j - 1
          BY <1>6
        <5>2. j \in Nat
          OBVIOUS
        <5>3. PICK a \in Nat, b \in Nat : a = At(i) + 1 /\ b = min(At(j), off)
          <6>1. At(i) \in Nat /\ At(j) \in Nat
            BY <5>2, AtFacts
          <6>2. At(i) + 1 \in Nat /\ min(At(j), off) \in Nat
            BY <6>1 DEF min
          <6>3. QED
            BY <6>2
        <5>4. 1 <= a /\ b <= off
          <6>1. At(i) \in Nat /\ At(j) \in Nat
            BY <5>2, AtFacts
          <6>2. QED
            BY <5>3, <6>1 DEF min
        <5>5. SubSeq(SubSeq(v.buf, 1, off), a, b) = SubSeq(v.buf, 1 + a - 1, 1 + b - 1)
          <6>1. 1 \in Nat /\ 1 + b - 1 <= off /\ 1 <= 1
            BY <5>4
          <6>2. PICK e \in Seq(Byte) : e = v.buf
            BY <3>1
          <6>3. off <= Len(e) /\ 1 <= a
            BY <3>1, <5>4, <6>2
          <6>4. SubSeq(SubSeq(e, 1, off), a, b) = SubSeq(e, 1 + a - 1, 1 + b - 1)
            BY <6>1, <6>3, PartOfPart
          <6>5. QED
            BY <6>2, <6>4
        <5>6. 1 + a - 1 = a /\ 1 + b - 1 = b
          OBVIOUS
        <5>7. QED
          BY <1>5, <3>1, <5>1, <5>3, <5>5, <5>6 DEF Front
      <4>2. QED
        BY <1>2, <4>1 DEF h, Pieces, At
    <3>3. PICK y : y = stalkWrite(v, h)
      OBVIOUS
    <3>4. StalkWritten(v, h, y)
      BY <1>1, <1>7, <3>3, StalkWrite
    <3>5. /\ y \in State /\ y.initialTodo = 0 /\ y.buf = v.buf /\ y.offset = off /\ y.chunk = c
          /\ y.leaf = v.leaf /\ y.lanes = v.lanes /\ y.context = v.context
          /\ y.stalk.ds = 6 /\ ~y.stalk.squeezing /\ ~y.panicked
          /\ y.stalk.in = Content(m, c) \o h
      BY <1>1, <1>2, <1>3, <3>4 DEF StalkWritten, After
    <3>6. w = [y EXCEPT !.chunk = c + n]
      <4>1. w = [y EXCEPT !.chunk = @ + n]
        BY <2>3, <3>2, <3>3
      <4> HIDE DEF w
      <4>2. QED
        BY <3>5, <4>1 DEF State
    <3> HIDE DEF w
    <3>7. c + n \in Nat
      BY <1>6
    <3>8. /\ w \in State /\ w.initialTodo = y.initialTodo /\ w.buf = y.buf /\ w.offset = y.offset
          /\ w.chunk = c + n /\ w.leaf = y.leaf /\ w.lanes = y.lanes /\ w.context = y.context
          /\ w.stalk = y.stalk /\ w.panicked = y.panicked
      BY <3>5, <3>6, <3>7 DEF State
    <3>9. QED
      BY <3>5, <3>8
  <2>4. QED
    BY <2>1, <2>2, <2>3
<1> HIDE DEF w
<1> DEFINE z == length_encode(c + n) \o Final
<1>11. z \in Seq(Token)
  <2>1. c + n \in Nat
    BY <1>6
  <2>2. length_encode(c + n) \in Seq(Token) /\ Final \in Seq(Token)
    BY <2>1, LengthEncoded, Tokens
  <2>3. QED
    BY <2>2, ConcatProperties
<1>12. PICK u : u = stalkWrite(w, z)
  OBVIOUS
<1>13. u = finish(v)
  BY <1>9, <1>10, <1>12
<1> HIDE DEF z
<1>14. StalkWritten(w, z, u)
  BY <1>10, <1>11, <1>12, StalkWrite
<1>15. /\ u \in State /\ u.initialTodo = 0 /\ u.buf = v.buf /\ u.offset = off
       /\ u.leaf = w.leaf /\ u.lanes = v.lanes /\ u.context = v.context
       /\ u.stalk.ds = 6 /\ ~u.panicked /\ u.stalk.in = (Content(m, c) \o h) \o z
  BY <1>10, <1>14 DEF StalkWritten, After
<1> DEFINE st == [u.stalk EXCEPT !.squeezing = TRUE]
<1>16. st \in Stalk /\ st = [in |-> u.stalk.in, ds |-> u.stalk.ds, squeezing |-> TRUE]
  <2>1. u.stalk \in Stalk
    BY <1>15 DEF State
  <2>2. QED
    BY <2>1, Squeeze
<1> HIDE DEF st
<1>17. x = [u EXCEPT !.stalk = st]
  BY <1>13, <1>15 DEF st, State, Output
<1>18. /\ x \in State /\ x.stalk = st /\ x.buf = u.buf /\ x.offset = u.offset /\ x.leaf = u.leaf
       /\ x.lanes = u.lanes /\ x.context = u.context /\ x.panicked = u.panicked
       /\ x.initialTodo = u.initialTodo
  BY <1>15, <1>16, <1>17 DEF State
<1>19. x.stalk = Tree(m)
  BY <1>5, <1>15, <1>16, <1>18 DEF h, z, TreeIs
<1>20. x.stalk.squeezing
  BY <1>16, <1>18
<1>21. Ready(x)
  BY <1>1, <1>2, <1>10, <1>15, <1>18 DEF Ready, Filled
<1>22. QED
  BY <1>15, <1>18, <1>19, <1>20, <1>21 DEF Finished, Shape

LEMMA ContextSeq ==
  ASSUME NEW n \in Nat
  PROVE  C(n) \in Seq(Byte)
<1> DEFINE b(i) == <<"C", i>>
<1>1. \A i \in 1 .. n : b(i) \in Byte
  BY DEF Byte
<1>2. C(n) = [i \in 1 .. n |-> b(i)]
  BY DEF C
<1> HIDE DEF b
<1>3. C(n) \in [1 .. n -> Byte]
  BY <1>1, <1>2
<1>4. QED
  BY <1>3

\* A first read takes the context and its length, and begins the output.
WasRead(v, m, x) ==
  /\ Shape(x) /\ x.stalk.squeezing /\ ~x.panicked
  /\ x.stalk = Tree(m \o C(v.context) \o length_encode(v.context))
  /\ x.lanes = v.lanes /\ x.context = v.context
  /\ x.buf = nil => v.buf = nil /\ x.leaf = v.leaf

LEMMA Reading ==
  ASSUME K12Assumption, NilAssumption, NEW v, Shape(v), NEW m \in Seq(Byte), Absorbed(v, m),
         NEW x, x = read(v)
  PROVE  WasRead(v, m, x)
<1>1. PICK n \in Nat : n = v.context
  BY DEF Shape, Young, Ready, Filled, State
<1>2. PICK p \in Seq(Byte), q \in Seq(Byte) : p = C(n) /\ q = length_encode(n)
  BY ContextSeq, LengthEncoded
<1>3. PICK v1 : v1 = write(v, p)
  OBVIOUS
<1>4. Written(v, p, v1)
  BY <1>3, WriteWrites
<1>5. PICK v2 : v2 = write(v1, q)
  OBVIOUS
<1>6. Written(v1, q, v2)
  BY <1>4, <1>5, WriteWrites DEF Written
<1>7. m \o p \in Seq(Byte) /\ (m \o p) \o q \in Seq(Byte)
  BY ConcatProperties
<1>8. Absorbed(v2, (m \o p) \o q)
  <2>1. Absorbed(v1, m \o p)
    BY <1>4 DEF Written
  <2>2. QED
    BY <1>6, <1>7, <2>1 DEF Written
<1>9. x = Output(finish(v2))
  <2>1. ~v.stalk.squeezing
    BY DEF Absorbed
  <2>2. QED
    BY <1>1, <1>2, <1>3, <1>5, <2>1 DEF read, Output
<1>10. Finished(v2, (m \o p) \o q, x)
  <2>1. Shape(v2)
    BY <1>6 DEF Written
  <2>2. CASE v2.buf = nil
    BY <1>7, <1>8, <1>9, <2>1, <2>2, FinishYoung
  <2>3. CASE v2.buf # nil
    BY <1>7, <1>8, <1>9, <2>1, <2>3, FinishGrown
  <2>4. QED
    BY <2>2, <2>3
<1>11. v2.lanes = v.lanes /\ v2.context = v.context
  BY <1>4, <1>6 DEF Written, After
<1>12. x.buf = nil => v.buf = nil /\ x.leaf = v.leaf
  <2>1. x.buf = nil => x.leaf = v2.leaf /\ v2.buf = nil
    BY <1>10 DEF Finished
  <2>2. v2.buf = nil => v2.leaf = v1.leaf
    BY <1>6 DEF Written
  <2>3. v1.buf = nil => v.buf = nil /\ v1.leaf = v.leaf
    BY <1>4 DEF Written
  <2>4. v2.buf = nil => v1.buf = nil
    BY <1>6 DEF Written
  <2>5. QED
    BY <2>1, <2>2, <2>3, <2>4
<1>13. QED
  BY <1>1, <1>2, <1>10, <1>11, <1>12 DEF Finished, WasRead

-----------------------------------------------------------------------------
(* The program: an invariant of its States *)

Struct == [initialTodo : Nat, stalk : Stalk, context : Nat, buf : Object \union {nil},
           offset : Nat, chunk : Nat, leaf : Object \union {nil}, lanes : Nat \ {0},
           panicked : BOOLEAN]
Memory == [buf : Seq(Byte) \union {nil}, leaf : Leaf \union {nil}]

TypeInv == /\ s \in [Object -> Struct] /\ heap \in [Object -> Memory]
           /\ msg \in [Object -> Seq(Byte)] /\ late \in [Object -> Nat]

\* Each State refers to a buffer and a leaf of its own, or to none.
Owns(o) == /\ s[o].buf \in {nil, o} /\ s[o].leaf \in {nil, o}
           /\ s[o].buf = o => heap[o].buf # nil
           /\ s[o].leaf = o => heap[o].leaf # nil
OwnInv  == \A o \in Object : Owns(o)

\* It has absorbed its message, or outputs the hash.
Holds(o) == /\ Shape(Deref(o))
            /\ IF s[o].stalk.squeezing
                 THEN s[o].stalk = Tree(msg[o] \o C(s[o].context) \o length_encode(s[o].context))
                 ELSE Absorbed(Deref(o), msg[o])
HoldInv  == \A o \in Object : Holds(o)

Inv == TypeInv /\ OwnInv /\ HoldInv

\* What is the same in a State and with buf and leaf for themselves.
Same(t, v) == /\ t.initialTodo = v.initialTodo /\ t.stalk = v.stalk /\ t.context = v.context
              /\ t.offset = v.offset /\ t.chunk = v.chunk /\ t.lanes = v.lanes
              /\ t.panicked = v.panicked

LEMMA DerefFacts ==
  ASSUME TypeInv, OwnInv, NilAssumption, NEW o \in Object
  PROVE  /\ Deref(o) \in State /\ Same(s[o], Deref(o))
         /\ Deref(o).buf = IF s[o].buf = nil THEN nil ELSE heap[o].buf
         /\ Deref(o).leaf = IF s[o].leaf = nil THEN nil ELSE heap[o].leaf
         /\ s[o].buf = nil <=> Deref(o).buf = nil
         /\ s[o].leaf = nil <=> Deref(o).leaf = nil
<1>1. s[o] \in Struct /\ heap[o] \in Memory
  BY DEF TypeInv
<1>2. o # nil /\ Owns(o)
  BY DEF NilAssumption, OwnInv
<1>3. Deref(o) = [s[o] EXCEPT !.buf = IF s[o].buf = nil THEN nil ELSE heap[o].buf,
                              !.leaf = IF s[o].leaf = nil THEN nil ELSE heap[o].leaf]
  BY <1>1, <1>2 DEF Deref, Owns, Struct
<1> DEFINE b == IF s[o].buf = nil THEN nil ELSE heap[o].buf
           l == IF s[o].leaf = nil THEN nil ELSE heap[o].leaf
<1>4. b \in Seq(Byte) \union {nil} /\ l \in Leaf \union {nil}
  BY <1>1 DEF Memory
<1>5. (s[o].buf = nil <=> b = nil) /\ (s[o].leaf = nil <=> l = nil)
  BY <1>2 DEF Owns
<1>6. Deref(o) = [s[o] EXCEPT !.buf = b, !.leaf = l]
  BY <1>3
<1> HIDE DEF b, l
<1>7. Deref(o) \in State /\ Same(s[o], Deref(o)) /\ Deref(o).buf = b /\ Deref(o).leaf = l
  BY <1>1, <1>4, <1>6 DEF State, Struct, Same
<1>8. QED
  BY <1>5, <1>7 DEF b, l

\* A struct and what it refers to make the State.
LEMMA DerefIs ==
  ASSUME NEW t \in Struct, NEW v \in State, Same(t, v), NEW b, NEW l, b = v.buf, l = v.leaf
  PROVE  [t EXCEPT !.buf = b, !.leaf = l] = v
BY DEF Struct, State, Same

\* Nothing but o has changed.
Others(o) == \A c \in Object : c # o => s'[c] = s[c] /\ heap'[c] = heap[c]

LEMMA OthersSame ==
  ASSUME TypeInv, OwnInv, NilAssumption, NEW o \in Object, Others(o), NEW c \in Object, c # o
  PROVE  Deref(c)' = Deref(c)
<1>1. s'[c] = s[c] /\ heap'[c] = heap[c] /\ s[c].buf \in {nil, c} /\ s[c].leaf \in {nil, c}
  BY DEF Others, OwnInv, Owns
<1>2. Deref(c)' = [s'[c] EXCEPT !.buf  = IF @ = nil THEN nil ELSE heap'[@].buf,
                                !.leaf = IF @ = nil THEN nil ELSE heap'[@].leaf]
  BY DEF Deref
<1>3. s[c] \in Struct
  BY DEF TypeInv
<1>4. QED
  BY <1>1, <1>2, <1>3 DEF Deref, Struct

\* A method that did not panic leaves o as it returned.
LEMMA Returned ==
  ASSUME TypeInv, OwnInv, NilAssumption, NEW o \in Object, Shape(Deref(o)),
         NEW x, Shape(x), ~x.panicked, x.lanes = Deref(o).lanes,
         x.buf = nil => Deref(o).buf = nil /\ x.leaf = Deref(o).leaf,
         Return(o, x)
  PROVE  /\ s' \in [Object -> Struct] /\ heap' \in [Object -> Memory]
         /\ Others(o) /\ Owns(o)' /\ Deref(o)' = x /\ Same(s'[o], x)
<1>1. PICK v \in State : v = Deref(o)
  BY DerefFacts
<1>2. /\ Same(s[o], v)
      /\ v.buf = (IF s[o].buf = nil THEN nil ELSE heap[o].buf)
      /\ v.leaf = (IF s[o].leaf = nil THEN nil ELSE heap[o].leaf)
      /\ (s[o].buf = nil <=> v.buf = nil) /\ (s[o].leaf = nil <=> v.leaf = nil)
  BY <1>1, DerefFacts
<1>3. s[o] \in Struct /\ heap[o] \in Memory /\ o # nil /\ s[o].buf \in {nil, o} /\ s[o].leaf \in {nil, o}
  BY DEF TypeInv, NilAssumption, OwnInv, Owns
<1>4. x \in State
  BY DEF Shape, Young, Ready, Filled
<1> DEFINE grew == s[o].buf = nil /\ x.buf # nil
           b == IF grew THEN o ELSE s[o].buf
           l == IF grew /\ x.lanes = 1 THEN o ELSE s[o].leaf
           w == [x EXCEPT !.buf = b, !.leaf = l]
<1>5. b \in {nil, o} /\ l \in {nil, o}
  BY <1>3
<1>6. b = nil <=> x.buf = nil
  BY <1>1, <1>2, <1>3
<1>7. l = nil <=> x.leaf = nil
  <2>1. CASE x.buf = nil
    <3>1. l = s[o].leaf /\ x.leaf = v.leaf
      BY <1>1, <2>1
    <3>2. QED
      BY <1>2, <3>1
  <2>2. CASE x.buf # nil /\ x.lanes # 1
    <3>1. x.leaf = nil
      BY <2>2 DEF Shape, Young, Ready, Filled
    <3>2. v.leaf = nil
      BY <1>1, <2>2 DEF Shape, Young, Ready, Filled
    <3>3. l = s[o].leaf
      BY <2>2
    <3>4. QED
      BY <1>2, <3>1, <3>2, <3>3
  <2>3. CASE x.buf # nil /\ x.lanes = 1
    <3>1. x.leaf # nil
      BY <2>3 DEF Shape, Young, Ready, Filled
    <3>2. CASE grew
      BY <1>3, <2>3, <3>1, <3>2
    <3>3. CASE ~grew
      <4>1. v.buf # nil /\ v.lanes = 1
        BY <1>1, <1>2, <2>3, <3>3
      <4>2. v.leaf # nil
        BY <1>1, <4>1 DEF Shape, Young, Ready, Filled
      <4>3. QED
        BY <1>2, <3>1, <3>3, <4>2
    <3>4. QED
      BY <3>2, <3>3
  <2>4. QED
    BY <2>1, <2>2, <2>3
<1>8. w.buf = b /\ w.leaf = l
  BY <1>4 DEF State
<1>9. /\ s' = [s EXCEPT ![o] = w]
      /\ heap' = [r \in Object |-> [buf  |-> IF r = w.buf  THEN x.buf  ELSE heap[r].buf,
                                    leaf |-> IF r = w.leaf THEN x.leaf ELSE heap[r].leaf]]
  BY DEF Return
<1>10. w \in Struct /\ Same(w, x)
  BY <1>4, <1>5 DEF Struct, State, Same
<1> HIDE DEF w, b, l
<1>11. s' \in [Object -> Struct] /\ s'[o] = w /\ \A c \in Object : c # o => s'[c] = s[c]
  BY <1>9, <1>10 DEF TypeInv
<1>12. ASSUME NEW r \in Object
       PROVE  /\ heap'[r] = [buf  |-> IF r = b THEN x.buf ELSE heap[r].buf,
                             leaf |-> IF r = l THEN x.leaf ELSE heap[r].leaf]
              /\ heap'[r] \in Memory
              /\ r # o => heap'[r] = heap[r]
  <2>1. heap'[r] = [buf |-> IF r = b THEN x.buf ELSE heap[r].buf,
                    leaf |-> IF r = l THEN x.leaf ELSE heap[r].leaf]
    BY <1>8, <1>9
  <2>2. heap[r] \in Memory /\ r # nil
    BY DEF TypeInv, NilAssumption
  <2>3. x.buf \in Seq(Byte) \union {nil} /\ x.leaf \in Leaf \union {nil}
    BY <1>4 DEF State
  <2>4. heap'[r] \in Memory
    BY <2>1, <2>2, <2>3 DEF Memory
  <2>5. ASSUME r # o PROVE heap'[r] = heap[r]
    <3>1. r # b /\ r # l
      BY <1>5, <2>2, <2>5
    <3>2. heap'[r] = [buf |-> heap[r].buf, leaf |-> heap[r].leaf]
      BY <2>1, <3>1
    <3>3. QED
      BY <2>2, <3>2 DEF Memory
  <2>6. QED
    BY <2>1, <2>4, <2>5
<1>13. heap' \in [Object -> Memory]
  <2>1. heap' = [r \in Object |-> heap'[r]]
    BY <1>9
  <2>2. QED
    BY <1>12, <2>1, Zenon
<1>14. Others(o)
  BY <1>11, <1>12 DEF Others
<1>15. (b = o => heap'[o].buf = x.buf) /\ (l = o => heap'[o].leaf = x.leaf)
  <2>1. heap'[o] = [buf  |-> IF o = b THEN x.buf ELSE heap[o].buf,
                    leaf |-> IF o = l THEN x.leaf ELSE heap[o].leaf]
    BY <1>12
  <2>2. b = o => heap'[o].buf = x.buf
    BY <2>1
  <2>3. l = o => heap'[o].leaf = x.leaf
    BY <2>1
  <2>4. QED
    BY <2>2, <2>3
<1>16. Owns(o)'
  BY <1>3, <1>5, <1>6, <1>7, <1>8, <1>11, <1>15 DEF Owns
<1>17. Deref(o)' = x
  <2>1. Deref(o)' = [w EXCEPT !.buf  = IF @ = nil THEN nil ELSE heap'[@].buf,
                              !.leaf = IF @ = nil THEN nil ELSE heap'[@].leaf]
    BY <1>11 DEF Deref
  <2>2. (IF b = nil THEN nil ELSE heap'[b].buf) = x.buf
    BY <1>5, <1>6, <1>15
  <2>3. (IF l = nil THEN nil ELSE heap'[l].leaf) = x.leaf
    BY <1>5, <1>7, <1>15
  <2>4. Deref(o)' = [w EXCEPT !.buf = x.buf, !.leaf = x.leaf]
    BY <1>8, <1>10, <2>1, <2>2, <2>3 DEF Struct
  <2>5. QED
    BY <1>4, <1>10, <2>4, DerefIs, ZenonT(30)
<1>18. Same(s'[o], x)
  BY <1>10, <1>11
<1>19. QED
  BY <1>11, <1>13, <1>14, <1>16, <1>17, <1>18


\* What a fresh State is.
Fresh(v) == /\ v \in State /\ v.buf = nil /\ v.offset = 0 /\ v.chunk = 0
            /\ v.initialTodo = chunkSize /\ v.stalk = NewTurboShake128(7) /\ ~v.panicked
            /\ v.lanes # 1 => v.leaf = nil

LEMMA FreshAbsorbed ==
  ASSUME K12Assumption, NEW v, Fresh(v)
  PROVE  Shape(v) /\ Absorbed(v, <<>>) /\ ~v.stalk.squeezing
<1>1. v.stalk.in = <<>> /\ v.stalk.ds = 7 /\ ~v.stalk.squeezing
  BY DEF Fresh, NewTurboShake128
<1>2. Young(v)
  BY <1>1 DEF Fresh, Young
<1>3. Absorbed(v, <<>>)
  BY <1>1, Constants DEF Fresh, Absorbed
<1>4. QED
  BY <1>1, <1>2, <1>3 DEF Shape

LEMMA NewStalk == NewTurboShake128(7) \in Stalk
<1>1. <<>> \in Seq(Token)
  OBVIOUS
<1>2. QED
  BY <1>1 DEF NewTurboShake128, Stalk

LEMMA Starts ==
  ASSUME K12Assumption, NilAssumption, Init
  PROVE  Inv
<1>1. PICK lanes \in Lanes, n \in ContextLen : s = [o \in Object |-> newDraft10(lanes, n)]
  BY DEF Init
<1>2. lanes \in Nat \ {0} /\ n \in Nat /\ chunkSize \in Nat
  BY DEF K12Assumption
<1>3. PICK d : d = newDraft10(lanes, n)
  OBVIOUS
<1>4. d \in Struct /\ d.buf = nil /\ d.leaf = nil
  BY <1>2, <1>3, NewStalk DEF newDraft10, Struct
<1>5. d \in State /\ Fresh(d)
  <2>1. d \in State
    BY <1>2, <1>3, NewStalk DEF newDraft10, State
  <2>2. QED
    BY <1>3, <2>1 DEF newDraft10, Fresh
<1>6. s \in [Object -> Struct] /\ \A o \in Object : s[o] = d
  BY <1>1, <1>3, <1>4
<1>7. heap \in [Object -> Memory]
  BY DEF Init, Memory
<1>8. msg \in [Object -> Seq(Byte)] /\ \A o \in Object : msg[o] = <<>>
  <2>1. <<>> \in Seq(Byte)
    OBVIOUS
  <2>2. QED
    BY <2>1 DEF Init
<1>9. late \in [Object -> Nat]
  BY DEF Init
<1>10. TypeInv
  BY <1>6, <1>7, <1>8, <1>9 DEF TypeInv
<1>11. OwnInv
  BY <1>4, <1>6 DEF OwnInv, Owns, NilAssumption
<1>12. ASSUME NEW o \in Object PROVE Holds(o)
  <2>1. Deref(o) = d
    BY <1>4, <1>6 DEF Deref, Struct
  <2>2. QED
    BY <1>5, <1>6, <1>8, <2>1, FreshAbsorbed DEF Holds
<1>13. QED
  BY <1>10, <1>11, <1>12 DEF Inv, HoldInv

\* A step that changes o alone keeps the invariant if it keeps it of o.
Preserves(o) == /\ Others(o) /\ Owns(o)' /\ Holds(o)' /\ TypeInv'
            /\ \A c \in Object : c # o => msg'[c] = msg[c]

LEMMA OneChanged ==
  ASSUME NilAssumption, Inv, NEW o \in Object, Preserves(o)
  PROVE  Inv'
<1>1. TypeInv /\ OwnInv
  BY DEF Inv
<1>2. ASSUME NEW c \in Object, c # o PROVE Owns(c)'
  <2>1. s'[c] = s[c] /\ heap'[c] = heap[c] /\ Owns(c)
    BY <1>1, <1>2 DEF Preserves, Others, OwnInv
  <2>2. QED
    BY <2>1 DEF Owns
<1>3. ASSUME NEW c \in Object, c # o PROVE Holds(c)'
  <2>1. s'[c] = s[c] /\ msg'[c] = msg[c] /\ Holds(c)
    BY <1>3 DEF Preserves, Others, Inv, HoldInv
  <2>2. Deref(c)' = Deref(c)
    BY <1>1, <1>3, OthersSame DEF Preserves
  <2>3. QED
    BY <2>1, <2>2 DEF Holds
<1>4. Owns(o)' /\ Holds(o)' /\ TypeInv'
  BY DEF Preserves
<1>5. OwnInv'
  BY <1>2, <1>4 DEF OwnInv
<1>6. HoldInv'
  BY <1>3, <1>4 DEF HoldInv
<1>7. QED
  BY <1>4, <1>5, <1>6 DEF Inv


\* What a call returned, given to o.
Given(o, x) == /\ Shape(x) /\ ~x.panicked /\ Return(o, x)
               /\ x.lanes = Deref(o).lanes /\ x.context = Deref(o).context
               /\ x.buf = nil => Deref(o).buf = nil /\ x.leaf = Deref(o).leaf

LEMMA GivenReturned ==
  ASSUME NilAssumption, Inv, NEW o \in Object, NEW x, Given(o, x)
  PROVE  /\ s' \in [Object -> Struct] /\ heap' \in [Object -> Memory]
         /\ Others(o) /\ Owns(o)' /\ Deref(o)' = x /\ Same(s'[o], x)
<1>1. TypeInv /\ OwnInv /\ Shape(Deref(o))
  BY DEF Inv, HoldInv, Holds
<1>2. QED
  BY <1>1, Returned DEF Given

LEMMA Writes ==
  ASSUME K12Assumption, NilAssumption, Inv, NEW o \in Object, NEW n \in 0 .. MaxMessage,
         Write(o, n)
  PROVE  Preserves(o)
<1>1. TypeInv /\ OwnInv /\ Holds(o)
  BY DEF Inv, HoldInv
<1>2. PICK p : p = [i \in 1 .. n |-> <<o, Len(msg[o]) + late[o] + i>>]
  OBVIOUS
<1>3. p \in Seq(Byte)
  <2>1. n \in Nat
    OBVIOUS
  <2>2. Len(msg[o]) \in Nat /\ late[o] \in Nat
    BY <1>1 DEF TypeInv
  <2>3. \A i \in 1 .. n : <<o, Len(msg[o]) + late[o] + i>> \in Byte
    BY <2>2 DEF Byte
  <2>4. p \in [1 .. n -> Byte]
    BY <1>2, <2>3
  <2>5. QED
    BY <2>1, <2>4
<1>4. PICK v \in State : v = Deref(o)
  BY <1>1, DerefFacts
<1>5. PICK x : x = write(v, p)
  OBVIOUS
<1>6. /\ ~s[o].panicked /\ Return(o, x)
      /\ IF s[o].stalk.squeezing
           THEN /\ late' = [late EXCEPT ![o] = IF s'[o].panicked THEN @ ELSE @ + n]
                /\ msg' = msg
           ELSE msg' = [msg EXCEPT ![o] = @ \o p] /\ late' = late
  BY <1>2, <1>4, <1>5 DEF Write
<1>7. Shape(v) /\ Same(s[o], v) /\ v = Deref(o)
  BY <1>1, <1>4, DerefFacts DEF Holds
<1>8. Written(v, p, x)
  BY <1>3, <1>5, <1>7, WriteWrites
<1>9. late' \in [Object -> Nat]
  <2>1. n \in Nat /\ late[o] \in Nat
    BY <1>1 DEF TypeInv
  <2>2. PICK k \in Nat : late' = late \/ late' = [late EXCEPT ![o] = k]
    <3>1. CASE ~s[o].stalk.squeezing
      BY <1>6, <3>1
    <3>2. CASE s[o].stalk.squeezing /\ s'[o].panicked
      BY <1>6, <2>1, <3>2
    <3>3. CASE s[o].stalk.squeezing /\ ~s'[o].panicked
      <4>1. late[o] + n \in Nat /\ late' = [late EXCEPT ![o] = late[o] + n]
        BY <1>6, <2>1, <3>3
      <4>2. QED
        BY <4>1
    <3>4. QED
      BY <3>1, <3>2, <3>3
  <2>3. QED
    BY <1>1, <2>2 DEF TypeInv
<1>10. msg' \in [Object -> Seq(Byte)] /\ \A c \in Object : c # o => msg'[c] = msg[c]
  <2>1. msg[o] \o p \in Seq(Byte)
    BY <1>1, <1>3, ConcatProperties DEF TypeInv
  <2>2. QED
    BY <1>1, <1>6, <2>1 DEF TypeInv
<1>11. CASE ~x.panicked
  <2>1. Given(o, x)
    BY <1>6, <1>7, <1>8, <1>11 DEF Given, Written, After
  <2>2. /\ s' \in [Object -> Struct] /\ heap' \in [Object -> Memory]
        /\ Others(o) /\ Owns(o)' /\ Deref(o)' = x /\ Same(s'[o], x)
    BY <1>1, <2>1, GivenReturned
  <2>3. TypeInv'
    BY <1>9, <1>10, <2>2 DEF TypeInv
  <2>4. Shape(x) /\ s'[o].stalk = x.stalk /\ s'[o].context = s[o].context
    BY <1>7, <1>8, <2>2 DEF Written, After, Same
  <2>5. CASE s[o].stalk.squeezing
    <3>1. x.stalk = s[o].stalk
      BY <1>7, <1>8, <1>11, <2>5 DEF Written, After, Same
    <3>2. msg' = msg
      BY <1>6, <2>5
    <3>3. Holds(o)'
      BY <1>1, <2>2, <2>4, <2>5, <3>1, <3>2 DEF Holds
    <3>4. QED
      BY <1>10, <2>2, <2>3, <3>3 DEF Preserves
  <2>6. CASE ~s[o].stalk.squeezing
    <3>1. msg'[o] = msg[o] \o p /\ msg[o] \in Seq(Byte)
      BY <1>1, <1>6, <2>6 DEF TypeInv
    <3>2. Absorbed(v, msg[o])
      BY <1>1, <1>7, <2>6 DEF Holds
    <3>3. Absorbed(x, msg'[o])
      BY <1>8, <3>1, <3>2 DEF Written
    <3>4. ~x.stalk.squeezing
      BY <3>3 DEF Absorbed
    <3>5. Holds(o)'
      BY <2>2, <2>4, <3>3, <3>4 DEF Holds
    <3>6. QED
      BY <1>10, <2>2, <2>3, <3>5 DEF Preserves
  <2>7. QED
    BY <2>5, <2>6
<1>12. CASE x.panicked
  <2>1. s[o].stalk.squeezing
    <3>1. SUFFICES ASSUME ~s[o].stalk.squeezing PROVE FALSE
      OBVIOUS
    <3>2. Absorbed(v, msg[o]) /\ msg[o] \in Seq(Byte)
      BY <1>1, <1>7, <3>1 DEF Holds, TypeInv
    <3>3. Absorbed(x, msg[o] \o p)
      BY <1>8, <3>2 DEF Written
    <3>4. QED
      BY <1>12, <3>3 DEF Absorbed
  <2>2. s' = [s EXCEPT ![o].panicked = TRUE] /\ heap' = heap
    BY <1>6, <1>12 DEF Return
  <2>3. s[o] \in Struct /\ s \in [Object -> Struct] /\ heap \in [Object -> Memory]
    BY <1>1 DEF TypeInv
  <2>4. PICK t : t = [s[o] EXCEPT !.panicked = TRUE]
    OBVIOUS
  <2>5. PICK y : y = [v EXCEPT !.panicked = TRUE]
    OBVIOUS
  <2>6. /\ t \in Struct /\ y \in State /\ Same(t, y)
        /\ t.buf = s[o].buf /\ t.leaf = s[o].leaf /\ y.buf = v.buf /\ y.leaf = v.leaf
    BY <1>4, <1>7, <2>3, <2>4, <2>5 DEF Struct, State, Same
  <2>7. s' \in [Object -> Struct] /\ s'[o] = t /\ \A c \in Object : c # o => s'[c] = s[c]
    BY <2>2, <2>3, <2>4, <2>6
  <2>8. Others(o)
    BY <2>2, <2>7 DEF Others
  <2>9. Owns(o) /\ o # nil
    BY <1>1 DEF OwnInv, NilAssumption
  <2>10. Owns(o)'
    BY <2>2, <2>6, <2>7, <2>9 DEF Owns
  <2>11. Deref(o)' = y
    <3>1. Deref(o)' = [t EXCEPT !.buf  = IF @ = nil THEN nil ELSE heap[@].buf,
                                !.leaf = IF @ = nil THEN nil ELSE heap[@].leaf]
      BY <2>2, <2>7 DEF Deref
    <3>2. /\ v.buf = IF s[o].buf = nil THEN nil ELSE heap[o].buf
          /\ v.leaf = IF s[o].leaf = nil THEN nil ELSE heap[o].leaf
      BY <1>1, <1>7, DerefFacts
    <3>3. (IF t.buf = nil THEN nil ELSE heap[t.buf].buf) = y.buf
      BY <2>6, <2>9, <3>2 DEF Owns
    <3>4. (IF t.leaf = nil THEN nil ELSE heap[t.leaf].leaf) = y.leaf
      BY <2>6, <2>9, <3>2 DEF Owns
    <3>5. Deref(o)' = [t EXCEPT !.buf = y.buf, !.leaf = y.leaf]
      BY <2>6, <3>1, <3>3, <3>4 DEF Struct
    <3>6. PICK b, l : b = y.buf /\ l = y.leaf
      OBVIOUS
    <3>7. [t EXCEPT !.buf = b, !.leaf = l] = y
      BY <2>6, <3>6 DEF Struct, State, Same
    <3>8. QED
      BY <3>5, <3>6, <3>7
  <2>12. TypeInv'
    BY <1>9, <1>10, <2>2, <2>3, <2>7 DEF TypeInv
  <2>13. Shape(y)
    <3>1. /\ y.offset = v.offset /\ y.stalk = v.stalk /\ y.lanes = v.lanes
          /\ y.initialTodo = v.initialTodo
      BY <1>4, <2>5 DEF State
    <3>2. QED
      BY <1>7, <2>6, <3>1 DEF Shape, Young, Ready, Filled
  <2>14. s'[o].stalk = s[o].stalk /\ s'[o].context = s[o].context /\ msg' = msg
    BY <1>6, <2>1, <2>3, <2>4, <2>7 DEF Struct
  <2>15. Holds(o)'
    BY <1>1, <2>1, <2>11, <2>13, <2>14 DEF Holds
  <2>16. QED
    BY <1>10, <2>8, <2>10, <2>12, <2>15 DEF Preserves
<1>13. QED
  BY <1>11, <1>12

LEMMA Reads ==
  ASSUME K12Assumption, NilAssumption, Inv, NEW o \in Object, Read(o)
  PROVE  Preserves(o)
<1>1. TypeInv /\ OwnInv /\ Holds(o)
  BY DEF Inv, HoldInv
<1>2. PICK v \in State : v = Deref(o)
  BY <1>1, DerefFacts
<1>3. PICK x : x = read(v)
  OBVIOUS
<1>4. ~s[o].panicked /\ Return(o, x) /\ msg' = msg /\ late' = late
  BY <1>2, <1>3 DEF Read
<1>5. Shape(v) /\ Same(s[o], v) /\ v = Deref(o)
  BY <1>1, <1>2, DerefFacts DEF Holds
<1>6. /\ Shape(x) /\ x.stalk.squeezing /\ ~x.panicked
      /\ x.stalk = Tree(msg[o] \o C(v.context) \o length_encode(v.context))
      /\ x.lanes = v.lanes /\ x.context = v.context
      /\ x.buf = nil => v.buf = nil /\ x.leaf = v.leaf
  <2>1. CASE s[o].stalk.squeezing
    <3>1. x = v
      BY <1>3, <1>5, <2>1 DEF read, Same
    <3>2. s[o].stalk = Tree(msg[o] \o C(s[o].context) \o length_encode(s[o].context))
      BY <1>1, <2>1 DEF Holds
    <3>3. v.stalk = s[o].stalk /\ v.context = s[o].context /\ ~v.panicked
      BY <1>4, <1>5 DEF Same
    <3>4. QED
      BY <1>5, <2>1, <3>1, <3>2, <3>3
  <2>2. CASE ~s[o].stalk.squeezing
    <3>1. Absorbed(v, msg[o]) /\ msg[o] \in Seq(Byte)
      BY <1>1, <1>5, <2>2 DEF Holds, TypeInv
    <3>2. WasRead(v, msg[o], x)
      BY <1>3, <1>5, <3>1, Reading
    <3>3. QED
      BY <3>2 DEF WasRead
  <2>3. QED
    BY <2>1, <2>2
<1>7. Given(o, x)
  BY <1>4, <1>5, <1>6 DEF Given
<1>8. /\ s' \in [Object -> Struct] /\ heap' \in [Object -> Memory]
      /\ Others(o) /\ Owns(o)' /\ Deref(o)' = x /\ Same(s'[o], x)
  BY <1>1, <1>7, GivenReturned
<1>9. TypeInv'
  BY <1>1, <1>4, <1>8 DEF TypeInv
<1>10. s'[o].stalk = x.stalk /\ s'[o].context = v.context
  BY <1>6, <1>8 DEF Same
<1>11. Holds(o)'
  BY <1>4, <1>6, <1>8, <1>10 DEF Holds
<1>12. QED
  BY <1>4, <1>8, <1>9, <1>11 DEF Preserves


LEMMA Resets ==
  ASSUME K12Assumption, NilAssumption, Inv, NEW o \in Object, Reset(o)
  PROVE  Preserves(o)
<1>1. TypeInv /\ OwnInv /\ Holds(o)
  BY DEF Inv, HoldInv
<1>2. s \in [Object -> Struct] /\ s[o] \in Struct /\ heap \in [Object -> Memory] /\ chunkSize \in Nat
  BY <1>1 DEF TypeInv, K12Assumption
<1>3. PICK st : st = NewTurboShake128(7)
  OBVIOUS
<1>4. st \in Stalk
  BY <1>3, NewStalk
<1>5. PICK t : t = [s[o] EXCEPT !.initialTodo = chunkSize, !.stalk = st, !.buf = nil,
                                !.offset = 0, !.chunk = 0, !.panicked = FALSE]
  OBVIOUS
<1>6. /\ t \in Struct /\ t.buf = nil /\ t.leaf = s[o].leaf /\ t.lanes = s[o].lanes
      /\ t.stalk = st /\ t.initialTodo = chunkSize /\ t.offset = 0 /\ t.chunk = 0
      /\ ~t.panicked
  BY <1>2, <1>4, <1>5 DEF Struct
<1>7. s' = [s EXCEPT ![o] = t] /\ heap' = heap
  BY <1>2, <1>3, <1>5 DEF Reset
<1>8. s' \in [Object -> Struct] /\ s'[o] = t /\ \A c \in Object : c # o => s'[c] = s[c]
  BY <1>2, <1>6, <1>7
<1>9. msg' \in [Object -> Seq(Byte)] /\ msg'[o] = <<>> /\ \A c \in Object : c # o => msg'[c] = msg[c]
  <2>1. <<>> \in Seq(Byte)
    OBVIOUS
  <2>2. msg' = [msg EXCEPT ![o] = <<>>] /\ msg \in [Object -> Seq(Byte)]
    BY <1>1 DEF TypeInv, Reset
  <2>3. QED
    BY <2>1, <2>2
<1>10. late' \in [Object -> Nat]
  BY <1>1 DEF TypeInv, Reset
<1>11. TypeInv'
  BY <1>2, <1>7, <1>8, <1>9, <1>10 DEF TypeInv
<1>12. Others(o)
  BY <1>7, <1>8 DEF Others
<1>13. Owns(o) /\ o # nil
  BY <1>1 DEF OwnInv, NilAssumption
<1>14. Owns(o)'
  BY <1>6, <1>7, <1>8, <1>13 DEF Owns
<1>15. PICK v \in State : v = Deref(o)
  BY <1>1, DerefFacts
<1>16. v.leaf = (IF s[o].leaf = nil THEN nil ELSE heap[o].leaf) /\ Same(s[o], v) /\ Shape(v)
  BY <1>1, <1>15, DerefFacts DEF Holds
<1>17. PICK y : y = Deref(o)'
  OBVIOUS
<1>18. y = [t EXCEPT !.buf = nil, !.leaf = v.leaf]
  <2>1. y = [t EXCEPT !.buf  = IF @ = nil THEN nil ELSE heap[@].buf,
                      !.leaf = IF @ = nil THEN nil ELSE heap[@].leaf]
    BY <1>7, <1>8, <1>17 DEF Deref
  <2>2. (IF t.leaf = nil THEN nil ELSE heap[t.leaf].leaf) = v.leaf
    BY <1>6, <1>13, <1>16 DEF Owns
  <2>3. QED
    BY <1>6, <2>1, <2>2 DEF Struct
<1>19. Fresh(y)
  <2>1. v.leaf \in Leaf \union {nil}
    BY <1>15 DEF State
  <2>2. y \in State /\ Same(t, y) /\ y.buf = nil /\ y.leaf = v.leaf
    BY <1>6, <1>18, <2>1 DEF State, Struct, Same
  <2>3. v.lanes # 1 => v.leaf = nil
    BY <1>16 DEF Shape, Young, Ready, Filled
  <2>4. y.lanes = v.lanes
    BY <1>6, <1>16, <2>2 DEF Same
  <2>5. QED
    BY <1>3, <1>6, <2>2, <2>3, <2>4 DEF Fresh, Same
<1>20. Holds(o)'
  <2>1. Shape(y) /\ Absorbed(y, <<>>)
    BY <1>19, FreshAbsorbed
  <2>2. ~s'[o].stalk.squeezing
    BY <1>3, <1>6, <1>8 DEF NewTurboShake128
  <2>3. QED
    BY <1>9, <1>17, <2>1, <2>2 DEF Holds
<1>21. QED
  BY <1>9, <1>11, <1>12, <1>14, <1>20 DEF Preserves

LEMMA Clones ==
  ASSUME K12Assumption, NilAssumption, Inv, NEW o \in Object, NEW c \in Object, Clone(o, c)
  PROVE  Preserves(c)
<1>1. TypeInv /\ OwnInv /\ Holds(o)
  BY DEF Inv, HoldInv
<1>2. s \in [Object -> Struct] /\ s[o] \in Struct /\ heap \in [Object -> Memory]
  BY <1>1 DEF TypeInv
<1>3. PICK v \in State : v = Deref(o)
  BY <1>1, DerefFacts
<1>4. Same(s[o], v) /\ Shape(v) /\ (s[o].buf = nil <=> v.buf = nil) /\ (s[o].leaf = nil <=> v.leaf = nil)
  BY <1>1, <1>3, DerefFacts DEF Holds
<1>5. PICK b, l : /\ b = IF s[o].buf = nil THEN nil ELSE c
                  /\ l = IF s[o].leaf = nil THEN nil ELSE c
  OBVIOUS
<1>6. c # nil
  BY DEF NilAssumption
<1>7. b \in {nil, c} /\ l \in {nil, c} /\ (b = nil <=> v.buf = nil) /\ (l = nil <=> v.leaf = nil)
  BY <1>4, <1>5, <1>6
<1>8. PICK t : t = [s[o] EXCEPT !.buf = b, !.leaf = l]
  OBVIOUS
<1>9. t \in Struct /\ t.buf = b /\ t.leaf = l /\ Same(t, v)
  BY <1>2, <1>4, <1>7, <1>8 DEF Struct, Same
<1>10. s' = [s EXCEPT ![c] = t]
  BY <1>2, <1>5, <1>8 DEF Clone, Struct
<1>11. s' \in [Object -> Struct] /\ s'[c] = t /\ \A r \in Object : r # c => s'[r] = s[r]
  BY <1>2, <1>9, <1>10
<1>12. PICK h : h = [buf |-> v.buf, leaf |-> v.leaf]
  OBVIOUS
<1>13. h \in Memory /\ h.buf = v.buf /\ h.leaf = v.leaf
  BY <1>3, <1>12 DEF State, Memory
<1>14. heap' = [heap EXCEPT ![c] = h]
  BY <1>3, <1>12 DEF Clone
<1>15. heap' \in [Object -> Memory] /\ heap'[c] = h /\ \A r \in Object : r # c => heap'[r] = heap[r]
  BY <1>2, <1>13, <1>14
<1>16. /\ msg' \in [Object -> Seq(Byte)] /\ late' \in [Object -> Nat]
       /\ msg'[c] = msg[o] /\ \A r \in Object : r # c => msg'[r] = msg[r]
  BY <1>1 DEF TypeInv, Clone
<1>17. TypeInv'
  BY <1>11, <1>15, <1>16 DEF TypeInv
<1>18. Others(c)
  BY <1>11, <1>15 DEF Others
<1>19. Owns(c)'
  BY <1>6, <1>7, <1>9, <1>11, <1>13, <1>15 DEF Owns
<1>20. Deref(c)' = v
  <2>1. Deref(c)' = [t EXCEPT !.buf  = IF @ = nil THEN nil ELSE heap'[@].buf,
                              !.leaf = IF @ = nil THEN nil ELSE heap'[@].leaf]
    BY <1>11 DEF Deref
  <2>2. (IF b = nil THEN nil ELSE heap'[b].buf) = v.buf
    BY <1>7, <1>13, <1>15
  <2>3. (IF l = nil THEN nil ELSE heap'[l].leaf) = v.leaf
    BY <1>7, <1>13, <1>15
  <2>4. Deref(c)' = [t EXCEPT !.buf = v.buf, !.leaf = v.leaf]
    BY <1>9, <2>1, <2>2, <2>3 DEF Struct
  <2>5. PICK x, y : x = v.buf /\ y = v.leaf
    OBVIOUS
  <2>6. [t EXCEPT !.buf = x, !.leaf = y] = v
    BY <1>9, <2>5 DEF State, Struct, Same
  <2>7. QED
    BY <2>4, <2>5, <2>6
<1>21. Holds(c)'
  <2>1. t.stalk = s[o].stalk /\ t.context = s[o].context
    BY <1>4, <1>9 DEF Same
  <2>2. QED
    BY <1>1, <1>3, <1>11, <1>16, <1>20, <2>1 DEF Holds
<1>22. QED
  BY <1>16, <1>17, <1>18, <1>19, <1>21 DEF Preserves

LEMMA Unchanged ==
  ASSUME Inv, UNCHANGED vars
  PROVE  Inv'
<1>1. s' = s /\ heap' = heap /\ msg' = msg /\ late' = late
  BY DEF vars
<1>2. TypeInv'
  BY <1>1 DEF Inv, TypeInv
<1>3. OwnInv'
  BY <1>1 DEF Inv, OwnInv, Owns
<1>4. ASSUME NEW o \in Object PROVE Holds(o)'
  <2>1. Deref(o)' = Deref(o)
    BY <1>1 DEF Deref
  <2>2. Holds(o)
    BY DEF Inv, HoldInv
  <2>3. QED
    BY <1>1, <2>1, <2>2 DEF Holds
<1>5. QED
  BY <1>2, <1>3, <1>4 DEF Inv, HoldInv

\* Every call changes one State, and keeps what it is.
LEMMA Calls ==
  ASSUME K12Assumption, NilAssumption, Inv, Next
  PROVE  \E o \in Object : Preserves(o)
<1>1. CASE \E o \in Object : \E n \in 0 .. MaxMessage : Write(o, n)
  BY <1>1, Writes
<1>2. CASE \E o \in Object : Read(o)
  BY <1>2, Reads
<1>3. CASE \E o \in Object : Reset(o)
  BY <1>3, Resets
<1>4. CASE \E o, c \in Object : Clone(o, c)
  BY <1>4, Clones
<1>5. QED
  BY <1>1, <1>2, <1>3, <1>4 DEF Next

LEMMA Invariance ==
  ASSUME K12Assumption, NilAssumption
  PROVE  Spec => []Inv
<1>1. Init => Inv
  BY Starts
<1>2. Inv /\ [Next]_vars => Inv'
  <2>1. SUFFICES ASSUME Inv, [Next]_vars PROVE Inv'
    OBVIOUS
  <2>2. CASE Next
    BY <2>1, <2>2, Calls, OneChanged
  <2>3. CASE UNCHANGED vars
    BY <2>1, <2>3, Unchanged
  <2>4. QED
    BY <2>1, <2>2, <2>3
<1>3. QED
  BY <1>1, <1>2, PTL DEF Spec


-----------------------------------------------------------------------------
(* What a program may rely on *)

\* For any size of chunk, any number of State values, of lanes and of bytes
\* written, until output begins no write panics: not writeX's "shouldn't happen",
\* nor a sponge that is written to after it was read. The buffer and the leaf are
\* there when data came past the first chunk, and have room.
THEOREM NeverPanics ==
  ASSUME K12Assumption, NilAssumption
  PROVE  Spec => []NoPanicWhileAbsorbing
<1>1. ASSUME Inv, NEW o \in Object
      PROVE  /\ s[o].panicked => s[o].stalk.squeezing
             /\ s[o].buf = nil => s[o].offset = 0 /\ s[o].stalk.ds = 7
             /\ s[o].buf # nil =>
                  /\ s[o].initialTodo = 0
                  /\ IF s[o].lanes = 1
                       THEN s[o].leaf # nil /\ s[o].offset < chunkSize
                       ELSE /\ Len(Deref(o).buf) = s[o].lanes * chunkSize
                            /\ s[o].offset < Len(Deref(o).buf)
  <2>1. TypeInv /\ OwnInv /\ Holds(o)
    BY <1>1 DEF Inv, HoldInv
  <2>2. PICK v \in State : v = Deref(o)
    BY <2>1, DerefFacts
  <2>3. /\ Same(s[o], v) /\ Shape(v)
        /\ s[o].buf = nil <=> v.buf = nil
        /\ s[o].leaf = nil <=> v.leaf = nil
    BY <2>1, <2>2, DerefFacts DEF Holds
  <2>4. s[o].panicked => s[o].stalk.squeezing
    BY <2>1, <2>2, <2>3 DEF Holds, Absorbed, Same
  <2>5. s[o].buf = nil => s[o].offset = 0 /\ s[o].stalk.ds = 7
    BY <2>3 DEF Shape, Young, Ready, Filled, Same
  <2>6. ASSUME s[o].buf # nil
        PROVE  /\ s[o].initialTodo = 0
               /\ IF s[o].lanes = 1
                    THEN s[o].leaf # nil /\ s[o].offset < chunkSize
                    ELSE Len(v.buf) = s[o].lanes * chunkSize /\ s[o].offset < Len(v.buf)
    <3>1. Ready(v)
      BY <2>3, <2>6 DEF Shape, Young
    <3>2. v.initialTodo = 0 /\ v.offset \in Nat /\ chunkSize \in Nat
      BY <2>2, <3>1, Constants DEF Ready, Filled, State
    <3>3. ASSUME v.lanes = 1 PROVE v.leaf # nil /\ v.offset < chunkSize
      BY <3>1, <3>2, <3>3 DEF Ready, Filled
    <3>4. ASSUME v.lanes # 1 PROVE Len(v.buf) = v.lanes * chunkSize /\ v.offset < Len(v.buf)
      <4>1. /\ v.buf # nil /\ Len(v.buf) = v.lanes * chunkSize
            /\ v.offset <= Len(v.buf) /\ v.offset # Len(v.buf)
        BY <3>1, <3>4 DEF Ready, Filled
      <4>2. Len(v.buf) \in Nat
        BY <2>2, <4>1 DEF State
      <4>3. QED
        BY <3>2, <4>1, <4>2
    <3>5. QED
      BY <2>3, <3>2, <3>3, <3>4 DEF Same
  <2>7. QED
    BY <2>2, <2>4, <2>5, <2>6
<1>2. Inv => NoPanicWhileAbsorbing
  BY <1>1 DEF NoPanicWhileAbsorbing
<1>3. QED
  BY <1>2, Invariance, PTL

\* For any size of chunk, any number of State values, of lanes and of bytes
\* written: the digest is the tree hash of the whole message, the context and its
\* length, however the message was cut into writes.
THEOREM DigestIsTree ==
  ASSUME K12Assumption, NilAssumption
  PROVE  Spec => []TreeHashed
<1>1. Inv => TreeHashed
  BY DEF Inv, HoldInv, Holds, TreeHashed
<1>2. QED
  BY <1>1, Invariance, PTL

\* A call changes one State: a clone shares neither buffer nor leaf with its
\* original, whatever is written, read, reset or cloned later.
THEOREM ClonesApart ==
  ASSUME K12Assumption, NilAssumption
  PROVE  Spec => OthersUnchanged
<1>1. Inv /\ Next => OthersKept
  <2>1. SUFFICES ASSUME Inv, Next, NEW a \in Object, NEW b \in Object, a # b
                 PROVE  Deref(a)' = Deref(a) \/ Deref(b)' = Deref(b)
    BY DEF OthersKept
  <2>2. PICK o \in Object : Others(o)
    BY <2>1, Calls DEF Preserves
  <2>3. TypeInv /\ OwnInv
    BY <2>1 DEF Inv
  <2>4. CASE a # o
    BY <2>2, <2>3, <2>4, OthersSame
  <2>5. CASE b # o
    BY <2>2, <2>3, <2>5, OthersSame
  <2>6. QED
    BY <2>1, <2>4, <2>5
<1>2. Inv /\ [Next]_vars => [OthersKept]_vars
  BY <1>1
<1>3. QED
  BY <1>2, Invariance, PTL DEF Spec, OthersUnchanged
=============================================================================
