----------------------------- MODULE FieldWords ------------------------------
(* Prime fields on machine words, least significant first: the Montgomery     *)
(* arithmetic of ecc/bls12381/ff and vdaf/prio3/arith, whose results are      *)
(* unique and below the modulus, and the arithmetic of math/fp25519 and       *)
(* math/fp448, whose results are any residue that fits in the words. A word   *)
(* is below W, which stands for 2^64; the chains of bits.Add64, bits.Sub64    *)
(* and bits.Mul64 are kept, carries and all.                                 *)
EXTENDS Integers, Sequences

CONSTANTS
  fpMont, scMont, fp128, fp64,   \* [W, m, k, RSquare]: word, modulus, -1/m mod W, R^2 mod m
  fp25519,                       \* [W, N, c, A24]: N words, p = W^N / 2 - c
  fp448,                         \* [W, H, N, A24]: p = W^N - H^N - 1, where H * H = W and N is odd
  maxNumTries,
  Inputs                         \* [at |-> a field, with |-> operands]

VARIABLE operands   \* what is looked at

\* F(x): TLC evaluates x first, and not where F needs it, where its stack may be too deep.
With(x, F(_)) == CHOOSE r \in {F(v) : v \in {x}} : TRUE

Zeros(n) == [i \in 1 .. n |-> 0]
One(n) == [i \in 1 .. n |-> IF i = 1 THEN 1 ELSE 0]

\* Chains of bits.Add64 and of bits.Sub64, with the carry or borrow that is left.
Add64(W, x, y) ==
  LET sum(t, v) == [z |-> Append(t.z, v % W), carry |-> v \div W]
      s[i \in 0 .. Len(x)] == IF i = 0 THEN [z |-> <<>>, carry |-> 0]
                              ELSE LET t == s[i - 1] IN sum(t, x[i] + y[i] + t.carry)
  IN  s[Len(x)]
Sub64(W, x, y) ==
  LET difference(t, v) == [z |-> Append(t.z, v % W), carry |-> IF v < 0 THEN 1 ELSE 0]
      s[i \in 0 .. Len(x)] == IF i = 0 THEN [z |-> <<>>, carry |-> 0]
                              ELSE LET t == s[i - 1] IN difference(t, x[i] - y[i] - t.carry)
  IN  s[Len(x)]

\* The low and the high words of the products of the words of x and the word k.
Low(W, x, k) == [i \in 1 .. Len(x) |-> (x[i] * k) % W]
High(W, x, k) == [i \in 1 .. Len(x) |-> (x[i] * k) \div W]
Mul64(W, x, k) == Add64(W, Append(Low(W, x, k), 0), <<0>> \o High(W, x, k)).z
-----------------------------------------------------------------------------
(* Montgomery arithmetic.                                                   *)

fiatAdd(f, x, y) ==
  LET s == Add64(f.W, x, y)
      t == Sub64(f.W, Append(s.z, s.carry), Append(f.m, 0))
  IN  IF t.carry = 1 THEN s.z ELSE SubSeq(t.z, 1, Len(x))

fiatSub(f, x, y) ==
  LET s == Sub64(f.W, x, y)
  IN  Add64(f.W, s.z, IF s.carry = 1 THEN f.m ELSE Zeros(Len(x))).z

\* One word of x: it is multiplied into t, and the lowest word of t is cleared and dropped.
MontgomeryRow(f, t, xi, y) ==
  LET s == Add64(f.W, t, Mul64(f.W, y, xi))
      r == Add64(f.W, s.z, Mul64(f.W, f.m, (s.z[1] * f.k) % f.W))
  IN  Append(Tail(r.z), r.carry + s.carry)

FinalSubtraction(f, t) ==
  LET s == Sub64(f.W, t, Append(f.m, 0))
  IN  SubSeq(IF s.carry = 1 THEN t ELSE s.z, 1, Len(f.m))

fiatMul(f, x, y) ==
  LET t[i \in 0 .. Len(x)] == IF i = 0 THEN Zeros(Len(x) + 1) ELSE MontgomeryRow(f, t[i - 1], x[i], y)
  IN  FinalSubtraction(f, t[Len(x)])

fiatSquare(f, x) == fiatMul(f, x, x)

toMont(f, x) == fiatMul(f, x, f.RSquare)
fromMont(f, x) == fiatMul(f, x, One(Len(x)))
Neg(f, x) == fiatSub(f, Zeros(Len(x)), x)

\* The most significant word, or byte, that differs decides.
isLessThan(x, y) ==
  \E i \in 1 .. Len(x) : x[i] < y[i] /\ \A j \in i + 1 .. Len(x) : x[j] = y[j]

\* Nothing for bytes of a number that is no residue.
UnmarshalBinary(f, s) == IF isLessThan(s, f.m) THEN toMont(f, s) ELSE <<>>
MarshalBinary(f, x) == fromMont(f, x)

fiatFpMontAdd(x, y) == fiatAdd(fpMont, x, y)
fiatFpMontSub(x, y) == fiatSub(fpMont, x, y)
fiatFpMontMul(x, y) == fiatMul(fpMont, x, y)
fiatFpMontSquare(x) == fiatSquare(fpMont, x)

fiatScMontAdd(x, y) == fiatAdd(scMont, x, y)
fiatScMontSub(x, y) == fiatSub(scMont, x, y)
fiatScMontMul(x, y) == fiatMul(scMont, x, y)
fiatScMontSquare(x) == fiatSquare(scMont, x)

fiatFp128Add(x, y) == fiatAdd(fp128, x, y)
fiatFp128Sub(x, y) == fiatSub(fp128, x, y)
fiatFp128Mul(x, y) == fiatMul(fp128, x, y)
fiatFp128Square(x) == fiatSquare(fp128, x)

\* One word: no chain is left, and the lowest word is the product's.
fiatFp64Add(x, y) == fiatAdd(fp64, x, y)
fiatFp64Sub(x, y) == fiatSub(fp64, x, y)
fiatFp64Mul(x, y) == fiatMul(fp64, x, y)
fiatFp64Square(x) == fiatSquare(fp64, x)

\* Numbers are drawn until one is below the modulus; after the last, the element keeps
\* the words of a number that is not.
Random(f, draws) ==
  LET good == {i \in 1 .. maxNumTries : isLessThan(draws[i], f.m)}
  IN  IF good = {} THEN [z |-> draws[maxNumTries], ok |-> FALSE]
      ELSE [z |-> toMont(f, draws[CHOOSE i \in good : \A j \in good : i <= j]), ok |-> TRUE]
-----------------------------------------------------------------------------
(* 2^255 - 19: what is carried out of the words comes back times 2c.        *)

\* (-c)&38 at the lowest word.
Fold(f, n, carry) == [i \in 1 .. n |-> IF i = 1 THEN 2 * f.c * carry ELSE 0]

\* The last carry is added to the lowest word alone.
AddLowest(f, s) == [s.z EXCEPT ![1] = (@ + 2 * f.c * s.carry) % f.W]
SubLowest(f, s) == [s.z EXCEPT ![1] = (@ - 2 * f.c * s.carry) % f.W]

add25519(f, x, y) ==
  LET s == Add64(f.W, x, y)
  IN  AddLowest(f, Add64(f.W, s.z, Fold(f, f.N, s.carry)))
sub25519(f, x, y) ==
  LET s == Sub64(f.W, x, y)
  IN  SubLowest(f, Sub64(f.W, s.z, Fold(f, f.N, s.carry)))

\* Both results are computed before x is set.
addsub25519(f, x, y) == <<add25519(f, x, y), sub25519(f, x, y)>>
Neg25519(f, x) == sub25519(f, [i \in 1 .. f.N |-> IF i = 1 THEN f.W - f.c ELSE
                                 IF i = f.N THEN f.W \div 2 - 1 ELSE f.W - 1], x)

\* The lowest bit of n decides, through a mask.
cmov25519(x, y, n) == IF n % 2 = 1 THEN y ELSE x
cswap25519(x, y, n) == IF n % 2 = 1 THEN <<y, x>> ELSE <<x, y>>

\* Words that went past the top twice: the second time they are few.
red25519(f, low, high) ==
  LET s == Add64(f.W, Mul64(f.W, high, 2 * f.c), Append(low, 0)).z
  IN  AddLowest(f, Add64(f.W, SubSeq(s, 1, f.N), Fold(f, f.N, s[f.N + 1])))

\* A row yields one word of the product; a is the rest of what was added up.
mul25519(f, x, y) ==
  LET row(t, i) ==
        LET s == Add64(f.W, <<t.a[1]>> \o High(f.W, x, y[i]), Append(Low(f.W, x, y[i]), 0)).z
        IN  [z |-> Append(t.z, s[1]), a |-> Add64(f.W, Append(Tail(t.a), 0), Tail(s)).z]
      t[i \in 0 .. f.N] == IF i = 0 THEN [z |-> <<>>, a |-> Zeros(f.N)] ELSE row(t[i - 1], i)
  IN  LET end == t[f.N] IN red25519(f, end.z, end.a)

\* The products of two words, doubled, and the squares, at their places.
sqr25519(f, x) ==
  LET l(i, j) == (x[i] * x[j]) % f.W
      h(i, j) == (x[i] * x[j]) \div f.W
      a == Add64(f.W, <<0, l(1, 2), l(1, 3), l(1, 4), l(4, 2), l(4, 3), h(4, 3), 0>>,
                      <<0, 0, h(1, 2), h(1, 3), h(1, 4), h(4, 2), 0, 0>>).z
      b == Add64(f.W, a, <<0, 0, 0, l(2, 3), h(2, 3), 0, 0, 0>>).z
      c == Add64(f.W, Add64(f.W, b, b).z,
                      <<l(1, 1), h(1, 1), l(2, 2), h(2, 2), l(3, 3), h(3, 3), l(4, 4), h(4, 4)>>).z
  IN  red25519(f, SubSeq(c, 1, 4), SubSeq(c, 5, 8))

\* The top bit is taken off with c, and c is added and taken back to see whether x reached p.
modp25519(f, x) ==
  LET top(v) == v[f.N] \div (f.W \div 2)
      bare(v) == [v EXCEPT ![f.N] = @ % (f.W \div 2)]
      up == Add64(f.W, bare(x), [Zeros(f.N) EXCEPT ![1] = IF top(x) = 1 THEN 2 * f.c ELSE f.c]).z
  IN  Sub64(f.W, bare(up), [Zeros(f.N) EXCEPT ![1] = IF top(up) = 1 THEN 0 ELSE f.c]).z

mulA24_25519(f, x) ==
  LET s == Mul64(f.W, x, f.A24)
  IN  AddLowest(f, Add64(f.W, SubSeq(s, 1, f.N), Fold(f, f.N, s[f.N + 1])))
-----------------------------------------------------------------------------
(* 2^448 - 2^224 - 1: what is carried out comes back at the lowest word and in *)
(* the middle of the middle word.                                            *)

Middle(f) == (f.N + 1) \div 2
Golden(f, z7) ==
  [i \in 1 .. f.N |-> IF i = 1 THEN z7 ELSE IF i = Middle(f) THEN (z7 * f.H) % f.W ELSE 0]

add448(f, x, y) ==
  LET s == Add64(f.W, x, y)
      t == Add64(f.W, s.z, Golden(f, s.carry))
  IN  Add64(f.W, t.z, Golden(f, t.carry)).z
sub448(f, x, y) ==
  LET s == Sub64(f.W, x, y)
      t == Sub64(f.W, s.z, Golden(f, s.carry))
  IN  Sub64(f.W, t.z, Golden(f, t.carry)).z

addsub448(f, x, y) == <<add448(f, x, y), sub448(f, x, y)>>
cmov448(x, y, n) == IF n % 2 = 1 THEN y ELSE x
cswap448(x, y, n) == IF n % 2 = 1 THEN <<y, x>> ELSE <<x, y>>

Folded448(f, l, l7) ==
  LET t == Add64(f.W, l, Golden(f, l7))
  IN  Add64(f.W, t.z, Golden(f, t.carry)).z

\* h is added once with its upper half doubled, and once turned by half of its length.
red448(f, l, h) ==
  LET n == f.N
      half == f.W \div 2
      m == Middle(f)
      doubled == [i \in 1 .. n |->
        IF i < m THEN h[i]
        ELSE IF i = m THEN (((h[m] \div f.H) * f.H * 2) % f.W) + (h[m] % f.H)
        ELSE (h[i - 1] \div half) + ((h[i] * 2) % f.W)]
      turned == [i \in 1 .. n |->
        LET at(j) == h[((j - 1) % n) + 1]
        IN  (at(m - 1 + i) \div f.H) + ((at(m + i) * f.H) % f.W)]
      s == Add64(f.W, doubled, l)
      t == Add64(f.W, s.z, turned)
  IN  Folded448(f, t.z, (h[n] \div half) + s.carry + t.carry)

mul448(f, x, y) ==
  LET row(t, i) ==
        LET s == Add64(f.W, t.a, Low(f.W, x, y[i]))
        IN  [z |-> Append(t.z, s.z[1]),
             a |-> Add64(f.W, Append(Tail(s.z), s.carry), High(f.W, x, y[i])).z]
      t[i \in 0 .. f.N] == IF i = 0 THEN [z |-> <<>>, a |-> Zeros(f.N)] ELSE row(t[i - 1], i)
  IN  LET end == t[f.N] IN red448(f, end.z, end.a)

p448(f) == [i \in 1 .. f.N |-> IF i = Middle(f) THEN f.W - 1 - f.H ELSE f.W - 1]
modp448(f, x) == sub448(f, x, p448(f))

Neg448(f, x) == sub448(f, p448(f), x)

mulA24_448(f, x) ==
  LET s == Mul64(f.W, x, f.A24) IN Folded448(f, SubSeq(s, 1, f.N), s[f.N + 1])
-----------------------------------------------------------------------------
(* Inversions and square roots are chains of squares and products. The power   *)
(* of x that a variable of the code holds is a number of Bytes bytes, for the  *)
(* moduli of the code.                                                       *)

Bytes == 56
Times(a, b) == With(a, LAMBDA u : With(b, LAMBDA v : Add64(256, u, v).z))
\* n squares: n bits to the left.
sqri(a, n) ==
  LET byte(u, i) == IF i \in 1 .. Bytes THEN u[i] ELSE 0
      left(u) == [i \in 1 .. Bytes |-> (byte(u, i - n \div 8) * 2 ^ (n % 8)) % 256]
      right(u) == [i \in 1 .. Bytes |-> (byte(u, i - n \div 8 - 1) * 2 ^ (n % 8)) \div 256]
  IN  With(a, LAMBDA u : Add64(256, left(u), right(u)).z)
Small(n) == [i \in 1 .. Bytes |-> IF i = 1 THEN n % 256 ELSE IF i = 2 THEN n \div 256 ELSE 0]

\* A step <<i, n, j>> is the i-th power with n squares, times the j-th; the first is 1, the
\* second x, and then come the results of the steps. A chain gives its last power.
Step(z, s) == Append(z, Times(sqri(z[s[1]], s[2]), z[s[3]]))
RECURSIVE Powers(_, _)
Powers(z, steps) ==
  LET half == Len(steps) \div 2
  IN  IF Len(steps) = 1 THEN Step(z, steps[1])
      ELSE With(Powers(z, SubSeq(steps, 1, half)),
                LAMBDA v : Powers(v, SubSeq(steps, half + 1, Len(steps))))
Chain(steps) == With(Powers(<<Zeros(Bytes), One(Bytes)>>, steps), LAMBDA z : z[Len(z)])

Inv25519 == Chain(
  <<<<2, 1, 1>>, <<3, 2, 2>>, <<4, 0, 3>>, <<5, 1, 4>>, <<6, 5, 6>>, <<7, 10, 7>>,
    <<8, 20, 8>>, <<9, 10, 7>>, <<10, 50, 10>>, <<11, 100, 11>>, <<12, 50, 10>>, <<13, 5, 5>>>>)

\* The power of u * v^7 that InvSqrt multiplies with u * v^3.
InvSqrt25519 == Chain(
  <<<<2, 1, 1>>, <<3, 2, 2>>, <<4, 0, 3>>, <<5, 1, 1>>, <<6, 0, 4>>, <<7, 5, 7>>,
    <<8, 5, 7>>, <<9, 15, 9>>, <<10, 30, 10>>, <<11, 60, 11>>, <<12, 5, 7>>, <<13, 125, 13>>,
    <<14, 2, 2>>>>)

ToMinus3div4 ==
  <<<<2, 1, 2>>, <<3, 1, 2>>, <<4, 3, 4>>, <<5, 6, 5>>, <<6, 12, 6>>, <<7, 3, 4>>,
    <<8, 27, 8>>, <<9, 54, 9>>, <<10, 3, 4>>, <<11, 111, 11>>, <<12, 1, 2>>, <<13, 223, 12>>>>
powPminus3div4 == Chain(ToMinus3div4)
Inv448 == Chain(Append(ToMinus3div4, <<14, 2, 2>>))

InvFp64 == Chain(
  <<<<2, 1, 2>>, <<3, 1, 2>>, <<4, 3, 4>>, <<5, 1, 2>>, <<5, 1, 1>>, <<7, 5, 5>>,
    <<8, 12, 8>>, <<9, 7, 6>>, <<10, 32, 10>>, <<11, 1, 2>>>>)
InvFp128 == Chain(
  <<<<2, 1, 2>>, <<3, 1, 2>>, <<4, 1, 1>>, <<5, 3, 5>>, <<6, 0, 2>>, <<7, 3, 1>>,
    <<8, 7, 8>>, <<9, 14, 9>>, <<10, 28, 10>>, <<11, 0, 4>>, <<12, 62, 12>>, <<13, 7, 7>>>>)

\* Some small powers first (i86 is the 85th), and then squares and a product with one of them.
InvFp381 == Chain(
  <<<<2, 0, 2>>, <<3, 0, 3>>, <<4, 0, 4>>, <<5, 0, 2>>, <<6, 0, 3>>, <<7, 0, 3>>,
    <<8, 0, 4>>, <<7, 0, 6>>, <<9, 0, 5>>, <<11, 0, 2>>, <<12, 0, 12>>, <<13, 0, 3>>,
    <<14, 0, 2>>, <<13, 0, 11>>, <<16, 0, 3>>, <<16, 0, 5>>, <<18, 0, 5>>, <<16, 0, 12>>,
    <<20, 0, 3>>, <<19, 0, 12>>, <<22, 0, 4>>, <<18, 0, 13>>, <<23, 0, 12>>, <<25, 0, 3>>,
    <<25, 0, 10>>, <<27, 0, 5>>, <<24, 0, 14>>, <<29, 0, 4>>, <<30, 0, 8>>, <<30, 0, 10>>,
    <<31, 0, 9>>, <<33, 0, 4>>, <<32, 0, 10>>, <<33, 0, 10>>, <<35, 0, 10>>, <<33, 0, 29>>,
    <<38, 8, 9>>, <<39, 11, 36>>, <<40, 11, 34>>, <<41, 8, 37>>, <<42, 7, 16>>, <<43, 9, 21>>,
    <<44, 10, 28>>, <<45, 7, 19>>, <<46, 9, 23>>, <<47, 6, 11>>, <<48, 11, 21>>, <<49, 9, 35>>,
    <<50, 10, 32>>, <<51, 6, 11>>, <<52, 10, 22>>, <<53, 9, 26>>, <<54, 11, 17>>, <<55, 10, 33>>,
    <<56, 9, 24>>, <<57, 9, 29>>, <<58, 8, 20>>, <<59, 10, 30>>, <<60, 9, 25>>, <<61, 12, 23>>,
    <<62, 5, 7>>, <<63, 11, 23>>, <<64, 7, 6>>, <<65, 13, 36>>, <<66, 9, 29>>, <<67, 8, 37>>,
    <<68, 8, 35>>, <<69, 11, 27>>, <<70, 8, 37>>, <<71, 8, 37>>, <<72, 6, 15>>, <<73, 10, 37>>,
    <<74, 9, 37>>, <<75, 8, 37>>, <<76, 8, 37>>, <<77, 8, 37>>, <<78, 7, 18>>, <<79, 9, 27>>>>)

\* The modulus of ecc/bls12381/ff, most significant byte first as the code has it.
fpOrder == <<26, 1, 17, 234, 57, 127, 230, 154, 75, 27, 167, 182, 67, 75, 172, 215,
             100, 119, 75, 132, 243, 133, 18, 191, 103, 48, 210, 160, 246, 176, 246, 36,
             30, 171, 255, 254, 177, 83, 255, 255, 185, 254, 255, 255, 255, 255, 170, 171>>
-----------------------------------------------------------------------------
Init == operands \in Inputs
Next == UNCHANGED operands
Spec == Init /\ [][Next]_operands
-----------------------------------------------------------------------------
\* What words stand for, and a product modulo m of numbers of which twice seven are below 2^31.
Value(W, x) == LET v[i \in 1 .. Len(x) + 1] == IF i > Len(x) THEN 0 ELSE x[i] + W * v[i + 1] IN v[1]
RECURSIVE TimesMod(_, _, _)
TimesMod(a, b, m) == IF b = 0 THEN 0 ELSE (4 * TimesMod(a, b \div 4, m) + (b % 4) * a) % m

IsResidue(W, z, v, m) == Value(W, z) % m = v % m /\ \A i \in 1 .. Len(z) : z[i] \in 0 .. W - 1

(* Operands x and y in Montgomery form: every result is the residue it        *)
(* should be, in its one form, and so is what is read and written.           *)
MontgomeryExact(f, Add(_, _), Sub(_, _), Mul(_, _), Square(_), x, y) ==
  LET W == f.W
      m == Value(W, f.m)
      a == Value(W, x)
      b == Value(W, y)
      R == W ^ Len(x)
      unique(z, v) == IsResidue(W, z, v, m) /\ Value(W, z) < m
      montgomery(z, v) == unique(z, Value(W, z)) /\ TimesMod(Value(W, z), R % m, m) = v % m
  IN  /\ unique(Add(x, y), a + b)
      /\ unique(Sub(x, y), a - b + m)
      /\ unique(Neg(f, x), m - a)
      /\ montgomery(Mul(x, y), TimesMod(a, b, m))
      /\ Square(x) = Mul(x, x)
      /\ fromMont(f, toMont(f, x)) = x
      /\ UnmarshalBinary(f, MarshalBinary(f, x)) = x
      /\ isLessThan(x, y) <=> a < b

(* The number drawn is the first below the modulus; without one the element   *)
(* is none.                                                                 *)
RandomExact(f, draws) ==
  LET r == Random(f, draws)
      below(d) == Value(f.W, d) < Value(f.W, f.m)
  IN  IF \E i \in 1 .. maxNumTries : below(draws[i])
      THEN r.ok /\ \E i \in 1 .. maxNumTries : /\ fromMont(f, r.z) = draws[i]
                                               /\ \A j \in 1 .. i - 1 : ~below(draws[j])
      ELSE ~r.ok /\ ~below(r.z)

(* Words of any value: results are words, and the residues they should be.   *)
Loose25519Exact(f, x, y) ==
  LET m == f.W ^ f.N \div 2 - f.c
      a == Value(f.W, x) % m
      b == Value(f.W, y) % m
  IN  /\ IsResidue(f.W, addsub25519(f, x, y)[1], a + b, m)
      /\ IsResidue(f.W, addsub25519(f, x, y)[2], a - b + m, m)
      /\ IsResidue(f.W, Neg25519(f, x), m - a, m)
      /\ IsResidue(f.W, mul25519(f, x, y), TimesMod(a, b, m), m)
      /\ sqr25519(f, x) = mul25519(f, x, x)
      /\ IsResidue(f.W, mulA24_25519(f, x), TimesMod(a, f.A24, m), m)
      /\ Value(f.W, modp25519(f, x)) = a
      /\ cswap25519(x, y, f.c) = <<cmov25519(x, y, f.c), cmov25519(y, x, f.c)>>
Loose448Exact(f, x, y) ==
  LET m == f.W ^ f.N - f.H ^ f.N - 1
      a == Value(f.W, x) % m
      b == Value(f.W, y) % m
  IN  /\ IsResidue(f.W, addsub448(f, x, y)[1], a + b, m)
      /\ IsResidue(f.W, addsub448(f, x, y)[2], a - b + m, m)
      /\ IsResidue(f.W, Neg448(f, x), m - a, m)
      /\ IsResidue(f.W, mul448(f, x, y), TimesMod(a, b, m), m)
      /\ IsResidue(f.W, mulA24_448(f, x), TimesMod(a, f.A24, m), m)
      /\ Value(f.W, modp448(f, x)) = a
      /\ cswap448(x, y, 2) = <<cmov448(x, y, 2), cmov448(y, x, 2)>>

(* The chains raise to p - 2, to (p - 5) / 8 and to (p - 3) / 4.              *)
ChainsExact ==
  LET p25519 == [i \in 1 .. Bytes |-> IF i > 32 THEN 0 ELSE IF i = 1 THEN 237 ELSE IF i = 32 THEN 127 ELSE 255]
      p2p448 == [i \in 1 .. Bytes |-> IF i = 29 THEN 254 ELSE 255]
      p381 == [i \in 1 .. Bytes |-> IF i > 48 THEN 0 ELSE fpOrder[49 - i]]
      p64 == [i \in 1 .. Bytes |-> IF i = 1 THEN 1 ELSE IF i \in 5 .. 8 THEN 255 ELSE 0]
      p128 == [i \in 1 .. Bytes |-> IF i = 1 THEN 1 ELSE IF i = 9 THEN 228 ELSE
                                    IF i \in 10 .. 16 THEN 255 ELSE 0]
  IN  /\ Times(Inv25519, Small(2)) = p25519
      /\ Times(sqri(InvSqrt25519, 3), Small(5)) = p25519
      /\ Times(Inv448, Small(2)) = p2p448
      /\ Times(sqri(powPminus3div4, 2), Small(3)) = p2p448
      /\ Times(InvFp381, Small(2)) = p381
      /\ Times(InvFp64, Small(2)) = p64
      /\ Times(InvFp128, Small(2)) = p128

WordsExact ==
  LET x == operands.with[1]
      y == operands.with[2]
  IN  CASE operands.at = "fpMont" ->
             MontgomeryExact(fpMont, fiatFpMontAdd, fiatFpMontSub, fiatFpMontMul, fiatFpMontSquare, x, y)
        [] operands.at = "scMont" ->
             MontgomeryExact(scMont, fiatScMontAdd, fiatScMontSub, fiatScMontMul, fiatScMontSquare, x, y)
        [] operands.at = "fp128" ->
             MontgomeryExact(fp128, fiatFp128Add, fiatFp128Sub, fiatFp128Mul, fiatFp128Square, x, y)
        [] operands.at = "fp64" ->
             MontgomeryExact(fp64, fiatFp64Add, fiatFp64Sub, fiatFp64Mul, fiatFp64Square, x, y)
        [] operands.at = "random"  -> RandomExact(fp64, operands.with)
        [] operands.at = "fp25519" -> Loose25519Exact(fp25519, x, y)
        [] operands.at = "fp448"   -> Loose448Exact(fp448, x, y)
        [] operands.at = "chains"  -> ChainsExact
=============================================================================
