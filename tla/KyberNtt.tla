------------------------------ MODULE KyberNtt ------------------------------
(* The arithmetic of ML-KEM and Kyber, on the real modulus, the real widths *)
(* and the real tables. Of one coefficient: reductions without division, and *)
(* rounding to d bits with a multiplication and a shift in place of a       *)
(* division. Of vectors: the inner product at the heart of decryption,      *)
(* m = v - <s, u>, as key generation and DecryptTo compute it: s is         *)
(* transformed and normalized, u is transformed and used as it is, and      *)
(* coefficients are reduced only where they might leave 16 bits. A step is  *)
(* a layer of the transform, on all polynomials of a vector.                *)
(*                                                                          *)
(* With each coefficient goes a bound that depends on no input: the one that *)
(* the comments of the code count in multiples of q.                        *)
EXTENDS Integers, Sequences

CONSTANTS K,         \* polynomials of a vector: 2, 3 or 4
          Inputs     \* [s, u, v]: s small, u and v as Decompress gives them

Q == 3329
Half == 32768   \* 2^15
R == 2 * Half

Int16(x) == IF x % R < Half THEN x % R ELSE (x % R) - R
Absolute(x) == IF x < 0 THEN -x ELSE x

(* int16(x * 62209), with the 32 bits of the product: only the last 16 bits *)
(* of the factors matter, and 62209 is -3327 there.                         *)
MulQinv(x) == Int16(-3327 * (x % R))

\* For -2^15 q <= x < 2^15 q: the shift is exact.
montReduce(x) == (x - MulQinv(x) * Q) \div R

toMont(x) == montReduce(x * 1353)

barrettReduce(x) == Int16(x - ((x * 20159) \div 67108864) * Q)   \* 2^26

csubq(x) == IF Int16(x - Q) < 0 THEN Int16(Int16(x - Q) + Q) ELSE Int16(x - Q)

\* One coefficient of Poly.normalizeGeneric.
normalize(x) == csubq(barrettReduce(x))

(* (v * 20642679) >> 36 for v below 2^23, in parts of at most 2^26.         *)
Div20642679(v) ==
  LET vh == v \div 2 ^ 12
      vl == v % 2 ^ 12
      ah == 20642679 \div 2 ^ 13
      al == 20642679 % 2 ^ 13
      s == (vl * al) \div 2 ^ 12 + vh * al + 2 * vl * ah
  IN  (vh * ah + s \div 2 ^ 13) \div 2 ^ 11

Compress1(x) ==   \* CompressMessageTo
  LET y == 1664 - x
  IN  IF (IF y < 0 THEN -y - 1 ELSE y) - 832 < 0 THEN 1 ELSE 0

\* CompressTo, and CompressMessageTo for d = 1.
Compress(x, d) ==
  CASE d = 1 -> Compress1(x)
    [] d \in {4, 5} -> (((x * 2 ^ d + Q \div 2) * 315) \div 2 ^ 20) % 2 ^ d
    [] d \in {10, 11} -> Div20642679(x * 2 ^ d + Q \div 2) % 2 ^ d

\* Decompress, and DecompressMessage for d = 1.
Decompress(y, d) == IF d = 1 THEN y * ((Q + 1) \div 2) ELSE (2 ^ (d - 1) + y * Q) \div 2 ^ d
-----------------------------------------------------------------------------
NttN == 256
Coeff == 0 .. NttN - 1

KyberNttAssumption ==
  /\ K \in 1 .. 4
  /\ \A x \in Inputs :
       /\ x.s \in [1 .. K -> [Coeff -> -3 .. 3]]
       /\ x.u \in [1 .. K -> [Coeff -> 0 .. Q - 1]]
       /\ x.v \in [Coeff -> 0 .. Q - 1]

\* In rows of eight.
Zetas == <<
  <<2285, 2571, 2970, 1812, 1493, 1422, 287, 202>>,
  <<3158, 622, 1577, 182, 962, 2127, 1855, 1468>>,
  <<573, 2004, 264, 383, 2500, 1458, 1727, 3199>>,
  <<2648, 1017, 732, 608, 1787, 411, 3124, 1758>>,
  <<1223, 652, 2777, 1015, 2036, 1491, 3047, 1785>>,
  <<516, 3321, 3009, 2663, 1711, 2167, 126, 1469>>,
  <<2476, 3239, 3058, 830, 107, 1908, 3082, 2378>>,
  <<2931, 961, 1821, 2604, 448, 2264, 677, 2054>>,
  <<2226, 430, 555, 843, 2078, 871, 1550, 105>>,
  <<422, 587, 177, 3094, 3038, 2869, 1574, 1653>>,
  <<3083, 778, 1159, 3182, 2552, 1483, 2727, 1119>>,
  <<1739, 644, 2457, 349, 418, 329, 3173, 3254>>,
  <<817, 1097, 603, 610, 1322, 2044, 1864, 384>>,
  <<2114, 3193, 1218, 1994, 2455, 220, 2142, 1670>>,
  <<2144, 1799, 2051, 794, 1819, 2475, 2459, 478>>,
  <<3221, 3021, 996, 991, 958, 1869, 1522, 1628>> >>

Zeta(k) == Zetas[k \div 8 + 1][(k % 8) + 1]

BugInvNTTReductions ==   \* slip: as if two layers could wait for the fifth
  [l \in {2, 4, 8, 16, 32, 64, 128} |->
     CASE l = 32 -> {2, 3, 130, 131} \cup 66 .. 71 \cup 194 .. 199
       [] l = 64 -> 4 .. 7 \cup 132 .. 143
       [] OTHER -> {}]

\* The coefficients that are reduced after the layer with butterflies of width l.
InvNTTReductions ==
  [l \in {2, 4, 8, 16, 32, 64, 128} |->
     CASE l = 8 -> {16 * i : i \in {1, 3, 5, 7, 9, 11, 13, 15}}
                     \cup {16 * i + 1 : i \in {1, 3, 5, 7, 9, 11, 13, 15}}
       [] l = 16 -> {32 * i + j : i \in 0 .. 7, j \in {0, 1}}
                      \cup {64 * i + j : i \in 0 .. 3, j \in {34, 35}}
       [] l = 32 -> {2, 3, 130, 131} \cup 66 .. 71 \cup 194 .. 199
       [] l = 64 -> 4 .. 7 \cup 132 .. 143
       [] OTHER -> {}]

Unbounded == 2 ^ 30
BarrettBound == Q
MontBound(b) == IF b < Half * Q THEN (b + Half * Q) \div R ELSE Unbounded

\* Coefficient j is the upper one of its butterfly, in the row group Group(j, l).
Upper(j, l) == j % (2 * l) < l
Group(j, l) == j \div (2 * l)
-----------------------------------------------------------------------------
BugNttLayer(p, l) ==   \* slip: the lower half of a butterfly reads the new upper half
  [j \in Coeff |->
     LET t(i) == montReduce(Zeta(NttN \div (2 * l) + Group(i, l)) * p[i + l])
     IN  IF Upper(j, l) THEN Int16(p[j] + t(j))
         ELSE Int16(p[j - l] + t(j - l) - t(j - l))]

\* The turn of the l-loop of nttGeneric with butterflies of width l.
NttLayer(p, l) ==
  [j \in Coeff |->
     LET t(i) == montReduce(Zeta(NttN \div (2 * l) + Group(i, l)) * p[i + l])
     IN  IF Upper(j, l) THEN Int16(p[j] + t(j)) ELSE Int16(p[j - l] - t(j - l))]

NttLayerBound(b, l) ==
  [j \in Coeff |-> LET i == IF Upper(j, l) THEN j ELSE j - l
                   IN  b[i] + MontBound((Q - 1) * b[i + l])]

\* The turn of the l-loop of invNTTGeneric, with its reductions.
InvNttLayer(p, l) ==
  [j \in Coeff |->
     LET minZeta == Zeta(NttN \div l - 1 - Group(j, l))
         y == IF Upper(j, l) THEN Int16(p[j] + p[j + l])
              ELSE montReduce(minZeta * Int16(p[j] - p[j - l]))
     IN  IF j \in InvNTTReductions[l] THEN barrettReduce(y) ELSE y]

\* Before a reduction a coefficient may not be too large either.
InvNttLayerBound(b, l) ==
  [j \in Coeff |->
     LET sum == IF Upper(j, l) THEN b[j] + b[j + l] ELSE b[j - l] + b[j]
     IN  IF sum >= Half THEN Unbounded
         ELSE IF j \in InvNTTReductions[l] THEN BarrettBound
         ELSE IF Upper(j, l) THEN sum ELSE MontBound((Q - 1) * sum)]

\* mulHatGeneric: pairs of coefficients are polynomials modulo x^2 - zeta and x^2 + zeta.
MulHat(a, b) ==
  [j \in Coeff |->
     LET i == 2 * (j \div 2)
         zeta == Zeta(64 + j \div 4)
         top == montReduce(montReduce(a[i + 1] * b[i + 1]) * zeta)
     IN  IF j # i THEN Int16(montReduce(a[i] * b[j]) + montReduce(a[j] * b[i]))
         ELSE Int16((IF j % 4 = 0 THEN top ELSE -top) + montReduce(a[i] * b[i]))]

MulHatBound(a, b) ==
  [j \in Coeff |->
     LET i == 2 * (j \div 2)
     IN  IF j # i THEN MontBound(a[i] * b[j]) + MontBound(a[j] * b[i])
         ELSE MontBound(MontBound(a[i + 1] * b[i + 1]) * (Q - 1)) + MontBound(a[i] * b[i])]

Total(t) ==
  LET sum[i \in 0 .. K] == IF i = 0 THEN 0 ELSE sum[i - 1] + t[i]
  IN  sum[K]

\* Products are added up one after the other, and cut to 16 bits.
PolyDotHat(a, b) ==
  LET products == [i \in 1 .. K |-> MulHat(a[i], b[i])]
  IN  [j \in Coeff |-> Int16(Total([i \in 1 .. K |-> products[i][j]]))]
-----------------------------------------------------------------------------
VARIABLES input,        \* what is computed on
          step,         \* what is done next
          width,        \* the width of the butterflies, in a transform
          sh, uh, mh,   \* the key, the ciphertext and the result: vectors, and a poly
          bound         \* bounds of the coefficients of sh, uh and mh

nttVars == <<input, step, width, sh, uh, mh, bound>>

OfBound(b) == [j \in Coeff |-> b]

NttInit ==
  /\ input \in Inputs
  /\ step = "s.NTT" /\ width = NttN \div 2
  /\ sh = input.s /\ uh = input.u /\ mh = [j \in Coeff |-> 0]
  /\ bound = [s |-> OfBound(Q), u |-> OfBound(Q), m |-> OfBound(0)]

\* The next layer is narrower, until width 2.
Narrower(next) ==
  /\ step' = IF width = 2 THEN next ELSE step
  /\ width' = IF width = 2 THEN NttN \div 2 ELSE width \div 2

NttS ==
  /\ step = "s.NTT" /\ Narrower("s.Normalize")
  /\ sh' = [i \in 1 .. K |-> NttLayer(sh[i], width)]
  /\ bound' = [bound EXCEPT !.s = NttLayerBound(bound.s, width)]
  /\ UNCHANGED <<input, uh, mh>>

\* The end of the key: what is packed has coefficients below q.
NormalizeS ==
  /\ step = "s.Normalize" /\ step' = "u.NTT"
  /\ sh' = [i \in 1 .. K |-> [j \in Coeff |-> normalize(sh[i][j])]]
  /\ bound' = [bound EXCEPT !.s = OfBound(Q)]
  /\ UNCHANGED <<input, width, uh, mh>>

NttU ==
  /\ step = "u.NTT" /\ Narrower("dot")
  /\ uh' = [i \in 1 .. K |-> NttLayer(uh[i], width)]
  /\ bound' = [bound EXCEPT !.u = NttLayerBound(bound.u, width)]
  /\ UNCHANGED <<input, sh, mh>>

DotHat ==
  /\ step = "dot" /\ step' = "m.BarrettReduce"
  /\ mh' = PolyDotHat(sh, uh)
  /\ bound' = [bound EXCEPT !.m = [j \in Coeff |-> K * MulHatBound(bound.s, bound.u)[j]]]
  /\ UNCHANGED <<input, width, sh, uh>>

BarrettReduce ==
  /\ step = "m.BarrettReduce" /\ step' = "m.InvNTT" /\ width' = 2
  /\ mh' = [j \in Coeff |-> barrettReduce(mh[j])]
  /\ bound' = [bound EXCEPT !.m = OfBound(BarrettBound)]
  /\ UNCHANGED <<input, sh, uh>>

InvNtt ==
  /\ step = "m.InvNTT"
  /\ mh' = InvNttLayer(mh, width)
  /\ bound' = [bound EXCEPT !.m = InvNttLayerBound(bound.m, width)]
  /\ step' = IF width = NttN \div 2 THEN "m.Scale" ELSE step
  /\ width' = IF width = NttN \div 2 THEN width ELSE 2 * width
  /\ UNCHANGED <<input, sh, uh>>

\* The end of InvNTT: 1441 is R^2 / 128.
Scale ==
  /\ step = "m.Scale" /\ step' = "m.Sub"
  /\ mh' = [j \in Coeff |-> montReduce(1441 * mh[j])]
  /\ bound' = [bound EXCEPT !.m = [j \in Coeff |-> MontBound(1441 * bound.m[j])]]
  /\ UNCHANGED <<input, width, sh, uh>>

SubAndNormalize ==
  /\ step = "m.Sub" /\ step' = "done"
  /\ mh' = [j \in Coeff |-> normalize(Int16(input.v[j] - mh[j]))]
  /\ bound' = [bound EXCEPT !.m = [j \in Coeff |-> IF Q + bound.m[j] < Half THEN Q ELSE Unbounded]]
  /\ UNCHANGED <<input, width, sh, uh>>

NttNext ==
  NttS \/ NormalizeS \/ NttU \/ DotHat \/ BarrettReduce \/ InvNtt \/ Scale \/ SubAndNormalize

NttSpec == NttInit /\ [][NttNext]_nttVars
-----------------------------------------------------------------------------
Within(p, b) == \A j \in Coeff : Absolute(p[j]) <= b[j] /\ b[j] < Half

(* No coefficient leaves 16 bits and every argument of montReduce is in its *)
(* range, for any input: the reductions that InvNTTReductions leaves out are *)
(* not needed. The bounds are those the comments give: 7q after NTT, 9q     *)
(* before the end of InvNTT, q after it.                                    *)
NoOverflow ==
  /\ Within(mh, bound.m) /\ \A i \in 1 .. K : Within(sh[i], bound.s) /\ Within(uh[i], bound.u)
  /\ \A j \in Coeff :
       /\ bound.u[j] <= 7 * Q
       /\ step = "m.Scale" => bound.m[j] <= 9 * Q
       /\ step = "m.Sub" => bound.m[j] <= Q

\* Coefficient j of a b modulo x^N + 1 (and not yet modulo q).
NegacyclicProduct(a, b, j) ==
  LET sum[i \in Coeff, n \in 1 .. NttN] ==   \* of the n products from that with a[i] on
        IF n > 1 THEN sum[i, n \div 2] + sum[i + n \div 2, n \div 2]
        ELSE a[i] * (IF i <= j THEN b[j - i] ELSE -b[NttN + j - i])
  IN  sum[0, NttN]

(* The result is v - <s, u> modulo x^256 + 1 and q, with coefficients below *)
(* q: the tables of powers, the order in which the two transforms run through *)
(* them, the Montgomery factors and the halvings that are put off to the end *)
(* cancel out.                                                              *)
InnerProduct ==
  step = "done" =>
    \A j \in Coeff :
      mh[j] = (input.v[j] - Total([i \in 1 .. K |->
                NegacyclicProduct(input.s[i], input.u[i], j)])) % Q
-----------------------------------------------------------------------------
Depth == {1, 4, 5, 10, 11}
Int16s(x) == {i \in -10 .. 9 : -Half <= x + i * Q /\ x + i * Q < Half}

(* Every reduction is right for every int16 of the residue x, as the        *)
(* comments prove on paper: barrettReduce is q instead of 0 for the negative *)
(* multiples of q and no others, and nothing overflows on the way.          *)
ReductionsExact(x) ==
  \A i \in Int16s(x) :
    LET y == x + i * Q
    IN  /\ barrettReduce(y) = IF x = 0 /\ i < 0 THEN Q ELSE x
        /\ normalize(y) = x
        /\ Absolute(toMont(y)) < Q /\ toMont(y) % Q = (x * (R % Q)) % Q

(* Rounding the residue x to d bits is what it is defined to be, though the *)
(* division by q is only approximated, and a message bit survives rounding. *)
RoundingExact(x) ==
  \A dep \in Depth :
    LET y == Compress(x, dep)
    IN  /\ y = ((2 * 2 ^ dep * x + Q) \div (2 * Q)) % 2 ^ dep
        /\ \E e \in {Decompress(y, dep) - x, Decompress(y, dep) - x + Q} :
             2 * 2 ^ dep * Absolute(e) <= Q + 2 ^ dep
=============================================================================
