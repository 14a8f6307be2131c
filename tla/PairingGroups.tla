---------------------------- MODULE PairingGroups ----------------------------
(* The groups G1 and G2 and the pairing of ecc/bls12381, on the small curve  *)
(* that Tower belongs to: y^2 = x^3 + b over Fp, and its twist over Fp2. A   *)
(* point is the triple of its projective coordinates, as in the code, so a   *)
(* point has many representations. Hashing starts at the points to which     *)
(* bytes are mapped. The state is what is looked at: elements of the field,  *)
(* an encoding, points that hashing starts from, or multiples of the         *)
(* generators.                                                               *)
EXTENDS Tower

CONSTANTS b,         \* of the curve; b * (u + Beta) of the twist
          Order,     \* of the groups
          beta0,     \* a cube root of one in Fp
          windows,   \* of four bits in a scalar
          G1Generator, G2Generator,
          Elements,               \* pairs of Fp12
          Encodings1, Encodings2, \* of a point, right and wrong ones
          Mapped1, Mapped2,       \* points of the curve and of the twist, not only of the groups
          Scalars,                \* pairs
          FinalExp(_), RatioKummer(_)   \* FinalExponentiation and Ratio of Tower

VARIABLE look

thriceB == (3 * b) % p
b2 == <<(b * Beta) % p, b>>
thriceB2 == <<(3 * b * Beta) % p, thriceB>>

x ** y == (x * y) % p
x \otimes y == Mul2(x, y)
x \oplus y == Add2(x, y)
x \ominus y == Sub2(x, y)
-----------------------------------------------------------------------------
(* G1 *)

Identity1 == <<0, 1, 0>>
Neg1(P) == <<P[1], (-P[2]) % p, P[3]>>

Double1(P) ==
  LET yy == P[2] ** P[2]
      bzz == thriceB ** (P[3] ** P[3])
      d == (yy - 3 * bzz) % p
  IN  <<(2 * (d ** (P[1] ** P[2]))) % p,
        ((bzz ** (8 * yy)) + (d ** (yy + bzz))) % p,
        (P[2] ** P[3]) ** (8 * yy)>>

Plus1(P, Q) ==
  LET xx == P[1] ** Q[1]
      yy == P[2] ** Q[2]
      zz == P[3] ** Q[3]
      bzz == thriceB ** zz
      xy == (((P[1] + P[2]) ** (Q[1] + Q[2])) - (xx + yy)) % p
      yz == (((P[2] + P[3]) ** (Q[2] + Q[3])) - (yy + zz)) % p
      bxz == thriceB ** ((((P[1] + P[3]) ** (Q[1] + Q[3])) - (xx + zz)) % p)
      m == (yy - bzz) % p
  IN  <<((xy ** m) - (yz ** bxz)) % p,
        ((m ** (yy + bzz)) + (bxz ** (3 * xx))) % p,
        ((yz ** (yy + bzz)) + ((3 * xx) ** xy)) % p>>

IsValidProjective1(P) == P # <<0, 0, 0>>
IsIdentity1(P) == IsValidProjective1(P) /\ P[3] = 0
IsEqual1(P, Q) ==
  /\ IsValidProjective1(P) /\ IsValidProjective1(Q)
  /\ P[1] ** Q[3] = Q[1] ** P[3] /\ P[2] ** Q[3] = Q[2] ** P[3]
IsOnCurve1(P) ==
  (P[2] ** P[2]) ** P[3] = (((P[1] ** P[1]) ** P[1]) + (b ** ((P[3] ** P[3]) ** P[3]))) % p

\* The bits of k, from the highest on.
RECURSIVE ScalarMultShort1(_, _)
ScalarMultShort1(k, P) ==
  IF k = 0 THEN Identity1
  ELSE With(With(ScalarMultShort1(k \div 2, P), Double1),
            LAMBDA d : IF k % 2 = 1 THEN Plus1(d, P) ELSE d)

\* Windows of four bits, from the highest on, and a table of the small multiples.
RECURSIVE Windows1(_, _, _)
Windows1(m, k, i) ==
  IF i = 0 THEN Identity1
  ELSE With(With(Windows1(m, k \div 16, i - 1), LAMBDA d : Double1(Double1(Double1(Double1(d))))),
            LAMBDA d : Plus1(d, m[k % 16]))
ScalarMult1(k, P) ==
  LET m[j \in 0 .. 15] ==
        IF j = 0 THEN Identity1 ELSE IF j = 1 THEN P
        ELSE IF j % 2 = 0 THEN Double1(m[j \div 2]) ELSE Plus1(m[j - 1], P)
  IN  Windows1(m, k, windows)

sigma(P) == <<P[1] ** beta0, P[2], P[3]>>
sigma2(P) == <<P[1] ** (beta0 ** beta0), P[2], P[3]>>

IsRTorsion1(P) ==
  LET ssP == sigma2(P)
      Q == Plus1(Neg1(Plus1(P, ssP)), Double1(sigma(P)))
  IN  IsIdentity1(Plus1(ScalarMultShort1((paramX * paramX - 1) \div 3, Q), Neg1(ssP)))

IsOnG1(P) == IsValidProjective1(P) /\ IsOnCurve1(P) /\ IsRTorsion1(P)

ClearCofactor1(P) == ScalarMultShort1(1 - paramX, P)
Hash1(p0, p1) == ClearCofactor1(Plus1(p0, p1))

ToAffine1(P) ==
  IF P[3] = 0 THEN P ELSE LET inv == Inv(P[3]) IN <<P[1] ** inv, P[2] ** inv, 1>>

\* The sequence of F(1), ..., F(n), each evaluated when it is appended.
Listed(n, F(_)) == LET s[i \in 0 .. n] == IF i = 0 THEN <<>> ELSE Append(s[i - 1], F(i)) IN s[n]

\* One inversion for all points; a zero counts as one.
affinize(points) ==
  LET z(i) == IF points[i][3] = 0 THEN 1 ELSE points[i][3]
      ws[i \in 0 .. Len(points)] == IF i = 0 THEN 1 ELSE ws[i - 1] ** z(i)
      w[i \in 0 .. Len(points)] == IF i = Len(points) THEN Inv(ws[i]) ELSE w[i + 1] ** z(i + 1)
      scaled(P, zinv) == <<P[1] ** zinv, P[2] ** zinv, P[3] ** zinv>>
  IN  Listed(Len(points), LAMBDA i : scaled(points[i], w[i] ** ws[i - 1]))
-----------------------------------------------------------------------------
(* Encodings of G1: the flags c (compressed), i (infinity) and s (the larger *)
(* of two square roots), and the bytes of the coordinates as numbers. What   *)
(* is not read of a compressed encoding is not there: y is zero.             *)
IsNegative(y) == IF y >= (p + 1) \div 2 THEN 1 ELSE 0
Sqrt(x) == Pow(x, (p + 1) \div 4)

EncodeBytes1(P, compressed) ==
  LET a == ToAffine1(P)
      inf == a[3] = 0
  IN  [c |-> compressed, i |-> IF inf THEN 1 ELSE 0,
       s |-> IF compressed = 1 /\ ~inf THEN IsNegative(a[2]) ELSE 0,
       x |-> IF inf THEN 0 ELSE a[1], y |-> IF inf \/ compressed = 1 THEN 0 ELSE a[2]]

\* What decoding leaves in its receiver: an error leaves what was set before it.
Decoded(err, P) == [err |-> err, P |-> P]

BugSetBytes1(g, e) ==   \* slip: the point may have any order
  LET xxx == (((e.x ** e.x) ** e.x) + b) % p
      r == Sqrt(xxx)
      y == IF e.c = 0 THEN e.y ELSE IF IsNegative(r) # e.s THEN (-r) % p ELSE r
  IN  IF e.s = 1 /\ (e.c = 0 \/ e.i = 1) THEN Decoded(TRUE, g)
      ELSE IF e.i = 1 THEN IF e.x # 0 \/ e.y # 0 THEN Decoded(TRUE, g) ELSE Decoded(FALSE, Identity1)
      ELSE IF e.x >= p THEN Decoded(TRUE, g)
      ELSE IF y >= p \/ (e.c = 1 /\ r ** r # xxx) THEN Decoded(TRUE, <<e.x, g[2], g[3]>>)
      ELSE Decoded(~IsOnCurve1(<<e.x, y, 1>>), <<e.x, y, 1>>)

SetBytes1(g, e) ==
  LET xxx == (((e.x ** e.x) ** e.x) + b) % p
      r == Sqrt(xxx)
      y == IF e.c = 0 THEN e.y ELSE IF IsNegative(r) # e.s THEN (-r) % p ELSE r
  IN  IF e.s = 1 /\ (e.c = 0 \/ e.i = 1) THEN Decoded(TRUE, g)
      ELSE IF e.i = 1 THEN IF e.x # 0 \/ e.y # 0 THEN Decoded(TRUE, g) ELSE Decoded(FALSE, Identity1)
      ELSE IF e.x >= p THEN Decoded(TRUE, g)
      ELSE IF y >= p \/ (e.c = 1 /\ r ** r # xxx) THEN Decoded(TRUE, <<e.x, g[2], g[3]>>)
      ELSE Decoded(~IsOnG1(<<e.x, y, 1>>), <<e.x, y, 1>>)
-----------------------------------------------------------------------------
(* G2: the formulas are shared with the pairing, which also takes the line   *)
(* through the points, [1] * x + [2] * y + [3].                              *)
Identity2 == <<Zero2, One2, Zero2>>
Neg2P(P) == <<P[1], Neg2(P[2]), P[3]>>
Twice2(x) == x \oplus x

DoubleAndLine(P) ==
  LET B == Sqr2(P[2])
      C == Sqr2(P[3])
      D == thriceB2 \otimes C
      F == Sqr2(P[2] \oplus P[3]) \ominus (B \oplus C)
      E == Sqr2(P[1] \oplus P[2]) \ominus (Sqr2(P[1]) \oplus B)
      G == Twice2(D) \oplus D
      TT == Sqr2(Twice2(D))
  IN  [P |-> <<E \otimes (B \ominus G),
               Sqr2(B \oplus G) \ominus (Twice2(TT) \oplus TT),
               Twice2(Twice2(B \otimes F))>>,
       l |-> <<Twice2(Sqr2(P[1])) \oplus Sqr2(P[1]), Neg2(F), D \ominus B>>]

AddAndLine(P, Q) ==
  LET xx == P[1] \otimes Q[1]
      yy == P[2] \otimes Q[2]
      bzz == (P[3] \otimes Q[3]) \otimes thriceB2
      A == Twice2(xx) \oplus xx
      B == yy \oplus bzz
      C == yy \ominus bzz
      D == ((P[1] \oplus P[2]) \otimes (Q[1] \oplus Q[2])) \ominus (xx \oplus yy)
      y1z2 == P[2] \otimes Q[3]
      y2z1 == Q[2] \otimes P[3]
      x1z2 == P[1] \otimes Q[3]
      x2z1 == Q[1] \otimes P[3]
      E == y1z2 \oplus y2z1
      EE == y1z2 \ominus y2z1
      FF == x1z2 \ominus x2z1
      G == thriceB2 \otimes (x1z2 \oplus x2z1)
  IN  [P |-> <<(D \otimes C) \ominus (E \otimes G),
               (B \otimes C) \oplus (A \otimes G),
               (E \otimes B) \oplus (A \otimes D)>>,
       l |-> <<Neg2(EE \otimes Q[3]), FF \otimes Q[3], (EE \otimes Q[1]) \ominus (FF \otimes Q[2])>>]

Double2(P) == DoubleAndLine(P).P
Plus2(P, Q) == AddAndLine(P, Q).P

IsIdentity2(P) == P # <<Zero2, Zero2, Zero2>> /\ P[3] = Zero2
\* A triple of zeros, which is no point, is equal to all.
IsEqual2(P, Q) == P[1] \otimes Q[3] = Q[1] \otimes P[3] /\ P[2] \otimes Q[3] = Q[2] \otimes P[3]
IsOnCurve2(P) ==
  Sqr2(P[2]) \otimes P[3]
    = (Sqr2(P[1]) \otimes P[1]) \oplus (b2 \otimes (Sqr2(P[3]) \otimes P[3]))

RECURSIVE ScalarMultShort2(_, _)
ScalarMultShort2(k, P) ==
  IF k = 0 THEN Identity2
  ELSE With(With(ScalarMultShort2(k \div 2, P), Double2),
            LAMBDA d : IF k % 2 = 1 THEN Plus2(d, P) ELSE d)

RECURSIVE Windows2(_, _, _)
Windows2(m, k, i) ==
  IF i = 0 THEN Identity2
  ELSE With(With(Windows2(m, k \div 16, i - 1), LAMBDA d : Double2(Double2(Double2(Double2(d))))),
            LAMBDA d : Plus2(d, m[k % 16]))
ScalarMult2(k, P) ==
  LET m[j \in 0 .. 15] ==
        IF j = 0 THEN Identity2 ELSE IF j = 1 THEN P
        ELSE IF j % 2 = 0 THEN Double2(m[j \div 2]) ELSE Plus2(m[j - 1], P)
  IN  Windows2(m, k, windows)

w12 == <<Zero6, One6>>
psiAlpha == RatioKummer(Sqr12(w12))
psiBeta == RatioKummer(Mul12(Sqr12(w12), w12))
psi(P) == <<psiAlpha \otimes Cjg2(P[1]), psiBeta \otimes Cjg2(P[2]), Cjg2(P[3])>>

IsRTorsion2(P) == IsEqual2(psi(psi(Plus2(ScalarMultShort2(-paramX, psi(P)), P))), P)

IsOnG2(P) == P # <<Zero2, Zero2, Zero2>> /\ IsOnCurve2(P) /\ IsRTorsion2(P)

ClearCofactor2(P) ==
  LET xP == Plus2(ScalarMultShort2(-paramX, P), P)
  IN  Plus2(Plus2(Neg2P(Plus2(P, psi(xP))), ScalarMultShort2(-paramX, xP)), psi(psi(Double2(P))))

Hash2(p0, p1) == ClearCofactor2(Plus2(p0, p1))

ToAffine2(P) ==
  IF P[3] = Zero2 THEN P
  ELSE LET inv == Inv2(P[3]) IN <<P[1] \otimes inv, P[2] \otimes inv, One2>>

\* The coefficient of u decides, unless it is zero.
IsNegative2(y) == IF y[2] = 0 THEN IsNegative(y[1]) ELSE IsNegative(y[2])

\* The code tries the four candidates that its characteristic has, other characteristics others.
Sqrt2(x) ==
  LET n == Sqrt(((x[1] ** x[1]) + (x[2] ** x[2])) % p)
      half == (p + 1) \div 2
      s == (x[1] + n) ** half
      t == Sqrt(IF Sqrt(s) ** Sqrt(s) = s THEN s ELSE (x[1] - n) ** half)
  IN  IF x[2] # 0 THEN <<t, x[2] ** Inv((2 * t) % p)>>
      ELSE IF Sqrt(x[1]) ** Sqrt(x[1]) = x[1] THEN <<Sqrt(x[1]), 0>>
      ELSE <<0, Sqrt((-x[1]) % p)>>

EncodeBytes2(P, compressed) ==
  LET a == ToAffine2(P)
      inf == a[3] = Zero2
  IN  [c |-> compressed, i |-> IF inf THEN 1 ELSE 0,
       s |-> IF compressed = 1 /\ ~inf THEN IsNegative2(a[2]) ELSE 0,
       x |-> IF inf THEN Zero2 ELSE a[1],
       y |-> IF inf \/ compressed = 1 THEN Zero2 ELSE a[2]]

\* Both coefficients are read, and the one in range is set when the other is not.
Unmarshal2(z, v) ==
  [err |-> v[1] >= p \/ v[2] >= p,
   z |-> <<IF v[1] >= p THEN z[1] ELSE v[1], IF v[2] >= p THEN z[2] ELSE v[2]>>]

SetBytes2(g, e) ==
  LET x == Unmarshal2(g[1], e.x)
      xxx == (Sqr2(x.z) \otimes x.z) \oplus b2
      r == Sqrt2(xxx)
      y == IF e.c = 0 THEN Unmarshal2(g[2], e.y)
           ELSE IF Sqr2(r) # xxx THEN [err |-> TRUE, z |-> g[2]]
           ELSE [err |-> FALSE, z |-> IF IsNegative2(r) # e.s THEN Neg2(r) ELSE r]
  IN  IF e.s = 1 /\ (e.c = 0 \/ e.i = 1) THEN Decoded(TRUE, g)
      ELSE IF e.i = 1
           THEN IF e.x # Zero2 \/ e.y # Zero2 THEN Decoded(TRUE, g) ELSE Decoded(FALSE, Identity2)
      ELSE IF x.err THEN Decoded(TRUE, <<x.z, g[2], g[3]>>)
      ELSE IF y.err THEN Decoded(TRUE, <<x.z, y.z, g[3]>>)
      ELSE Decoded(~IsOnG2(<<x.z, y.z, One2>>), <<x.z, y.z, One2>>)
-----------------------------------------------------------------------------
(* The pairing *)

LineOne == <<One2, Zero2, Zero2>>
EvalLine(l, P) ==
  LET f == <<l[3], l[1] \otimes <<P[1], 0>>, l[2] \otimes <<P[2], 0>>>>
  IN  IF f = <<Zero2, Zero2, Zero2>> THEN LineOne ELSE f

\* The bits of the parameter, but for the highest, with the product and the multiple of Q so far.
RECURSIVE MillerLoop(_, _, _)
MillerLoop(P, Q, i) ==
  LET doubled(s) == LET d == DoubleAndLine(s.T)
                    IN  [T |-> d.P, acc |-> MulLine(SqrCubic(s.acc), EvalLine(d.l, P))]
      added(s) == LET d == AddAndLine(s.T, Q)
                  IN  [T |-> d.P, acc |-> MulLine(s.acc, EvalLine(d.l, P))]
  IN  IF i = 1 THEN [T |-> Q, acc |-> OneCubic]
      ELSE With(With(MillerLoop(P, Q, i \div 2), doubled), LAMBDA s : IF i % 2 = 1 THEN added(s) ELSE s)
Miller(P, Q) == Cjg12(FromFp12Cubic(MillerLoop(P, Q, -paramX).acc))

Pair(P, Q) == FinalExp(With(ToAffine1(P), LAMBDA a : Miller(a, Q)))

MillerProduct(points, Q) ==
  LET out[i \in 0 .. Len(points)] ==
        IF i = 0 THEN One12
        ELSE With(Miller(points[i], Q[i]), LAMBDA m : With(out[i - 1], LAMBDA o : Mul12(o, m)))
  IN  out[Len(points)]

ProdPair(P, Q, n) ==
  FinalExp(With(affinize(Listed(Len(P), LAMBDA i : ScalarMult1(n[i], P[i]))),
                LAMBDA a : With(Q, LAMBDA q : MillerProduct(a, q))))

ProdPairFrac(P, Q, signs) ==
  LET signed(a) == Listed(Len(P), LAMBDA i : IF signs[i] = -1 THEN Neg1(a[i]) ELSE a[i])
  IN  FinalExp(With(affinize(P), LAMBDA a : With(Q, LAMBDA q : MillerProduct(signed(a), q))))

-----------------------------------------------------------------------------
Init == \/ \E z \in Elements : look = [at |-> "tower", with |-> z]
        \/ \E e \in Encodings1 : look = [at |-> "encoding1", with |-> e]
        \/ \E e \in Encodings2 : look = [at |-> "encoding2", with |-> e]
        \/ \E P \in Mapped1 : look = [at |-> "mapped1", with |-> P]
        \/ \E P \in Mapped2 : look = [at |-> "mapped2", with |-> P]
        \/ \E n \in Scalars : look = [at |-> "scalars", with |-> n]

\* A test of membership by definition.
Vanishes1(P) == LET Q == ScalarMultShort1(Order, P) IN IsIdentity1(Q)
Vanishes2(P) == LET Q == ScalarMultShort2(Order, P) IN IsIdentity2(Q)

(* What is decoded is in the group and has no other encoding of its kind;   *)
(* what is refused, though it stands for a point of the curve, is not.      *)
Encoding1Exact(e) ==
  LET y == Sqrt((((e.x ** e.x) ** e.x) + b) % p)
      P == <<e.x, IF e.c = 1 THEN y ELSE e.y, 1>>
  IN  \A d \in {SetBytes1(G1Generator, e)} :
      IF ~d.err THEN IsOnCurve1(d.P) /\ Vanishes1(d.P) /\ EncodeBytes1(d.P, e.c) = e
      ELSE (e.i = 0 /\ e.s <= e.c /\ e.x < p /\ e.y < p /\ IsOnCurve1(P)) => ~Vanishes1(P)

Encoding2Exact(e) ==
  LET y == Sqrt2((Sqr2(e.x) \otimes e.x) \oplus b2)
      P == <<e.x, IF e.c = 1 THEN y ELSE e.y, One2>>
  IN  \A d \in {SetBytes2(G2Generator, e)} :
      IF ~d.err THEN IsOnCurve2(d.P) /\ Vanishes2(d.P) /\ EncodeBytes2(d.P, e.c) = e
      ELSE (e.i = 0 /\ e.s <= e.c /\ {e.x[1], e.x[2], e.y[1], e.y[2]} \subseteq Fp /\ IsOnCurve2(P))
             => ~Vanishes2(P)

(* The multiples of the generators are mapped to powers of what the         *)
(* generators are mapped to, whichever coordinates the points have, by one   *)
(* pairing and by products; the identity is mapped to one.                   *)
PairingExact(m, n) ==
  \A gt \in {Pair(G1Generator, G2Generator)} :
  \A P \in {ScalarMult1(m, G1Generator)}, Q \in {ScalarMult2(n, G2Generator)} :
  \A mn \in {Exp(gt, (m * n) % Order)} :
    /\ gt # One12 /\ Exp(gt, Order) = One12
    /\ IsEqual1(P, ScalarMultShort1(m, G1Generator))
    /\ IsEqual2(Q, ScalarMultShort2(n, G2Generator))
    /\ Pair(P, Q) = mn
    /\ ProdPair(<<G1Generator, P>>, <<G2Generator, Q>>, <<n, 1>>) = Mul12(Exp(gt, n), mn)
    /\ ProdPairFrac(<<P, Identity1, P>>, <<Q, Q, G2Generator>>, <<1, -1, -1>>)
         = Mul12(mn, Cjg12(Exp(gt, m)))

GroupsExact ==
  CASE look.at = "tower"     -> FieldsExact(look.with[1], look.with[2])
    [] look.at = "encoding1" -> Encoding1Exact(look.with)
    [] look.at = "encoding2" -> Encoding2Exact(look.with)
    [] look.at = "mapped1"   -> /\ IsOnCurve1(look.with)
                                /\ IsOnG1(look.with) <=> Vanishes1(look.with)
                                /\ IsOnG1(Hash1(look.with, G1Generator))
    [] look.at = "mapped2"   -> /\ IsOnCurve2(look.with)
                                /\ IsOnG2(look.with) <=> Vanishes2(look.with)
                                /\ IsOnG2(Hash2(look.with, G2Generator))
    [] look.at = "scalars"   -> PairingExact(look.with[1], look.with[2])
=============================================================================
