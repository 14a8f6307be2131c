-------------------------------- MODULE Tower --------------------------------
(* The tower of fields under the pairing of BLS12-381 (ecc/bls12381/ff), on  *)
(* a small member of the family of curves:                                   *)
(*   Fp2 = Fp[u]/(u^2+1), Fp6 = Fp2[v]/(v^3-B), Fp12 = Fp6[w]/(w^2-v), and   *)
(*   Fp4 = Fp2[t]/(t^2-B), Fp12 = Fp4[w]/(w^3-t).                            *)
(* B is u+1 in the code; a small characteristic needs another, u+Beta. Each  *)
(* element is the tuple of its coefficients, the lowest first. Numbers are   *)
(* not in Montgomery form, and powers do not use windows or chains.          *)
EXTENDS Integers, Sequences

CONSTANTS p, Beta,
          paramX    \* the parameter of the curve, negative

Fp == 0 .. p - 1

\* F(x): TLC evaluates x first, and not where F needs it, where its stack may be too deep.
With(x, F(_)) == CHOOSE r \in {F(v) : v \in {x}} : TRUE

\* ExpVarTime
RECURSIVE Pow(_, _)
Pow(x, n) ==
  IF n = 0 THEN 1
  ELSE LET h == Pow(x, n \div 2)
           s == (h * h) % p
       IN  IF n % 2 = 1 THEN (s * x) % p ELSE s
Inv(x) == Pow(x, p - 2)

-----------------------------------------------------------------------------
Zero2 == <<0, 0>>
One2 == <<1, 0>>
Neg2(x) == <<(-x[1]) % p, (-x[2]) % p>>
Cjg2(x) == <<x[1], (-x[2]) % p>>
Add2(x, y) == <<(x[1] + y[1]) % p, (x[2] + y[2]) % p>>
Sub2(x, y) == <<(x[1] - y[1]) % p, (x[2] - y[2]) % p>>
MulBeta2(x) == <<(Beta * x[1] - x[2]) % p, (x[1] + Beta * x[2]) % p>>

Mul2(x, y) ==
  LET of(x0y0, x1y1, k) == <<(x0y0 - x1y1) % p, (k - x0y0 - x1y1) % p>>
  IN  of(x[1] * y[1], x[2] * y[2], ((x[1] + x[2]) % p) * ((y[1] + y[2]) % p))

Sqr2(x) == <<(x[1] * x[1] - x[2] * x[2]) % p, (2 * x[1] * x[2]) % p>>

Inv2(x) == LET den == Inv((x[1] * x[1] + x[2] * x[2]) % p)
           IN  <<(x[1] * den) % p, (-((x[2] * den) % p)) % p>>
-----------------------------------------------------------------------------
Zero4 == <<Zero2, Zero2>>
One4 == <<One2, Zero2>>
Add4(x, y) == <<Add2(x[1], y[1]), Add2(x[2], y[2])>>
Sub4(x, y) == <<Sub2(x[1], y[1]), Sub2(x[2], y[2])>>
Cjg4(x) == <<x[1], Neg2(x[2])>>
mulSubfield(x, y) == <<Mul2(x[1], y), Mul2(x[2], y)>>
mulT(x) == <<MulBeta2(x[2]), x[1]>>

Mul4(x, y) ==
  LET of(x0y0, x1y1, k) == <<Add2(MulBeta2(x1y1), x0y0), Sub2(Sub2(k, x0y0), x1y1)>>
  IN  of(Mul2(x[1], y[1]), Mul2(x[2], y[2]), Mul2(Add2(x[1], x[2]), Add2(y[1], y[2])))

Sqr4(x) ==
  LET of(x0s, x1s, k) == <<Add2(MulBeta2(x1s), x0s), Sub2(Sub2(k, x0s), x1s)>>
  IN  of(Sqr2(x[1]), Sqr2(x[2]), Sqr2(Add2(x[1], x[2])))

\* The receiver z had something before: its second coefficient is subtracted from.
Inv4(z, x) ==
  LET denom == Inv2(Sub2(Sqr2(x[1]), MulBeta2(Sqr2(x[2]))))
  IN  mulSubfield(<<x[1], Sub2(z[2], x[2])>>, denom)
-----------------------------------------------------------------------------
Zero6 == <<Zero2, Zero2, Zero2>>
One6 == <<One2, Zero2, Zero2>>
Neg6(x) == <<Neg2(x[1]), Neg2(x[2]), Neg2(x[3])>>
Add6(x, y) == <<Add2(x[1], y[1]), Add2(x[2], y[2]), Add2(x[3], y[3])>>
Sub6(x, y) == <<Sub2(x[1], y[1]), Sub2(x[2], y[2]), Sub2(x[3], y[3])>>
MulBeta6(x) == <<MulBeta2(x[3]), x[1], x[2]>>

Mul6(x, y) ==
  LET of(c0, c1, c2, c3, c4, c5) ==
        LET h == Sub2(MulBeta2(c2), c0)
        IN  <<Sub2(MulBeta2(Sub2(c5, c1)), h), Add2(Sub2(c3, c1), h),
              Sub2(Sub2(Add2(c4, c1), c0), c2)>>
  IN  of(Mul2(x[1], y[1]), Mul2(x[2], y[2]), Mul2(x[3], y[3]),
         Mul2(Add2(x[1], x[2]), Add2(y[1], y[2])),
         Mul2(Add2(x[1], x[3]), Add2(y[1], y[3])),
         Mul2(Add2(x[2], x[3]), Add2(y[2], y[3])))

Sqr6(x) ==
  LET of(c0, c2, c3, c4, c5) == <<Add2(MulBeta2(c5), c0), Add2(MulBeta2(c2), c3),
                                  Sub2(Sub2(Add2(Add2(c3, c5), c4), c0), c2)>>
      twice(c) == Add2(c, c)
  IN  of(Sqr2(x[1]), Sqr2(x[3]), twice(Mul2(x[1], x[2])), Sqr2(Sub2(Add2(x[1], x[3]), x[2])),
         twice(Mul2(x[2], x[3])))

Inv6(x) ==
  LET over(c0, c1, c2) ==
        LET times(den) == <<Mul2(c0, den), Mul2(c1, den), Mul2(c2, den)>>
        IN  times(Inv2(Add2(MulBeta2(Add2(Mul2(x[2], c2), Mul2(x[3], c1))), Mul2(x[1], c0))))
  IN  over(Sub2(Sqr2(x[1]), MulBeta2(Mul2(x[2], x[3]))),
           Sub2(MulBeta2(Sqr2(x[3])), Mul2(x[1], x[2])),
           Sub2(Sqr2(x[2]), Mul2(x[1], x[3])))

\* The powers of B that the maps to the p-th power of v and w multiply by.
RECURSIVE Pow2(_, _)
Pow2(x, n) ==
  IF n = 0 THEN One2
  ELSE LET s == Sqr2(Pow2(x, n \div 2)) IN IF n % 2 = 1 THEN Mul2(s, x) ELSE s
frob12W1 == Pow2(<<Beta, 1>>, (p - 1) \div 6)
frob6V1 == Pow2(<<Beta, 1>>, (p - 1) \div 3)
frob6V2 == Pow2(<<Beta, 1>>, 2 * ((p - 1) \div 3))

Frob6(x) == <<Cjg2(x[1]), Mul2(Cjg2(x[2]), frob6V1), Mul2(Cjg2(x[3]), frob6V2)>>
-----------------------------------------------------------------------------
One12 == <<One6, Zero6>>
Cjg12(x) == <<x[1], Neg6(x[2])>>

Mul12(x, y) ==
  LET of(x0y0, x1y1, k) == <<Add6(x0y0, MulBeta6(x1y1)), Sub6(Sub6(k, x0y0), x1y1)>>
  IN  of(Mul6(x[1], y[1]), Mul6(x[2], y[2]), Mul6(Add6(x[1], x[2]), Add6(y[1], y[2])))

Sqr12(x) ==
  LET twice(k) == Add6(k, k)
  IN  <<Add6(Sqr6(x[1]), MulBeta6(Sqr6(x[2]))), twice(Mul6(x[1], x[2]))>>

Inv12(x) ==
  LET times(den) == <<Mul6(x[1], den), Neg6(Mul6(x[2], den))>>
  IN  times(Inv6(Sub6(Sqr6(x[1]), MulBeta6(Sqr6(x[2])))))

Frob12(x) == <<Frob6(x[1]), Mul6(Frob6(x[2]), <<frob12W1, Zero2, Zero2>>)>>

\* Of t to its p-th power, when it is in Fp2.
Ratio(t) == Mul12(t, Inv12(Frob12(t)))[1][1]

\* (To compare with one first lets TLC evaluate the recursion at a small depth.)
RECURSIVE Exp(_, _)
Exp(x, n) ==
  IF n = 0 THEN One12
  ELSE LET h == Exp(x, n \div 2)
           s == IF h = One12 THEN h ELSE Sqr12(h)
       IN  IF n % 2 = 1 THEN Mul12(s, x) ELSE s
-----------------------------------------------------------------------------
\* Fp12 over Fp4.
OneCubic == <<One4, Zero4, Zero4>>
FromFp12(x) == <<<<x[1][1], x[2][2]>>, <<x[2][1], x[1][3]>>, <<x[1][2], x[2][3]>>>>
FromFp12Cubic(x) == <<<<x[1][1], x[3][1], x[2][2]>>, <<x[2][1], x[1][2], x[3][2]>>>>

MulCubic(x, y) ==
  LET of(v0, v1, v2, p0, p1, p2) == <<Add4(mulT(Sub4(Sub4(p0, v1), v2)), v0),
                                      Add4(Sub4(Sub4(p1, v0), v1), mulT(v2)),
                                      Sub4(Add4(Sub4(p2, v0), v1), v2)>>
  IN  of(Mul4(x[1], y[1]), Mul4(x[2], y[2]), Mul4(x[3], y[3]),
         Mul4(Add4(x[2], x[3]), Add4(y[2], y[3])),
         Mul4(Add4(x[1], x[2]), Add4(y[1], y[2])),
         Mul4(Add4(x[1], x[3]), Add4(y[1], y[3])))

SqrCubic(x) ==
  LET of(s0, s1, s2, s3, s4) == <<Add4(mulT(s3), s0), Add4(mulT(s4), s1),
                                  Sub4(Sub4(Add4(Add4(s1, s2), s3), s0), s4)>>
      twice(c) == Add4(c, c)
  IN  of(Sqr4(x[1]), twice(Mul4(x[1], x[2])), Sqr4(Sub4(Add4(x[1], x[3]), x[2])),
         twice(Mul4(x[2], x[3])), Sqr4(x[3]))

\* By y[1] + y[2]*w^2 + y[3]*w^3.
MulLine(x, y) ==
  LET of(v0, v2, p0, p1, p2) == <<Add4(mulT(Sub4(p0, v2)), v0), Add4(Sub4(p1, v0), mulT(v2)),
                                  Sub4(Sub4(p2, v0), v2)>>
      y0 == <<y[1], y[3]>>
  IN  of(Mul4(x[1], y0), mulSubfield(x[3], y[2]), mulSubfield(Add4(x[2], x[3]), y[2]),
         Mul4(Add4(x[1], x[2]), y0), Mul4(Add4(x[1], x[3]), <<Add2(y0[1], y[2]), y0[2]>>))
-----------------------------------------------------------------------------
(* The cyclotomic group, where the conjugate is the inverse and a square is *)
(* cheaper.                                                                  *)
Thrice(x) == Add4(Add4(x, x), x)

CycloSqr(x) ==
  LET of(c) == LET twice(y) == Cjg4(Add4(y, y))
               IN  <<Sub4(Thrice(Sqr4(c[1])), twice(c[1])),
                     Add4(Thrice(mulT(Sqr4(c[3]))), twice(c[2])),
                     Sub4(Thrice(Sqr4(c[2])), twice(c[3]))>>
  IN  FromFp12Cubic(of(FromFp12(x)))

\* The loop takes the bits below the leading one of the parameter from the highest on.
RECURSIVE Climb(_, _)
Climb(x, k) ==
  IF k = 1 THEN x
  ELSE With(With(Climb(x, k \div 2), CycloSqr), LAMBDA s : IF k % 2 = 1 THEN Mul12(s, x) ELSE s)
PowToX(x) == Cjg12(Climb(x, -paramX))

EasyExponentiation(f) ==
  LET power6(t) == Frob12(Frob12(Frob12(Frob12(Frob12(Frob12(t))))))
  IN  With(Mul12(Frob12(Frob12(f)), f), LAMBDA t0 : Mul12(Inv12(t0), power6(t0)))

HardExponentiation(g) ==
  LET timesLess1(h) == With(PowToX(h), LAMBDA t : Mul12(t, Cjg12(h)))
      step(c, a) == With(PowToX(c), LAMBDA t : Mul12(t, a))
      sum(a3) == LET a2 == Frob12(a3)
                     a1 == Mul12(Frob12(a2), Cjg12(a3))
                     a0 == Mul12(Frob12(a1), Mul12(CycloSqr(g), g))
                 IN  With(With(step(a3, a2), LAMBDA c : step(c, a1)), LAMBDA c : step(c, a0))
  IN  With(With(With(g, timesLess1), timesLess1), sum)

FinalExponentiation(f) == With(With(f, EasyExponentiation), HardExponentiation)
-----------------------------------------------------------------------------
(* The definition of the field: polynomials in w over Fp2 with w^6 = B.      *)
Coefficients(x) == <<x[1][1], x[2][1], x[1][2], x[2][2], x[1][3], x[2][3]>>
OfCoefficients(c) == <<<<c[1], c[3], c[5]>>, <<c[2], c[4], c[6]>>>>

Product(x, y) ==
  LET a == Coefficients(x)
      b == Coefficients(y)
      term(k, i) == LET j == (k - i) % 6 IN
                    IF i + j = k THEN Mul2(a[i + 1], b[j + 1]) ELSE MulBeta2(Mul2(a[i + 1], b[j + 1]))
      sum(k) == Add2(Add2(Add2(term(k, 0), term(k, 1)), Add2(term(k, 2), term(k, 3))),
                     Add2(term(k, 4), term(k, 5)))
  IN  OfCoefficients(<<sum(0), sum(1), sum(2), sum(3), sum(4), sum(5)>>)

(* Every formula is the field's operation: products, squares and inverses in *)
(* both towers, the product with a line, the p-th power (which leaves Fp and *)
(* respects products), and the cheaper square of what EasyExponentiation    *)
(* returns.                                                                 *)
FieldsExact(x, y) ==
  LET cx == FromFp12(x)
      line == <<y[1][1], y[2][1], y[1][3]>>
      asLine == FromFp12Cubic(<<<<line[1], line[3]>>, Zero4, <<line[2], Zero2>>>>)
  IN  /\ Mul12(x, y) = Product(x, y)
      /\ Sqr12(x) = Product(x, x)
      /\ x # <<Zero6, Zero6>> =>
           /\ Product(x, Inv12(x)) = One12
           /\ \A g \in {EasyExponentiation(x)} :
                Product(g, Cjg12(g)) = One12 /\ CycloSqr(g) = Product(g, g)
      /\ \A i \in 1 .. 3 : cx[i] # Zero4 => Mul4(cx[i], Inv4(Zero4, cx[i])) = One4
      /\ FromFp12Cubic(cx) = x
      /\ FromFp12Cubic(MulCubic(cx, FromFp12(y))) = Product(x, y)
      /\ FromFp12Cubic(SqrCubic(cx)) = Product(x, x)
      /\ FromFp12Cubic(MulLine(cx, line)) = Product(x, asLine)
      /\ Frob12(Product(x, y)) = Product(Frob12(x), Frob12(y))
=============================================================================
