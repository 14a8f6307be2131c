----------------------------- MODULE RsaNumbers -----------------------------
(***************************************************************************)
(* What tss/rsa takes from math/big, on an RSA modulus small enough to be  *)
(* computed with: powers and inverses, and what these operations leave in  *)
(* their receiver when there is no inverse.                                *)
(***************************************************************************)
EXTENDS Integers

CONSTANTS
  p, q,   \* the safe primes
  e,      \* the public exponent
  nil     \* a nil *big.Int

ASSUME RsaAssumption == /\ p \in Nat /\ q \in Nat /\ p > 3 /\ q > 3 /\ p # q
                        /\ p % 2 = 1 /\ q % 2 = 1 /\ e \in Nat /\ e > 2 /\ e % 2 = 1

N == p * q

ASSUME NilAssumption == nil \notin 0 .. N - 1

\* The order of the squares modulo N: pprime times qprime.
m == ((p - 1) * (q - 1)) \div 4

Abs(k) == IF k < 0 THEN -k ELSE k

\* z.ModInverse(x, k): nil when there is none.
ModInverse(x, k) ==
  IF \E y \in 0 .. k - 1 : (x * y) % k = 1
    THEN CHOOSE y \in 0 .. k - 1 : (x * y) % k = 1
    ELSE nil

\* z.Exp(x, n, N) for n >= 0, by repeated squaring.
Square == [y \in 0 .. N - 1 |-> (y * y) % N]
Power(x, n) ==
  LET pow[k \in Nat] ==
        IF k = 0 THEN 1
        ELSE (Square[pow[k \div 2]] * (IF k % 2 = 1 THEN x ELSE 1)) % N
  IN  pow[n]

\* z.Exp(x, n, N), where z was 0: a power of the inverse for n < 0, and z as it
\* was when there is none.
Exp(x, n) ==
  IF n >= 0 THEN Power(x, n)
  ELSE IF ModInverse(x, N) = nil THEN 0
  ELSE Power(ModInverse(x, N), -n)

\* z.GCD(a, b, x, y): the greatest common divisor of x and y, and the number a of
\* least magnitude such that it is a x + b y.
Gcd(x, y) == CHOOSE d \in 1 .. y : /\ x % d = 0 /\ y % d = 0
                                  /\ \A c \in d + 1 .. y : x % c # 0 \/ y % c # 0
Bezout(x, y) ==
  LET least == y \div (2 * Gcd(x, y))
  IN  CHOOSE a \in -least .. least : (x * a - Gcd(x, y)) % y = 0

\* Delta: the factorial of the number of players.
calculateDelta(l) ==
  LET product[k \in 0 .. l] == IF k = 0 THEN 1 ELSE k * product[k - 1]
  IN  product[l]
=============================================================================
