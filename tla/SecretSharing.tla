---------------------------- MODULE SecretSharing ----------------------------
(* Shamir's and Feldman's secret sharing (secretsharing) over the polynomials *)
(* of math/polynomial: a dealer, and someone who collects the shares that    *)
(* verify, in any order and any number of times, honest or altered on the    *)
(* way. Scalars are the residues modulo a prime; a group element is its      *)
(* logarithm.                                                                *)
EXTENDS Integers, Sequences, Functions, FiniteSets

CONSTANTS SharingOrder,  \* a prime
          MaxT,          \* the largest threshold
          Players,       \* Share(n) is called with n = Players
          MaxShares      \* shares collected at most

\* As the order is prime, scalars that are not zero have inverses.
SharingAssumption ==
  /\ SharingOrder \in Nat \ {0, 1}
  /\ \A x \in 1 .. SharingOrder - 1 :
       \E y \in 1 .. SharingOrder - 1 : (x * y) % SharingOrder = 1
  /\ {MaxT, Players, MaxShares} \subseteq Nat
  /\ Players < SharingOrder

Scalar == 0 .. SharingOrder - 1

VARIABLES poly,       \* the coefficients, from the constant one on; none before New
          commitment,
          collected   \* shares [ID, Value], in the order they came

sharingVars == <<poly, commitment, collected>>
-----------------------------------------------------------------------------
\* Trailing zeros do not count, but a polynomial has at least one coefficient.
Degree(c) == CHOOSE i \in 0 .. Len(c) - 1 :
               /\ i > 0 => c[i + 1] # 0
               /\ \A j \in i + 1 .. Len(c) - 1 : c[j + 1] = 0

PolyEvaluate(c, x) ==
  LET px[i \in 0 .. Len(c)] ==
        IF i = 0 THEN 0 ELSE (px[i - 1] * x + c[Len(c) + 1 - i]) % SharingOrder
  IN  px[Len(c)]

ScalarInv(x) == CHOOSE y \in Scalar : x # 0 => (x * y) % SharingOrder = 1

\* The products of x - xs[i], the j-th left out, over the first xs.
Differences(x, j, xs) ==
  LET product[i \in 0 .. Len(xs)] ==
        IF i = 0 THEN 1
        ELSE IF i = j THEN product[i - 1]
        ELSE (product[i - 1] * (x - xs[i])) % SharingOrder
  IN  product

\* L_j at zero, as baseRatio computes it.
LagrangeBase(j, xs) ==
  (Differences(0, j, xs)[Len(xs)] * ScalarInv(Differences(xs[j], j, xs)[Len(xs)])) % SharingOrder

\* LagrangePolynomial.Evaluate at zero: the sums of its first terms.
LagrangeSums(xs, ys) ==
  LET px[i \in 0 .. Len(xs)] ==
        IF i = 0 THEN 0 ELSE (px[i - 1] + ys[i] * LagrangeBase(i, xs)) % SharingOrder
  IN  px

ShareWithID(c, id) == [ID |-> id, Value |-> PolyEvaluate(c, id)]

CommitSecret(c) == SubSeq(c, 1, Degree(c) + 1)

BugVerifyShare(t, s, c) ==   \* slip: the last commitment is left out
  /\ Len(c) = t + 1
  /\ s.ID # 0
  /\ s.Value = PolyEvaluate(SubSeq(c, 1, t), s.ID)

VerifyShare(t, s, c) ==
  /\ Len(c) = t + 1
  /\ s.ID # 0
  /\ s.Value = PolyEvaluate(c, s.ID)

\* Only the first t + 1 shares are looked at: two of one ID among them are a panic.
Recover(t, shares) ==
  LET xs == [i \in 1 .. t + 1 |-> shares[i].ID]
      ys == [i \in 1 .. t + 1 |-> shares[i].Value]
  IN  IF Len(shares) <= t THEN "error"
      ELSE IF ~IsInjective(xs) THEN "panic"
      ELSE LagrangeSums(xs, ys)[t + 1]
-----------------------------------------------------------------------------
SharingInit == poly = <<>> /\ commitment = <<>> /\ collected = <<>>

\* New and CommitSecret: the coefficients after the secret are random, zero too.
NewSharing ==
  /\ poly = <<>>
  /\ \E t \in 0 .. MaxT : \E c \in [1 .. t + 1 -> Scalar] :
       poly' = c /\ commitment' = CommitSecret(c)
  /\ UNCHANGED collected

threshold == Len(poly) - 1

Arriving(id) == LET s == ShareWithID(poly, id)
                 IN  {s, [s EXCEPT !.Value = (@ + 1) % SharingOrder],
                         [s EXCEPT !.ID = (@ + 1) % SharingOrder]}

\* A share of Share(Players), or one that differs from it, is kept when it verifies.
Collect ==
  /\ poly # <<>> /\ Len(collected) < MaxShares
  /\ \E id \in 1 .. Players : \E s \in Arriving(id) :
       VerifyShare(threshold, s, commitment) /\ collected' = Append(collected, s)
  /\ UNCHANGED <<poly, commitment>>

SharingNext == NewSharing \/ Collect

SharingSpec == SharingInit /\ [][SharingNext]_sharingVars
-----------------------------------------------------------------------------
\* The polynomials of the dealer that agree with what was collected.
Consistent(secret) ==
  {c \in [1 .. threshold -> Scalar] :
     \A i \in DOMAIN collected :
       PolyEvaluate(<<secret>> \o c, collected[i].ID) = collected[i].Value}

(* The threshold: who has t + 1 verified shares recovers the secret, whatever *)
(* came when, unless two of the first t + 1 have one ID; and who has t shares *)
(* or fewer has as many polynomials left for one secret as for another. The   *)
(* shares of a dealer verify, if the last coefficient drawn is not zero.      *)
SharingThreshold ==
  poly # <<>> =>
    /\ Recover(threshold, collected) \in
         IF Len(collected) <= threshold THEN {"error"}
         ELSE IF Cardinality({collected[i].ID : i \in 1 .. threshold + 1}) <= threshold
           THEN {"panic"}
         ELSE {poly[1]}
    /\ (threshold = 0 \/ poly[threshold + 1] # 0) =>
         \A id \in 1 .. Players : VerifyShare(threshold, ShareWithID(poly, id), commitment)
    /\ Len(collected) <= threshold =>
         \A x, y \in Scalar : Cardinality(Consistent(x)) = Cardinality(Consistent(y))

(* Every share verifies that was produced by sharing a secret with the        *)
(* threshold and the commitment, as the comment before Verify (ss.go:101)     *)
(* says. The code falls short: the commitment of a polynomial whose last      *)
(* coefficient is zero is too short for Verify.                              *)
HonestSharesVerify ==
  poly # <<>> => \A id \in 1 .. Players :
                   VerifyShare(threshold, ShareWithID(poly, id), commitment)
=============================================================================
