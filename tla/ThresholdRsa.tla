---------------------------- MODULE ThresholdRsa ----------------------------
(***************************************************************************)
(* Threshold RSA signatures (tss/rsa): a dealer shares the private         *)
(* exponent, players sign with their shares, and anyone combines the       *)
(* signature shares.  The combiner may be handed shares in any order, of   *)
(* any message, and the same share twice.                                  *)
(*                                                                         *)
(* Sign is one step here, ThresholdSign takes it apart.  Numbers are       *)
(* numbers modulo a small RSA modulus.                                     *)
(***************************************************************************)
EXTENDS RsaNumbers, Sequences, SequencesExt, FiniteSets

CONSTANTS
  Players,    \* numbers of players
  Threshold,  \* numbers of shares needed
  Coeff,      \* what the random source may give as a coefficient
  Digest,     \* padded digests
  MaxShares   \* bound: signature shares handed to the combiner

DealAssumption == /\ Players \subseteq Nat /\ Threshold \subseteq Nat
                  /\ Coeff \subseteq 0 .. m - 1 /\ Digest \subseteq 0 .. N - 1
                  /\ MaxShares \in Nat

VARIABLES
  keys,    \* the KeyShares that Deal returned, none before
  shares,  \* the SignShares the combiner was handed, in order
  from     \* history: the digest of each of them

vars == <<keys, shares, from>>
-----------------------------------------------------------------------------
(* Deal and Sign *)

validateParams(players, threshold) == players > 1 /\ threshold \in 1 .. players

\* The value at x of the polynomial of coefficients a[1], a[2], ...
computePolynomial(a, x) ==
  LET sum[i \in 1 .. Len(a)] ==
        IF i = Len(a) THEN a[i] ELSE (sum[i + 1] * x + a[i]) % m
  IN  sum[1]

\* The share of player i.
KeyShare(a, players, i) ==
  [si |-> computePolynomial(a, i), Index |-> i, Players |-> players, Threshold |-> Len(a)]

SignShare(k, x) ==
  [xi |-> Exp(x, 2 * calculateDelta(k.Players) * k.si),
   Index |-> k.Index, Players |-> k.Players, Threshold |-> k.Threshold]
-----------------------------------------------------------------------------
(* CombineSignShares *)

Indices(S) == {S[k].Index : k \in DOMAIN S}

\* i is a player, or 0, that is not of S, and j is of S.
checkIndices(i, j, l, S) == j \in Indices(S) /\ i \in 0 .. l \ Indices(S)

\* The product of i - j' over the indices j' of S, j left out.
Differences(S, i, j) ==
  FoldLeft(LAMBDA z, s : IF s.Index = j THEN z ELSE z * (i - s.Index), 1, S)

BugComputeLambda(delta, S, i, j, l) ==   \* slip: the quotient is not made whole
  LET num == Differences(S, i, j)
      den == Differences(S, j, j)
  IN  IF num % Abs(den) # 0 THEN nil
      ELSE delta * (IF den < 0 THEN -(num \div Abs(den)) ELSE num \div Abs(den))

\* The Lagrange coefficient of j at i, times delta: nil if it is not an integer.
computeLambda(delta, S, i, j, l) ==
  LET num == delta * Differences(S, i, j)
      den == Differences(S, j, j)
  IN  IF ~checkIndices(i, j, l, S) \/ num % Abs(den) # 0 THEN nil
      ELSE IF den < 0 THEN -(num \div Abs(den)) ELSE num \div Abs(den)

\* xi to the power of 2 lambda; without an inverse ModInverse leaves its receiver.
Raise(xi, lambda) ==
  LET tmp == Power(xi, Abs(2 * lambda))
  IN  IF lambda < 0 /\ ModInverse(tmp, N) # nil THEN ModInverse(tmp, N) ELSE tmp

\* y = w^a x^b where eprime a + e b is the greatest common divisor of the two: 1,
\* when e is a prime above the number of players.
Root(w, x, delta) ==
  LET eprime == 4 * delta * delta
      a == Bezout(eprime, e)
      b == (Gcd(eprime, e) - eprime * a) \div e
  IN  (Exp(w, a) * Exp(x, b)) % N

\* A signature, or nil for an error.
CombineSignShares(S, x) ==
  LET players   == S[1].Players
      threshold == S[1].Threshold
      delta     == calculateDelta(players)
      lambda(s) == computeLambda(delta, S, 0, s.Index, players)
      w == FoldLeft(LAMBDA z, s : (z * Raise(s.xi, lambda(s))) % N, 1, S)
      y == Root(w, x, delta)
  IN  IF \/ \E k \in DOMAIN S : S[k].Players # players \/ S[k].Threshold # threshold
         \/ Len(S) < threshold
         \/ \E k \in DOMAIN S : lambda(S[k]) = nil
         \/ Power(y, e) # x
        THEN nil ELSE y
-----------------------------------------------------------------------------
Init == keys = <<>> /\ shares = <<>> /\ from = <<>>

\* The first coefficient is the private exponent.
Deal(players, threshold, random) ==
  LET d == ModInverse(e, m)
  IN  /\ keys = <<>>
      /\ validateParams(players, threshold) /\ d # nil
      /\ keys' = [i \in 1 .. players |-> KeyShare(<<d>> \o random, players, i)]
      /\ UNCHANGED <<shares, from>>

\* The combiner is handed one more share.
Sign(i, x) == /\ Len(shares) < MaxShares
              /\ shares' = Append(shares, SignShare(keys[i], x))
              /\ from' = Append(from, x)
              /\ UNCHANGED keys

Next == \/ \E l \in Players, k \in Threshold :
             k > 0 /\ \E random \in [1 .. k - 1 -> Coeff] : Deal(l, k, random)
        \/ \E i \in DOMAIN keys, x \in Digest : Sign(i, x)

Spec == Init /\ [][Next]_vars
-----------------------------------------------------------------------------
\* At least as many players as the threshold asks for, and none twice, signed x.
Quorum(x) == /\ shares # <<>> /\ Len(shares) >= shares[1].Threshold
             /\ Cardinality(Indices(shares)) = Len(shares)
             /\ from = [k \in DOMAIN shares |-> x]

\* Whichever players signed, in any order and in any number from the threshold
\* on, their shares combine, into the signature that the private key gives.  A
\* digest with a factor of the modulus is refused: there is no inverse to take.
Combines ==
  \A x \in Digest :
    Quorum(x) => CombineSignShares(shares, x)
                   = IF ModInverse(x, N) = nil THEN nil
                     ELSE Power(x, ModInverse(e, (p - 1) * (q - 1)))
=============================================================================
