-------------------------------- MODULE MlDsa --------------------------------
(* ML-DSA and Dilithium: the rejection loop of SignTo and Verify, with the  *)
(* rounding of rounding.go on the real modulus and the real bounds. A       *)
(* polynomial is one coefficient, which a challenge of Tau terms multiplies *)
(* by at most Tau; a vector has K entries where the code has K, and one     *)
(* where it has L. Hashes are free: a challenge is taken from a set, and c~ *)
(* determines what was hashed. Residues are kept below Q, so that the lazy  *)
(* reductions between the steps (KyberNtt has such) are not seen.           *)
(* Ml is in the names that TreeHash, which runs beside it, also has.        *)
EXTENDS Integers, FiniteSets

CONSTANTS Mode,      \* the parameters of a scheme, see ModeAssumption
          K,         \* rows of the matrix
          Matrix,    \* matrices: functions from 1 .. K to residues
          Challenge, \* c for a mode
          Mask,      \* y for a mode
          Secret,    \* entries of s1 and s2 for a mode
          MaxAttempts

Q == 8380417
D == 13

Beta(p) == p.Tau * p.Eta
Alpha(p) == 2 * p.Gamma2
Gamma1(p) == 2 ^ p.Gamma1Bits

Parameters == [Eta : Nat, Tau : Nat, Gamma1Bits : Nat, Gamma2 : {261888, 95232}, Omega : Nat]

ModeAssumption ==
  /\ K \in Nat \ {0} /\ MaxAttempts \in Nat
  /\ Matrix \subseteq [1 .. K -> Int]
  /\ Mode \subseteq Parameters
  /\ \A p \in Mode :
       /\ Challenge[p] \subseteq -p.Tau .. p.Tau
       /\ Mask[p] \subseteq 1 - Gamma1(p) .. Gamma1(p)
       /\ Secret[p] \subseteq -p.Eta .. p.Eta

VARIABLES mode, sk, attempt, sig
mlVars == <<mode, sk, attempt, sig>>

MlNone == [none |-> TRUE]
Row == 1 .. K

\* The representative of x nearest to zero, and the bound that Exceeds checks.
Centered(x) == IF x % Q > (Q - 1) \div 2 THEN (x % Q) - Q ELSE x % Q
Abs(x) == IF x < 0 THEN -x ELSE x
Exceeds(x, bound) == Abs(Centered(x)) >= bound
VecExceeds(v, bound) == \E i \in Row : Exceeds(v[i], bound)
-----------------------------------------------------------------------------
\* power2round: a0 + Q and a1.
power2round(a) ==
  LET low == (a % 2 ^ D) - (2 ^ (D - 1) + 1)
      a0 == (IF low < 0 THEN low + 2 ^ D ELSE low) - (2 ^ (D - 1) - 1)
  IN  [a0plusQ |-> Q + a0, a1 |-> (a - a0) \div 2 ^ D]

(* decompose divides by Alpha with a multiplication and a shift, exact on   *)
(* the residues, then sends the last interval to zero.                      *)
decompose(p, a) ==
  LET ceil == (a + 127) \div 128
      a1 == IF Alpha(p) = 523776
            THEN ((ceil * 1025 + 2 ^ 21) \div 2 ^ 22) % 16
            ELSE LET b == (ceil * 11275 + 2 ^ 23) \div 2 ^ 24 IN IF b > 43 THEN 0 ELSE b
      a0 == a - a1 * Alpha(p)
  IN  [a0plusQ |-> IF a0 < (Q - 1) \div 2 THEN a0 + Q ELSE a0, a1 |-> a1]

BugMakeHint(p, z0, r1) ==   \* slip: the lower end of the interval is not special
  IF z0 <= p.Gamma2 \/ z0 > Q - p.Gamma2 THEN 0 ELSE 1

makeHint(p, z0, r1) ==
  IF z0 <= p.Gamma2 \/ z0 > Q - p.Gamma2 \/ (z0 = Q - p.Gamma2 /\ r1 = 0) THEN 0 ELSE 1

\* PolyUseHint: one interval up or down, around the end.
PolyUseHint(p, a, hint) ==
  LET r == decompose(p, a)
      m == IF Alpha(p) = 523776 THEN 16 ELSE 44
  IN  IF hint = 0 THEN r.a1
      ELSE IF r.a0plusQ > Q THEN (r.a1 + 1) % m ELSE (r.a1 + m - 1) % m
-----------------------------------------------------------------------------
\* computeT0andT1 and the rest of NewKeyFromSeed.
Key(p, A, s1, s2) ==
  LET t == [i \in Row |-> power2round((A[i] * s1 + s2[i]) % Q)]
  IN  [A |-> A, s1 |-> s1, s2 |-> s2,
       t0 |-> [i \in Row |-> t[i].a0plusQ], t1 |-> [i \in Row |-> t[i].a1]]

MlInit == mode \in Mode /\ sk = MlNone /\ attempt = 0 /\ sig = MlNone

NewKeyFromSeed ==
  /\ sk = MlNone
  /\ \E A \in Matrix, s1 \in Secret[mode], s2 \in [Row -> Secret[mode]] :
       sk' = Key(mode, A, s1, s2)
  /\ UNCHANGED <<mode, attempt, sig>>

BugRejected(p, w0mcs2, z, ct0, hint) ==   \* slip: r0 is not checked
  \/ Exceeds(z, Gamma1(p) - Beta(p))
  \/ VecExceeds(ct0, p.Gamma2)
  \/ Cardinality({i \in Row : hint[i] = 1}) > p.Omega

Rejected(p, w0mcs2, z, ct0, hint) ==
  \/ VecExceeds(w0mcs2, p.Gamma2 - Beta(p))
  \/ Exceeds(z, Gamma1(p) - Beta(p))
  \/ VecExceeds(ct0, p.Gamma2)
  \/ Cardinality({i \in Row : hint[i] = 1}) > p.Omega

(* One turn of the loop of SignTo, with mask y and challenge c: the         *)
(* signature, or MlNone when the attempt is rejected.                       *)
Attempted(p, key, y, c) ==
  LET w == [i \in Row |-> decompose(p, (key.A[i] * y) % Q)]
      w0mcs2 == [i \in Row |-> (w[i].a0plusQ - c * key.s2[i]) % Q]
      z == (y + c * key.s1) % Q
      ct0 == [i \in Row |-> (c * (key.t0[i] - Q)) % Q]
      hint == [i \in Row |-> makeHint(p, (w0mcs2[i] + ct0[i]) % Q, w[i].a1)]
  IN  IF Rejected(p, w0mcs2, z, ct0, hint) THEN MlNone
      ELSE [z |-> z, hint |-> hint, c |-> c, w1 |-> [i \in Row |-> w[i].a1]]

(* The loop ends in a panic after 575 attempts; here after MaxAttempts,     *)
(* which is as far as the instance goes.                                    *)
Attempt ==
  /\ sk # MlNone /\ sig = MlNone /\ attempt < MaxAttempts
  /\ \E y \in Mask[mode], c \in Challenge[mode] : sig' = Attempted(mode, sk, y, c)
  /\ attempt' = attempt + 1
  /\ UNCHANGED <<mode, sk>>

MlNext == NewKeyFromSeed \/ Attempt

MlSpec == MlInit /\ [][MlNext]_mlVars

\* Verify by the public key A and t1: c~ is that of mu and w1.
Verify(p, A, t1, s) ==
  LET Az2dct1(i) == (A[i] * Centered(s.z) - 2 ^ D * s.c * t1[i]) % Q
  IN  /\ ~Exceeds(s.z, Gamma1(p) - Beta(p))
      /\ Cardinality({i \in Row : s.hint[i] = 1}) <= p.Omega
      /\ s.w1 = [i \in Row |-> PolyUseHint(p, Az2dct1(i), s.hint[i])]
-----------------------------------------------------------------------------
(* A signature that leaves the rejection loop verifies: the hints, made from *)
(* w0 - c s2 + c t0 without a decomposition of w - c s2, are those with     *)
(* which the verifier finds w1 in A z - c t1 2^D. That takes the division   *)
(* by Alpha on every residue, both ends of the interval that wraps, and the *)
(* bounds of the attempts.                                                  *)
SignatureVerifies == sig # MlNone => Verify(mode, sk.A, sk.t1, sig)

(* What the comments in SignTo call Lemma 3: the check of w0 - c s2 is as   *)
(* good as one of the decomposition of w - c s2, which is A z - c t. The    *)
(* high bits of it are w1, and its low bits stay below Gamma2 - Beta, or    *)
(* signatures would tell of s2.                                             *)
HighBitsKept ==
  sig # MlNone =>
    \A i \in Row :
      LET t == sk.t1[i] * 2 ^ D + sk.t0[i] - Q
          r == decompose(mode, (sk.A[i] * Centered(sig.z) - sig.c * t) % Q)
      IN  r.a1 = sig.w1[i] /\ ~Exceeds(r.a0plusQ - Q, mode.Gamma2 - Beta(mode))

\* Both, what the runs check and SchemesProofs proves.
MlSignatureVerifies == SignatureVerifies /\ HighBitsKept
=============================================================================
