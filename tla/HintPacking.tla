----------------------------- MODULE HintPacking -----------------------------
(* The hint of an ML-DSA signature on the wire: the indices of the ones of  *)
(* each polynomial, in a buffer that a signer fills (PackHint) and a        *)
(* verifier reads from anyone (UnpackHint).                                 *)
EXTENDS Integers, Sequences, FiniteSets

CONSTANTS HintK,     \* polynomials
          HintN,     \* coefficients of a polynomial: the values of a byte
          HintOmega  \* most ones in all polynomials

HintAssumption == {HintK, HintN, HintOmega} \subseteq Nat \ {0} /\ HintOmega < HintN

VARIABLE buf

Index == 0 .. HintN - 1   \* also the values of a byte
Hint == [1 .. HintK -> SUBSET Index]
Population(v) == LET upTo[i \in 0 .. HintK] == IF i = 0 THEN 0 ELSE upTo[i - 1] + Cardinality(v[i])
                 IN  upTo[HintK]

\* The coefficients that are one, as the loop meets them.
Ascending(S) ==
  CHOOSE a \in [1 .. Cardinality(S) -> S] : \A j, k \in DOMAIN a : j < k => a[j] < a[k]

\* The positions before HintOmega list the ones of each polynomial, the last HintK where each ends.
PackHint(v) ==
  LET list[i \in 0 .. HintK] == IF i = 0 THEN <<>> ELSE list[i - 1] \o Ascending(v[i])
  IN  [p \in 1 .. HintOmega |-> IF p <= Len(list[HintK]) THEN list[HintK][p] ELSE 0]
      \o [i \in 1 .. HintK |-> Len(list[i])]

SOP(b, i) == IF i = 0 THEN 0 ELSE b[HintOmega + i]

BugAccepted(b) ==   \* slip: an index may be repeated
  /\ \A i \in 1 .. HintK : SOP(b, i - 1) <= SOP(b, i) /\ SOP(b, i) <= HintOmega
  /\ \A i \in 1 .. HintK : \A j \in SOP(b, i - 1) + 2 .. SOP(b, i) : b[j - 1] <= b[j]
  /\ \A j \in SOP(b, HintK) + 1 .. HintOmega : b[j] = 0

\* The checks of UnpackHint: ends in order, indices in order, padding zero.
Accepted(b) ==
  /\ \A i \in 1 .. HintK : SOP(b, i - 1) <= SOP(b, i) /\ SOP(b, i) <= HintOmega
  /\ \A i \in 1 .. HintK : \A j \in SOP(b, i - 1) + 2 .. SOP(b, i) : b[j - 1] < b[j]
  /\ \A j \in SOP(b, HintK) + 1 .. HintOmega : b[j] = 0

UnpackHint(b) == [i \in 1 .. HintK |-> {b[j] : j \in SOP(b, i - 1) + 1 .. SOP(b, i)}]

\* A signer's buffer, and then any byte of it changed on the way, any number of times.
Packed == {<<v, PackHint(v)>> : v \in {u \in Hint : Population(u) <= HintOmega}}

HintInit == buf \in {packed[2] : packed \in Packed}

Change == \E p \in DOMAIN buf, x \in Index : buf' = [buf EXCEPT ![p] = x]

HintSpec == HintInit /\ [][Change]_buf
-----------------------------------------------------------------------------
(* A hint has one encoding: what the verifier accepts is the buffer that    *)
(* PackHint makes of what it read, so no byte of the hint of a signature can *)
(* be changed without changing the hint; and what a signer packs is read    *)
(* back.                                                                    *)
OneEncoding ==
  /\ Accepted(buf) => Population(UnpackHint(buf)) <= HintOmega /\ PackHint(UnpackHint(buf)) = buf
  /\ \A packed \in Packed : buf = packed[2] => Accepted(buf) /\ UnpackHint(buf) = packed[1]
=============================================================================
