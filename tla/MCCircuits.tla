----------------------------- MODULE MCCircuits -----------------------------
(* Instances of the modules about attribute-based encryption and about the   *)
(* circuits and proofs of Prio3, of which one runs: its name is in apScheme, *)
(* and the variables of the others stay Off.                                 *)
EXTENDS Integers, Sequences

VARIABLES
  apScheme,
  matrix,                                             \* MatrixZp
  params, abeKey, sealed, ct,                         \* Tkn
  circuit, measurement, meas, joint, proof, forged    \* Flp

ApOff == "off"
-----------------------------------------------------------------------------
\* All matrices of three rows.
Matrices == INSTANCE MatrixZp WITH Order <- 3, a <- matrix, Row <- [1 .. 3 -> 0 .. 2]
ASSUME Matrices!MatrixAssumption

\* Two labels and two values; every key has some of the labels, each with a value or wild. The
\* numbers drawn are spread over the field, and none of the matrices that are inverted is singular.
Spread(n, i, j) ==
  LET z == (n * 1237 + i * 311 + j * 73 + 29) % 2003
  IN  (((z * z + 17) % 2003) * z + 5 * n + i) % 2003
AbeWire(label, value, positive) == [Label |-> label, Value |-> value, Positive |-> positive]
AbeGate(class, in0, in1, wire) == [Class |-> class, In0 |-> in0, In1 |-> in1, Out |-> wire]
AbePolicies ==
  {[Inputs |-> <<AbeWire(1, 5, TRUE)>>, F |-> <<>>],
   [Inputs |-> <<AbeWire(1, 5, FALSE)>>, F |-> <<>>],
   [Inputs |-> <<AbeWire(1, 5, FALSE), AbeWire(1, 6, FALSE)>>, F |-> <<AbeGate("and", 0, 1, 2)>>],
   [Inputs |-> <<AbeWire(1, 5, TRUE), AbeWire(2, 5, FALSE)>>, F |-> <<AbeGate("or", 0, 1, 2)>>],
   [Inputs |-> <<AbeWire(2, 6, TRUE), AbeWire(1, 5, TRUE), AbeWire(2, 5, FALSE)>>,
    F |-> <<AbeGate("and", 3, 2, 4), AbeGate("or", 0, 1, 3)>>]}
AbeAttribute ==
  {[wild |-> FALSE, Value |-> 5], [wild |-> FALSE, Value |-> 6], [wild |-> TRUE, Value |-> 0]}

Abe == INSTANCE Tkn WITH Order <- 2003, Random <- Spread, Labels <- {1, 2},
         AttributeSets <- UNION {[l -> AbeAttribute] : l \in SUBSET {1, 2}},
         Policies <- AbePolicies, Messages <- {"m"}, MaxSealed <- 2, key <- abeKey
ASSUME Abe!TknAssumption

\* Every circuit; products of polynomials by both methods; a sum that takes all bits of a word.
NoCircuits == INSTANCE Flp WITH Order <- 97, Generator <- 5, thresholdPolyMul <- 6, wordBits <- 2,
                JointRands <- {}, Faults <- {}, Circuits <- {}
Flps == INSTANCE Flp WITH Order <- 97, Generator <- 5, thresholdPolyMul <- 6, wordBits <- 2,
          JointRands <- {[i \in 1 .. 4 |-> 11 * i + 2]}, Faults <- {1, 60},
          Circuits <- {NoCircuits!newCount, NoCircuits!newSum(1), NoCircuits!newSum(2), NoCircuits!newSumVec(2, 1, 2),
                       NoCircuits!newHistogram(3, 2), NoCircuits!newMhcv(2, 1, 2)}
ASSUME Flps!FlpAssumption
-----------------------------------------------------------------------------
MatrixOff == matrix = ApOff
AbeOff == params = ApOff /\ abeKey = ApOff /\ sealed = ApOff /\ ct = ApOff
FlpOff == /\ circuit = ApOff /\ measurement = ApOff /\ meas = ApOff
          /\ joint = ApOff /\ proof = ApOff /\ forged = ApOff

ApInit == /\ apScheme \in {"MatrixZp", "Tkn", "Flp"}
          /\ IF apScheme = "MatrixZp" THEN Matrices!Init ELSE MatrixOff
          /\ IF apScheme = "Tkn" THEN Abe!Init ELSE AbeOff
          /\ IF apScheme = "Flp" THEN Flps!Init ELSE FlpOff

ApIdle == apScheme = ApOff /\ MatrixOff /\ AbeOff /\ FlpOff

abe == <<params, abeKey, sealed, ct>>
flp == <<circuit, measurement, meas, joint, proof, forged>>
apVars == <<apScheme, matrix, abe, flp>>

ApNext == /\ UNCHANGED <<apScheme, matrix>>
          /\ \/ apScheme = "Tkn" /\ Abe!Next /\ UNCHANGED flp
             \/ apScheme = "Flp" /\ Flps!Next /\ UNCHANGED abe
-----------------------------------------------------------------------------
(* The result of inverse is the inverse, or shows that it is not.            *)
MatrixInverseExact == apScheme = "MatrixZp" => Matrices!InverseExact

(* A key opens what its attributes may, and nothing put together from parts. *)
AbeOpensWhatItMay == apScheme = "Tkn" => Abe!OpensWhatItMay

(* Shared proofs of measurements pass; others pass at few points only.      *)
FlpProofDecides == apScheme = "Flp" => Flps!ProofDecides

(* A matrix has its inverse for a result, or an error if it has none.        *)
MatrixInverseOrError == apScheme = "MatrixZp" => Matrices!InverseOrError

(* A measurement of a bucket is counted, and of no bucket refused.           *)
BucketCountedOrRefused == apScheme = "Flp" => Flps!BucketCountedOrRefused
-----------------------------------------------------------------------------
ApSpec == ApInit /\ [][ApNext]_apVars
=============================================================================
