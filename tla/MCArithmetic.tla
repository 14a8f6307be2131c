--------------------------- MODULE MCArithmetic ---------------------------
(* Two computations on numbers that are taken apart, of which one runs: its *)
(* name is in computation. They are extended, for what is checked of them is  *)
(* what is proved, and stay as they begin when another one runs.             *)
EXTENDS ThresholdSign, KyberNtt

VARIABLES computation,
          residue   \* of the modulus of Kyber, one after the other
-----------------------------------------------------------------------------
\* Two goroutines that sign with two KeyShares, one of which is zero, at the
\* same time.  11 divides the modulus: it has no inverse.
Secrets == <<0, 7>>
-----------------------------------------------------------------------------
\* Vectors of four polynomials: two that look random, and one with the largest coefficients.
Small(a, b) == [j \in Coeff |-> ((a * j * j + b * j + a) % 5) - 2]
Residues(a, b) == [j \in Coeff |-> (a * j * j + b * j + a) % Q]
Looking(a) ==
  [s |-> <<Small(a, 1), Small(1, a), Small(2, 3), Small(a, a)>>,
   u |-> <<Residues(a, 77), Residues(1234 + a, 5), Residues(9, a), Residues(a, 100)>>,
   v |-> Residues(a, a)]
Largest ==
  [s |-> [i \in 1 .. 4 |-> [j \in Coeff |-> IF j % 2 = 0 THEN 2 ELSE -2]],
   u |-> [i \in 1 .. 4 |-> [j \in Coeff |-> Q - 1]],
   v |-> [j \in Coeff |-> 0]]
Vectors == {Looking(3), Looking(8), Largest}

ASSUME KyberNttAssumption
-----------------------------------------------------------------------------
ArithmeticInit ==
  /\ computation \in {"ThresholdSign", "KyberNtt", "KyberResidues"}
  /\ Init
  /\ NttInit /\ (computation # "KyberNtt" => input = Largest)
  /\ residue = 0

NextResidue == residue < Q - 1 /\ residue' = residue + 1

ArithmeticNext ==
  /\ UNCHANGED computation
  /\ \/ computation = "ThresholdSign" /\ Next /\ UNCHANGED <<nttVars, residue>>
     \/ computation = "KyberNtt" /\ NttNext /\ UNCHANGED <<vars, residue>>
     \/ computation = "KyberResidues" /\ NextResidue /\ UNCHANGED <<vars, nttVars>>

ArithmeticSpec ==
  ArithmeticInit /\ [][ArithmeticNext]_<<computation, vars, nttVars, residue>> /\ Fairness
-----------------------------------------------------------------------------
(* The reductions and roundings of Kyber are exact on every residue, and    *)
(* the inner product that decryption computes is that of polynomials.       *)
KyberArithmeticExact ==
  /\ computation = "KyberResidues" => ReductionsExact(residue) /\ RoundingExact(residue)
  /\ InnerProduct
=============================================================================
