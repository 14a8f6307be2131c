------------------------------ MODULE MatrixZp ------------------------------
(* Matrices of CP-ABE (abe/cpabe/tkn20/internal/tkn): those of scalars, and  *)
(* those of group elements too, for an element is its logarithm modulo Order *)
(* and the scalars act on either side. A matrix is the sequence of its rows. *)
(*                                                                           *)
(* The state is the argument of inverse.                                     *)
EXTENDS Integers, Sequences, SequencesExt

CONSTANTS Order,    \* a prime
          Row       \* rows that the argument of inverse is made of

Scalar == 0 .. Order - 1
MatrixAssumption == Order \in Nat \ {0, 1} /\ \A r \in Row : Len(r) = 3 /\ Range(r) \subseteq Scalar

VARIABLE a
-----------------------------------------------------------------------------
\* The inverse of zero is zero.
Inv(x) == IF x = 0 THEN 0 ELSE CHOOSE y \in Scalar : (x * y) % Order = 1

Add(x, y) == [i \in DOMAIN x |-> [j \in DOMAIN x[i] |-> (x[i][j] + y[i][j]) % Order]]
Sub(x, y) == [i \in DOMAIN x |-> [j \in DOMAIN x[i] |-> (x[i][j] - y[i][j]) % Order]]
ScalarMul(c, x) == [i \in DOMAIN x |-> [j \in DOMAIN x[i] |-> (c * x[i][j]) % Order]]
Transpose(x) == [j \in DOMAIN x[1] |-> [i \in DOMAIN x |-> x[i][j]]]
ColSel(x, cols) == [i \in DOMAIN x |-> [j \in DOMAIN cols |-> x[i][cols[j]]]]
Zero(x) == ScalarMul(0, x)

\* mul, leftMult and rightMult.
Mul(x, y) ==
  [i \in DOMAIN x |-> [j \in DOMAIN y[1] |->
     FoldLeft(LAMBDA s, k : (s + x[i][k] * y[k][j]) % Order, 0, [k \in DOMAIN y |-> k])]]

eye(k) == [i \in 1 .. k |-> [j \in 1 .. k |-> IF i = j THEN 1 ELSE 0]]
-----------------------------------------------------------------------------
Singular == <<>>   \* errMatrixNonInvertible

AddScaledRow(row, c, other) == [j \in DOMAIN row |-> (other[j] + c * row[j]) % Order]

(* The pivot is looked for along row i, and then rows are swapped: unless the *)
(* diagonal has it, the row that comes to its place may have a zero there.   *)
Pivoted(y, i) ==
  LET candidates == {j \in i .. Len(y) : y[i][j] # 0}
      j == CHOOSE j \in candidates : \A k \in candidates : j <= k
      swapped == [y EXCEPT ![i] = y[j], ![j] = y[i]]
  IN  IF candidates = {} THEN Singular
      ELSE [swapped EXCEPT ![i] = [k \in DOMAIN @ |-> (@[k] * Inv(@[i])) % Order]]

Cleared(y, i, rows) ==
  [j \in DOMAIN y |-> IF j \in rows THEN AddScaledRow(y[i], -y[j][i], y[j]) ELSE y[j]]

\* One turn of the elimination.
Eliminated(y, i) ==
  IF y = Singular \/ Pivoted(y, i) = Singular THEN Singular
  ELSE Cleared(Pivoted(y, i), i, i + 1 .. Len(y))

BugSubstituted(y) ==   \* slip: the first row is not substituted into
  FoldRight(LAMBDA i, z : Cleared(z, i, 2 .. i - 1), [i \in DOMAIN y |-> i], y)

\* The substitution back.
Substituted(y) ==
  FoldRight(LAMBDA i, z : Cleared(z, i, 1 .. i - 1), [i \in DOMAIN y |-> i], y)

inverse(x) ==
  LET wide == [i \in DOMAIN x |-> x[i] \o eye(Len(x))[i]]
      y == FoldLeft(Eliminated, wide, [i \in DOMAIN x |-> i])
  IN  IF y = Singular THEN Singular
      ELSE ColSel(Substituted(y), [j \in DOMAIN x |-> Len(x) + j])
-----------------------------------------------------------------------------
Init == a \in [1 .. 3 -> Row]

Block(k) == [i \in 1 .. k |-> SubSeq(a[i], 1, k)]
Regular(m) ==
  \A x \in [1 .. Len(m) -> [{1} -> Scalar]] : Mul(m, x) = Zero(x) => x = Zero(x)

IsInverse(inv) == Mul(a, inv) = eye(3) /\ Mul(inv, a) = eye(3)

(* A pivot looked for along the row may be missed, and the row that comes to *)
(* its place may have a zero there, which is "inverted" and wipes the row     *)
(* out. Yet of any matrix, regular or not, a result is the inverse on both    *)
(* sides or shows that it is not, by a row of zeros; and one whose leading    *)
(* blocks are regular has a result, and no such row.                         *)
InverseExact ==
  LET inv == inverse(a)
  IN  /\ inv # Singular => (IsInverse(inv) <=> \A i \in 1 .. 3 : inv[i] # Zero(a)[i])
      /\ (\A k \in 1 .. 3 : Regular(Block(k))) => inv # Singular /\ IsInverse(inv)

(* A regular matrix has its inverse for a result, and another an error, as    *)
(* the comment before inverse (matrixZp.go:256) says. The code falls short.  *)
InverseOrError ==
  IF Regular(a) THEN inverse(a) # Singular /\ IsInverse(inverse(a)) ELSE inverse(a) = Singular
=============================================================================
