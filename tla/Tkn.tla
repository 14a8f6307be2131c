-------------------------------- MODULE Tkn --------------------------------
(* The scheme of abe/cpabe/tkn20: Setup, KeyGen, Encrypt, Decrypt and        *)
(* CouldDecrypt, with the Boneh-Katz transform, which makes a condition of   *)
(* the policy from the hash of a seed, under which the ciphertext is         *)
(* authenticated too. Ciphertexts are also put together from parts of others.*)
(*                                                                           *)
(* A group element is its logarithm and a pairing their product. The cipher, *)
(* its code and the hash of the seed are ideal: an envelope opened with a    *)
(* wrong point gives a seed that nobody drew. Random(n, i, j) is the entry   *)
(* of the n-th matrix that is drawn, or that a hash gives.                   *)
EXTENDS Integers, Sequences, SequencesExt, FiniteSets, FiniteSetsExt

CONSTANTS Order,          \* of the groups
          Random(_, _, _),
          Labels,         \* of attributes: numbers below 20
          AttributeSets,  \* that keys are made for: functions of some labels
          Policies,       \* that are encrypted under
          Messages,
          MaxSealed       \* bound: ciphertexts that are made

bkAttribute == 20   \* a label that no attribute of a user has
AttributeOf(wild, value) == [wild |-> wild, Value |-> value]
Wire(label, value, positive) == [Label |-> label, Value |-> value, Positive |-> positive]

VARIABLES params,   \* of two Setups: the public and the secret ones
          key,      \* of a user: [of: whose Setup, a, k1, k2, k3, k3wild]
          sealed,   \* history: what was encrypted, under the first Setup
          ct        \* the ciphertext that arrives, or None
vars == <<params, key, sealed, ct>>

M == INSTANCE MatrixZp WITH Row <- {}, a <- <<>>
F == INSTANCE PolicyFormula WITH Modulus <- Order, MaxGates <- 0, Given <- {}, Gates <- <<>>

None == <<>>
Error == <<>>   \* or a sequence of one value
TknAssumption ==
  /\ Order \in Nat \ {0, 1} /\ MaxSealed \in Nat
  /\ \A n \in 0 .. 199 : \A i, j \in 1 .. 4 : Random(n, i, j) \in M!Scalar
  /\ bkAttribute \notin Labels
  /\ \A p \in Policies : F!Accepted(p.F) /\ Len(p.Inputs) = Len(p.F) + 1
-----------------------------------------------------------------------------
Drawn(n, rows, cols) == [i \in 1 .. rows |-> [j \in 1 .. cols |-> Random(n, i, j)]]

GenerateParams(of) ==
  LET A == <<<<Random(of, 1, 1), 0>>, <<0, Random(of, 2, 2)>>, <<1, 1>>>>   \* sampleDlin
      Bbar == Drawn(of + 1, 4, 4)
      W == Drawn(of + 2, 3, 4)
      k == Drawn(of + 3, 4, 1)
      B == M!ColSel(Bbar, <<1, 2>>)
      BbarTinv == M!inverse(M!Transpose(Bbar))
  IN  [b2 |-> B, wb1 |-> M!Mul(W, B), btk |-> M!Mul(M!Transpose(B), k),
       a |-> A, wtA |-> M!Mul(M!Transpose(W), A), k |-> k,
       bstar |-> M!ColSel(BbarTinv, <<1, 2>>), bstar12 |-> M!ColSel(BbarTinv, <<3, 4>>)]

Oracle(label) == [U0 |-> Drawn(100 + label, 3, 2), U1 |-> Drawn(121 + label, 3, 2)]
prf(of, label) == [V0 |-> Drawn(142 + of + label, 3, 2), V1 |-> Drawn(170 + of + label, 3, 2)]

\* value U0 + U1, and value V0 + V1.
Line(value, m0, m1) == M!Add(M!ScalarMul(value, m0), m1)

\* The part of a key for U and V: bstar U^t A s + bstar12 V^t A s.
KeyPart(sp, As, u, v) ==
  M!Add(M!Mul(M!Mul(sp.bstar, M!Transpose(u)), As),
        M!Mul(M!Mul(sp.bstar12, M!Transpose(v)), As))

\* Of a wild attribute k3 is the factor of the value and k3wild the constant term.
deriveAttributeKeys(of, attrs) ==
  LET sp == params[of]
      s == Drawn(of + 4, 2, 1)
      As == M!Mul(sp.a, s)
      U(l) == Oracle(l)
      V(l) == prf(of, l)
  IN  [of |-> of, a |-> attrs, k1 |-> As, k2 |-> M!Add(M!Mul(sp.wtA, s), sp.k),
       k3 |-> [l \in DOMAIN attrs |->
                 IF attrs[l].wild THEN KeyPart(sp, As, U(l).U0, V(l).V0)
                 ELSE KeyPart(sp, As, Line(attrs[l].Value, U(l).U0, U(l).U1),
                              Line(attrs[l].Value, V(l).V0, V(l).V1))],
       k3wild |-> [l \in {x \in DOMAIN attrs : attrs[x].wild} |->
                     KeyPart(sp, As, U(l).U1, V(l).V1)]]
-----------------------------------------------------------------------------
\* Wires are counted from zero, as in a formula; so are the occurrences of a label.
In(policy, w) == policy.Inputs[w + 1]
Wires(policy) == 0 .. Len(policy.Inputs) - 1
pi(policy, w) == Cardinality({v \in 0 .. w - 1 : In(policy, v).Label = In(policy, w).Label})

\* The matches of Policy.Satisfaction.
Matches(policy, a) ==
  {w \in Wires(policy) :
     LET wire == In(policy, w)
     IN  /\ wire.Label \in DOMAIN a
         /\ a[wire.Label].wild \/ wire.Positive = (wire.Value = a[wire.Label].Value)}

Satisfaction(policy, a) ==
  IF F!Accepted(policy.F) THEN F!satisfaction(F!Reordered(policy.F), Matches(policy, a))
  ELSE F!unset

\* A column is shared entry by entry.
share(gates, r, n) ==
  LET part(e) == F!share(gates, r[e][1], [i \in DOMAIN gates |-> Random(n, i, e)])
  IN  [w \in 0 .. Len(gates) |-> <<<<part(1)[w]>>, <<part(2)[w]>>>>]

encapsulate(n, pp, policy) ==
  LET r == Drawn(n, 2, 1)
      ri(i) == Drawn(n + 1 + i, 2, 1)
      rshares == share(F!Reordered(policy.F), r, n + 9)
      own(w, u) == M!Mul(u, ri(pi(policy, w)))
      U(w) == Oracle(In(policy, w).Label)
      value(w) == In(policy, w).Value
      wshares(w) == M!Mul(pp.wb1, rshares[w])
  IN  [point |-> M!Mul(M!Transpose(r), pp.btk)[1][1],
       header |->
         [p |-> policy, c1 |-> M!Mul(pp.b2, r),
          c2 |-> [i \in {pi(policy, w) : w \in Wires(policy)} |-> M!Mul(pp.b2, ri(i))],
          c3 |-> [w \in Wires(policy) |->
                    IF In(policy, w).Positive
                    THEN M!Add(own(w, Line(value(w), U(w).U0, U(w).U1)), wshares(w))
                    ELSE M!Sub(own(w, U(w).U0), wshares(w))],
          c3neg |-> [w \in {x \in Wires(policy) : ~In(policy, x).Positive} |->
                       M!Add(own(w, U(w).U1), M!ScalarMul(value(w), wshares(w)))]]]

BugWildValue(value) == value   \* slip: a wild attribute of a negated wire takes the value that is excluded

\* The value that a wild attribute takes for a negated wire.
WildValue(value) == (value + 1) % Order

\* What a match adds to p1 and to p2.
Added(header, k, w) ==
  LET wire == In(header.p, w)
      l == wire.Label
      wild == k.a[l].wild
      y == IF wire.Positive THEN wire.Value
           ELSE IF wild THEN WildValue(wire.Value) ELSE k.a[l].Value
      keymat == IF wild THEN Line(y, k.k3[l], k.k3wild[l]) ELSE k.k3[l]
      diff == M!Inv((wire.Value - y) % Order)
  IN  IF wire.Positive THEN [p1 |-> header.c3[w], p2 |-> keymat]
      ELSE [p1 |-> M!ScalarMul(diff, Line(y, header.c3[w], header.c3neg[w])),
            p2 |-> M!ScalarMul(diff, keymat)]

\* A product of pairings.
Pairs(x, y) == M!Mul(M!Transpose(x), y)[1][1]

decapsulate(header, k) ==
  LET sat == Satisfaction(header.p, k.a)
      add(sum, w) ==
        LET m == Added(header, k, w)
        IN  sum + Pairs(m.p2, header.c2[pi(header.p, w)]) - Pairs(m.p1, k.k1)
  IN  IF sat = F!unset THEN Error
      ELSE <<FoldLeft(add, Pairs(k.k2, header.c1), sat) % Order>>
-----------------------------------------------------------------------------
\* expandSeed; no id is that of the seed that a wrong point gives.
Garbage == 0
IdOf(seed) == Random(seed, 4, 4)
MacOf(seed, C1, env) == <<seed, C1, env>>

transformBK(policy, id) ==
  [Inputs |-> Append(policy.Inputs, Wire(bkAttribute, id, TRUE)), F |-> F!InsertedAnd(policy.F)]

transformAttrsBK(attrs) ==
  [l \in DOMAIN attrs \cup {bkAttribute} |->
     IF l = bkAttribute THEN AttributeOf(TRUE, 0) ELSE attrs[l]]

\* The header is sent with the policy that was asked for: the id is checked.
EncryptCCA(seed, pp, policy, msg) ==
  LET e == encapsulate(seed, pp, transformBK(policy, IdOf(seed)))
      C1 == [e.header EXCEPT !.p = policy]
      env == [point |-> e.point, seed |-> seed, msg |-> msg]
  IN  [id |-> IdOf(seed), C1 |-> C1, env |-> env, tag |-> MacOf(seed, C1, env)]

Transformed(c) == [c.C1 EXCEPT !.p = transformBK(@, c.id)]

DecryptCCA(c, k) ==
  LET point == decapsulate(Transformed(c), k)
      seed == IF point = <<c.env.point>> THEN c.env.seed ELSE Garbage
  IN  IF /\ point # Error /\ seed # Garbage
         /\ MacOf(seed, c.C1, c.env) = c.tag /\ IdOf(seed) = c.id
      THEN <<c.env.msg>> ELSE Error

CouldDecrypt(c, attrs) ==
  Satisfaction(Transformed(c).p, transformAttrsBK(attrs)) # F!unset
-----------------------------------------------------------------------------
Init == /\ params = [of \in {10, 20} |-> GenerateParams(of)]
        /\ key = None /\ sealed = <<>> /\ ct = None

KeyGen(of, attrs) ==
  /\ key = None
  /\ key' = deriveAttributeKeys(of, transformAttrsBK(attrs))
  /\ UNCHANGED <<params, sealed, ct>>

Encrypt(policy, msg) ==
  /\ key # None /\ Len(sealed) < MaxSealed
  /\ ct' = EncryptCCA(40 + 20 * Len(sealed), params[10], policy, msg)
  /\ sealed' = Append(sealed, ct')
  /\ UNCHANGED <<params, key>>

\* A ciphertext arrives that has some part from another one. A policy comes only to a header
\* with as many wires, of the same signs: its matrices would be missing.
Shape(p) == [w \in Wires(p) |-> In(p, w).Positive]
Spliced(c, x) ==
  {[c EXCEPT ![f] = x[f]] : f \in DOMAIN c}
    \cup {[c EXCEPT !.C1[f] = x.C1[f]] :
            f \in {"c1"} \cup {g \in {"p"} : Shape(c.C1.p) = Shape(x.C1.p)}}

Splice == /\ \E c, x \in Range(sealed) : ct' \in Spliced(c, x)
          /\ UNCHANGED <<params, key, sealed>>

Next == \/ \E of \in {10, 20}, attrs \in AttributeSets : KeyGen(of, attrs)
        \/ \E policy \in Policies, msg \in Messages : Encrypt(policy, msg)
        \/ Splice

Spec == Init /\ [][Next]_vars
-----------------------------------------------------------------------------
\* What a policy means for attributes, read from its output wire.
Meant(policy, a) ==
  LET true(w) == LET wire == In(policy, w)
                 IN  /\ wire.Label \in DOMAIN a
                     /\ \/ a[wire.Label].wild
                        \/ wire.Positive /\ wire.Value = a[wire.Label].Value
                        \/ ~wire.Positive /\ wire.Value # a[wire.Label].Value
  IN  F!Holds(policy.F, {w \in Wires(policy) : true(w)})

(* A key opens a ciphertext exactly when it was made so as it is, under the  *)
(* key's Setup, and the attributes satisfy the policy; otherwise Decrypt     *)
(* returns an error. CouldDecrypt says which keys can.                       *)
OpensWhatItMay ==
  (key # None /\ ct # None) =>
    LET mine == [l \in DOMAIN key.a \ {bkAttribute} |-> key.a[l]]
        may == Meant(ct.C1.p, mine)
    IN  /\ DecryptCCA(ct, key) =
             IF key.of = 10 /\ ct \in Range(sealed) /\ may THEN <<ct.env.msg>> ELSE Error
        /\ CouldDecrypt(ct, mine) = may
=============================================================================
