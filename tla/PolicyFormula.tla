---------------------------- MODULE PolicyFormula ----------------------------
(* The monotone formulas of abe/cpabe/tkn20: the checks and the sorting that *)
(* a formula goes through before each use, which replaces its gates; the     *)
(* choice of a satisfying set of wires; the shares of a secret for each      *)
(* wire; and the gate that the Boneh-Katz transform adds. A formula comes    *)
(* from the parser or from bytes: any gates at all.                          *)
(*                                                                           *)
(* A matrix of shares is one residue: the operations are entry by entry.     *)
(* Gates that are neither "and" nor "or" are left out: satisfaction refuses  *)
(* them, and the parser makes none.                                          *)
EXTENDS Integers, Sequences, SequencesExt

CONSTANTS Modulus,   \* of the shares
          MaxGates,  \* of a formula that is given
          Given      \* larger formulas that are given

FormulaAssumption == Modulus \in Nat \ {0, 1} /\ MaxGates \in Nat

VARIABLE Gates
vars == <<Gates>>

n == Len(Gates)
Residue == 0 .. Modulus - 1

\* Wires up to m are inputs of m gates, 2 m is the output; one wire more than there is on each side.
Gate(m) == [Class : {"and", "or"}, In0 : 0 .. 2 * m, In1 : 0 .. 2 * m, Out : m .. 2 * m]

Init == \/ \E m \in 0 .. MaxGates : Gates \in [1 .. m -> Gate(m)]
        \/ Gates \in Given
-----------------------------------------------------------------------------
BugWellformed(g) ==   \* slip: only outputs are looked at
  {g[i].Out : i \in DOMAIN g} = Len(g) + 1 .. 2 * Len(g)

\* Every wire but the output is used once, and every wire but the inputs is set.
wellformed(g) ==
  LET ins == [i \in 1 .. 2 * Len(g) |->
                IF i % 2 = 1 THEN g[(i + 1) \div 2].In0 ELSE g[i \div 2].In1]
  IN  /\ Range(ins) = 0 .. 2 * Len(g) - 1
      /\ {g[i].Out : i \in DOMAIN g} = Len(g) + 1 .. 2 * Len(g)

(* toposort: a queue of the gates whose inputs are all set, in the order in  *)
(* which that happens. What comes out is shorter when there is a loop.       *)
Reordered(g) ==
  LET inner(i) == {w \in {g[i].In0, g[i].In1} : w > Len(g)}
      start == [queue |-> SelectSeq([i \in DOMAIN g |-> i], LAMBDA i : inner(i) = {}),
                set |-> {}, out |-> <<>>]
      user(w) == {i \in DOMAIN g : w \in inner(i)}
      turn(s) ==
        LET i == Head(s.queue)
            set == s.set \cup {g[i].Out}
        IN  [queue |-> Tail(s.queue) \o
                         SetToSeq({j \in user(g[i].Out) : inner(j) \subseteq set}),
             set |-> set, out |-> Append(s.out, g[i])]
  IN  FoldLeft(LAMBDA s, i : IF s.queue = <<>> THEN s ELSE turn(s), start, g).out

Accepted(g) == wellformed(g) /\ Len(Reordered(g)) = Len(g)

toposort == /\ Accepted(Gates) /\ Gates' = Reordered(Gates)
-----------------------------------------------------------------------------
unset == <<-1>>   \* the assignment of a wire that is not set

Shorter(x, y) ==
  IF x = unset \/ y = unset THEN IF x = unset THEN y ELSE x
  ELSE IF Len(y) < Len(x) THEN y ELSE x

Joined(x, y) == IF x = unset \/ y = unset THEN unset ELSE x \o y

(* satisfaction, after toposort: to each wire the inputs that are needed for *)
(* it, or unset.                                                            *)
satisfaction(g, available) ==
  FoldLeft(LAMBDA a, gate :
             [a EXCEPT ![gate.Out] = IF gate.Class = "and"
                                     THEN Joined(a[gate.In0], a[gate.In1])
                                     ELSE Shorter(a[gate.In0], a[gate.In1])],
           [w \in 0 .. 2 * Len(g) |-> IF w \in available THEN <<w>> ELSE unset],
           g)[2 * Len(g)]

BugAndShares(k, r) == <<k, 0>>   \* slip: one side has the whole share

AndShares(k, r) == <<r, (k - r) % Modulus>>

\* share, after toposort: r is what the random source gives for each gate.
share(g, k, r) ==
  LET shares ==
        FoldRight(LAMBDA i, s :
                    LET k0 == s[g[i].Out]
                        two == IF g[i].Class = "and" THEN AndShares(k0, r[i]) ELSE <<k0, k0>>
                    IN  [s EXCEPT ![g[i].In0] = two[1], ![g[i].In1] = two[2]],
                  [i \in DOMAIN g |-> i], [w \in 0 .. 2 * Len(g) |-> k])
  IN  [w \in 0 .. Len(g) |-> shares[w]]

\* A gate that needs the old output and a new input, whose number is that of the first inner wire.
InsertedAnd(g) ==
  LET m == Len(g)
      newInput(in) == IF in > m THEN in + 1 ELSE in
  IN  [i \in 1 .. m |-> [Class |-> g[i].Class, In0 |-> newInput(g[i].In0),
                         In1 |-> newInput(g[i].In1), Out |-> g[i].Out + 1]]
      \o <<[Class |-> "and", In0 |-> IF m = 0 THEN m ELSE m + 1,
            In1 |-> 2 * m + 1, Out |-> 2 * m + 2]>>

\* transformBK, in Encrypt and Decrypt.
insertAnd == n <= MaxGates /\ Gates' = InsertedAnd(Gates)

Next == toposort \/ insertAnd

Spec == Init /\ [][Next]_vars
-----------------------------------------------------------------------------
\* The meaning of a formula: the least set of wires that holds what is available and is closed.
Holds(g, available) ==
  LET step(s) == s \cup {g[i].Out : i \in {j \in DOMAIN g :
                           IF g[j].Class = "and" THEN {g[j].In0, g[j].In1} \subseteq s
                           ELSE {g[j].In0, g[j].In1} \cap s # {}}}
  IN  2 * Len(g) \in FoldLeft(LAMBDA s, i : step(s), available, g)

Before(g, i, j) == g[i].Out \in {g[j].In0, g[j].In1}
Loop(g) ==
  \E s \in SUBSET DOMAIN g : s # {} /\ \A j \in s : \E i \in s : Before(g, i, j)

\* The new input and the old output are both needed, and no other wire changes its part.
Conjunction(g) ==
  \A available \in SUBSET (0 .. Len(g) + 1) :
    Holds(InsertedAnd(g), available) =
      LET new == IF Len(g) = 0 THEN 1 ELSE Len(g) + 1
      IN  Holds(g, available \ {new}) /\ new \in available

(* Of formulas with the right wires toposort refuses those with a loop, and  *)
(* sorts the others. What satisfaction and share make is the meaning: wires  *)
(* that are enough, and none that could be spared, exactly when there are    *)
(* such; their shares sum up to the secret; and the shares of wires that are *)
(* not enough are the same for every secret. The transform adds a condition. *)
SharesMeanFormula ==
  IF ~Accepted(Gates) THEN wellformed(Gates) => Loop(Gates)
  ELSE
    LET g == Reordered(Gates)
        Random == [DOMAIN g -> Residue]
        shares == [k \in Residue |-> {share(g, k, r) : r \in Random}]
        views(available, k) == {[w \in available |-> s[w]] : s \in shares[k]}
    IN  /\ ~Loop(Gates) /\ IsInjective(g) /\ Range(g) = Range(Gates)
        /\ \A i, j \in DOMAIN g : Before(g, i, j) => i < j
        /\ Conjunction(Gates) /\ Accepted(InsertedAnd(Gates))
        /\ \A available \in SUBSET (0 .. n) :
             LET found == satisfaction(g, available)
             IN  IF Holds(Gates, available)
                 THEN /\ IsInjective(found) /\ Range(found) \subseteq available
                      /\ Holds(Gates, Range(found))
                      /\ \A w \in Range(found) : ~Holds(Gates, Range(found) \ {w})
                      /\ \A k \in Residue : \A s \in shares[k] :
                           FoldLeft(LAMBDA sum, w : sum + s[w], 0, found) % Modulus = k
                 ELSE /\ found = unset
                      /\ \A k \in Residue : views(available, k) = views(available, 0)
=============================================================================
