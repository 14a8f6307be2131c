------------------------------ MODULE PolicyDsl ------------------------------
(* The policy language of abe/cpabe/tkn20/internal/dsl: the recursive        *)
(* descent parser that makes wires and gates as it goes and pushes negations *)
(* down to the wires, and the numbering of the formula. A text is grown from *)
(* a syntax tree, so that its meaning is known, and one of its tokens may    *)
(* then be inserted, removed or replaced.                                    *)
(*                                                                           *)
(* A token "lit" stands for the three tokens of a literal, and "id" for an   *)
(* identifier that is not part of one. The token at the end is "eof".        *)
EXTENDS Integers, Sequences, SequencesExt, FiniteSets

CONSTANTS MaxTokens,     \* of a sentence
          MaxEdited      \* of a sentence that is edited

DslAssumption == MaxTokens \in Nat /\ MaxEdited \in Nat

VARIABLES tree,   \* of the text, or None after an edit
          text    \* tokens, without the one at the end

vars == <<tree, text>>

None == [none |-> TRUE]
Token == {"(", ")", "and", "or", "not", "lit", "id"}

Literal == [op |-> "lit"]
Unary(op, e) == [op |-> op, l |-> e]
Binary(op, l, r) == [op |-> op, l |-> l, r |-> r]
-----------------------------------------------------------------------------
\* Trees in which one literal is replaced by a literal that is negated, in parentheses, or a pair.
RECURSIVE Grown(_)
Grown(e) ==
  IF e.op = "lit"
  THEN {Unary("not", e), Unary("(", e), Binary("and", e, e), Binary("or", e, e)}
  ELSE IF e.op \in {"not", "("} THEN {[e EXCEPT !.l = x] : x \in Grown(e.l)}
  ELSE {[e EXCEPT !.l = x] : x \in Grown(e.l)} \cup {[e EXCEPT !.r = x] : x \in Grown(e.r)}

Level(e) == CASE e.op = "or" -> 1 [] e.op = "and" -> 2 [] e.op = "not" -> 3 [] OTHER -> 4

\* The sentence: "not" binds more than "and", and this more than "or"; both group to the left.
RECURSIVE Printed(_)
Printed(e) ==
  LET inside(x, level) == IF Level(x) < level THEN <<"(">> \o Printed(x) \o <<")">> ELSE Printed(x)
  IN  CASE e.op = "lit" -> <<"lit">>
        [] e.op = "(" -> <<"(">> \o Printed(e.l) \o <<")">>
        [] e.op = "not" -> <<"not">> \o inside(e.l, 3)
        [] OTHER -> inside(e.l, Level(e)) \o <<e.op>> \o inside(e.r, Level(e) + 1)

RECURSIVE Literals(_)
Literals(e) == IF e.op = "lit" THEN 1
               ELSE IF e.op \in {"not", "("} THEN Literals(e.l) ELSE Literals(e.l) + Literals(e.r)

\* The truth of a tree when the literals in true hold, counted from first on.
RECURSIVE Truth(_, _, _)
Truth(e, true, first) ==
  CASE e.op = "lit" -> first \in true
    [] e.op = "(" -> Truth(e.l, true, first)
    [] e.op = "not" -> ~Truth(e.l, true, first)
    [] e.op = "and" -> Truth(e.l, true, first) /\ Truth(e.r, true, first + Literals(e.l))
    [] e.op = "or" -> Truth(e.l, true, first) \/ Truth(e.r, true, first + Literals(e.l))
-----------------------------------------------------------------------------
Init == tree = Literal /\ text = <<"lit">>

Grow ==
  /\ tree # None
  /\ \E e \in Grown(tree) : Len(Printed(e)) <= MaxTokens /\ tree' = e /\ text' = Printed(e)

Edit ==
  /\ tree # None /\ Len(text) <= MaxEdited
  /\ \E i \in DOMAIN text, t \in Token :
       \/ text' = InsertAt(text, i, t)
       \/ text' = Append(text, t)
       \/ text' = ReplaceAt(text, i, t)
       \/ text' = RemoveAt(text, i)
  /\ tree' = None

Next == Grow \/ Edit

Spec == Init /\ [][Next]_vars
-----------------------------------------------------------------------------
(* The parser: curr is the token it is at, wires says of each literal if it  *)
(* is positive, negative is set inside an odd number of negations, and id is *)
(* the wire of the expression just read: from 0 on for a literal, -1 and     *)
(* down for a gate.                                                          *)
Tok(p) == IF p.curr > Len(text) THEN "eof" ELSE text[p.curr]
Advance(p) == [p EXCEPT !.curr = @ + 1]
Error(p) == [p EXCEPT !.error = TRUE]

\* A gate, which is the other one inside a negation.
Class(op, negative) == IF negative THEN (IF op = "and" THEN "or" ELSE "and") ELSE op
WithGate(p, op, in1) ==
  [p EXCEPT !.gates = Append(@, [op |-> Class(op, p.negative), in1 |-> in1, in2 |-> p.id,
                                 out |-> -(Len(p.gates) + 1)]),
            !.id = -(Len(p.gates) + 1)]

BugFlipped(wires, old) ==   \* slip: all wires so far
  [i \in DOMAIN wires |-> ~wires[i]]

\* The wires that a negation has read are flipped: those that were not there before.
Flipped(wires, old) == [i \in DOMAIN wires |-> IF i > old THEN ~wires[i] ELSE wires[i]]

RECURSIVE or(_), orMore(_), and(_), andMore(_), not(_), primary(_)

or(p) == orMore(and(p))
orMore(p) ==
  IF p.error \/ Tok(p) # "or" THEN p
  ELSE LET right == and(Advance(p))
       IN  IF right.error THEN right ELSE orMore(WithGate(right, "or", p.id))

and(p) == andMore(not(p))
andMore(p) ==
  IF p.error \/ Tok(p) # "and" THEN p
  ELSE LET right == not(Advance(p))
       IN  IF right.error THEN right ELSE andMore(WithGate(right, "and", p.id))

not(p) ==
  IF Tok(p) # "not" THEN primary(p)
  ELSE LET right == not([Advance(p) EXCEPT !.negative = ~@])
       IN  IF right.error THEN right
           ELSE [right EXCEPT !.negative = p.negative, !.wires = Flipped(@, Len(p.wires))]

primary(p) ==
  CASE Tok(p) = "(" ->
         LET inner == or(Advance(p))
         IN  IF inner.error THEN inner
             ELSE IF Tok(inner) = ")" THEN Advance(inner) ELSE Error(inner)
    [] Tok(p) = "lit" ->
         IF Tok(Advance(p)) \in {"id", "lit", "(", "not"} THEN Error(p)
         ELSE [Advance(p) EXCEPT !.id = Len(p.wires), !.wires = Append(@, TRUE)]
    [] OTHER -> Error(p)

(* parse: one expression. What follows it is not looked at.                  *)
Parsed == or([curr |-> 1, wires |-> <<>>, gates |-> <<>>, negative |-> FALSE,
              id |-> 0, error |-> FALSE])

\* The gates of the formula, in which inner wires are numbered after the inputs.
transformGates(gates) ==
  LET wireID(id) == IF id < 0 THEN -id + Len(gates) ELSE id
  IN  [i \in DOMAIN gates |-> [Class |-> gates[i].op, In0 |-> wireID(gates[i].in1),
                               In1 |-> wireID(gates[i].in2), Out |-> wireID(gates[i].out)]]

Gates == transformGates(Parsed.gates)

F == INSTANCE PolicyFormula WITH Modulus <- 2, MaxGates <- 0, Given <- {}
-----------------------------------------------------------------------------
(* A sentence is accepted, and its formula, which has no negations, says of  *)
(* the wires what the sentence says of its literals. Whatever else is        *)
(* accepted, its formula is one that share and satisfaction do not refuse,   *)
(* with one input for each wire.                                             *)
MeansWhatIsWritten ==
  LET p == Parsed
      gates == Gates
      matching(true) == {i \in 0 .. Len(p.wires) - 1 : p.wires[i + 1] = (i \in true)}
  IN  /\ ~p.error => F!Accepted(gates) /\ Len(p.wires) = Len(gates) + 1
      /\ tree # None =>
           /\ ~p.error /\ Len(p.wires) = Literals(tree)
           /\ \A true \in SUBSET (0 .. Literals(tree) - 1) :
                F!Holds(gates, matching(true)) = Truth(tree, true, 0)

(* Nothing but a sentence is accepted: after an expression the parser expects *)
(* a logical operator, the parenthesis that closes it, or the end.           *)
WholeTextParsed == ~Parsed.error => Tok(Parsed) = "eof"
=============================================================================
