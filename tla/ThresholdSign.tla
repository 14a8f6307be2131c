---------------------------- MODULE ThresholdSign ----------------------------
(***************************************************************************)
(* Sign of tss/rsa, taken apart: x^(2 delta si) by blinding is             *)
(* x^(2 delta si + r) times the inverse of x^r, and the first factor may   *)
(* be computed by a goroutine of its own while the caller computes the     *)
(* second.  A caller that finds no inverse returns without waiting, and    *)
(* the goroutine runs on.                                                  *)
(*                                                                         *)
(* 2 delta si is computed at the first use of a KeyShare and kept in it.   *)
(* The code does not synchronise that first use: here, as in a program     *)
(* without data races, it is not concurrent with another of that KeyShare. *)
(***************************************************************************)
EXTENDS RsaNumbers

CONSTANTS
  Call,     \* the goroutines that call Sign
  players,  \* number of players
  si,       \* the secret of each KeyShare
  Digest,   \* padded digests
  Rand      \* what the random source may give

ASSUME SignAssumption == /\ players \in Nat \ {0} /\ \A i \in DOMAIN si : si[i] \in 0 .. m - 1
                         /\ Digest \subseteq 0 .. N - 1 /\ Rand \subseteq 0 .. N - 1

VARIABLES
  twoDeltaSi,  \* the cached value of each KeyShare, nil before its first use
  call         \* the last call of Sign of each caller, running or returned

vars == <<twoDeltaSi, call>>

Idle == [pc |-> "idle", i |-> nil, x |-> nil, r |-> nil, expPlusr |-> nil,
         wg |-> 0, worker |-> "none", xi |-> nil, inverse |-> nil]
-----------------------------------------------------------------------------
get2DeltaSi(i) == IF twoDeltaSi[i] # nil THEN twoDeltaSi[i]
                  ELSE 2 * calculateDelta(players) * si[i]

Init == twoDeltaSi = [i \in DOMAIN si |-> nil] /\ call = [c \in Call |-> Idle]

\* A caller has done with its last call, and so has the goroutine of it.
Free(c) == call[c].pc \in {"idle", "returned", "failed"} /\ call[c].worker = "none"

\* Without a random source there is no blinding.
SignPlain(c, i, x) ==
  /\ Free(c)
  /\ twoDeltaSi' = [twoDeltaSi EXCEPT ![i] = get2DeltaSi(i)]
  /\ call' = [call EXCEPT ![c] = [Idle EXCEPT !.pc = "returned", !.i = i, !.x = x,
                                              !.xi = Power(x, get2DeltaSi(i))]]

\* The random source fails.
SignNoRandom(c, i) ==
  /\ Free(c)
  /\ twoDeltaSi' = [twoDeltaSi EXCEPT ![i] = get2DeltaSi(i)]
  /\ call' = [call EXCEPT ![c] = [Idle EXCEPT !.pc = "failed"]]

BugSignBlindAdd(c, i, x, r, parallel) ==   \* slip: wg.Add(1) whether parallel or not
  LET exp == get2DeltaSi(i)
  IN  /\ Free(c)
      /\ twoDeltaSi' = [twoDeltaSi EXCEPT ![i] = exp]
      /\ call' = [call EXCEPT ![c] =
           [Idle EXCEPT !.pc = "invert", !.i = i, !.x = x, !.r = r, !.expPlusr = exp + r,
                        !.wg = 1, !.worker = IF parallel THEN "raise" ELSE "none",
                        !.xi = IF parallel THEN 0 ELSE Power(x, exp + r)]]

\* Blinding begins: x^(exp + r) is computed here, or left to a goroutine.
SignBlind(c, i, x, r, parallel) ==
  LET exp == get2DeltaSi(i)
  IN  /\ Free(c)
      /\ twoDeltaSi' = [twoDeltaSi EXCEPT ![i] = exp]
      /\ call' = [call EXCEPT ![c] =
           [Idle EXCEPT !.pc = "invert", !.i = i, !.x = x, !.r = r, !.expPlusr = exp + r,
                        !.wg = IF parallel THEN 1 ELSE 0,
                        !.worker = IF parallel THEN "raise" ELSE "none",
                        !.xi = IF parallel THEN 0 ELSE Power(x, exp + r)]]

\* The goroutine: x^(exp + r), then wg.Done.
Raise(c) == /\ call[c].worker = "raise"
            /\ call' = [call EXCEPT ![c].xi = Power(call[c].x, call[c].expPlusr),
                                    ![c].worker = "done"]
            /\ UNCHANGED twoDeltaSi

Done(c) == /\ call[c].worker = "done"
           /\ call' = [call EXCEPT ![c].wg = @ - 1, ![c].worker = "none"]
           /\ UNCHANGED twoDeltaSi

\* x^(-r): there may be none.
Invert(c) ==
  LET inverse == ModInverse(Power(call[c].x, call[c].r), N)
  IN  /\ call[c].pc = "invert"
      /\ call' = [call EXCEPT ![c].pc = IF inverse = nil THEN "failed" ELSE "join",
                              ![c].inverse = inverse]
      /\ UNCHANGED twoDeltaSi

BugJoin(c) == /\ call[c].pc = "join"   \* slip: wg.Wait is forgotten
              /\ call' = [call EXCEPT ![c].pc = "returned",
                                      ![c].xi = (@ * call[c].inverse) % N]
              /\ UNCHANGED twoDeltaSi

\* wg.Wait, and the product of the two factors.
Join(c) == /\ call[c].pc = "join" /\ call[c].wg = 0
           /\ call' = [call EXCEPT ![c].pc = "returned",
                                   ![c].xi = (@ * call[c].inverse) % N]
           /\ UNCHANGED twoDeltaSi

Next == \E c \in Call :
          \/ \E i \in DOMAIN si, x \in Digest : SignPlain(c, i, x)
          \/ \E i \in DOMAIN si : SignNoRandom(c, i)
          \/ \E i \in DOMAIN si, x \in Digest, r \in Rand, parallel \in BOOLEAN :
               SignBlind(c, i, x, r, parallel)
          \/ Raise(c) \/ Done(c) \/ Invert(c) \/ Join(c)

\* The runtime runs every goroutine that can run; nobody has to call Sign.
Fairness == \A c \in Call : WF_vars(Invert(c) \/ Join(c)) /\ WF_vars(Raise(c) \/ Done(c))

Spec == Init /\ [][Next]_vars /\ Fairness
-----------------------------------------------------------------------------
\* The share returned is the one the combiner computes with, blinded or not, and
\* whichever goroutine was first; and there is one, unless the digest has a factor
\* of the modulus or the random source failed.
ShareCorrect ==
  \A c \in Call :
    /\ call[c].pc = "returned"
         => call[c].xi = Power(call[c].x, 2 * calculateDelta(players) * si[call[c].i])
    /\ call[c].pc = "failed" => call[c].x = nil \/ ModInverse(call[c].x, N) = nil

\* A call of Sign returns: nothing waits for a goroutine that was not started or
\* that never finishes.
SignReturns ==
  \A c \in Call : call[c].pc \in {"invert", "join"} ~> call[c].pc \in {"returned", "failed"}
=============================================================================
