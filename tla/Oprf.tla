-------------------------------- MODULE Oprf --------------------------------
(* The oblivious pseudorandom functions of oprf in their three modes, with   *)
(* the batched proofs of zk/dleq: a client that blinds batches, a server     *)
(* whose key object may be filled again, and one answer of the server, which *)
(* may come after the client blinded another batch, took another public key  *)
(* or asks with other information, and whose elements may be reordered or    *)
(* cut.                                                                      *)
(*                                                                           *)
(* A group element is its logarithm modulo GroupOrder. The hash of the       *)
(* output is free, and a proof is ideal: it says what was hashed to make it. *)
(* Oprf is in the names that other modules of the same run also have.        *)
EXTENDS Integers, Sequences, SequencesExt

CONSTANTS GroupOrder,    \* a prime
          Input, Info,
          HashToElement, \* of an input: 0 is the identity
          HashToScalar,  \* of an information
          Blinds, Keys,  \* scalars: a blind may be zero, a key is drawn again
          Batches        \* sequences of inputs

OprfAssumption ==
  /\ GroupOrder \in Nat \ {0, 1, 2}
  /\ \A x \in 1 .. GroupOrder - 1 : \E y \in 1 .. GroupOrder - 1 : (x * y) % GroupOrder = 1
  /\ HashToElement \in [Input -> 0 .. GroupOrder - 1]
  /\ HashToScalar \in [Info -> 0 .. GroupOrder - 1]
  /\ Blinds \subseteq 0 .. GroupOrder - 1 /\ Keys \subseteq 1 .. GroupOrder - 1
  /\ Batches \subseteq Seq(Input) \ {<<>>}

VARIABLES oprfMode,
          serverKey,   \* the PrivateKey object of the server: [k, pub, ok], pub is 0 before Public
          pkS,   \* the public key that the client has, or 0
          fin,   \* FinalizeData: [inputs, blinds, request], or OprfNone
          eval   \* the answer of the server: [elements, proof], or OprfNone

oprfVars == <<oprfMode, serverKey, pkS, fin, eval>>

OprfNone == [none |-> TRUE]
OprfModes == {"base", "verifiable", "partial"}

Times(elements, k) == [i \in DOMAIN elements |-> (elements[i] * k) % GroupOrder]
\* The groups leave zero as the inverse of zero.
Inv(x) == IF x = 0 THEN 0 ELSE CHOOSE y \in 1 .. GroupOrder - 1 : (x * y) % GroupOrder = 1
-----------------------------------------------------------------------------
(* A proof for the batches b and kb, with ka hashed: the verifier finds the  *)
(* same challenge only if it hashes the same, the prover's ka is that of k,  *)
(* and the weighted sums of the b, of the kb and of k b agree.               *)
Proof(k, ka, b, kb) == [k |-> k, ka |-> ka, b |-> b, kb |-> kb]

(* What counts in the sums: a weight depends on the index and the pair there, *)
(* so the sums agree term by term, and a pair of identities adds nothing.    *)
Weighed(b, kb) == {<<i, b[i], kb[i]>> : i \in {j \in DOMAIN b : b[j] # 0 \/ kb[j] # 0}}

BugVerifyBatch(ka, b, kb, p) ==   \* slip: all weights are one
  LET sum(s) == FoldLeft(+, 0, s) % GroupOrder
  IN  /\ ka = p.ka /\ ka = p.k /\ sum(b) = sum(p.b) /\ sum(kb) = sum(Times(b, p.k))

VerifyBatch(ka, b, kb, p) ==
  /\ ka = p.ka /\ ka = p.k
  /\ Weighed(b, kb) = Weighed(p.b, p.kb) /\ kb = Times(b, p.k)
-----------------------------------------------------------------------------
OprfInit ==
  /\ oprfMode \in OprfModes
  /\ \E k \in Keys : serverKey = [k |-> k, pub |-> 0, ok |-> TRUE]
  /\ pkS = 0 /\ fin = OprfNone /\ eval = OprfNone

\* GenerateKey and DeriveKey: a new object, and a server that holds it.
NewKey(k) ==
  /\ serverKey' = [k |-> k, pub |-> 0, ok |-> TRUE]
  /\ UNCHANGED <<oprfMode, pkS, fin, eval>>

\* PrivateKey.UnmarshalBinary: the cached public key stays, and a zero key is kept on the error.
UnmarshalKey(k) ==
  /\ serverKey' = [serverKey EXCEPT !.k = k, !.ok = k # 0]
  /\ UNCHANGED <<oprfMode, pkS, fin, eval>>

\* Public, after which the client has what is cached.
Cached(kk) == [kk EXCEPT !.pub = IF @ = 0 THEN kk.k ELSE @]
OprfPublic ==
  /\ serverKey.ok /\ serverKey' = Cached(serverKey) /\ pkS' = serverKey'.pub
  /\ UNCHANGED <<oprfMode, fin, eval>>

\* An input that hashes to the identity is an error.
OprfBlind(inputs, blinds) ==
  /\ \A i \in DOMAIN inputs : HashToElement[inputs[i]] # 0
  /\ fin' = [inputs |-> inputs, blinds |-> blinds,
             request |-> [i \in DOMAIN inputs |->
                            (HashToElement[inputs[i]] * blinds[i]) % GroupOrder]]
  /\ UNCHANGED <<oprfMode, serverKey, pkS, eval>>

\* secretFromInfo and pointFromInfo: 0 is an error.
Tweaked(k, info) == (k + HashToScalar[info]) % GroupOrder

(* Evaluate in the three modes. The verifiable one takes the public key from *)
(* the cache; in the partially oblivious one the roles of the batches are    *)
(* exchanged, and the cache is not used.                                     *)
Evaluate(info) ==
  /\ fin # OprfNone /\ serverKey.ok
  /\ LET t == Tweaked(serverKey.k, info)
         by(k) == Times(fin.request, k)
     IN  \/ /\ oprfMode = "base"
            /\ eval' = [elements |-> by(serverKey.k), proof |-> OprfNone]
            /\ UNCHANGED serverKey
         \/ /\ oprfMode = "verifiable"
            /\ serverKey' = Cached(serverKey)
            /\ eval' = [elements |-> by(serverKey.k),
                        proof |-> Proof(serverKey.k, serverKey'.pub, fin.request, by(serverKey.k))]
         \/ /\ oprfMode = "partial" /\ t # 0
            /\ eval' = [elements |-> by(Inv(t)),
                        proof |-> Proof(t, t, by(Inv(t)), fin.request)]
            /\ UNCHANGED serverKey
  /\ UNCHANGED <<oprfMode, pkS, fin>>

OprfNext ==
  \/ \E k \in Keys : NewKey(k)
  \/ \E k \in Keys \cup {0} : UnmarshalKey(k)
  \/ OprfPublic
  \/ \E inputs \in Batches : \E blinds \in [DOMAIN inputs -> Blinds] : OprfBlind(inputs, blinds)
  \/ \E info \in Info : Evaluate(info)

OprfSpec == OprfInit /\ [][OprfNext]_oprfVars
-----------------------------------------------------------------------------
\* What the hash of the output is of: the information in the partially oblivious mode only.
Output(input, info, element) ==
  [input |-> input, info |-> IF oprfMode = "partial" THEN info ELSE OprfNone, element |-> element]

Unblinded(f, e) == [i \in DOMAIN f.blinds |-> (e.elements[i] * Inv(f.blinds[i])) % GroupOrder]

Done(outputs) == [error |-> "none", outputs |-> outputs]
Error(what) == [error |-> what, outputs |-> <<>>]
Outputs(f, e, info) ==
  Done([i \in DOMAIN f.inputs |-> Output(f.inputs[i], info, Unblinded(f, e)[i])])

Finalize(f, e, info) ==
  IF Len(e.elements) # Len(f.blinds) THEN Error("ErrInvalidInput")
  ELSE CASE oprfMode = "base" -> Outputs(f, e, info)
         [] oprfMode = "verifiable" ->
              IF VerifyBatch(pkS, f.request, e.elements, e.proof)
              THEN Outputs(f, e, info) ELSE Error("ErrInvalidProof")
         [] oprfMode = "partial" ->
              LET t == Tweaked(pkS, info)
              IN  IF t = 0 THEN Error("ErrInvalidInfo")
                  ELSE IF VerifyBatch(t, e.elements, f.request, e.proof)
                       THEN Outputs(f, e, info) ELSE Error("ErrInvalidProof")

\* FullEvaluate on each input, by a server with the key k.
FullEvaluate(k, inputs, info) ==
  LET t == Tweaked(k, info)
      secret == IF oprfMode = "partial" THEN Inv(t) ELSE k
  IN  IF oprfMode = "partial" /\ t = 0 THEN Error("ErrInverseZero")
      ELSE Done([i \in DOMAIN inputs |->
                   Output(inputs[i], info, (HashToElement[inputs[i]] * secret) % GroupOrder)])
-----------------------------------------------------------------------------
\* The answer as it comes: whole, in the other order, or without its last element.
Delivered == {eval.elements, Reverse(eval.elements), Front(eval.elements)}

\* The answer is to the batch of the client, of the key of its public key, and this was cached.
Own(elements, info) ==
  /\ elements = eval.elements /\ eval.proof.ka = eval.proof.k
  /\ IF oprfMode = "partial" THEN eval.proof.k = Tweaked(pkS, info) /\ eval.proof.kb = fin.request
                         ELSE eval.proof.k = pkS /\ eval.proof.b = fin.request

\* Of an input with a zero blind nothing is left: its output is that of the identity.
OfBlinded(f, full, info) ==
  IF full.error # "none" THEN full
  ELSE Done([i \in DOMAIN f.inputs |-> IF f.blinds[i] = 0 THEN Output(f.inputs[i], info, 0)
                                      ELSE full.outputs[i]])

(* With a proof a client never finalizes to anything but the function of the *)
(* key whose public key it has, whichever batch, information or key the      *)
(* answer was for; and it does finalize the answer to its own batch under    *)
(* this key. A server whose object was filled with another key after its     *)
(* public key was cached is refused in the verifiable mode. Without a proof  *)
(* the answer to the own batch gives the function of the server's key. The   *)
(* information that the server refuses is the one that the client refuses.   *)
(* The exception is an input whose blind was zero, which Blind may draw and  *)
(* DeterministicBlind takes: no key is in its output, and no error tells.    *)
OnlyTheFunction ==
  (fin # OprfNone /\ eval # OprfNone) =>
    \A elements \in Delivered, info \in Info :
      LET out == Finalize(fin, [eval EXCEPT !.elements = elements], info)
          function(k) == OfBlinded(fin, FullEvaluate(k, fin.inputs, info), info)
      IN  IF oprfMode = "base"
          THEN \A k \in Keys : elements = Times(fin.request, k) => out = function(k)
          ELSE pkS # 0 =>
                 /\ out.error = "none" => out = function(pkS)
                 /\ Own(elements, info) => out = function(pkS)
                 /\ eval.proof.ka # eval.proof.k => out.error # "none"
                 /\ Len(elements) = Len(fin.inputs) =>
                      (out.error = "ErrInvalidInfo" <=> function(pkS).error = "ErrInverseZero")
=============================================================================
