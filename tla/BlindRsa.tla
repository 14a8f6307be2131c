------------------------------ MODULE BlindRsa ------------------------------
(* Blind signatures of blindsign/blindrsa and its partially blind variant: a *)
(* client that blinds an encoded message, a signer that may be given other   *)
(* data or other metadata than the client means, and an answer that comes    *)
(* when the client has already begun again. The numbers are those of a small *)
(* modulus. Messages are taken as encoded: the hash and the encoding, over   *)
(* the metadata too, and the lengths of buffers are left out.                *)
EXTENDS RsaNumbers, FiniteSets

CONSTANTS Encoded,   \* messages as EncodeMessageEMSAPSS may give them
          Randoms,   \* what rand.Int may give, below N
          Metadata,  \* the output of HKDF for each metadata: lambda bits
          Foreign    \* data that no client has sent

None == [none |-> TRUE]

lambda == LET bits == CHOOSE b \in 0 .. 31 : 2 ^ b <= N /\ N < 2 ^ (b + 1) IN (bits + 1) \div 2

BlindRsaAssumption ==
  /\ Encoded \subseteq 1 .. N - 1 /\ Randoms \subseteq 0 .. N - 1
  /\ Metadata \subseteq 0 .. 2 ^ lambda - 1 /\ Foreign \subseteq Nat

VARIABLES state,   \* [encodedMsg, rInv, metadata] of the client, or None
          data,    \* the blinded message that belongs to it
          answer   \* [data, metadata, sig] of the signer, or None

vars == <<state, data, answer>>
Init == state = None /\ data = 0 /\ answer = None
-----------------------------------------------------------------------------
BugNewE(bytes) == (2 * (bytes \div 2) + 1) % 2 ^ (lambda - 1)   \* slip: one bit is cleared

\* derivePublicKey: the bottom bit is set, the two top bits are cleared.
NewE(bytes) == (2 * (bytes \div 2) + 1) % 2 ^ (lambda - 2)

\* nil stands for the scheme without metadata.
E(md) == IF md = nil THEN e ELSE NewE(md)

\* deriveKeyPair: nil when E has no inverse.
phi == (p - 1) * (q - 1)
D(md) == ModInverse(E(md) % phi, phi)

BlindingFactor(x) == IF x = 0 THEN 1 ELSE x
Blinded(encodedMsg, r, md) == (encodedMsg * Power(r, E(md))) % N

\* Without an inverse of r, or when the message is not coprime to N, this is an error.
Blind(encodedMsg, random, md) ==
  LET r == BlindingFactor(random)
  IN  /\ ModInverse(r, N) # nil /\ Gcd(encodedMsg, N) = 1
      /\ state' = [encodedMsg |-> encodedMsg, rInv |-> ModInverse(r, N), metadata |-> md]
      /\ data' = Blinded(encodedMsg, r, md)
      /\ UNCHANGED answer

\* decrypt, with a blind of its own that is removed again.
Decrypted(z, r, md) ==
  (Power((z * Power(r, E(md))) % N, D(md)) * ModInverse(r, N)) % N

(* BlindSign. N itself passes the first check, and is refused by the check   *)
(* of the result.                                                            *)
SignatureOf(z, r, md) ==
  IF z > N \/ Power(Decrypted(z, r, md), E(md)) # z THEN nil ELSE Decrypted(z, r, md)

BlindSign(z, md) ==
  \E r \in {BlindingFactor(x) : x \in Randoms} :
    /\ ModInverse(r, N) # nil /\ SignatureOf(z, r, md) # nil
    /\ answer' = [data |-> z, metadata |-> md, sig |-> SignatureOf(z, r, md)]
    /\ UNCHANGED <<state, data>>

Next ==
  \/ \E encodedMsg \in Encoded, random \in Randoms, md \in Metadata \cup {nil} :
       Blind(encodedMsg, random, md)
  \/ \E z \in Foreign \cup {data}, md \in Metadata \cup {nil} : BlindSign(z, md)

Spec == Init /\ [][Next]_vars
-----------------------------------------------------------------------------
\* The unblinded signature, when it is one of the message under the client's exponent.
Finalize(s, blindSig) ==
  LET sig == (s.rInv * blindSig) % N
  IN  IF Power(sig, E(s.metadata)) = s.encodedMsg THEN sig ELSE nil

Units == {x \in 1 .. N - 1 : Gcd(x, N) = 1}

(* Every metadata gives a key that can sign, and the signer refuses no data  *)
(* but what is not a residue.                                                *)
Signs ==
  \A md \in Metadata \cup {nil} :
    /\ D(md) # nil
    /\ \A z \in Foreign : (SignatureOf(z, 1, md) = nil) = (z >= N)

(* The signer learns nothing from what it signs: each value that it may be   *)
(* given comes from each message, with one blinding factor.                  *)
Hides ==
  state # None =>
    {Blinded(state.encodedMsg, r, state.metadata) : r \in Units} = Units

(* The answer to the client's data, by the key of its metadata, gives the    *)
(* signature of its message; an answer to other data by this key never does, *)
(* and no answer gives anything but the signature.                           *)
UnblindsItsOwn ==
  (state # None /\ answer # None) =>
    LET sig == Finalize(state, answer.sig)
        sameKey == E(answer.metadata) = E(state.metadata)
    IN  /\ sig # nil => sig = Power(state.encodedMsg, D(state.metadata))
        /\ sameKey => (sig # nil <=> answer.data = data)

(* Blind signatures are what they are for any metadata and in any order of   *)
(* calls: the signer can sign, it sees nothing of the message, and the       *)
(* client ends with the signature of its own message or with an error.       *)
BlindSignatures == Signs /\ Hides /\ UnblindsItsOwn
=============================================================================
