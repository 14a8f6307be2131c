---------------------------- MODULE HpkeContext ----------------------------
(***************************************************************************)
(* The two encryption contexts of an HPKE session: a sealer and an opener  *)
(* that share a key and a base nonce (hpke/aead.go), the network that      *)
(* carries ciphertexts from one to the other, and the serialization of     *)
(* contexts that lets either process crash and resume (hpke/marshal.go).   *)
(*                                                                         *)
(* The AEAD is ideal: a ciphertext opens exactly under the key, nonce and  *)
(* associated data it was sealed with.  The network is the set of all      *)
(* ciphertexts ever released, so one may arrive late, twice, out of order  *)
(* or never.                                                               *)
(*                                                                         *)
(* A caller of MarshalBinary is told never to use the serialized context   *)
(* and the original side by side, nor to restore it twice (marshal.go:103).*)
(* The model's callers obey: they seal or open only once the serialized    *)
(* copy is discarded, and a restored copy is consumed.                     *)
(***************************************************************************)
EXTENDS Integers, Sequences, FiniteSets

CONSTANTS
  Radix,       \* values of one byte: 256 in the code
  Nn,          \* bytes of a nonce
  Xor(_, _),   \* exclusive or of two bytes
  BaseNonce,   \* the base nonce both ends derived
  Key,         \* the AEAD key both ends derived
  OtherKey,    \* the key of another session on the same network
  Plaintext,
  Aad,         \* associated data
  Absent       \* no context: the process is down

Byte    == 0 .. Radix - 1
NonceSp == [1 .. Nn -> Byte]

ASSUME RadixAssumption == Radix \in Nat \ {0, 1}
ASSUME NnAssumption    == Nn \in Nat \ {0}
ASSUME BaseAssumption  == BaseNonce \in NonceSp
ASSUME XorAssumption   ==
  \A a, b, c \in Byte : /\ Xor(a, b) \in Byte
                        /\ Xor(a, b) = Xor(a, c) => b = c
ASSUME KeyAssumption   == Key # OtherKey

Message    == [pt : Plaintext, aad : Aad]
Context    == [key : {Key}, baseNonce : NonceSp,
               sequenceNumber : NonceSp, nonce : NonceSp]
Ciphertext == [key : {Key, OtherKey}, nonce : NonceSp, msg : Message]

ASSUME AbsentAssumption == Absent \notin Context

Sealer == 0   \* the role byte in front of a serialized context
Opener == 1
Serialized == [role : {Sealer, Opener}, key : {Key}, baseNonce : NonceSp,
               sequenceNumber : NonceSp]

VARIABLES
  sealer, opener,   \* the live contexts
  stored,           \* serialized contexts not yet restored or discarded
  net,              \* ciphertexts on the network
  sealed,           \* history: what Seal returned, in order, each with the
                    \* sequence number it was sealed under
  opened            \* history: what Open returned, in order

vars == <<sealer, opener, stored, net, sealed, opened>>
-----------------------------------------------------------------------------
Zero == [i \in 1 .. Nn |-> 0]

NewContext == [key |-> Key, baseNonce |-> BaseNonce,
               sequenceNumber |-> Zero, nonce |-> Zero]

\* Slip: the sequence number is left out of the nonce.
BugCalcNonce(c) == c.baseNonce

calcNonce(c) == [i \in 1 .. Nn |-> Xor(c.baseNonce[i], c.sequenceNumber[i])]

AllOnes(s) == \A i \in 1 .. Nn : s[i] = Radix - 1

\* Adding one with carry, big-endian: byte i gets the carry exactly when
\* every byte after it was full.
BugPlusOne(s) ==   \* slip: the byte is not reduced when it overflows
  [i \in 1 .. Nn |-> IF \A j \in i + 1 .. Nn : s[j] = Radix - 1
                       THEN s[i] + 1 ELSE s[i]]

PlusOne(s) ==
  [i \in 1 .. Nn |-> IF \A j \in i + 1 .. Nn : s[j] = Radix - 1
                       THEN (s[i] + 1) % Radix ELSE s[i]]

\* The sequence number after increment, and whether it returned
\* ErrAEADSeqOverflows, which leaves the sequence number alone.
BugIncrement(s) == [err |-> FALSE, seq |-> PlusOne(s)]   \* slip: no limit

increment(s) == [err |-> AllOnes(s), seq |-> IF AllOnes(s) THEN s ELSE PlusOne(s)]

\* A context after it computed a nonce, which calcNonce leaves in its scratch
\* field, and after the AEAD call that used the nonce succeeded.
Scratch(c)  == [c EXCEPT !.nonce = calcNonce(c)]
Advanced(c) == [Scratch(c) EXCEPT !.sequenceNumber = increment(c.sequenceNumber).seq]

marshal(c, r) == [role |-> r, key |-> c.key, baseNonce |-> c.baseNonce,
                  sequenceNumber |-> c.sequenceNumber]

\* Slip: the sequence number starts over.
BugUnmarshal(b) == [key |-> b.key, baseNonce |-> b.baseNonce,
                    sequenceNumber |-> Zero, nonce |-> Zero]

unmarshal(b)  == [key |-> b.key, baseNonce |-> b.baseNonce,
                  sequenceNumber |-> b.sequenceNumber, nonce |-> Zero]

AeadSeal(c, m)      == [key |-> c.key, nonce |-> calcNonce(c), msg |-> m]
AeadOpens(c, ct, a) == ct.key = c.key /\ ct.nonce = calcNonce(c) /\ ct.msg.aad = a

Idle(r) == \A b \in stored : b.role # r
-----------------------------------------------------------------------------
Init == /\ sealer = NewContext
        /\ opener = NewContext
        /\ stored = {}
        /\ net = {[key |-> OtherKey, nonce |-> BaseNonce, msg |-> m] : m \in Message}
        /\ sealed = <<>>
        /\ opened = <<>>

\* The ciphertext of the last nonce is computed, wiped and never returned.
Seal(m) ==
  /\ sealer # Absent /\ Idle(Sealer)
  /\ sealer' = Advanced(sealer)
  /\ IF increment(sealer.sequenceNumber).err
       THEN UNCHANGED <<net, sealed>>
       ELSE /\ net' = net \union {AeadSeal(sealer, m)}
            /\ sealed' = Append(sealed, [seq |-> sealer.sequenceNumber,
                                         ct  |-> AeadSeal(sealer, m)])
  /\ UNCHANGED <<opener, stored, opened>>

Open(ct, a) ==
  /\ opener # Absent /\ Idle(Opener)
  /\ AeadOpens(opener, ct, a)
  /\ opener' = Advanced(opener)
  /\ opened' = IF increment(opener.sequenceNumber).err
                 THEN opened ELSE Append(opened, ct.msg)
  /\ UNCHANGED <<sealer, stored, net, sealed>>

\* A ciphertext out of turn, repeated, foreign, or with the wrong associated
\* data is refused before the increment.
BugOpenRefused(ct, a) ==   \* slip: incremented before the error is looked at
  /\ opener # Absent /\ Idle(Opener)
  /\ ~AeadOpens(opener, ct, a)
  /\ opener' = Advanced(opener)
  /\ UNCHANGED <<sealer, stored, net, sealed, opened>>

OpenRefused(ct, a) ==
  /\ opener # Absent /\ Idle(Opener)
  /\ ~AeadOpens(opener, ct, a)
  /\ opener' = Scratch(opener)
  /\ UNCHANGED <<sealer, stored, net, sealed, opened>>

MarshalSealer ==
  /\ sealer # Absent
  /\ stored' = stored \union {marshal(sealer, Sealer)}
  /\ UNCHANGED <<sealer, opener, net, sealed, opened>>

MarshalOpener ==
  /\ opener # Absent
  /\ stored' = stored \union {marshal(opener, Opener)}
  /\ UNCHANGED <<sealer, opener, net, sealed, opened>>

UnmarshalSealer(b) ==
  /\ sealer = Absent
  /\ b.role = Sealer
  /\ sealer' = unmarshal(b)
  /\ stored' = stored \ {b}
  /\ UNCHANGED <<opener, net, sealed, opened>>

UnmarshalOpener(b) ==
  /\ opener = Absent
  /\ b.role = Opener
  /\ opener' = unmarshal(b)
  /\ stored' = stored \ {b}
  /\ UNCHANGED <<sealer, net, sealed, opened>>

\* The application: a crash, and deleting a serialized context to go on with
\* the live one.
SealerCrash == /\ sealer # Absent
               /\ sealer' = Absent
               /\ UNCHANGED <<opener, stored, net, sealed, opened>>

OpenerCrash == /\ opener # Absent
               /\ opener' = Absent
               /\ UNCHANGED <<sealer, stored, net, sealed, opened>>

Discard(b) == /\ stored' = stored \ {b}
              /\ UNCHANGED <<sealer, opener, net, sealed, opened>>

Next == \/ \E m \in Message : Seal(m)
        \/ \E ct \in net, a \in Aad : Open(ct, a) \/ OpenRefused(ct, a)
        \/ MarshalSealer \/ MarshalOpener
        \/ \E b \in stored : UnmarshalSealer(b) \/ UnmarshalOpener(b) \/ Discard(b)
        \/ SealerCrash \/ OpenerCrash

Spec == Init /\ [][Next]_vars
-----------------------------------------------------------------------------
\* Every variable stays in its range.
TypeOK == /\ sealer \in Context \union {Absent}
          /\ opener \in Context \union {Absent}
          /\ stored \subseteq Serialized
          /\ net \subseteq Ciphertext
          /\ sealed \in Seq([seq : NonceSp, ct : Ciphertext])
          /\ opened \in Seq(Message)

\* No two ciphertexts that Seal ever returned share a nonce (aead.go:78), over
\* any number of crashes and restores: the property AEAD confidentiality
\* rests on.
NonceNeverReused ==
  \A i, j \in 1 .. Len(sealed) : sealed[i].ct.nonce = sealed[j].ct.nonce => i = j

\* Whatever the network delivered, the opener expects the nonce of the first
\* message it has not returned yet: a refused, repeated or premature
\* ciphertext never puts the two ends out of step (aead.go:90).
OpenerInStep ==
  opener # Absent /\ Len(opened) < Len(sealed)
    => calcNonce(opener) = sealed[Len(opened) + 1].ct.nonce

\* The number that bytes stand for, big-endian.
Value(s) == LET v[n \in 0 .. Nn] == IF n = 0 THEN 0 ELSE v[n - 1] * Radix + s[n] IN v[Nn]

\* The sequence number, read as a big-endian integer, counts the messages: a
\* sealer has returned as many ciphertexts, and an opener as many plaintexts,
\* as its sequence number says, and neither ever wraps around (aead.go:54).
SeqCountsMessages ==
  /\ sealer # Absent => Value(sealer.sequenceNumber) = Len(sealed)
  /\ opener # Absent => Value(opener.sequenceNumber) = Len(opened)

\* What Open returned is a prefix of what was given to Seal.
InOrder == /\ Len(opened) <= Len(sealed)
           /\ \A i \in 1 .. Len(opened) : opened[i] = sealed[i].ct.msg

\* The ciphertexts' messages, the abstract channel's history.
SentMessages == [i \in 1 .. Len(sealed) |-> sealed[i].ct.msg]

Channel == INSTANCE HpkeChannel WITH sent <- SentMessages, rcvd <- opened

\* The contexts and the network implement a reliable FIFO channel.
FifoChannel == Channel!Spec
=============================================================================
