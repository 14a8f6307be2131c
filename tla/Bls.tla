---------------------------------- MODULE Bls ----------------------------------
(* BLS signatures (sign/bls) with keys in either group: a PrivateKey object,  *)
(* which keeps the public key that it once computed, and a PublicKey object,  *)
(* into which encodings are read. Both are used again whatever a call on them *)
(* returned. Messages are hashed to the points that Mapped gives them.        *)
EXTENDS Integers, Sequences, FiniteSets

CONSTANTS Order, G1Generator, G2Generator,
          \* What PairingGroups says of the groups and of their pairing.
          g1ScalarMult(_, _), g1Add(_, _), g1Hash(_, _), g1IsMember(_), g1Encode(_, _), g1SetBytes(_, _),
          g2ScalarMult(_, _), g2Add(_, _), g2Hash(_, _), g2IsMember(_), g2Encode(_, _), g2SetBytes(_, _),
          g1IsEqual(_, _), g2IsEqual(_, _), g1IsIdentity(_), g2IsIdentity(_), g1Identity, g2Identity,
          prodPairFrac(_, _, _), gtOne,
          KeyG1,        \* keys are in G1 and signatures in G2, and not the other way round
          Messages, Mapped(_),
          Numbers,      \* that the bytes of a private key may give
          Derived,      \* what eight hashes give KeyGen, before the reduction
          PublicBytes,  \* encodings of public keys
          OtherBytes,   \* encodings of signatures, of points of the group or not
          MaxIssued     \* signatures

VARIABLES sk,       \* the private key: key, and pub once it is computed
          pk,       \* the point in the public key
          issued    \* signatures, each with its message and with the key to check it

vars == <<sk, pk, issued>>

Nil == <<>>

Generator == IF KeyG1 THEN G1Generator ELSE G2Generator
NewPublicKey == IF KeyG1 THEN <<0, 0, 0>> ELSE <<<<0, 0>>, <<0, 0>>, <<0, 0>>>>
Multiple(k) == IF KeyG1 THEN g1ScalarMult(k, Generator) ELSE g2ScalarMult(k, Generator)
Hash(m) == IF KeyG1 THEN g2Hash(Mapped(m)[1], Mapped(m)[2])
                    ELSE g1Hash(Mapped(m)[1], Mapped(m)[2])

\* Of keys and of signatures: the identity is read, and refused.
setBytesKey(g, e) ==
  LET d == IF KeyG1 THEN g1SetBytes(g, e) ELSE g2SetBytes(g, e)
  IN  [d EXCEPT !.err = d.err \/ (IF KeyG1 THEN g1IsIdentity(d.P) ELSE g2IsIdentity(d.P))]
setBytesSig(e) ==
  LET d == IF KeyG1 THEN g2SetBytes(g2Identity, e) ELSE g1SetBytes(g1Identity, e)
  IN  [d EXCEPT !.err = d.err \/ (IF KeyG1 THEN g2IsIdentity(d.P) ELSE g1IsIdentity(d.P))]
BytesCompressed(S) == IF KeyG1 THEN g2Encode(S, 1) ELSE g1Encode(S, 1)

Validate(P) == IF KeyG1 THEN ~g1IsIdentity(P) /\ g1IsMember(P)
                        ELSE ~g2IsIdentity(P) /\ g2IsMember(P)
-----------------------------------------------------------------------------
Signature(k, m) ==
  BytesCompressed(IF KeyG1 THEN g2ScalarMult(k, Hash(m)) ELSE g1ScalarMult(k, Hash(m)))

\* Whether the pairs of keys and points, and the generator and the signature, cancel out.
Cancels(keys, points, S) ==
  LET signs == [i \in 1 .. Len(keys) + 1 |-> IF i <= Len(keys) THEN 1 ELSE -1]
  IN  (IF KeyG1 THEN prodPairFrac(Append(keys, Generator), Append(points, S), signs)
                ELSE prodPairFrac(Append(points, S), Append(keys, Generator), signs)) = gtOne

Verify(pub, m, sig) ==
  LET d == setBytesSig(sig)
  IN  ~d.err /\ Validate(pub) /\ Cancels(<<pub>>, <<Hash(m)>>, d.P)

Error == <<>>   \* or an encoding

Plus(S, T) == IF KeyG1 THEN g2Add(S, T) ELSE g1Add(S, T)
Aggregate(sigs) ==
  LET sum[i \in 0 .. Len(sigs)] ==
        IF i = 0 THEN (IF KeyG1 THEN g2Identity ELSE g1Identity)
        ELSE Plus(sum[i - 1], setBytesSig(sigs[i]).P)
  IN  IF sigs = <<>> \/ \E i \in DOMAIN sigs : setBytesSig(sigs[i]).err THEN Error
      ELSE BytesCompressed(sum[Len(sigs)])

BugVerifyAggregate(pubs, msgs, sig) ==   \* slip: messages may repeat
  LET d == setBytesSig(sig)
  IN  /\ Len(pubs) = Len(msgs) /\ pubs # <<>>
      /\ \A i \in DOMAIN pubs : Validate(pubs[i])
      /\ ~d.err
      /\ Cancels(pubs, [i \in DOMAIN msgs |-> Hash(msgs[i])], d.P)

VerifyAggregate(pubs, msgs, sig) ==
  LET d == setBytesSig(sig)
  IN  /\ Len(pubs) = Len(msgs) /\ pubs # <<>>
      /\ \A i, j \in DOMAIN msgs : i # j => msgs[i] # msgs[j]
      /\ \A i \in DOMAIN pubs : Validate(pubs[i])
      /\ ~d.err
      /\ Cancels(pubs, [i \in DOMAIN msgs |-> Hash(msgs[i])], d.P)
-----------------------------------------------------------------------------
Init == sk = [key |-> 0, pub |-> Nil] /\ pk = NewPublicKey /\ issued = {}

\* The first of the eight that is not zero makes a new object.
KeyGen == \E okm \in Derived :
  /\ \E i \in 1 .. 8 : /\ okm[i] % Order # 0
                       /\ \A j \in 1 .. i - 1 : okm[j] % Order = 0
                       /\ sk' = [key |-> okm[i] % Order, pub |-> Nil]
  /\ UNCHANGED <<pk, issued>>

\* The receiver of zero keeps its public key.
BugUnmarshalPrivate == \E n \in Numbers :   \* slip: the public key is kept
  /\ n < Order
  /\ sk' = [sk EXCEPT !.key = n]
  /\ UNCHANGED <<pk, issued>>

UnmarshalPrivate == \E n \in Numbers :
  /\ n < Order
  /\ sk' = [key |-> n, pub |-> IF n = 0 THEN sk.pub ELSE Nil]
  /\ UNCHANGED <<pk, issued>>

PublicKeyOf(k) == IF k.pub = Nil THEN Multiple(k.key) ELSE k.pub
PublicKey == /\ sk' = [sk EXCEPT !.pub = PublicKeyOf(sk)]
             /\ UNCHANGED <<pk, issued>>

\* Zero panics. Who gets the signature asks for the public key.
Sign == \E m \in Messages :
  /\ sk.key # 0 /\ Cardinality(issued) < MaxIssued
  /\ sk' = [sk EXCEPT !.pub = PublicKeyOf(sk)]
  /\ issued' = issued \union {[pub |-> sk'.pub, msg |-> m, sig |-> Signature(sk.key, m)]}
  /\ UNCHANGED pk

UnmarshalPublic == \E e \in PublicBytes :
  /\ pk' = setBytesKey(pk, e).P
  /\ UNCHANGED <<sk, issued>>

Next == KeyGen \/ UnmarshalPrivate \/ PublicKey \/ Sign \/ UnmarshalPublic

Spec == Init /\ [][Next]_vars
-----------------------------------------------------------------------------
SameKey(P, Q) == IF KeyG1 THEN g1IsEqual(P, Q)
                 ELSE P # NewPublicKey /\ Q # NewPublicKey /\ g2IsEqual(P, Q)
SameSignature(s, t) ==
  LET S == setBytesSig(s).P
      T == setBytesSig(t).P
  IN  IF KeyG1 THEN g2IsEqual(S, T) ELSE g1IsEqual(S, T)

(* What an object signs, whatever was read into it before, the public key    *)
(* that it gives out verifies, and no other signature of that message; a     *)
(* PublicKey object, whatever was read into it and with what error, verifies *)
(* it just when it holds that key. (Each signature is looked at before there *)
(* are others.)                                                             *)
SignaturesOfKey ==
  \A v \in issued :
    issued = {v} =>
      /\ Verify(v.pub, v.msg, v.sig)
      /\ \A m \in Messages \ {v.msg} : ~Verify(v.pub, m, v.sig)
      /\ \A s \in OtherBytes :
           Verify(v.pub, v.msg, s) <=> ~setBytesSig(s).err /\ SameSignature(s, v.sig)
      /\ Verify(pk, v.msg, v.sig) <=> SameKey(pk, v.pub)

(* A sum of signatures verifies under their keys and messages, unless the     *)
(* messages are one or the sum is the identity; it does not verify with the  *)
(* messages of different keys swapped, nor with a signature left out, and is *)
(* not summed with what is no signature. (What is in pk does not matter.)    *)
AggregatesVerify ==
  \A v, w \in issued :
    v # w /\ pk = NewPublicKey =>
      \A agg \in {Aggregate(<<v.sig, w.sig>>)} :
        LET pubs == <<v.pub, w.pub>>
        IN  /\ VerifyAggregate(pubs, <<v.msg, w.msg>>, agg) <=> v.msg # w.msg /\ agg.i = 0
            /\ ~VerifyAggregate(pubs, <<v.msg, w.msg>>, w.sig)
            /\ ~SameKey(v.pub, w.pub) => ~VerifyAggregate(pubs, <<w.msg, v.msg>>, agg)
            /\ Aggregate(<<v.sig, [w.sig EXCEPT !.c = 0, !.s = 1]>>) = Error
=============================================================================
