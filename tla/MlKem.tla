-------------------------------- MODULE MlKem --------------------------------
(* ML-KEM: the Fujisaki-Okamoto transform with implicit rejection around the *)
(* encryption scheme of pke/kyber, and the objects its keys are kept in.     *)
(* Encryption is ideal, and so are the hashes: a ciphertext is the record of *)
(* the public vector, the message and the randomness, and a hash is what was *)
(* hashed. (KyberNtt and KyberField have the arithmetic.)                    *)
(*                                                                           *)
(* A public vector is the pair of a seed and of how its bytes were packed:   *)
(* normalized, as Pack writes them, or with coefficients of q and more.      *)
(* Slices of a wrong length are refused before anything is changed, or are   *)
(* a panic; they are left out. Kem is in the names that other modules of the *)
(* same run also have.                                                       *)
EXTENDS Integers

CONSTANTS Seeds,     \* of key pairs
          Messages,  \* of encapsulations
          Pubs,      \* PublicKey objects
          Privs,     \* PrivateKey objects
          Garbled,   \* the message to which a foreign ciphertext decrypts
          Cells      \* of cpapke.PublicKey: more than there are references, and nil

Nil == 0

MlKemAssumption == Garbled \in Messages /\ Cells \subseteq Nat /\ Nil \in Cells

VARIABLES heap,  \* the seed of the vector in each cell: always normalized
          pub,   \* [pk, hpk, ok]; ok says that the last call that filled it gave no error
          priv   \* [sk, pk, hpk, z, ok]

kemVars == <<heap, pub, priv>>

KemNone == [none |-> TRUE]
Bytes == [seed : Seeds, norm : BOOLEAN]   \* packed public vectors

Referenced == {pub[p].pk : p \in Pubs} \cup {priv[s].pk : s \in Privs}
New(cell) == cell \in Cells \ (Referenced \cup {Nil})
             /\ \A c \in Cells \ (Referenced \cup {Nil}) : cell <= c

KemInit ==
  /\ heap = [c \in Cells |-> KemNone]
  /\ pub = [p \in Pubs |-> [pk |-> Nil, hpk |-> KemNone, ok |-> FALSE]]
  /\ priv = [s \in Privs |-> [sk |-> KemNone, pk |-> Nil, hpk |-> KemNone, z |-> KemNone, ok |-> FALSE]]

PackVec(cell) == [seed |-> heap[cell], norm |-> TRUE]
PackPriv(s) == [sk |-> priv[s].sk, pk |-> PackVec(priv[s].pk), hpk |-> priv[s].hpk, z |-> priv[s].z]

\* Buffers that Unpack of a private key may find: what Pack wrote for the seed sk, but that the public
\* vector is another, or its hash with it, or z.
PrivBuffers ==
  {b \in [sk : Seeds, pk : Bytes, hpk : Bytes, z : Seeds] :
     LET own == [seed |-> b.sk, norm |-> TRUE]
     IN  \/ b.hpk = own /\ b.z = b.sk
         \/ b.pk = b.hpk /\ b.z = b.sk
         \/ b.pk = own /\ b.hpk = own}
-----------------------------------------------------------------------------
\* Both objects refer to one public vector.
KemNewKeyFromSeed(p, s, k) ==
  \E cell \in Cells :
    /\ New(cell)
    /\ heap' = [heap EXCEPT ![cell] = k]
    /\ LET hpk == [seed |-> k, norm |-> TRUE]
       IN  /\ pub' = [pub EXCEPT ![p] = [pk |-> cell, hpk |-> hpk, ok |-> TRUE]]
           /\ priv' = [priv EXCEPT ![s] = [sk |-> k, pk |-> cell, hpk |-> hpk, z |-> k, ok |-> TRUE]]

\* So do they here.
Public(s, p) ==
  /\ priv[s].ok
  /\ pub' = [pub EXCEPT ![p] = [pk |-> priv[s].pk, hpk |-> priv[s].hpk, ok |-> TRUE]]
  /\ UNCHANGED <<heap, priv>>

BugUnpackPub(p, buf) ==   \* slip: the vector that is there is overwritten
  \E cell \in Cells :
    /\ IF pub[p].pk = Nil THEN New(cell) ELSE cell = pub[p].pk
    /\ heap' = [heap EXCEPT ![cell] = buf.seed]
    /\ pub' = [pub EXCEPT ![p] =
         IF buf.norm THEN [pk |-> cell, hpk |-> buf, ok |-> TRUE]
         ELSE [pk |-> cell, hpk |-> pub[p].hpk, ok |-> FALSE]]
    /\ UNCHANGED priv

(* The vector is read and normalized; when it was not normalized this is an *)
(* error, and the object keeps the old hash with the new vector.            *)
UnpackPub(p, buf) ==
  \E cell \in Cells :
    /\ New(cell)
    /\ heap' = [heap EXCEPT ![cell] = buf.seed]
    /\ pub' = [pub EXCEPT ![p] =
         IF buf.norm THEN [pk |-> cell, hpk |-> buf, ok |-> TRUE]
         ELSE [pk |-> cell, hpk |-> pub[p].hpk, ok |-> FALSE]]
    /\ UNCHANGED priv

(* All parts are read before the hash is compared. That the public vector    *)
(* is normalized is not checked here.                                       *)
UnpackPriv(s, buf) ==
  \E cell \in Cells :
    /\ New(cell)
    /\ heap' = [heap EXCEPT ![cell] = buf.pk.seed]
    /\ priv' = [priv EXCEPT ![s] = [sk |-> buf.sk, pk |-> cell, hpk |-> buf.hpk,
                                    z |-> buf.z, ok |-> buf.pk = buf.hpk]]
    /\ UNCHANGED pub

KemNext ==
  \/ \E p \in Pubs, s \in Privs, k \in Seeds : KemNewKeyFromSeed(p, s, k)
  \/ \E p \in Pubs, s \in Privs : Public(s, p)
  \/ \E p \in Pubs, buf \in Bytes : UnpackPub(p, buf)
  \/ \E s \in Privs, buf \in PrivBuffers : UnpackPriv(s, buf)

KemSpec == KemInit /\ [][KemNext]_kemVars
-----------------------------------------------------------------------------
\* EncryptTo and DecryptTo of pke/kyber.
EncryptTo(cell, m, r) == [th |-> heap[cell], m |-> m, r |-> r]
DecryptTo(sk, ct) == IF ct.th = sk THEN ct.m ELSE Garbled

G(m, hpk) == [K |-> <<"K", m, hpk>>, r |-> <<"r", m, hpk>>]

EncapsulateTo(p, m) ==
  LET kr == G(m, pub[p].hpk)
  IN  [ct |-> EncryptTo(pub[p].pk, m, kr.r), ss |-> kr.K]

BugDecapsulateTo(s, ct) ==   \* slip: no encryption again
  LET m2 == DecryptTo(priv[s].sk, ct)
  IN  G(m2, priv[s].hpk).K

\* On rejection the key is a function of z and the ciphertext.
DecapsulateTo(s, ct) ==
  LET m2 == DecryptTo(priv[s].sk, ct)
      kr2 == G(m2, priv[s].hpk)
  IN  IF ct = EncryptTo(priv[s].pk, m2, kr2.r) THEN kr2.K ELSE <<"rejected", priv[s].z, ct>>
-----------------------------------------------------------------------------
\* The private key is whole: its parts are those of one key pair.
Whole(s) == priv[s].ok /\ priv[s].hpk.norm /\ priv[s].sk = priv[s].hpk.seed

\* Ciphertexts that no one encapsulated: with other randomness, for any key.
Forged == [th : Seeds, m : Messages, r : {<<"r", m, [seed |-> k, norm |-> b]>> :
                                            m \in Messages, k \in Seeds, b \in BOOLEAN}]
Honest(k) == {[th |-> k, m |-> m, r |-> <<"r", m, [seed |-> k, norm |-> TRUE]>>] : m \in Messages}

(* Whatever was unpacked into objects before, with or without an error: a    *)
(* private key gives the shared key of an encapsulation for its public key,  *)
(* another one for another public key; and a ciphertext that is not what     *)
(* some message encrypts to gives the pseudorandom key, never one that       *)
(* belongs to a message.                                                     *)
DecapsulationAgrees ==
  \A s \in Privs : Whole(s) =>
    /\ \A p \in Pubs, m \in Messages : pub[p].ok =>
         LET c == EncapsulateTo(p, m)
         IN  (DecapsulateTo(s, c.ct) = c.ss) = (pub[p].hpk = priv[s].hpk)
    /\ \A ct \in Forged :
         (DecapsulateTo(s, ct)[1] = "rejected") = (ct \notin Honest(priv[s].sk))
=============================================================================
