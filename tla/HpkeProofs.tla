----------------------------- MODULE HpkeProofs -----------------------------
(***************************************************************************)
(* What is proved of HPKE, for every value of the constants.               *)
(*                                                                         *)
(* HpkeContext, for every byte width, nonce length and message set: it     *)
(* keeps its types, never seals two messages under one nonce, keeps the    *)
(* opener in step and implements the FIFO channel.  Increment moves the    *)
(* sequence number strictly up in lexicographic order, so the numbers      *)
(* messages are sealed under form a strictly increasing chain; exclusive   *)
(* or with the base nonce is injective, so a nonce names one link of the   *)
(* chain; and each end, live or serialized, stands at the link its history *)
(* length says.                                                            *)
(*                                                                         *)
(* HpkeSetup, for every set of keys, identifiers, receivers and            *)
(* information and any number of calls: two contexts share a key exactly   *)
(* when both callers asked for the same thing, and no PSK of an earlier    *)
(* call gets into a mode without one.  A call that verifyPSKInputs lets    *)
(* pass leaves nothing in the key schedule that the call itself did not    *)
(* give, so a key is a function of the call, and an injective one.         *)
(***************************************************************************)
EXTENDS HpkeContext, HpkeSetup, NumberLemmas

\* Big-endian comparison of two sequence numbers.
Less(s, t) == \E i \in 1 .. Nn : s[i] < t[i] /\ \A j \in 1 .. i - 1 : s[j] = t[j]

\* The sequence number that follows n sealed messages.
Expected(n) == IF n = 0 THEN Zero ELSE PlusOne(sealed[n].seq)

BaseOK == /\ sealer # Absent => sealer.baseNonce = BaseNonce
          /\ opener # Absent => opener.baseNonce = BaseNonce
          /\ \A b \in stored : b.baseNonce = BaseNonce

Chain == \A i \in 1 .. Len(sealed) : /\ sealed[i].seq = Expected(i - 1)
                                     /\ ~AllOnes(sealed[i].seq)

Increasing == \A i, j \in 1 .. Len(sealed) : i < j => Less(sealed[i].seq, sealed[j].seq)

NonceOf(s) == [k \in 1 .. Nn |-> Xor(BaseNonce[k], s[k])]

NonceOK == \A i \in 1 .. Len(sealed) : sealed[i].ct.nonce = NonceOf(sealed[i].seq)

SealerStands == /\ sealer # Absent => sealer.sequenceNumber = Expected(Len(sealed))
                /\ \A b \in stored : b.role = Sealer => b.sequenceNumber = Expected(Len(sealed))

OpenerStands == /\ opener # Absent => opener.sequenceNumber = Expected(Len(opened))
                /\ \A b \in stored : b.role = Opener => b.sequenceNumber = Expected(Len(opened))

NetOK == \A ct \in net : ct.key = Key => \E i \in 1 .. Len(sealed) : ct = sealed[i].ct

IInv == /\ TypeOK /\ BaseOK /\ Chain /\ Increasing /\ NonceOK
        /\ SealerStands /\ OpenerStands /\ NetOK /\ InOrder
-----------------------------------------------------------------------------
\* Where a sequence number is not all ones, some last byte is not full.
LEMMA LastNotFull ==
  ASSUME NEW s \in NonceSp, ~AllOnes(s)
  PROVE  \E i \in 1 .. Nn : s[i] # Radix - 1 /\ \A j \in i + 1 .. Nn : s[j] = Radix - 1
<1> DEFINE T == {i \in 1 .. Nn : s[i] # Radix - 1}
<1>1. Nn \in Nat /\ T \subseteq 1 .. Nn /\ T # {}
  BY NnAssumption DEF AllOnes
<1>2. PICK i \in T : \A y \in T : y <= i
  BY <1>1, GreatestUpTo
<1>3. \A j \in i + 1 .. Nn : j \in 1 .. Nn /\ ~(j <= i)
  BY <1>1
<1>4. QED
  BY <1>2, <1>3

\* Zero and the successor are sequence numbers.
LEMMA SeqTypes ==
  /\ Zero \in NonceSp
  /\ \A s \in NonceSp : PlusOne(s) \in NonceSp
BY RadixAssumption, NnAssumption DEF Zero, NonceSp, PlusOne, Byte

\* increment moves a sequence number strictly up.
LEMMA PlusOneUp ==
  ASSUME NEW s \in NonceSp, ~AllOnes(s)
  PROVE  Less(s, PlusOne(s))
<1>1. PICK i \in 1 .. Nn : /\ s[i] # Radix - 1
                           /\ \A j \in i + 1 .. Nn : s[j] = Radix - 1
  BY LastNotFull
<1>2. s[i] \in 0 .. Radix - 2
  BY <1>1, RadixAssumption, NnAssumption DEF NonceSp, Byte
<1>3. PlusOne(s)[i] = s[i] + 1
  BY <1>1, <1>2, RadixAssumption, NnAssumption DEF PlusOne
<1>4. \A j \in 1 .. i - 1 : i \in j + 1 .. Nn
  BY NnAssumption
<1>5. \A j \in 1 .. i - 1 : j \in 1 .. Nn /\ PlusOne(s)[j] = s[j]
  BY <1>1, <1>4, NnAssumption DEF PlusOne
<1>6. QED
  BY <1>2, <1>3, <1>5 DEF Less

LEMMA LessTransitive ==
  ASSUME NEW s \in NonceSp, NEW t \in NonceSp, NEW u \in NonceSp,
         Less(s, t), Less(t, u)
  PROVE  Less(s, u)
<1>1. PICK i \in 1 .. Nn : s[i] < t[i] /\ \A k \in 1 .. i - 1 : s[k] = t[k]
  BY DEF Less
<1>2. PICK j \in 1 .. Nn : t[j] < u[j] /\ \A k \in 1 .. j - 1 : t[k] = u[k]
  BY DEF Less
<1>3. \A k \in 1 .. Nn : s[k] \in Int /\ t[k] \in Int /\ u[k] \in Int
  BY RadixAssumption DEF NonceSp, Byte
<1>4. CASE i < j
  <2>1. i \in 1 .. j - 1 /\ \A k \in 1 .. i - 1 : k \in 1 .. j - 1
    BY <1>4, NnAssumption
  <2>2. s[i] < u[i] /\ \A k \in 1 .. i - 1 : s[k] = u[k]
    BY <1>1, <1>2, <2>1
  <2>3. QED
    BY <2>2 DEF Less
<1>5. CASE j < i
  <2>1. j \in 1 .. i - 1 /\ \A k \in 1 .. j - 1 : k \in 1 .. i - 1
    BY <1>5, NnAssumption
  <2>2. s[j] < u[j] /\ \A k \in 1 .. j - 1 : s[k] = u[k]
    BY <1>1, <1>2, <2>1
  <2>3. QED
    BY <2>2 DEF Less
<1>6. CASE i = j
  <2>1. s[i] < u[i] /\ \A k \in 1 .. i - 1 : s[k] = u[k]
    BY <1>1, <1>2, <1>3, <1>6
  <2>2. QED
    BY <2>1 DEF Less
<1>7. QED
  BY <1>4, <1>5, <1>6, NnAssumption

LEMMA LessIrreflexive ==
  ASSUME NEW s \in NonceSp
  PROVE  ~Less(s, s)
<1>1. \A k \in 1 .. Nn : s[k] \in Int
  BY RadixAssumption DEF NonceSp, Byte
<1>2. QED
  BY <1>1 DEF Less

\* Exclusive or with the base nonce is injective.
LEMMA NonceInjective ==
  ASSUME NEW s \in NonceSp, NEW t \in NonceSp, NonceOf(s) = NonceOf(t)
  PROVE  s = t
<1>1. \A k \in 1 .. Nn : BaseNonce[k] \in Byte /\ s[k] \in Byte /\ t[k] \in Byte
  BY BaseAssumption DEF NonceSp
<1>2. \A k \in 1 .. Nn : Xor(BaseNonce[k], s[k]) = Xor(BaseNonce[k], t[k])
  <2>1. \A k \in 1 .. Nn : NonceOf(s)[k] = NonceOf(t)[k]
    OBVIOUS
  <2>2. QED
    BY <2>1 DEF NonceOf
<1>3. \A k \in 1 .. Nn : s[k] = t[k]
  BY <1>1, <1>2, XorAssumption
<1>4. s = [k \in 1 .. Nn |-> s[k]] /\ t = [k \in 1 .. Nn |-> t[k]]
  BY DEF NonceSp
<1>5. [k \in 1 .. Nn |-> s[k]] = [k \in 1 .. Nn |-> t[k]]
  BY <1>3, Zenon
<1>6. QED
  BY <1>4, <1>5, Zenon
-----------------------------------------------------------------------------
LEMMA ContextTypes ==
  ASSUME NEW c \in Context
  PROVE  /\ calcNonce(c) \in NonceSp
         /\ increment(c.sequenceNumber).seq \in NonceSp
         /\ Scratch(c) \in Context
         /\ Advanced(c) \in Context
         /\ \A r \in {Sealer, Opener} : marshal(c, r) \in Serialized
         /\ \A m \in Message : AeadSeal(c, m) \in Ciphertext
<1>1. c.baseNonce \in NonceSp /\ c.sequenceNumber \in NonceSp /\ c.key = Key
  BY DEF Context
<1>2. calcNonce(c) \in NonceSp
  <2>1. \A k \in 1 .. Nn : Xor(c.baseNonce[k], c.sequenceNumber[k]) \in Byte
    BY <1>1, XorAssumption DEF NonceSp
  <2>2. QED
    BY <2>1 DEF calcNonce, NonceSp
<1>3. increment(c.sequenceNumber).seq \in NonceSp
  BY <1>1, SeqTypes DEF increment
<1>4. Scratch(c) \in Context
  BY <1>2 DEF Scratch, Context
<1>5. Advanced(c) \in Context
  BY <1>3, <1>4 DEF Advanced, Context
<1>6. \A r \in {Sealer, Opener} : marshal(c, r) \in Serialized
  BY <1>1 DEF marshal, Serialized
<1>7. \A m \in Message : AeadSeal(c, m) \in Ciphertext
  BY <1>1, <1>2 DEF AeadSeal, Ciphertext
<1>8. QED
  BY <1>2, <1>3, <1>4, <1>5, <1>6, <1>7

LEMMA RestoredTypes ==
  ASSUME NEW b \in Serialized
  PROVE  unmarshal(b) \in Context
BY SeqTypes DEF Serialized, unmarshal, Context

\* Every step keeps every variable in its range.
LEMMA TypeStep == TypeOK /\ [Next]_vars => TypeOK'
<1> SUFFICES ASSUME TypeOK, [Next]_vars PROVE TypeOK'
  OBVIOUS
<1> USE DEF TypeOK
<1>1. ASSUME NEW m \in Message, Seal(m) PROVE TypeOK'
  <2>1. sealer \in Context /\ sealer.sequenceNumber \in NonceSp
    BY <1>1 DEF Seal, Context
  <2>2. sealer' \in Context /\ AeadSeal(sealer, m) \in Ciphertext
    BY <1>1, <2>1, ContextTypes DEF Seal
  <2>3. net' \subseteq Ciphertext
    BY <1>1, <2>2 DEF Seal
  <2> DEFINE rec == [seq |-> sealer.sequenceNumber, ct |-> AeadSeal(sealer, m)]
  <2> DEFINE Recs == [seq : NonceSp, ct : Ciphertext]
  <2>4. rec \in Recs /\ sealed \in Seq(Recs)
    BY <2>1, <2>2
  <2>5. sealed' = sealed \/ sealed' = Append(sealed, rec)
    BY <1>1 DEF Seal
  <2>6. sealed' \in Seq(Recs)
    <3> HIDE DEF rec, Recs, TypeOK
    <3> QED
      BY <2>4, <2>5
  <2>7. QED
    BY <1>1, <2>2, <2>3, <2>6 DEF Seal
<1>2. ASSUME NEW ct \in net, NEW a \in Aad, Open(ct, a) PROVE TypeOK'
  <2>1. opener' \in Context
    BY <1>2, ContextTypes DEF Open
  <2>2. ct.msg \in Message
    BY DEF Ciphertext
  <2>3. opened' \in Seq(Message)
    BY <1>2, <2>2 DEF Open
  <2>4. QED
    BY <1>2, <2>1, <2>3 DEF Open
<1>3. ASSUME NEW ct \in net, NEW a \in Aad, OpenRefused(ct, a) PROVE TypeOK'
  BY <1>3, ContextTypes DEF OpenRefused
<1>4. CASE MarshalSealer
  BY <1>4, ContextTypes DEF MarshalSealer
<1>5. CASE MarshalOpener
  BY <1>5, ContextTypes DEF MarshalOpener
<1>6. ASSUME NEW b \in stored, UnmarshalSealer(b) PROVE TypeOK'
  BY <1>6, RestoredTypes DEF UnmarshalSealer
<1>7. ASSUME NEW b \in stored, UnmarshalOpener(b) PROVE TypeOK'
  BY <1>7, RestoredTypes DEF UnmarshalOpener
<1>8. ASSUME NEW b \in stored, Discard(b) PROVE TypeOK'
  BY <1>8 DEF Discard
<1>9. CASE SealerCrash
  BY <1>9 DEF SealerCrash
<1>10. CASE OpenerCrash
  BY <1>10 DEF OpenerCrash
<1>11. CASE UNCHANGED vars
  BY <1>11 DEF vars
<1>12. QED
  BY <1>1, <1>2, <1>3, <1>4, <1>5, <1>6, <1>7, <1>8, <1>9, <1>10, <1>11 DEF Next

LEMMA TypeInit == Init => TypeOK
<1> SUFFICES ASSUME Init PROVE TypeOK
  OBVIOUS
<1>1. NewContext \in Context
  BY SeqTypes, BaseAssumption DEF NewContext, Context
<1>2. net \subseteq Ciphertext
  BY BaseAssumption DEF Init, Ciphertext
<1>3. QED
  BY <1>1, <1>2 DEF Init, TypeOK

\* Every reachable state is well typed.
THEOREM TypeCorrect == Spec => []TypeOK
<1>1. QED
  BY TypeInit, TypeStep, PTL DEF Spec
-----------------------------------------------------------------------------
LEMMA SealedTypes ==
  ASSUME TypeOK
  PROVE  /\ Len(sealed) \in Nat
         /\ Len(opened) \in Nat
         /\ \A k \in 1 .. Len(sealed) : sealed[k].seq \in NonceSp
<1> DEFINE Recs == [seq : NonceSp, ct : Ciphertext]
<1>1. sealed \in Seq(Recs) /\ opened \in Seq(Message)
  BY DEF TypeOK
<1>2. \A k \in 1 .. Len(sealed) : sealed[k] \in Recs
  <2> HIDE DEF Recs
  <2> QED
    BY <1>1
<1>3. QED
  BY <1>1, <1>2

\* What a ciphertext the opener accepts is: the next message in line.
LEMMA AcceptedIsNext ==
  ASSUME IInv, NEW ct \in net, NEW a \in Aad,
         opener # Absent, AeadOpens(opener, ct, a)
  PROVE  /\ Len(opened) < Len(sealed)
         /\ ct = sealed[Len(opened) + 1].ct
         /\ opener.sequenceNumber = sealed[Len(opened) + 1].seq
         /\ ~AllOnes(opener.sequenceNumber)
<1> DEFINE n == Len(opened)
<1>1. /\ opener \in Context /\ opener.key = Key /\ opener.baseNonce = BaseNonce
      /\ opener.sequenceNumber \in NonceSp
      /\ opener.sequenceNumber = Expected(n)
      /\ n \in Nat /\ Len(sealed) \in Nat /\ n <= Len(sealed)
      /\ \A k \in 1 .. Len(sealed) : sealed[k].seq \in NonceSp
  <2>1. opener \in Context /\ opener.key = Key /\ opener.sequenceNumber \in NonceSp
    BY DEF IInv, TypeOK, Context
  <2>2. opener.baseNonce = BaseNonce /\ opener.sequenceNumber = Expected(n)
    BY DEF IInv, BaseOK, OpenerStands
  <2>3. n \in Nat /\ Len(sealed) \in Nat /\ n <= Len(sealed)
    BY DEF IInv, TypeOK, InOrder
  <2>4. \A k \in 1 .. Len(sealed) : sealed[k].seq \in NonceSp
    BY SealedTypes DEF IInv
  <2>5. QED
    BY <2>1, <2>2, <2>3, <2>4
<1>2. PICK i \in 1 .. Len(sealed) : ct = sealed[i].ct
  BY <1>1 DEF IInv, NetOK, AeadOpens
<1>3. NonceOf(opener.sequenceNumber) = NonceOf(sealed[i].seq)
  <2>1. ct.nonce = calcNonce(opener)
    BY DEF AeadOpens
  <2>2. ct.nonce = NonceOf(sealed[i].seq)
    BY <1>2 DEF IInv, NonceOK
  <2>3. calcNonce(opener) = NonceOf(opener.sequenceNumber)
    BY <1>1, Zenon DEF calcNonce, NonceOf
  <2>4. QED
    BY <2>1, <2>2, <2>3
<1>4. sealed[i].seq = Expected(n)
  BY <1>1, <1>3, NonceInjective
<1>5. n < Len(sealed)
  <2> SUFFICES ASSUME n = Len(sealed) PROVE FALSE
    BY <1>1
  <2>1. n # 0 /\ n \in 1 .. Len(sealed) /\ sealed[n].seq \in NonceSp /\ ~AllOnes(sealed[n].seq)
    BY <1>1, <1>2 DEF IInv, Chain
  <2>2. Less(sealed[n].seq, sealed[i].seq)
    BY <1>4, <2>1, PlusOneUp DEF Expected
  <2>3. CASE i = n
    BY <2>1, <2>2, <2>3, LessIrreflexive
  <2>4. CASE i < n
    <3>1. Less(sealed[i].seq, sealed[n].seq)
      BY <1>2, <2>1, <2>4 DEF IInv, Increasing
    <3>2. QED
      BY <1>1, <2>1, <2>2, <3>1, LessTransitive, LessIrreflexive
  <2>5. QED
    BY <1>1, <1>2, <2>3, <2>4
<1>6. n + 1 \in 1 .. Len(sealed) /\ sealed[n + 1].seq = Expected(n) /\ ~AllOnes(sealed[n + 1].seq)
  <2>1. n + 1 \in 1 .. Len(sealed) /\ (n + 1) - 1 = n
    BY <1>1, <1>5
  <2>2. QED
    BY <2>1 DEF IInv, Chain
<1>7. i = n + 1
  <2> SUFFICES ASSUME i # n + 1 PROVE FALSE
    OBVIOUS
  <2>1. Less(sealed[i].seq, sealed[n + 1].seq) \/ Less(sealed[n + 1].seq, sealed[i].seq)
    BY <1>1, <1>2, <1>6 DEF IInv, Increasing
  <2>2. QED
    BY <1>1, <1>2, <1>4, <1>6, <2>1, LessIrreflexive
<1>8. QED
  BY <1>1, <1>2, <1>5, <1>6, <1>7

LEMMA InvInit == Init => IInv
<1> SUFFICES ASSUME Init PROVE IInv
  OBVIOUS
<1> USE DEF Init
<1>1. TypeOK
  BY TypeInit
<1>2. Len(sealed) = 0 /\ Len(opened) = 0
  OBVIOUS
<1>3. BaseOK
  BY DEF BaseOK, NewContext
<1>4. Chain /\ Increasing /\ NonceOK /\ InOrder
  BY <1>2 DEF Chain, Increasing, NonceOK, InOrder
<1>5. SealerStands /\ OpenerStands
  BY <1>2 DEF SealerStands, OpenerStands, NewContext, Expected
<1>6. NetOK
  BY KeyAssumption DEF NetOK
<1>7. QED
  BY <1>1, <1>3, <1>4, <1>5, <1>6 DEF IInv

\* Sealing a message adds a link to the chain, above all the others.
LEMMA SealStep ==
  ASSUME IInv, TypeOK', NEW m \in Message, Seal(m)
  PROVE  IInv'
<1> SUFFICES ASSUME NEW n \in Nat, n = Len(sealed) PROVE IInv'
  BY SealedTypes DEF IInv
<1> DEFINE rec == [seq |-> sealer.sequenceNumber, ct |-> AeadSeal(sealer, m)]
<1>1. /\ sealer \in Context /\ sealer.key = Key /\ sealer.sequenceNumber \in NonceSp
      /\ sealer.baseNonce = BaseNonce /\ sealer.sequenceNumber = Expected(n)
      /\ \A b \in stored : b.role # Sealer
  BY DEF IInv, TypeOK, BaseOK, SealerStands, Seal, Idle, Context
<1>2. n \in Nat /\ \A k \in 1 .. n : sealed[k].seq \in NonceSp
  BY SealedTypes DEF IInv
<1>3. Advanced(sealer).baseNonce = BaseNonce
      /\ Advanced(sealer).sequenceNumber = increment(sealer.sequenceNumber).seq
  BY <1>1, ContextTypes DEF Advanced, Scratch, Context
<1>4. sealer' # Absent
  BY <1>1, ContextTypes, AbsentAssumption DEF Seal
<1>5. UNCHANGED <<opener, stored, opened>> /\ sealer' = Advanced(sealer)
  BY DEF Seal
<1>6. BaseOK'
  BY <1>3, <1>5 DEF IInv, BaseOK
<1>7. CASE AllOnes(sealer.sequenceNumber)
  <2>1. UNCHANGED <<net, sealed>> /\ sealer'.sequenceNumber = sealer.sequenceNumber
    BY <1>3, <1>7 DEF Seal, increment
  <2>2. Expected(n)' = Expected(n) /\ Expected(Len(opened))' = Expected(Len(opened))
    BY <1>5, <2>1 DEF Expected
  <2>3. Chain' /\ Increasing' /\ NonceOK' /\ NetOK' /\ InOrder'
    BY <1>5, <2>1 DEF IInv, Chain, Increasing, NonceOK, NetOK, InOrder, Expected
  <2>4. SealerStands' /\ OpenerStands'
    BY <1>1, <1>5, <2>1, <2>2 DEF IInv, SealerStands, OpenerStands
  <2>5. QED
    BY <1>6, <2>3, <2>4 DEF IInv
<1>8. CASE ~AllOnes(sealer.sequenceNumber)
  <2>1. /\ sealed' = Append(sealed, rec)
        /\ net' = net \union {AeadSeal(sealer, m)}
        /\ sealer'.sequenceNumber = PlusOne(sealer.sequenceNumber)
    BY <1>3, <1>8 DEF Seal, increment
  <2>2. /\ Len(sealed') = n + 1 /\ sealed'[n + 1] = rec
        /\ \A k \in 1 .. n : sealed'[k] = sealed[k]
    <3> HIDE DEF rec
    <3> QED
      BY <2>1 DEF IInv, TypeOK
  <2>3. \A k \in 0 .. n : Expected(k)' = Expected(k)
    BY <1>2, <2>2 DEF Expected
  <2>4. Chain'
    <3> SUFFICES ASSUME NEW k \in 1 .. n + 1
                 PROVE  sealed'[k].seq = Expected(k - 1)' /\ ~AllOnes(sealed'[k].seq)
      BY <2>2 DEF Chain
    <3>1. CASE k = n + 1
      BY <1>1, <1>2, <1>8, <2>2, <2>3, <3>1
    <3>2. CASE k \in 1 .. n
      BY <1>2, <2>2, <2>3, <3>2 DEF IInv, Chain
    <3>3. QED
      BY <1>2, <3>1, <3>2
  <2>5. \A k \in 1 .. n : Less(sealed[k].seq, rec.seq)
    <3> SUFFICES ASSUME NEW k \in 1 .. n PROVE Less(sealed[k].seq, rec.seq)
      OBVIOUS
    <3>1. n \in 1 .. n /\ sealed[n].seq \in NonceSp /\ ~AllOnes(sealed[n].seq)
          /\ rec.seq = PlusOne(sealed[n].seq) /\ rec.seq \in NonceSp
      BY <1>1, <1>2 DEF IInv, Chain, Expected
    <3>2. Less(sealed[n].seq, rec.seq)
      BY <3>1, PlusOneUp
    <3>3. CASE k = n
      BY <3>2, <3>3
    <3>4. CASE k < n
      <4>1. Less(sealed[k].seq, sealed[n].seq)
        BY <3>1, <3>4 DEF IInv, Increasing
      <4>2. QED
        BY <1>2, <3>1, <3>2, <4>1, LessTransitive
    <3>5. QED
      BY <1>2, <3>3, <3>4
  <2>6. Increasing'
    <3> SUFFICES ASSUME NEW i \in 1 .. n + 1, NEW j \in 1 .. n + 1, i < j
                 PROVE  Less(sealed'[i].seq, sealed'[j].seq)
      BY <2>2 DEF Increasing
    <3>1. CASE j = n + 1
      BY <1>2, <2>2, <2>5, <3>1
    <3>2. CASE j \in 1 .. n
      BY <1>2, <2>2, <3>2 DEF IInv, Increasing
    <3>3. QED
      BY <1>2, <3>1, <3>2
  <2>7. rec.ct.nonce = NonceOf(rec.seq)
    BY <1>1, Zenon DEF AeadSeal, calcNonce, NonceOf
  <2>8. NonceOK'
    <3> SUFFICES ASSUME NEW i \in 1 .. n + 1
                 PROVE  sealed'[i].ct.nonce = NonceOf(sealed'[i].seq)
      BY <2>2 DEF NonceOK
    <3>1. CASE i = n + 1
      BY <2>2, <2>7, <3>1
    <3>2. CASE i \in 1 .. n
      BY <2>2, <3>2 DEF IInv, NonceOK
    <3>3. QED
      BY <1>2, <3>1, <3>2
  <2>9. SealerStands'
    <3>1. Expected(n + 1)' = PlusOne(rec.seq)
      BY <1>2, <2>2 DEF Expected
    <3>2. QED
      BY <1>1, <1>5, <2>1, <2>2, <3>1 DEF SealerStands
  <2>10. Len(opened) \in 0 .. n
    BY <1>2 DEF IInv, TypeOK, InOrder
  <2>11. OpenerStands'
    BY <1>5, <2>3, <2>10 DEF IInv, OpenerStands
  <2>12. NetOK'
    <3> SUFFICES ASSUME NEW ct \in net', ct.key = Key
                 PROVE  \E i \in 1 .. n + 1 : ct = sealed'[i].ct
      BY <2>2 DEF NetOK
    <3>1. CASE ct = AeadSeal(sealer, m)
      BY <1>2, <2>2, <3>1
    <3>2. CASE ct \in net
      BY <1>2, <2>2, <3>2 DEF IInv, NetOK
    <3>3. QED
      BY <2>1, <3>1, <3>2
  <2>13. InOrder'
    BY <1>2, <1>5, <2>2, <2>10 DEF IInv, InOrder
  <2>14. QED
    BY <1>6, <2>4, <2>6, <2>8, <2>9, <2>11, <2>12, <2>13 DEF IInv
<1>9. QED
  BY <1>7, <1>8

\* Opening a message takes the next link.
LEMMA OpenStep ==
  ASSUME IInv, TypeOK', NEW ct \in net, NEW a \in Aad, Open(ct, a)
  PROVE  IInv'
<1> SUFFICES ASSUME NEW n \in Nat, n = Len(opened) PROVE IInv'
  BY SealedTypes DEF IInv
<1>1. /\ n < Len(sealed) /\ ct = sealed[n + 1].ct
      /\ opener.sequenceNumber = sealed[n + 1].seq
      /\ ~AllOnes(opener.sequenceNumber)
  BY AcceptedIsNext DEF Open
<1>2. /\ opener \in Context /\ opener.baseNonce = BaseNonce
      /\ \A b \in stored : b.role # Opener
      /\ n \in Nat /\ Len(sealed) \in Nat
  BY DEF IInv, TypeOK, BaseOK, Open, Idle
<1>3. /\ opener' # Absent /\ opener'.baseNonce = BaseNonce
      /\ opener'.sequenceNumber = PlusOne(sealed[n + 1].seq)
  <2>1. opener' = Advanced(opener) /\ Advanced(opener) \in Context
    BY <1>2, ContextTypes DEF Open
  <2>2. /\ Advanced(opener).baseNonce = BaseNonce
        /\ Advanced(opener).sequenceNumber = PlusOne(opener.sequenceNumber)
    BY <1>1, <1>2 DEF Advanced, Scratch, Context, increment
  <2>3. QED
    BY <1>1, <2>1, <2>2, AbsentAssumption
<1>4. /\ UNCHANGED <<sealer, stored, net, sealed>>
      /\ opened' = Append(opened, ct.msg)
  BY <1>1 DEF Open, increment
<1>5. /\ Len(opened') = n + 1 /\ opened'[n + 1] = ct.msg
      /\ \A k \in 1 .. n : opened'[k] = opened[k]
  BY <1>4 DEF IInv, TypeOK
<1>6. Expected(n + 1)' = PlusOne(sealed[n + 1].seq) /\ Expected(Len(sealed))' = Expected(Len(sealed))
  BY <1>2, <1>4 DEF Expected
<1>7. BaseOK'
  BY <1>3, <1>4 DEF IInv, BaseOK
<1>8. Chain' /\ Increasing' /\ NonceOK' /\ NetOK'
  BY <1>4 DEF IInv, Chain, Increasing, NonceOK, NetOK, Expected
<1>9. SealerStands'
  BY <1>4, <1>6 DEF IInv, SealerStands
<1>10. OpenerStands'
  BY <1>2, <1>3, <1>4, <1>5, <1>6 DEF OpenerStands
<1>11. InOrder'
  <2> SUFFICES ASSUME NEW k \in 1 .. n + 1 PROVE opened'[k] = sealed[k].ct.msg
    BY <1>1, <1>2, <1>4, <1>5 DEF InOrder
  <2>1. CASE k = n + 1
    BY <1>1, <1>5, <2>1
  <2>2. CASE k \in 1 .. n
    BY <1>5, <2>2 DEF IInv, InOrder
  <2>3. QED
    BY <1>2, <2>1, <2>2
<1>12. QED
  BY <1>7, <1>8, <1>9, <1>10, <1>11 DEF IInv

\* The other actions leave both histories alone, and move a context, at the
\* link it stands at, between memory and storage.
LEMMA OtherStep ==
  ASSUME IInv, TypeOK', UNCHANGED <<net, sealed, opened>>, BaseOK', SealerStands', OpenerStands'
  PROVE  IInv'
<1>1. Chain' /\ Increasing' /\ NonceOK' /\ NetOK' /\ InOrder'
  BY DEF IInv, Chain, Increasing, NonceOK, NetOK, InOrder, Expected
<1>2. QED
  BY <1>1 DEF IInv

LEMMA InvStep == IInv /\ [Next]_vars => IInv'
<1> SUFFICES ASSUME IInv, [Next]_vars PROVE IInv'
  OBVIOUS
<1>1. TypeOK'
  BY TypeStep DEF IInv
<1>2. ASSUME NEW m \in Message, Seal(m) PROVE IInv'
  BY <1>1, <1>2, SealStep
<1>3. ASSUME NEW ct \in net, NEW a \in Aad, Open(ct, a) PROVE IInv'
  BY <1>1, <1>3, OpenStep
<1>4. UNCHANGED <<sealed, opened>>
      => Expected(Len(sealed))' = Expected(Len(sealed)) /\ Expected(Len(opened))' = Expected(Len(opened))
  BY DEF Expected
<1> USE DEF IInv, BaseOK, SealerStands, OpenerStands
<1>5. ASSUME NEW ct \in net, NEW a \in Aad, OpenRefused(ct, a) PROVE IInv'
  <2>1. opener \in Context /\ opener' = Scratch(opener)
    BY <1>5 DEF TypeOK, OpenRefused
  <2>2. opener'.baseNonce = opener.baseNonce /\ opener'.sequenceNumber = opener.sequenceNumber
    BY <2>1 DEF Scratch, Context
  <2>3. QED
    BY <1>1, <1>4, <1>5, <2>2, OtherStep DEF OpenRefused
<1>6. CASE MarshalSealer
  BY <1>1, <1>4, <1>6, OtherStep DEF MarshalSealer, marshal, Sealer, Opener
<1>7. CASE MarshalOpener
  BY <1>1, <1>4, <1>7, OtherStep DEF MarshalOpener, marshal, Sealer, Opener
<1>8. ASSUME NEW b \in stored, UnmarshalSealer(b) PROVE IInv'
  BY <1>1, <1>4, <1>8, OtherStep DEF UnmarshalSealer, unmarshal
<1>9. ASSUME NEW b \in stored, UnmarshalOpener(b) PROVE IInv'
  BY <1>1, <1>4, <1>9, OtherStep DEF UnmarshalOpener, unmarshal
<1>10. ASSUME NEW b \in stored, Discard(b) PROVE IInv'
  BY <1>1, <1>4, <1>10, OtherStep DEF Discard
<1>11. CASE SealerCrash
  BY <1>1, <1>4, <1>11, OtherStep DEF SealerCrash
<1>12. CASE OpenerCrash
  BY <1>1, <1>4, <1>12, OtherStep DEF OpenerCrash
<1>13. CASE UNCHANGED vars
  BY <1>1, <1>4, <1>13, OtherStep DEF vars
<1>14. QED
  BY <1>2, <1>3, <1>5, <1>6, <1>7, <1>8, <1>9, <1>10, <1>11, <1>12, <1>13 DEF Next
-----------------------------------------------------------------------------
LEMMA Invariance == Spec => []IInv
BY InvInit, InvStep, PTL DEF Spec

\* No two ciphertexts ever returned by Seal share a nonce.
THEOREM NonceUnique == Spec => []NonceNeverReused
<1>1. IInv => NonceNeverReused
  <2> SUFFICES ASSUME IInv, NEW i \in 1 .. Len(sealed), NEW j \in 1 .. Len(sealed),
                      sealed[i].ct.nonce = sealed[j].ct.nonce, i # j
               PROVE  FALSE
    BY DEF NonceNeverReused
  <2>1. sealed[i].seq \in NonceSp /\ sealed[j].seq \in NonceSp /\ i \in Int /\ j \in Int
    BY SealedTypes DEF IInv
  <2>2. sealed[i].seq = sealed[j].seq
    BY <2>1, NonceInjective DEF IInv, NonceOK
  <2>3. Less(sealed[i].seq, sealed[j].seq) \/ Less(sealed[j].seq, sealed[i].seq)
    BY <2>1 DEF IInv, Increasing
  <2>4. QED
    BY <2>1, <2>2, <2>3, LessIrreflexive
<1>2. QED
  BY <1>1, Invariance, PTL

\* The opener always waits for the nonce of the next message not yet opened.
THEOREM InStep == Spec => []OpenerInStep
<1>1. IInv => OpenerInStep
  <2> SUFFICES ASSUME IInv, opener # Absent, NEW n \in Nat, n = Len(opened), n < Len(sealed)
               PROVE  calcNonce(opener) = sealed[n + 1].ct.nonce
    BY SealedTypes DEF OpenerInStep, IInv
  <2>1. n + 1 \in 1 .. Len(sealed) /\ (n + 1) - 1 = n
    BY SealedTypes DEF IInv
  <2>2. sealed[n + 1].seq = Expected(n) /\ sealed[n + 1].ct.nonce = NonceOf(sealed[n + 1].seq)
    BY <2>1 DEF IInv, Chain, NonceOK
  <2>3. opener.sequenceNumber = Expected(n) /\ opener.baseNonce = BaseNonce
    BY DEF IInv, OpenerStands, BaseOK
  <2>4. calcNonce(opener) = NonceOf(opener.sequenceNumber)
    BY <2>3, Zenon DEF calcNonce, NonceOf
  <2>5. QED
    BY <2>2, <2>3, <2>4
<1>2. QED
  BY <1>1, Invariance, PTL

-----------------------------------------------------------------------------
(* The sequence number counts *)

\* f gives the number that each front part of s stands for.
Reads(f, s) == /\ f \in [0 .. Nn -> Nat] /\ f[0] = 0
               /\ \A k \in 0 .. Nn - 1 : f[k + 1] = f[k] * Radix + s[k + 1]

LEMMA ValueReads ==
  ASSUME NEW s \in NonceSp
  PROVE  \E f : Reads(f, s) /\ Value(s) = f[Nn]
<1> DEFINE G == [x \in Nat \X Nat |-> IF x[1] < Nn THEN x[2] * Radix + s[x[1] + 1] ELSE 0]
           Body(f) == [n \in 0 .. Nn |-> IF n = 0 THEN 0 ELSE f[n - 1] * Radix + s[n]]
<1>1. Nn \in Nat /\ Radix \in Nat /\ \A k \in 1 .. Nn : s[k] \in Nat
  BY RadixAssumption, NnAssumption DEF NonceSp, Byte
<1>2. G \in [Nat \X Nat -> Nat]
  BY <1>1
<1>3. PICK f \in [0 .. Nn -> Nat] : Follows(f, 0, G, Nn)
  <2> HIDE DEF G
  <2>1. QED
    BY <1>1, <1>2, RecursionUpTo
<1>4. f[0] = 0 /\ \A k \in 0 .. Nn - 1 : f[k + 1] = f[k] * Radix + s[k + 1]
  <2>1. ASSUME NEW k \in 0 .. Nn - 1 PROVE f[k + 1] = f[k] * Radix + s[k + 1]
    <3>1. k \in Nat /\ k < Nn /\ k \in 0 .. Nn
      BY <1>1
    <3>2. <<k, f[k]>> \in Nat \X Nat
      BY <1>3, <3>1
    <3>3. f[k + 1] = G[<<k, f[k]>>]
      BY <1>3, <2>1 DEF Follows
    <3>4. QED
      BY <3>1, <3>2, <3>3
  <2>2. QED
    BY <1>3, <2>1 DEF Follows
<1>5. f = Body(f)
  <2>1. ASSUME NEW n \in 0 .. Nn PROVE f[n] = (IF n = 0 THEN 0 ELSE f[n - 1] * Radix + s[n])
    <3>1. n # 0 => n - 1 \in 0 .. Nn - 1 /\ (n - 1) + 1 = n
      BY <1>1
    <3>2. QED
      BY <1>4, <3>1
  <2>2. QED
    BY <2>1
<1> DEFINE v == CHOOSE g : g = Body(g)
<1>6. v = Body(v)
  <2> HIDE DEF Body
  <2>1. QED
    BY <1>5
<1>7. Value(s) = v[Nn]
  BY DEF Value
<1> HIDE DEF v
<1>8. \A n \in 0 .. Nn : v[n] = IF n = 0 THEN 0 ELSE v[n - 1] * Radix + s[n]
  BY <1>6
<1>9. v[0] = 0 /\ \A k \in 0 .. Nn - 1 : v[k + 1] = v[k] * Radix + s[k + 1]
  <2>1. 0 \in 0 .. Nn
    BY <1>1
  <2>2. \A k \in 0 .. Nn - 1 : k + 1 \in 0 .. Nn /\ k + 1 # 0 /\ (k + 1) - 1 = k
    BY <1>1
  <2>3. QED
    BY <1>8, <2>1, <2>2
<1>10. v \in [0 .. Nn -> Nat]
  <2> DEFINE S == {n \in Nat : n <= Nn => v[n] \in Nat}
  <2>1. 0 \in S
    BY <1>9
  <2>2. ASSUME NEW n \in Nat, n \in S PROVE n + 1 \in S
    <3> SUFFICES ASSUME n + 1 <= Nn PROVE v[n + 1] \in Nat
      OBVIOUS
    <3>1. n \in 0 .. Nn - 1 /\ n + 1 \in 1 .. Nn /\ v[n] \in Nat
      BY <1>1, <2>2
    <3>2. v[n + 1] = v[n] * Radix + s[n + 1] /\ s[n + 1] \in Nat
      BY <1>1, <1>9, <3>1
    <3>3. v[n] * Radix \in Nat
      BY <1>1, <3>1
    <3>4. QED
      BY <3>2, <3>3
  <2> HIDE DEF S
  <2>3. Nat \subseteq S
    BY <2>1, <2>2, Induction
  <2>4. \A n \in 0 .. Nn : v[n] \in Nat
    <3>1. \A n \in 0 .. Nn : n \in S /\ n <= Nn
      BY <1>1, <2>3
    <3>2. QED
      BY <3>1 DEF S
  <2>5. v = [n \in 0 .. Nn |-> v[n]]
    BY <1>6
  <2>6. QED
    BY <2>4, <2>5
<1>11. Reads(v, s)
  BY <1>9, <1>10 DEF Reads
<1>12. QED
  BY <1>7, <1>11

LEMMA ValueZero == Value(Zero) = 0
<1>1. Nn \in Nat /\ Radix \in Nat /\ Zero \in NonceSp
  BY RadixAssumption, NnAssumption, SeqTypes
<1>2. PICK f : Reads(f, Zero) /\ Value(Zero) = f[Nn]
  BY <1>1, ValueReads
<1> DEFINE S == {n \in Nat : n <= Nn => f[n] = 0}
<1>3. 0 \in S
  BY <1>2 DEF Reads
<1>4. ASSUME NEW n \in Nat, n \in S PROVE n + 1 \in S
  <2> SUFFICES ASSUME n + 1 <= Nn PROVE f[n + 1] = 0
    OBVIOUS
  <2>1. n \in 0 .. Nn - 1 /\ n + 1 \in 1 .. Nn /\ f[n] = 0
    BY <1>1, <1>4
  <2>2. f[n + 1] = 0 * Radix + Zero[n + 1] /\ Zero[n + 1] = 0
    BY <1>2, <2>1 DEF Reads, Zero
  <2>3. QED
    BY <1>1, <2>2
<1> HIDE DEF S
<1>5. Nn \in S
  BY <1>1, <1>3, <1>4, Induction
<1>6. QED
  BY <1>1, <1>2, <1>5 DEF S

\* increment adds one to the number.
LEMMA ValuePlusOne ==
  ASSUME NEW s \in NonceSp, ~AllOnes(s)
  PROVE  Value(PlusOne(s)) = Value(s) + 1
<1> DEFINE t == PlusOne(s)
<1>1. Nn \in Nat /\ Radix \in Nat /\ Radix >= 2 /\ t \in NonceSp
  BY RadixAssumption, NnAssumption, SeqTypes
<1>2. PICK f : Reads(f, s) /\ Value(s) = f[Nn]
  BY ValueReads
<1>3. PICK g : Reads(g, t) /\ Value(t) = g[Nn]
  BY <1>1, ValueReads
<1>4. PICK i \in 1 .. Nn : s[i] # Radix - 1 /\ \A j \in i + 1 .. Nn : s[j] = Radix - 1
  BY LastNotFull
<1>5. \A k \in 1 .. Nn : s[k] \in 0 .. Radix - 1
  BY DEF NonceSp, Byte
<1>6. \A k \in 1 .. Nn : k < i => t[k] = s[k]
  <2> TAKE k \in 1 .. Nn
  <2> SUFFICES ASSUME k < i PROVE t[k] = s[k]
    OBVIOUS
  <2>1. i \in k + 1 .. Nn
    BY <1>1, <1>4
  <2>2. QED
    BY <1>4, <2>1 DEF PlusOne
<1>7. t[i] = s[i] + 1
  <2>1. s[i] \in Nat /\ s[i] + 1 < Radix /\ (s[i] + 1) % Radix = s[i] + 1
    BY <1>1, <1>4, <1>5
  <2>2. QED
    BY <1>4, <2>1 DEF PlusOne
<1>8. \A k \in 1 .. Nn : k > i => t[k] = 0 /\ s[k] = Radix - 1
  <2> TAKE k \in 1 .. Nn
  <2> SUFFICES ASSUME k > i PROVE t[k] = 0 /\ s[k] = Radix - 1
    OBVIOUS
  <2>1. k \in i + 1 .. Nn /\ \A j \in k + 1 .. Nn : j \in i + 1 .. Nn
    BY <1>1, <1>4
  <2>2. s[k] = Radix - 1 /\ \A j \in k + 1 .. Nn : s[j] = Radix - 1
    BY <1>4, <2>1
  <2>3. (s[k] + 1) % Radix = 0
    BY <1>1, <2>2
  <2>4. QED
    BY <2>2, <2>3 DEF PlusOne
<1> HIDE DEF t
<1> DEFINE S == {n \in Nat : n <= Nn => g[n] = IF n < i THEN f[n] ELSE f[n] + 1}
<1>9. 0 \in S
  BY <1>2, <1>3 DEF Reads
<1>10. ASSUME NEW n \in Nat, n \in S PROVE n + 1 \in S
  <2> SUFFICES ASSUME n + 1 <= Nn PROVE g[n + 1] = IF n + 1 < i THEN f[n + 1] ELSE f[n + 1] + 1
    OBVIOUS
  <2>1. n \in 0 .. Nn - 1 /\ n \in 0 .. Nn /\ n + 1 \in 1 .. Nn
    BY <1>1
  <2>2. g[n] = IF n < i THEN f[n] ELSE f[n] + 1
    BY <1>1, <1>10
  <2>3. f[n + 1] = f[n] * Radix + s[n + 1] /\ g[n + 1] = g[n] * Radix + t[n + 1] /\ f[n] \in Nat
    BY <1>2, <1>3, <2>1 DEF Reads
  <2>4. s[n + 1] \in Nat
    BY <1>1, <1>5, <2>1
  <2>5. CASE n + 1 < i
    BY <1>6, <2>1, <2>2, <2>3, <2>5
  <2>6. CASE n + 1 = i
    <3>1. t[n + 1] = s[n + 1] + 1
      BY <1>7, <2>6
    <3>2. g[n] = f[n]
      BY <2>2, <2>6
    <3> DEFINE c == f[n] * Radix
    <3>3. c \in Nat
      BY <1>1, <2>3
    <3>4. f[n + 1] = c + s[n + 1] /\ g[n + 1] = c + t[n + 1]
      BY <2>3, <3>2
    <3> HIDE DEF c
    <3>5. g[n + 1] = f[n + 1] + 1
      BY <2>4, <3>1, <3>3, <3>4
    <3>6. QED
      BY <2>6, <3>5
  <2>7. CASE n + 1 > i
    <3>1. t[n + 1] = 0 /\ s[n + 1] = Radix - 1
      BY <1>8, <2>1, <2>7
    <3>2. g[n] = f[n] + 1
      BY <1>4, <2>2, <2>7
    <3>3. (f[n] + 1) * Radix = f[n] * Radix + Radix /\ f[n] * Radix \in Nat
      BY <1>1, <2>3
    <3>4. g[n + 1] = f[n + 1] + 1
      BY <1>1, <2>3, <3>1, <3>2, <3>3
    <3>5. QED
      BY <1>4, <2>7, <3>4
  <2>8. QED
    BY <1>4, <2>5, <2>6, <2>7
<1> HIDE DEF S
<1>11. Nn \in S
  BY <1>1, <1>9, <1>10, Induction
<1>12. g[Nn] = f[Nn] + 1
  <2>1. g[Nn] = IF Nn < i THEN f[Nn] ELSE f[Nn] + 1
    BY <1>1, <1>11 DEF S
  <2>2. QED
    BY <1>1, <1>4, <2>1
<1>13. QED
  BY <1>2, <1>3, <1>12 DEF t

\* The link after n messages is number n.
LEMMA ExpectedValue ==
  ASSUME IInv, NEW n \in Nat, n <= Len(sealed)
  PROVE  Value(Expected(n)) = n
<1> DEFINE S == {k \in Nat : k <= Len(sealed) => Value(Expected(k)) = k}
<1>1. Len(sealed) \in Nat
  BY SealedTypes DEF IInv
<1>2. 0 \in S
  BY ValueZero DEF Expected
<1>3. ASSUME NEW k \in Nat, k \in S PROVE k + 1 \in S
  <2> SUFFICES ASSUME k + 1 <= Len(sealed) PROVE Value(Expected(k + 1)) = k + 1
    OBVIOUS
  <2>1. k + 1 \in 1 .. Len(sealed) /\ (k + 1) - 1 = k /\ k <= Len(sealed) /\ k + 1 # 0
    BY <1>1
  <2>2. sealed[k + 1].seq \in NonceSp /\ sealed[k + 1].seq = Expected(k) /\ ~AllOnes(sealed[k + 1].seq)
    BY <2>1, SealedTypes DEF IInv, Chain
  <2>3. Value(PlusOne(sealed[k + 1].seq)) = Value(sealed[k + 1].seq) + 1
    BY <2>2, ValuePlusOne
  <2>4. Value(Expected(k)) = k
    BY <1>3, <2>1
  <2>5. QED
    BY <2>1, <2>2, <2>3, <2>4 DEF Expected
<1> HIDE DEF S
<1>4. n \in S
  BY <1>2, <1>3, Induction
<1>5. QED
  BY <1>4 DEF S

\* The sequence number of either end, as an integer, is the number of messages
\* it returned, for every width and number of bytes: it never wraps around.
THEOREM SeqCounts == Spec => []SeqCountsMessages
<1>1. IInv => SeqCountsMessages
  <2> SUFFICES ASSUME IInv PROVE SeqCountsMessages
    OBVIOUS
  <2>1. Len(sealed) \in Nat /\ Len(opened) \in Nat /\ Len(opened) <= Len(sealed)
    BY SealedTypes DEF IInv, InOrder
  <2>2. Value(Expected(Len(sealed))) = Len(sealed) /\ Value(Expected(Len(opened))) = Len(opened)
    BY <2>1, ExpectedValue
  <2>3. QED
    BY <2>2 DEF IInv, SealerStands, OpenerStands, SeqCountsMessages
<1>2. QED
  BY <1>1, Invariance, PTL

\* The contexts and the network implement the FIFO channel: a Seal that
\* returns is a Send, an Open that returns is a Receive, all else stutters.
THEOREM Refinement == Spec => FifoChannel
<1>1. Init => Channel!Init
  <2> SUFFICES ASSUME Init PROVE SentMessages = <<>> /\ opened = <<>>
    BY DEF Channel!Init
  <2>1. QED
    BY DEF Init, SentMessages
<1>2. IInv /\ [Next]_vars => [Channel!Next]_Channel!vars
  <2> SUFFICES ASSUME IInv, [Next]_vars
               PROVE  Channel!Next \/ UNCHANGED <<SentMessages, opened>>
    BY DEF Channel!vars
  <2>1. ASSUME NEW m \in Message, Seal(m) PROVE Channel!Next \/ UNCHANGED <<SentMessages, opened>>
    <3>1. CASE UNCHANGED sealed
      BY <2>1, <3>1 DEF Seal, SentMessages
    <3>2. CASE ~UNCHANGED sealed
      <4> SUFFICES ASSUME NEW n \in Nat, n = Len(sealed) PROVE Channel!Send(m)
        BY SealedTypes DEF IInv, Channel!Next
      <4> DEFINE rec == [seq |-> sealer.sequenceNumber, ct |-> AeadSeal(sealer, m)]
      <4>1. sealed' = Append(sealed, rec) /\ UNCHANGED opened
        BY <2>1, <3>2 DEF Seal
      <4>2. Len(sealed') = n + 1 /\ sealed'[n + 1] = rec
            /\ \A k \in 1 .. n : sealed'[k] = sealed[k]
        <5> HIDE DEF rec
        <5> QED
          BY <4>1 DEF IInv, TypeOK
      <4>3. rec.ct.msg = m
        BY DEF AeadSeal
      <4> DEFINE new == [i \in 1 .. n + 1 |-> IF i = n + 1 THEN m ELSE sealed[i].ct.msg]
      <4>4. SentMessages' = new
        <5>1. SentMessages' = [i \in 1 .. n + 1 |-> sealed'[i].ct.msg]
          BY <4>2 DEF SentMessages
        <5>2. \A i \in 1 .. n + 1 : sealed'[i].ct.msg = new[i]
          BY <4>2, <4>3
        <5>3. QED
          BY <5>1, <5>2
      <4>5. Append(SentMessages, m) = new
        <5>1. SentMessages = [i \in 1 .. n |-> sealed[i].ct.msg] /\ Len(SentMessages) = n
          BY DEF SentMessages
        <5>2. QED
          BY <5>1
      <4>6. QED
        BY <4>1, <4>4, <4>5 DEF Channel!Send
    <3>3. QED
      BY <3>1, <3>2
  <2>2. ASSUME NEW ct \in net, NEW a \in Aad, Open(ct, a)
        PROVE  Channel!Next
    <3>1. /\ Len(opened) < Len(sealed) /\ ct = sealed[Len(opened) + 1].ct
          /\ ~AllOnes(opener.sequenceNumber)
      BY <2>2, AcceptedIsNext DEF Open
    <3>2. opened' = Append(opened, ct.msg) /\ UNCHANGED sealed
      BY <2>2, <3>1 DEF Open, increment
    <3>3. Len(SentMessages) = Len(sealed) /\ SentMessages[Len(opened) + 1] = ct.msg
      BY <3>1, SealedTypes DEF SentMessages, IInv
    <3>4. UNCHANGED SentMessages
      BY <3>2 DEF SentMessages
    <3>5. QED
      BY <3>1, <3>2, <3>3, <3>4 DEF Channel!Next, Channel!Receive
  <2>3. ASSUME UNCHANGED <<sealed, opened>> PROVE UNCHANGED <<SentMessages, opened>>
    BY <2>3 DEF SentMessages
  <2>4. QED
    BY <2>1, <2>2, <2>3 DEF Next, vars, OpenRefused, MarshalSealer, MarshalOpener,
       UnmarshalSealer, UnmarshalOpener, Discard, SealerCrash, OpenerCrash
<1>3. QED
  BY <1>1, <1>2, Invariance, PTL DEF Spec, FifoChannel, Channel!Spec
-----------------------------------------------------------------------------
(* The setup methods. *)

\* The context key as a function of what the caller of Setup asked for.
KeyOf(enc, c, pk, info) ==
  [ss |-> [seed |-> enc, pk |-> pk, auth |-> c.auth],
   mode |-> c.modeID, psk |-> c.psk, pskID |-> c.pskID, info |-> info]

\* The inductive invariant: the key of each context is that of its call, with the
\* receiver and the information its object was made with.
KeysOfCalls ==
  /\ \A x \in sealers : x.call \in Call /\ x.key = KeyOf(x.enc, x.call, conf.pkR, conf.infoS)
  /\ \A y \in openers : y.call \in Call /\ y.key = KeyOf(y.enc, y.call, conf.skR, conf.infoR)

-----------------------------------------------------------------------------
\* A call gives the fields that its mode has, and the other ones are Empty.
LEMMA CallFields ==
  ASSUME NEW c \in Call
  PROVE  /\ c = [modeID |-> c.modeID, auth |-> c.auth, psk |-> c.psk, pskID |-> c.pskID]
         /\ c.modeID \notin AuthModes => c.auth = Empty
         /\ c.modeID \notin PskModes => c.psk = Empty /\ c.pskID = Empty
<1>1. CASE c \in [modeID : {modeBase}, auth : {Empty}, psk : {Empty}, pskID : {Empty}]
  BY <1>1
<1>2. CASE c \in [modeID : {modeAuth}, auth : SenderKey, psk : {Empty}, pskID : {Empty}]
  BY <1>2 DEF modeAuth, AuthModes
<1>3. CASE c \in [modeID : {modePSK}, auth : {Empty}, psk : Psk, pskID : PskId]
  BY <1>3 DEF modePSK, PskModes
<1>4. CASE c \in [modeID : {modeAuthPSK}, auth : SenderKey, psk : Psk, pskID : PskId]
  BY <1>4 DEF modeAuthPSK, PskModes, AuthModes
<1>5. QED
  BY <1>1, <1>2, <1>3, <1>4 DEF Call

(* What an earlier call left in the object is overwritten or, where the     *)
(* call succeeds, Empty: the key schedule sees the call alone.              *)
LEMMA KeyOfCall ==
  ASSUME NEW c \in Call, NEW st, NEW enc, NEW pk, NEW info, Accepted(Store(st, c))
  PROVE  keySchedule(Secret(enc, pk, Store(st, c)), Store(st, c), info) = KeyOf(enc, c, pk, info)
<1> DEFINE new == Store(st, c)
<1>1. new.modeID = c.modeID
  BY DEF Store
<1>2. (IF new.modeID \in AuthModes THEN new.auth ELSE Empty) = c.auth
  BY CallFields DEF Store
<1>3. new.psk = c.psk /\ new.pskID = c.pskID
  <2>1. CASE c.modeID \in PskModes
    BY <2>1 DEF Store
  <2>2. CASE c.modeID \notin PskModes
    <3>1. ~(new.psk # Empty) /\ ~(new.pskID # Empty)
      BY <1>1, <2>2 DEF Accepted, verifyPSKInputs
    <3>2. QED
      BY <2>2, <3>1, CallFields
  <2>3. QED
    BY <2>1, <2>2
<1> HIDE DEF new
<1>4. keySchedule(Secret(enc, pk, new), new, info) = KeyOf(enc, c, pk, info)
  BY <1>1, <1>2, <1>3 DEF keySchedule, Secret, KeyOf
<1>5. QED
  BY <1>4 DEF new

\* A key tells the calls apart, and everything else that goes into it.
LEMMA KeyOfInjective ==
  ASSUME NEW c \in Call, NEW d \in Call, NEW e, NEW f, NEW p, NEW q, NEW i, NEW j
  PROVE  KeyOf(e, c, p, i) = KeyOf(f, d, q, j) <=> e = f /\ c = d /\ p = q /\ i = j
<1>1. ASSUME KeyOf(e, c, p, i) = KeyOf(f, d, q, j)
      PROVE  e = f /\ c = d /\ p = q /\ i = j
  <2> DEFINE x == KeyOf(e, c, p, i)
             y == KeyOf(f, d, q, j)
  <2>1. x.ss.seed = e /\ x.ss.pk = p /\ x.ss.auth = c.auth /\ x.mode = c.modeID
        /\ x.psk = c.psk /\ x.pskID = c.pskID /\ x.info = i
    BY DEF KeyOf
  <2>2. y.ss.seed = f /\ y.ss.pk = q /\ y.ss.auth = d.auth /\ y.mode = d.modeID
        /\ y.psk = d.psk /\ y.pskID = d.pskID /\ y.info = j
    BY DEF KeyOf
  <2> HIDE DEF x, y
  <2>3. x = y
    BY <1>1 DEF x, y
  <2>4. e = f /\ p = q /\ i = j
    BY <2>1, <2>2, <2>3
  <2>5. c = d
    BY <2>1, <2>2, <2>3, CallFields
  <2>6. QED
    BY <2>4, <2>5
<1>2. QED
  BY <1>1
-----------------------------------------------------------------------------
LEMMA KeysInit == SetupInit => KeysOfCalls
  BY DEF SetupInit, KeysOfCalls

LEMMA KeysNext == KeysOfCalls /\ [SetupNext]_setupVars => KeysOfCalls'
<1> SUFFICES ASSUME KeysOfCalls, [SetupNext]_setupVars PROVE KeysOfCalls'
  OBVIOUS
<1>1. ASSUME NEW c \in Call, SenderSetup(c) PROVE KeysOfCalls'
  <2>1. /\ sender' = Store(sender, c) /\ conf' = conf /\ openers' = openers
        /\ sealers' = sealers \union
             {[enc |-> calls, call |-> c,
               key |-> keySchedule(Secret(calls, conf.pkR, sender'), sender', conf.infoS)]}
    BY <1>1 DEF SenderSetup
  <2>2. Accepted(Store(sender, c))
    BY <1>1, <2>1 DEF SenderSetup, Accepted
  <2>3. keySchedule(Secret(calls, conf.pkR, sender'), sender', conf.infoS) = KeyOf(calls, c, conf.pkR, conf.infoS)
    BY <2>1, <2>2, KeyOfCall
  <2>4. ASSUME NEW x \in sealers'
        PROVE  x.call \in Call /\ x.key = KeyOf(x.enc, x.call, conf.pkR, conf.infoS)
    BY <2>1, <2>3 DEF KeysOfCalls
  <2>5. QED
    BY <2>1, <2>4 DEF KeysOfCalls
<1>2. ASSUME NEW c \in Call, NEW enc, ReceiverSetup(c, enc) PROVE KeysOfCalls'
  <2>1. /\ receiver' = Store(receiver, c) /\ conf' = conf /\ sealers' = sealers
        /\ openers' = openers \union
             {[enc |-> enc, call |-> c,
               key |-> keySchedule(Secret(enc, conf.skR, receiver'), receiver', conf.infoR)]}
    BY <1>2 DEF ReceiverSetup
  <2>2. Accepted(Store(receiver, c))
    BY <1>2, <2>1 DEF ReceiverSetup, Accepted
  <2>3. keySchedule(Secret(enc, conf.skR, receiver'), receiver', conf.infoR) = KeyOf(enc, c, conf.skR, conf.infoR)
    BY <2>1, <2>2, KeyOfCall
  <2>4. ASSUME NEW y \in openers'
        PROVE  y.call \in Call /\ y.key = KeyOf(y.enc, y.call, conf.skR, conf.infoR)
    BY <2>1, <2>3 DEF KeysOfCalls
  <2>5. QED
    BY <2>1, <2>4 DEF KeysOfCalls
<1>3. ASSUME NEW c \in Call, SenderSetupFails(c) \/ ReceiverSetupFails(c) PROVE KeysOfCalls'
  BY <1>3 DEF SenderSetupFails, ReceiverSetupFails, KeysOfCalls
<1>4. CASE UNCHANGED setupVars
  BY <1>4 DEF setupVars, KeysOfCalls
<1>5. QED
  BY <1>1, <1>2, <1>3, <1>4 DEF SetupNext

\* Two contexts share a key exactly when both callers asked for the same thing of a
\* matching pair of objects, whatever the two objects were used for before.
THEOREM KeysAgree == SetupSpec => []KeyAgreement
<1>1. KeysOfCalls => KeyAgreement
  <2> SUFFICES ASSUME KeysOfCalls, NEW x \in sealers, NEW y \in openers
               PROVE  x.key = y.key <=> /\ x.enc = y.enc
                                        /\ x.call = y.call
                                        /\ conf.pkR = conf.skR
                                        /\ conf.infoS = conf.infoR
    BY DEF KeyAgreement
  <2>1. x.call \in Call /\ x.key = KeyOf(x.enc, x.call, conf.pkR, conf.infoS)
    BY DEF KeysOfCalls
  <2>2. y.call \in Call /\ y.key = KeyOf(y.enc, y.call, conf.skR, conf.infoR)
    BY DEF KeysOfCalls
  <2>3. QED
    BY <2>1, <2>2, KeyOfInjective
<1>2. QED
  BY <1>1, KeysInit, KeysNext, PTL DEF SetupSpec

\* No context is made in a mode without a PSK by an object that still holds
\* one, neither by the Sender's nor by the Receiver's.
THEOREM StalePskNeverUsed == SetupSpec => StalePskRefused
<1> DEFINE SealersRight == \A x \in (sealers' \ sealers) : x.call.modeID \notin PskModes
                             => sender.psk = Empty /\ sender.pskID = Empty
           OpenersRight == \A y \in (openers' \ openers) : y.call.modeID \notin PskModes
                             => receiver.psk = Empty /\ receiver.pskID = Empty
<1>1. ASSUME [SetupNext]_setupVars, NEW x \in (sealers' \ sealers), x.call.modeID \notin PskModes
      PROVE  sender.psk = Empty /\ sender.pskID = Empty
  <2>1. PICK c \in Call : SenderSetup(c)
    BY <1>1 DEF SetupNext, SenderSetupFails, ReceiverSetupFails, ReceiverSetup, setupVars
  <2>2. x.call = c /\ sender' = Store(sender, c)
    BY <1>1, <2>1 DEF SenderSetup
  <2>3. sender'.psk = sender.psk /\ sender'.pskID = sender.pskID /\ sender'.modeID \notin PskModes
    BY <1>1, <2>2 DEF Store
  <2>4. verifyPSKInputs(sender')
    BY <2>1 DEF SenderSetup, Accepted
  <2>5. QED
    BY <2>3, <2>4 DEF verifyPSKInputs
<1>2. ASSUME [SetupNext]_setupVars, NEW y \in (openers' \ openers), y.call.modeID \notin PskModes
      PROVE  receiver.psk = Empty /\ receiver.pskID = Empty
  <2>1. PICK c \in Call, enc \in {z.enc : z \in sealers} : ReceiverSetup(c, enc)
    BY <1>2 DEF SetupNext, SenderSetup, SenderSetupFails, ReceiverSetupFails, setupVars
  <2>2. y.call = c /\ receiver' = Store(receiver, c)
    BY <1>2, <2>1 DEF ReceiverSetup
  <2>3. /\ receiver'.psk = receiver.psk
        /\ receiver'.pskID = receiver.pskID
        /\ receiver'.modeID \notin PskModes
    BY <1>2, <2>2 DEF Store
  <2>4. verifyPSKInputs(receiver')
    BY <2>1 DEF ReceiverSetup, Accepted
  <2>5. QED
    BY <2>3, <2>4 DEF verifyPSKInputs
<1>3. [SetupNext]_setupVars => [SealersRight /\ OpenersRight]_setupVars
  BY <1>1, <1>2
<1>4. QED
  BY <1>3, PTL DEF SetupSpec, StalePskRefused
=============================================================================
