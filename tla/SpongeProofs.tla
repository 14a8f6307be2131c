---------------------------- MODULE SpongeProofs ----------------------------
(***************************************************************************)
(* For every rate, message and way of cutting writes and reads: the        *)
(* buffered sponge keeps its types, always has room to pad, and implements *)
(* the output stream of the sponge construction.                           *)
(*                                                                         *)
(* The argument: while absorbing, the absorbed blocks, the buffer and what *)
(* is pending are consecutive pieces of the message; while squeezing, the  *)
(* blocks are the padded message, the storage is the current output block, *)
(* and what was read ends where the buffer begins.                         *)
(***************************************************************************)
EXTENDS Sponge, TLAPS

AbsorbInv ==
  d.state = spongeAbsorbing =>
    LET n == Len(d.a.blocks)
    IN  /\ d.a.squeezes = 0 /\ out = <<>> /\ wanted = 0
        /\ Len(msg) = n * rate + d.bufe + Len(pending)
        /\ \A j \in 1 .. n, i \in Place : d.a.blocks[j][i] = msg[(j - 1) * rate + i + 1]
        /\ \A i \in 0 .. d.bufe - 1 : d.storage[i] = msg[n * rate + i + 1]
        /\ \A i \in 1 .. Len(pending) : pending[i] = msg[n * rate + d.bufe + i]

SqueezeInv ==
  d.state = spongeSqueezing =>
    /\ pending = <<>>
    /\ d.a.blocks = BlocksOf(msg, final)
    /\ d.storage = copyOut(d.a) /\ d.bufe = rate
    /\ Len(out) = d.a.squeezes * rate + d.bufo
    /\ \A k \in 1 .. Len(out) : out[k] = SpongeByte(msg, final, k - 1)

IInv == TypeOK /\ BufferReady /\ AbsorbInv /\ SqueezeInv

\* b is block n of the message m, and bs are its first blocks.
BlockIs(b, n, m) == \A i \in Place : b[i] = m[(n - 1) * rate + i + 1]
BlocksAre(bs, m) == \A j \in 1 .. Len(bs), i \in Place : bs[j][i] = m[(j - 1) * rate + i + 1]
-----------------------------------------------------------------------------
LEMMA MulSucc ==
  ASSUME NEW n \in Int
  PROVE  n * rate \in Int /\ (n + 1) * rate = n * rate + rate /\ 0 * rate = 0
BY RateAssumption

LEMMA MulNat ==
  ASSUME NEW n \in Nat
  PROVE  n * rate \in Nat
BY RateAssumption

LEMMA MulStrict ==
  ASSUME NEW m \in Int, NEW n \in Int, m < n
  PROVE  m * rate + rate <= n * rate
BY RateAssumption

LEMMA DivMod ==
  ASSUME NEW n \in Nat, NEW i \in Place
  PROVE  (n * rate + i) \div rate = n /\ (n * rate + i) % rate = i
BY RateAssumption DEF Place

LEMMA RestFacts ==
  ASSUME NEW S, NEW p \in Seq(S), NEW n \in 0 .. Len(p)
  PROVE  /\ Rest(p, n) \in Seq(S) /\ Len(Rest(p, n)) = Len(p) - n
         /\ \A i \in 1 .. Len(p) - n : Rest(p, n)[i] = p[n + i]
<1>1. Len(p) \in Nat /\ Rest(p, n) = SubSeq(p, n + 1, Len(p))
  BY DEF Rest
<1>2. \A i \in n + 1 .. Len(p) : p[i] \in S
  OBVIOUS
<1>3. Rest(p, n) \in Seq(S)
  BY <1>1, <1>2
<1>4. Len(Rest(p, n)) = Len(p) - n
  BY <1>1
<1>5. \A i \in 1 .. Len(p) - n : Rest(p, n)[i] = p[n + i]
  BY <1>1
<1>6. QED
  BY <1>3, <1>4, <1>5

\* What the type invariant says of the struct, field by field.
LEMMA Fields ==
  ASSUME TypeOK
  PROVE  /\ d.a \in Keccak /\ d.a.blocks \in Seq(Block) /\ d.a.squeezes \in Nat
         /\ Len(d.a.blocks) \in Nat
         /\ d.bufo \in 0 .. rate /\ d.bufe \in 0 .. rate /\ d.dsbyte \in Domain
         /\ d.state \in {spongeAbsorbing, spongeSqueezing}
         /\ pending \in Seq(Byte) /\ Len(pending) \in Nat
         /\ msg \in Seq(Byte) /\ Len(msg) \in Nat
         /\ out \in Seq(OutByte) /\ Len(out) \in Nat
         /\ rate \in Nat /\ rate > 0
<1>1. d.a \in Keccak /\ d.a.blocks \in Seq(Block) /\ d.a.squeezes \in Nat
  BY DEF TypeOK, Keccak
<1>2. Len(d.a.blocks) \in Nat
  BY <1>1
<1>3. QED
  BY <1>1, <1>2, RateAssumption DEF TypeOK

LEMMA InitInv == Init => IInv
<1> SUFFICES ASSUME Init PROVE IInv
  OBVIOUS
<1>1. /\ d.a = [blocks |-> <<>>, squeezes |-> 0] /\ d.bufo = 0 /\ d.bufe = 0
      /\ d.dsbyte \in Domain /\ d.storage = [i \in Place |-> 0]
      /\ d.state = spongeAbsorbing
  BY DEF Init
<1> DEFINE st == d.storage
<1>2. d \in [a : Keccak, bufo : 0 .. rate, bufe : 0 .. rate, dsbyte : Domain,
              storage : {st}, state : {spongeAbsorbing, spongeSqueezing}]
  <2>1. d.a \in Keccak
    BY <1>1 DEF Keccak
  <2>2. d \in [a : {d.a}, bufo : {0}, bufe : {0}, dsbyte : Domain,
                storage : {st}, state : {spongeAbsorbing}]
    <3> HIDE DEF st
    <3>1. st = [i \in Place |-> 0]
      BY <1>1 DEF st
    <3>2. QED
      BY <1>1, <3>1, Zenon DEF Init
  <2>3. 0 \in 0 .. rate
    BY RateAssumption
  <2>4. QED
    <3> HIDE DEF st
    <3> QED
      BY <2>1, <2>2, <2>3
<1>3. TypeOK
  <2>1. d.storage = [i \in Place |-> d.storage[i]]
    BY <1>1
  <2>2. \A i \in d.bufo .. d.bufe - 1 : FALSE
    BY <1>1
  <2>3. QED
    BY <1>1, <1>2, <2>1, <2>2 DEF Init, TypeOK
<1>4. BufferReady
  BY <1>1, RateAssumption DEF BufferReady, spongeAbsorbing, spongeSqueezing
<1>5. AbsorbInv
  BY <1>1, RateAssumption, MulSucc DEF Init, AbsorbInv
<1>6. SqueezeInv
  BY <1>1 DEF SqueezeInv, spongeAbsorbing, spongeSqueezing
<1>7. QED
  BY <1>3, <1>4, <1>5, <1>6 DEF IInv

\* Write appends its argument to the message and to what is pending.
LEMMA WriteStep ==
  ASSUME IInv, NEW p \in Seq(Byte), Write(p)
  PROVE  IInv'
<1>1. /\ pending = <<>> /\ d.state = spongeAbsorbing /\ pending' = p /\ msg' = msg \o p
      /\ d' = d /\ wanted' = wanted /\ final' = final /\ out' = out
  BY DEF Write, Idle
<1>2. TypeOK'
  <2>1. msg' \in Seq(Byte)
    BY <1>1 DEF IInv, TypeOK
  <2>2. QED
    BY <1>1, <2>1 DEF IInv, TypeOK
<1>3. BufferReady' /\ SqueezeInv'
  BY <1>1 DEF IInv, BufferReady, SqueezeInv, spongeAbsorbing, spongeSqueezing
<1>4. AbsorbInv'
  <2>a. Len(d.a.blocks) \in Nat
    BY Fields DEF IInv
  <2>b. d.a.squeezes = 0 /\ out = <<>> /\ wanted = 0
    BY <1>1 DEF IInv, AbsorbInv
  <2> DEFINE n == Len(d.a.blocks)
  <2>0. d.bufe \in Nat /\ Len(p) \in Nat /\ Len(msg) \in Nat /\ rate \in Nat
    BY Fields DEF IInv
  <2>1. n * rate \in Nat /\ Len(msg) = n * rate + d.bufe
    <3>1. Len(msg) = n * rate + d.bufe + Len(pending)
      BY <1>1 DEF IInv, AbsorbInv
    <3>2. Len(pending) = 0
      BY <1>1
    <3>3. n * rate \in Nat
      BY <2>a, MulNat
    <3>4. QED
      BY <2>0, <3>1, <3>2, <3>3
  <2>2. /\ Len(msg') = Len(msg) + Len(p)
        /\ \A k \in 1 .. Len(msg) : msg'[k] = msg[k]
        /\ \A k \in 1 .. Len(p) : msg'[Len(msg) + k] = p[k]
    BY <1>1, Fields DEF IInv
  <2>3. ASSUME NEW j \in 1 .. n, NEW i \in Place
        PROVE  d.a.blocks[j][i] = msg'[(j - 1) * rate + i + 1]
    <3>0. j - 1 \in Nat /\ j - 1 < n /\ n \in Nat
      BY <2>a
    <3>1. (j - 1) * rate \in Nat /\ (j - 1) * rate + rate <= n * rate
      <4>1. (j - 1) * rate \in Nat
        BY <3>0, MulNat
      <4>2. (j - 1) * rate + rate <= n * rate
        BY <3>0, MulStrict
      <4>3. QED
        BY <4>1, <4>2
    <3>a. \A u, w, e \in Nat : u + rate <= w => u + i + 1 \in 1 .. w + e
      BY <2>0 DEF Place
    <3>2. (j - 1) * rate + i + 1 \in 1 .. Len(msg)
      BY <2>0, <2>1, <3>1, <3>a
    <3>3. QED
      BY <1>1, <2>2, <3>2 DEF IInv, AbsorbInv
  <2>4. ASSUME NEW i \in 0 .. d.bufe - 1
        PROVE  d.storage[i] = msg'[n * rate + i + 1]
    <3>1. n * rate + i + 1 \in 1 .. Len(msg)
      BY <2>0, <2>1
    <3>2. QED
      BY <1>1, <2>2, <3>1 DEF IInv, AbsorbInv
  <2>5. ASSUME NEW i \in 1 .. Len(p)
        PROVE  p[i] = msg'[n * rate + d.bufe + i]
    BY <2>1, <2>2
  <2>6. Len(msg') = n * rate + d.bufe + Len(p)
    BY <2>1, <2>2
  <2>7. QED
    BY <1>1, <2>b, <2>3, <2>4, <2>5, <2>6 DEF AbsorbInv
<1>5. QED
  BY <1>2, <1>3, <1>4 DEF IInv

\* Absorbing the block that follows those absorbed.
LEMMA AbsorbBlock ==
  ASSUME NEW a \in Keccak, NEW b \in Block, NEW m,
         BlocksAre(a.blocks, m), BlockIs(b, Len(a.blocks) + 1, m)
  PROVE  /\ absorb(a, b) \in Keccak
         /\ absorb(a, b).squeezes = a.squeezes
         /\ Len(absorb(a, b).blocks) = Len(a.blocks) + 1
         /\ BlocksAre(absorb(a, b).blocks, m)
<1>1. a.blocks \in Seq(Block) /\ a = [blocks |-> a.blocks, squeezes |-> a.squeezes]
  BY DEF Keccak
<1>2. absorb(a, b) = [blocks |-> Append(a.blocks, b), squeezes |-> a.squeezes]
  BY <1>1 DEF absorb
<1> DEFINE bs == a.blocks
<1> DEFINE cs == Append(bs, b)
<1>3. /\ cs \in Seq(Block) /\ Len(cs) = Len(bs) + 1 /\ Len(bs) \in Nat
      /\ cs[Len(bs) + 1] = b
      /\ \A j \in 1 .. Len(bs) : cs[j] = bs[j]
  <2> HIDE DEF bs
  <2>1. bs \in Seq(Block)
    BY <1>1 DEF bs
  <2>2. QED
    BY <2>1
<1>4. absorb(a, b) \in Keccak
  BY <1>2, <1>3 DEF Keccak
<1>5. ASSUME NEW j \in 1 .. Len(cs), NEW i \in Place
      PROVE  cs[j][i] = m[(j - 1) * rate + i + 1]
  <2>1. CASE j \in 1 .. Len(bs)
    BY <1>3, <2>1 DEF BlocksAre
  <2>2. CASE j = Len(bs) + 1
    BY <1>3, <2>2 DEF BlockIs
  <2>3. QED
    BY <1>3, <2>1, <2>2
<1>6. BlocksAre(cs, m)
  <2> HIDE DEF cs
  <2> QED
    BY <1>5 DEF BlocksAre
<1>7. QED
  BY <1>2, <1>3, <1>4, <1>6

\* A pending argument is being absorbed.
LEMMA PendingAbsorbs ==
  ASSUME IInv, pending # <<>>
  PROVE  /\ d.state = spongeAbsorbing /\ d.bufo = 0 /\ d.bufe \in 0 .. rate - 1
         /\ Len(pending) \in Nat \ {0}
<1>1. d.state = spongeAbsorbing
  BY Fields DEF IInv, SqueezeInv
<1>2. d.bufo = 0 /\ d.bufe \in 0 .. rate - 1
  BY <1>1, Fields DEF IInv, BufferReady
<1>3. Len(pending) \in Nat \ {0}
  BY Fields DEF IInv
<1>4. QED
  BY <1>1, <1>2, <1>3

\* The fast path absorbs the next block straight from the argument.
LEMMA FastPathStep ==
  ASSUME IInv, FastPath
  PROVE  IInv'
<1> DEFINE b == [i \in Place |-> pending[i + 1]]
<1> DEFINE a2 == absorb(d.a, b)
<1>1. /\ d.state = spongeAbsorbing /\ d.bufo = 0 /\ d.bufe = 0
      /\ Len(pending) \in Nat /\ Len(pending) >= rate /\ rate \in Nat /\ rate > 0
      /\ d.a \in Keccak /\ pending \in Seq(Byte)
  BY PendingAbsorbs, Fields DEF FastPath, OnFastPath, IInv
<1>2. /\ d' = [d EXCEPT !.a = a2] /\ pending' = Rest(pending, rate)
      /\ UNCHANGED <<wanted, msg, final, out>>
  BY DEF FastPath
<1>0. SUFFICES ASSUME NEW n \in Nat, n = Len(d.a.blocks),
                    NEW base \in Nat, base = n * rate,
                    NEW len \in Nat, len = Len(pending)
             PROVE  IInv'
  <2>1. Len(d.a.blocks) \in Nat
    BY Fields DEF IInv
  <2>2. Len(d.a.blocks) * rate \in Nat
    BY <2>1, MulNat
  <2>3. QED
    BY <1>1, <2>1, <2>2
<1>3. /\ d.a.squeezes = 0 /\ out = <<>> /\ wanted = 0
      /\ Len(msg) = base + len
      /\ \A j \in 1 .. n, i \in Place : d.a.blocks[j][i] = msg[(j - 1) * rate + i + 1]
      /\ \A i \in 1 .. len : pending[i] = msg[base + i]
  <2>1. Len(msg) = n * rate + 0 + len /\ \A i \in 1 .. len : pending[i] = msg[n * rate + 0 + i]
    BY <1>0, <1>1 DEF IInv, AbsorbInv
  <2>2. \A i \in 1 .. len : base + 0 + i = base + i
    OBVIOUS
  <2>3. Len(msg) = base + 0 + len /\ \A i \in 1 .. len : pending[i] = msg[base + 0 + i]
    BY <1>0, <2>1
  <2>4. \A j \in 1 .. n, i \in Place : d.a.blocks[j][i] = msg[(j - 1) * rate + i + 1]
    BY <1>0, <1>1 DEF IInv, AbsorbInv
  <2>5. d.a.squeezes = 0 /\ out = <<>> /\ wanted = 0
    BY <1>1 DEF IInv, AbsorbInv
  <2>6. QED
    BY <2>2, <2>3, <2>4, <2>5
<1>4. b \in Block /\ \A i \in Place : b[i] = msg[base + i + 1]
  <2>0. len >= rate /\ rate \in Nat
    BY <1>0, <1>1
  <2>1. \A i \in Place : i + 1 \in 1 .. len /\ base + (i + 1) = base + i + 1
    BY <2>0 DEF Place
  <2>2. \A i \in 1 .. len : pending[i] \in Byte
    BY <1>0, <1>1
  <2>3. \A i \in Place : pending[i + 1] \in 0 .. 255
    BY <2>1, <2>2, ByteAssumption
  <2>4. b \in Block
    BY <2>3 DEF Block
  <2>5. \A i \in Place : b[i] = msg[base + i + 1]
    BY <1>3, <2>1
  <2>6. QED
    BY <2>4, <2>5
<1>5. /\ a2 \in Keccak /\ a2.squeezes = 0 /\ Len(a2.blocks) = n + 1
      /\ \A j \in 1 .. n + 1, i \in Place : a2.blocks[j][i] = msg[(j - 1) * rate + i + 1]
  <2> HIDE DEF b
  <2>0. (n + 1 - 1) * rate = base
    BY <1>0
  <2>1. BlockIs(b, Len(d.a.blocks) + 1, msg)
    BY <1>0, <1>4, <2>0 DEF BlockIs
  <2>2. d.a \in Keccak /\ b \in Block
    BY <1>1, <1>4
  <2>3. BlocksAre(d.a.blocks, msg)
    BY <1>0, <1>3 DEF BlocksAre
  <2>4. /\ a2 \in Keccak /\ a2.squeezes = d.a.squeezes
        /\ Len(a2.blocks) = Len(d.a.blocks) + 1
        /\ BlocksAre(a2.blocks, msg)
    BY <2>1, <2>2, <2>3, AbsorbBlock
  <2>5. QED
    <3> HIDE DEF a2
    <3> QED
      BY <1>0, <1>3, <2>4 DEF BlocksAre
<1> HIDE DEF a2
<1>6. /\ d'.a = a2 /\ d'.bufo = 0 /\ d'.bufe = 0 /\ d'.state = spongeAbsorbing
      /\ d'.storage = d.storage
  BY <1>1, <1>2 DEF IInv, TypeOK
<1>7. /\ pending' \in Seq(Byte) /\ Len(pending') = len - rate
      /\ \A i \in 1 .. len - rate : pending'[i] = pending[rate + i]
  <2>1. rate \in 0 .. Len(pending)
    BY <1>1
  <2>2. pending' = Rest(pending, rate) /\ pending \in Seq(Byte)
    BY <1>1, <1>2
  <2>3. QED
    BY <1>0, <2>1, <2>2, RestFacts
<1>8. TypeOK'
  <2> DEFINE st == d.storage
  <2>1. d \in [a : Keccak, bufo : 0 .. rate, bufe : 0 .. rate, dsbyte : Domain,
                storage : {st}, state : {spongeAbsorbing, spongeSqueezing}]
    BY DEF IInv, TypeOK
  <2>2. d' \in [a : Keccak, bufo : 0 .. rate, bufe : 0 .. rate, dsbyte : Domain,
                 storage : {st}, state : {spongeAbsorbing, spongeSqueezing}]
    <3> HIDE DEF st
    <3> QED
      BY <1>2, <1>5, <2>1
  <2>3. \A i \in d'.bufo .. d'.bufe - 1 : FALSE
    BY <1>6
  <2>4. QED
    BY <1>2, <1>6, <1>7, <2>2, <2>3 DEF IInv, TypeOK
<1>9. BufferReady' /\ SqueezeInv'
  BY <1>1, <1>6 DEF BufferReady, SqueezeInv, spongeAbsorbing, spongeSqueezing
<1>10. AbsorbInv'
  <2>1. (n + 1) * rate = base + rate /\ rate \in Nat
    BY <1>0, <1>1, MulSucc
  <2>2. Len(msg) = (n + 1) * rate + 0 + Len(pending')
    BY <1>3, <1>7, <2>1
  <2>3. \A i \in 1 .. len - rate : rate + i \in 1 .. len /\ base + (rate + i) = base + rate + 0 + i
    <3>1. rate \in Nat
      BY <1>1
    <3>2. QED
      BY <3>1
  <2>4. \A i \in 1 .. Len(pending') : pending'[i] = msg[(n + 1) * rate + 0 + i]
    <3> SUFFICES ASSUME NEW i \in 1 .. len - rate PROVE pending'[i] = msg[base + rate + 0 + i]
      BY <1>7, <2>1
    <3>1. pending'[i] = pending[rate + i]
      BY <1>7
    <3>2. pending[rate + i] = msg[base + (rate + i)]
      BY <1>3, <2>3
    <3>3. QED
      BY <2>3, <3>1, <3>2
  <2>5. \A i \in 0 .. d'.bufe - 1 : FALSE
    BY <1>6
  <2>6. Len(d'.a.blocks) = n + 1 /\ d'.bufe = 0 /\ d'.a.squeezes = 0
    BY <1>5, <1>6
  <2>7. \A j \in 1 .. n + 1, i \in Place : d'.a.blocks[j][i] = msg'[(j - 1) * rate + i + 1]
    BY <1>2, <1>5, <1>6
  <2>8. QED
    BY <1>2, <1>3, <2>2, <2>4, <2>5, <2>6, <2>7 DEF AbsorbInv
<1>11. QED
  BY <1>8, <1>9, <1>10 DEF IInv

\* The slow path moves the front of the argument to the end of the buffer, and
\* absorbs the buffer when that fills it.
LEMMA SlowPathStep ==
  ASSUME IInv, SlowPath
  PROVE  IInv'
<1>a. /\ d.state = spongeAbsorbing /\ d.bufo = 0 /\ d.bufe \in 0 .. rate - 1
      /\ Len(pending) \in Nat /\ Len(pending) > 0 /\ rate \in Nat /\ rate > 0
      /\ pending \in Seq(Byte) /\ d.a \in Keccak /\ Len(d.a.blocks) \in Nat
  BY PendingAbsorbs, Fields DEF SlowPath, IInv
<1>0. SUFFICES ASSUME NEW n \in Nat, n = Len(d.a.blocks),
                      NEW base \in Nat, base = n * rate,
                      NEW len \in Nat, len = Len(pending),
                      NEW e \in Nat, e = d.bufe,
                      NEW t \in Nat, t = min(rate - e, len)
               PROVE  IInv'
  <2>1. Len(d.a.blocks) * rate \in Nat
    BY <1>a
  <2>2. min(rate - d.bufe, Len(pending)) \in Nat
    BY <1>a DEF min
  <2>3. QED
    BY <1>a, <2>1, <2>2
<1>b. n = Len(d.a.blocks) /\ len = Len(pending) /\ e = d.bufe
  BY <1>0
<1>1. /\ d.state = spongeAbsorbing /\ d.bufo = 0 /\ e \in 0 .. rate - 1
      /\ len > 0 /\ rate \in Nat /\ rate > 0
  BY <1>0, <1>a
<1>2. t >= 1 /\ t <= len /\ e + t <= rate
  <2>1. t = IF rate - e < len THEN rate - e ELSE len
    BY <1>0 DEF min
  <2>2. QED
    BY <1>1, <2>1
<1> DEFINE st == [i \in Place |-> IF i \in e .. e + t - 1 THEN pending[i - e + 1] ELSE d.storage[i]]
<1> DEFINE x == [d EXCEPT !.bufe = e + t, !.storage = st]
<1>3. /\ d' = IF x.bufe = rate THEN permute(x) ELSE x
      /\ pending' = Rest(pending, t)
      /\ UNCHANGED <<wanted, msg, final, out>>
  <2>1. d.bufo + (d.bufe - d.bufo) = e /\ d.bufe - d.bufo = e
    BY <1>0, <1>1
  <2>2. t = min(rate - (d.bufe - d.bufo), Len(pending)) /\ e = d.bufe
    BY <1>0, <2>1
  <2>3. QED
    BY <2>1, <2>2 DEF SlowPath
<1>4. /\ d.a.squeezes = 0 /\ out = <<>> /\ wanted = 0
      /\ Len(msg) = base + e + len
      /\ \A j \in 1 .. n, i \in Place : d.a.blocks[j][i] = msg[(j - 1) * rate + i + 1]
      /\ \A i \in 0 .. e - 1 : d.storage[i] = msg[base + i + 1]
      /\ \A i \in 1 .. len : pending[i] = msg[base + e + i]
  <2>1. /\ d.a.squeezes = 0 /\ out = <<>> /\ wanted = 0
        /\ Len(msg) = Len(d.a.blocks) * rate + d.bufe + Len(pending)
        /\ \A j \in 1 .. Len(d.a.blocks), i \in Place : d.a.blocks[j][i] = msg[(j - 1) * rate + i + 1]
        /\ \A i \in 0 .. d.bufe - 1 : d.storage[i] = msg[Len(d.a.blocks) * rate + i + 1]
        /\ \A i \in 1 .. Len(pending) : pending[i] = msg[Len(d.a.blocks) * rate + d.bufe + i]
    BY <1>a DEF IInv, AbsorbInv
  <2>2. QED
    BY <1>0, <2>1
<1>5. /\ pending \in Seq(Byte) /\ pending' \in Seq(Byte) /\ Len(pending') = len - t
      /\ \A i \in 1 .. len - t : pending'[i] = pending[t + i]
  <2>1. t \in 0 .. Len(pending) /\ pending \in Seq(Byte)
    BY <1>0, <1>2, <1>a
  <2>2. pending' = Rest(pending, t)
    BY <1>3
  <2>3. /\ Rest(pending, t) \in Seq(Byte) /\ Len(Rest(pending, t)) = Len(pending) - t
        /\ \A i \in 1 .. Len(pending) - t : Rest(pending, t)[i] = pending[t + i]
    BY <2>1, RestFacts
  <2>4. QED
    BY <1>b, <2>1, <2>2, <2>3
<1>6. \A i \in 0 .. e + t - 1 : st[i] = msg[base + i + 1] /\ st[i] \in Byte
  <2> SUFFICES ASSUME NEW i \in 0 .. e + t - 1 PROVE st[i] = msg[base + i + 1] /\ st[i] \in Byte
    OBVIOUS
  <2>0. i \in Place /\ st[i] = IF i \in e .. e + t - 1 THEN pending[i - e + 1] ELSE d.storage[i]
    <3>1. i \in Place
      BY <1>1, <1>2 DEF Place
    <3>2. QED
      BY <3>1
  <2>1. CASE i \in 0 .. e - 1
    <3>1. i \notin e .. e + t - 1
      BY <2>1
    <3>2. st[i] = d.storage[i] /\ d.storage[i] = msg[base + i + 1]
      BY <1>4, <2>0, <2>1, <3>1
    <3>3. d.storage[i] \in Byte
      BY <1>0, <1>1, <2>1 DEF IInv, TypeOK
    <3>4. QED
      BY <3>2, <3>3
  <2>2. CASE i \in e .. e + t - 1
    <3>1. i - e + 1 \in 1 .. len /\ base + e + (i - e + 1) = base + i + 1
      BY <1>1, <1>2, <2>2
    <3>2. st[i] = pending[i - e + 1] /\ pending[i - e + 1] = msg[base + i + 1]
      <4>1. st[i] = pending[i - e + 1]
        BY <2>0, <2>2
      <4>2. pending[i - e + 1] = msg[base + e + (i - e + 1)]
        BY <1>4, <3>1
      <4>3. QED
        BY <3>1, <4>1, <4>2
    <3>3. pending[i - e + 1] \in Byte
      BY <1>b, <1>5, <3>1
    <3>4. QED
      BY <3>2, <3>3
  <2>3. QED
    BY <2>1, <2>2
<1>7. x \in [a : {d.a}, bufo : {0}, bufe : {e + t}, dsbyte : Domain, storage : {st},
             state : {spongeAbsorbing}]
  <2> DEFINE old == d.storage
  <2>1. d \in [a : Keccak, bufo : 0 .. rate, bufe : 0 .. rate, dsbyte : Domain,
                storage : {old}, state : {spongeAbsorbing, spongeSqueezing}]
    BY DEF IInv, TypeOK
  <2>2. QED
    <3> HIDE DEF old, st
    <3> QED
      BY <1>1, <2>1
<1>8. pending' \in Seq(Byte) /\ UNCHANGED <<wanted, msg, final, out>>
  BY <1>3, <1>5
<1>9. st = [i \in Place |-> st[i]]
  BY Zenon
<1> HIDE DEF st, x
<1>10. ASSUME e + t < rate PROVE IInv'
  <2>1. d' = x
    BY <1>1, <1>3, <1>7, <1>10
  <2>2. /\ d'.a = d.a /\ d'.bufo = 0 /\ d'.bufe = e + t /\ d'.storage = st
        /\ d'.state = spongeAbsorbing
    BY <1>7, <2>1
  <2>3. d' \in [a : Keccak, bufo : 0 .. rate, bufe : 0 .. rate, dsbyte : Domain,
                 storage : {st}, state : {spongeAbsorbing, spongeSqueezing}]
    <3>1. 0 \in 0 .. rate /\ e + t \in 0 .. rate
      BY <1>1, <1>10
    <3>2. QED
      BY <1>a, <1>7, <2>1, <3>1
  <2>4. TypeOK'
    <3>1. d'.bufo <= d'.bufe /\ \A i \in d'.bufo .. d'.bufe - 1 : d'.storage[i] \in Byte
      BY <1>6, <2>2
    <3>2. d'.storage = [i \in Place |-> d'.storage[i]]
      BY <1>9, <2>2
    <3>3. d' \in [a : Keccak, bufo : 0 .. rate, bufe : 0 .. rate, dsbyte : Domain,
                   storage : {d'.storage}, state : {spongeAbsorbing, spongeSqueezing}]
      BY <2>2, <2>3
    <3>4. QED
      BY <1>8, <2>2, <3>1, <3>2, <3>3 DEF IInv, TypeOK
  <2>5. BufferReady' /\ SqueezeInv'
    <3>1. d'.bufe < rate
      BY <1>10, <2>2
    <3>2. QED
      BY <2>2, <3>1 DEF BufferReady, SqueezeInv, spongeAbsorbing, spongeSqueezing
  <2>6. Len(msg) = base + (e + t) + (len - t)
    BY <1>4
  <2>7. \A i \in 1 .. len - t : pending'[i] = msg[base + (e + t) + i]
    <3> SUFFICES ASSUME NEW i \in 1 .. len - t PROVE pending'[i] = msg[base + (e + t) + i]
      OBVIOUS
    <3>1. t + i \in 1 .. len /\ base + e + (t + i) = base + (e + t) + i
      BY <1>2
    <3>2. pending'[i] = pending[t + i] /\ pending[t + i] = msg[base + e + (t + i)]
      BY <1>4, <1>5, <3>1
    <3>3. QED
      BY <3>1, <3>2
  <2>8. AbsorbInv'
    <3>1. d'.a.squeezes = 0 /\ out' = <<>> /\ wanted' = 0 /\ Len(d'.a.blocks) = n
      BY <1>0, <1>4, <1>8, <2>2
    <3>2. Len(msg') = base + d'.bufe + Len(pending')
      BY <1>5, <1>8, <2>2, <2>6
    <3>3. \A j \in 1 .. n, i \in Place : d'.a.blocks[j][i] = msg'[(j - 1) * rate + i + 1]
      BY <1>4, <1>8, <2>2
    <3>4. \A i \in 0 .. d'.bufe - 1 : d'.storage[i] = msg'[base + i + 1]
      BY <1>6, <1>8, <2>2
    <3>5. \A i \in 1 .. Len(pending') : pending'[i] = msg'[base + d'.bufe + i]
      BY <1>5, <1>8, <2>2, <2>7
    <3>6. base = n * rate
      BY <1>0
    <3>7. QED
      BY <3>1, <3>2, <3>3, <3>4, <3>5, <3>6 DEF AbsorbInv
  <2>9. QED
    BY <2>4, <2>5, <2>8 DEF IInv
<1>11. ASSUME e + t = rate PROVE IInv'
  <2>1. d' = permute(x) /\ x.state = spongeAbsorbing /\ x.a = d.a /\ x.storage = st
    BY <1>3, <1>7, <1>11
  <2>2. st \in Block /\ \A i \in Place : st[i] = msg[base + i + 1]
    <3>1. \A i \in Place : i \in 0 .. e + t - 1
      BY <1>11 DEF Place
    <3>2. \A i \in Place : st[i] \in 0 .. 255
      BY <1>6, <3>1, ByteAssumption
    <3>3. QED
      BY <1>6, <1>9, <3>1, <3>2 DEF Block
  <2> DEFINE a2 == absorb(d.a, st)
  <2>3. /\ a2 \in Keccak /\ a2.squeezes = 0 /\ Len(a2.blocks) = n + 1
        /\ \A j \in 1 .. n + 1, i \in Place : a2.blocks[j][i] = msg[(j - 1) * rate + i + 1]
    <3>0. (n + 1 - 1) * rate = base
      BY <1>0
    <3>1. BlockIs(st, Len(d.a.blocks) + 1, msg)
      BY <1>0, <2>2, <3>0 DEF BlockIs
    <3>2. BlocksAre(d.a.blocks, msg)
      BY <1>0, <1>4 DEF BlocksAre
    <3>a. d.a \in Keccak /\ st \in Block
      BY <1>a, <2>2
    <3>3. /\ a2 \in Keccak /\ a2.squeezes = d.a.squeezes
          /\ Len(a2.blocks) = Len(d.a.blocks) + 1
          /\ BlocksAre(a2.blocks, msg)
      BY <3>a, <3>1, <3>2, AbsorbBlock
    <3>4. QED
      <4> HIDE DEF a2
      <4> QED
        BY <1>0, <1>4, <3>3 DEF BlocksAre
  <2>4. d' = [x EXCEPT !.a = a2, !.bufo = 0, !.bufe = 0]
    BY <2>1 DEF permute
  <2> HIDE DEF a2
  <2>5. d' \in [a : {a2}, bufo : {0}, bufe : {0}, dsbyte : Domain, storage : {st},
                state : {spongeAbsorbing}]
    BY <1>7, <2>4
  <2>a. /\ d'.a = a2 /\ d'.bufo = 0 /\ d'.bufe = 0 /\ d'.storage = st
        /\ d'.state = spongeAbsorbing
    BY <2>5
  <2>6. \A i \in d'.bufo .. d'.bufe - 1 : FALSE
    BY <2>a
  <2>7. TypeOK'
    <3>1. 0 \in 0 .. rate
      BY <1>1
    <3>2. d' \in [a : Keccak, bufo : 0 .. rate, bufe : 0 .. rate, dsbyte : Domain,
                   storage : {d'.storage}, state : {spongeAbsorbing, spongeSqueezing}]
      BY <2>3, <2>5, <3>1
    <3>3. d'.storage = [i \in Place |-> d'.storage[i]]
      BY <1>9, <2>a
    <3>4. d'.bufo <= d'.bufe
      BY <2>a
    <3>5. QED
      BY <1>8, <2>6, <3>2, <3>3, <3>4 DEF IInv, TypeOK
  <2>8. BufferReady' /\ SqueezeInv'
    BY <1>1, <2>a DEF BufferReady, SqueezeInv, spongeAbsorbing, spongeSqueezing
  <2>9. (n + 1) * rate = base + rate
    BY <1>0, <1>1, MulSucc
  <2>10. Len(msg) = base + rate + 0 + (len - t)
    BY <1>4, <1>11
  <2>11. \A i \in 1 .. len - t : pending'[i] = msg[base + rate + 0 + i]
    <3> SUFFICES ASSUME NEW i \in 1 .. len - t PROVE pending'[i] = msg[base + rate + 0 + i]
      OBVIOUS
    <3>1. t + i \in 1 .. len /\ base + e + (t + i) = base + rate + 0 + i
      BY <1>1, <1>2, <1>11
    <3>2. pending'[i] = pending[t + i] /\ pending[t + i] = msg[base + e + (t + i)]
      BY <1>4, <1>5, <3>1
    <3>3. QED
      BY <3>1, <3>2
  <2>12. AbsorbInv'
    <3>1. d'.a.squeezes = 0 /\ out' = <<>> /\ wanted' = 0 /\ Len(d'.a.blocks) = n + 1
      BY <1>4, <1>8, <2>3, <2>a
    <3>2. Len(msg') = (n + 1) * rate + d'.bufe + Len(pending')
      BY <1>5, <1>8, <2>a, <2>9, <2>10
    <3>3. \A j \in 1 .. n + 1, i \in Place : d'.a.blocks[j][i] = msg'[(j - 1) * rate + i + 1]
      BY <1>8, <2>3, <2>a
    <3>4. \A i \in 1 .. Len(pending') : pending'[i] = msg'[(n + 1) * rate + d'.bufe + i]
      BY <1>5, <1>8, <2>a, <2>9, <2>11
    <3>5. QED
      BY <2>6, <2>a, <3>1, <3>2, <3>3, <3>4 DEF AbsorbInv
  <2>13. QED
    BY <2>7, <2>8, <2>12 DEF IInv
<1>12. QED
  BY <1>1, <1>2, <1>10, <1>11

\* Padding leaves a block that ends the message as the construction ends it.
LEMMA PadFacts ==
  ASSUME IInv, d.state = spongeAbsorbing, pending = <<>>
  PROVE  /\ absorb(d.a, Pad(d.storage, d.bufe, d.dsbyte)) \in Keccak
         /\ absorb(d.a, Pad(d.storage, d.bufe, d.dsbyte)).squeezes = 0
         /\ absorb(d.a, Pad(d.storage, d.bufe, d.dsbyte)).blocks = BlocksOf(msg, d.dsbyte)
<1>a. /\ d.bufo = 0 /\ d.bufe \in 0 .. rate - 1 /\ rate \in Nat /\ rate > 0
      /\ d.a \in Keccak /\ d.a.blocks \in Seq(Block) /\ Len(d.a.blocks) \in Nat
      /\ d.dsbyte \in 1 .. 127 /\ Len(pending) = 0
  <2>1. d.bufo = 0 /\ d.bufe < rate
    BY DEF IInv, BufferReady
  <2>2. d.dsbyte \in 1 .. 127
    BY Fields, DomainAssumption DEF IInv
  <2>3. Len(pending) = 0
    OBVIOUS
  <2>4. QED
    BY <2>1, <2>2, <2>3, Fields DEF IInv
<1> DEFINE e == d.bufe
<1> DEFINE D == d.dsbyte
<1>0. SUFFICES ASSUME NEW n \in Nat, n = Len(d.a.blocks),
                      NEW base \in Nat, base = n * rate
               PROVE  /\ absorb(d.a, Pad(d.storage, e, D)) \in Keccak
                      /\ absorb(d.a, Pad(d.storage, e, D)).squeezes = 0
                      /\ absorb(d.a, Pad(d.storage, e, D)).blocks = BlocksOf(msg, D)
  <2>1. Len(d.a.blocks) * rate \in Nat
    BY <1>a
  <2>2. QED
    BY <1>a, <2>1
<1>b. n = Len(d.a.blocks) /\ e \in 0 .. rate - 1 /\ rate \in Nat /\ D \in 1 .. 127
  BY <1>0, <1>a
<1> HIDE DEF D
<1>1. /\ d.a.squeezes = 0
      /\ Len(msg) = base + e
      /\ \A j \in 1 .. n, i \in Place : d.a.blocks[j][i] = msg[(j - 1) * rate + i + 1]
      /\ \A i \in 0 .. e - 1 : d.storage[i] = msg[base + i + 1]
  <2>1. /\ d.a.squeezes = 0
        /\ Len(msg) = Len(d.a.blocks) * rate + d.bufe + 0
        /\ \A j \in 1 .. Len(d.a.blocks), i \in Place : d.a.blocks[j][i] = msg[(j - 1) * rate + i + 1]
        /\ \A i \in 0 .. d.bufe - 1 : d.storage[i] = msg[Len(d.a.blocks) * rate + i + 1]
    BY <1>a DEF IInv, AbsorbInv
  <2>2. Len(msg) = base + e + 0
    BY <1>0, <2>1
  <2>3. \A i \in 0 .. e - 1 : d.storage[i] = msg[base + i + 1]
    BY <1>0, <2>1
  <2>4. QED
    BY <1>b, <2>1, <2>2, <2>3
<1>2. Len(msg) \div rate = n /\ Len(msg) - n * rate = e
  <2>1. e \in Place
    BY <1>b DEF Place
  <2>2. (n * rate + e) \div rate = n
    BY <2>1, DivMod
  <2>3. base + e - base = e
    BY <1>b
  <2> HIDE DEF e
  <2>4. Len(msg) = base + e /\ n * rate = base
    BY <1>0, <1>1, Zenon
  <2>5. Len(msg) = n * rate + e /\ Len(msg) - n * rate = base + e - base
    <3>1. Len(msg) = n * rate + e
      BY <2>4
    <3>2. Len(msg) - n * rate = base + e - base
      BY <2>4, <1>b
    <3>3. QED
      BY <3>1, <3>2
  <2>6. QED
    BY <2>2, <2>3, <2>5, Zenon
<1> DEFINE pb == Pad(d.storage, e, D)
<1> DEFINE tail == [i \in Place |-> IF base + i + 1 <= Len(msg) THEN msg[base + i + 1] ELSE 0]
<1>3. pb \in Block
  <2>1. \A i \in 0 .. e - 1 : d.storage[i] \in 0 .. 255
    <3>1. \A i \in d.bufo .. d.bufe - 1 : d.storage[i] \in Byte
      BY DEF IInv, TypeOK
    <3>2. d.bufo = 0
      BY <1>a
    <3>3. \A i \in 0 .. e - 1 : d.storage[i] \in Byte
      BY <3>1, <3>2
    <3>4. QED
      BY <3>3, ByteAssumption
  <2>2. ASSUME NEW i \in Place
        PROVE  (IF i < e THEN d.storage[i] ELSE IF i = e THEN D ELSE 0)
                 + (IF i = rate - 1 THEN 128 ELSE 0) \in 0 .. 255
    <3> HIDE DEF e
    <3>0. i \in 0 .. rate - 1 /\ rate \in Nat /\ e \in 0 .. rate - 1 /\ D \in 1 .. 127
      BY <1>b DEF Place
    <3>1. CASE i < e
      <4>1. i # rate - 1 /\ i \in 0 .. e - 1
        BY <3>0, <3>1
      <4>2. d.storage[i] \in 0 .. 255
        BY <2>1, <4>1
      <4>3. (IF i < e THEN d.storage[i] ELSE IF i = e THEN D ELSE 0) = d.storage[i]
        BY <3>1, Zenon
      <4>4. (IF i = rate - 1 THEN 128 ELSE 0) = 0
        BY <4>1, Zenon
      <4>a. \A v \in 0 .. 255 : v + 0 \in 0 .. 255
        OBVIOUS
      <4>5. d.storage[i] + 0 \in 0 .. 255
        BY <4>2, <4>a, Zenon
      <4>6. QED
        BY <4>3, <4>4, <4>5, Zenon
    <3>2. CASE ~(i < e)
      BY <3>0, <3>2
    <3>3. QED
      BY <3>1, <3>2
  <2>3. QED
    BY <2>2 DEF Block, Pad
<1>4. pb = Pad(tail, e, D)
  <2>1. ASSUME NEW i \in Place, i < e
        PROVE  d.storage[i] = tail[i]
    <3>1. i \in 0 .. e - 1 /\ base + i + 1 <= base + e
      BY <1>b, <2>1 DEF Place
    <3>2. QED
      BY <1>1, <3>1
  <2>2. QED
    <3> HIDE DEF tail
    <3>1. \A i \in Place :
             (IF i < e THEN d.storage[i] ELSE IF i = e THEN D ELSE 0)
               + (IF i = rate - 1 THEN 128 ELSE 0)
             = (IF i < e THEN tail[i] ELSE IF i = e THEN D ELSE 0)
                 + (IF i = rate - 1 THEN 128 ELSE 0)
      BY <2>1
    <3>2. QED
      BY <3>1, Zenon DEF Pad
<1> DEFINE bs == d.a.blocks
<1> DEFINE cs == Append(bs, pb)
<1>5. /\ cs \in Seq(Block) /\ Len(cs) = n + 1 /\ cs[n + 1] = pb
      /\ \A j \in 1 .. n : cs[j] = bs[j] /\ bs[j] \in Block
  <2> HIDE DEF bs, pb
  <2>1. bs \in Seq(Block) /\ Len(bs) = n /\ pb \in Block
    BY <1>a, <1>b, <1>3 DEF bs
  <2>2. QED
    BY <2>1
<1>6. cs = BlocksOf(msg, D)
  <2> DEFINE g == [j \in 1 .. n + 1 |->
                     IF j <= n THEN [i \in Place |-> msg[(j - 1) * rate + i + 1]] ELSE pb]
  <2>1. BlocksOf(msg, D) = g
    <3>1. tail = [i \in Place |-> IF n * rate + i + 1 <= Len(msg) THEN msg[n * rate + i + 1] ELSE 0]
      BY <1>0
    <3>2. Pad([i \in Place |-> IF n * rate + i + 1 <= Len(msg) THEN msg[n * rate + i + 1] ELSE 0],
              Len(msg) - n * rate, D) = pb
      BY <1>2, <1>4, <3>1, Zenon
    <3> HIDE DEF pb, tail
    <3>3. QED
      BY <1>2, <3>2, Zenon DEF BlocksOf
  <2>2. ASSUME NEW j \in 1 .. n + 1 PROVE cs[j] = g[j]
    <3>1. CASE j <= n
      <4>1. j \in 1 .. n
        BY <3>1
      <4>2. cs[j] = bs[j] /\ bs[j] \in Block
        BY <1>5, <4>1
      <4>3. bs[j] = [i \in Place |-> bs[j][i]]
        BY <4>2 DEF Block
      <4>4. \A i \in Place : bs[j][i] = msg[(j - 1) * rate + i + 1]
        BY <1>1, <4>1
      <4>5. bs[j] = [i \in Place |-> msg[(j - 1) * rate + i + 1]]
        BY <4>3, <4>4, Zenon
      <4>6. QED
        BY <3>1, <4>2, <4>5
    <3>2. CASE ~(j <= n)
      <4>1. j = n + 1
        BY <3>2
      <4>2. g[j] = pb
        BY <3>2
      <4>3. QED
        BY <1>5, <4>1, <4>2
    <3>3. QED
      BY <3>1, <3>2
  <2>3. cs = [j \in 1 .. n + 1 |-> cs[j]]
    <3> HIDE DEF cs
    <3>1. cs \in Seq(Block) /\ Len(cs) = n + 1
      BY <1>5
    <3>2. QED
      BY <3>1
  <2>4. cs = g
    <3> HIDE DEF cs, g
    <3>1. g = [j \in 1 .. n + 1 |-> g[j]]
      BY Zenon DEF g
    <3>2. QED
      BY <2>2, <2>3, <3>1, Zenon
  <2>5. QED
    BY <2>1, <2>4
<1>7. absorb(d.a, pb) = [blocks |-> cs, squeezes |-> 0]
  <2>1. d.a = [blocks |-> bs, squeezes |-> d.a.squeezes]
    BY <1>a DEF Keccak
  <2> HIDE DEF pb, bs
  <2>2. absorb(d.a, pb) = [d.a EXCEPT !.blocks = Append(@, pb)]
    BY DEF absorb
  <2>3. d.a.blocks = bs /\ d.a.squeezes = 0
    BY <1>1 DEF bs
  <2>4. QED
    BY <2>1, <2>2, <2>3
<1>8. QED
  <2> HIDE DEF cs
  <2>1. [blocks |-> cs, squeezes |-> 0] \in Keccak
    BY <1>5 DEF Keccak
  <2>2. QED
    BY <1>6, <1>7, <2>1

\* Read pads on the first call and only notes the wanted bytes on the others.
LEMMA ReadStep ==
  ASSUME IInv, NEW k \in Nat, Read(k)
  PROVE  IInv'
<1>1. pending = <<>> /\ wanted' = k /\ UNCHANGED <<pending, msg, out>>
  BY DEF Read, Idle
<1>2. ASSUME d.state = spongeAbsorbing PROVE IInv'
  <2> DEFINE a2 == absorb(d.a, Pad(d.storage, d.bufe, d.dsbyte))
  <2> DEFINE cp == copyOut(a2)
  <2>1. a2 \in Keccak /\ a2.squeezes = 0 /\ a2.blocks = BlocksOf(msg, d.dsbyte)
    BY <1>1, <1>2, PadFacts
  <2>2. /\ d' = [d EXCEPT !.a = a2, !.storage = cp, !.bufo = 0, !.bufe = rate,
                          !.state = spongeSqueezing]
        /\ final' = d.dsbyte
    BY <1>2 DEF Read, padAndPermute
  <2>3. \A i \in Place : cp[i] \in OutByte
    <3> HIDE DEF a2
    <3>1. \A i \in Place : cp[i] = [from |-> a2, at |-> i]
      BY DEF copyOut
    <3>2. \A i \in Place : [from |-> a2, at |-> i] \in OutByte
      BY <2>1 DEF OutByte
    <3>3. QED
      BY <3>1, <3>2, Zenon
  <2>4. cp = [i \in Place |-> cp[i]]
    BY Zenon DEF copyOut
  <2> HIDE DEF a2, cp
  <2>5. d' \in [a : {a2}, bufo : {0}, bufe : {rate}, dsbyte : Domain, storage : {cp},
                state : {spongeSqueezing}]
    <3> DEFINE old == d.storage
    <3>1. d \in [a : Keccak, bufo : 0 .. rate, bufe : 0 .. rate, dsbyte : Domain,
                  storage : {old}, state : {spongeAbsorbing, spongeSqueezing}]
      BY DEF IInv, TypeOK
    <3>2. QED
      <4> HIDE DEF old
      <4> QED
        BY <2>2, <3>1
  <2>6. /\ d'.a = a2 /\ d'.bufo = 0 /\ d'.bufe = rate /\ d'.storage = cp
        /\ d'.state = spongeSqueezing /\ rate \in Nat /\ rate > 0
    BY <2>5, RateAssumption
  <2>7. TypeOK'
    <3>1. 0 \in 0 .. rate /\ rate \in 0 .. rate
      BY RateAssumption
    <3>2. d' \in [a : Keccak, bufo : 0 .. rate, bufe : 0 .. rate, dsbyte : Domain,
                   storage : {d'.storage}, state : {spongeAbsorbing, spongeSqueezing}]
      BY <2>1, <2>5, <3>1
    <3>3. d'.storage = [i \in Place |-> d'.storage[i]]
      BY <2>4, <2>6
    <3>4. d'.bufo <= d'.bufe
      BY <2>6
    <3>5. \A i \in d'.bufo .. d'.bufe - 1 : d'.storage[i] \in OutByte
      BY <2>3, <2>6 DEF Place
    <3>6. final' \in Domain
      BY <2>2, Fields DEF IInv
    <3>7. QED
      BY <1>1, <2>6, <3>2, <3>3, <3>4, <3>5, <3>6 DEF IInv, TypeOK, spongeAbsorbing, spongeSqueezing
  <2>8. BufferReady' /\ AbsorbInv'
    BY <2>6 DEF BufferReady, AbsorbInv, spongeAbsorbing, spongeSqueezing
  <2>9. SqueezeInv'
    <3>1. out' = <<>> /\ pending' = <<>>
      BY <1>1, <1>2 DEF IInv, AbsorbInv
    <3>2. d'.a.blocks = BlocksOf(msg', final')
      BY <1>1, <2>1, <2>2, <2>6
    <3>3. d'.storage = copyOut(d'.a) /\ d'.bufe = rate
      BY <2>6 DEF cp
    <3>4. Len(out') = d'.a.squeezes * rate + d'.bufo
      BY <2>1, <2>6, <3>1, MulSucc
    <3>5. \A i \in 1 .. Len(out') : out'[i] = SpongeByte(msg', final', i - 1)
      BY <3>1
    <3>6. QED
      BY <3>1, <3>2, <3>3, <3>4, <3>5 DEF SqueezeInv
  <2>10. QED
    BY <2>7, <2>8, <2>9 DEF IInv
<1>3. ASSUME d.state # spongeAbsorbing PROVE IInv'
  <2>1. d' = d /\ final' = final
    BY <1>3 DEF Read
  <2>2. TypeOK'
    BY <1>1, <2>1 DEF IInv, TypeOK
  <2>3. BufferReady' /\ AbsorbInv'
    BY <1>3, <2>1 DEF IInv, BufferReady, AbsorbInv
  <2>4. SqueezeInv'
    BY <1>1, <2>1 DEF IInv, SqueezeInv
  <2>5. QED
    BY <2>2, <2>3, <2>4 DEF IInv
<1>4. QED
  BY <1>2, <1>3

\* Reset forgets the message and the output.
LEMMA ResetStep ==
  ASSUME IInv, Reset
  PROVE  IInv'
<1> DEFINE zero == [blocks |-> <<>>, squeezes |-> 0]
<1> DEFINE st == d.storage
<1>1. /\ d' = [d EXCEPT !.a = zero, !.bufo = 0, !.bufe = 0, !.state = spongeAbsorbing]
      /\ msg' = <<>> /\ out' = <<>> /\ pending = <<>> /\ wanted = 0
      /\ UNCHANGED <<pending, wanted, final>>
  BY DEF Reset, Idle
<1>2. zero \in Keccak /\ zero.squeezes = 0 /\ zero.blocks = <<>>
  BY DEF Keccak
<1> HIDE DEF zero
<1>3. d' \in [a : {zero}, bufo : {0}, bufe : {0}, dsbyte : Domain, storage : {st},
              state : {spongeAbsorbing}]
  <2>1. d \in [a : Keccak, bufo : 0 .. rate, bufe : 0 .. rate, dsbyte : Domain,
                storage : {st}, state : {spongeAbsorbing, spongeSqueezing}]
    BY DEF IInv, TypeOK
  <2>2. QED
    <3> HIDE DEF st
    <3> QED
      BY <1>1, <2>1
<1>4. st = [i \in Place |-> st[i]]
  BY DEF IInv, TypeOK
<1> HIDE DEF st
<1>5. /\ d'.a = zero /\ d'.bufo = 0 /\ d'.bufe = 0 /\ d'.storage = st
      /\ d'.state = spongeAbsorbing /\ rate \in Nat /\ rate > 0
  BY <1>3, RateAssumption
<1>6. TypeOK'
  <2>1. 0 \in 0 .. rate
    BY RateAssumption
  <2>2. d' \in [a : Keccak, bufo : 0 .. rate, bufe : 0 .. rate, dsbyte : Domain,
                 storage : {d'.storage}, state : {spongeAbsorbing, spongeSqueezing}]
    BY <1>2, <1>3, <2>1
  <2>3. d'.storage = [i \in Place |-> d'.storage[i]]
    BY <1>4, <1>5
  <2>4. d'.bufo <= d'.bufe /\ \A i \in d'.bufo .. d'.bufe - 1 : FALSE
    BY <1>5
  <2>5. QED
    BY <1>1, <2>2, <2>3, <2>4 DEF IInv, TypeOK
<1>7. BufferReady' /\ SqueezeInv'
  BY <1>5 DEF BufferReady, SqueezeInv, spongeAbsorbing, spongeSqueezing
<1>8. AbsorbInv'
  <2>1. d'.a.squeezes = 0 /\ d'.a.blocks = <<>> /\ Len(d'.a.blocks) = 0
    BY <1>2, <1>5
  <2>2. Len(msg') = 0 * rate + d'.bufe + Len(pending')
    BY <1>1, <1>5, MulSucc
  <2>3. /\ \A i \in 0 .. d'.bufe - 1 : FALSE
        /\ \A i \in 1 .. Len(pending') : FALSE
        /\ \A j \in 1 .. Len(d'.a.blocks) : FALSE
    BY <1>1, <1>5, <2>1
  <2>4. QED
    BY <1>1, <2>1, <2>2, <2>3 DEF AbsorbInv
<1>9. QED
  BY <1>6, <1>7, <1>8 DEF IInv

LEMMA SwitchDSStep ==
  ASSUME IInv, NEW D \in Domain, SwitchDS(D)
  PROVE  IInv'
<1> DEFINE st == d.storage
<1>1. d' = [d EXCEPT !.dsbyte = D] /\ UNCHANGED <<pending, wanted, msg, final, out>>
  BY DEF SwitchDS
<1>2. d \in [a : Keccak, bufo : 0 .. rate, bufe : 0 .. rate, dsbyte : Domain,
              storage : {st}, state : {spongeAbsorbing, spongeSqueezing}]
  BY DEF IInv, TypeOK
<1>3. /\ d' \in [a : Keccak, bufo : 0 .. rate, bufe : 0 .. rate, dsbyte : Domain,
                  storage : {st}, state : {spongeAbsorbing, spongeSqueezing}]
      /\ d'.a = d.a /\ d'.bufo = d.bufo /\ d'.bufe = d.bufe /\ d'.storage = st
      /\ d'.state = d.state
  <2> HIDE DEF st
  <2>1. d.storage = st
    BY DEF st
  <2>2. QED
    BY <1>1, <1>2, <2>1
<1>4. TypeOK'
  BY <1>1, <1>3 DEF IInv, TypeOK
<1>5. BufferReady' /\ AbsorbInv'
  BY <1>1, <1>3 DEF IInv, BufferReady, AbsorbInv
<1>6. SqueezeInv'
  BY <1>1, <1>3 DEF IInv, SqueezeInv
<1>7. QED
  BY <1>4, <1>5, <1>6 DEF IInv

\* What a squeezing sponge holds: the bytes of the stream that follow those read.
LEMMA HeldBytes ==
  ASSUME IInv, d.state = spongeSqueezing, NEW i \in Place
  PROVE  /\ d.storage[i] = SpongeByte(msg, final, d.a.squeezes * rate + i)
         /\ d.storage[i] \in OutByte
<1>1. d.storage[i] = [from |-> d.a, at |-> i] /\ d.a.blocks = BlocksOf(msg, final)
  BY DEF IInv, SqueezeInv, copyOut
<1>2. d.a \in Keccak /\ d.a.squeezes \in Nat
  BY Fields DEF IInv
<1> DEFINE q == d.a.squeezes
<1>3. (q * rate + i) \div rate = q /\ (q * rate + i) % rate = i
  BY <1>2, DivMod
<1> DEFINE bs == d.a.blocks
<1>4. d.a = [blocks |-> bs, squeezes |-> q]
  BY <1>2 DEF Keccak
<1>5. SpongeByte(msg, final, q * rate + i) = [from |-> [blocks |-> bs, squeezes |-> q], at |-> i]
  BY <1>1, <1>3, Zenon DEF SpongeByte
<1>6. d.storage[i] = [from |-> [blocks |-> bs, squeezes |-> q], at |-> i]
  BY <1>1, <1>4, Zenon
<1>7. [from |-> d.a, at |-> i] \in OutByte
  BY <1>2 DEF OutByte
<1>8. QED
  BY <1>1, <1>5, <1>6, <1>7, Zenon

\* Squeeze copies the bytes held, and permutes when none is left.
LEMMA SqueezeStep ==
  ASSUME IInv, Squeeze
  PROVE  IInv'
<1>a. /\ d.state = spongeSqueezing /\ d.bufo \in 0 .. rate - 1 /\ d.bufe = rate
      /\ rate \in Nat /\ rate > 0 /\ wanted \in Nat /\ wanted > 0
      /\ d.a.squeezes \in Nat /\ d.a \in Keccak
  <2>1. d.state = spongeSqueezing
    BY Fields DEF IInv, AbsorbInv, Squeeze
  <2>2. d.bufo < d.bufe /\ d.bufe = rate
    BY <2>1 DEF IInv, BufferReady, SqueezeInv
  <2>3. wanted \in Nat /\ wanted > 0
    BY DEF Squeeze, IInv, TypeOK
  <2>4. QED
    BY <2>1, <2>2, <2>3, Fields DEF IInv
<1>0. SUFFICES ASSUME NEW q \in Nat, q = d.a.squeezes,
                      NEW base \in Nat, base = q * rate,
                      NEW b \in Nat, b = d.bufo,
                      NEW n \in Nat, n = min(wanted, rate - b)
               PROVE  IInv'
  <2>1. d.a.squeezes * rate \in Nat
    BY <1>a, MulNat
  <2>2. min(wanted, rate - d.bufo) \in Nat
    BY <1>a DEF min
  <2>3. QED
    BY <1>a, <2>1, <2>2
<1>b. q = d.a.squeezes /\ b = d.bufo /\ b \in 0 .. rate - 1 /\ rate \in Nat /\ rate > 0
  BY <1>0, <1>a
<1>1. n >= 1 /\ n <= wanted /\ b + n <= rate
  <2>1. n = IF wanted < rate - b THEN wanted ELSE rate - b
    BY <1>0 DEF min
  <2>2. QED
    BY <1>a, <1>b, <2>1
<1> DEFINE x == [d EXCEPT !.bufo = b + n]
<1> DEFINE got == [i \in 1 .. n |-> d.storage[b + i - 1]]
<1>2. /\ out' = out \o got /\ wanted' = wanted - n
      /\ d' = IF x.bufo = x.bufe THEN permute(x) ELSE x
      /\ UNCHANGED <<pending, msg, final>>
  <2>1. n = min(wanted, d.bufe - d.bufo)
    BY <1>0, <1>a
  <2>2. QED
    BY <1>b, <2>1 DEF Squeeze
<1>3. /\ pending = <<>> /\ d.a.blocks = BlocksOf(msg, final) /\ d.storage = copyOut(d.a)
      /\ \A k \in 1 .. Len(out) : out[k] = SpongeByte(msg, final, k - 1)
      /\ Len(out) = base + b /\ out \in Seq(OutByte)
  <2>1. Len(out) = d.a.squeezes * rate + d.bufo
    BY <1>a DEF IInv, SqueezeInv
  <2>2. Len(out) = base + b
    BY <1>0, <2>1
  <2>3. QED
    BY <1>a, <2>2, Fields DEF IInv, SqueezeInv
<1>4. \A i \in 1 .. n : /\ got[i] = SpongeByte(msg, final, base + b + i - 1)
                        /\ got[i] \in OutByte
  <2> SUFFICES ASSUME NEW i \in 1 .. n
               PROVE  /\ got[i] = SpongeByte(msg, final, base + b + i - 1)
                      /\ got[i] \in OutByte
    OBVIOUS
  <2>1. b + i - 1 \in Place /\ base + (b + i - 1) = base + b + i - 1
    BY <1>1, <1>b DEF Place
  <2>2. /\ d.storage[b + i - 1] = SpongeByte(msg, final, d.a.squeezes * rate + (b + i - 1))
        /\ d.storage[b + i - 1] \in OutByte
    BY <1>a, <2>1, HeldBytes
  <2>3. d.a.squeezes * rate = base
    BY <1>0
  <2>4. got[i] = d.storage[b + i - 1]
    OBVIOUS
  <2>5. QED
    BY <2>1, <2>2, <2>3, <2>4
<1>5. got \in Seq(OutByte) /\ Len(got) = n
  <2>1. got \in [1 .. n -> OutByte]
    BY <1>4
  <2> HIDE DEF got
  <2>2. QED
    BY <2>1
<1>6. /\ out' \in Seq(OutByte) /\ Len(out') = base + b + n
      /\ \A k \in 1 .. Len(out') : out'[k] = SpongeByte(msg, final, k - 1)
  <2> HIDE DEF got
  <2>1. /\ out' \in Seq(OutByte) /\ Len(out') = Len(out) + Len(got)
        /\ \A k \in 1 .. Len(out) : out'[k] = out[k]
        /\ \A k \in 1 .. Len(got) : out'[Len(out) + k] = got[k]
    <3>1. out \in Seq(OutByte) /\ got \in Seq(OutByte) /\ out' = out \o got
      BY <1>2, <1>3, <1>5
    <3>2. QED
      BY <3>1
  <2>2. ASSUME NEW k \in 1 .. base + b + n PROVE out'[k] = SpongeByte(msg, final, k - 1)
    <3>1. CASE k \in 1 .. base + b
      BY <1>3, <2>1, <3>1
    <3>2. CASE k \notin 1 .. base + b
      <4>1. k - (base + b) \in 1 .. n /\ base + b + (k - (base + b)) = k
            /\ base + b + (k - (base + b)) - 1 = k - 1
        BY <3>2
      <4>2. out'[base + b + (k - (base + b))] = got[k - (base + b)]
        BY <1>3, <1>5, <2>1, <4>1
      <4>3. got[k - (base + b)] = SpongeByte(msg, final, base + b + (k - (base + b)) - 1)
        BY <1>4, <4>1
      <4>4. QED
        BY <4>1, <4>2, <4>3
    <3>3. QED
      BY <3>1, <3>2
  <2>3. Len(out') = base + b + n
    BY <1>3, <1>5, <2>1
  <2>4. QED
    BY <2>1, <2>2, <2>3
<1> DEFINE st == d.storage
<1>7. /\ x \in [a : {d.a}, bufo : {b + n}, bufe : {rate}, dsbyte : Domain,
                storage : {st}, state : {spongeSqueezing}]
      /\ st = [i \in Place |-> st[i]]
  <2>1. d \in [a : Keccak, bufo : 0 .. rate, bufe : 0 .. rate, dsbyte : Domain,
                storage : {st}, state : {spongeAbsorbing, spongeSqueezing}]
    BY DEF IInv, TypeOK
  <2>2. st = [i \in Place |-> st[i]]
    BY DEF IInv, TypeOK
  <2> HIDE DEF st
  <2>3. QED
    BY <1>a, <2>1, <2>2
<1>8. \A i \in Place : st[i] \in OutByte
  BY <1>a, HeldBytes
<1>9. wanted' \in Nat /\ UNCHANGED <<pending, msg, final>> /\ pending' = <<>>
  <2>1. wanted' \in Nat
    BY <1>1, <1>2, <1>a
  <2>2. QED
    BY <1>2, <1>3, <2>1
<1> HIDE DEF x, got
<1>10. ASSUME b + n < rate PROVE IInv'
  <2>1. d' = x
    BY <1>2, <1>7, <1>10, <1>b
  <2>2. /\ d'.a = d.a /\ d'.bufo = b + n /\ d'.bufe = rate /\ d'.storage = st
        /\ d'.state = spongeSqueezing
    BY <1>7, <2>1
  <2>3. TypeOK'
    <3>1. b + n \in 0 .. rate /\ rate \in 0 .. rate
      BY <1>b, <1>10
    <3>2. d' \in [a : Keccak, bufo : 0 .. rate, bufe : 0 .. rate, dsbyte : Domain,
                   storage : {d'.storage}, state : {spongeAbsorbing, spongeSqueezing}]
      <4> HIDE DEF st
      <4> QED
        BY <1>a, <1>7, <2>1, <2>2, <3>1
    <3>3. d'.storage = [i \in Place |-> d'.storage[i]]
      BY <1>7, <2>2
    <3>4. d'.bufo <= d'.bufe
      BY <1>b, <1>10, <2>2
    <3>5. \A i \in d'.bufo .. d'.bufe - 1 : d'.storage[i] \in OutByte
      BY <1>8, <1>b, <2>2 DEF Place
    <3>6. QED
      BY <1>6, <1>9, <2>2, <3>2, <3>3, <3>4, <3>5
         DEF IInv, TypeOK, spongeAbsorbing, spongeSqueezing
  <2>4. BufferReady' /\ AbsorbInv'
    BY <1>10, <2>2 DEF BufferReady, AbsorbInv, spongeAbsorbing, spongeSqueezing
  <2>5. SqueezeInv'
    <3>1. Len(out') = d'.a.squeezes * rate + d'.bufo
      <4>1. base + b + n = base + (b + n)
        BY <1>b
      <4>2. base = d'.a.squeezes * rate
        BY <1>0, <2>2
      <4>3. QED
        BY <1>6, <2>2, <4>1, <4>2
    <3>2. QED
      BY <1>3, <1>6, <1>9, <2>2, <3>1 DEF SqueezeInv
  <2>6. QED
    BY <2>3, <2>4, <2>5 DEF IInv
<1>11. ASSUME b + n = rate PROVE IInv'
  <2> DEFINE a2 == next(d.a)
  <2> DEFINE cp == copyOut(a2)
  <2>1. d' = [x EXCEPT !.a = a2, !.bufo = 0, !.bufe = rate, !.storage = cp]
    <3>1. x.bufo = x.bufe /\ x.state = spongeSqueezing /\ x.a = d.a
      BY <1>7, <1>11
    <3>2. QED
      BY <1>2, <3>1 DEF permute, spongeAbsorbing, spongeSqueezing
  <2>2. a2 \in Keccak /\ a2.squeezes = q + 1 /\ a2.blocks = d.a.blocks
    BY <1>a, <1>b DEF next, Keccak
  <2>3. cp = [i \in Place |-> cp[i]] /\ \A i \in Place : cp[i] = [from |-> a2, at |-> i]
    BY DEF copyOut
  <2> HIDE DEF a2, cp
  <2>4. \A i \in Place : cp[i] \in OutByte
    <3>1. \A i \in Place : [from |-> a2, at |-> i] \in OutByte
      BY <2>2 DEF OutByte
    <3>2. QED
      BY <2>3, <3>1, Zenon
  <2>5. d' \in [a : {a2}, bufo : {0}, bufe : {rate}, dsbyte : Domain, storage : {cp},
                state : {spongeSqueezing}]
    <3> HIDE DEF st
    <3> QED
      BY <1>7, <2>1
  <2>6. /\ d'.a = a2 /\ d'.bufo = 0 /\ d'.bufe = rate /\ d'.storage = cp
        /\ d'.state = spongeSqueezing
    BY <2>5
  <2>7. TypeOK'
    <3>1. 0 \in 0 .. rate /\ rate \in 0 .. rate
      BY <1>b
    <3>2. d' \in [a : Keccak, bufo : 0 .. rate, bufe : 0 .. rate, dsbyte : Domain,
                   storage : {d'.storage}, state : {spongeAbsorbing, spongeSqueezing}]
      BY <2>2, <2>5, <2>6, <3>1
    <3>3. d'.storage = [i \in Place |-> d'.storage[i]]
      BY <2>3, <2>6
    <3>4. d'.bufo <= d'.bufe
      BY <1>b, <2>6
    <3>5. \A i \in d'.bufo .. d'.bufe - 1 : d'.storage[i] \in OutByte
      BY <2>4, <2>6 DEF Place
    <3>6. QED
      BY <1>6, <1>9, <2>6, <3>2, <3>3, <3>4, <3>5
         DEF IInv, TypeOK, spongeAbsorbing, spongeSqueezing
  <2>8. BufferReady' /\ AbsorbInv'
    BY <1>b, <2>6 DEF BufferReady, AbsorbInv, spongeAbsorbing, spongeSqueezing
  <2>9. SqueezeInv'
    <3>1. Len(out') = d'.a.squeezes * rate + d'.bufo
      <4>1. base + b + n = base + rate + 0
        BY <1>b, <1>11
      <4>2. (q + 1) * rate = base + rate
        BY <1>0, <1>b, MulSucc
      <4>3. QED
        BY <1>6, <2>2, <2>6, <4>1, <4>2
    <3>2. d'.storage = copyOut(d'.a)
      BY <2>6 DEF cp
    <3>3. d'.a.blocks = BlocksOf(msg', final')
      BY <1>3, <1>9, <2>2, <2>6
    <3>4. QED
      BY <1>6, <1>9, <2>6, <3>1, <3>2, <3>3 DEF SqueezeInv
  <2>10. QED
    BY <2>7, <2>8, <2>9 DEF IInv
<1>12. QED
  BY <1>1, <1>b, <1>10, <1>11

LEMMA InvStep == IInv /\ [Next]_vars => IInv'
<1> SUFFICES ASSUME IInv, [Next]_vars PROVE IInv'
  OBVIOUS
<1>1. ASSUME NEW n \in 0 .. MaxMessage, NEW p \in [1 .. n -> Byte], Write(p) PROVE IInv'
  <2>1. p \in Seq(Byte)
    BY BoundAssumption
  <2>2. QED
    BY <1>1, <2>1, WriteStep
<1>2. ASSUME NEW n \in 0 .. MaxOutput, Read(n) PROVE IInv'
  <2>1. n \in Nat
    BY BoundAssumption
  <2>2. QED
    BY <1>2, <2>1, ReadStep
<1>3. CASE UNCHANGED vars
  <2>1. UNCHANGED <<d, pending, wanted, msg, final, out>>
    BY <1>3 DEF vars
  <2>2. TypeOK'
    BY <2>1 DEF IInv, TypeOK
  <2>3. BufferReady' /\ AbsorbInv' /\ SqueezeInv'
    BY <2>1 DEF IInv, BufferReady, AbsorbInv, SqueezeInv
  <2>4. QED
    BY <2>2, <2>3 DEF IInv
<1>4. QED
  BY <1>1, <1>2, <1>3, FastPathStep, SlowPathStep, SqueezeStep, ResetStep, SwitchDSStep DEF Next
-----------------------------------------------------------------------------
\* At every rate, no call leaves a field out of its range.
THEOREM TypeCorrect == Spec => []TypeOK
<1>1. Spec => []IInv
  BY InitInv, InvStep, PTL DEF Spec
<1>2. IInv => TypeOK
  BY DEF IInv
<1>3. QED
  BY <1>1, <1>2, PTL

\* At every rate and every cut of the input: padding always finds room for the
\* domain separation byte, and a squeezing sponge always holds a byte.
THEOREM BufferAlwaysReady == Spec => []BufferReady
<1>1. Spec => []IInv
  BY InitInv, InvStep, PTL DEF Spec
<1>2. IInv => BufferReady
  BY DEF IInv
<1>3. QED
  BY <1>1, <1>2, PTL

LEMMA SumInv == IInv => SumIsDigest
<1> SUFFICES ASSUME IInv, Idle, d.state = spongeAbsorbing
             PROVE  Sum(d) = [i \in 1 .. outputLen |-> SpongeByte(msg, d.dsbyte, i - 1)]
  BY DEF SumIsDigest
<1> DEFINE a2 == absorb(d.a, Pad(d.storage, d.bufe, d.dsbyte))
<1>1. a2 \in Keccak /\ a2.squeezes = 0 /\ a2.blocks = BlocksOf(msg, d.dsbyte)
  BY PadFacts DEF Idle
<1> DEFINE dup == padAndPermute(d)
<1>2. dup.bufo = 0 /\ dup.storage = copyOut(a2)
  <2> DEFINE cp == copyOut(a2)
  <2> DEFINE st == d.storage
  <2>1. d \in [a : Keccak, bufo : 0 .. rate, bufe : 0 .. rate, dsbyte : Domain,
                storage : {st}, state : {spongeAbsorbing, spongeSqueezing}]
    BY DEF IInv, TypeOK
  <2>2. dup = [d EXCEPT !.a = a2, !.storage = cp, !.bufo = 0, !.bufe = rate,
                        !.state = spongeSqueezing]
    BY DEF padAndPermute
  <2> HIDE DEF a2, cp, st, dup
  <2>3. dup.bufo = 0 /\ dup.storage = cp
    BY <2>1, <2>2
  <2>4. QED
    BY <2>3 DEF cp
<1>3. Sum(d) = [i \in 1 .. outputLen |-> dup.storage[dup.bufo + i - 1]]
  BY DEF Sum
<1> HIDE DEF a2, dup
<1>4. ASSUME NEW i \in 1 .. outputLen
      PROVE  dup.storage[dup.bufo + i - 1] = SpongeByte(msg, d.dsbyte, i - 1)
  <2>1. i - 1 \in Place /\ dup.bufo + i - 1 = i - 1
    BY <1>2, OutputAssumption, RateAssumption DEF Place
  <2>2. dup.storage[i - 1] = [from |-> a2, at |-> i - 1]
    BY <1>2, <2>1 DEF copyOut
  <2>3. (i - 1) \div rate = 0 /\ (i - 1) % rate = i - 1
    <3>1. (0 * rate + (i - 1)) \div rate = 0 /\ (0 * rate + (i - 1)) % rate = i - 1
      BY <2>1, DivMod
    <3>2. 0 * rate + (i - 1) = i - 1
      BY RateAssumption, OutputAssumption
    <3>3. QED
      BY <3>1, <3>2
  <2> DEFINE bs == a2.blocks
  <2>4. a2 = [blocks |-> bs, squeezes |-> 0]
    BY <1>1 DEF Keccak
  <2>5. SpongeByte(msg, d.dsbyte, i - 1) = [from |-> [blocks |-> bs, squeezes |-> 0], at |-> i - 1]
    BY <1>1, <2>3, Zenon DEF SpongeByte
  <2>6. QED
    BY <2>1, <2>2, <2>4, <2>5, Zenon
<1>5. QED
  BY <1>3, <1>4, Zenon

\* At every rate and digest length, whatever writes and resets came before.
THEOREM SumCorrect == Spec => []SumIsDigest
<1>1. Spec => []IInv
  BY InitInv, InvStep, PTL DEF Spec
<1>2. QED
  BY <1>1, SumInv, PTL
-----------------------------------------------------------------------------
LEMMA InitStream == Init => Stream!Init
<1> SUFFICES ASSUME Init PROVE Stream!Init
  OBVIOUS
<1>1. d.dsbyte \in Domain /\ d.state = spongeAbsorbing
  BY DEF Init
<1>2. QED
  BY <1>1 DEF Init, Stream!Init, spongeAbsorbing, spongeSqueezing

\* Every step of the buffered sponge is a step of the stream or shows nothing.
LEMMA StepStream == IInv /\ IInv' /\ [Next]_vars => [Stream!Next]_(Stream!vars)
<1> SUFFICES ASSUME IInv, IInv', [Next]_vars PROVE [Stream!Next]_(Stream!vars)
  OBVIOUS
<1>1. ASSUME NEW n \in 0 .. MaxMessage, NEW p \in [1 .. n -> Byte], Write(p)
      PROVE  Stream!Next
  <2>1. p \in Seq(Byte)
    BY BoundAssumption
  <2>2. /\ d.state = spongeAbsorbing /\ msg' = msg \o p /\ d' = d /\ final' = final
        /\ out' = out /\ msg \in Seq(Byte)
    BY <1>1 DEF Write, IInv, TypeOK
  <2>3. /\ msg' \in Seq(Byte) /\ Len(msg') >= Len(msg)
        /\ SubSeq(msg', 1, Len(msg)) = msg
    BY <2>1, <2>2
  <2>4. Stream!Absorb
    BY <2>2, <2>3 DEF Stream!Absorb, spongeAbsorbing, spongeSqueezing
  <2>5. QED
    BY <2>4 DEF Stream!Next
<1>2. ASSUME FastPath \/ SlowPath PROVE UNCHANGED Stream!vars
  <2>1. pending # <<>> /\ UNCHANGED <<msg, final, out>>
    BY <1>2 DEF FastPath, SlowPath
  <2>2. d.state = spongeAbsorbing
    BY <2>1, PendingAbsorbs
  <2>3. d'.dsbyte = d.dsbyte /\ d'.state = d.state
    <3> DEFINE st == d.storage
    <3>1. d \in [a : Keccak, bufo : 0 .. rate, bufe : 0 .. rate, dsbyte : Domain,
                  storage : {st}, state : {spongeAbsorbing, spongeSqueezing}]
      BY DEF IInv, TypeOK
    <3> HIDE DEF st
    <3>2. CASE FastPath
      BY <3>1, <3>2 DEF FastPath
    <3>3. CASE SlowPath
      <4>1. PICK e, s : d' = LET x == [d EXCEPT !.bufe = e, !.storage = s]
                             IN  IF x.bufe = rate THEN permute(x) ELSE x
        BY <3>3 DEF SlowPath
      <4> DEFINE x == [d EXCEPT !.bufe = e, !.storage = s]
      <4>2. x.state = spongeAbsorbing /\ x.dsbyte = d.dsbyte
        BY <2>2, <3>1
      <4>3. d' = IF x.bufe = rate THEN permute(x) ELSE x
        BY <4>1
      <4>4. permute(x).dsbyte = x.dsbyte /\ permute(x).state = x.state
        BY <3>1, <4>2 DEF permute
      <4> HIDE DEF x
      <4>5. QED
        BY <2>2, <4>2, <4>3, <4>4
    <3>4. QED
      BY <1>2, <3>2, <3>3
  <2>4. QED
    BY <2>1, <2>3 DEF Stream!vars
<1>3. ASSUME NEW n \in 0 .. MaxOutput, Read(n) PROVE Stream!Next
  <2>1. UNCHANGED <<msg, out>> /\ out \in Seq(OutByte)
    BY <1>3 DEF Read, IInv, TypeOK
  <2>2. /\ d'.state = spongeSqueezing /\ d'.dsbyte = d.dsbyte
        /\ final' = IF d.state = spongeSqueezing THEN final ELSE d.dsbyte
    <3> DEFINE st == d.storage
    <3>1. d \in [a : Keccak, bufo : 0 .. rate, bufe : 0 .. rate, dsbyte : Domain,
                  storage : {st}, state : {spongeAbsorbing, spongeSqueezing}]
      BY DEF IInv, TypeOK
    <3> HIDE DEF st
    <3>2. padAndPermute(d).state = spongeSqueezing /\ padAndPermute(d).dsbyte = d.dsbyte
      BY <3>1 DEF padAndPermute
    <3>3. QED
      BY <1>3, <3>1, <3>2 DEF Read, spongeAbsorbing, spongeSqueezing
  <2>3. out' = [k \in 1 .. Len(out') |->
                  IF k <= Len(out) THEN out[k] ELSE SpongeByte(msg, final', k - 1)]
    <3>1. out = [k \in 1 .. Len(out) |-> out[k]]
      BY <2>1
    <3>2. \A k \in 1 .. Len(out) : k <= Len(out)
      BY <2>1
    <3>3. QED
      BY <2>1, <3>1, <3>2, Zenon
  <2>4. Len(out') >= Len(out)
    BY <2>1
  <2>5. Stream!Squeeze
    BY <2>1, <2>2, <2>3, <2>4, Zenon DEF Stream!Squeeze
  <2>6. QED
    BY <2>5 DEF Stream!Next
<1>4. ASSUME Squeeze PROVE Stream!Next
  <2>1. d.state = spongeSqueezing
    BY <1>4, Fields DEF IInv, AbsorbInv, Squeeze
  <2>2. UNCHANGED <<msg, final>>
    BY <1>4 DEF Squeeze
  <2>3. d'.state = spongeSqueezing /\ d'.dsbyte = d.dsbyte
    <3> DEFINE st == d.storage
    <3>1. d \in [a : Keccak, bufo : 0 .. rate, bufe : 0 .. rate, dsbyte : Domain,
                  storage : {st}, state : {spongeAbsorbing, spongeSqueezing}]
      BY DEF IInv, TypeOK
    <3> HIDE DEF st
    <3>2. PICK o : d' = LET x == [d EXCEPT !.bufo = o]
                        IN  IF x.bufo = x.bufe THEN permute(x) ELSE x
      BY <1>4 DEF Squeeze
    <3> DEFINE x == [d EXCEPT !.bufo = o]
    <3>3. x.state = spongeSqueezing /\ x.dsbyte = d.dsbyte
      BY <2>1, <3>1
    <3>4. permute(x).dsbyte = x.dsbyte /\ permute(x).state = x.state
      BY <3>1, <3>3 DEF permute, spongeAbsorbing, spongeSqueezing
    <3>5. d' = IF x.bufo = x.bufe THEN permute(x) ELSE x
      BY <3>2
    <3> HIDE DEF x
    <3>6. QED
      BY <3>3, <3>4, <3>5
  <2>4. /\ out \in Seq(OutByte) /\ out' \in Seq(OutByte) /\ Len(out') >= Len(out)
        /\ \A k \in 1 .. Len(out) : out'[k] = out[k]
    <3> DEFINE got == [i \in 1 .. min(wanted, d.bufe - d.bufo) |-> d.storage[d.bufo + i - 1]]
    <3>1. out' = out \o got /\ out \in Seq(OutByte) /\ out' \in Seq(OutByte)
      BY <1>4 DEF Squeeze, IInv, TypeOK
    <3>2. min(wanted, d.bufe - d.bufo) \in Nat
      BY Fields DEF min, IInv, TypeOK
    <3> DEFINE N == min(wanted, d.bufe - d.bufo)
    <3> DEFINE S == {d.storage[d.bufo + i - 1] : i \in 1 .. N}
    <3>a. got \in [1 .. N -> S]
      <4> HIDE DEF N
      <4>1. \A i \in 1 .. N : d.storage[d.bufo + i - 1] \in S
        OBVIOUS
      <4>2. got = [i \in 1 .. N |-> d.storage[d.bufo + i - 1]]
        BY DEF N
      <4> HIDE DEF S, got
      <4>3. QED
        BY <4>1, <4>2
    <3> HIDE DEF S, N
    <3>3. got \in Seq(S)
      BY <3>2, <3>a DEF N
    <3> HIDE DEF got
    <3>4. Len(got) \in Nat /\ Len(out') = Len(out) + Len(got)
          /\ \A k \in 1 .. Len(out) : out'[k] = out[k]
      BY <3>1, <3>3
    <3>5. QED
      BY <3>1, <3>4
  <2>5. \A k \in 1 .. Len(out') : out'[k] = SpongeByte(msg', final', k - 1)
    BY <2>3 DEF IInv, SqueezeInv
  <2>6. out' = [k \in 1 .. Len(out') |->
                  IF k <= Len(out) THEN out[k] ELSE SpongeByte(msg, final', k - 1)]
    <3>1. ASSUME NEW k \in 1 .. Len(out')
          PROVE  out'[k] = IF k <= Len(out) THEN out[k] ELSE SpongeByte(msg, final', k - 1)
      <4>1. CASE k <= Len(out)
        <5>1. k \in 1 .. Len(out)
          BY <2>4, <4>1
        <5>2. QED
          BY <2>4, <4>1, <5>1
      <4>2. CASE ~(k <= Len(out))
        BY <2>2, <2>5, <4>2
      <4>3. QED
        BY <4>1, <4>2
    <3>2. out' = [k \in 1 .. Len(out') |-> out'[k]]
      BY <2>4
    <3>3. QED
      BY <3>1, <3>2, Zenon
  <2>7. Stream!Squeeze
    BY <2>1, <2>2, <2>3, <2>4, <2>6, Zenon DEF Stream!Squeeze
  <2>8. QED
    BY <2>7 DEF Stream!Next
<1>5. ASSUME Reset PROVE Stream!Next
  <2>1. msg' = <<>> /\ out' = <<>> /\ final' = final
    BY <1>5 DEF Reset
  <2>2. d'.state = spongeAbsorbing /\ d'.dsbyte = d.dsbyte
    <3> DEFINE st == d.storage
    <3>1. d \in [a : Keccak, bufo : 0 .. rate, bufe : 0 .. rate, dsbyte : Domain,
                  storage : {st}, state : {spongeAbsorbing, spongeSqueezing}]
      BY DEF IInv, TypeOK
    <3> HIDE DEF st
    <3>2. QED
      BY <1>5, <3>1 DEF Reset
  <2>3. Stream!Reset
    BY <2>1, <2>2 DEF Stream!Reset, spongeAbsorbing, spongeSqueezing
  <2>4. QED
    BY <2>3 DEF Stream!Next
<1>6. ASSUME NEW D \in Domain, SwitchDS(D) PROVE Stream!Next
  <2>1. UNCHANGED <<msg, final, out>>
    BY <1>6 DEF SwitchDS
  <2>2. d'.state = d.state /\ d'.dsbyte = D
    <3> DEFINE st == d.storage
    <3>1. d \in [a : Keccak, bufo : 0 .. rate, bufe : 0 .. rate, dsbyte : Domain,
                  storage : {st}, state : {spongeAbsorbing, spongeSqueezing}]
      BY DEF IInv, TypeOK
    <3> HIDE DEF st
    <3>2. QED
      BY <1>6, <3>1 DEF SwitchDS
  <2>3. Stream!SwitchDS(D)
    BY <2>1, <2>2 DEF Stream!SwitchDS
  <2>4. QED
    BY <2>3 DEF Stream!Next
<1>7. CASE UNCHANGED vars
  BY <1>7 DEF vars, Stream!vars
<1>8. QED
  BY <1>1, <1>2, <1>3, <1>4, <1>5, <1>6, <1>7 DEF Next

\* The buffered sponge implements the output stream at every rate and byte set,
\* for every cut of the input and of the output.
THEOREM Refinement == Spec => IsStream
<1>1. Spec => []IInv
  BY InitInv, InvStep, PTL DEF Spec
<1>2. QED
  BY <1>1, InitStream, StepStream, PTL DEF Spec, IsStream, Stream!Spec
=============================================================================
