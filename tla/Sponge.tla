------------------------------- MODULE Sponge -------------------------------
(***************************************************************************)
(* The buffered sponge behind SHA-3, SHAKE and TurboSHAKE (internal/sha3): *)
(* a rate-sized storage that buffers input while absorbing and holds       *)
(* output while squeezing, in front of the Keccak permutation.             *)
(*                                                                         *)
(* The permutation is ideal: its state is the list of blocks it absorbed   *)
(* and the number of permutations since, and an output byte is a term of   *)
(* these and of its place in the block.  The loops of Write and Read are   *)
(* taken one iteration at a time, with what is left of the argument in     *)
(* "pending" and "wanted".                                                 *)
(***************************************************************************)
EXTENDS Integers, Sequences

CONSTANTS
  rate,        \* bytes of a block
  outputLen,   \* bytes of a digest returned by Sum
  Byte,        \* message bytes
  Domain,      \* domain separation bytes
  MaxMessage,  \* bound: bytes written
  MaxOutput    \* bound: bytes read

ASSUME RateAssumption   == rate \in Nat \ {0}
ASSUME OutputAssumption == outputLen \in 0 .. rate
ASSUME ByteAssumption   == Byte \subseteq 0 .. 255
ASSUME DomainAssumption == Domain \subseteq 1 .. 127   \* NewTurboShake128 refuses others
ASSUME BoundAssumption  == MaxMessage \in Nat /\ MaxOutput \in Nat

spongeAbsorbing == "absorbing"
spongeSqueezing == "squeezing"

Place   == 0 .. rate - 1
Block   == [Place -> 0 .. 255]
Keccak  == [blocks : Seq(Block), squeezes : Nat]
OutByte == [from : Keccak, at : Place]

VARIABLES
  d,         \* the State struct
  pending,   \* what a Write in progress has left to absorb
  wanted,    \* how many bytes a Read in progress has left to copy
  msg,       \* history: everything written since the last reset
  final,     \* history: the domain separation byte padding used
  out        \* history: everything read since the last reset

vars == <<d, pending, wanted, msg, final, out>>
-----------------------------------------------------------------------------
absorb(a, block) == [a EXCEPT !.blocks = Append(@, block)]   \* xorIn, KeccakF1600
next(a)          == [a EXCEPT !.squeezes = @ + 1]            \* KeccakF1600
copyOut(a)       == [i \in Place |-> [from |-> a, at |-> i]]

permute(s) ==
  IF s.state = spongeAbsorbing
    THEN [s EXCEPT !.a = absorb(s.a, s.storage), !.bufo = 0, !.bufe = 0]
    ELSE [s EXCEPT !.a = next(s.a), !.bufo = 0, !.bufe = rate,
                   !.storage = copyOut(next(s.a))]

\* The domain separation byte, zeros, and the last bit of the last byte: the
\* byte there is below 128, so setting the bit adds 128.
Pad(storage, n, D) ==
  [i \in Place |-> (IF i < n THEN storage[i] ELSE IF i = n THEN D ELSE 0)
                   + (IF i = rate - 1 THEN 128 ELSE 0)]

BugPadAndPermute(s) ==   \* slip: what the storage held is not cleared
  LET a == absorb(s.a, [i \in Place |-> IF i = s.bufe THEN s.dsbyte ELSE s.storage[i]])
  IN  [s EXCEPT !.a = a, !.storage = copyOut(a), !.bufo = 0, !.bufe = rate,
                !.state = spongeSqueezing]

padAndPermute(s) ==
  LET a == absorb(s.a, Pad(s.storage, s.bufe, s.dsbyte))
  IN  [s EXCEPT !.a = a, !.storage = copyOut(a), !.bufo = 0, !.bufe = rate,
                !.state = spongeSqueezing]

min(m, n) == IF m < n THEN m ELSE n
Rest(p, n) == SubSeq(p, n + 1, Len(p))

Idle == pending = <<>> /\ wanted = 0
-----------------------------------------------------------------------------
Init == /\ d \in [a : {[blocks |-> <<>>, squeezes |-> 0]}, bufo : {0}, bufe : {0},
                  dsbyte : Domain, storage : {[i \in Place |-> 0]},
                  state : {spongeAbsorbing}]
        /\ pending = <<>> /\ wanted = 0
        /\ msg = <<>> /\ out = <<>> /\ final = d.dsbyte

\* Writing to a squeezing sponge panics.
Write(p) == /\ Idle
            /\ d.state = spongeAbsorbing
            /\ Len(msg) + Len(p) <= MaxMessage
            /\ pending' = p
            /\ msg' = msg \o p
            /\ UNCHANGED <<d, wanted, final, out>>

BugOnFastPath == Len(pending) >= rate   \* slip: buffered bytes are overtaken

OnFastPath == d.bufe - d.bufo = 0 /\ Len(pending) >= rate

\* Absorb a full block of the argument, past the buffer.
FastPath == /\ pending # <<>>
            /\ OnFastPath
            /\ d' = [d EXCEPT !.a = absorb(d.a, [i \in Place |-> pending[i + 1]])]
            /\ pending' = Rest(pending, rate)
            /\ UNCHANGED <<wanted, msg, final, out>>

BugSlowPathLength ==   \* slip: what the buffer holds already is forgotten
  /\ pending # <<>>
  /\ ~OnFastPath
  /\ LET bufl == d.bufe - d.bufo
         todo == min(rate, Len(pending))
         s    == [d EXCEPT !.bufe = @ + todo,
                           !.storage = [i \in Place |->
                              IF i \in d.bufo + bufl .. d.bufo + bufl + todo - 1
                                THEN pending[i - (d.bufo + bufl) + 1] ELSE @[i]]]
     IN  /\ d' = IF s.bufe = rate THEN permute(s) ELSE s
         /\ pending' = Rest(pending, todo)
  /\ UNCHANGED <<wanted, msg, final, out>>

BugSlowPathLazy ==   \* slip: a full buffer waits for the next write
  /\ pending # <<>>
  /\ ~OnFastPath
  /\ LET bufl == d.bufe - d.bufo
         todo == min(rate - bufl, Len(pending))
         s    == [d EXCEPT !.bufe = @ + todo,
                           !.storage = [i \in Place |->
                              IF i \in d.bufo + bufl .. d.bufo + bufl + todo - 1
                                THEN pending[i - (d.bufo + bufl) + 1] ELSE @[i]]]
     IN  /\ d' = IF s.bufe = rate /\ Rest(pending, todo) # <<>> THEN permute(s) ELSE s
         /\ pending' = Rest(pending, todo)
  /\ UNCHANGED <<wanted, msg, final, out>>

\* Buffer some of the argument, and permute when the buffer is full.
SlowPath ==
  /\ pending # <<>>
  /\ ~OnFastPath
  /\ LET bufl == d.bufe - d.bufo
         todo == min(rate - bufl, Len(pending))
         s    == [d EXCEPT !.bufe = @ + todo,
                           !.storage = [i \in Place |->
                              IF i \in d.bufo + bufl .. d.bufo + bufl + todo - 1
                                THEN pending[i - (d.bufo + bufl) + 1] ELSE @[i]]]
     IN  /\ d' = IF s.bufe = rate THEN permute(s) ELSE s
         /\ pending' = Rest(pending, todo)
  /\ UNCHANGED <<wanted, msg, final, out>>

\* Even a read of no bytes ends the absorbing.
Read(n) == /\ Idle
           /\ Len(out) + n <= MaxOutput
           /\ d' = IF d.state = spongeAbsorbing THEN padAndPermute(d) ELSE d
           /\ final' = IF d.state = spongeAbsorbing THEN d.dsbyte ELSE final
           /\ wanted' = n
           /\ UNCHANGED <<pending, msg, out>>

\* Copy what the buffer holds, and permute when it is dry.
Squeeze == /\ wanted > 0
           /\ LET n == min(wanted, d.bufe - d.bufo)
                  s == [d EXCEPT !.bufo = @ + n]
              IN  /\ out' = out \o [i \in 1 .. n |-> d.storage[d.bufo + i - 1]]
                  /\ wanted' = wanted - n
                  /\ d' = IF s.bufo = s.bufe THEN permute(s) ELSE s
           /\ UNCHANGED <<pending, msg, final>>

\* Neither the domain separation byte nor the storage is cleared.
Reset == /\ Idle
         /\ d' = [d EXCEPT !.a = [blocks |-> <<>>, squeezes |-> 0], !.bufo = 0,
                           !.bufe = 0, !.state = spongeAbsorbing]
         /\ msg' = <<>> /\ out' = <<>>
         /\ UNCHANGED <<pending, wanted, final>>

SwitchDS(D) == /\ Idle
               /\ d' = [d EXCEPT !.dsbyte = D]
               /\ UNCHANGED <<pending, wanted, msg, final, out>>

Next == \/ \E n \in 0 .. MaxMessage : \E p \in [1 .. n -> Byte] : Write(p)
        \/ FastPath \/ SlowPath
        \/ \E n \in 0 .. MaxOutput : Read(n)
        \/ Squeeze
        \/ Reset
        \/ \E D \in Domain : SwitchDS(D)

Spec == Init /\ [][Next]_vars

\* Sum reads the digest from a copy, which it leaves no trace of; outputLen is
\* at most the rate, so the first block holds it.
Sum(s) == LET dup == IF s.state = spongeAbsorbing THEN padAndPermute(s) ELSE s
          IN  [i \in 1 .. outputLen |-> dup.storage[dup.bufo + i - 1]]
-----------------------------------------------------------------------------
\* The sponge construction (FIPS 202, section 4): the message is padded to
\* whole blocks, all are absorbed, and output is read block after block.
BlocksOf(m, D) ==
  LET n == Len(m) \div rate
  IN  [j \in 1 .. n + 1 |->
         IF j <= n THEN [i \in Place |-> m[(j - 1) * rate + i + 1]]
                   ELSE Pad([i \in Place |-> IF n * rate + i + 1 <= Len(m)
                                               THEN m[n * rate + i + 1] ELSE 0],
                            Len(m) - n * rate, D)]

SpongeByte(m, D, k) == [from |-> [blocks |-> BlocksOf(m, D), squeezes |-> k \div rate],
                        at   |-> k % rate]
-----------------------------------------------------------------------------
\* Every variable stays in its range, the buffer's ends in the storage, and
\* the buffer holds message bytes while absorbing and output while squeezing.
TypeOK ==
  /\ d \in [a : Keccak, bufo : 0 .. rate, bufe : 0 .. rate, dsbyte : Domain,
            storage : {d.storage}, state : {spongeAbsorbing, spongeSqueezing}]
  /\ d.storage = [i \in Place |-> d.storage[i]]
  /\ d.bufo <= d.bufe
  /\ \A i \in d.bufo .. d.bufe - 1 :
        IF d.state = spongeAbsorbing THEN d.storage[i] \in Byte
                                     ELSE d.storage[i] \in OutByte
  /\ pending \in Seq(Byte) /\ wanted \in Nat
  /\ msg \in Seq(Byte) /\ final \in Domain /\ out \in Seq(OutByte)

\* There is a free byte in the buffer whenever padding may be applied
\* (sha3.go:104), and a byte to copy whenever one is squeezed: the buffer is
\* emptied, or refilled, eagerly.
BufferReady == /\ d.state = spongeAbsorbing => d.bufo = 0 /\ d.bufe < rate
               /\ d.state = spongeSqueezing => d.bufo < d.bufe

\* Between calls, Sum of an absorbing sponge is the digest of what was written
\* since the last reset, and taking it disturbs nothing.
SumIsDigest ==
  Idle /\ d.state = spongeAbsorbing
    => Sum(d) = [i \in 1 .. outputLen |-> SpongeByte(msg, d.dsbyte, i - 1)]

\* The buffered sponge implements the abstract output stream, with the sponge
\* construction for its bytes: how writes and reads are cut never shows.
Stream == INSTANCE Xof WITH XofByte <- SpongeByte, ds <- d.dsbyte,
                            squeezing <- (d.state = spongeSqueezing)

IsStream == Stream!Spec
=============================================================================
