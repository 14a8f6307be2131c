-------------------------------- MODULE Flp --------------------------------
(* The proof system and the circuits of vdaf/prio3: Count, Sum, SumVec,      *)
(* Histogram and MultiHotCountVec over a small field. A client encodes a     *)
(* measurement and proves it; a faulty one may change an entry of the vector *)
(* before it proves or an entry of the proof afterwards. The aggregators     *)
(* query their shares, and decide on the sum of the answers.                 *)
(*                                                                           *)
(* A vector is a sequence, and so is a polynomial, its constant term first.  *)
EXTENDS Integers, Sequences, SequencesExt, FiniteSets, FiniteSetsExt

CONSTANTS Order,             \* of the field: a prime
          Generator,         \* of its units
          thresholdPolyMul,  \* from which on products are made by NTT
          Circuits,          \* records, made by newCount to newMhcv
          wordBits,          \* of an unsigned integer: 64
          JointRands,        \* patterns: functions of 1 .. 4 to the field
          Faults             \* what a faulty client adds to an entry

Fp == 0 .. Order - 1
FlpAssumption == /\ Order \in Nat \ {0, 1} /\ Generator \in Fp /\ wordBits \in Nat
                 /\ \A r \in JointRands : r \in [1 .. 4 -> Fp]

VARIABLES circuit, measurement,  \* of the client
          meas,                  \* the encoded vector, maybe changed
          joint,                 \* joint randomness
          proof,                 \* or None
          forged                 \* history: the proof was changed
vars == <<circuit, measurement, meas, joint, proof, forged>>

None == <<>>
-----------------------------------------------------------------------------
(* arith *)

Sum(f, n) ==
  LET s[i \in 0 .. n] == IF i = 0 THEN 0 ELSE (s[i - 1] + f[i]) % Order IN s[n]
Pow(x, n) ==
  LET s[i \in 0 .. n] == IF i = 0 THEN 1 ELSE (s[i - 1] * x) % Order IN s[n]
Inv(x) == CHOOSE y \in Fp : (x * y) % Order = 1
RootOfUnityTwoN(l) == Pow(Generator, (Order - 1) \div 2 ^ l)

Log2(n) == CHOOSE l \in 0 .. n : 2 ^ l >= n /\ (l = 0 \/ 2 ^ (l - 1) < n)
NextPow2(n) == 2 ^ Log2(n)

\* The sequence of e(1) to e(n), each computed once.
Vec(n, e(_)) ==
  LET v[i \in 0 .. n] == IF i = 0 THEN <<>> ELSE Append(v[i - 1], e(i)) IN v[n]

At(v, i) == IF i <= Len(v) THEN v[i] ELSE 0
AddVec(v, w) == Vec(Len(v), LAMBDA i : (v[i] + w[i]) % Order)
SubVec(v, w) == Vec(Len(v), LAMBDA i : (v[i] - w[i]) % Order)
ScalarMul(v, x) == Vec(Len(v), LAMBDA i : (v[i] * x) % Order)
DotProduct(v, w) == Sum([i \in DOMAIN v |-> (v[i] * w[i]) % Order], Len(v))
Evaluate(p, x) ==
  LET s[i \in 1 .. Len(p) + 1] == IF i > Len(p) THEN 0 ELSE (s[i + 1] * x + p[i]) % Order IN s[1]

\* bitRev, of a number of so many bits.
bitRev(x, bits) ==
  LET s[i \in 0 .. bits] == IF i = 0 THEN 0 ELSE 2 * s[i - 1] + ((x \div 2 ^ (i - 1)) % 2) IN s[bits]

\* In place, from the values in bit-reversed order: layers of butterflies.
NTT(values, n) ==
  LET logN == Log2(n)
      start == Vec(n, LAMBDA x : At(values, bitRev(x - 1, logN) + 1))
      layer(v, l) ==
        LET y == 2 ^ (l - 1)
            t(x) == Pow(RootOfUnityTwoN(l), (x - 1) % y) * v[x]
        IN  Vec(n, LAMBDA x : IF (x - 1) % 2 ^ l < y THEN (v[x] + t(x + y)) % Order
                                                     ELSE (v[x - y] - t(x)) % Order)
      v[l \in 0 .. logN] == IF l = 0 THEN start ELSE layer(v[l - 1], l)
  IN  v[logN]

InvNTT(values, n) ==
  LET v == NTT(values, n)
  IN  <<v[1]>> \o Reverse(Tail(v))

MulNSquare(x, y) ==
  Vec(Len(x) + Len(y) - 1, LAMBDA k :
    Sum([i \in DOMAIN x |-> IF k - i + 1 \in DOMAIN y THEN x[i] * y[k - i + 1] ELSE 0], Len(x)))

MulNlogN(x, y) ==
  LET n == NextPow2(Len(x) + Len(y) - 1)
      lx == NTT(x, n)
      ly == NTT(y, n)
      p == InvNTT([i \in 1 .. n |-> (lx[i] * ly[i]) % Order], n)
  IN  ScalarMul(SubSeq(p, 1, Len(x) + Len(y) - 1), Inv(n))

MulPoly(x, y) ==
  IF Len(x) + Len(y) - 1 < thresholdPolyMul THEN MulNSquare(x, y) ELSE MulNlogN(x, y)

\* Sqr: the squares of the coefficients, and each mixed product twice.
SqrPoly(x) ==
  LET mixed(i, j) == IF j \in i + 1 .. Len(x) THEN 2 * x[i] * x[j] ELSE 0
      square(k) == IF k % 2 = 1 THEN x[(k + 1) \div 2] ^ 2 ELSE 0
  IN  Vec(2 * Len(x) - 1, LAMBDA k :
        (square(k) + Sum([i \in DOMAIN x |-> mixed(i, k - i + 1)], Len(x))) % Order)

Bits(n) == CHOOSE l \in 0 .. n : 2 ^ l > n /\ (l = 0 \/ 2 ^ (l - 1) <= n)
SplitBits(n, bits) == [i \in 1 .. bits |-> (n \div 2 ^ (i - 1)) % 2]
JoinBits(v) == Evaluate(v, 2)
-----------------------------------------------------------------------------
(* Circuits *)

Offset(max) == 2 ^ Bits(max) - 1 - max
Calls(len, chunk) == (len + chunk - 1) \div chunk

newCount == [kind |-> "Count", gadget |-> "Mul", arity |-> 2, calls |-> 1,
             measLen |-> 1, jointLen |-> 0, evalLen |-> 1]
newSum(max) ==
  [kind |-> "Sum", gadget |-> "PolyEvalx2x", arity |-> 1, calls |-> 2 * Bits(max),
   measLen |-> 2 * Bits(max), jointLen |-> 0, evalLen |-> 2 * Bits(max) + 1,
   max |-> max, bits |-> Bits(max), offset |-> Offset(max)]
Chunked(c, chunk) ==
  c @@ [gadget |-> "ParallelSumInnerMul", arity |-> 2 * chunk, chunkLen |-> chunk,
        calls |-> Calls(c.measLen, chunk), jointLen |-> Calls(c.measLen, chunk)]
newSumVec(length, bits, chunk) ==
  Chunked([kind |-> "SumVec", measLen |-> length * bits, evalLen |-> 1,
           length |-> length, bits |-> bits], chunk)
newHistogram(length, chunk) ==
  Chunked([kind |-> "Histogram", measLen |-> length, evalLen |-> 2, length |-> length], chunk)
newMhcv(length, max, chunk) ==
  Chunked([kind |-> "Mhcv", measLen |-> length + Bits(max), evalLen |-> 2, length |-> length,
           max |-> max, bits |-> Bits(max), offset |-> Offset(max)], chunk)

\* What Encode returns: a vector, or an error and none.
Encoded(v) == [error |-> "", vec |-> v]
Refused(err) == [error |-> err, vec |-> <<>>]
Fits(n, bits) == n < 2 ^ bits   \* SplitBits returns ErrNumberTooLarge for others

SumEncode(c, m) ==
  LET shifted == (m + c.offset) % 2 ^ wordBits
  IN  IF Fits(m, c.bits) /\ Fits(shifted, c.bits)
      THEN Encoded(SplitBits(m, c.bits) \o SplitBits(shifted, c.bits))
      ELSE Refused("ErrNumberTooLarge")
SumVecEncode(c, m) ==
  IF Len(m) # c.length THEN Refused("ErrMeasurementLen")
  ELSE IF \E i \in DOMAIN m : ~Fits(m[i], c.bits) THEN Refused("ErrNumberTooLarge")
  ELSE Encoded(FlattenSeq([i \in DOMAIN m |-> SplitBits(m[i], c.bits)]))
HistogramEncode(c, m) ==
  IF m > c.length THEN Refused("ErrMeasurementValue")
  ELSE IF m = c.length THEN Refused("panic")   \* no entry of the vector has this index
  ELSE Encoded([i \in 1 .. c.length |-> IF i = m + 1 THEN 1 ELSE 0])
MhcvEncode(c, m) ==
  IF Len(m) # c.length THEN Refused("ErrMeasurementLen")
  ELSE IF ~Fits(Sum(m, c.length) + c.offset, c.bits) THEN Refused("ErrNumberTooLarge")
  ELSE Encoded(m \o SplitBits(Sum(m, c.length) + c.offset, c.bits))

Encode(c, m) ==
  CASE c.kind = "Count" -> Encoded(<<m>>)
    [] c.kind = "Sum" -> SumEncode(c, m)
    [] c.kind = "SumVec" -> SumVecEncode(c, m)
    [] c.kind = "Histogram" -> HistogramEncode(c, m)
    [] c.kind = "Mhcv" -> MhcvEncode(c, m)

\* The output share that is released of a share of the vector.
SumTruncate(c, v) == <<JoinBits(SubSeq(v, 1, c.bits))>>
SumVecTruncate(c, v) ==
  [i \in 1 .. c.length |-> JoinBits(SubSeq(v, (i - 1) * c.bits + 1, i * c.bits))]
MhcvTruncate(c, v) == SubSeq(v, 1, c.length)

Truncate(c, v) ==
  CASE c.kind \in {"Count", "Histogram"} -> v
    [] c.kind = "Sum" -> SumTruncate(c, v)
    [] c.kind = "SumVec" -> SumVecTruncate(c, v)
    [] c.kind = "Mhcv" -> MhcvTruncate(c, v)

BugOneOf(numShares) == 1   \* slip: a share is taken for the whole vector

\* The share of the constant one.
OneOf(numShares) == Inv(numShares)

\* RangeCheck: call i is of a chunk; what is past the end is zero.
RangeInputs(c, v, jointRand, numShares, i) ==
  LET elem(j) == At(v, (i - 1) * c.chunkLen + j)
      pair(j) == <<(Pow(jointRand[i], j) * elem(j)) % Order, (elem(j) - OneOf(numShares)) % Order>>
  IN  FlattenSeq([j \in 1 .. c.chunkLen |-> pair(j)])

\* The inputs of the gadget, in the order of its calls, when Eval runs.
Inputs(c, v, jointRand, numShares) ==
  Vec(c.calls, LAMBDA i :
        CASE c.kind = "Count" -> <<v[1], v[1]>>
          [] c.kind = "Sum" -> <<v[i]>>
          [] OTHER -> RangeInputs(c, v, jointRand, numShares, i))

\* What Eval makes of the gadget's outputs g.
Scaled(x, numShares) == (x * OneOf(numShares)) % Order
Weight(c, v) == Sum(SubSeq(v, 1, c.length), c.length)

CountEval(v, g) == <<(g[1] - v[1]) % Order>>
SumEval(c, v, g, numShares) ==
  Append(g, (Scaled(c.offset, numShares) + JoinBits(SubSeq(v, 1, c.bits))
               - JoinBits(SubSeq(v, c.bits + 1, 2 * c.bits))) % Order)
SumVecEval(c, g) == <<Sum(g, c.calls)>>
HistogramEval(c, v, g, numShares) ==
  <<Sum(g, c.calls), (Weight(c, v) - OneOf(numShares)) % Order>>
MhcvEval(c, v, g, numShares) ==
  <<Sum(g, c.calls), (Scaled(c.offset, numShares) + Weight(c, v)
                        - JoinBits(SubSeq(v, c.length + 1, Len(v)))) % Order>>

Eval(c, v, g, numShares) ==
  CASE c.kind = "Count" -> CountEval(v, g)
    [] c.kind = "Sum" -> SumEval(c, v, g, numShares)
    [] c.kind = "SumVec" -> SumVecEval(c, g)
    [] c.kind = "Histogram" -> HistogramEval(c, v, g, numShares)
    [] c.kind = "Mhcv" -> MhcvEval(c, v, g, numShares)

\* The gadget, of elements and of polynomials.
Gadget(c, in) ==
  IF c.gadget = "PolyEvalx2x" THEN (in[1] * in[1] - in[1]) % Order
  ELSE Sum([j \in 1 .. Len(in) \div 2 |-> (in[2 * j - 1] * in[2 * j]) % Order], Len(in) \div 2)

GadgetPoly(c, in) ==
  IF c.gadget = "PolyEvalx2x"
  THEN LET sqr == SqrPoly(in[1])
       IN  Vec(Len(sqr), LAMBDA k : (sqr[k] - At(in[1], k)) % Order)
  ELSE LET products == Vec(Len(in) \div 2, LAMBDA j : MulPoly(in[2 * j - 1], in[2 * j]))
       IN  FoldLeft(AddVec, products[1], Tail(products))
-----------------------------------------------------------------------------
(* The proof system *)

P(c) == NextPow2(1 + c.calls)

\* The values of a wire: its seed, then its input in each call, then zeros.
Wires(c, inputs, seeds) ==
  [a \in 1 .. c.arity |->
     Vec(P(c), LAMBDA k : IF k = 1 THEN seeds[a]
                          ELSE IF k <= c.calls + 1 THEN inputs[k - 1][a] ELSE 0)]

WirePoly(c, wires, a) == ScalarMul(InvNTT(wires[a], P(c)), Inv(P(c)))

Prove(c, v, proveRand, jointRand) ==
  LET wires == Wires(c, Inputs(c, v, jointRand, 1), proveRand)
  IN  [seeds |-> proveRand,
       poly |-> GadgetPoly(c, Vec(c.arity, LAMBDA a : WirePoly(c, wires, a)))]

\* The part of Query before its point: the share of the output, and the polynomials.
Queried(c, measShare, proofShare, queryRand, jointRand, numShares) ==
  LET wires == Wires(c, Inputs(c, measShare, jointRand, numShares), proofShare.seeds)
      alpha == RootOfUnityTwoN(Log2(P(c)))
      g == Vec(c.calls, LAMBDA k : Evaluate(proofShare.poly, Pow(alpha, k)))
      o == Eval(c, measShare, g, numShares)
  IN  [v |-> IF c.evalLen > 1 THEN DotProduct(o, queryRand) ELSE o[1],
       wirePoly |-> Vec(c.arity, LAMBDA a : WirePoly(c, wires, a)),
       poly |-> proofShare.poly]

BugInvalidPoint(c, t) == t = 1   \* slip: only one of the points where a wire shows its input

\* Query returns an error at such a point.
InvalidPoint(c, t) == Pow(t, P(c)) = 1

\* The verifier message at the point t: v, the wire checks, the gadget check.
Answer(q, t) ==
  <<q.v>> \o [a \in DOMAIN q.wirePoly |-> Evaluate(q.wirePoly[a], t)] \o <<Evaluate(q.poly, t)>>

Decide(c, verifier) ==
  /\ verifier[1] = 0
  /\ Gadget(c, SubSeq(verifier, 2, c.arity + 1)) = verifier[c.arity + 2]
-----------------------------------------------------------------------------
ProveRand(c) == [a \in 1 .. c.arity |-> (7 * a + 3) % Order]

\* What a client may measure: also numbers too large and vectors too short or too long.
Offered(c) ==
  CASE c.kind = "Count" -> {0, 1}
    [] c.kind = "Sum" -> 0 .. 2 ^ wordBits - 1
    [] c.kind = "SumVec" -> UNION {[1 .. n -> 0 .. 2 ^ c.bits] : n \in c.length - 1 .. c.length + 1}
    [] c.kind = "Histogram" -> 0 .. c.length + 1
    [] c.kind = "Mhcv" -> UNION {[1 .. n -> {0, 1}] : n \in c.length - 1 .. c.length + 1}

Init == /\ circuit \in Circuits /\ measurement \in Offered(circuit)
        /\ meas = Encode(circuit, measurement).vec
        /\ joint \in {SubSeq(r, 1, circuit.jointLen) : r \in JointRands}
        /\ proof = None /\ forged = FALSE

Corrupt(i, x) == /\ proof = None /\ meas = Encode(circuit, measurement).vec
                 /\ meas' = [meas EXCEPT ![i] = (@ + x) % Order]
                 /\ UNCHANGED <<circuit, measurement, joint, proof, forged>>

\* Shard goes on with what Encode returned, if it is no error.
ProveMeas == /\ proof = None /\ Encode(circuit, measurement).error = ""
             /\ proof' = Prove(circuit, meas, ProveRand(circuit), joint)
             /\ UNCHANGED <<circuit, measurement, meas, joint, forged>>

Forge(f, i, x) == /\ proof # None /\ ~forged
                  /\ proof' = [proof EXCEPT ![f][i] = (@ + x) % Order]
                  /\ forged' = TRUE
                  /\ UNCHANGED <<circuit, measurement, meas, joint>>

Next == \/ \E i \in DOMAIN meas, x \in Faults : Corrupt(i, x)
        \/ ProveMeas
        \/ \E f \in DOMAIN proof : \E i \in DOMAIN proof[f], x \in Faults : Forge(f, i, x)

Spec == Init /\ [][Next]_vars
-----------------------------------------------------------------------------
\* The measurements that the circuit is there to count.
Countable(c, m) ==
  CASE c.kind = "Count" -> TRUE
    [] c.kind = "Sum" -> m <= c.max
    [] c.kind = "SumVec" -> Len(m) = c.length /\ \A i \in DOMAIN m : m[i] < 2 ^ c.bits
    [] c.kind = "Histogram" -> m < c.length
    [] c.kind = "Mhcv" -> Len(m) = c.length /\ Sum(m, c.length) <= c.max

Honest == Countable(circuit, measurement) /\ meas = Encode(circuit, measurement).vec /\ ~forged
Valid(c, v) == v \in {Encode(c, m).vec : m \in {k \in Offered(c) : Countable(c, k)}}

\* A vector in n shares; the first one is what the others leave.
Shares(v, n) ==
  LET helper(k) == [i \in DOMAIN v |-> (13 * i + 29 * k + i * i) % Order]
      others == Vec(n - 1, helper)
  IN  <<FoldLeft(SubVec, v, others)>> \o others

SumVecs(vs) == FoldLeft(AddVec, vs[1], Tail(vs))

\* Whatever they are of, the answers to the shares sum up to the answer to the whole.
Linear(c, whole, n) ==
  LET ms == Shares(meas, n)
      seeds == Shares(proof.seeds, n)
      polys == Shares(proof.poly, n)
      q == Vec(n, LAMBDA k : Queried(c, ms[k], [seeds |-> seeds[k], poly |-> polys[k]],
                                     [i \in 1 .. c.evalLen |-> i + 1], joint, n))
  IN  /\ Sum([k \in 1 .. n |-> q[k].v], n) = whole.v
      /\ \A a \in 1 .. c.arity : SumVecs([k \in 1 .. n |-> q[k].wirePoly[a]]) = whole.wirePoly[a]
      /\ SumVecs([k \in 1 .. n |-> Truncate(c, ms[k])]) = Truncate(c, meas)

\* The points at which a proof is accepted.
AcceptedAt(c, q) == {t \in Fp : ~InvalidPoint(c, t) /\ Decide(c, Answer(q, t))}

\* The output of the circuit on random scalars that are powers of one: a polynomial in it.
Degree(c) == IF c.jointLen = 0 THEN 1 ELSE (c.chunkLen + 1) ^ c.calls
OutputAt(c, v, x) ==
  LET jointRand == [i \in 1 .. c.jointLen |-> Pow(x, (c.chunkLen + 1) ^ (i - 1))]
      inputs == Inputs(c, v, jointRand, 1)
      o == Eval(c, v, [k \in 1 .. c.calls |-> Gadget(c, inputs[k])], 1)
  IN  DotProduct(o, [i \in 1 .. c.evalLen |-> Pow(x, Degree(c) * (i - 1))])

Counted(c, m) ==
  IF c.kind \in {"Count", "Sum"} THEN <<m>>
  ELSE IF c.kind = "Histogram" THEN [i \in 1 .. c.length |-> IF i = m + 1 THEN 1 ELSE 0] ELSE m

\* A measurement in range is encoded, and one out of range is not, unless it wraps around a word.
EncodedInRange ==
  LET c == circuit
      accepted == Encode(c, measurement).error = ""
  IN  /\ Countable(c, measurement) => accepted
      /\ accepted => Countable(c, measurement) \/ (c.kind = "Sum" /\ c.bits = wordBits)

(* Encode lets through what is in range. Shares of any vector and proof       *)
(* answer for the whole. An honest client is accepted at every point but      *)
(* those where a wire shows an input, and what is released of its vector is   *)
(* the measurement. A polynomial that is not the gadget of the wires is       *)
(* accepted at no more points than its degree; and the output of a vector     *)
(* that encodes nothing, or what wrapped around, vanishes for no more random  *)
(* scalars than its degree, so that with the gadget's polynomial it is        *)
(* refused.                                                                  *)
ProofDecides ==
  /\ EncodedInRange
  /\ proof # None =>
       LET c == circuit
           whole == Queried(c, meas, proof, [i \in 1 .. c.evalLen |-> i + 1], joint, 1)
           right == GadgetPoly(c, whole.wirePoly)
           shown == {Pow(RootOfUnityTwoN(Log2(P(c))), k) : k \in 0 .. P(c) - 1}
       IN  /\ \A n \in {2, 3} : Linear(c, whole, n)
           /\ {t \in Fp : InvalidPoint(c, t)} = shown
           /\ Honest => /\ AcceptedAt(c, whole) = Fp \ shown
                        /\ Truncate(c, meas) = Counted(c, measurement)
           /\ proof.poly # right => Cardinality(AcceptedAt(c, whole)) <= 2 * (P(c) - 1)
           /\ ~Valid(c, meas) =>
                Cardinality({x \in Fp : OutputAt(c, meas, x) = 0})
                  <= (IF c.jointLen = 0 THEN c.evalLen - 1 ELSE Degree(c))

(* A bucket that a histogram does not have is refused with an error, as       *)
(* ErrMeasurementValue (flp.go:147) is there for. The code falls short: the   *)
(* first number after the last bucket is let through to an index out of range *)
(* (histogram.go:117).                                                       *)
BucketCountedOrRefused ==
  circuit.kind = "Histogram" => Encode(circuit, measurement).error # "panic"
=============================================================================
