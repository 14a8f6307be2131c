# CIRCL in TLA+

Specifications of the stateful parts of CIRCL (Cloudflare Interoperable Reusable
Cryptographic Library, Go), the TLC configurations that model-check them, and
theorems about them checked by TLAPS. Paths such as `hpke/aead.go` are relative to
the root of the repository (`src/` in `PROJECT.json`).

Two things decide what is modelled. First, where calls have an order and objects
remember: encryption contexts, hash states, threshold protocols, multi-party
protocols, tree hashes, signing loops. Second, where an algorithm decides
something by many cases that a test vector seldom meets: rejection bounds, hints,
lazy reductions, policies, proofs. Both are over *ideal* primitives: an AEAD opens
exactly what it sealed, a permutation or a hash is a term of its input, and numbers
are the real ones where they fit in 32 bits and small ones elsewhere. What is left
out is mostly straight-line arithmetic on hundreds of bits, which keeps no state and
is out of a model checker's reach.

`PROJECT.json` is the index: components, runs, the source lines each definition
models (`map`), mutations of the code's definitions that each property must catch
(`mutants`), the hazards, the findings and the theorems.

## Inventory

| Component | State it keeps | Operations | Hard behaviour | Status |
|---|---|---|---|---|
| HPKE contexts (`hpke/aead.go`, `marshal.go`) | key, base nonce, sequence number, scratch nonce; their serialized copies | `Seal`, `Open`, `increment`, `MarshalBinary`, `UnmarshalSealer/Opener` | lost, repeated, reordered ciphertexts; crash and restore; the last sequence number | modelled |
| HPKE setup (`hpke/hpke.go`, `util.go`) | mode, sender key, PSK and PSK identifier, kept from call to call | four `Setup` methods of `Sender` and of `Receiver`, with their failures | a field left by an earlier call | modelled |
| HPKE suites and KEM adapters (`hpke/algs.go`, ...) | none | tables; DHKEM | none | ideal |
| Sponge (`internal/sha3`) | permutation state, buffer and its two ends, direction, domain byte | `Write`, `Read`, `Sum`, `Reset`, `SwitchDS`, `Clone` | every cut of input and output; buffer full and empty | modelled |
| KangarooTwelve (`xof/k12`) | stalk sponge, leaf sponge, lane buffer, offset, chunk counter, first-chunk remainder | `Write`, `Read`, `Reset`, `Clone` | chunk, buffer and lane boundaries meeting; clones sharing memory; write after read | modelled |
| XOF interface (`xof/xof.go`) | that of the XOF behind it | `Write`, `Read`, `Reset`, `Clone` | the promise, `Xof` | promise only |
| Threshold RSA (`tss/rsa`) | key shares with a cached exponent, signature shares | `Deal`, `Sign`, `CombineSignShares` | any quorum in any order; rational coefficients; a goroutine per signature | modelled but for encodings, padding and `GenerateKey` |
| Prio3 (`vdaf/prio3`) | prep states and shares, aggregate shares, by aggregator | `Shard`, `PrepInit`, `PrepSharesToPrep`, `PrepNext`, `AggregateUpdate`, `Unshard` | three kinds of parties; reports, shares and messages mixed or out of order | modelled, with an ideal proof system |
| Circuits and proofs of Prio3 (`vdaf/prio3/*`, `internal/flp`, `arith`) | none between calls | `Encode`, `Eval`, `Prove`, `Query`, `Decide`, `Truncate`; polynomials and their transform | a measurement out of range; shares of joint randomness; two ways to multiply | modelled on a small field |
| OPRF (`oprf`, `zk/dleq`) | blinds and inputs of a batch; the server's key and its cached public key | `Blind`, `Evaluate`, `Finalize`, `FullEvaluate`, three modes | alignment of a batch; tweak at zero; late answers | modelled on exponents |
| Oblivious transfer (`ot/simot`) | secrets and points of each round, in the object | `InitSender`, `Round1Receiver`, `Round2Sender`, `Round3Receiver` | rounds repeated or crossed | modelled |
| Secret sharing (`secretsharing`, `math/polynomial`) | the polynomial | `Share`, `CommitSecret`, `Verify`, `Recover` | repeated and surplus shares; leading zeros | modelled |
| SLH-DSA (`sign/slhdsa`) | the hash state, address and output buffer all calls share; the tree-hash stack | tree hash of XMSS and FORS, hypertree, WOTS+ | aliasing; stack capacity; an address used twice | modelled from the digest on |
| ML-DSA, Dilithium (`sign/mldsa`, `sign/dilithium`) | attempt counter and mask nonce of a signature | rejection loop, rounding, hints, `Verify` | bounds at the edge of rejection; encodings of hints | modelled but for sampling and packing |
| ML-KEM, Kyber (`kem/mlkem`, `kem/kyber`, `pke/kyber`) | unpacked keys that share a vector | encapsulate, decapsulate, unpack; reductions, transforms | implicit rejection; a key refused but kept; overflow of lazy reductions | modelled but for sampling and packing |
| Blind RSA (`blindsign/blindrsa`) | blinding state of a client | `Blind`, `BlindSign`, `Finalize` | blinds without inverse; the derived exponent | modelled but for encodings |
| CP-ABE (`abe/cpabe/tkn20`) | the gates of a policy, sorted in place | policy language, formulas, matrices; `Setup`, `KeyGen`, `Encrypt`, `Decrypt` | negation, wild cards, shares of a satisfying set; parts of two ciphertexts | modelled but for encodings |
| BLS signatures (`sign/bls`) | the private key and the public key cached in it; a public key object read into again | `KeyGen`, `UnmarshalBinary` of both keys, `PublicKey`, `Sign`, `Verify`, `Aggregate`, `VerifyAggregate` | a cached key that is stale; sums of signatures that cancel; points of small order | modelled, on a small curve |
| Pairing curve (`ecc/bls12381`, `ff`) | none | towers of fields, both groups with membership tests, cofactors and encodings, the pairing | several representations of a point; encodings of no point or of another group; carries and borrows | modelled on a small curve, but for the maps from bytes to points |
| Prime fields (`math/fp25519`, `math/fp448`, `vdaf/prio3/arith`, `ff`) | none | arithmetic on words, chains of squares and products | carries; residues that are not unique; the exponent of an inverse | modelled on small words; the chains with the real moduli |
| EdDSA, hybrid signatures and KEMs, X-Wing, Frodo, SIKE, Ascon | none | one call does all | none between calls | not modelled |
| Other groups and curves, DH, the rest of `math`, `simd` | none | arithmetic | none between calls | not modelled |

**How the parts interact.** All calls are direct calls within one process. HPKE's
contexts are made by its setup and meet over the application's network. K12 is built on the
sponge (`stalk` and `leaf` are `sha3.State`s) and on the parallel permutation.
ML-DSA, ML-KEM, SLH-DSA and Prio3 take their randomness from the sponge through
`xof`. The only goroutine of the library that outlives the statement
that starts it is the one in `tss/rsa`'s `Sign`; elsewhere concurrency is between
callers, and an object is not meant to be shared without a lock. Nothing is
persisted by the library itself; what HPKE contexts and threshold shares
serialize is kept by the application.

**What makes each part correct.** HPKE: no nonce twice, ends in step, a FIFO channel;
keys agree exactly when callers agree. Sponge and K12: the output is a function of the
message and not of how it was cut; a clone is independent. Threshold RSA: any quorum's
shares combine into the one signature; a signature share is the same whatever the
scheduler does. Prio3: an output share is released only where all aggregators verified the same report
together; the aggregate is the sum of the measurements; a proof passes for measurements and, but for few points, for nothing else.
SLH-DSA: the iterative tree hash is the recursive one; a signature verifies; no one-time key signs twice.
ML-DSA: what leaves the loop verifies; a hint has one encoding. Kyber: exact reductions, no overflow; both ends of
ML-KEM agree for the own key pair only. Oblivious transfer gives the chosen message only; an unblinded output
of the OPRF is the evaluation of its own input; t + 1 shares recover the secret and t say nothing; a blind signature is on the client's
message. BLS: what an object signs verifies under the public key it gives out, and no other signature does; sums verify unless
messages coincide. The arithmetic below it: every result is the residue, the point or the power that its definition says,
in its one form where there is one. CP-ABE: a policy means what its text says, and a key opens what its attributes satisfy.

## Modules

```
HpkeChannel            what a pair of contexts promises: a FIFO channel
  HpkeContext          contexts, network, serialization, crashes; implements HpkeChannel
HpkeSetup              the Sender and Receiver objects and their key schedules
MCHpke                 both, one in each behaviour: bytes of one bit, nonces of three bytes
HpkeProofs             (with NumberLemmas) the theorems about HpkeContext and HpkeSetup
Xof                    what an extendable-output function promises: one stream
  Sponge               the buffered sponge; implements Xof (run by MCNumbers)
    SpongeProofs       the theorems
K12                    KangarooTwelve, on sponges as Xof describes them (also run by K12Late.cfg)
  MCK12                one State with up to four lanes; two States, with Clone
  K12Proofs            (with NumberLemmas) the theorems
Prio3                  sharding, preparation, aggregation, collection
  MCPrio3
  Prio3Proofs          (with NumberLemmas) the theorems
RsaNumbers             math/big on a small modulus
  ThresholdRsa         Deal, Sign in one step, CombineSignShares (also run by ThresholdSmallE.cfg)
  ThresholdSign        Sign taken apart: caller and goroutine
    ThresholdSignProofs  (with NumberLemmas) the theorem
PolicyDsl              the policy language (also run by PolicyDsl.cfg)

MCSchemes              every module below, one in each behaviour (some also run alone, by SharingZero.cfg, MatrixPivot.cfg, HistogramEdge.cfg)
  MCPostQuantum
    TreeHash           the stack of xmssNodeIter and forsNodeIter
    SlhDsa             (with TreeHash) signing and verifying, over the trees TreeHash computes
    MlDsa              rejection loop, rounding, hints, verification
    MlKem              the key objects and the transform around the encryption
    HintPacking        the encoding of hints
  SimOt  SecretSharing  Oprf
  SchemesProofs        (with NumberLemmas) the theorems about TreeHash, SlhDsa, MlDsa, MlKem, SimOt, SecretSharing and Oprf
  PolicyFormula        checks, sorting, shares of a formula
  PolicyDsl
  BlindRsa             on RsaNumbers
  MCCircuits
    MatrixZp           matrices of CP-ABE
    Tkn                the scheme, on MatrixZp and PolicyFormula
    Flp                circuits and proofs of Prio3

MCArithmetic           one in each behaviour
  ThresholdSign
  KyberNtt             reductions and roundings of one coefficient, and the inner product of decryption
PostQuantumProofs      (with NumberLemmas) the theorems about HintPacking and KyberNtt

MCNumbers              every module below, one in each behaviour
  Sponge
  ThresholdRsa
  FieldWords           prime fields on machine words
  Tower                the fields under the pairing
    PairingGroups      both groups, their encodings and the pairing
  Bls                  signatures, on operations that PairingGroups defines
```

Operators whose names begin with `Bug` are plausible slips, kept next to the
definition they deform; no specification uses them.

### HPKE contexts: `HpkeContext`

`sealer` and `opener` are the `encdecContext` structs of `hpke/aead.go`: key, base nonce,
sequence number as bytes, and the scratch field `nonce`, which `calcNonce` overwrites.
`stored` holds what `MarshalBinary` produced and the application keeps; `net` is every
ciphertext ever released. Since `net` never forgets, a message may arrive
late, twice, out of order or never, without an action for each. A ciphertext of another session
under the same first nonce is on the network from the beginning.

Each of `Seal`, `Open`, `MarshalSealer`, `MarshalOpener`, `UnmarshalSealer` and
`UnmarshalOpener` is one action; `Open` of a ciphertext that does not decrypt is
`OpenRefused`. As in the code, `Seal` and `Open` use the AEAD *before* they
increment, so at the last sequence number the ciphertext exists but an error is
returned: it is neither sent nor counted. `increment` works byte by byte with carry and tests for
all ones first. `SealerCrash`, `OpenerCrash` and `Discard` are the application's.

*Environment assumption*: `MarshalBinary`'s comment (`marshal.go:103-107`, and the same
for the opener) leaves it to the caller not to restore a stale context. Callers here
obey the weakest rule that follows from it: with a serialized copy at hand they do not use the live
context, and restoring consumes the copy.

*Not modelled*: `Export`, which is stateless, and the parsing of malformed encodings.

### HPKE setup: `HpkeSetup`

`s` and `r` are the `state` struct embedded in `Sender` and `Receiver`. A `Setup` method
assigns the mode and only those fields it has arguments for (`Store`), validates the
combination (`verifyPSKInputs`) and derives the context. `SenderSetupFails` and
`ReceiverSetupFails` leave what was stored and make no context, as when the random source or the
KEM fails after the assignment. `conf` is what `NewSender` and `NewReceiver` were
given, whether the two match, and whether the KEM is authenticated. A context key is
the term of everything that went into it.

### Sponge: `Sponge`, promise `Xof`

`d` is the `State` struct with the permutation state abstracted to the blocks absorbed
and the permutations made since. `Write` and `Read` begin a call, and each turn of
their loops is an action (`FastPath`, `SlowPath`, `Squeeze`) that works on what is left in
`pending` or `wanted`. `Sum` is an operator: it works on a clone and leaves no
trace, and `SumIsDigest` evaluates it in every state between calls. `SpongeByte` is the sponge construction of
FIPS 202 section 4, written on the whole message; `Xof` says that output is one stream
given by message and domain byte.

### KangarooTwelve: `K12`

`s` holds the `State` structs; what a struct's slice and pointer refer to is in `heap`,
so that a shallow clone can be told from a deep one. A method is one action whose
effect is a function (`write`, `read`) composed as the code composes it: first
chunk, `grow` at the first byte past it, `writeLeaf` turn by turn with one lane, `writeLanes` with fill, flush,
whole groups straight from the argument (`writeX`, for both `writeX2` and
`writeX4`) and the remainder. A panic marks the
State until `Reset`. A byte is a token told apart by writer and place, so any byte lost,
repeated or displaced shows. `Tree` is section 3 of the draft, written on the whole message. `late` counts what was written
after output began.

What a leaf absorbs is named (`Byte`, `Leaf`) so that the theorems can say it; the powers of `Radix` are a function
for the same reason.

### Threshold RSA: `ThresholdRsa`, `ThresholdSign`

`RsaNumbers` has the operations of `math/big` that the code uses, including what
they leave in their receiver when there is no inverse, which the code depends
on at two places (`Raise`, `Exp`). `ThresholdRsa` deals once, lets any player
sign any digest, and hands the shares to the combiner in any order;
`CombineSignShares` is an operator evaluated in every state. `computeLambda` divides
with the signs of `big.Int`, `Root` is the end of `CombineSignShares` from the
extended greatest common divisor on.

`ThresholdSign` is `Sign` between its synchronisation points: the caller's blinding, the goroutine's
exponentiation (`Raise`) and its `wg.Done` (`Done`), the caller's inverse (`Invert`), which may fail
and return while the goroutine still runs, and `wg.Wait` with the product
(`Join`). A caller does not sign again in the model until its last goroutine has ended;
the goroutine writes only to the share of its own call, so this bounds the state and
hides no interaction.

*Environment assumption*: the first use of a `KeyShare` writes the cached exponent without
synchronisation (`keyshare.go:165-171`). Two goroutines that both make the first use of one `KeyShare` race. A
data race has no defined outcome in Go; the model's callers do not do it, because
`get2DeltaSi` is part of one atomic step. Later uses may be concurrent.

### Prio3: `Prio3`

`report` is what `Shard` returned for each nonce, `prep` what `PrepInit` gave each aggregator for each nonce
(the state it keeps and the prep share it sends), `out` the output shares that `PrepNext` released, `agg` the
aggregate shares. `PrepSharesToPrep` keeps no state: `Messages` are all those that the prep shares at hand combine
into, in any order and number, none included, and `PrepNext` may be given any of them. Prep shares are never
replaced, so `Messages` holds the late ones too.

Vectors are formal sums: of the measurement and the proof of each report, and of what a helper's seed expands
to under an aggregator's number. `SubAssign` and `AddAssign` are sums of coefficients, so that what
the shares leave behind can be seen. Joint randomness parts and seeds are terms of what they are made from.
The proof system is ideal: `Query` is linear, and `Decide` accepts a sum of verifiers exactly if
all were made at one point and with one joint randomness and the shares add up to one measurement and the proof
that goes with it and with that randomness, or if there are none, for the zero verifier satisfies the checks.

The library leaves the transport to the application, which is the environment here: it shards a report
under its own nonce, may begin up to `MaxMixups` preparations from another report's shares, another
report's public share, another helper's share or under the number that `aggID > v.shares` lets through, and
delivers any message to any state. What it is assumed to do: an aggregator begins once per nonce, and adds
an output share once, as the interface has no way to notice otherwise. `VerifiedTogether` says what is
then owed: with joint randomness the public share is compared, and together with the aggregator's nonce
determines the report; without it `PrepNext` compares nothing, and the guarantee holds for a message made for that nonce.

*Not modelled*: measurements that fail to encode; a dishonest aggregator or client. (The proof system that is
ideal here, and clients that cheat it, are in `Flp`.)

### Circuits and proofs of Prio3: `Flp`

A client chooses one of five circuits, encodes a measurement and proves it; a faulty one changes an entry of the vector
first (`Corrupt`) or of the proof afterwards (`Forge`). The gadgets, the wire polynomials, the gadget polynomial,
`Query` and `Decide` are translated with the code's indices, on a field of 97 elements; polynomials are multiplied
both ways, directly and by the number theoretic transform with its bit reversal, because the threshold between the two
(128 in the code) is 6. `ProofDecides` evaluates, for every point of the field: queries on shares add up to the query of the
whole, over two and three shares; an honest proof passes at every point that `Query` admits; a proof
of another gadget polynomial passes at no more points than its degree; and the circuit of an invalid vector
vanishes for no more joint randomness than its degree. `Encode` has all its errors: `Offered` are measurements in range and out of it, of a wrong length and at the edges, and `EncodedInRange` says that what is in range is
encoded and what is not is an error (a `panic` for the histogram, finding 6). The one exception is `Sum` with a maximum of as many bits as the measurement's word: the offset is added
with wrap-around, and `ProofDecides` shows that the proof is then refused. *Not modelled*: `Decode`, marshalling, the Montgomery arithmetic. The field of the model is
larger than the word of a measurement; that of the code is smaller than 2^64: a `Sum` with a maximum of 64 bits
also wraps in the field there, and here it does not.

### SLH-DSA: `TreeHash`, `SlhDsa`

`TreeHash` is the loop of `xmssNodeIter` and `forsNodeIter`. A node is not a value in the code but a slice of the output buffer of the
hash that made it, which the next hash overwrites; the stack keeps copies, and has the capacity that `NewStack` was
given. `node` therefore names a buffer, and an action is the next leaf (`NextLeaf`), a combination with the top of the stack (`Merge`), a copy onto it (`Push`) or the end of a call (`Return`). The callers are
`KeyGen` and, for `xmssSign` and `forsSign`, `SignPath`. `Node` is the recursive definition, assumed of the constants and given by `MCPostQuantum`.

`SlhDsa` starts from the three parts of a digest and signs: FORS, then a WOTS+ signature for each layer of the hypertree. Hashes are
free terms that contain the address under which they are made, so that equality of two hashes is equality of everything under them, and
an address used for two inputs shows. The index of the tree is a number of three words, shifted as the code shifts it.
The state is the last two digests signed (`None` before); signing and verifying are operators, their loops recursive functions. `SlhSignatureVerifies`
says more than that the last root is the key's: the FORS key is that of the trees of the secret seed, and what either side has after each layer is the root of
that layer's tree. `SlhKeysOneTime`: no WOTS+ key signs two messages, on whichever layers of the two signatures. `SlhNothingReused`, in `MCPostQuantum`, adds to it every call of a hash
under two signatures: no address has two inputs.
*Not modelled*: message encoding, the bits of the digest, key formats.

### ML-DSA and Dilithium: `MlDsa`, `HintPacking`

One turn of the loop of `SignTo` is an action that keeps the attempt or ends with a signature; `Verify` is an operator on it. Modulus, `decompose`,
`power2round`, `makeHint`, `useHint` and every bound are the real ones, for ML-DSA-44 and ML-DSA-65 (the two values of
gamma2). A polynomial is reduced to one coefficient, which a challenge of tau terms multiplies by at most tau: the bounds are those
of the real ring, and each is met with equality by some mask. `HighBitsKept` says what the checks of low bits and of c t0 stand for: the verifier recovers w1.
`HintPacking` starts from the packing of every hint and changes bytes: whatever `UnpackHint` accepts is the packing of what it returns.

### ML-KEM and Kyber: `KyberNtt`, `MlKem`

`KyberNtt` begins with one coefficient: the real numbers of `field.go` and of the compression in `poly.go`, with 16-bit wrapping; multiplications by constants beyond 32 bits are
split without rounding. `MCArithmetic` runs `ReductionsExact` and `RoundingExact` over the 3329 residues and, at each, over every 16-bit integer of that class.
The module then computes m = v - <s, u> as decryption does, with all 256 coefficients and four polynomials, one layer of a transform an action (`NttS`, `NttU`, `InvNtt`), then the products, reductions and the subtraction; `bound` follows the multiple of q that the comments of the code count, so that `NoOverflow` covers inputs that the three vectors do not.
`MlKem` has the objects: private and public keys that share one unpacked vector by reference (`heap`), unpacked again while in
use, with encodings that are normalized or not; encapsulation and decapsulation are evaluated in every state. *Not modelled*: sampling, packing of coefficients, vector instructions.

### Protocols over a group: `SimOt`, `SecretSharing`, `Oprf`

A group element is its logarithm modulo a small prime, so the identity, a zero scalar and equal blinds all happen. `SimOt` keeps the fields of
the `Sender` and `Receiver` objects: rounds may be called again and in any order, and any message that was
ever returned may be delivered. In `SecretSharing` a dealer draws any polynomial, zero coefficients included
(`NewSharing`), and someone collects honest and altered shares that `VerifyShare` accepts; `Recover` has the code's early returns, and the products and sums of
`baseRatio` and of the Lagrange polynomial. `Oprf` has one client, one server whose key object may be replaced (`pub` is the
cached public key) and one answer on its way, which may be reordered, cut, or arrive after the client blinded another
batch or asks with other information. A proof is ideal: it records what was hashed to make it, and binds what has a weight in its sums (`Weighed`), which pairs of
identities have not. A blind may be zero, as `Blind` may draw it and `DeterministicBlind` takes it: `OnlyTheFunction` says what becomes of its input, and that the rest of the batch is right.

### Blind RSA: `BlindRsa`

On `RsaNumbers`: `Blind`, the signer's `BlindSign` with its consistency check, and `Finalize`, for the plain scheme and the partially
blind one, whose exponent is derived from metadata. The signer may be given other data or metadata than
the client's, and its answer may come after the client began again. *Not modelled*: PSS encoding and HKDF; the encoded message is a number.

### CP-ABE: `PolicyDsl`, `PolicyFormula`, `MatrixZp`, `Tkn`

`PolicyDsl` is the recursive descent parser with the wires, gates and negations it emits. A text is grown from a syntax tree, so its meaning is
known, and one token may then be inserted, removed or replaced. `PolicyFormula` takes any list of gates, as
unmarshalling does: `validate`, `toposort`, `satisfaction`, `share`, and the gate of the Boneh-Katz transform. `MatrixZp` is
every function of `matrixZp.go` and their likes over group elements, which are logarithms; of `inverse`, which may go wrong, `InverseExact` says for every matrix how a wrong
result can be told from a right one, and finding 5 that there are some. `Tkn` is `Setup`,
`KeyGen`, `Encrypt`, `Decrypt` and `CouldDecrypt` on those matrices, with pairings as products; the envelope and its code are ideal. `Splice`
puts the policy or the header of one ciphertext into another. *Not modelled*: encodings, and the hashing of attribute strings.

### Fields on words: `FieldWords`

A number is a tuple of words below `W`, which stands for 2^64, and the chains of `bits.Add64`, `bits.Sub64` and `bits.Mul64` are kept with their
carries. Two kinds of arithmetic: Montgomery's with unique results (`ecc/bls12381/ff`, `vdaf/prio3/arith`), and the loose one of `math/fp25519` and
`math/fp448`, whose results are any residue that fits. The operands are the state (`operands`), and `WordsExact` compares each operation with
integers modulo the modulus. The addition chains of the inverses and square roots are run on exponents instead, as byte strings, so that
they are compared with p - 2, (p - 5) / 8 and (p - 3) / 4 for the real p (`ChainsExact`).

### The pairing: `Tower`, `PairingGroups`

Formulas, Frobenius maps, membership tests, cofactors, encodings, the Miller loop and the final exponentiation are translated from the code, on a
small member of the family of curves: the same polynomials in the parameter give prime, order and cofactors. A point is a triple of projective coordinates, so it
has many representations. `look` is what is looked at: elements of the field, an encoding, a point of the curve or of its twist, or two scalars.
What the small curve changes: the non-residue is u + 3 instead of u + 1, and the square root of Fp2 is found by the complex method, for p^2 is not 9 modulo 16.
*Not modelled*: the maps from field elements to points; hashing starts at given points of the curve (`Mapped1`, `Mapped2`). Windows of powers.

### BLS: `Bls`

`sk` is a `PrivateKey` object with the public key that it may keep, `pk` a `PublicKey` object into which encodings are read, and both are used again whatever
a call on them returned. `issued` are signatures with the key that the signer gave out. The operations of the groups are constants that `MCNumbers` gives from
`PairingGroups`. *Not modelled*: HKDF, whose results are numbers with and without remainder zero, and hashing to points; that
`PublicKey` returns a pointer to the cached key itself (`bls.go:127`): here it is a value, so a caller that reads an encoding into the object it was returned is left out.

## Runs

| Run | Module, configuration | States | What it shows |
|---|---|---|---|
| `hpke` | `MCHpke.cfg` | 606,228 | Contexts: no nonce twice, ends in step, sequence number counts messages and never wraps, FIFO channel; all under loss, repetition, reordering, foreign ciphertexts, crash and restore, up to and past the limit. Setup: keys agree exactly when both callers asked for the same; neither a Sender nor a Receiver that holds a PSK makes a context in a mode without one. One of the two in each behaviour (`part`). |
| `numbers` | `MCNumbers.cfg` | 595,382 | The sponge has room to pad and a byte to copy, `Sum` is the digest, and its output one stream, for every cut. Any quorum, in any order, combines into the signature of the private key; arithmetic on words; towers, groups and pairing; BLS signatures with keys in either group, and their sums. One in each behaviour. |
| `arithmetic` | `MCArithmetic.cfg` | 8,930 | Signature shares are right under every interleaving with the goroutine, and every call returns. Kyber's reductions and roundings are exact on every residue, no coefficient of its inner product leaves 16 bits, and the product is that of polynomials. One of the two in each behaviour. |
| `k12` | `MCK12.cfg` | 186,312 | One, two and four lanes give the tree hash for every cut; no write panics before output begins; a State and its clone do not affect one another. |
| `prio3` | `MCPrio3.cfg` | 152,486 | Output shares are released only after all aggregators verified one report together; right reports pass; the collector gets the sum. |
| `schemes` | `MCSchemes.cfg` | 178,282 | Fifteen invariants, one or two for each scheme of `MCPostQuantum`, `MCCircuits` and `MCSchemes`. These schemes share no state: the first state chooses one (`pqScheme`, `gpScheme`, `apScheme`), and the variables of all others stay `Off`, or as they begin. |
| `k12_late` | `K12Late.cfg` | violation | Finding 1. |
| `thresh_small_e` | `ThresholdSmallE.cfg` | violation | Finding 2. |
| `dsl_trailing` | `PolicyDsl.cfg` | violation | Finding 3. |
| `sharing_zero` | `SharingZero.cfg` | violation | Finding 4. |
| `matrix_pivot` | `MatrixPivot.cfg` | violation | Finding 5. |
| `histogram_edge` | `HistogramEdge.cfg` | violation | Finding 6. |

Deadlock checking is off in all of them: a library stops when nobody calls it, and
each bound is a state where the model stops.

**Bounds, and why they are enough.**

* `hpke`, contexts: `Radix = 2`, `Nn = 3`: bytes of one bit, so that a carry crosses bytes in
  both ways and the limit is reached after seven messages; exclusive or is addition
  modulo two. One plaintext and two associated data make two messages. Nothing
  else is bounded: the limit of the sequence number bounds the run. The theorems
  hold for every width and length.
* `hpke`, setup: `MaxCalls = 4` calls of the two objects together: the shortest history in which a field left
  by one call could matter is two calls of one object and one of the other, and the fourth
  lets either side err again. Two sender keys, two PSKs and the empty one, one PSK identifier and the empty one, matching and other receivers
  and information. Symmetric values are interchangeable.
* `k12`: chunks of 2 bytes, context lengths 0 and 3: none, and longer than a chunk. `Radix = 2` gives `length_encode` several digits.
  `part` says which of two instances a behaviour belongs to. `Long`: one State, one lane, two or four, and 22 bytes: two fills of the four-lane buffer
  beyond the first chunk and more, every cut. `Two`: two States of one lane or two, 6 bytes for each, and one clone, at any moment. The theorems hold
  for every size of chunk, number of States, length, context and number of clones.
* `numbers`, by module:
  * `Sponge`: `rate = 2`, messages and outputs up to 5 bytes: buffers empty, half full and
    full, fast path after a buffered byte, and two block boundaries on both sides. The
    theorems hold for every rate and length.
  * `ThresholdRsa`: modulus 11 · 23, two to four players, every threshold, both a zero and
    a nonzero coefficient, a digest with a factor of the modulus and one without, up to four shares in
    any order with repetitions; all quorums of four players are among them.
  * `FieldWords`: Montgomery moduli 29 (three words of two bits), 13 (two of two bits), 61 (two of three bits) and 13 (one of four bits), every second operand; 61 and 13 are close to
    what the words hold, 29 is not. 2^23 - 3 on four words below 64 stands for 2^255 - 19, and 2^28 - 2^14 - 1 on seven words below 16 for 2^448 - 2^224 - 1, with operands around 0, the modulus
    and its double, the middle and the end of the words.
  * `PairingGroups`: parameter -5, p = 7207, order 601, cofactors 12 and 86437. Encodings of points of the group, of other points of the curve,
    of no point and out of range, with every combination of flags. The cofactor of G1 is even here, so some points of the curve are their own inverses, and have one encoding only.
  * `Bls`: keys 3 and one with which signatures of two messages cancel, numbers that are zero and that are the order, two messages, two signatures.
* `prio3`: two reports, two aggregators and the number past them, up to two preparations begun from the wrong input,
  which is what it takes to move a whole report under another nonce, or to exchange two. Both values of `jointRand`. At most as many prep shares
  are combined as there are aggregators, with repetitions. Reports are interchangeable.
* `arithmetic`, by module:
  * `ThresholdSign`: two callers, two key shares, one of them with secret zero, digests and
    blinds that have an inverse and that have none.
  * `KyberNtt`: every residue; and vectors of four polynomials, two without pattern and one of the largest coefficients: bounds do not depend on the
    vector, and the theorem holds for every one.
* `schemes`, by module:
  * `TreeHash` (the theorem holds for every height): two trees of height 3, where the stack of a signer has room for two nodes, and every node that a caller asks for.
    `SlhDsa`: three layers of height 2, digits in base 4, words of 3 bits, so that the four bits of an index cross a word. The theorem holds for every
    height, number of layers and trees, base of the digits and size of a word.
  * `MlDsa`: two rows, masks at and next to every bound, extreme secrets and challenges, two attempts.
  * `MlKem`: two seeds, two messages, one public and one private object, four cells: three references at most, and a new one.
  * `HintPacking`: two polynomials of five coefficients, at most three ones, every buffer one or more changes away. The theorem holds for all numbers.
  * `SimOt`: order 5, two sessions, blinds that may be equal. `SecretSharing`: order 5, thresholds to 2, three shares of three players.
    `Oprf`: order 5; one input hashes to the identity, each key is zero under one of the informations or none; three blinds, one of them zero.
  * `PolicyFormula`: all formulas of two gates and five of three, with and without loops. `PolicyDsl`: sentences of ten tokens (five literals),
    seven when a token is changed. `BlindRsa`: modulus 11 · 23, messages and blinds with a factor of it.
  * `MatrixZp`: order 3, all 3 × 3 matrices. `Tkn`: two labels, two values and the wild card,
    five policies, two Setups, two ciphertexts; order 2003, so that matrices are invertible and nothing cancels by accident.
    `Flp`: field of 97 elements; measurements in words of two bits, `Sum` to 1 and to 2 (where the offset wraps), two entries, chunks of one and two.

**Fairness.** Only `ThresholdSign` states any: weak fairness of the caller's steps within
`Sign` and of the goroutine's, for each. The Go runtime runs every goroutine that can run; the
steps stay enabled until taken, so weak fairness is enough, and calling `Sign` in the
first place is not fair. (`MCArithmetic` states the same for its behaviours.) The other modules have no liveness property:
their methods are loops without waiting, and nobody is obliged to call them.

## Findings

1. `xof/xof.go:21` says that `Write` "panics if called after Read". `k12.State` implements
   that interface, but after a `Read` it accepts a `Write` that fits in its buffer or,
   with one lane, in a leaf that was not read (`xof/k12/k12.go:149-207`): no panic and no
   effect on the output (`k12_late`). The write that fills the buffer or the chunk does panic.
2. `tss/rsa/README.md:14` says the shares "are combined to form a valid signature". `Deal` asks only that
   e be invertible; with e = 3 and three players it deals shares that no quorum can combine, since e divides
   4 · delta² (`thresh_small_e`). Shoup's paper requires e to be a prime above the number of players.
   With the usual e = 65537 the condition holds for any number of players below it; `numbers` has e = 7.
3. The policy parser means to refuse text that goes on after an expression: `parser.go:172` has the error "expected logical operator", and
   `dsl_test.go:26` expects it for `country: north korea`. But `parse` (`parser.go:26`) returns after one expression without looking at the token it is
   at: `(a: 1) b: 2` and `a: 1) and b: 2` are accepted and mean `a: 1` (`dsl_trailing`).

4. `secretsharing/ss.go:101-102`: "Verify returns true if the share s was produced by sharing a secret with threshold t and commitment of the secret c." The coefficients
   are drawn with `RandomScalar`, zero included; when the last one is zero, `CommitSecret` (`ss.go:94`) commits to fewer than t + 1 coefficients, and `Verify` refuses every
   share of this dealer (`sharing_zero`). `SharingThreshold` therefore says that shares verify *if* the last coefficient is not zero.
5. `matrixZp.go:256-257`: "If a is not invertible, the result is undefined and an error is returned." The pivot is looked for along the row instead of the column
   (`matrixZp.go:274-286`): some singular matrices have a result and no error (`matrix_pivot`), and some regular ones with a zero on the diagonal an error or a wrong result. Of the 19,683
   matrices of the model 1,968 are singular with a result, 240 regular with an error and 624 regular with a wrong result. The random matrices that the scheme inverts avoid all of them but for a negligible part.
6. `Encode` of the histogram (`histogram.go:117`) tests `measurement > length`: the measurement that equals the number of buckets is not refused with "invalid measurement value" (`flp.go:147`), and
   the write after the test panics with an index out of range (`histogram_edge`).

**Observations** that no document contradicts, met while modelling:

* `Recover` of `secretsharing` looks at the first t + 1 shares only, and panics when two of them have one identifier.
* `ot/simot`: a sender that answers two values of B under one A gives a receiver that called its first round twice both messages.
* `oprf`: a blind of zero makes the output of its input a hash that no key is in, and `Finalize` returns it without an error, verified proof or not: `Blind` draws with `RandomScalar` (`client.go:33`), although
  the groups have `RandomNonZeroScalar`, and `DeterministicBlind` does not look.
* `oprf`: `UnmarshalBinary` on a private key leaves the cached public key of the old one, so verifiable clients refuse its proofs.
* `MlKem`: a private key whose embedded public vector is not normalized is accepted when its hash fits; packed again, it is refused.
* `PolicyFormula`: sorting replaces the gates of the caller's formula, so `Equal` may change by use, and two goroutines that use one `Policy` race.
* `ff`: `Fp4.Inv` subtracts from what its receiver held before; nothing uses it. In the chain of `Fp.Inv`, the name `i86` is the 85th power.
* `bls`: a private key into which zero is read keeps the public key cached before. A refused encoding leaves the point of a `PublicKey` partly set.
* `vdaf/prio3/arith`: `Random` leaves a number out of range in the element when it returns its error.
* `dilithium`: the matrix of `PrivateKey.Public` is the private key's own array; the Dilithium modes accept bytes after the end of a signature.
* `blindrsa`: the message equal to the modulus passes the first check and is refused by the consistency check. The comment at `pbrsa.go:85` has the product of two exponents; the code uses the derived one.

## Proofs

Twenty-eight theorems, in seven modules, hold for every value of the constants under the
constants' named assumptions, which the runs evaluate on their instances. (`NumberLemmas` is the eighth module: the least-number principle, induction for membership in a set, and
functions defined by recursion, derived from the well-foundedness of the natural numbers, as the library's induction theorems cannot be instantiated here; and residues of sums and products.)

**`HpkeProofs`** of `HpkeContext`: `TypeCorrect`, `NonceUnique`, `InStep`, `SeqCounts`, `Refinement`. Assumptions: a
byte has at least two values, a nonce at least one byte, `Xor` of two bytes is a byte and injective in its second
argument, the other session's key differs. `NonceNeverReused` is not inductive: it says nothing of where
the ends stand, nor of serialized copies. The invariant `IInv` adds that sealed
sequence numbers form a chain from zero in which each is the successor of
the one before (`Chain`), that the chain increases lexicographically (`Increasing`; the
lemma `PlusOneUp` is where the carry is dealt with), that each nonce is the exclusive or of
base nonce and number (`NonceOK`), that either end and every copy of it stands
at the link its history says (`SealerStands`, `OpenerStands`), and that everything
on the network under our key was sealed (`NetOK`). Uniqueness follows because an increasing chain has
no repetition and `Xor` is injective. `Refinement` follows because a ciphertext that
opens carries the nonce of the next link, and so is the next message (`AcceptedIsNext`). `SeqCounts` follows
from the chain: one more in the bytes, with carry, is one more in the number they stand for.

**`HpkeProofs`** of `HpkeSetup`: `KeysAgree`, `StalePskNeverUsed`. Assumptions: the empty value is among the PSKs and the identifiers, as an argument may be empty, and is no sender's key. The invariant `KeysOfCalls`
says that each context's key is a function of the call that made it and of what its object was made with, and of
nothing an earlier call left, in the Sender's object as in the Receiver's: where `verifyPSKInputs` lets a call pass, the fields that the call did not assign are empty (`KeyOfCall`). That function is
injective, hence agreement in both directions.

**`SpongeProofs`**: `TypeCorrect`, `BufferAlwaysReady`, `SumCorrect`, `Refinement`. Assumptions: a positive rate, digests
no longer than it, bytes below 256, domain bytes in 1..127. The invariant `IInv` adds to
types and `BufferReady`: while absorbing, the absorbed blocks, then the buffer, then
what is pending, are consecutive pieces of the message (`AbsorbInv`); while squeezing, the blocks are the padded
message, the storage is the current output block, and what was read ends
where the buffer begins (`SqueezeInv`). Division by the rate is what makes it long: lemmas `MulSucc`,
`MulStrict` and `DivMod` keep it out of the leaves. The bounds `MaxMessage` and `MaxOutput` are constants
as well, so the theorems cover every length.

**`K12Proofs`**: `NeverPanics`, `DigestIsTree`, `ClonesApart`. Assumptions: chunks of at least one byte, one, two or four lanes, at least two digits, and
`nil` is no State, buffer or leaf. The properties say nothing of a State in the middle of its message. The invariant `Inv` has three parts. `OwnInv`: a State's buffer and leaf are
its own or absent, which gives `ClonesApart`. `Shape` of every State, also of one that is written to after output began: its buffer is absent, with nothing in it, or has the size of its lanes and
has room. `Absorbed`, until output begins: where each byte of the message is, in the stalk while it fits the first chunk (`Young`), then the first chunk, the marker
and the hashes of the whole chunks in the stalk, and the rest in the buffer or the leaf (`Grown`). Each piece of a write keeps it for a longer message: `Turn` and `Loop` for one lane (the loop is a recursive
function, so the induction is on its turns), `Fill`, `Flush`, `WriteX` and the remainder for several, `WriteWrites` for a whole `Write`. `FinishGrown` shows that the last partial chunks complete
the hashes that `Tree` takes of the whole message, with the same count.

**`Prio3Proofs`**: `ReleasedTogether`, `RightReportsPass`, `SumCollected`. Assumptions: two aggregators or more, a bound on mix-ups that is a number, and `nil` is no message and no sequence of joint randomness parts. `StateInv` says what each aggregator
holds is what `PrepInit` makes of the report, public share and input share it was given. The messages of `PrepSharesToPrep` pass `Decide` only when
coefficients cancel, which is read off at the terms of the measurement and of each expanded seed (`ReleasedTogether`). `AggInv` says that an aggregate share is the sum of the output shares of its batch
in whatever order they came; a sum over a list without repetition depends on the set of its members only, so that the sums of the aggregators can be added up report by report (`SumCollected`).

**`SchemesProofs`**, of the schemes that `MCSchemes` runs:

* `TreesHashed`. Assumption: `Node` is the tree over `Leaf` and `Parent` (FIPS 205). `TreeInv` says that the stack holds nodes whose leaves are consecutive, from the
  first leaf of the call to where the node in hand begins (`Covers`, `Within`), with heights that decrease and so never exceed the capacity (`Short`), and that
  the buffer in hand has not been overwritten.
* `SlhVerifies`. Assumptions: `SlhDsaAssumption`, the shape of the parameter sets of `params.go` (the index of a tree takes more than one word and at most two, one layer's
  share of it less than a word, the checksum fits its digits), and `NibblesAssumption`: the hashes that are signed have digits. The property depends on the digest only, so the invariant is that the digest
  is one; the proof is in its parts. A chain cut in two at the digit is the whole chain (`ChainComposes`), so the key of WOTS+ comes out (`WotsVerifies`); a climb from a node along the siblings on its way gives
  the node above (`ClimbIs`), for a layer and for each FORS tree (`XmssVerifies`, `ForsVerifies`). The index of the tree, kept in three words, is one number: parsing masks it to its bits (`ParsedIs`), and a shift with
  its carries divides it (`NextIndexIs`), so the address of the top layer is that of the key's tree (`IndicesInside`, `TopTree`). By induction on the layers signer and verifier have the same root after each (`LayersVerify`). Each
  lemma also shows that the recursive function it is about exists.
* `SlhOneTime`. The same assumptions. The address in a WOTS+ key gives the layer, the tree and the leaf (`KeyIs`), and these determine the index of the tree below: a shift with its carries
  and the digits it drops lose nothing (`NextIndexInjective`). The root below is then the same (`SignedIs`), and on layer zero so are the FORS key's address and all it signs (`OneMessage`). This is one half of `SlhNothingReused`.
* `SignedVerifies`. Assumptions: parameters are of the code's kind (the modulus and the two roundings are the real ones), challenges, masks and secrets are within their
  bounds. The verifier recomputes a1 · Alpha + e modulo Q with the a1 that the signer hashed, and the bounds of the loop keep |e| below
  Alpha; since Alpha divides Q - 1, `decompose` finds a1 or a neighbour, and the hint says which (`HintFindsHighBits`).
* `KemAgrees`. Assumptions: `Garbled` is a message, cells are numbers, `Nil` among them. `DecapsulationAgrees` says nothing of what a reference points to; `KemInv` adds that the
  vector an object without error refers to is the one its hash is of (`Holds`). It is inductive because every call writes to a cell that no object refers to
  (`NewCell`, `WriteNew`), which is what overwriting a shared vector in place would break.
* `OtOpensChosen`. Assumption: the order is prime, that is, no product of two numbers below it that are not zero is a multiple of it. `OtInv` says that all that was sent is an answer to some A and B, and
  that the receiver's B is made of its scalar, its choice and its A; `OneKey` that of the two keys of such an answer one is the receiver's, that of its choice.
* `SharingHasThreshold`. Assumption: scalars that are not zero have inverses, as the order is prime, and there are fewer players than scalars. The invariant `SharingInv` says that what was collected are points of
  the dealer's polynomial away from zero: a share verifies only against a commitment to all coefficients (`CommitIs`), which fixes the polynomial. Polynomials are functions on the integers, of a length. From one that vanishes modulo the order
  at a scalar the factor x - a can be taken out (`PolyDivided`), so one of length n that vanishes at n scalars vanishes everywhere (`PolyVanishes`, by induction on n); Lagrange's sum takes the same values at the
  shares (`Interpolates`), hence the same at zero (`LagrangeRecovers`). With t shares or fewer there is a polynomial that vanishes at all of them and not at zero (`VanishingPoly`); adding a multiple of it moves the polynomials that fit one
  secret to those that fit another, injectively (`AgreeingMoves`), so they are equally many.
* `OprfIsTheFunction`. Assumption: scalars that are not zero have inverses, as the order is prime; drawn keys are not zero, batches not empty; blinds may be zero. `OprfInv` says that what the client holds is a batch it blinded, and
  that the server's answer is the evaluation, by one key or tweaked key other than zero, of some sequence of elements, with the proof of just that; nothing is said of which batch, key or information. A proof that verifies
  then leaves only the client's own request, but for pairs of identities (`WeighedOf`), and public key, where blinding, evaluating and unblinding commute (`Unblinds`, `UnblindsInverse`) unless the blind is zero (`ZeroInverse`).
  The theorem says that the output of an input with a zero blind is that of the identity (`OfBlinded`).

**`ThresholdSignProofs`**: `SharesRight`. Assumptions: the primes, e and the shares of the secret are in their ranges, digests and random numbers below the modulus, and `nil` is no residue; nothing on the order of the group is
needed. Powers are those by repeated squaring (`PowerIs`, by the least exponent where they would differ), the power of a sum is the product (`PowersSum`), so the inverse of the blind's power takes it off
(`InverseCancels`); a power without an inverse has a base without one (`NoInverse`), hence the call fails for the digest's sake only. `ShareCorrect` speaks of calls that returned; the invariant `SignInvariant` says of each call that runs
that the blinded power is there, or that a goroutine will compute it and is still counted (`Blinding`), also when the caller has given up, that the inverse found is one, and that a KeyShare has cached its own exponent or nothing (`Caches`).

**`PostQuantumProofs`**, of `HintPacking` and `KyberNtt`:

* `HintHasOneEncoding`. Assumption: there are polynomials, coefficients and room for a one, and fewer ones than coefficients, so that an end fits in a byte. A set of
  indices has one ascending list (`ListExists`, `ListLength`, `ListUnique`, hence `AscendingIs`). What is packed is the concatenation of such lists and their ends (`JoinsPiece`, `BufferIs`); what is accepted
  is cut by its ends into ascending pieces (`PieceLists`), which are the lists of what is read. The only invariant needed is that the buffer keeps its length and its bytes.
* `KyberNeverOverflows`. Assumption: at most four polynomials, a key with coefficients from -3 to 3, a ciphertext with coefficients below q. `NoOverflow` does not say enough of later layers: it allows
  bounds that the next layer doubles beyond 16 bits. `NttInv` says for every step how large a coefficient may be: in NTT one row of a table of eight, the same for all coefficients (`NttLayerRange`, `NttBoundStep`); in
  InvNTT a multiple of q that depends on where in its block a coefficient is (`Multiple`), which the table `InvNTTReductions` of the code is just enough for (`Reduced`, `MultiplesFit`: no sum
  exceeds 9 q, and 10 q would not fit). `MontReduceRange` is where the Montgomery shift is shown exact, with the arithmetic of 16 and 32 bits.

**Only model-checked**: `SignReturns` of `ThresholdSign`; of `KyberNtt` that reductions, roundings and the product are exact; of `MCSchemes` the other half of `SlhNothingReused`, that no hash function is called on two inputs under one address, and what is not of the
modules above; all of `MCNumbers` but the sponge. Liveness
and `ENABLED` are beyond the proof system used, and `RECURSIVE` operators, which `PolicyDsl`, `FieldWords`, `Tower`, `PairingGroups` and `MCPostQuantum` declare or use, put a module
out of its reach. Exact arithmetic (`Flp`, `FieldWords`, `Tower`, `PairingGroups`, that Kyber's transforms multiply) would need more algebra, of extension fields, curves and
roots of unity, than the provers have or was built here: the theorem about Kyber is that nothing overflows on the way, the run that the result is right.

## Plan

1. Theorems: that no address of SLH-DSA has two inputs, for every parameter set; `AndShares` and `MatrixZp`, on the polynomials' and scalars' lemmas of `SecretSharing`.
2. Encodings: length fields of key and signature shares (`tss/rsa/keyshare.go`), of ciphertexts and keys in CP-ABE, packing in ML-DSA and ML-KEM.
3. Arithmetic that is still ideal: scalar recodings and curve formulas of the Edwards curves and of P-384, the isogenies of SIDH and CSIDH, ladders of X25519 and X448, and the
   permutations of Keccak and Ascon.
4. The schemes that are compositions: hybrid and KEM adapters, X-Wing, EdDSA, Frodo.
