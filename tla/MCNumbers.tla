------------------------------ MODULE MCNumbers ------------------------------
(* Instances of the modules about numbers, fields and curves and about the    *)
(* signatures that are made of them, and the sponge that messages are hashed  *)
(* with, of which one runs: scheme names it, and the variables of the others  *)
(* stay Off. Sponge is extended, for what is checked of it is what is proved; *)
(* it stays as it begins when another one runs.                              *)
EXTENDS Sponge

CONSTANTS
  nil,
  \* The operations of the groups and their pairing as PairingGroups and Bls take them: the .cfg
  \* gives each the definition below that has its name and Toy_.
  FinalExp(_), RatioKummer(_),
  g1ScalarMult(_, _), g1Add(_, _), g1Hash(_, _), g1IsMember(_), g1Encode(_, _), g1SetBytes(_, _),
  g2ScalarMult(_, _), g2Add(_, _), g2Hash(_, _), g2IsMember(_), g2Encode(_, _), g2SetBytes(_, _),
  g1IsEqual(_, _), g2IsEqual(_, _), g1IsIdentity(_), g2IsIdentity(_), prodPairFrac(_, _, _),
  \* Inputs, given in the same way.
  Elements, Encodings1, Encodings2, Mapped1, Mapped2,
  HashedTo1(_), HashedTo2(_), Keys1, Keys2, Signatures1, Signatures2

VARIABLES
  scheme,
  keys, shares, from,          \* ThresholdRsa
  operands,                    \* FieldWords
  look,                        \* PairingGroups
  blsKey, blsPublic, issued    \* Bls, keys in G1 or in G2

Off == "off"
-----------------------------------------------------------------------------
(* Threshold RSA: the modulus 11 * 23 and up to four players. The digest 11   *)
(* has a factor of the modulus; 0 is a coefficient rand.Int may give.        *)
Rsa == INSTANCE ThresholdRsa
  WITH p <- 11, q <- 23, e <- 7, Players <- {2, 3, 4}, Threshold <- {1, 2, 3, 4},
       Coeff <- {0, 17}, Digest <- {7, 11}, MaxShares <- 4
ASSUME Rsa!DealAssumption
-----------------------------------------------------------------------------
(* Fields on words that stand for 64 bits: the Montgomery moduli 29 and 13 on *)
(* two-bit words, 61 on three-bit and 13 on four-bit words (61 is close to    *)
(* what the words hold), and 2^23 - 3 and 2^28 - 2^14 - 1 for the others.     *)
Words(W, n, v) == [i \in 1 .. n |-> (v \div (W ^ (i - 1))) % W]
Montgomery(W, n, m) ==
  [W |-> W, m |-> Words(W, n, m), k |-> CHOOSE k \in 0 .. W - 1 : (k * m + 1) % W = 0,
   RSquare |-> Words(W, n, ((W ^ n % m) * (W ^ n % m)) % m)]
Residues(at, W, n, m, X) ==
  {[at |-> at, with |-> <<Words(W, n, x), Words(W, n, y)>>] : x \in X, y \in 0 .. m - 1}
Loose(at, W, n, X, Y) ==
  {[at |-> at, with |-> <<Words(W, n, x), Words(W, n, y)>>] : x \in X, y \in Y}
p23 == 2 ^ 23 - 3
Near23 == {0, 1, 2, 63, 64, p23 - 1, p23, p23 + 1, p23 + 64, 2 * p23 - 1, 2 * p23, 2 * p23 + 1,
           2 ^ 24 - 1, 2 ^ 24 - 6, 2 ^ 23 - 1, 2 ^ 18 - 1} \union {(k * k * 1234577 + k * 77) % 2 ^ 24 : k \in 1 .. 6}
p28 == 2 ^ 28 - 2 ^ 14 - 1
Near28 == {0, 1, 15, 16, p28 - 1, p28, p28 + 1, p28 - 2 ^ 14, p28 + 2 ^ 14, 2 ^ 28 - 1, 2 ^ 28 - 6, 2 ^ 27,
           2 ^ 14, 2 ^ 26 + 2 ^ 13} \union {(k * k * 72345 + k * 177777) % 2 ^ 28 : k \in 1 .. 6}

Fields == INSTANCE FieldWords
  WITH fpMont <- Montgomery(4, 3, 29), scMont <- Montgomery(4, 2, 13), fp128 <- Montgomery(8, 2, 61),
       fp64 <- Montgomery(16, 1, 13),
       fp25519 <- [W |-> 64, N |-> 4, c |-> 3, A24 |-> 9], fp448 <- [W |-> 16, H |-> 4, N |-> 7, A24 |-> 3],
       maxNumTries <- 3,
       Inputs <- {[at |-> "chains", with |-> <<0, 0>>]}
                   \union {[at |-> "random", with |-> draws] : draws \in [1 .. 3 -> {<<x>> : x \in {0, 12, 13, 15}}]}
                   \union Residues("fpMont", 4, 3, 29, {0, 1, 2, 15, 16, 28})
                   \union Residues("scMont", 4, 2, 13, 0 .. 12)
                   \union Residues("fp128", 8, 2, 61, {0, 1, 7, 8, 59, 60})
                   \union Residues("fp64", 16, 1, 13, 0 .. 12)
                   \union Loose("fp25519", 64, 4, Near23, Near23) \union Loose("fp448", 16, 7, Near28, Near28)
-----------------------------------------------------------------------------
(* The pairing: the curve with the parameter -5 has p = 7207, groups of order *)
(* 601, and the cofactors 12 and 86437.                                      *)
Gen1 == <<4985, 4147, 1>>
Gen2 == <<<<1365, 5541>>, <<206, 605>>, <<1, 0>>>>

NoGroups == INSTANCE PairingGroups
  WITH p <- 7207, Beta <- 3, paramX <- -5, b <- 8, Order <- 601, beta0 <- 1838, windows <- 3,
       G1Generator <- Gen1, G2Generator <- Gen2, Elements <- {}, Encodings1 <- {}, Encodings2 <- {},
       Mapped1 <- {}, Mapped2 <- {}, Scalars <- {}

Root1(x) == NoGroups!Sqrt((((x * x) % 7207) * x + 8) % 7207)
Root2(x) == NoGroups!Sqrt2(NoGroups!Add2(NoGroups!Mul2(NoGroups!Sqr2(x), x), <<24, 8>>))
Points1(X) == {P \in {<<x, Root1(x), 1>> : x \in X} : NoGroups!IsOnCurve1(P)}
Points2(X) == {P \in {<<x, Root2(x), <<1, 0>>>> : x \in X} : NoGroups!IsOnCurve2(P)}

Encoding(c, i, s, x, y) == [c |-> c, i |-> i, s |-> s, x |-> x, y |-> y]
\* Coordinates of the group, of other points of the curve, of no point, and out of range.
Xs1 == 0 .. 24 \union {4985, 7205, 7207, 7208}
Xs2 == {<<1365, 5541>>, <<7207, 3>>, <<3, 7207>>} \union (0 .. 2) \X (0 .. 3)
Toy_Encodings1 == {Encoding(c, i, s, x, y) : c \in {0, 1}, i \in {0, 1}, s \in {0, 1}, x \in Xs1, y \in {0}}
                   \union {Encoding(0, 0, 0, x, Root1(x)) : x \in Xs1}
                   \union {Encoding(0, 0, 0, x, 7207) : x \in {4985}}
Toy_Encodings2 == {Encoding(c, i, s, x, <<0, 0>>) : c \in {0, 1}, i \in {0, 1}, s \in {0, 1}, x \in Xs2}
                   \union {Encoding(0, 0, 0, x, Root2(x)) : x \in Xs2}

Some12(k) ==
  LET c(j) == <<(k * 577 + j * j * 2311 + 5 * j) % 7207, (k * k * 91 + j * 3089 + 1) % 7207>>
  IN  <<<<c(1), c(2), c(3)>>, <<c(4), c(5), c(6)>>>>
Sparse12 == <<<<<<0, 0>>, <<0, 0>>, <<0, 0>>>>, <<<<0, 0>>, <<0, 1>>, <<0, 0>>>>>>
One == <<<<<<1, 0>>, <<0, 0>>, <<0, 0>>>>, <<<<0, 0>>, <<0, 0>>, <<0, 0>>>>>>
Zero12 == <<<<<<0, 0>>, <<0, 0>>, <<0, 0>>>>, <<<<0, 0>>, <<0, 0>>, <<0, 0>>>>>>

Toy_Elements == {<<Some12(1), Some12(2)>>, <<Some12(3), Sparse12>>, <<Sparse12, Some12(4)>>,
                <<Zero12, Some12(5)>>}
Toy_Mapped1 == Points1(0 .. 30)
Toy_Mapped2 == Points2((0 .. 3) \X (0 .. 3))

Groups == INSTANCE PairingGroups
  WITH p <- 7207, Beta <- 3, paramX <- -5, b <- 8, Order <- 601, beta0 <- 1838, windows <- 3,
       G1Generator <- Gen1, G2Generator <- Gen2,
       Scalars <- {0, 1, 17, 600} \X {0, 5, 333}

Toy_FinalExp(x) == NoGroups!FinalExponentiation(x)
Toy_RatioKummer(x) == NoGroups!Ratio(x)
Toy_g1ScalarMult(x, y) == NoGroups!ScalarMult1(x, y)
Toy_g1Add(x, y) == NoGroups!Plus1(x, y)
Toy_g1Hash(x, y) == NoGroups!Hash1(x, y)
Toy_g1IsMember(x) == NoGroups!IsOnG1(x)
Toy_g1Encode(x, y) == NoGroups!EncodeBytes1(x, y)
Toy_g1SetBytes(x, y) == NoGroups!SetBytes1(x, y)
Toy_g2ScalarMult(x, y) == NoGroups!ScalarMult2(x, y)
Toy_g2Add(x, y) == NoGroups!Plus2(x, y)
Toy_g2Hash(x, y) == NoGroups!Hash2(x, y)
Toy_g2IsMember(x) == NoGroups!IsOnG2(x)
Toy_g2Encode(x, y) == NoGroups!EncodeBytes2(x, y)
Toy_g2SetBytes(x, y) == NoGroups!SetBytes2(x, y)
Toy_g1IsEqual(x, y) == NoGroups!IsEqual1(x, y)
Toy_g2IsEqual(x, y) == NoGroups!IsEqual2(x, y)
Toy_g1IsIdentity(x) == NoGroups!IsIdentity1(x)
Toy_g2IsIdentity(x) == NoGroups!IsIdentity2(x)
Toy_prodPairFrac(x, y, z) == NoGroups!ProdPairFrac(x, y, z)

\* Two messages, a few keys; signatures and public keys that are right, of small order, or no points.
Toy_HashedTo1(n) == IF n = 1 THEN <<CHOOSE P \in Points1({2, 3, 4, 5}) : TRUE, Gen1>>
                          ELSE <<CHOOSE P \in Points1({6, 7, 8, 9}) : TRUE, Gen1>>
Toy_HashedTo2(n) == IF n = 1 THEN <<CHOOSE P \in Points2({1, 2} \X {1, 2}) : TRUE, Gen2>>
                          ELSE <<CHOOSE P \in Points2({3, 4} \X {1, 2}) : TRUE, Gen2>>
BlsHash1 == NoGroups!Hash1(Toy_HashedTo1(1)[1], Toy_HashedTo1(1)[2])
BlsHash2 == NoGroups!Hash2(Toy_HashedTo2(1)[1], Toy_HashedTo2(1)[2])
Toy_Keys1 == {NoGroups!EncodeBytes1(NoGroups!ScalarMult1(3, Gen1), 1), Encoding(1, 0, 0, 7205, 0)}
Toy_Keys2 == {NoGroups!EncodeBytes2(NoGroups!ScalarMult2(3, Gen2), 1),
             Encoding(0, 0, 0, <<1365, 5541>>, <<5, 7207>>)}
Toy_Signatures1 == {Encoding(1, 1, 0, 0, 0), Encoding(1, 0, 0, 7205, 0), Encoding(1, 0, 0, 7207, 0),
                   NoGroups!EncodeBytes1(NoGroups!ScalarMult1(3, BlsHash1), 0)}
Toy_Signatures2 == {Encoding(1, 1, 0, <<0, 0>>, <<0, 0>>), Encoding(1, 0, 0, <<3, 1>>, <<0, 0>>),
                   NoGroups!EncodeBytes2(NoGroups!ScalarMult2(3, BlsHash2), 0)}
\* The other key than 3 is the one with which signatures of both messages cancel out.
BlsDerived(k) == {[i \in 1 .. 8 |-> IF i < 3 THEN 601 * i ELSE 601 + k], [i \in 1 .. 8 |-> 0]}

BlsG1 == INSTANCE Bls
  WITH Order <- 601, G1Generator <- Gen1, G2Generator <- Gen2,
       g1Identity <- <<0, 1, 0>>, g2Identity <- <<<<0, 0>>, <<1, 0>>, <<0, 0>>>>, gtOne <- One,
       KeyG1 <- TRUE, Messages <- {1, 2},
       Mapped <- HashedTo2, Numbers <- {0, 3, 601}, Derived <- BlsDerived(290),
       PublicBytes <- Keys1, OtherBytes <- Signatures2, MaxIssued <- 2,
       sk <- blsKey, pk <- blsPublic
BlsG2 == INSTANCE Bls
  WITH Order <- 601, G1Generator <- Gen1, G2Generator <- Gen2,
       g1Identity <- <<0, 1, 0>>, g2Identity <- <<<<0, 0>>, <<1, 0>>, <<0, 0>>>>, gtOne <- One,
       KeyG1 <- FALSE, Messages <- {1, 2},
       Mapped <- HashedTo1, Numbers <- {0, 3, 601}, Derived <- BlsDerived(566),
       PublicBytes <- Keys2, OtherBytes <- Signatures1, MaxIssued <- 2,
       sk <- blsKey, pk <- blsPublic
-----------------------------------------------------------------------------
SomeDomain == CHOOSE D \in Domain : TRUE
RsaOff == keys = Off /\ shares = Off /\ from = Off
FieldsOff == operands = Off
GroupsOff == look = Off
BlsOff == blsKey = Off /\ blsPublic = Off /\ issued = Off

NumbersInit ==
  /\ scheme \in {"Sponge", "ThresholdRsa", "FieldWords", "PairingGroups", "BlsG1", "BlsG2"}
  /\ IF scheme = "ThresholdRsa" THEN Rsa!Init ELSE RsaOff
  /\ IF scheme = "FieldWords" THEN Fields!Init ELSE FieldsOff
  /\ IF scheme = "PairingGroups" THEN Groups!Init ELSE GroupsOff
  /\ CASE scheme = "BlsG1" -> BlsG1!Init
       [] scheme = "BlsG2" -> BlsG2!Init
       [] OTHER            -> BlsOff
  /\ Init /\ (scheme # "Sponge" => d.dsbyte = SomeDomain)

rsa == <<keys, shares, from>>
bls == <<blsKey, blsPublic, issued>>

NumbersNext ==
  /\ UNCHANGED <<scheme, operands, look>>
  /\ \/ scheme = "ThresholdRsa" /\ Rsa!Next /\ UNCHANGED <<bls, vars>>
     \/ scheme = "BlsG1" /\ BlsG1!Next /\ UNCHANGED <<rsa, vars>>
     \/ scheme = "BlsG2" /\ BlsG2!Next /\ UNCHANGED <<rsa, vars>>
     \/ scheme = "Sponge" /\ Next /\ UNCHANGED <<rsa, bls>>

NumbersSpec == NumbersInit /\ [][NumbersNext]_<<scheme, rsa, operands, look, bls, vars>>
-----------------------------------------------------------------------------
(* Any quorum's shares combine into the signature of the private key.       *)
ThresholdCombines == scheme = "ThresholdRsa" => Rsa!Combines

(* Arithmetic on words gives the residues it should, in their one form where *)
(* there is one, and chains of squares and products invert; and the towers of *)
(* fields, the groups, their encodings and the pairing are what their         *)
(* definitions say.                                                         *)
FieldsAndGroupsExact ==
  /\ scheme = "FieldWords" => Fields!WordsExact
  /\ scheme = "PairingGroups" => Groups!GroupsExact

(* Signatures verify under the key of the object that made them, only.      *)
BlsSignaturesOfKey ==
  /\ scheme = "BlsG1" => BlsG1!SignaturesOfKey
  /\ scheme = "BlsG2" => BlsG2!SignaturesOfKey

(* Sums of signatures verify under the keys and messages summed, only.      *)
BlsAggregatesVerify ==
  /\ scheme = "BlsG1" => BlsG1!AggregatesVerify
  /\ scheme = "BlsG2" => BlsG2!AggregatesVerify
=============================================================================
