------------------------------- MODULE SlhDsa -------------------------------
(* SLH-DSA: key generation, slhSignInternal and slhVerifyInternal, with the *)
(* addresses under which every hash is called. The hash functions are free: *)
(* an output is the record of the function, the address and the input. What *)
(* the tree hash computes is Node (the module TreeHash shows it does).      *)
(*                                                                          *)
(* An address is a struct passed by value around a slice that is not copied: *)
(* what a callee sets in it, its caller sees. Here a callee returns nothing *)
(* of it, for each caller sets anew the type, which clears the three words  *)
(* after it, or the layer and the tree, which no callee touches.            *)
(*                                                                          *)
(* TreeHash is extended for its powers of two and the siblings of nodes.    *)
EXTENDS TreeHash

CONSTANTS WotsLgW,                \* bits of a digit: 4
          wotsLen1, wotsLen2,     \* numbers of digits
          hPrime, SlhD,           \* height and number of the layers
          SlhA, SlhK,             \* height and number of the FORS trees
          SlhWord,                \* bits of a word of idxTree: 32
          Nibbles(_),             \* the first wotsLen1 digits of a hash
          Digest                  \* md, tree and leaf as HashMsg gives them

wotsW == two[WotsLgW]

(* The parameter sets of params.go. What HashMsg gives for the tree is as   *)
(* long as its bits need, which are more than a word and at most two.       *)
SlhDsaAssumption ==
  /\ {hPrime, SlhA} \subseteq Nat \ {0, 1}
  /\ {WotsLgW, wotsLen1, wotsLen2, SlhD, SlhK} \subseteq Nat \ {0}
  /\ wotsLen1 * (wotsW - 1) < two[WotsLgW * wotsLen2]
  /\ SlhWord \in Nat /\ hPrime < SlhWord
  /\ (SlhD - 1) * hPrime \in SlhWord .. 2 * SlhWord
  /\ \A digest \in Digest :
       /\ digest.md \in [1 .. SlhK -> 0 .. two[SlhA] - 1]
       /\ digest.tree \in Nat /\ digest.tree < two[2 * SlhWord]
       /\ digest.leaf \in Nat

VARIABLES earlier, last   \* the digests signed last with one key, or None

slhVars == <<earlier, last>>
-----------------------------------------------------------------------------
(* The last words of an address have two names each: the second is the chain *)
(* of WOTS+ and the height of trees, the third the position in a chain and  *)
(* the index in a tree.                                                     *)
NewAddress == [layer |-> 0, tree |-> <<0, 0, 0>>, type |-> "WotsHash",
               keyPair |-> 0, height |-> 0, index |-> 0]

SetTypeAndClear(addr, t) ==
  [addr EXCEPT !.type = t, !.keyPair = 0, !.height = 0, !.index = 0]

\* The address of another type under the key pair of addr.
Retyped(addr, t) == [SetTypeAndClear(addr, t) EXCEPT !.keyPair = addr.keyPair]

WotsOf(addr, i) == [SetTypeAndClear(addr, "WotsHash") EXCEPT !.keyPair = i]

Final(fn, addr, msgs) == [fn |-> fn, addr |-> addr, msgs |-> msgs]
-----------------------------------------------------------------------------
chain(x, index, steps, addr) ==
  LET step[j \in 0 .. steps] ==
        IF j = 0 THEN x ELSE Final("F", [addr EXCEPT !.index = index + (j - 1)], <<step[j - 1]>>)
  IN  step[steps]

SecretOf(addr, i) == Final("PRF", [Retyped(addr, "WotsPrf") EXCEPT !.height = i - 1], <<>>)
ChainOf(addr, i) == [addr EXCEPT !.height = i - 1]

wotsLen == wotsLen1 + wotsLen2

wotsPkGen(addr) ==
  Final("T", Retyped(addr, "WotsPk"),
        [i \in 1 .. wotsLen |-> chain(SecretOf(addr, i), 0, wotsW - 1, ChainOf(addr, i))])

\* What is left of the greatest sum after the first i digits of the message.
Csum(msg) ==
  LET csum[i \in 0 .. wotsLen1] ==
        IF i = 0 THEN wotsLen1 * (wotsW - 1) ELSE csum[i - 1] - Nibbles(msg)[i]
  IN  csum

\* The digits that are signed: those of the message and of their checksum.
Digits(msg) ==
  [i \in 1 .. wotsLen |->
     IF i <= wotsLen1 THEN Nibbles(msg)[i]
     ELSE (Csum(msg)[wotsLen1] \div two[WotsLgW * (wotsLen - i)]) % wotsW]

wotsSign(msg, addr) ==
  [i \in 1 .. wotsLen |-> chain(SecretOf(addr, i), 0, Digits(msg)[i], ChainOf(addr, i))]

wotsPkFromSig(sig, msg, addr) ==
  Final("T", Retyped(addr, "WotsPk"),
        [i \in 1 .. wotsLen |->
           chain(sig[i], Digits(msg)[i], wotsW - 1 - Digits(msg)[i], ChainOf(addr, i))])
-----------------------------------------------------------------------------
Combine(addr, z, i, l, r) == Final("H", [addr EXCEPT !.height = z, !.index = i], <<l, r>>)

\* The nodes over the given leaves, from those of height z - 1 those of height z.
Nodes(leaf, height, addr) ==
  LET nodes[z \in 0 .. height] ==
        IF z = 0 THEN leaf
        ELSE LET below == nodes[z - 1]
             IN  [i \in Nat |-> Combine(addr, z, i, below[2 * i], below[2 * i + 1])]
  IN  nodes

xmssNode(i, z, addr) ==
  Nodes([y \in Nat |-> wotsPkGen(WotsOf(addr, y))], hPrime, SetTypeAndClear(addr, "Tree"))[z][i]

forsSkGen(addr, idx) == Final("PRF", [Retyped(addr, "ForsPrf") EXCEPT !.index = idx], <<>>)

forsLeaf(sk, addr, idx) == Final("F", [addr EXCEPT !.height = 0, !.index = idx], <<sk>>)

forsNode(i, z, addr) ==
  Nodes([y \in Nat |-> forsLeaf(forsSkGen(addr, y), addr, y)], SlhA, addr)[z][i]

Bit(x, j) == (x \div two[j]) % 2

(* Up an authentication path from a node at index treeIdx: bits of idx say  *)
(* on which side the node is.                                               *)
Climb(leaf, treeIdx, idx, auth, height, addr) ==
  LET at[j \in 0 .. height] ==
        IF j = 0 THEN [node |-> leaf, treeIdx |-> treeIdx]
        ELSE LET s == at[j - 1]
                 up == (s.treeIdx - Bit(idx, j - 1)) \div 2
             IN  [treeIdx |-> up,
                  node |-> IF Bit(idx, j - 1) = 0
                           THEN Combine(addr, j, up, s.node, auth[j])
                           ELSE Combine(addr, j, up, auth[j], s.node)]
  IN  at[height].node

xmssSign(msg, idx, addr) ==
  [authPath |-> [j \in 1 .. hPrime |-> xmssNode(Sibling(idx \div two[j - 1]), j - 1, addr)],
   wotsSig |-> wotsSign(msg, WotsOf(addr, idx))]

xmssPkFromSig(msg, xmssSig, idx, addr) ==
  Climb(wotsPkFromSig(xmssSig.wotsSig, msg, WotsOf(addr, idx)), idx, idx,
        xmssSig.authPath, hPrime, SetTypeAndClear(addr, "Tree"))

forsSign(md, addr) ==
  [i \in 1 .. SlhK |->
     [sk |-> forsSkGen(addr, (i - 1) * two[SlhA] + md[i]),
      auth |-> [j \in 1 .. SlhA |->
                  forsNode((i - 1) * two[SlhA - (j - 1)] + Sibling(md[i] \div two[j - 1]),
                           j - 1, addr)]]]

forsPkFromSig(forsSig, md, addr) ==
  Final("T", Retyped(addr, "ForsRoots"),
        [i \in 1 .. SlhK |->
           LET treeIdx == (i - 1) * two[SlhA] + md[i]
           IN  Climb(forsLeaf(forsSig[i].sk, addr, treeIdx), treeIdx, md[i],
                     forsSig[i].auth, SlhA, addr)])
-----------------------------------------------------------------------------
BugMasked(x, n) == x   \* slip: bits beyond the index are kept

\* The value of a word x & ((1 << n) - 1), for n up to the width of a word and beyond it.
Masked(x, n) == IF n < SlhWord THEN x % two[n] ELSE x

BugNextIndex(t) ==   \* slip: the words are shifted apart
  [idxLeaf |-> t[1] % two[hPrime], idxTree |-> [i \in 1 .. 3 |-> t[i] \div two[hPrime]]]

nextIndex(t) ==
  LET from(x) == (x * two[SlhWord - hPrime]) % two[SlhWord]
  IN  [idxLeaf |-> t[1] % two[hPrime],
       idxTree |-> <<t[1] \div two[hPrime] + from(t[2]),
                     t[2] \div two[hPrime] + from(t[3]), t[3] \div two[hPrime]>>]

\* The lowest word first. The digest is longer than the bits that are used.
parseMsg(digest) ==
  LET n2 == (SlhD - 1) * hPrime
      word(i) == (digest.tree \div two[SlhWord * i]) % two[SlhWord]
  IN  [md |-> digest.md, idxLeaf |-> digest.leaf % two[hPrime],
       idxTree |-> <<Masked(word(0), n2),
                     IF n2 >= SlhWord THEN Masked(word(1), n2 - SlhWord) ELSE word(1),
                     word(2)>>]

\* The tree and the leaf on each layer, the lowest layer is 0.
Indices(p) ==
  LET idx[j \in 0 .. SlhD - 1] ==
        IF j = 0 THEN [idxLeaf |-> p.idxLeaf, idxTree |-> p.idxTree]
        ELSE nextIndex(idx[j - 1].idxTree)
  IN  idx

LayerAddress(p, j) ==
  [[NewAddress EXCEPT !.layer = j] EXCEPT !.tree = Indices(p)[j].idxTree]

SignOnLayer(msg, p, j) == xmssSign(msg, Indices(p)[j].idxLeaf, LayerAddress(p, j))

RootOnLayer(msg, xmssSig, p, j) ==
  xmssPkFromSig(msg, xmssSig, Indices(p)[j].idxLeaf, LayerAddress(p, j))

(* What htSign signs on each layer: msg, and then the root of the layer     *)
(* below, recomputed from its signature.                                    *)
Roots(msg, p) ==
  LET rootOf[j \in 0 .. SlhD - 1] ==
        IF j = 0 THEN msg
        ELSE LET below == rootOf[j - 1]
             IN  RootOnLayer(below, SignOnLayer(below, p, j - 1), p, j - 1)
  IN  rootOf

htSign(msg, p) ==
  LET roots == Roots(msg, p)
  IN  [j \in 1 .. SlhD |-> SignOnLayer(roots[j - 1], p, j - 1)]

(* The nodes of htVerify: msg, and the root that each layer's signature     *)
(* gives for the node before. The last one is compared with the key.        *)
htNodes(msg, p, htSig) ==
  LET at[j \in 0 .. SlhD] ==
        IF j = 0 THEN msg ELSE RootOnLayer(at[j - 1], htSig[j], p, j - 1)
  IN  at

ForsAddress(p) ==
  [SetTypeAndClear([NewAddress EXCEPT !.tree = p.idxTree], "ForsTree")
     EXCEPT !.keyPair = p.idxLeaf]

slhKeyGenInternal == xmssNode(0, hPrime, [NewAddress EXCEPT !.layer = SlhD - 1])

\* The key of the FORS trees, as signer and verifier compute it.
PkFors(p) == forsPkFromSig(forsSign(p.md, ForsAddress(p)), p.md, ForsAddress(p))

slhSignInternal(digest) ==
  LET p == parseMsg(digest)
  IN  [forsSig |-> forsSign(p.md, ForsAddress(p)), htSig |-> htSign(PkFors(p), p)]

slhVerifyNodes(digest, slhSig) ==
  LET p == parseMsg(digest)
  IN  htNodes(forsPkFromSig(slhSig.forsSig, p.md, ForsAddress(p)), p, slhSig.htSig)

slhVerifyInternal(digest, slhSig) == slhVerifyNodes(digest, slhSig)[SlhD] = slhKeyGenInternal

(* Hashes have digits: those that are signed for a digest.                  *)
NibblesAssumption ==
  \A digest \in Digest : \A j \in 0 .. SlhD - 1 :
    LET p == parseMsg(digest)
    IN  Nibbles(Roots(PkFors(p), p)[j]) \in [1 .. wotsLen1 -> 0 .. wotsW - 1]
-----------------------------------------------------------------------------
SlhInit == earlier = None /\ last = None

SlhSign == \E digest \in Digest : last' = digest /\ earlier' = last

SlhSpec == SlhInit /\ [][SlhSign]_slhVars
-----------------------------------------------------------------------------
\* The WOTS+ key of a layer for a digest, and what it signs.
KeyOn(digest, j) ==
  LET p == parseMsg(digest)
  IN  WotsOf(LayerAddress(p, j), Indices(p)[j].idxLeaf)

SignedOn(digest, j) == LET p == parseMsg(digest) IN Roots(PkFors(p), p)[j]

(* No WOTS+ key signs two messages, on whichever layers of whichever         *)
(* signatures: one key pair stands for one tree below it, though the index  *)
(* of the tree is cut into words, shifted from layer to layer.              *)
SlhKeysOneTime ==
  \A digest, other \in {earlier, last} \ {None} : \A i, j \in 0 .. SlhD - 1 :
    KeyOn(digest, i) = KeyOn(other, j) => SignedOn(digest, i) = SignedOn(other, j)

(* Every signature is accepted under the key's root. And it is what it      *)
(* should be on the way: the FORS key that signer and verifier compute from *)
(* the signature is that of the roots of the FORS trees of the secret seed, *)
(* and the node after each layer is the root of that layer's tree.          *)
SlhSignatureVerifies ==
  last # None =>
    LET p == parseMsg(last)
        slhSig == slhSignInternal(last)
        nodes == slhVerifyNodes(last, slhSig)
    IN  /\ slhVerifyInternal(last, slhSig)
        /\ nodes[0] = Final("T", Retyped(ForsAddress(p), "ForsRoots"),
                            [i \in 1 .. SlhK |-> forsNode(i - 1, SlhA, ForsAddress(p))])
        /\ \A j \in 1 .. SlhD : nodes[j] = xmssNode(0, hPrime, LayerAddress(p, j - 1))
=============================================================================
