--------------------------- MODULE MCPostQuantum ---------------------------
(* Instances of the modules about post-quantum schemes, of which one runs:  *)
(* pqScheme names it. The modules are extended, for what is checked of them *)
(* is what is proved; they stay as they begin when another one runs, and    *)
(* the variables of MlDsa stay Off.                                         *)
EXTENDS SlhDsa, MlDsa, MlKem, HintPacking

VARIABLE pqScheme

PqOff == "off"
-----------------------------------------------------------------------------
\* Two trees of height 3: the stack of a signer has room for two nodes.
TreeLeaf(i) == <<"leaf", i>>
TreeParent(z, i, l, r) == <<z, i, l, r>>
RECURSIVE TreeNode(_, _)
TreeNode(z, i) ==
  IF z = 0 THEN TreeLeaf(i)
  ELSE TreeParent(z, i, TreeNode(z - 1, 2 * i), TreeNode(z - 1, 2 * i + 1))

ASSUME NodeAssumption

\* Three layers of height 2, with words of 3 bits: the index of the tree has 4.
SlhNibbles(t) ==
  [i \in 1 .. 2 |-> (t.addr.index + t.addr.keyPair + t.addr.layer
                       + t.addr.tree[1] * i + 2 * t.addr.tree[2]) % 4]
SlhDigest == [md : {<<0, 3>>, <<2, 2>>}, tree : {0, 2, 10, 31}, leaf : 0 .. 3]

ASSUME SlhDsaAssumption
ASSUME NibblesAssumption

\* ML-DSA-65 and ML-DSA-44, with values at the ends of the intervals that are checked.
Mode65 == [Eta |-> 4, Tau |-> 49, Gamma1Bits |-> 19, Gamma2 |-> 261888, Omega |-> 1]
Mode44 == [Eta |-> 2, Tau |-> 39, Gamma1Bits |-> 17, Gamma2 |-> 95232, Omega |-> 1]
Modes == {Mode65, Mode44}
MlMatrix == {<<1, 1>>, <<1, 16>>, <<5, -1>>, <<3, 63>>}
MlChallenge == [p \in Modes |-> {-p.Tau, -1, p.Tau}]
MlSecret == [p \in Modes |-> {-p.Eta, 0, p.Eta}]
Around(y, beta) == {y + i : i \in {-beta - 1, -beta, 1 - beta, -1, 0, 1, beta - 1, beta, beta + 1}}
MlMask == [p \in Modes |->
  LET beta == p.Tau * p.Eta
      gamma1 == 2 ^ p.Gamma1Bits
  IN  ({0, 1, 5000, -70000, 2 ^ 17 - 1, 2 ^ 17, 2 * p.Gamma2 - 1, 2 * p.Gamma2, p.Gamma2 - 4000,
        gamma1 - 2 * beta - 1, gamma1 - 2 * beta, gamma1 - 2 * beta + 1}
         \cup Around(p.Gamma2, beta) \cup Around(-p.Gamma2, beta))
      \cap (1 - gamma1 .. gamma1)]

ASSUME ModeAssumption

ASSUME MlKemAssumption

ASSUME HintAssumption

Unread == [at \in 1 .. HintOmega + HintK |-> 0]
-----------------------------------------------------------------------------
MlOff == mode = PqOff /\ sk = MlNone /\ attempt = 0 /\ sig = MlNone

PqInit ==
  /\ pqScheme \in {"TreeHash", "SlhDsa", "MlDsa", "HintPacking", "MlKem"}
  /\ Init /\ SlhInit /\ KemInit
  /\ IF pqScheme = "MlDsa" THEN MlInit ELSE MlOff
  /\ IF pqScheme = "HintPacking" THEN HintInit ELSE buf = Unread

PqIdle == /\ pqScheme = PqOff
          /\ Init /\ SlhInit /\ KemInit /\ MlOff /\ buf = Unread

pqVars == <<pqScheme, vars, slhVars, mlVars, buf, kemVars>>

PqNext ==
  /\ UNCHANGED pqScheme
  /\ \/ /\ pqScheme = "TreeHash" /\ Next
        /\ UNCHANGED <<slhVars, mlVars, buf, kemVars>>
     \/ /\ pqScheme = "SlhDsa" /\ SlhSign
        /\ UNCHANGED <<vars, mlVars, buf, kemVars>>
     \/ /\ pqScheme = "MlDsa" /\ MlNext
        /\ UNCHANGED <<vars, slhVars, buf, kemVars>>
     \/ /\ pqScheme = "HintPacking" /\ Change
        /\ UNCHANGED <<vars, slhVars, mlVars, kemVars>>
     \/ /\ pqScheme = "MlKem" /\ KemNext
        /\ UNCHANGED <<vars, slhVars, mlVars, buf>>
-----------------------------------------------------------------------------
RECURSIVE CallsOf(_)
CallsOf(t) == {t} \cup UNION {CallsOf(t.msgs[i]) : i \in DOMAIN t.msgs}

(* The inputs of each hash function under each address, behind a signature. *)
UsesOf == [digest \in Digest |->
  LET nodes == slhVerifyNodes(digest, slhSignInternal(digest))
      uses == {<<t.fn, t.addr, t.msgs>> : t \in UNION {CallsOf(nodes[j]) : j \in 0 .. SlhD}}
  IN  [tweak \in {<<u[1], u[2]>> : u \in uses} |->
         {u[3] : u \in {v \in uses : <<v[1], v[2]>> = tweak}}]]

(* In all that an SLH-DSA key signs, no hash function is called on two      *)
(* inputs under one address, and no WOTS+ key signs two messages: the       *)
(* layers, trees, key pairs, chains, FORS trees and secret values never     *)
(* meet, though words of the address are shared by fields of different      *)
(* types and the index of the tree is cut into words. The security of the   *)
(* scheme rests on both.                                                    *)
SlhNothingReused ==
  /\ SlhKeysOneTime
  /\ earlier # None =>
       LET f == UsesOf[earlier]
           g == UsesOf[last]
       IN  /\ \A t \in DOMAIN g : Cardinality(g[t]) = 1
           /\ \A t \in DOMAIN f \cap DOMAIN g : f[t] = g[t]
=============================================================================
