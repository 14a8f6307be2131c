------------------------------ MODULE MCSchemes ------------------------------
(* Every scheme of MCPostQuantum and of MCCircuits, and those over groups and *)
(* about policies, of which one runs: its name is in pqScheme, apScheme or    *)
(* gpScheme, and the variables of the others stay Off; SimOt and              *)
(* SecretSharing are extended and stay as they begin, and Oprf, without a     *)
(* request.                                                                  *)
EXTENDS MCPostQuantum, MCCircuits, SimOt, SecretSharing, Oprf

CONSTANT nil

VARIABLES
  gpScheme,
  Gates,                             \* PolicyFormula
  tree, text,                        \* PolicyDsl
  state, data, answer                \* BlindRsa

GpOff == "off"
-----------------------------------------------------------------------------
ASSUME SimOtAssumption

\* Thresholds up to two, for three players.
ASSUME SharingAssumption

\* One input hashes to the identity; each key is zero under one of the informations or none.
HashedElement == [x |-> 2, y |-> 3, o |-> 0]
HashedScalar == [i |-> 4, j |-> 2]
OprfBatches == {<<"x">>, <<"x", "y">>, <<"x", "o">>}
ASSUME OprfAssumption

\* All formulas of two gates, and five of three: three of them with loops.
FGate(class, in0, in1, wire) == [Class |-> class, In0 |-> in0, In1 |-> in1, Out |-> wire]
ThreeGates ==
  {<<FGate("and", 4, 0, 5), FGate("or", 5, 1, 4), FGate("and", 2, 3, 6)>>,
   <<FGate("or", 4, 5, 6), FGate("and", 0, 2, 4), FGate("and", 1, 3, 5)>>,
   <<FGate("or", 4, 5, 6), FGate("and", 0, 2, 4), FGate("or", 1, 3, 5)>>,
   <<FGate("and", 1, 5, 6), FGate("or", 4, 3, 5), FGate("and", 2, 0, 4)>>,
   <<FGate("and", 4, 5, 6), FGate("or", 1, 3, 5), FGate("or", 2, 0, 4)>>}

Formula == INSTANCE PolicyFormula WITH Modulus <- 3, MaxGates <- 2, Given <- ThreeGates
ASSUME Formula!FormulaAssumption

\* Sentences of up to five literals.
Dsl == INSTANCE PolicyDsl WITH MaxTokens <- 10, MaxEdited <- 7
ASSUME Dsl!DslAssumption

\* 253 is the product of two safe primes; 22 and 11 are no units. The metadata give the exponents 3 and 1.
Blind == INSTANCE BlindRsa WITH p <- 11, q <- 23, e <- 3, Encoded <- {2, 22, 100},
           Randoms <- {0, 2, 11}, Metadata <- {6, 13}, Foreign <- {22, 252, 253, 254}
ASSUME Blind!BlindRsaAssumption
-----------------------------------------------------------------------------
VoOff == oprfMode = GpOff /\ serverKey = GpOff /\ pkS = 0 /\ fin = OprfNone /\ eval = OprfNone
FormulaOff == Gates = GpOff
DslOff == tree = GpOff /\ text = GpOff
BlindOff == state = GpOff /\ data = GpOff /\ answer = GpOff

GpInit ==
  /\ gpScheme \in {"SimOt", "SecretSharing", "Oprf", "PolicyFormula", "PolicyDsl", "BlindRsa"}
  /\ OtInit /\ SharingInit
  /\ IF gpScheme = "Oprf" THEN OprfInit ELSE VoOff
  /\ IF gpScheme = "PolicyFormula" THEN Formula!Init ELSE FormulaOff
  /\ IF gpScheme = "PolicyDsl" THEN Dsl!Init ELSE DslOff
  /\ IF gpScheme = "BlindRsa" THEN Blind!Init ELSE BlindOff

GpIdle == /\ gpScheme = GpOff
          /\ OtInit /\ SharingInit /\ VoOff /\ FormulaOff /\ DslOff /\ BlindOff

dsl == <<tree, text>>
blind == <<state, data, answer>>
gpVars == <<gpScheme, otVars, sharingVars, oprfVars, Gates, dsl, blind>>

GpNext ==
  /\ UNCHANGED gpScheme
  /\ \/ gpScheme = "SimOt" /\ OtNext /\ UNCHANGED <<sharingVars, oprfVars, Gates, dsl, blind>>
     \/ gpScheme = "SecretSharing" /\ SharingNext /\ UNCHANGED <<otVars, oprfVars, Gates, dsl, blind>>
     \/ gpScheme = "Oprf" /\ OprfNext /\ UNCHANGED <<otVars, sharingVars, Gates, dsl, blind>>
     \/ gpScheme = "PolicyFormula" /\ Formula!Next /\ UNCHANGED <<otVars, sharingVars, oprfVars, dsl, blind>>
     \/ gpScheme = "PolicyDsl" /\ Dsl!Next /\ UNCHANGED <<otVars, sharingVars, oprfVars, Gates, blind>>
     \/ gpScheme = "BlindRsa" /\ Blind!Next /\ UNCHANGED <<otVars, sharingVars, oprfVars, Gates, dsl>>
-----------------------------------------------------------------------------
(* The shares of a policy's wires mean what its formula means.              *)
PolicySharesMeanFormula == gpScheme = "PolicyFormula" => Formula!SharesMeanFormula

(* The formula of a policy means what its text says.                        *)
PolicyMeansWhatIsWritten == gpScheme = "PolicyDsl" => Dsl!MeansWhatIsWritten

(* Blind signatures are those of the client's message, and hide it.         *)
BlindSignaturesOfOwn == gpScheme = "BlindRsa" => Blind!BlindSignatures
-----------------------------------------------------------------------------
MCInit == \/ PqInit /\ ApIdle /\ GpIdle
          \/ PqIdle /\ ApInit /\ GpIdle
          \/ PqIdle /\ ApIdle /\ GpInit

MCNext == \/ PqNext /\ UNCHANGED <<apVars, gpVars>>
          \/ ApNext /\ UNCHANGED <<pqVars, gpVars>>
          \/ GpNext /\ UNCHANGED <<pqVars, apVars>>

MCSpec == MCInit /\ [][MCNext]_<<pqVars, apVars, gpVars>>
=============================================================================
