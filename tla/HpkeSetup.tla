----------------------------- MODULE HpkeSetup -----------------------------
(***************************************************************************)
(* A Sender and a Receiver object of HPKE (hpke/hpke.go, hpke/util.go) and *)
(* the contexts their four Setup methods make.  Both objects may be set up *)
(* again and again: what one call stores in the object (mode, sender key,  *)
(* PSK, PSK identifier) is still there in the next, whether or not the     *)
(* call succeeded.                                                         *)
(*                                                                         *)
(* The KEM and the key schedule are ideal: a shared secret is the term of  *)
(* what went into it, and so is a context key.                             *)
(***************************************************************************)
EXTENDS Naturals, FiniteSets

CONSTANTS
  SenderKey,   \* key pairs a sender may authenticate with
  Psk,         \* pre-shared keys, the empty one included
  PskId,       \* and their identifiers
  Empty,       \* nil, or the empty byte string
  Receivers,   \* key pairs of receivers
  Info,        \* application information
  MaxCalls     \* bound: calls of the two objects together

ASSUME EmptyAssumption == Empty \in Psk /\ Empty \in PskId /\ Empty \notin SenderKey

modeBase    == 0
modePSK     == 1
modeAuth    == 2
modeAuthPSK == 3
PskModes    == {modePSK, modeAuthPSK}
AuthModes   == {modeAuth, modeAuthPSK}

VARIABLES
  conf,      \* what NewSender and NewReceiver were given, and the KEM's kind
  sender, receiver,   \* the state embedded in each object
  calls,     \* calls made so far; it also numbers the seeds the sender draws
  sealers,   \* contexts made by the sender: encapsulation, key, and the call
  openers    \* contexts made by the receiver, likewise

setupVars == <<conf, sender, receiver, calls, sealers, openers>>
-----------------------------------------------------------------------------
Conf == [authKem : BOOLEAN, pkR : Receivers, skR : Receivers,
         infoS : Info, infoR : Info]

State == [modeID : modeBase .. modeAuthPSK, auth : SenderKey \union {Empty},
          psk : Psk, pskID : PskId]

\* The shared secret: encapsulated with a seed to a receiver, and in the
\* authenticated modes with a sender's key.
Secret(seed, pk, st) ==
  [seed |-> seed, pk |-> pk, auth |-> IF st.modeID \in AuthModes THEN st.auth ELSE Empty]

\* Slip: the modes without a PSK take whatever the object holds.
BugVerifyPSKInputs(st) ==
  /\ (st.psk # Empty) = (st.pskID # Empty)
  /\ st.modeID \in PskModes => st.psk # Empty

verifyPSKInputs(st) ==
  /\ (st.psk # Empty) = (st.pskID # Empty)
  /\ (st.psk # Empty) = (st.modeID \in PskModes)

\* Slip: the mode is not bound into the key schedule context.
BugKeySchedule(ss, st, info) ==
  [ss |-> ss, mode |-> modeBase, psk |-> st.psk, pskID |-> st.pskID, info |-> info]

keySchedule(ss, st, info) ==
  [ss |-> ss, mode |-> st.modeID, psk |-> st.psk, pskID |-> st.pskID, info |-> info]

\* What the caller asked for: a call's own arguments, with Empty for those
\* its method does not have.
Call == [modeID : {modeBase}, auth : {Empty}, psk : {Empty}, pskID : {Empty}]
        \union [modeID : {modeAuth}, auth : SenderKey, psk : {Empty}, pskID : {Empty}]
        \union [modeID : {modePSK}, auth : {Empty}, psk : Psk, pskID : PskId]
        \union [modeID : {modeAuthPSK}, auth : SenderKey, psk : Psk, pskID : PskId]

\* A Setup method overwrites the mode and the fields it has arguments for.
BugStore(st, c) == c   \* slip: also the fields it has none for

Store(st, c) ==
  [modeID |-> c.modeID,
   auth   |-> IF c.modeID \in AuthModes THEN c.auth ELSE st.auth,
   psk    |-> IF c.modeID \in PskModes THEN c.psk ELSE st.psk,
   pskID  |-> IF c.modeID \in PskModes THEN c.pskID ELSE st.pskID]

\* The mode is one the KEM has, and the PSK inputs fit the mode.
Accepted(st) == (st.modeID \in AuthModes => conf.authKem) /\ verifyPSKInputs(st)
-----------------------------------------------------------------------------
Fresh == [modeID |-> modeBase, auth |-> Empty, psk |-> Empty, pskID |-> Empty]

SetupInit ==
  /\ conf \in Conf
  /\ sender = Fresh
  /\ receiver = Fresh
  /\ calls = 0
  /\ sealers = {}
  /\ openers = {}

\* Setup, SetupAuth, SetupPSK and SetupAuthPSK of a Sender.
SenderSetup(c) ==
  /\ calls < MaxCalls
  /\ calls' = calls + 1
  /\ sender' = Store(sender, c)
  /\ Accepted(sender')
  /\ sealers' = sealers \union
       {[enc |-> calls, call |-> c,
         key |-> keySchedule(Secret(calls, conf.pkR, sender'), sender', conf.infoS)]}
  /\ UNCHANGED <<conf, receiver, openers>>

\* The same call with an error returned: the random source or the KEM failed,
\* or the mode was refused.  The object keeps what was stored.
SenderSetupFails(c) ==
  /\ calls < MaxCalls
  /\ calls' = calls + 1
  /\ sender' = Store(sender, c)
  /\ UNCHANGED <<conf, receiver, sealers, openers>>

\* The Setup methods of a Receiver, given any encapsulation it was sent.
ReceiverSetup(c, enc) ==
  /\ calls < MaxCalls
  /\ calls' = calls + 1
  /\ receiver' = Store(receiver, c)
  /\ Accepted(receiver')
  /\ openers' = openers \union
       {[enc |-> enc, call |-> c,
         key |-> keySchedule(Secret(enc, conf.skR, receiver'), receiver', conf.infoR)]}
  /\ UNCHANGED <<conf, sender, sealers>>

ReceiverSetupFails(c) ==
  /\ calls < MaxCalls
  /\ calls' = calls + 1
  /\ receiver' = Store(receiver, c)
  /\ UNCHANGED <<conf, sender, sealers, openers>>

SetupNext == \E c \in Call : \/ SenderSetup(c)
                             \/ SenderSetupFails(c)
                             \/ ReceiverSetupFails(c)
                             \/ \E x \in sealers : ReceiverSetup(c, x.enc)

SetupSpec == SetupInit /\ [][SetupNext]_setupVars
-----------------------------------------------------------------------------
\* Two contexts share a key exactly when both callers asked for the same
\* thing of a matching pair of objects: same encapsulation, mode, sender key,
\* PSK and information.  What earlier calls left behind in either object
\* (hpke.go:116 to hpke.go:208 assign only some fields) never enters a key.
KeyAgreement ==
  \A x \in sealers, y \in openers :
    x.key = y.key <=> /\ x.enc = y.enc
                      /\ x.call = y.call
                      /\ conf.pkR = conf.skR
                      /\ conf.infoS = conf.infoR

\* An object that holds a PSK makes no context in a mode without one
\* (util.go:62, TestBaseModeRejectsUnwantedPSK): a Setup or a SetupAuth, of a
\* Sender or of a Receiver, succeeds only on an object whose last SetupPSK or
\* SetupAuthPSK, if any, was given no PSK.
StalePskRefused ==
  [][/\ \A x \in (sealers' \ sealers) : x.call.modeID \notin PskModes
                       => sender.psk = Empty /\ sender.pskID = Empty
     /\ \A y \in (openers' \ openers) : y.call.modeID \notin PskModes
                       => receiver.psk = Empty /\ receiver.pskID = Empty]_setupVars
=============================================================================
