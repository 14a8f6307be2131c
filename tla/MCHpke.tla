------------------------------- MODULE MCHpke -------------------------------
(* Model-checking instance of HpkeContext and HpkeSetup, of which one runs:  *)
(* its name is in part, and the other stays as it begins.                    *)
(*                                                                           *)
(* Contexts: bytes of one bit, so the sequence number carries across bytes   *)
(* and reaches its limit after Radix^Nn - 1 messages.  Setup: two sender     *)
(* keys, two PSKs and the empty one, matching and non-matching objects, four *)
(* calls in all.                                                             *)
EXTENDS HpkeContext, HpkeSetup, TLC

VARIABLE part

MCBaseNonce == [i \in 1 .. Nn |-> i % Radix]
MCXor(a, b) == (a + b) % 2     \* exclusive or of one-bit bytes

\* One receiver is the one encapsulated to in every case: by symmetry only
\* whether the two objects match tells configurations apart.
Perms == Permutations(SenderKey) \union Permutations(Receivers)
         \union Permutations(Info) \union Permutations(Psk \ {Empty})
-----------------------------------------------------------------------------
NoSetup == /\ conf = Empty /\ sender = Fresh /\ receiver = Fresh
           /\ calls = 0 /\ sealers = {} /\ openers = {}

HpkeInit == /\ Init
            /\ \/ part = "HpkeContext" /\ NoSetup
               \/ part = "HpkeSetup" /\ SetupInit

HpkeNext == /\ UNCHANGED part
            /\ \/ part = "HpkeContext" /\ Next /\ UNCHANGED setupVars
               \/ part = "HpkeSetup" /\ SetupNext /\ UNCHANGED vars

HpkeSpec == HpkeInit /\ [][HpkeNext]_<<part, vars, setupVars>>
=============================================================================
