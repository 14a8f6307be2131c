---------------------------- MODULE HpkeChannel ----------------------------
(***************************************************************************)
(* What a pair of HPKE contexts promises to its users, whatever the        *)
(* network between them does: a reliable first-in first-out channel.  The  *)
(* receiving user gets the messages the sending user sealed, each once, in *)
(* the order they were sealed, and nothing else.  HpkeContext implements   *)
(* it with sequence numbers over a network that loses, repeats and         *)
(* reorders, and over crashes of the two processes.                        *)
(***************************************************************************)
EXTENDS Naturals, Sequences

CONSTANT Message

VARIABLES sent,   \* every message a successful Seal accepted, in order
          rcvd    \* every message a successful Open returned, in order

vars == <<sent, rcvd>>

Init == /\ sent = <<>>
        /\ rcvd = <<>>

Send(m) == /\ sent' = Append(sent, m)
           /\ UNCHANGED rcvd

Receive == /\ Len(rcvd) < Len(sent)
           /\ rcvd' = Append(rcvd, sent[Len(rcvd) + 1])
           /\ UNCHANGED sent

Next == (\E m \in Message : Send(m)) \/ Receive

Spec == Init /\ [][Next]_vars
=============================================================================
