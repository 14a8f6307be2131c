-------------------------------- MODULE Xof --------------------------------
(***************************************************************************)
(* What an extendable-output function object promises: the output is one   *)
(* stream determined by everything absorbed and the domain separation byte *)
(* in force when output began, however the input was cut into writes and   *)
(* the output into reads.                                                  *)
(***************************************************************************)
EXTENDS Naturals, Sequences

CONSTANTS Byte,
          Domain,                \* domain separation bytes
          XofByte(_, _, _)       \* the k-th output byte of a message and domain

VARIABLES msg,        \* absorbed so far
          ds,         \* the domain separation byte
          squeezing,  \* output has begun
          final,      \* the domain separation byte output began with
          out         \* squeezed so far

vars == <<msg, ds, squeezing, final, out>>

Init == /\ msg = <<>>
        /\ ds \in Domain
        /\ squeezing = FALSE
        /\ final = ds
        /\ out = <<>>

\* A write, or part of one, appends to the message.
Absorb == /\ ~squeezing
          /\ msg' \in Seq(Byte)
          /\ Len(msg') >= Len(msg)
          /\ SubSeq(msg', 1, Len(msg)) = msg
          /\ UNCHANGED <<ds, squeezing, final, out>>

\* A read, or part of one, appends the next bytes of the stream.
Squeeze ==
  /\ squeezing' = TRUE
  /\ final' = IF squeezing THEN final ELSE ds
  /\ Len(out') >= Len(out)
  /\ out' = [k \in 1 .. Len(out') |->
               IF k <= Len(out) THEN out[k] ELSE XofByte(msg, final', k - 1)]
  /\ UNCHANGED <<msg, ds>>

SwitchDS(D) == /\ ds' = D
               /\ UNCHANGED <<msg, squeezing, final, out>>

\* The domain separation byte survives a reset.
Reset == /\ msg' = <<>>
         /\ squeezing' = FALSE
         /\ out' = <<>>
         /\ UNCHANGED <<ds, final>>

Next == Absorb \/ Squeeze \/ (\E D \in Domain : SwitchDS(D)) \/ Reset

Spec == Init /\ [][Next]_vars
=============================================================================
