-------------------------------- MODULE MCK12 --------------------------------
(* Two instances of K12 of which part says which one runs:                   *)
(*   Long  one State, o1, with a message long enough for four lanes to be    *)
(*         filled from the buffer, straight from an argument, and in a       *)
(*         remainder;                                                        *)
(*   Two   two States with one lane or two, shorter messages and one clone.  *)
(* A context fits the chunk it begins in, or does not.                       *)
EXTENDS K12

CONSTANT o1
VARIABLE part

ASSUME K12Assumption /\ NilAssumption

Short == 6   \* bound: bytes written to a State of Two

MCInit == /\ Init
          /\ part \in {"Long", "Two"}
          /\ part = "Two" => \A o \in Object : s[o].lanes # 4

LongNext == \/ \E n \in 0 .. MaxMessage : Write(o1, n)
            \/ Read(o1)
            \/ Reset(o1)

TwoNext == \/ \E o \in Object : \E n \in 0 .. Short - Len(msg[o]) - late[o] : Write(o, n)
           \/ \E o \in Object : Read(o)
           \/ \E o \in Object : Reset(o)
           \/ \E o, c \in Object : Clone(o, c)

MCNext == /\ UNCHANGED part
          /\ \/ part = "Long" /\ LongNext
             \/ part = "Two" /\ TwoNext

MCSpec == MCInit /\ [][MCNext]_<<part, vars>>
=============================================================================
