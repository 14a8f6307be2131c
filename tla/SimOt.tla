-------------------------------- MODULE SimOt --------------------------------
(* The oblivious transfer of ot/simot: a Sender and a Receiver object, each  *)
(* with the values of the last call of each round. The rounds may be called  *)
(* again, and in any order that the code allows; what was returned once may  *)
(* be delivered any number of times, and late.                               *)
(*                                                                           *)
(* A group element is its logarithm modulo Order. The hash is free: a key is *)
(* what was hashed. Authenticated encryption opens under its key only.       *)
(* Ot is in the names that other modules of the same run also have.          *)
EXTENDS Integers, FiniteSets

CONSTANTS Order,     \* a prime
          Scalars,   \* scalars that the random source may give
          MaxInits   \* sessions of the sender

SimOtAssumption ==
  /\ Order \in Nat \ {0, 1, 2} /\ \A x, y \in 1 .. Order - 1 : (x * y) % Order # 0
  /\ Scalars \subseteq 1 .. Order - 1
  /\ MaxInits \in 1 .. Cardinality(Scalars)

VARIABLES sender,    \* [a, A, inits] or inits = 0; its messages are those of session inits
          receiver,  \* [b, c, A, B, mc]
          As, Bs, Es \* what was returned so far: A, B and [e0, e1]

otVars == <<sender, receiver, As, Bs, Es>>

OtNone == [none |-> TRUE]
Message(session, i) == [session |-> session, i |-> i]

OtInit ==
  /\ sender = [a |-> 0, A |-> 0, inits |-> 0]
  /\ receiver = [b |-> 0, c |-> 0, A |-> 0, B |-> 0, mc |-> OtNone]
  /\ As = {} /\ Bs = {} /\ Es = {}

\* A fresh a, and two new messages.
InitSender(a) ==
  /\ sender.inits < MaxInits /\ a \notin As
  /\ sender' = [a |-> a, A |-> a, inits |-> sender.inits + 1]
  /\ As' = As \cup {a}
  /\ UNCHANGED <<receiver, Bs, Es>>

Round1Receiver(choice, A, b) ==
  /\ A \in As
  /\ receiver' = [receiver EXCEPT !.b = b, !.c = choice, !.A = A,
                                  !.B = (b + choice * A) % Order]
  /\ Bs' = Bs \cup {receiver'.B}
  /\ UNCHANGED <<sender, As, Es>>

BugKeys(B) ==   \* slip: the second key is that of a B + a A
  LET aB == (sender.a * B) % Order
      aBaA == (aB + sender.a * sender.A) % Order
  IN  <<<<sender.A, B, aB>>, <<sender.A, B, aBaA>>>>

\* The hash of the transcript with a B, and with a B - a A.
MessageKeys(B) ==
  LET aB == (sender.a * B) % Order
      aBaA == (aB - sender.a * sender.A) % Order
  IN  <<<<sender.A, B, aB>>, <<sender.A, B, aBaA>>>>

Sealed(key, msg) == [key |-> key, msg |-> msg]

Round2Sender(B) ==
  /\ sender.inits > 0 /\ B \in Bs
  /\ Es' = Es \cup {<<Sealed(MessageKeys(B)[1], Message(sender.inits, 0)),
                      Sealed(MessageKeys(B)[2], Message(sender.inits, 1))>>}
  /\ UNCHANGED <<sender, receiver, As, Bs>>

\* The key of the receiver and what it opens: OtNone stands for the error.
KeyR == <<receiver.A, receiver.B, (receiver.b * receiver.A) % Order>>
Opened(e, choice) == IF e[choice + 1].key = KeyR THEN e[choice + 1].msg ELSE OtNone

\* On an error mc keeps the message of an earlier call.
Round3Receiver(e, choice) ==
  /\ e \in Es /\ receiver.A \in As
  /\ receiver' = [receiver EXCEPT !.mc = IF Opened(e, choice) = OtNone THEN @ ELSE Opened(e, choice)]
  /\ UNCHANGED <<sender, As, Bs, Es>>

OtNext ==
  \/ \E a \in Scalars : InitSender(a)
  \/ \E choice \in {0, 1}, A \in As, b \in Scalars : Round1Receiver(choice, A, b)
  \/ \E B \in Bs : Round2Sender(B)
  \/ \E e \in Es, choice \in {0, 1} : Round3Receiver(e, choice)

OtSpec == OtInit /\ [][OtNext]_otVars
-----------------------------------------------------------------------------
(* The receiver opens the message it chose, of the session it chose it in,   *)
(* and nothing else: an answer to another B or of another session is an      *)
(* error, late or not, and so is the other choice; an answer to its own B    *)
(* never is. Only mc may be from an earlier choice, after an error.          *)
ChosenOnly ==
  \A e \in Es, choice \in {0, 1} : receiver.A \in As =>
    LET mine == /\ e[1].key[1] = receiver.A /\ e[1].key[2] = receiver.B
                /\ choice = receiver.c
    IN  Opened(e, choice) = IF mine THEN Message(e[1].msg.session, receiver.c) ELSE OtNone
=============================================================================
