------------------------------ MODULE QueuedLink ------------------------------
(***************************************************************************)
(* What EspSerialSession promises a caller of Send: ReliableLink with a     *)
(* queue before it.  Send always takes the message; messages are delivered  *)
(* in the order of Send, once, and the next one goes out only when the one  *)
(* before it is confirmed.                                                  *)
(***************************************************************************)
EXTENDS Naturals, Sequences

CONSTANT Payload    \* what a message can be

VARIABLES
    accepted,   \* messages taken, oldest first
    got,        \* messages the receiver was given, oldest first
    confirmed   \* how many of them are confirmed to the sender

vars == <<accepted, got, confirmed>>

Init ==
    /\ accepted = << >>
    /\ got = << >>
    /\ confirmed = 0

\* A message is taken, whatever is in flight.
Accept ==
    /\ \E m \in Payload : accepted' = Append(accepted, m)
    /\ UNCHANGED <<got, confirmed>>

\* The receiver is given the one message in flight.
Deliver ==
    /\ confirmed = Len(got)
    /\ Len(got) < Len(accepted)
    /\ got' = Append(got, accepted[Len(got) + 1])
    /\ UNCHANGED <<accepted, confirmed>>

\* The sender learns of it.
Confirm ==
    /\ confirmed < Len(got)
    /\ confirmed' = confirmed + 1
    /\ UNCHANGED <<accepted, got>>

Next == Accept \/ Deliver \/ Confirm

Spec == Init /\ [][Next]_vars

\* Every message is delivered and confirmed in the end.
FairSpec == Spec /\ WF_vars(Deliver) /\ WF_vars(Confirm)

=============================================================================
