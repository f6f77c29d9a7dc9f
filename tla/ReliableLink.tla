---------------------------- MODULE ReliableLink ----------------------------
(***************************************************************************)
(* What one direction of a frame_arq link promises its two users           *)
(* (README.md, "Guaranteed delivery"; frame_arq.h, frame_arq_put and       *)
(* frame_arq_get), with no sequence numbers, frames or retransmissions:    *)
(*                                                                         *)
(*   - the sender hands over one message at a time and is told "busy"      *)
(*     until that message is confirmed;                                    *)
(*   - the receiver is given every message, once, in the order of sending; *)
(*   - a message is confirmed only after the receiver was given it.        *)
(***************************************************************************)
EXTENDS Naturals, Sequences

CONSTANT Payload    \* what a message can be

VARIABLES
    sent,   \* messages the sender handed over, oldest first
    got,    \* messages the receiver was given, oldest first
    busy    \* the last message handed over is not confirmed yet

vars == <<sent, got, busy>>

Init ==
    /\ sent = << >>
    /\ got = << >>
    /\ busy = FALSE

\* The sender hands over the next message.
Accept ==
    /\ ~busy
    /\ \E m \in Payload : sent' = Append(sent, m)
    /\ busy' = TRUE
    /\ UNCHANGED got

\* The receiver is given the oldest message it has not had.
Deliver ==
    /\ Len(got) < Len(sent)
    /\ got' = Append(got, sent[Len(got) + 1])
    /\ UNCHANGED <<sent, busy>>

\* The sender learns that everything it handed over has arrived.
Confirm ==
    /\ busy
    /\ got = sent
    /\ busy' = FALSE
    /\ UNCHANGED <<sent, got>>

Next == Accept \/ Deliver \/ Confirm

Spec == Init /\ [][Next]_vars

\* Guaranteed delivery: what was handed over is delivered, then confirmed.
FairSpec == Spec /\ WF_vars(Deliver) /\ WF_vars(Confirm)

=============================================================================
