----------------------------- MODULE FrameArqReset -----------------------------
(***************************************************************************)
(* FrameArq with frame_arq_reset, which the application of an end calls to  *)
(* start a fresh session on a link that was re-established.                 *)
(*                                                                         *)
(* Either an end resets on its own, at any time; or both reset on an empty  *)
(* line, neither sending anything in between.  (Both resetting while frames *)
(* are on the line is two resets of the first kind.)  There may be any      *)
(* number of resets.                                                        *)
(***************************************************************************)
EXTENDS FrameArq

\* f with the value v at the ends in S.
At(f, S, v) == [e \in End |-> IF e \in S THEN v ELSE f[e]]

\* A reset that keeps what is outstanding, and one that keeps the receiver's seq.
ResetKeepsRetained_(S) ==
    /\ tx_seq' = At(tx_seq, S, TxSeqStart)
    /\ expected_rx_seq' = At(expected_rx_seq, S, 0)
    /\ got' = At(got, S, << >>)
    /\ UNCHANGED <<awaiting_ack, resend_needed, retain, wire>>

ResetKeepsExpected_(S) ==
    /\ tx_seq' = At(tx_seq, S, TxSeqStart)
    /\ awaiting_ack' = At(awaiting_ack, S, FALSE)
    /\ resend_needed' = At(resend_needed, S, FALSE)
    /\ retain' = At(retain, S, NoFrame)
    /\ got' = At(got, S, << >>)
    /\ UNCHANGED <<expected_rx_seq, wire>>

\* frame_arq_reset at the ends in S; got begins anew with their session.
Reset(S) ==
    /\ tx_seq' = At(tx_seq, S, TxSeqStart)
    /\ expected_rx_seq' = At(expected_rx_seq, S, 0)
    /\ awaiting_ack' = At(awaiting_ack, S, FALSE)
    /\ resend_needed' = At(resend_needed, S, FALSE)
    /\ retain' = At(retain, S, NoFrame)
    /\ got' = At(got, S, << >>)
    /\ UNCHANGED wire

\* One end resets, whatever the other does and whatever is on the line.
ResetOne ==
    /\ \E e \in End : Reset({e})
    /\ UNCHANGED sent

\* Both ends reset, having waited until nothing is on the line; the session that
\* they begin has sent nothing yet.
ResetBoth ==
    /\ \A e \in End : wire[e] = << >>
    /\ Reset(End)
    /\ sent' = At(sent, End, << >>)

ResetNext ==
    \/ Next
    \/ ResetOne
    \/ ResetBoth

ResetSpec == Init /\ [][ResetNext]_vars

-----------------------------------------------------------------------------
\* The messages of an end are numbered in the order it sends them.
Numbered == \A e \in End : \A i \in DOMAIN sent[e] : sent[e][i] = i

\* However the ends reset: what an end is given in one session of its own was
\* sent by its peer, keeps the order of sending, and comes once.  A message may
\* be skipped (an ACK of the session before stands for it), never repeated or
\* overtaken.  (For messages numbered in the order they are sent.)
OrderedInSession ==
    \A e \in End : \A j \in DOMAIN got[e] :
        /\ got[e][j] <= Len(sent[Peer(e)])
        /\ \A i \in 1 .. j - 1 : got[e][i] < got[e][j]

\* The sequences are aligned, and what is on the line belongs to them: each
\* direction is as it would be if no end had ever been reset alone.
Aligned ==
    /\ ExactlyOnceInOrder
    /\ RetainedWhileAwaiting
    /\ DataIsCurrent
    /\ AckIsHonest

\* "Both ends should reset so sequences realign" (frame_arq.h): if they do it
\* together, on an empty line, they are aligned, whatever was reset before; and
\* once aligned they stay so until an end resets alone.
ResetRealigns ==
    [][(Aligned \/ ResetBoth) /\ ~ResetOne => Aligned']_vars

=============================================================================
