------------------------------- MODULE FrameArq -------------------------------
(***************************************************************************)
(* The stop-and-wait ARQ of src/src/source/frame_arq.c: two ends, each with *)
(* its frame_arq_t, joined by a serial line.                                *)
(*                                                                         *)
(* One action is one call of the library: frame_arq_put, frame_arq_resend,  *)
(* or a frame_arq_get whose read_frame completes a frame (one action for    *)
(* each way the call can go).  A call that changes nothing (put returning   *)
(* BUSY, ARG or OVERFLOW, get on an incomplete frame, resend cut off by a   *)
(* failing write_cb) is a stuttering step.  frame_arq_reset is in           *)
(* FrameArqReset, the bytes of a frame are in FrameBytes.                  *)
(*                                                                         *)
(* The line is outside the repository.  It delivers in order; it may lose   *)
(* or damage any frame, and show bytes nobody sent.  A frame is lost or     *)
(* damaged when it reaches the head of the line: on a line that keeps order *)
(* this covers a loss at any earlier place.  A write_cb that fails half way *)
(* through a frame is a transmission followed by a loss.                    *)
(*                                                                         *)
(* A definition whose name ends in _ is a faulty form of the one after it,  *)
(* not part of the model: the README's table of mutants names them, with    *)
(* the property that each would break.                                      *)
(***************************************************************************)
EXTENDS Integers, Sequences

CONSTANTS
    A, B,           \* the two ends of the link
    Payload,        \* what a DATA frame can carry (command byte and bytes)
    SeqMod,         \* number of sequence numbers (FA_SEQ_MASK + 1 = 64)
    WireCap,        \* frames the line and the receiver's FIFO hold
    MaxPut,         \* bound: DATA frames each end sends
    Impatient,      \* the callers' timeouts may be shorter than a round trip
    Noise           \* the line may show bytes that nobody sent

End == {A, B}

ASSUME EndAssumption == A # B
ASSUME SeqModAssumption == SeqMod \in Nat /\ SeqMod >= 2
ASSUME BoundAssumption == WireCap \in Nat /\ MaxPut \in [End -> Nat]
ASSUME LineAssumption == Impatient \in BOOLEAN /\ Noise \in BOOLEAN

VARIABLES
    tx_seq,             \* seq of the last DATA frame sent
    expected_rx_seq,    \* seq next expected from the peer
    awaiting_ack,       \* a sent DATA frame has not been ACKed
    resend_needed,      \* a NACK was seen and nothing was resent since
    retain,             \* retain_buffer: the last DATA frame sent
    wire,               \* wire[e]: the frames on their way to e
    sent,               \* history: payloads accepted by put
    got                 \* history: payloads returned by get

arqVars == <<tx_seq, expected_rx_seq, awaiting_ack, resend_needed, retain>>
vars == <<arqVars, wire, sent, got>>

Peer(e) == IF e = A THEN B ELSE A

SeqNo == 0 .. SeqMod - 1
Succ_(s) == s + 1
Succ(s) == (s + 1) % SeqMod
Pred(s) == (s - 1) % SeqMod

Data(s, m) == [kind |-> "data", seq |-> s, msg |-> m]
Ack(s) == [kind |-> "ack", seq |-> s]
Nack(s) == [kind |-> "nack", seq |-> s]

DataFrame == [kind : {"data"}, seq : SeqNo, msg : Payload]
ControlFrame == [kind : {"ack", "nack"}, seq : SeqNo]
Frame == DataFrame \cup ControlFrame

NoFrame == [kind |-> "none"]    \* retain_length = 0

TxSeqStart_ == SeqMod
TxSeqStart == SeqMod - 1        \* the first put sends seq 0

\* The line takes a frame; a frame that finds the FIFO full is overrun.
Transmit(w, f) == IF Len(w) < WireCap THEN Append(w, f) ELSE w

\* e takes the head of its line, and its peer's line becomes w.
Receive(e, w) == wire' = [wire EXCEPT ![e] = Tail(@), ![Peer(e)] = w]

\* The same with a control frame as the answer.
Reply(e, f) == Receive(e, Transmit(wire[Peer(e)], f))

HeadIs(e, kind) == wire[e] # << >> /\ Head(wire[e]).kind = kind

\* An ACK for the outstanding frame.
Frees_(e, f) == awaiting_ack[e]
Frees(e, f) == awaiting_ack[e] /\ f.seq = tx_seq[e]

\* A DATA frame not delivered yet, and the one delivered last.
IsNew_(e, f) == f.seq \in {expected_rx_seq[e], Pred(expected_rx_seq[e])}
IsNew(e, f) == f.seq = expected_rx_seq[e]
IsRepeat(e, f) == f.seq = Pred(expected_rx_seq[e])

Init ==
    /\ tx_seq = [e \in End |-> TxSeqStart]
    /\ expected_rx_seq = [e \in End |-> 0]
    /\ awaiting_ack = [e \in End |-> FALSE]
    /\ resend_needed = [e \in End |-> FALSE]
    /\ retain = [e \in End |-> NoFrame]
    /\ wire = [e \in End |-> << >>]
    /\ sent = [e \in End |-> << >>]
    /\ got = [e \in End |-> << >>]

-----------------------------------------------------------------------------
(***************************************************************************)
(* The sending side.                                                       *)
(***************************************************************************)

\* A put that does not look at awaiting_ack.
Put_(e, m) ==
    LET f == Data(Succ(tx_seq[e]), m) IN
    /\ Len(sent[e]) < MaxPut[e]
    /\ tx_seq' = [tx_seq EXCEPT ![e] = f.seq]
    /\ retain' = [retain EXCEPT ![e] = f]
    /\ awaiting_ack' = [awaiting_ack EXCEPT ![e] = TRUE]
    /\ wire' = [wire EXCEPT ![Peer(e)] = Transmit(@, f)]
    /\ sent' = [sent EXCEPT ![e] = Append(@, m)]
    /\ UNCHANGED <<expected_rx_seq, resend_needed, got>>

\* frame_arq_put of an acceptable command and payload, nothing outstanding.
Put(e, m) ==
    LET f == Data(Succ(tx_seq[e]), m) IN
    /\ ~awaiting_ack[e]
    /\ Len(sent[e]) < MaxPut[e]
    /\ tx_seq' = [tx_seq EXCEPT ![e] = f.seq]
    /\ retain' = [retain EXCEPT ![e] = f]
    /\ awaiting_ack' = [awaiting_ack EXCEPT ![e] = TRUE]
    /\ resend_needed' = [resend_needed EXCEPT ![e] = FALSE]
    /\ wire' = [wire EXCEPT ![Peer(e)] = Transmit(@, f)]
    /\ sent' = [sent EXCEPT ![e] = Append(@, m)]
    /\ UNCHANGED <<expected_rx_seq, got>>

\* When a caller calls frame_arq_resend: a NACK was reported, or its own
\* timer ran out (a timeout longer than a round trip finds the line quiet).
ResendDue_(e) == resend_needed[e]
ResendDue(e) ==
    \/ resend_needed[e]
    \/ Impatient
    \/ wire[A] = << >> /\ wire[B] = << >>

\* A resend that gives the frame the next seq.
Resend_(e) ==
    LET f == Data(Succ(tx_seq[e]), retain[e].msg) IN
    /\ awaiting_ack[e]
    /\ tx_seq' = [tx_seq EXCEPT ![e] = f.seq]
    /\ retain' = [retain EXCEPT ![e] = f]
    /\ wire' = [wire EXCEPT ![Peer(e)] = Transmit(@, f)]
    /\ UNCHANGED <<expected_rx_seq, awaiting_ack, resend_needed, sent, got>>

\* frame_arq_resend with a frame outstanding.
Resend(e) ==
    /\ awaiting_ack[e]
    /\ retain[e] # NoFrame
    /\ ResendDue(e)
    /\ wire' = [wire EXCEPT ![Peer(e)] = Transmit(@, retain[e])]
    /\ resend_needed' = [resend_needed EXCEPT ![e] = FALSE]
    /\ UNCHANGED <<tx_seq, expected_rx_seq, awaiting_ack, retain, sent, got>>

\* frame_arq_get reads an ACK.
GetAck(e) ==
    /\ HeadIs(e, "ack")
    /\ LET done == Frees(e, Head(wire[e])) IN
       /\ awaiting_ack' = [awaiting_ack EXCEPT ![e] = @ /\ ~done]
       /\ resend_needed' = [resend_needed EXCEPT ![e] = @ /\ ~done]
    /\ Receive(e, wire[Peer(e)])
    /\ UNCHANGED <<tx_seq, expected_rx_seq, retain, sent, got>>

\* A NACK taken for one of an outstanding frame when there is none.
GetNack_(e) ==
    /\ HeadIs(e, "nack")
    /\ resend_needed' = [resend_needed EXCEPT ![e] = TRUE]
    /\ Receive(e, wire[Peer(e)])
    /\ UNCHANGED <<tx_seq, expected_rx_seq, awaiting_ack, retain, sent, got>>

\* frame_arq_get reads a NACK; the seq in it is not looked at.
GetNack(e) ==
    /\ HeadIs(e, "nack")
    /\ resend_needed' = [resend_needed EXCEPT ![e] = @ \/ awaiting_ack[e]]
    /\ Receive(e, wire[Peer(e)])
    /\ UNCHANGED <<tx_seq, expected_rx_seq, awaiting_ack, retain, sent, got>>

-----------------------------------------------------------------------------
(***************************************************************************)
(* The receiving side.                                                     *)
(***************************************************************************)

\* frame_arq_get reads the DATA frame it expects: ACK it and deliver it.
GetData(e) ==
    /\ HeadIs(e, "data")
    /\ LET f == Head(wire[e]) IN
       /\ IsNew(e, f)
       /\ Reply(e, Ack(f.seq))
       /\ expected_rx_seq' = [expected_rx_seq EXCEPT ![e] = Succ(f.seq)]
       /\ got' = [got EXCEPT ![e] = Append(@, f.msg)]
    /\ UNCHANGED <<tx_seq, awaiting_ack, resend_needed, retain, sent>>

\* A duplicate answered with the ACK of the frame expected next.
GetDuplicate_(e) ==
    /\ HeadIs(e, "data")
    /\ ~IsNew(e, Head(wire[e])) /\ IsRepeat(e, Head(wire[e]))
    /\ Reply(e, Ack(expected_rx_seq[e]))
    /\ UNCHANGED <<arqVars, sent, got>>

\* frame_arq_get reads the DATA frame it delivered last: ACK it again.
GetDuplicate(e) ==
    /\ HeadIs(e, "data")
    /\ LET f == Head(wire[e]) IN
       /\ ~IsNew(e, f) /\ IsRepeat(e, f)
       /\ Reply(e, Ack(f.seq))
    /\ UNCHANGED <<arqVars, sent, got>>

\* frame_arq_get reads any other DATA frame: ask for the expected one.
GetUnexpected(e) ==
    /\ HeadIs(e, "data")
    /\ ~IsNew(e, Head(wire[e])) /\ ~IsRepeat(e, Head(wire[e]))
    /\ Reply(e, Nack(expected_rx_seq[e]))
    /\ UNCHANGED <<arqVars, sent, got>>

\* frame_arq_get reads a damaged frame whose CRC does not match: NACK.
GetCrcError(e) ==
    /\ wire[e] # << >>
    /\ Reply(e, Nack(expected_rx_seq[e]))
    /\ UNCHANGED <<arqVars, sent, got>>

\* The same for bytes that nobody sent, which take no frame off the line.
GetNoise(e) ==
    /\ Noise
    /\ wire' = [wire EXCEPT ![Peer(e)] = Transmit(@, Nack(expected_rx_seq[e]))]
    /\ UNCHANGED <<arqVars, sent, got>>

\* The line loses a frame, or damages its length so that frame_arq_get
\* returns FRAME_ARQ_ERROR_OVERFLOW and answers nothing.
Lose(e) ==
    /\ wire[e] # << >>
    /\ Receive(e, wire[Peer(e)])
    /\ UNCHANGED <<arqVars, sent, got>>

-----------------------------------------------------------------------------
\* A frame_arq_get that finds an undamaged frame.
Get(e) ==
    \/ GetAck(e)
    \/ GetNack(e)
    \/ GetData(e)
    \/ GetDuplicate(e)
    \/ GetUnexpected(e)

Next ==
    \E e \in End :
        \/ \E m \in Payload : Put(e, m)
        \/ Resend(e)
        \/ Get(e)
        \/ GetCrcError(e)
        \/ GetNoise(e)
        \/ Lose(e)

Spec == Init /\ [][Next]_vars

(***************************************************************************)
(* Both callers keep polling frame_arq_get and keep their resend timer      *)
(* running (README.md, "a minimal receive/retransmit loop"), and the line   *)
(* is not dead: of the frames of one kind that keep arriving, some are read *)
(* undamaged.                                                               *)
(***************************************************************************)
Fairness ==
    \A e \in End :
        /\ WF_vars(Get(e))
        /\ WF_vars(Resend(e))
        /\ SF_vars(GetData(e))
        /\ SF_vars(GetDuplicate(e))
        /\ SF_vars(GetAck(e))
        /\ SF_vars(GetNack(e))

FairSpec == Spec /\ Fairness

-----------------------------------------------------------------------------
(***************************************************************************)
(* Properties.                                                             *)
(***************************************************************************)

\* Every variable keeps its type.
TypeOK ==
    /\ tx_seq \in [End -> SeqNo]
    /\ expected_rx_seq \in [End -> SeqNo]
    /\ awaiting_ack \in [End -> BOOLEAN]
    /\ resend_needed \in [End -> BOOLEAN]
    /\ retain \in [End -> DataFrame \cup {NoFrame}]
    /\ wire \in [End -> Seq(Frame)]
    /\ sent \in [End -> Seq(Payload)]
    /\ got \in [End -> Seq(Payload)]

\* e's peer has been given everything e sent.
AllDelivered(e) ==
    /\ got[Peer(e)] = sent[e]
    /\ expected_rx_seq[Peer(e)] = Succ(tx_seq[e])

\* e's peer has been given everything but the frame e holds for resending.
LastOutstanding(e) ==
    /\ awaiting_ack[e]
    /\ sent[e] = Append(got[Peer(e)], retain[e].msg)
    /\ expected_rx_seq[Peer(e)] = tx_seq[e]

\* get hands over what the peer put, in order, nothing twice, nothing skipped:
\* only the frame that put retained may be missing, and only until its ACK.
\* (README.md, "Guaranteed delivery" and "Duplicate delivery is handled".)
ExactlyOnceInOrder == \A e \in End : AllDelivered(e) \/ LastOutstanding(e)

\* resend has the outstanding frame: retain_buffer holds it under its seq, and
\* resend_needed is raised only for a frame that is outstanding.
RetainedWhileAwaiting ==
    \A e \in End :
        /\ awaiting_ack[e] => retain[e] # NoFrame /\ retain[e].seq = tx_seq[e]
        /\ resend_needed[e] => awaiting_ack[e]

\* The frames of one kind with seq s follow all others of that kind in w.
LastOfKind(w, kind, s) ==
    \A i, j \in DOMAIN w :
        i < j /\ w[i].kind = kind /\ w[j].kind = kind /\ w[i].seq = s
            => w[j].seq = s

\* The DATA frames on w, for a sender at seq t that retains r: only copies of r,
\* after copies of the frame before it if r is not delivered yet (last).
DataOn(w, t, last, r) ==
    /\ \A i \in DOMAIN w : w[i].kind = "data" =>
          \/ w[i].seq = t /\ (last => w[i] = r)
          \/ w[i].seq = Pred(t) /\ last
    /\ LastOfKind(w, "data", t)

\* What is on its way to e's peer is never older than the frame before the
\* outstanding one, and never overtaken by it; so get never sees an unexpected
\* seq, its third branch for DATA frames (no end being reset).
DataIsCurrent ==
    \A e \in End :
        DataOn(wire[Peer(e)], tx_seq[e], LastOutstanding(e), retain[e])

\* The ACKs on w, for a sender at seq t: those for t only if it is delivered
\* (all), after those for the frame before it, which only a waiting sender sees.
AckOn(w, t, all, waiting) ==
    /\ \A i \in DOMAIN w : w[i].kind = "ack" =>
          \/ w[i].seq = t /\ all
          \/ w[i].seq = Pred(t) /\ waiting
    /\ LastOfKind(w, "ack", t)

\* An ACK on the line that would free the sender is for a delivered frame,
\* however many copies of earlier ACKs are still on their way.
AckIsHonest ==
    \A e \in End :
        AckOn(wire[e], tx_seq[e], AllDelivered(e), awaiting_ack[e])

\* "The library never abandons a frame or advances the sequence number on its
\* own": an undelivered frame stays retained, outstanding, under its seq.
NeverAbandons ==
    [][\A e \in End : LastOutstanding(e) =>
          /\ UNCHANGED <<tx_seq[e], retain[e]>>
          /\ awaiting_ack'[e]]_vars

\* Each direction implements the abstract link.
FromA == INSTANCE ReliableLink
             WITH sent <- sent[A], got <- got[B], busy <- awaiting_ack[A]
FromB == INSTANCE ReliableLink
             WITH sent <- sent[B], got <- got[A], busy <- awaiting_ack[B]

\* Safety of ReliableLink both ways: a message is confirmed to its sender only
\* after the other side was given it, and none is given twice or out of turn.
LinkImplemented == FromA!Spec /\ FromB!Spec

\* Guaranteed delivery both ways: every message put is delivered and confirmed.
GuaranteedDelivery == FromA!FairSpec /\ FromB!FairSpec

=============================================================================
