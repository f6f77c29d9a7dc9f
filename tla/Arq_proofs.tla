----------------------------- MODULE Arq_proofs -----------------------------
(***************************************************************************)
(* Proofs about the ARQ of the library, FrameArq and FrameArqReset, and that*)
(* of the session, EspSession, for any payloads, any number of sequence    *)
(* numbers from two up, any capacity of the line and any number of messages,*)
(* resets, threads and callbacks.                                          *)
(*                                                                         *)
(* The protocol.  The inductive invariant says of each end what its sender *)
(* and its peer's receiver remember, and of each line which frames may be on*)
(* it and in which order, with the constant operators DataOn and AckOn.  A *)
(* first group of lemmas says how these survive a frame taken off the line *)
(* or put on it; the proofs of the steps then only cite them.  After them  *)
(* comes FrameArqReset.                                                    *)
(*                                                                         *)
(* The session.  Its types come first, one step for each critical section; *)
(* then its queue, its timer and its reports of frames that fail, whose    *)
(* invariants are inductive with the types; then the direction from the    *)
(* board to the session, in which the read task may hold a frame and an ACK*)
(* that it has not written yet; and the direction from the session to the  *)
(* board, in which any thread may hold a copy of a frame, for threads that *)
(* are prompt and for sessions short enough that they need not be.         *)
(***************************************************************************)
EXTENDS EspSession, FrameArqReset, TLAPS

\* What e as a sender, and its peer as a receiver, remember.
Sender(e) ==
    /\ AllDelivered(e) \/ LastOutstanding(e)
    /\ awaiting_ack[e] => retain[e] # NoFrame /\ retain[e].seq = tx_seq[e]
    /\ resend_needed[e] => awaiting_ack[e]

\* What may be on the line w to e: the DATA frames of its peer, and the ACKs of
\* its own.
LineTo(e, w) ==
    /\ DataOn(w, tx_seq[Peer(e)], LastOutstanding(Peer(e)), retain[Peer(e)])
    /\ AckOn(w, tx_seq[e], AllDelivered(e), awaiting_ack[e])

IInv ==
    /\ TypeOK
    /\ \A e \in End : Sender(e) /\ LineTo(e, wire[e])

-----------------------------------------------------------------------------
(***************************************************************************)
(* Sequence numbers and ends.                                              *)
(***************************************************************************)

\* The wrapping successor and predecessor of a sequence number are inverse to
\* each other and never the number itself (the & FA_SEQ_MASK of frame_arq.c).
LEMMA SeqNoFacts ==
    ASSUME NEW s \in SeqNo
    PROVE  /\ Succ(s) \in SeqNo /\ Pred(s) \in SeqNo
           /\ Pred(Succ(s)) = s /\ Succ(Pred(s)) = s
           /\ Succ(s) # s /\ Pred(s) # s
<1>1. s \in Int /\ 0 <= s /\ s <= SeqMod - 1 /\ SeqMod \in Nat /\ SeqMod >= 2
  BY SeqModAssumption DEF SeqNo
<1>2. Succ(s) = IF s = SeqMod - 1 THEN 0 ELSE s + 1
  BY <1>1 DEF Succ
<1>3. Pred(s) = IF s = 0 THEN SeqMod - 1 ELSE s - 1
  BY <1>1 DEF Pred
<1>4. Succ(s) \in SeqNo /\ Pred(s) \in SeqNo
  BY <1>1, <1>2, <1>3 DEF SeqNo
<1>5. Pred(Succ(s)) = IF Succ(s) = 0 THEN SeqMod - 1 ELSE Succ(s) - 1
  BY <1>1, <1>4 DEF Pred, SeqNo
<1>6. Succ(Pred(s)) = IF Pred(s) = SeqMod - 1 THEN 0 ELSE Pred(s) + 1
  BY <1>1, <1>4 DEF Succ, SeqNo
<1>7. QED
  BY <1>1, <1>2, <1>3, <1>4, <1>5, <1>6

\* The two ends.
LEMMA PeerFacts ==
    ASSUME NEW e \in End
    PROVE  /\ Peer(e) \in End /\ Peer(e) # e /\ Peer(Peer(e)) = e
           /\ End = {e, Peer(e)}
BY EndAssumption DEF End, Peer

-----------------------------------------------------------------------------
(***************************************************************************)
(* The line: what taking the head off and putting a frame on leaves there. *)
(***************************************************************************)

\* The frames left behind by the head are the others, one place earlier.
LEMMA TailFacts ==
    ASSUME NEW w \in Seq(Frame), w # << >>
    PROVE  /\ Tail(w) \in Seq(Frame)
           /\ Head(w) \in Frame /\ 1 \in DOMAIN w /\ Head(w) = w[1]
           /\ \A i \in DOMAIN Tail(w) :
                 i \in Nat /\ i >= 1 /\ i + 1 \in DOMAIN w /\ Tail(w)[i] = w[i + 1]
<1>1. Len(w) \in Nat /\ Len(w) # 0 /\ DOMAIN w = 1 .. Len(w)
  OBVIOUS
<1>2. Len(Tail(w)) = Len(w) - 1 /\ DOMAIN Tail(w) = 1 .. Len(w) - 1
  BY <1>1
<1>3. QED
  BY <1>1, <1>2

\* A frame put on the line stands behind all others, or is overrun.
LEMMA TransmitFacts ==
    ASSUME NEW w \in Seq(Frame), NEW f \in Frame
    PROVE  /\ Transmit(w, f) \in Seq(Frame)
           /\ DOMAIN w \subseteq Nat
           /\ \A i \in DOMAIN Transmit(w, f) :
                 \/ i \in DOMAIN w /\ Transmit(w, f)[i] = w[i]
                 \/ /\ Transmit(w, f)[i] = f
                    /\ i \in Nat /\ \A j \in DOMAIN w : j < i
<1>1. CASE Len(w) < WireCap
  <2>1. Transmit(w, f) = Append(w, f)
    BY <1>1 DEF Transmit
  <2>2. /\ Len(w) \in Nat /\ DOMAIN w = 1 .. Len(w)
        /\ DOMAIN Append(w, f) = 1 .. Len(w) + 1
        /\ Append(w, f) \in Seq(Frame)
    OBVIOUS
  <2>3. ASSUME NEW i \in DOMAIN Append(w, f)
        PROVE  \/ i \in DOMAIN w /\ Append(w, f)[i] = w[i]
               \/ i = Len(w) + 1 /\ Append(w, f)[i] = f
    BY <2>2
  <2>4. QED
    BY <2>1, <2>2, <2>3
<1>2. CASE ~(Len(w) < WireCap)
  BY <1>2 DEF Transmit
<1>3. QED
  BY <1>1, <1>2

\* A line stays ordered when its head is taken.
LEMMA OrderTail ==
    ASSUME NEW w \in Seq(Frame), w # << >>, NEW kind, NEW s,
           LastOfKind(w, kind, s)
    PROVE  LastOfKind(Tail(w), kind, s)
BY TailFacts DEF LastOfKind

\* It stays ordered when a frame of another kind, or one with the last seq, or
\* any frame while the last seq is not on it, is put at the end.
LEMMA OrderTransmit ==
    ASSUME NEW w \in Seq(Frame), NEW f \in Frame, NEW kind, NEW s,
           LastOfKind(w, kind, s),
           \/ f.kind # kind
           \/ f.seq = s
           \/ \A i \in DOMAIN w : w[i].kind = kind => w[i].seq # s
    PROVE  LastOfKind(Transmit(w, f), kind, s)
<1>1. /\ DOMAIN w \subseteq Nat
      /\ \A k \in DOMAIN Transmit(w, f) :
            \/ k \in DOMAIN w /\ Transmit(w, f)[k] = w[k]
            \/ /\ Transmit(w, f)[k] = f
               /\ k \in Nat /\ \A l \in DOMAIN w : l < k
  BY TransmitFacts
<1> DEFINE v == Transmit(w, f)
<1> HIDE DEF v
<1>2. ASSUME NEW i \in DOMAIN v, NEW j \in DOMAIN v, i < j,
             v[i].kind = kind, v[j].kind = kind, v[i].seq = s
      PROVE  v[j].seq = s
  <2>1. CASE j \in DOMAIN w /\ v[j] = w[j]
    <3>1. i \in Nat /\ j \in Nat
      BY <1>1, <1>2, <2>1 DEF v
    <3>2. i \in DOMAIN w /\ v[i] = w[i]
      BY <1>1, <1>2, <2>1, <3>1 DEF v
    <3>3. QED
      BY <1>2, <2>1, <3>2 DEF LastOfKind
  <2>2. CASE v[j] = f
    BY <1>1, <1>2, <2>2 DEF v
  <2>3. QED
    BY <1>1, <1>2, <2>1, <2>2 DEF v
<1>3. QED
  BY <1>2 DEF LastOfKind, v

-----------------------------------------------------------------------------
(***************************************************************************)
(* The DATA frames of one direction.                                       *)
(***************************************************************************)

\* Reading any frame keeps the rest of the line as DataOn describes it.
LEMMA DataTail ==
    ASSUME NEW w \in Seq(Frame), w # << >>, NEW t, NEW last \in BOOLEAN, NEW r,
           DataOn(w, t, last, r)
    PROVE  DataOn(Tail(w), t, last, r)
BY TailFacts, OrderTail DEF DataOn

\* So does a control frame put on the line.
LEMMA DataControl ==
    ASSUME NEW w \in Seq(Frame), NEW t, NEW last \in BOOLEAN, NEW r,
           DataOn(w, t, last, r),
           NEW f \in Frame, f.kind # "data"
    PROVE  DataOn(Transmit(w, f), t, last, r)
<1> DEFINE v == Transmit(w, f)
<1>1. LastOfKind(v, "data", t)
  BY OrderTransmit DEF DataOn
<1>2. \A i \in DOMAIN v : (i \in DOMAIN w /\ v[i] = w[i]) \/ v[i] = f
  BY TransmitFacts
<1> HIDE DEF v
<1>3. DataOn(v, t, last, r)
  BY <1>1, <1>2 DEF DataOn
<1>4. QED
  BY <1>3 DEF v

\* So does one more copy of the retained frame (frame_arq_resend).
LEMMA DataResent ==
    ASSUME NEW w \in Seq(Frame), NEW t, NEW last \in BOOLEAN,
           NEW r \in Frame, r.seq = t,
           DataOn(w, t, last, r)
    PROVE  DataOn(Transmit(w, r), t, last, r)
<1> DEFINE v == Transmit(w, r)
<1>1. LastOfKind(v, "data", t)
  BY OrderTransmit DEF DataOn
<1>2. \A i \in DOMAIN v : (i \in DOMAIN w /\ v[i] = w[i]) \/ v[i] = r
  BY TransmitFacts
<1> HIDE DEF v
<1>3. DataOn(v, t, last, r)
  BY <1>1, <1>2 DEF DataOn
<1>4. QED
  BY <1>3 DEF v

\* When all is delivered, a new frame (frame_arq_put) makes what is still on
\* the line the copies of the frame before it.
LEMMA DataPut ==
    ASSUME NEW w \in Seq(Frame), NEW t \in SeqNo, NEW r,
           DataOn(w, t, FALSE, r),
           NEW f \in Frame, f.seq = Succ(t)
    PROVE  DataOn(Transmit(w, f), Succ(t), TRUE, f)
<1>1. Pred(Succ(t)) = t /\ Succ(t) # t
  BY SeqNoFacts
<1>2. \A i \in DOMAIN w : w[i].kind = "data" => w[i].seq = t
  BY DEF DataOn
<1>3. LastOfKind(w, "data", Succ(t))
  BY <1>1, <1>2 DEF LastOfKind
<1> DEFINE v == Transmit(w, f)
<1>4. LastOfKind(v, "data", Succ(t))
  BY <1>3, OrderTransmit
<1>5. \A i \in DOMAIN v : (i \in DOMAIN w /\ v[i] = w[i]) \/ v[i] = f
  BY TransmitFacts
<1> HIDE DEF v
<1>6. DataOn(v, Succ(t), TRUE, f)
  BY <1>1, <1>2, <1>4, <1>5 DEF DataOn
<1>7. QED
  BY <1>6 DEF v

\* Once the outstanding frame is read, only copies of it follow.
LEMMA DataDelivered ==
    ASSUME NEW w \in Seq(Frame), w # << >>, NEW t, NEW r,
           DataOn(w, t, TRUE, r),
           Head(w).kind = "data", Head(w).seq = t
    PROVE  DataOn(Tail(w), t, FALSE, r)
<1>1. \A i \in DOMAIN w : i > 1 /\ w[i].kind = "data" => w[i].seq = t
  BY TailFacts DEF DataOn, LastOfKind
<1>2. LastOfKind(Tail(w), "data", t)
  BY OrderTail DEF DataOn
<1>3. QED
  BY <1>1, <1>2, TailFacts DEF DataOn

-----------------------------------------------------------------------------
(***************************************************************************)
(* The ACKs of one direction.                                              *)
(***************************************************************************)

\* Reading any frame keeps the rest of the line as AckOn describes it.
LEMMA AckTail ==
    ASSUME NEW w \in Seq(Frame), w # << >>, NEW t,
           NEW all \in BOOLEAN, NEW waiting \in BOOLEAN,
           AckOn(w, t, all, waiting)
    PROVE  AckOn(Tail(w), t, all, waiting)
BY TailFacts, OrderTail DEF AckOn

\* So does any frame put on the line that is not an ACK.
LEMMA AckOther ==
    ASSUME NEW w \in Seq(Frame), NEW t,
           NEW all \in BOOLEAN, NEW waiting \in BOOLEAN,
           AckOn(w, t, all, waiting),
           NEW f \in Frame, f.kind # "ack"
    PROVE  AckOn(Transmit(w, f), t, all, waiting)
<1> DEFINE v == Transmit(w, f)
<1>1. LastOfKind(v, "ack", t)
  BY OrderTransmit DEF AckOn
<1>2. \A i \in DOMAIN v : (i \in DOMAIN w /\ v[i] = w[i]) \/ v[i] = f
  BY TransmitFacts
<1> HIDE DEF v
<1>3. AckOn(v, t, all, waiting)
  BY <1>1, <1>2 DEF AckOn
<1>4. QED
  BY <1>3 DEF v

\* When all is confirmed, a new frame makes the ACKs on the line old ones.
LEMMA AckPut ==
    ASSUME NEW w \in Seq(Frame), NEW t \in SeqNo,
           AckOn(w, t, TRUE, FALSE)
    PROVE  AckOn(w, Succ(t), FALSE, TRUE)
<1>1. Pred(Succ(t)) = t /\ Succ(t) # t
  BY SeqNoFacts
<1>2. QED
  BY <1>1 DEF AckOn, LastOfKind

\* The ACK of a frame just delivered is the first of its seq.
LEMMA AckFirst ==
    ASSUME NEW w \in Seq(Frame), NEW t \in SeqNo,
           AckOn(w, t, FALSE, TRUE)
    PROVE  AckOn(Transmit(w, Ack(t)), t, TRUE, TRUE)
<1>1. Ack(t) \in Frame /\ Ack(t).seq = t
  BY DEF Ack, Frame, ControlFrame
<1> DEFINE v == Transmit(w, Ack(t))
<1>2. LastOfKind(v, "ack", t)
  BY <1>1, OrderTransmit DEF AckOn
<1>3. \A i \in DOMAIN v : (i \in DOMAIN w /\ v[i] = w[i]) \/ v[i] = Ack(t)
  BY <1>1, TransmitFacts
<1> HIDE DEF v
<1>4. AckOn(v, t, TRUE, TRUE)
  BY <1>1, <1>2, <1>3 DEF AckOn
<1>5. QED
  BY <1>4 DEF v

\* The ACK of a duplicate repeats the ACKs that stand last on the line.
LEMMA AckAgain ==
    ASSUME NEW w \in Seq(Frame), NEW t \in SeqNo, NEW s \in SeqNo,
           NEW all \in BOOLEAN, NEW waiting \in BOOLEAN,
           AckOn(w, t, all, waiting),
           \/ all /\ s = t
           \/ ~all /\ waiting /\ s = Pred(t)
    PROVE  AckOn(Transmit(w, Ack(s)), t, all, waiting)
<1>1. Ack(s) \in Frame /\ Ack(s).seq = s
  BY DEF Ack, Frame, ControlFrame
<1>2. Pred(t) # t
  BY SeqNoFacts
<1> DEFINE v == Transmit(w, Ack(s))
<1>3. LastOfKind(v, "ack", t)
  BY <1>1, <1>2, OrderTransmit DEF AckOn
<1>4. \A i \in DOMAIN v : (i \in DOMAIN w /\ v[i] = w[i]) \/ v[i] = Ack(s)
  BY <1>1, TransmitFacts
<1> HIDE DEF v
<1>5. AckOn(v, t, all, waiting)
  BY <1>1, <1>3, <1>4 DEF AckOn
<1>6. QED
  BY <1>5 DEF v

\* Once the outstanding frame's ACK is read, only ACKs of it follow.
LEMMA AckConfirmed ==
    ASSUME NEW w \in Seq(Frame), w # << >>, NEW t \in SeqNo,
           NEW all \in BOOLEAN, NEW waiting \in BOOLEAN,
           AckOn(w, t, all, waiting),
           Head(w).kind = "ack", Head(w).seq = t
    PROVE  all /\ AckOn(Tail(w), t, TRUE, FALSE)
<1>1. Pred(t) # t
  BY SeqNoFacts
<1>2. all
  BY <1>1, TailFacts DEF AckOn
<1>3. \A i \in DOMAIN w : i > 1 /\ w[i].kind = "ack" => w[i].seq = t
  BY TailFacts DEF AckOn, LastOfKind
<1>4. LastOfKind(Tail(w), "ack", t)
  BY OrderTail DEF AckOn
<1>5. QED
  BY <1>2, <1>3, <1>4, TailFacts DEF AckOn

-----------------------------------------------------------------------------
(***************************************************************************)
(* Types.                                                                  *)
(***************************************************************************)

\* What reading a frame does to the two lines.
LEMMA ReceiveFacts ==
    ASSUME TypeOK, NEW e \in End, wire[e] # << >>,
           NEW w \in Seq(Frame), Receive(e, w)
    PROVE  /\ wire' \in [End -> Seq(Frame)]
           /\ wire'[e] = Tail(wire[e])
           /\ wire'[Peer(e)] = w
           /\ Head(wire[e]) \in Frame
BY PeerFacts, TailFacts DEF Receive, TypeOK

\* What putting a frame on the line to e's peer does to the two lines.
LEMMA SendFacts ==
    ASSUME TypeOK, NEW e \in End, NEW f \in Frame,
           wire' = [wire EXCEPT ![Peer(e)] = Transmit(@, f)]
    PROVE  /\ wire' \in [End -> Seq(Frame)]
           /\ wire'[e] = wire[e]
           /\ wire'[Peer(e)] = Transmit(wire[Peer(e)], f)
BY PeerFacts, TransmitFacts DEF TypeOK

\* Frames of the three kinds.
LEMMA FrameFacts ==
    /\ \A s \in SeqNo : /\ Ack(s) \in Frame /\ Ack(s).kind = "ack" /\ Ack(s).seq = s
                        /\ Nack(s) \in Frame /\ Nack(s).kind = "nack"
    /\ \A s \in SeqNo, m \in Payload :
          LET d == Data(s, m) IN
          d \in DataFrame /\ d \in Frame /\ d.kind = "data" /\ d.seq = s /\ d.msg = m
    /\ \A f \in DataFrame : f \in Frame /\ f.kind = "data"
    /\ \A f \in Frame : f.kind = "data" => f \in DataFrame /\ f.msg \in Payload
    /\ \A f \in Frame : f.seq \in SeqNo
    /\ NoFrame \notin DataFrame
BY DEF Ack, Nack, Data, Frame, DataFrame, ControlFrame, NoFrame

\* What an answer puts on the line to the peer.
LEMMA ReplyFacts ==
    ASSUME TypeOK, NEW e \in End, wire[e] # << >>,
           NEW f \in Frame, Reply(e, f)
    PROVE  /\ wire' \in [End -> Seq(Frame)]
           /\ wire'[e] = Tail(wire[e])
           /\ wire'[Peer(e)] = Transmit(wire[Peer(e)], f)
           /\ Head(wire[e]) \in Frame
<1>1. wire[Peer(e)] \in Seq(Frame)
  BY PeerFacts DEF TypeOK
<1>2. Transmit(wire[Peer(e)], f) \in Seq(Frame)
  BY <1>1, TransmitFacts
<1>3. QED
  BY <1>2, ReceiveFacts DEF Reply

\* Each step keeps the types.
LEMMA TypeStep ==
    ASSUME TypeOK, [Next]_vars
    PROVE  TypeOK'
<1> USE PeerFacts, FrameFacts DEF TypeOK, HeadIs
<1>1. ASSUME NEW e \in End, NEW m \in Payload, Put(e, m)
      PROVE  TypeOK'
  <2>1. Succ(tx_seq[e]) \in SeqNo
    BY SeqNoFacts
  <2>2. wire' \in [End -> Seq(Frame)]
    BY <1>1, <2>1, SendFacts DEF Put
  <2>3. QED
    BY <1>1, <2>1, <2>2 DEF Put
<1>2. ASSUME NEW e \in End, Resend(e)
      PROVE  TypeOK'
  <2>1. retain[e] \in Frame
    BY <1>2 DEF Resend
  <2>2. wire' \in [End -> Seq(Frame)]
    BY <1>2, <2>1, SendFacts DEF Resend
  <2>3. QED
    BY <1>2, <2>2 DEF Resend
<1>3. ASSUME NEW e \in End, GetAck(e)
      PROVE  TypeOK'
  <2>1. wire' \in [End -> Seq(Frame)]
    BY <1>3, ReceiveFacts DEF GetAck, Frees
  <2>2. QED
    BY <1>3, <2>1 DEF GetAck, Frees
<1>4. ASSUME NEW e \in End, GetNack(e)
      PROVE  TypeOK'
  <2>1. wire' \in [End -> Seq(Frame)]
    BY <1>4, ReceiveFacts DEF GetNack
  <2>2. QED
    BY <1>4, <2>1 DEF GetNack
<1>5. ASSUME NEW e \in End, GetData(e)
      PROVE  TypeOK'
  <2>1. Head(wire[e]) \in Frame
    BY <1>5, TailFacts DEF GetData, IsNew
  <2>2. wire' \in [End -> Seq(Frame)]
    BY <1>5, <2>1, ReplyFacts DEF GetData, IsNew
  <2>3. Succ(Head(wire[e]).seq) \in SeqNo
    BY <2>1, SeqNoFacts
  <2>4. Head(wire[e]).msg \in Payload
    BY <1>5, <2>1 DEF GetData, IsNew
  <2>5. expected_rx_seq' \in [End -> SeqNo] /\ got' \in [End -> Seq(Payload)]
    BY <1>5, <2>3, <2>4 DEF GetData, IsNew
  <2>6. QED
    BY <1>5, <2>2, <2>5 DEF GetData, IsNew
<1>6. ASSUME NEW e \in End, GetDuplicate(e)
      PROVE  TypeOK'
  <2>1. Head(wire[e]) \in Frame
    BY <1>6, TailFacts DEF GetDuplicate, IsNew, IsRepeat
  <2>2. wire' \in [End -> Seq(Frame)]
    BY <1>6, <2>1, ReplyFacts DEF GetDuplicate, IsNew, IsRepeat
  <2>3. QED
    BY <1>6, <2>2 DEF GetDuplicate, IsNew, IsRepeat, arqVars
<1>7. ASSUME NEW e \in End, GetUnexpected(e) \/ GetCrcError(e)
      PROVE  TypeOK'
  <2>1. wire' \in [End -> Seq(Frame)]
    BY <1>7, ReplyFacts DEF GetUnexpected, GetCrcError
  <2>2. QED
    BY <1>7, <2>1 DEF GetUnexpected, GetCrcError, arqVars
<1>8. ASSUME NEW e \in End, GetNoise(e)
      PROVE  TypeOK'
  <2>1. wire' = [wire EXCEPT ![Peer(e)] = Transmit(@, Nack(expected_rx_seq[e]))]
    BY <1>8 DEF GetNoise
  <2>2. Nack(expected_rx_seq[e]) \in Frame /\ Peer(e) \in End
    BY <1>8, FrameFacts, PeerFacts DEF TypeOK
  <2>3. wire' \in [End -> Seq(Frame)]
    BY <2>1, <2>2, SendFacts
  <2>4. QED
    BY <1>8, <2>3 DEF GetNoise, arqVars
<1>9. ASSUME NEW e \in End, Lose(e)
      PROVE  TypeOK'
  <2>1. wire' \in [End -> Seq(Frame)]
    BY <1>9, ReceiveFacts DEF Lose
  <2>2. QED
    BY <1>9, <2>1 DEF Lose, arqVars
<1>10. CASE UNCHANGED vars
  BY <1>10 DEF vars, arqVars
<1>11. QED
  BY <1>1, <1>2, <1>3, <1>4, <1>5, <1>6, <1>7, <1>8, <1>9, <1>10 DEF Next, Get

-----------------------------------------------------------------------------
(***************************************************************************)
(* The steps.                                                              *)
(***************************************************************************)

\* "Delivered" and "outstanding" exclude each other: the seq tells.
LEMMA Exclusive ==
    ASSUME TypeOK, NEW e \in End, Sender(e)
    PROVE  /\ AllDelivered(e) <=> ~LastOutstanding(e)
           /\ LastOutstanding(e) => awaiting_ack[e]
           /\ AllDelivered(e) \in BOOLEAN /\ LastOutstanding(e) \in BOOLEAN
<1>1. tx_seq[e] \in SeqNo
  BY DEF TypeOK
<1>2. Succ(tx_seq[e]) # tx_seq[e]
  BY <1>1, SeqNoFacts
<1>3. QED
  BY <1>2 DEF Sender, AllDelivered, LastOutstanding

\* A line survives the loss of its head, and any frame that is no DATA frame
\* and no ACK put on it.
LEMMA LineTail ==
    ASSUME TypeOK, NEW e \in End, wire[e] # << >>, LineTo(e, wire[e])
    PROVE  LineTo(e, Tail(wire[e]))
<1>1. wire[e] \in Seq(Frame) /\ awaiting_ack[e] \in BOOLEAN
  BY DEF TypeOK
<1>2. LastOutstanding(Peer(e)) \in BOOLEAN /\ AllDelivered(e) \in BOOLEAN
  BY DEF LastOutstanding, AllDelivered
<1>3. DataOn(Tail(wire[e]), tx_seq[Peer(e)], LastOutstanding(Peer(e)), retain[Peer(e)])
  BY <1>1, <1>2, DataTail DEF LineTo
<1>4. AckOn(Tail(wire[e]), tx_seq[e], AllDelivered(e), awaiting_ack[e])
  BY <1>1, <1>2, AckTail DEF LineTo
<1>5. QED
  BY <1>3, <1>4 DEF LineTo

LEMMA LineNack ==
    ASSUME TypeOK, NEW e \in End, LineTo(e, wire[e]), NEW s \in SeqNo
    PROVE  LineTo(e, Transmit(wire[e], Nack(s)))
<1>1. wire[e] \in Seq(Frame) /\ awaiting_ack[e] \in BOOLEAN
  BY DEF TypeOK
<1>2. LastOutstanding(Peer(e)) \in BOOLEAN /\ AllDelivered(e) \in BOOLEAN
  BY DEF LastOutstanding, AllDelivered
<1>3. Nack(s) \in Frame /\ Nack(s).kind # "data" /\ Nack(s).kind # "ack"
  BY FrameFacts
<1>4. DataOn(Transmit(wire[e], Nack(s)), tx_seq[Peer(e)],
             LastOutstanding(Peer(e)), retain[Peer(e)])
  BY <1>1, <1>2, <1>3, DataControl DEF LineTo
<1>5. AckOn(Transmit(wire[e], Nack(s)), tx_seq[e], AllDelivered(e), awaiting_ack[e])
  BY <1>1, <1>2, <1>3, AckOther DEF LineTo
<1>6. QED
  BY <1>4, <1>5 DEF LineTo

\* A step that changes no more than the lines and resend_needed.
LEMMA LineStep ==
    ASSUME IInv, TypeOK',
           UNCHANGED <<tx_seq, expected_rx_seq, awaiting_ack, retain, sent, got>>,
           \A e \in End : resend_needed'[e] => awaiting_ack[e],
           \A e \in End : LineTo(e, wire'[e])
    PROVE  IInv'
<1>1. \A e \in End : (AllDelivered(e)' <=> AllDelivered(e))
                  /\ (LastOutstanding(e)' <=> LastOutstanding(e))
  BY DEF AllDelivered, LastOutstanding
<1>2. ASSUME NEW e \in End
      PROVE  Sender(e)'
  BY <1>1 DEF Sender, IInv
<1>3. ASSUME NEW e \in End
      PROVE  LineTo(e, wire[e])'
  <2>1. LineTo(e, wire'[e])
    OBVIOUS
  <2>2. LastOutstanding(Peer(e))' = LastOutstanding(Peer(e))
    BY DEF LastOutstanding
  <2>3. AllDelivered(e)' = AllDelivered(e)
    BY DEF AllDelivered
  <2>4. QED
    BY <2>1, <2>2, <2>3 DEF LineTo
<1>4. QED
  BY <1>2, <1>3 DEF IInv

\* frame_arq_get reading a NACK, or losing the frame.
LEMMA TailStep ==
    ASSUME IInv, TypeOK', NEW e \in End, GetNack(e) \/ Lose(e)
    PROVE  IInv'
<1>1. TypeOK /\ wire[e] # << >> /\ Receive(e, wire[Peer(e)]) /\ Peer(e) \in End
  BY PeerFacts DEF IInv, GetNack, Lose, HeadIs
<1>2. wire[Peer(e)] \in Seq(Frame)
  BY <1>1 DEF TypeOK
<1>3. wire'[e] = Tail(wire[e]) /\ wire'[Peer(e)] = wire[Peer(e)]
  BY <1>1, <1>2, ReceiveFacts
<1>4. \A d \in End : LineTo(d, wire'[d])
  BY <1>1, <1>3, LineTail, PeerFacts DEF IInv
<1>5. \A d \in End : resend_needed'[d] => awaiting_ack[d]
  BY <1>1 DEF IInv, TypeOK, Sender, GetNack, Lose, arqVars
<1>6. UNCHANGED <<tx_seq, expected_rx_seq, awaiting_ack, retain, sent, got>>
  BY DEF GetNack, Lose, arqVars
<1>7. QED
  BY <1>4, <1>5, <1>6, LineStep

\* frame_arq_get answering a damaged frame, or noise, with a NACK.
LEMMA NackStep ==
    ASSUME IInv, TypeOK', NEW e \in End, GetCrcError(e) \/ GetNoise(e) \/ GetUnexpected(e)
    PROVE  IInv'
<1> DEFINE n == Nack(expected_rx_seq[e])
<1>1. /\ TypeOK /\ Peer(e) \in End /\ expected_rx_seq[e] \in SeqNo
      /\ wire[e] \in Seq(Frame)
      /\ n \in Frame
  BY PeerFacts, FrameFacts DEF IInv, TypeOK
<1>2. \/ wire[e] # << >> /\ wire'[e] = Tail(wire[e])
      \/ wire'[e] = wire[e]
  <2>1. CASE GetNoise(e)
    BY <1>1, <2>1, SendFacts DEF GetNoise
  <2>2. CASE GetCrcError(e) \/ GetUnexpected(e)
    BY <1>1, <2>2, ReplyFacts DEF GetCrcError, GetUnexpected, HeadIs
  <2>3. QED
    BY <2>1, <2>2
<1>3. wire'[Peer(e)] = Transmit(wire[Peer(e)], n)
  <2>1. CASE GetNoise(e)
    BY <1>1, <2>1, SendFacts DEF GetNoise
  <2>2. CASE GetCrcError(e) \/ GetUnexpected(e)
    BY <1>1, <2>2, ReplyFacts DEF GetCrcError, GetUnexpected, HeadIs
  <2>3. QED
    BY <2>1, <2>2
<1>4. LineTo(Peer(e), wire'[Peer(e)])
  BY <1>1, <1>3, LineNack DEF IInv
<1>5. LineTo(e, wire'[e])
  BY <1>1, <1>2, LineTail DEF IInv
<1>6. \A d \in End : LineTo(d, wire'[d])
  BY <1>4, <1>5, PeerFacts
<1>7. UNCHANGED <<arqVars, sent, got>>
  BY DEF GetCrcError, GetNoise, GetUnexpected
<1>8. \A d \in End : resend_needed'[d] => awaiting_ack[d]
  BY <1>7 DEF IInv, Sender, arqVars
<1>9. QED
  BY <1>6, <1>7, <1>8, LineStep DEF arqVars

\* frame_arq_resend.
LEMMA ResendStep ==
    ASSUME IInv, TypeOK', NEW e \in End, Resend(e)
    PROVE  IInv'
<1> DEFINE p == Peer(e)
<1>1. /\ TypeOK /\ p \in End /\ Peer(p) = e /\ wire[p] \in Seq(Frame)
      /\ retain[e] \in DataFrame /\ retain[e] \in Frame
      /\ awaiting_ack[p] \in BOOLEAN
      /\ retain[e].seq = tx_seq[e] /\ retain[e].kind = "data"
  BY PeerFacts, FrameFacts DEF IInv, TypeOK, Resend, Sender
<1>2. wire'[e] = wire[e] /\ wire'[p] = Transmit(wire[p], retain[e])
  BY <1>1, SendFacts DEF Resend
<1>3. LastOutstanding(e) \in BOOLEAN /\ AllDelivered(p) \in BOOLEAN
  BY DEF LastOutstanding, AllDelivered
<1>4. LineTo(p, wire[p])
  BY <1>1 DEF IInv
<1>5. DataOn(wire'[p], tx_seq[e], LastOutstanding(e), retain[e])
  BY <1>1, <1>2, <1>3, <1>4, DataResent DEF LineTo
<1>6. AckOn(wire'[p], tx_seq[p], AllDelivered(p), awaiting_ack[p])
  BY <1>1, <1>2, <1>3, <1>4, AckOther DEF LineTo
<1>7. LineTo(p, wire'[p])
  BY <1>1, <1>5, <1>6 DEF LineTo
<1>8. \A d \in End : LineTo(d, wire'[d])
  BY <1>2, <1>7, PeerFacts DEF IInv
<1>9. \A d \in End : resend_needed'[d] => awaiting_ack[d]
  BY <1>1 DEF IInv, TypeOK, Sender, Resend
<1>10. UNCHANGED <<tx_seq, expected_rx_seq, awaiting_ack, retain, sent, got>>
  BY DEF Resend
<1>11. QED
  BY <1>8, <1>9, <1>10, LineStep

\* frame_arq_get reading again the frame it delivered last.
LEMMA DuplicateStep ==
    ASSUME IInv, TypeOK', NEW e \in End, GetDuplicate(e)
    PROVE  IInv'
<1> DEFINE p == Peer(e)
<1> DEFINE f == Head(wire[e])
<1>1. /\ TypeOK /\ p \in End /\ Peer(p) = e
      /\ wire[p] \in Seq(Frame) /\ wire[e] \in Seq(Frame) /\ wire[e] # << >>
      /\ awaiting_ack[p] \in BOOLEAN
      /\ tx_seq[p] \in SeqNo /\ expected_rx_seq[e] \in SeqNo
  BY PeerFacts DEF IInv, TypeOK, GetDuplicate, IsNew, IsRepeat, HeadIs
<1>2. /\ f \in Frame /\ f = wire[e][1] /\ 1 \in DOMAIN wire[e]
      /\ f.seq \in SeqNo /\ f.kind = "data"
      /\ f.seq = Pred(expected_rx_seq[e]) /\ f.seq # expected_rx_seq[e]
  BY <1>1, TailFacts, FrameFacts DEF GetDuplicate, IsNew, IsRepeat, HeadIs
<1>3. Ack(f.seq) \in Frame /\ Ack(f.seq).kind # "data"
  BY <1>2, FrameFacts
<1>4. wire'[e] = Tail(wire[e]) /\ wire'[p] = Transmit(wire[p], Ack(f.seq))
  BY <1>1, <1>3, ReplyFacts DEF GetDuplicate, IsNew, IsRepeat
<1>5. LineTo(e, wire'[e])
  BY <1>1, <1>4, LineTail DEF IInv
<1>6. LineTo(p, wire[p]) /\ Sender(p)
  BY <1>1 DEF IInv
<1>7. \/ AllDelivered(p) /\ f.seq = tx_seq[p]
      \/ ~AllDelivered(p) /\ awaiting_ack[p] /\ f.seq = Pred(tx_seq[p])
  <2>1. AllDelivered(p) => f.seq = tx_seq[p]
    BY <1>1, <1>2, SeqNoFacts DEF AllDelivered
  <2>2. ~AllDelivered(p) => awaiting_ack[p] /\ f.seq = Pred(tx_seq[p])
    BY <1>1, <1>2, <1>6 DEF LastOutstanding, Sender
  <2>3. QED
    BY <2>1, <2>2
<1>8. LastOutstanding(e) \in BOOLEAN /\ AllDelivered(p) \in BOOLEAN
  BY DEF LastOutstanding, AllDelivered
<1>9. AckOn(wire'[p], tx_seq[p], AllDelivered(p), awaiting_ack[p])
  BY <1>1, <1>2, <1>4, <1>6, <1>7, <1>8, AckAgain DEF LineTo
<1>10. DataOn(wire'[p], tx_seq[e], LastOutstanding(e), retain[e])
  BY <1>1, <1>3, <1>4, <1>6, <1>8, DataControl DEF LineTo
<1>11. LineTo(p, wire'[p])
  BY <1>1, <1>9, <1>10 DEF LineTo
<1>12. \A d \in End : LineTo(d, wire'[d])
  BY <1>5, <1>11, PeerFacts
<1>13. UNCHANGED <<arqVars, sent, got>>
  BY DEF GetDuplicate, IsNew, IsRepeat
<1>14. \A d \in End : resend_needed'[d] => awaiting_ack[d]
  BY <1>13 DEF IInv, Sender, arqVars
<1>15. QED
  BY <1>12, <1>13, <1>14, LineStep DEF arqVars

\* The invariant of both ends, from that of one end and of the other.
LEMMA BothEnds ==
    ASSUME TypeOK', NEW e \in End,
           Sender(e)', Sender(Peer(e))',
           LineTo(e, wire[e])', LineTo(Peer(e), wire[Peer(e)])'
    PROVE  IInv'
BY PeerFacts DEF IInv

\* frame_arq_put.
LEMMA PutStep ==
    ASSUME IInv, TypeOK', NEW e \in End, NEW m \in Payload, Put(e, m)
    PROVE  IInv'
<1> DEFINE p == Peer(e)
<1> DEFINE f == Data(Succ(tx_seq[e]), m)
<1>1. /\ TypeOK /\ p \in End /\ Peer(p) = e /\ p # e
      /\ tx_seq[e] \in SeqNo
      /\ wire[p] \in Seq(Frame) /\ wire[e] \in Seq(Frame)
      /\ awaiting_ack[p] \in BOOLEAN
      /\ awaiting_ack[e] = FALSE
  BY PeerFacts DEF IInv, TypeOK, Put
<1>2. /\ Succ(tx_seq[e]) \in SeqNo
      /\ Succ(Succ(tx_seq[e])) # Succ(tx_seq[e])
  BY <1>1, SeqNoFacts
<1>3. f \in DataFrame /\ f \in Frame /\ f.kind = "data"
      /\ f.seq = Succ(tx_seq[e]) /\ f.msg = m /\ f # NoFrame
  BY <1>2, FrameFacts
<1>4. Sender(e) /\ Sender(p) /\ LineTo(e, wire[e]) /\ LineTo(p, wire[p])
  BY <1>1 DEF IInv
<1>5. AllDelivered(e) /\ ~LastOutstanding(e)
  BY <1>1, <1>4 DEF Sender, LastOutstanding
<1>6. /\ tx_seq'[e] = Succ(tx_seq[e]) /\ tx_seq'[p] = tx_seq[p]
      /\ retain'[e] = f /\ retain'[p] = retain[p]
      /\ awaiting_ack'[e] = TRUE /\ awaiting_ack'[p] = awaiting_ack[p]
      /\ resend_needed'[e] = FALSE /\ resend_needed'[p] = resend_needed[p]
      /\ sent'[e] = Append(sent[e], m) /\ sent'[p] = sent[p]
      /\ UNCHANGED <<expected_rx_seq, got>>
  <2>1. tx_seq' = [tx_seq EXCEPT ![e] = Succ(tx_seq[e])]
    BY <1>3 DEF Put
  <2>2. retain' = [retain EXCEPT ![e] = f]
    BY DEF Put
  <2>3. QED
    BY <1>1, <2>1, <2>2 DEF Put, TypeOK
<1>7. wire'[e] = wire[e] /\ wire'[p] = Transmit(wire[p], f)
  BY <1>1, <1>3, SendFacts DEF Put
<1>8. LastOutstanding(e)' /\ ~AllDelivered(e)'
  BY <1>2, <1>3, <1>5, <1>6 DEF AllDelivered, LastOutstanding
<1>9. /\ AllDelivered(p)' = AllDelivered(p)
      /\ LastOutstanding(p)' = LastOutstanding(p)
  BY <1>1, <1>6 DEF AllDelivered, LastOutstanding
<1>10. Sender(e)' /\ Sender(p)'
  BY <1>3, <1>4, <1>6, <1>8, <1>9 DEF Sender
<1>11. LastOutstanding(p) \in BOOLEAN /\ AllDelivered(p) \in BOOLEAN
  BY DEF LastOutstanding, AllDelivered
<1>12. LineTo(p, wire[p])'
  <2>1. DataOn(wire[p], tx_seq[e], FALSE, retain[e])
    BY <1>1, <1>4, <1>5 DEF LineTo, DataOn
  <2>2. DataOn(wire'[p], tx_seq'[e], LastOutstanding(e)', retain'[e])
    <3>1. DataOn(wire'[p], Succ(tx_seq[e]), TRUE, f)
      BY <1>1, <1>3, <1>7, <2>1, DataPut
    <3>2. QED
      BY <1>6, <1>8, <3>1 DEF DataOn
  <2>3. AckOn(wire'[p], tx_seq[p], AllDelivered(p), awaiting_ack[p])
    BY <1>1, <1>3, <1>4, <1>7, <1>11, AckOther DEF LineTo
  <2>4. QED
    BY <1>1, <1>6, <1>9, <2>2, <2>3 DEF LineTo
<1>13. LineTo(e, wire[e])'
  <2>1. AckOn(wire[e], tx_seq[e], TRUE, FALSE)
    BY <1>1, <1>4, <1>5 DEF LineTo, AckOn
  <2>2. AckOn(wire'[e], tx_seq'[e], AllDelivered(e)', awaiting_ack'[e])
    <3>1. AckOn(wire'[e], Succ(tx_seq[e]), FALSE, TRUE)
      BY <1>1, <1>7, <2>1, AckPut
    <3>2. QED
      BY <1>6, <1>8, <3>1 DEF AckOn
  <2>3. DataOn(wire'[e], tx_seq'[p], LastOutstanding(p)', retain'[p])
    BY <1>4, <1>6, <1>7, <1>9 DEF LineTo
  <2>4. QED
    BY <2>2, <2>3 DEF LineTo
<1>14. QED
  BY <1>10, <1>12, <1>13, BothEnds

\* frame_arq_get reading an ACK.
LEMMA AckStep ==
    ASSUME IInv, TypeOK', NEW e \in End, GetAck(e)
    PROVE  IInv'
<1> DEFINE p == Peer(e)
<1> DEFINE done == awaiting_ack[e] /\ Head(wire[e]).seq = tx_seq[e]
<1>1. /\ TypeOK /\ p \in End /\ Peer(p) = e /\ p # e
      /\ tx_seq[e] \in SeqNo
      /\ wire[e] \in Seq(Frame) /\ wire[e] # << >> /\ wire[p] \in Seq(Frame)
      /\ Head(wire[e]).kind = "ack"
      /\ awaiting_ack[e] \in BOOLEAN
  BY PeerFacts DEF IInv, TypeOK, GetAck, Frees, HeadIs
<1>2. wire'[e] = Tail(wire[e]) /\ wire'[p] = wire[p]
  BY <1>1, ReceiveFacts DEF GetAck, Frees
<1>3. Sender(e) /\ Sender(p) /\ LineTo(e, wire[e]) /\ LineTo(p, wire[p])
  BY <1>1 DEF IInv
<1>4. LineTo(e, wire'[e])
  BY <1>1, <1>2, <1>3, LineTail
<1>5. CASE ~done
  <2>1. UNCHANGED <<awaiting_ack, resend_needed>>
    BY <1>1, <1>5 DEF GetAck, Frees, TypeOK
  <2>2. \A d \in End : LineTo(d, wire'[d])
    BY <1>2, <1>3, <1>4, PeerFacts
  <2>3. \A d \in End : resend_needed'[d] => awaiting_ack[d]
    BY <2>1 DEF IInv, Sender
  <2>4. UNCHANGED <<tx_seq, expected_rx_seq, awaiting_ack, retain, sent, got>>
    BY <2>1 DEF GetAck, Frees
  <2>5. QED
    BY <2>2, <2>3, <2>4, LineStep
<1>6. CASE done
  <2>1. /\ awaiting_ack'[e] = FALSE /\ awaiting_ack'[p] = awaiting_ack[p]
        /\ resend_needed'[e] = FALSE /\ resend_needed'[p] = resend_needed[p]
        /\ UNCHANGED <<tx_seq, expected_rx_seq, retain, sent, got>>
    BY <1>1, <1>6 DEF GetAck, Frees, TypeOK
  <2>2. AllDelivered(e) \in BOOLEAN
    BY DEF AllDelivered
  <2>3. AllDelivered(e) /\ AckOn(wire'[e], tx_seq[e], TRUE, FALSE)
    BY <1>1, <1>2, <1>3, <1>6, <2>2, AckConfirmed DEF LineTo
  <2>4. AllDelivered(e)' /\ ~LastOutstanding(e)' /\ ~LastOutstanding(e)
    BY <1>1, <1>3, <2>1, <2>3, Exclusive DEF AllDelivered, LastOutstanding
  <2>5. /\ AllDelivered(p)' = AllDelivered(p)
        /\ LastOutstanding(p)' = LastOutstanding(p)
    BY <1>1, <2>1 DEF AllDelivered, LastOutstanding
  <2>6. Sender(e)' /\ Sender(p)'
    BY <1>3, <2>1, <2>4, <2>5 DEF Sender
  <2>7. LineTo(e, wire[e])'
    <3>1. AckOn(wire'[e], tx_seq'[e], AllDelivered(e)', awaiting_ack'[e])
      BY <2>1, <2>3, <2>4 DEF AckOn
    <3>2. DataOn(wire'[e], tx_seq'[p], LastOutstanding(p)', retain'[p])
      BY <1>4, <2>1, <2>5 DEF LineTo
    <3>3. QED
      BY <3>1, <3>2 DEF LineTo
  <2>8. LineTo(p, wire[p])'
    <3>1. DataOn(wire'[p], tx_seq'[e], LastOutstanding(e)', retain'[e])
      BY <1>1, <1>2, <1>3, <2>1, <2>4 DEF LineTo, DataOn
    <3>2. AckOn(wire'[p], tx_seq'[p], AllDelivered(p)', awaiting_ack'[p])
      BY <1>2, <1>3, <2>1, <2>5 DEF LineTo
    <3>3. QED
      BY <1>1, <3>1, <3>2 DEF LineTo
  <2>9. QED
    BY <2>6, <2>7, <2>8, BothEnds
<1>7. QED
  BY <1>5, <1>6

\* frame_arq_get reading the DATA frame it expects.
LEMMA DataStep ==
    ASSUME IInv, TypeOK', NEW e \in End, GetData(e)
    PROVE  IInv'
<1> DEFINE p == Peer(e)
<1> DEFINE f == Head(wire[e])
<1> DEFINE t == tx_seq[p]
<1>1. /\ TypeOK /\ p \in End /\ Peer(p) = e /\ p # e
      /\ wire[p] \in Seq(Frame) /\ wire[e] \in Seq(Frame) /\ wire[e] # << >>
      /\ awaiting_ack[e] \in BOOLEAN
      /\ t \in SeqNo
      /\ f.kind = "data" /\ f.seq = expected_rx_seq[e]
  BY PeerFacts DEF IInv, TypeOK, GetData, IsNew, HeadIs
<1>2. f \in Frame /\ f = wire[e][1] /\ 1 \in DOMAIN wire[e]
  BY <1>1, TailFacts
<1>3. Sender(e) /\ Sender(p) /\ LineTo(e, wire[e]) /\ LineTo(p, wire[p])
  BY <1>1 DEF IInv
<1>4. DataOn(wire[e], t, LastOutstanding(p), retain[p])
  BY <1>3 DEF LineTo
<1>5. LastOutstanding(p) /\ ~AllDelivered(p) /\ awaiting_ack[p] = TRUE
  <2>1. ~AllDelivered(p)
    <3>1. AllDelivered(p) => f.seq = Succ(t) /\ ~LastOutstanding(p)
      BY <1>1, <1>3, Exclusive DEF AllDelivered
    <3>2. ~LastOutstanding(p) => f.seq = t
      BY <1>1, <1>2, <1>4 DEF DataOn
    <3>3. Succ(t) # t
      BY <1>1, SeqNoFacts
    <3>4. QED
      BY <3>1, <3>2, <3>3
  <2>2. QED
    BY <1>1, <1>3, <2>1 DEF Sender, LastOutstanding, TypeOK
<1>6. f.seq = t /\ f = retain[p]
  <2>1. f.seq = t /\ Pred(t) # t
    BY <1>1, <1>5, SeqNoFacts DEF LastOutstanding
  <2>2. QED
    BY <1>1, <1>2, <1>4, <1>5, <2>1 DEF DataOn
<1>7. /\ Ack(t) \in Frame /\ Ack(t).kind # "data"
  BY <1>1, FrameFacts
<1>8. wire'[e] = Tail(wire[e]) /\ wire'[p] = Transmit(wire[p], Ack(t))
  BY <1>1, <1>6, <1>7, ReplyFacts DEF GetData, IsNew
<1>9. /\ UNCHANGED <<tx_seq, awaiting_ack, resend_needed, retain, sent>>
      /\ expected_rx_seq'[e] = Succ(t) /\ expected_rx_seq'[p] = expected_rx_seq[p]
      /\ got'[e] = sent[p] /\ got'[p] = got[p]
  BY <1>1, <1>5, <1>6 DEF GetData, IsNew, TypeOK, LastOutstanding
<1>10. AllDelivered(p)' /\ ~LastOutstanding(p)'
  <2>1. AllDelivered(p)'
    BY <1>1, <1>9 DEF AllDelivered
  <2>2. Succ(t) # t
    BY <1>1, SeqNoFacts
  <2>3. QED
    BY <1>1, <1>9, <2>1, <2>2 DEF LastOutstanding
<1>11. /\ AllDelivered(e)' = AllDelivered(e)
       /\ LastOutstanding(e)' = LastOutstanding(e)
       /\ AllDelivered(e) \in BOOLEAN /\ LastOutstanding(e) \in BOOLEAN
  BY <1>9 DEF AllDelivered, LastOutstanding
<1>12. Sender(e)' /\ Sender(p)'
  BY <1>3, <1>9, <1>10, <1>11 DEF Sender
<1>13. LineTo(e, wire[e])'
  <2>1. DataOn(wire'[e], t, FALSE, retain[p])
    <3>1. DataOn(wire[e], t, TRUE, retain[p])
      BY <1>4, <1>5 DEF DataOn
    <3>2. QED
      BY <1>1, <1>6, <1>8, <3>1, DataDelivered
  <2>2. DataOn(wire'[e], tx_seq'[p], LastOutstanding(p)', retain'[p])
    BY <1>9, <1>10, <2>1 DEF DataOn
  <2>3. AckOn(wire'[e], tx_seq[e], AllDelivered(e), awaiting_ack[e])
    BY <1>1, <1>3, <1>8, <1>11, AckTail DEF LineTo
  <2>4. AckOn(wire'[e], tx_seq'[e], AllDelivered(e)', awaiting_ack'[e])
    BY <1>9, <1>11, <2>3
  <2>5. QED
    BY <2>2, <2>4 DEF LineTo
<1>14. LineTo(p, wire[p])'
  <2>1. AckOn(wire'[p], t, TRUE, TRUE)
    <3>1. AckOn(wire[p], t, FALSE, TRUE)
      BY <1>3, <1>5 DEF LineTo, AckOn
    <3>2. QED
      BY <1>1, <1>8, <3>1, AckFirst
  <2>2. AckOn(wire'[p], tx_seq'[p], AllDelivered(p)', awaiting_ack'[p])
    BY <1>5, <1>9, <1>10, <2>1 DEF AckOn
  <2>3. DataOn(wire'[p], tx_seq[e], LastOutstanding(e), retain[e])
    BY <1>1, <1>3, <1>7, <1>8, <1>11, DataControl DEF LineTo
  <2>4. DataOn(wire'[p], tx_seq'[e], LastOutstanding(e)', retain'[e])
    BY <1>9, <1>11, <2>3
  <2>5. QED
    BY <1>1, <2>2, <2>4 DEF LineTo
<1>15. QED
  BY <1>12, <1>13, <1>14, BothEnds

-----------------------------------------------------------------------------
(***************************************************************************)
(* The theorems.                                                           *)
(***************************************************************************)

\* The fresh objects of frame_arq_create satisfy the invariant.
LEMMA InvInit ==
    ASSUME Init
    PROVE  IInv
<1>1. TxSeqStart \in SeqNo /\ 0 \in SeqNo
  BY SeqModAssumption DEF SeqNo, TxSeqStart
<1>2. Succ(TxSeqStart) = 0
  BY SeqModAssumption DEF Succ, TxSeqStart
<1>3. TypeOK
  BY <1>1 DEF Init, TypeOK
<1>4. ASSUME NEW e \in End
      PROVE  Sender(e) /\ LineTo(e, wire[e])
  <2>1. AllDelivered(e)
    BY <1>2, PeerFacts DEF Init, AllDelivered
  <2>2. Sender(e)
    BY <2>1 DEF Init, Sender
  <2>3. wire[e] = << >> /\ DOMAIN wire[e] = {}
    BY DEF Init
  <2>4. LineTo(e, wire[e])
    BY <2>3 DEF LineTo, DataOn, AckOn, LastOfKind
  <2>5. QED
    BY <2>2, <2>4
<1>5. QED
  BY <1>3, <1>4 DEF IInv

\* Each call of the library, and each accident of the line, keeps it.
LEMMA InvStep ==
    ASSUME IInv, [Next]_vars
    PROVE  IInv'
<1>1. TypeOK'
  BY TypeStep DEF IInv
<1>2. CASE Next
  BY <1>1, <1>2, PutStep, ResendStep, AckStep, TailStep, DataStep,
     DuplicateStep, NackStep DEF Next, Get
<1>3. CASE UNCHANGED vars
  <2>1. /\ UNCHANGED <<tx_seq, expected_rx_seq, awaiting_ack, retain, sent, got>>
        /\ UNCHANGED <<resend_needed, wire>>
    BY <1>3 DEF vars, arqVars
  <2>2. QED
    BY <1>1, <2>1, LineStep DEF IInv, Sender
<1>4. QED
  BY <1>2, <1>3

\* The inductive invariant holds of every reachable state.
THEOREM Invariance == Spec => []IInv
<1>1. Init => IInv
  BY InvInit
<1>2. IInv /\ [Next]_vars => IInv'
  BY InvStep
<1>3. QED
  BY <1>1, <1>2, PTL DEF Spec

\* Type correctness of the two frame_arq_t objects and of the line.
THEOREM TypeCorrectness == Spec => []TypeOK
<1>1. IInv => TypeOK
  BY DEF IInv
<1>2. QED
  BY <1>1, Invariance, PTL

\* frame_arq_get hands over what the peer put, in order, each exactly once:
\* whatever is lost, damaged or repeated, and for two sequence numbers or more.
THEOREM ExactlyOnce == Spec => []ExactlyOnceInOrder
<1>1. IInv => ExactlyOnceInOrder
  BY DEF IInv, Sender, ExactlyOnceInOrder
<1>2. QED
  BY <1>1, Invariance, PTL

\* frame_arq_resend always has the outstanding frame to resend.
THEOREM Retention == Spec => []RetainedWhileAwaiting
<1>1. IInv => RetainedWhileAwaiting
  BY DEF IInv, Sender, RetainedWhileAwaiting
<1>2. QED
  BY <1>1, Invariance, PTL

\* No DATA frame on the line is older than the one before the outstanding one.
THEOREM DataCurrency == Spec => []DataIsCurrent
<1>1. IInv => DataIsCurrent
  BY PeerFacts DEF IInv, LineTo, DataIsCurrent
<1>2. QED
  BY <1>1, Invariance, PTL

\* No ACK that would free the sender is on the line before the delivery.
THEOREM AckHonesty == Spec => []AckIsHonest
<1>1. IInv => AckIsHonest
  BY DEF IInv, LineTo, AckIsHonest
<1>2. QED
  BY <1>1, Invariance, PTL

-----------------------------------------------------------------------------
(***************************************************************************)
(* Each step of the protocol, seen from the two users of one direction.    *)
(***************************************************************************)

\* An ACK that frees the sender confirms a delivered frame.
LEMMA FreedWhenDelivered ==
    ASSUME IInv, NEW e \in End, GetAck(e), awaiting_ack[e],
           Head(wire[e]).seq = tx_seq[e]
    PROVE  AllDelivered(e)
<1>1. /\ wire[e] \in Seq(Frame) /\ wire[e] # << >>
      /\ Head(wire[e]).kind = "ack"
      /\ tx_seq[e] \in SeqNo /\ awaiting_ack[e] \in BOOLEAN
  BY DEF IInv, TypeOK, GetAck, Frees, HeadIs
<1>2. AckOn(wire[e], tx_seq[e], AllDelivered(e), awaiting_ack[e])
  BY DEF IInv, LineTo
<1>3. AllDelivered(e) \in BOOLEAN
  BY DEF AllDelivered
<1>4. QED
  BY <1>1, <1>2, <1>3, AckConfirmed

\* A frame read as expected is the one the peer holds outstanding.
LEMMA ReadIsOutstanding ==
    ASSUME IInv, NEW e \in End, GetData(e)
    PROVE  /\ LastOutstanding(Peer(e))
           /\ Head(wire[e]) = retain[Peer(e)]
<1> DEFINE p == Peer(e)
<1> DEFINE f == Head(wire[e])
<1>1. /\ TypeOK /\ p \in End /\ Peer(p) = e
      /\ wire[e] \in Seq(Frame) /\ wire[e] # << >>
      /\ tx_seq[p] \in SeqNo
      /\ f.kind = "data" /\ f.seq = expected_rx_seq[e]
      /\ Sender(p)
  BY PeerFacts DEF IInv, TypeOK, GetData, IsNew, HeadIs
<1>2. f = wire[e][1] /\ 1 \in DOMAIN wire[e]
  BY <1>1, TailFacts
<1>3. DataOn(wire[e], tx_seq[p], LastOutstanding(p), retain[p])
  BY DEF IInv, LineTo
<1>4. Succ(tx_seq[p]) # tx_seq[p] /\ Pred(tx_seq[p]) # tx_seq[p]
  BY <1>1, SeqNoFacts
<1>5. LastOutstanding(p)
  <2>1. ~LastOutstanding(p) => f.seq = tx_seq[p]
    BY <1>1, <1>2, <1>3 DEF DataOn
  <2>2. ~LastOutstanding(p) => f.seq = Succ(tx_seq[p])
    BY <1>1 DEF Sender, AllDelivered
  <2>3. QED
    BY <1>4, <2>1, <2>2
<1>6. f.seq = tx_seq[p]
  BY <1>1, <1>5 DEF LastOutstanding
<1>7. QED
  BY <1>1, <1>2, <1>3, <1>4, <1>5, <1>6 DEF DataOn

\* What a step does to the messages and the outstanding flag of one direction.
LEMMA LinkStep ==
    ASSUME IInv, [Next]_vars, NEW e \in End, NEW p \in End, p = Peer(e)
    PROVE  \/ /\ ~awaiting_ack[e]
              /\ \E m \in Payload : sent'[e] = Append(sent[e], m)
              /\ awaiting_ack'[e] = TRUE
              /\ got'[p] = got[p]
           \/ /\ LastOutstanding(e)
              /\ got'[p] = sent[e]
              /\ sent'[e] = sent[e] /\ awaiting_ack'[e] = awaiting_ack[e]
              /\ tx_seq'[e] = tx_seq[e] /\ retain'[e] = retain[e]
           \/ /\ awaiting_ack[e] /\ got[p] = sent[e] /\ ~LastOutstanding(e)
              /\ awaiting_ack'[e] = FALSE
              /\ sent'[e] = sent[e] /\ got'[p] = got[p]
           \/ /\ sent'[e] = sent[e] /\ got'[p] = got[p]
              /\ awaiting_ack'[e] = awaiting_ack[e]
              /\ tx_seq'[e] = tx_seq[e] /\ retain'[e] = retain[e]
<1>1. TypeOK /\ p # e /\ Peer(p) = e /\ End = {e, p}
  BY PeerFacts DEF IInv
<1>2. ASSUME NEW d \in End, NEW m \in Payload, Put(d, m)
      PROVE  \/ /\ d = e /\ ~awaiting_ack[e] /\ sent'[e] = Append(sent[e], m)
                /\ awaiting_ack'[e] = TRUE /\ got'[p] = got[p]
             \/ /\ sent'[e] = sent[e] /\ got'[p] = got[p]
                /\ awaiting_ack'[e] = awaiting_ack[e]
                /\ tx_seq'[e] = tx_seq[e] /\ retain'[e] = retain[e]
  BY <1>1, <1>2 DEF Put, TypeOK
<1>3. ASSUME NEW d \in End, GetAck(d)
      PROVE  \/ /\ awaiting_ack[e] /\ got[p] = sent[e] /\ ~LastOutstanding(e)
                /\ awaiting_ack'[e] = FALSE
                /\ sent'[e] = sent[e] /\ got'[p] = got[p]
             \/ /\ sent'[e] = sent[e] /\ got'[p] = got[p]
                /\ awaiting_ack'[e] = awaiting_ack[e]
                /\ tx_seq'[e] = tx_seq[e] /\ retain'[e] = retain[e]
  <2>1. CASE d = e /\ awaiting_ack[e] /\ Head(wire[e]).seq = tx_seq[e]
    <3>1. AllDelivered(e)
      BY <1>3, <2>1, FreedWhenDelivered
    <3>2. ~LastOutstanding(e)
      BY <1>1, <3>1, Exclusive DEF IInv
    <3>3. QED
      BY <1>1, <1>3, <2>1, <3>1, <3>2 DEF GetAck, Frees, TypeOK, AllDelivered
  <2>2. CASE ~(d = e /\ awaiting_ack[e] /\ Head(wire[e]).seq = tx_seq[e])
    BY <1>1, <1>3, <2>2 DEF GetAck, Frees, TypeOK
  <2>3. QED
    BY <2>1, <2>2
<1>4. ASSUME NEW d \in End, GetData(d)
      PROVE  \/ /\ LastOutstanding(e)
                /\ got'[p] = sent[e]
                /\ sent'[e] = sent[e] /\ awaiting_ack'[e] = awaiting_ack[e]
                /\ tx_seq'[e] = tx_seq[e] /\ retain'[e] = retain[e]
             \/ /\ sent'[e] = sent[e] /\ got'[p] = got[p]
                /\ awaiting_ack'[e] = awaiting_ack[e]
                /\ tx_seq'[e] = tx_seq[e] /\ retain'[e] = retain[e]
  <2>1. UNCHANGED <<sent, awaiting_ack, tx_seq, retain>>
    BY <1>4 DEF GetData, IsNew
  <2>2. CASE d = p
    <3>1. LastOutstanding(e) /\ Head(wire[p]) = retain[e]
      BY <1>1, <1>4, <2>2, ReadIsOutstanding
    <3>2. got'[p] = sent[e]
      BY <1>1, <1>4, <2>2, <3>1 DEF GetData, IsNew, TypeOK, LastOutstanding
    <3>3. QED
      BY <2>1, <3>1, <3>2
  <2>3. CASE d = e
    BY <1>1, <1>4, <2>1, <2>3 DEF GetData, IsNew, TypeOK
  <2>4. QED
    BY <1>1, <2>2, <2>3
<1>5. ASSUME NEW d \in End,
             \/ Resend(d) \/ GetNack(d) \/ GetDuplicate(d) \/ GetUnexpected(d)
             \/ GetCrcError(d) \/ GetNoise(d) \/ Lose(d)
      PROVE  UNCHANGED <<sent, got, awaiting_ack, tx_seq, retain>>
  BY <1>5 DEF Resend, GetNack, GetDuplicate, IsNew, IsRepeat, GetUnexpected, GetCrcError,
              GetNoise, Lose, arqVars
<1>6. CASE UNCHANGED vars
  BY <1>6 DEF vars, arqVars
<1>7. QED
  BY <1>2, <1>3, <1>4, <1>5, <1>6 DEF Next, Get

\* "The library never abandons a frame or advances the sequence number on its
\* own" (README.md): only the delivery ends a frame's being outstanding.
THEOREM NoAbandonment == Spec => NeverAbandons
<1>1. ASSUME IInv, [Next]_vars, NEW e \in End, LastOutstanding(e)
      PROVE  UNCHANGED <<tx_seq[e], retain[e]>> /\ awaiting_ack'[e]
  BY <1>1, LinkStep, PeerFacts DEF LastOutstanding
<1>2. IInv /\ [Next]_vars =>
        [\A e \in End : LastOutstanding(e) =>
            /\ UNCHANGED <<tx_seq[e], retain[e]>>
            /\ awaiting_ack'[e]]_vars
  BY <1>1
<1>3. QED
  BY <1>2, Invariance, PTL DEF Spec, NeverAbandons

\* The frame outstanding is the next message of the abstract link.
LEMMA NextMessage ==
    ASSUME IInv, NEW e \in End, LastOutstanding(e)
    PROVE  LET g == got[Peer(e)] IN
           Len(g) < Len(sent[e]) /\ sent[e] = Append(g, sent[e][Len(g) + 1])
<1>1. got[Peer(e)] \in Seq(Payload) /\ retain[e].msg \in Payload
  BY PeerFacts, FrameFacts DEF IInv, TypeOK, Sender, LastOutstanding
<1>2. sent[e] = Append(got[Peer(e)], retain[e].msg)
  BY DEF LastOutstanding
<1>3. QED
  BY <1>1, <1>2

\* Each direction of the protocol implements the abstract link: what is put is
\* delivered once, in order, and confirmed to its sender only after that.
THEOREM Refinement == Spec => LinkImplemented
<1>1. A \in End /\ B \in End /\ Peer(A) = B /\ Peer(B) = A
  BY EndAssumption DEF End, Peer
<1>2. Init => FromA!Init /\ FromB!Init
  BY <1>1 DEF Init, FromA!Init, FromB!Init
<1>3. ASSUME IInv, [Next]_vars
      PROVE  [FromA!Next]_FromA!vars
  <2>1. CASE LastOutstanding(A) /\ got'[B] = sent[A]
             /\ sent'[A] = sent[A] /\ awaiting_ack'[A] = awaiting_ack[A]
    BY <1>1, <1>3, <2>1, NextMessage DEF FromA!Next, FromA!Deliver
  <2>2. CASE ~(LastOutstanding(A) /\ got'[B] = sent[A]
               /\ sent'[A] = sent[A] /\ awaiting_ack'[A] = awaiting_ack[A])
    BY <1>1, <1>3, <2>2, LinkStep
       DEF FromA!Next, FromA!Accept, FromA!Confirm, FromA!vars
  <2>3. QED
    BY <2>1, <2>2
<1>4. ASSUME IInv, [Next]_vars
      PROVE  [FromB!Next]_FromB!vars
  <2>1. CASE LastOutstanding(B) /\ got'[A] = sent[B]
             /\ sent'[B] = sent[B] /\ awaiting_ack'[B] = awaiting_ack[B]
    BY <1>1, <1>4, <2>1, NextMessage DEF FromB!Next, FromB!Deliver
  <2>2. CASE ~(LastOutstanding(B) /\ got'[A] = sent[B]
               /\ sent'[B] = sent[B] /\ awaiting_ack'[B] = awaiting_ack[B])
    BY <1>1, <1>4, <2>2, LinkStep
       DEF FromB!Next, FromB!Accept, FromB!Confirm, FromB!vars
  <2>3. QED
    BY <2>1, <2>2
<1>5. QED
  BY <1>2, <1>3, <1>4, Invariance, PTL
     DEF Spec, LinkImplemented, FromA!Spec, FromB!Spec

-----------------------------------------------------------------------------
(***************************************************************************)
(* Resets, any number of them.                                             *)
(*                                                                         *)
(* Aligned is, with the types, the inductive invariant of FrameArq: that    *)
(* every call keeps it does not depend on how it came about, so it holds    *)
(* from a common reset on as it does from the start.                       *)
(***************************************************************************)


\* Aligned is IInv without the types.
LEMMA AlignedIsIInv ==
    ASSUME TypeOK
    PROVE  Aligned <=> IInv
<1>1. ASSUME Aligned PROVE IInv
  <2>1. ASSUME NEW e \in End PROVE Sender(e) /\ LineTo(e, wire[e])
    <3>1. Sender(e)
      BY <1>1, <2>1 DEF Aligned, ExactlyOnceInOrder, RetainedWhileAwaiting, Sender
    <3>2. Peer(e) \in End /\ Peer(Peer(e)) = e
      BY <2>1, PeerFacts
    <3>3. DataOn(wire[e], tx_seq[Peer(e)], LastOutstanding(Peer(e)), retain[Peer(e)])
      BY <1>1, <3>2 DEF Aligned, DataIsCurrent
    <3>4. AckOn(wire[e], tx_seq[e], AllDelivered(e), awaiting_ack[e])
      BY <1>1, <2>1 DEF Aligned, AckIsHonest
    <3>5. QED
      BY <3>1, <3>3, <3>4 DEF LineTo
  <2>2. QED
    BY <2>1 DEF IInv
<1>2. ASSUME IInv PROVE Aligned
  BY <1>2, PeerFacts
     DEF IInv, Sender, LineTo, Aligned, ExactlyOnceInOrder, RetainedWhileAwaiting,
         DataIsCurrent, AckIsHonest
<1>3. QED
  BY <1>1, <1>2

\* A reset of any ends leaves a state of the right types.
LEMMA ResetTypes ==
    ASSUME TypeOK, NEW S \in SUBSET End, Reset(S), sent' \in [End -> Seq(Payload)]
    PROVE  TypeOK'
<1>1. TxSeqStart \in SeqNo /\ 0 \in SeqNo
  BY SeqModAssumption DEF SeqNo, TxSeqStart
<1>2. << >> \in Seq(Payload)
  OBVIOUS
<1>3. QED
  BY <1>1, <1>2 DEF TypeOK, Reset, At

\* Types are kept by every step, a reset or not.
LEMMA ResetTypeStep ==
    ASSUME TypeOK, [ResetNext]_vars
    PROVE  TypeOK'
<1>1. CASE [Next]_vars
  BY <1>1, TypeStep
<1>2. CASE ResetOne
  <2>1. PICK e \in End : Reset({e})
    BY <1>2 DEF ResetOne
  <2>2. sent' \in [End -> Seq(Payload)]
    BY <1>2 DEF ResetOne, TypeOK
  <2>3. QED
    BY <2>1, <2>2, ResetTypes
<1>3. CASE ResetBoth
  <2>1. sent' \in [End -> Seq(Payload)]
    BY <1>3 DEF ResetBoth, At
  <2>2. QED
    BY <1>3, <2>1, ResetTypes DEF ResetBoth
<1>4. QED
  BY <1>1, <1>2, <1>3 DEF ResetNext

\* After a common reset the two ends are as frame_arq_create leaves them.
LEMMA BothIsInit ==
    ASSUME TypeOK, ResetBoth
    PROVE  Init'
BY DEF ResetBoth, Reset, At, Init, TypeOK

\* A fresh link is aligned.
LEMMA InitAligned ==
    ASSUME Init
    PROVE  TypeOK /\ Aligned
<1>1. IInv
  BY InvInit
<1>2. TypeOK
  BY <1>1 DEF IInv
<1>3. QED
  BY <1>1, <1>2, AlignedIsIInv

-----------------------------------------------------------------------------
\* Type correctness, whatever is reset and when.
THEOREM ResetTypeCorrectness == ResetSpec => []TypeOK
<1>1. Init => TypeOK
  BY InitAligned
<1>2. TypeOK /\ [ResetNext]_vars => TypeOK'
  BY ResetTypeStep
<1>3. QED
  BY <1>1, <1>2, PTL DEF ResetSpec

\* The ends that are aligned, or reset together, stay aligned until one of them
\* is reset alone.
THEOREM Realignment == ResetSpec => ResetRealigns
<1>1. Init => Aligned
  BY InitAligned
<1>2. Init' => Aligned'
  BY <1>1, PTL
<1>3. TypeOK => (Aligned <=> IInv)
  BY AlignedIsIInv
<1>4. TypeOK' => (Aligned' <=> IInv')
  BY <1>3, PTL
<1>5. ASSUME TypeOK, TypeOK', [ResetNext]_vars
      PROVE  [(Aligned \/ ResetBoth) /\ ~ResetOne => Aligned']_vars
  <2>1. CASE ResetBoth
    BY <1>2, <1>5, <2>1, BothIsInit
  <2>2. CASE Next /\ Aligned
    <3>1. IInv
      BY <1>3, <1>5, <2>2
    <3>2. IInv'
      BY <2>2, <3>1, InvStep
    <3>3. QED
      BY <1>4, <1>5, <3>2
  <2>3. QED
    BY <1>5, <2>1, <2>2 DEF ResetNext
<1>6. QED
  BY <1>5, ResetTypeCorrectness, PTL DEF ResetSpec, ResetRealigns

-----------------------------------------------------------------------------
\* What an end sends or reads leaves the outstanding frame of each end with its
\* copy, and so does a reset, which leaves none outstanding.
LEMMA RetainedStep ==
    ASSUME TypeOK, RetainedWhileAwaiting, [ResetNext]_vars
    PROVE  RetainedWhileAwaiting'
<1> USE DEF RetainedWhileAwaiting, TypeOK
<1>1. ASSUME NEW e \in End, NEW m \in Payload, Put(e, m)
      PROVE  RetainedWhileAwaiting'
  BY <1>1 DEF Put, Data, NoFrame
<1>2. ASSUME NEW e \in End, Resend(e)
      PROVE  RetainedWhileAwaiting'
  BY <1>2 DEF Resend
<1>3. ASSUME NEW e \in End, GetAck(e)
      PROVE  RetainedWhileAwaiting'
  BY <1>3 DEF GetAck
<1>4. ASSUME NEW e \in End, GetNack(e)
      PROVE  RetainedWhileAwaiting'
  BY <1>4 DEF GetNack
<1>5. ASSUME NEW e \in End,
             \/ GetData(e) \/ GetDuplicate(e) \/ GetUnexpected(e)
             \/ GetCrcError(e) \/ GetNoise(e) \/ Lose(e)
      PROVE  RetainedWhileAwaiting'
  BY <1>5 DEF GetData, GetDuplicate, GetUnexpected, GetCrcError, GetNoise, Lose, arqVars
<1>6. ASSUME NEW S \in SUBSET End, Reset(S)
      PROVE  RetainedWhileAwaiting'
  BY <1>6 DEF Reset, At
<1>7. CASE UNCHANGED vars
  BY <1>7 DEF vars, arqVars
<1>8. QED
  BY <1>1, <1>2, <1>3, <1>4, <1>5, <1>6, <1>7
     DEF ResetNext, Next, Get, ResetOne, ResetBoth

\* frame_arq_resend has the outstanding frame to resend, whatever is reset.
THEOREM ResetRetention == ResetSpec => []RetainedWhileAwaiting
<1>1. Init => RetainedWhileAwaiting
  BY InitAligned DEF Aligned
<1>2. TypeOK /\ RetainedWhileAwaiting /\ [ResetNext]_vars => RetainedWhileAwaiting'
  BY RetainedStep
<1>3. QED
  BY <1>1, <1>2, ResetTypeCorrectness, PTL DEF ResetSpec

-----------------------------------------------------------------------------
(***************************************************************************)
(* Order within a session, of messages that are numbered.                  *)
(***************************************************************************)

\* One direction: w is the line, n the number of the message sent last, r the frame
\* retained, g what the receiver was given in its session, x the seq it expects.  The
\* frames on the line are in the order of their messages, those of one message have
\* one seq, and if the message given last comes again, that seq is not expected.
Flow(w, n, r, g, x) ==
    /\ n \in Nat
    /\ r # NoFrame => r.msg = n /\ n >= 1
    /\ \A i \in DOMAIN w : w[i].kind = "data" =>
          w[i].msg \in 1 .. n /\ (r # NoFrame /\ w[i].msg = n => w[i].seq = r.seq)
    /\ \A i, j \in DOMAIN w : i < j /\ w[i].kind = "data" /\ w[j].kind = "data" =>
          w[i].msg <= w[j].msg /\ (w[i].msg = w[j].msg => w[i].seq = w[j].seq)
    /\ \A j \in DOMAIN g : g[j] \in 1 .. n /\ \A i \in 1 .. j - 1 : g[i] < g[j]
    /\ g # << >> =>
          /\ \A i \in DOMAIN w : w[i].kind = "data" =>
                g[Len(g)] <= w[i].msg /\ (w[i].msg = g[Len(g)] => w[i].seq = Pred(x))
          /\ r # NoFrame /\ g[Len(g)] = n => r.seq = Pred(x)

FlowFrom(e) ==
    Flow(wire[Peer(e)], Len(sent[e]), retain[e], got[Peer(e)], expected_rx_seq[Peer(e)])

\* The head is taken, or lost.
LEMMA FlowTail ==
    ASSUME NEW w \in Seq(Frame), w # << >>, NEW n, NEW r, NEW g, NEW x, Flow(w, n, r, g, x)
    PROVE  Flow(Tail(w), n, r, g, x)
<1>1. \A i \in DOMAIN Tail(w) :
         i \in Nat /\ i >= 1 /\ i + 1 \in DOMAIN w /\ Tail(w)[i] = w[i + 1]
  BY TailFacts
<1>2. ASSUME NEW i \in DOMAIN Tail(w), NEW j \in DOMAIN Tail(w), i < j,
             Tail(w)[i].kind = "data", Tail(w)[j].kind = "data"
      PROVE  /\ Tail(w)[i].msg <= Tail(w)[j].msg
             /\ Tail(w)[i].msg = Tail(w)[j].msg => Tail(w)[i].seq = Tail(w)[j].seq
  <2>1. /\ i + 1 \in DOMAIN w /\ j + 1 \in DOMAIN w /\ i + 1 < j + 1
        /\ Tail(w)[i] = w[i + 1] /\ Tail(w)[j] = w[j + 1]
    BY <1>1, <1>2
  <2>2. QED
    BY <1>2, <2>1 DEF Flow
<1>3. QED
  BY <1>1, <1>2 DEF Flow

\* A control frame is sent.
LEMMA FlowControl ==
    ASSUME NEW w \in Seq(Frame), NEW f \in Frame, f.kind # "data",
           NEW n, NEW r, NEW g, NEW x, Flow(w, n, r, g, x)
    PROVE  Flow(Transmit(w, f), n, r, g, x)
<1> DEFINE v == Transmit(w, f)
<1>1. \A i \in DOMAIN v : v[i].kind = "data" => i \in DOMAIN w /\ v[i] = w[i]
  <2>1. \A i \in DOMAIN v : (i \in DOMAIN w /\ v[i] = w[i]) \/ v[i] = f
    BY TransmitFacts
  <2> HIDE DEF v
  <2>2. QED
    BY <2>1
<1> HIDE DEF v
<1>2. Flow(v, n, r, g, x)
  BY <1>1 DEF Flow
<1>3. QED
  BY <1>2 DEF v

\* The frame that is retained is sent, for the first time or again.
LEMMA FlowSent ==
    ASSUME NEW w \in Seq(Frame), NEW r \in DataFrame, NEW n, NEW g \in Seq(Payload), NEW x,
           Flow(w, n, r, g, x)
    PROVE  Flow(Transmit(w, r), n, r, g, x)
<1> DEFINE v == Transmit(w, r)
<1>1. r \in Frame /\ r # NoFrame /\ r.kind = "data" /\ r.msg = n /\ n \in Nat /\ n >= 1
  BY FrameFacts DEF Flow
<1>2. /\ DOMAIN w \subseteq Nat
      /\ \A i \in DOMAIN v : \/ i \in DOMAIN w /\ v[i] = w[i]
                             \/ v[i] = r /\ i \in Nat /\ \A j \in DOMAIN w : j < i
  BY <1>1, TransmitFacts
<1> HIDE DEF v
<1>3. ASSUME NEW i \in DOMAIN v, v[i].kind = "data"
      PROVE  v[i].msg \in 1 .. n /\ (v[i].msg = n => v[i].seq = r.seq)
  <2>1. CASE i \in DOMAIN w /\ v[i] = w[i]
    BY <1>1, <1>3, <2>1 DEF Flow
  <2>2. CASE v[i] = r
    BY <1>1, <2>2
  <2>3. QED
    BY <1>2, <2>1, <2>2
<1>4. ASSUME NEW i \in DOMAIN v, NEW j \in DOMAIN v, i < j,
             v[i].kind = "data", v[j].kind = "data"
      PROVE  v[i].msg <= v[j].msg /\ (v[i].msg = v[j].msg => v[i].seq = v[j].seq)
  <2>1. CASE v[j] = r
    BY <1>1, <1>3, <1>4, <2>1
  <2>2. CASE v[j] # r
    <3>1. j \in DOMAIN w /\ v[j] = w[j]
      BY <1>2, <2>2
    <3>2. i \in DOMAIN w /\ v[i] = w[i]
      BY <1>2, <1>4, <3>1
    <3>3. QED
      BY <1>4, <3>1, <3>2 DEF Flow
  <2>3. QED
    BY <2>1, <2>2
<1>5. ASSUME g # << >>, NEW i \in DOMAIN v, v[i].kind = "data"
      PROVE  g[Len(g)] <= v[i].msg /\ (v[i].msg = g[Len(g)] => v[i].seq = Pred(x))
  <2>1. g[Len(g)] \in 1 .. n
    <3>1. Len(g) \in DOMAIN g
      BY <1>5
    <3>2. QED
      BY <3>1 DEF Flow
  <2>2. CASE i \in DOMAIN w /\ v[i] = w[i]
    BY <1>5, <2>2 DEF Flow
  <2>3. CASE v[i] = r
    BY <1>1, <1>5, <2>1, <2>3 DEF Flow
  <2>4. QED
    BY <1>2, <2>2, <2>3
<1>6. Flow(v, n, r, g, x)
  BY <1>1, <1>3, <1>4, <1>5 DEF Flow
<1>7. QED
  BY <1>6 DEF v

\* A new message is retained.
LEMMA FlowPut ==
    ASSUME NEW w \in Seq(Frame), NEW r, NEW f \in DataFrame, NEW n, NEW g \in Seq(Payload),
           NEW x, Flow(w, n, r, g, x), f.msg = n + 1
    PROVE  Flow(w, n + 1, f, g, x)
<1>1. n \in Nat /\ n + 1 \in Nat /\ n + 1 >= 1
  BY DEF Flow
<1>2. \A i \in DOMAIN w : w[i].kind = "data" => w[i].msg \in 1 .. n + 1 /\ w[i].msg # n + 1
  BY <1>1 DEF Flow
<1>3. \A j \in DOMAIN g : g[j] \in 1 .. n + 1 /\ g[j] # n + 1
  BY <1>1 DEF Flow
<1>4. g # << >> => g[Len(g)] # n + 1
  BY <1>3
<1>5. QED
  BY <1>1, <1>2, <1>3, <1>4 DEF Flow

\* The frame expected is delivered: its message is a later one than the last.
LEMMA FlowDelivered ==
    ASSUME NEW w \in Seq(Frame), w # << >>, NEW n, NEW r, NEW g \in Seq(Payload),
           NEW x \in SeqNo, Flow(w, n, r, g, x), Head(w).kind = "data", Head(w).seq = x
    PROVE  Flow(Tail(w), n, r, Append(g, Head(w).msg), Succ(x))
<1> DEFINE m == Head(w).msg
           h == Append(g, m)
<1>1. /\ 1 \in DOMAIN w /\ Head(w) = w[1] /\ m \in Payload
      /\ \A i \in DOMAIN Tail(w) :
            i \in Nat /\ i >= 1 /\ i + 1 \in DOMAIN w /\ Tail(w)[i] = w[i + 1]
  BY TailFacts, FrameFacts
<1>2. n \in Nat /\ m \in 1 .. n
  BY <1>1 DEF Flow
<1>3. Pred(Succ(x)) = x /\ Pred(x) # x
  BY SeqNoFacts
<1>4. /\ Len(g) \in Nat /\ DOMAIN g = 1 .. Len(g) /\ DOMAIN h = 1 .. Len(g) + 1
      /\ h[Len(g) + 1] = m /\ \A j \in DOMAIN g : h[j] = g[j]
      /\ h # << >> /\ Len(h) = Len(g) + 1 /\ (g = << >> => Len(g) = 0)
  BY <1>1
<1>5. g # << >> => g[Len(g)] < m
  <2>1. SUFFICES ASSUME g # << >>
                 PROVE  g[Len(g)] < m
    OBVIOUS
  <2>2. Len(g) \in DOMAIN g
    BY <1>4, <2>1
  <2>3. g[Len(g)] \in 1 .. n
    BY <2>2 DEF Flow
  <2>4. g[Len(g)] <= m /\ (m = g[Len(g)] => x = Pred(x))
    BY <1>1, <2>1 DEF Flow
  <2>5. QED
    BY <1>2, <1>3, <2>3, <2>4
<1>6. \A j \in DOMAIN g : g[j] \in 1 .. n /\ \A i \in 1 .. j - 1 : g[i] < g[j]
  BY DEF Flow
<1>7. \A j \in DOMAIN g : g[j] < m
  <2>1. SUFFICES ASSUME NEW j \in DOMAIN g
                 PROVE  g[j] < m
    OBVIOUS
  <2>2. g # << >> /\ Len(g) \in DOMAIN g /\ j \in 1 .. Len(g)
    BY <1>4
  <2>3. g[j] \in 1 .. n /\ g[Len(g)] \in 1 .. n /\ (j # Len(g) => g[j] < g[Len(g)])
    BY <1>4, <1>6, <2>2
  <2>4. QED
    BY <1>2, <1>5, <2>2, <2>3
<1>8. \A j \in DOMAIN h : h[j] \in 1 .. n /\ \A i \in 1 .. j - 1 : h[i] < h[j]
  <2>1. SUFFICES ASSUME NEW j \in DOMAIN h
                 PROVE  h[j] \in 1 .. n /\ \A i \in 1 .. j - 1 : h[i] < h[j]
    OBVIOUS
  <2>2. CASE j \in DOMAIN g
    <3>1. \A i \in 1 .. j - 1 : i \in DOMAIN g
      BY <1>4, <2>2
    <3>2. QED
      BY <1>4, <1>6, <2>2, <3>1
  <2>3. CASE j = Len(g) + 1
    <3>1. \A i \in 1 .. j - 1 : i \in DOMAIN g
      BY <1>4, <2>3
    <3>2. QED
      BY <1>2, <1>4, <1>7, <2>3, <3>1
  <2>4. QED
    BY <1>4, <2>1, <2>2, <2>3
<1>9. \A i \in DOMAIN Tail(w) : Tail(w)[i].kind = "data" =>
          m <= Tail(w)[i].msg /\ (Tail(w)[i].msg = m => Tail(w)[i].seq = x)
  <2>1. SUFFICES ASSUME NEW i \in DOMAIN Tail(w), Tail(w)[i].kind = "data"
                 PROVE  m <= Tail(w)[i].msg /\ (Tail(w)[i].msg = m => Tail(w)[i].seq = x)
    OBVIOUS
  <2>2. i + 1 \in DOMAIN w /\ 1 < i + 1 /\ w[i + 1] = Tail(w)[i] /\ w[1].kind = "data"
    BY <1>1, <2>1
  <2>3. w[1].msg <= w[i + 1].msg /\ (w[1].msg = w[i + 1].msg => w[1].seq = w[i + 1].seq)
    BY <1>1, <2>1, <2>2 DEF Flow
  <2>4. QED
    BY <1>1, <2>2, <2>3
<1>10. r # NoFrame /\ m = n => r.seq = x
  BY <1>1 DEF Flow
<1>11. Flow(Tail(w), n, r, g, x)
  BY FlowTail
<1> HIDE DEF h, m
<1>12. Flow(Tail(w), n, r, h, Succ(x))
  BY <1>3, <1>4, <1>8, <1>9, <1>10, <1>11 DEF Flow
<1>13. QED
  BY <1>12 DEF h, m

\* The two directions are from e and from its peer.
LEMMA BothFlows ==
    ASSUME NEW e \in End, FlowFrom(e)', FlowFrom(Peer(e))'
    PROVE  \A d \in End : FlowFrom(d)'
<1>1. End = {e, Peer(e)}
  BY PeerFacts
<1>2. QED
  BY <1>1

\* What e receives, if it answers at all, it answers with a control frame.
LEMMA FlowRead ==
    ASSUME TypeOK, TypeOK', \A d \in End : FlowFrom(d), NEW e \in End,
           \/ wire[e] # << >> /\ Receive(e, wire[Peer(e)])
           \/ /\ wire[e] # << >>
              /\ \E f \in Frame : f.kind # "data" /\ Reply(e, f)
           \/ \E f \in Frame : /\ f.kind # "data"
                               /\ wire' = [wire EXCEPT ![Peer(e)] = Transmit(@, f)],
           UNCHANGED <<expected_rx_seq, retain, sent, got>>
    PROVE  \A d \in End : FlowFrom(d)'
<1> DEFINE p == Peer(e)
<1>1. /\ p \in End /\ p # e /\ Peer(p) = e
      /\ wire[e] \in Seq(Frame) /\ wire[p] \in Seq(Frame)
  BY PeerFacts DEF TypeOK
<1>2. /\ Flow(wire[p], Len(sent[e]), retain[e], got[p], expected_rx_seq[p])
      /\ Flow(wire[e], Len(sent[p]), retain[p], got[e], expected_rx_seq[e])
  BY <1>1 DEF FlowFrom
<1>3. /\ \/ wire'[e] = wire[e]
         \/ wire[e] # << >> /\ wire'[e] = Tail(wire[e])
      /\ \/ wire'[p] = wire[p]
         \/ \E f \in Frame : f.kind # "data" /\ wire'[p] = Transmit(wire[p], f)
  <2>1. CASE wire[e] # << >> /\ Receive(e, wire[p])
    BY <1>1, <2>1, ReceiveFacts
  <2>2. ASSUME wire[e] # << >>, NEW f \in Frame, f.kind # "data", Reply(e, f)
        PROVE  wire'[e] = Tail(wire[e]) /\ wire'[p] = Transmit(wire[p], f)
    BY <2>2, ReplyFacts
  <2>3. ASSUME NEW f \in Frame, wire' = [wire EXCEPT ![p] = Transmit(@, f)]
        PROVE  wire'[e] = wire[e] /\ wire'[p] = Transmit(wire[p], f)
    BY <2>3, SendFacts
  <2>4. QED
    BY <2>1, <2>2, <2>3
<1>4. Flow(wire'[e], Len(sent[p]), retain[p], got[e], expected_rx_seq[e])
  BY <1>1, <1>2, <1>3, FlowTail
<1>5. Flow(wire'[p], Len(sent[e]), retain[e], got[p], expected_rx_seq[p])
  BY <1>1, <1>2, <1>3, FlowControl
<1>6. FlowFrom(e)'
  BY <1>5 DEF FlowFrom
<1>7. FlowFrom(p)'
  BY <1>1, <1>4 DEF FlowFrom
<1>8. QED
  BY <1>6, <1>7, BothFlows

\* A new message has the next number.
LEMMA FlowPutStep ==
    ASSUME TypeOK, \A d \in End : FlowFrom(d), Numbered',
           NEW e \in End, NEW m \in Payload, Put(e, m)
    PROVE  \A d \in End : FlowFrom(d)'
<1> DEFINE p == Peer(e)
           f == Data(Succ(tx_seq[e]), m)
<1>1. /\ p \in End /\ p # e /\ Peer(p) = e
      /\ wire[p] \in Seq(Frame) /\ got[p] \in Seq(Payload) /\ sent[e] \in Seq(Payload)
  BY PeerFacts DEF TypeOK
<1>2. f \in DataFrame /\ f \in Frame /\ f.msg = m
  BY SeqNoFacts, FrameFacts DEF TypeOK
<1> HIDE DEF f
<1>3. /\ wire' = [wire EXCEPT ![p] = Transmit(@, f)]
      /\ retain' = [retain EXCEPT ![e] = f] /\ sent' = [sent EXCEPT ![e] = Append(@, m)]
      /\ UNCHANGED <<expected_rx_seq, got>>
  BY DEF Put, f
<1>4. wire'[e] = wire[e] /\ wire'[p] = Transmit(wire[p], f)
  BY <1>2, <1>3, SendFacts
<1>5. /\ retain'[e] = f /\ retain'[p] = retain[p]
      /\ sent'[e] = Append(sent[e], m) /\ sent'[p] = sent[p]
  BY <1>1, <1>3 DEF TypeOK
<1>6. Len(sent'[e]) = Len(sent[e]) + 1 /\ m = Len(sent[e]) + 1
  <2>1. /\ Len(sent'[e]) = Len(sent[e]) + 1 /\ Len(sent[e]) + 1 \in DOMAIN sent'[e]
        /\ sent'[e][Len(sent[e]) + 1] = m
    BY <1>1, <1>5
  <2>2. sent'[e][Len(sent[e]) + 1] = Len(sent[e]) + 1
    BY <2>1 DEF Numbered
  <2>3. QED
    BY <2>1, <2>2
<1>7. Flow(wire[p], Len(sent[e]), retain[e], got[p], expected_rx_seq[p])
  BY <1>1 DEF FlowFrom
<1>8. Flow(wire[p], Len(sent[e]) + 1, f, got[p], expected_rx_seq[p])
  BY <1>1, <1>2, <1>6, <1>7, FlowPut
<1>9. Flow(wire'[p], Len(sent'[e]), f, got[p], expected_rx_seq[p])
  BY <1>1, <1>2, <1>4, <1>6, <1>8, FlowSent
<1>10. FlowFrom(e)'
  BY <1>3, <1>5, <1>9 DEF FlowFrom
<1>11. FlowFrom(p)'
  BY <1>1, <1>3, <1>4, <1>5 DEF FlowFrom
<1>12. QED
  BY <1>10, <1>11, BothFlows

\* The frame that is retained is sent again.
LEMMA FlowResendStep ==
    ASSUME TypeOK, \A d \in End : FlowFrom(d), NEW e \in End, Resend(e)
    PROVE  \A d \in End : FlowFrom(d)'
<1> DEFINE p == Peer(e)
<1>1. /\ p \in End /\ p # e /\ Peer(p) = e
      /\ wire[p] \in Seq(Frame) /\ got[p] \in Seq(Payload)
      /\ retain[e] \in DataFrame /\ retain[e] \in Frame
  BY PeerFacts, FrameFacts DEF TypeOK, Resend
<1>2. /\ wire' = [wire EXCEPT ![p] = Transmit(@, retain[e])]
      /\ UNCHANGED <<expected_rx_seq, retain, sent, got>>
  BY DEF Resend
<1>3. wire'[e] = wire[e] /\ wire'[p] = Transmit(wire[p], retain[e])
  BY <1>1, <1>2, SendFacts
<1>4. Flow(wire'[p], Len(sent[e]), retain[e], got[p], expected_rx_seq[p])
  <2>1. Flow(wire[p], Len(sent[e]), retain[e], got[p], expected_rx_seq[p])
    BY DEF FlowFrom
  <2>2. QED
    BY <1>1, <1>3, <2>1, FlowSent
<1>5. FlowFrom(e)'
  BY <1>2, <1>4 DEF FlowFrom
<1>6. FlowFrom(p)'
  BY <1>1, <1>2, <1>3 DEF FlowFrom
<1>7. QED
  BY <1>5, <1>6, BothFlows

\* The frame expected is delivered, and ACKed.
LEMMA FlowDataStep ==
    ASSUME TypeOK, \A d \in End : FlowFrom(d), NEW e \in End, GetData(e)
    PROVE  \A d \in End : FlowFrom(d)'
<1> DEFINE p == Peer(e)
           f == Head(wire[e])
<1>1. /\ p \in End /\ p # e /\ Peer(p) = e
      /\ wire[e] \in Seq(Frame) /\ wire[p] \in Seq(Frame)
      /\ got[e] \in Seq(Payload) /\ expected_rx_seq[e] \in SeqNo
  BY PeerFacts DEF TypeOK
<1>2. /\ wire[e] # << >> /\ f.kind = "data" /\ f.seq = expected_rx_seq[e]
      /\ Reply(e, Ack(f.seq))
      /\ expected_rx_seq' = [expected_rx_seq EXCEPT ![e] = Succ(f.seq)]
      /\ got' = [got EXCEPT ![e] = Append(@, f.msg)]
      /\ UNCHANGED <<retain, sent>>
  BY DEF GetData, HeadIs, IsNew
<1>3. Ack(f.seq) \in Frame /\ Ack(f.seq).kind # "data"
  BY <1>1, <1>2, FrameFacts
<1>4. wire'[e] = Tail(wire[e]) /\ wire'[p] = Transmit(wire[p], Ack(f.seq))
  BY <1>2, <1>3, ReplyFacts
<1>5. /\ expected_rx_seq'[e] = Succ(expected_rx_seq[e])
      /\ expected_rx_seq'[p] = expected_rx_seq[p]
      /\ got'[e] = Append(got[e], f.msg) /\ got'[p] = got[p]
  BY <1>1, <1>2 DEF TypeOK
<1>6. Flow(wire'[e], Len(sent[p]), retain[p], got'[e], expected_rx_seq'[e])
  <2>1. Flow(wire[e], Len(sent[p]), retain[p], got[e], expected_rx_seq[e])
    BY <1>1 DEF FlowFrom
  <2>2. wire[e] # << >> /\ f.kind = "data" /\ f.seq = expected_rx_seq[e]
    BY <1>2
  <2>3. Flow(Tail(wire[e]), Len(sent[p]), retain[p], Append(got[e], f.msg), Succ(expected_rx_seq[e]))
    BY <1>1, <2>1, <2>2, FlowDelivered
  <2>4. QED
    BY <1>4, <1>5, <2>3
<1>7. Flow(wire'[p], Len(sent[e]), retain[e], got[p], expected_rx_seq[p])
  <2>1. Flow(wire[p], Len(sent[e]), retain[e], got[p], expected_rx_seq[p])
    BY DEF FlowFrom
  <2>2. QED
    BY <1>1, <1>3, <1>4, <2>1, FlowControl
<1>8. FlowFrom(e)'
  BY <1>2, <1>5, <1>7 DEF FlowFrom
<1>9. FlowFrom(p)'
  BY <1>1, <1>2, <1>6 DEF FlowFrom
<1>10. QED
  BY <1>8, <1>9, BothFlows

\* A reset, of one end or of both, forgets what was retained and what was given.
LEMMA FlowResetStep ==
    ASSUME TypeOK, \A d \in End : FlowFrom(d), ResetOne \/ ResetBoth
    PROVE  \A d \in End : FlowFrom(d)'
<1>1. CASE ResetOne
  <2>1. PICK e \in End : Reset({e})
    BY <1>1 DEF ResetOne
  <2> DEFINE p == Peer(e)
  <2>2. p \in End /\ p # e /\ Peer(p) = e
    BY PeerFacts
  <2>3. /\ UNCHANGED <<wire, sent>> /\ got'[e] = << >> /\ retain'[e] = NoFrame
        /\ got'[p] = got[p] /\ retain'[p] = retain[p]
        /\ expected_rx_seq'[p] = expected_rx_seq[p]
    BY <1>1, <2>1, <2>2 DEF ResetOne, Reset, At
  <2>4. Flow(wire[p], Len(sent[e]), NoFrame, got[p], expected_rx_seq[p])
    <3>1. Flow(wire[p], Len(sent[e]), retain[e], got[p], expected_rx_seq[p])
      BY DEF FlowFrom
    <3>2. QED
      BY <3>1 DEF Flow
  <2>5. Flow(wire[e], Len(sent[p]), retain[p], << >>, expected_rx_seq'[e])
    <3>1. Flow(wire[e], Len(sent[p]), retain[p], got[e], expected_rx_seq[e])
      BY <2>2 DEF FlowFrom
    <3>2. QED
      BY <3>1 DEF Flow
  <2>6. FlowFrom(e)'
    BY <2>3, <2>4 DEF FlowFrom
  <2>7. FlowFrom(p)'
    BY <2>2, <2>3, <2>5 DEF FlowFrom
  <2>8. QED
    BY <2>6, <2>7, BothFlows
<1>2. CASE ResetBoth
  BY <1>2, PeerFacts DEF ResetBoth, Reset, At, FlowFrom, Flow
<1>3. QED
  BY <1>1, <1>2

LEMMA FlowStep ==
    ASSUME TypeOK, TypeOK', \A d \in End : FlowFrom(d), Numbered', [ResetNext]_vars
    PROVE  \A d \in End : FlowFrom(d)'
<1>1. CASE UNCHANGED vars
  BY <1>1 DEF vars, arqVars, FlowFrom
<1>2. CASE ResetOne \/ ResetBoth
  BY <1>2, FlowResetStep
<1>3. ASSUME NEW e \in End, NEW m \in Payload, Put(e, m)
      PROVE  \A d \in End : FlowFrom(d)'
  BY <1>3, FlowPutStep
<1>4. ASSUME NEW e \in End, Resend(e)
      PROVE  \A d \in End : FlowFrom(d)'
  BY <1>4, FlowResendStep
<1>5. ASSUME NEW e \in End, GetData(e)
      PROVE  \A d \in End : FlowFrom(d)'
  BY <1>5, FlowDataStep
<1>6. ASSUME NEW e \in End, GetAck(e) \/ GetNack(e) \/ Lose(e)
      PROVE  \A d \in End : FlowFrom(d)'
  <2>1. /\ wire[e] # << >> /\ Receive(e, wire[Peer(e)])
        /\ UNCHANGED <<expected_rx_seq, retain, sent, got>>
    BY <1>6 DEF GetAck, GetNack, Lose, HeadIs, arqVars
  <2>2. QED
    BY <2>1, FlowRead
<1>7. ASSUME NEW e \in End, GetDuplicate(e) \/ GetUnexpected(e) \/ GetCrcError(e)
      PROVE  \A d \in End : FlowFrom(d)'
  <2>1. expected_rx_seq[e] \in SeqNo /\ wire[e] # << >> /\ wire[e] \in Seq(Frame)
    BY <1>7 DEF TypeOK, GetDuplicate, GetUnexpected, GetCrcError, HeadIs
  <2>2. Head(wire[e]).seq \in SeqNo
    BY <2>1, TailFacts, FrameFacts
  <2>3. \E f \in Frame : f.kind # "data" /\ Reply(e, f)
    BY <1>7, <2>1, <2>2, FrameFacts DEF GetDuplicate, GetUnexpected, GetCrcError
  <2>4. UNCHANGED <<expected_rx_seq, retain, sent, got>>
    BY <1>7 DEF GetDuplicate, GetUnexpected, GetCrcError, arqVars
  <2>5. QED
    BY <2>1, <2>3, <2>4, FlowRead
<1>8. ASSUME NEW e \in End, GetNoise(e)
      PROVE  \A d \in End : FlowFrom(d)'
  <2>1. Nack(expected_rx_seq[e]) \in Frame /\ Nack(expected_rx_seq[e]).kind # "data"
    BY FrameFacts DEF TypeOK
  <2>2. /\ wire' = [wire EXCEPT ![Peer(e)] = Transmit(@, Nack(expected_rx_seq[e]))]
        /\ UNCHANGED <<expected_rx_seq, retain, sent, got>>
    BY <1>8 DEF GetNoise, arqVars
  <2>3. QED
    BY <2>1, <2>2, FlowRead
<1>9. QED
  BY <1>1, <1>2, <1>3, <1>4, <1>5, <1>6, <1>7, <1>8 DEF ResetNext, Next, Get

\* If an application numbers what it sends since the two ends were last reset together,
\* the other is never given, in a session of its own, a message twice, or one after a
\* later one, whichever end resets when (frame_arq_reset, frame_arq_get).
THEOREM SessionOrder == ResetSpec /\ []Numbered => []OrderedInSession
<1> DEFINE All == \A d \in End : FlowFrom(d)
<1>1. Init => All
  BY PeerFacts DEF Init, FlowFrom, Flow
<1>2. TypeOK /\ TypeOK' /\ All /\ Numbered' /\ [ResetNext]_vars => All'
  BY FlowStep
<1>3. TypeOK /\ All => OrderedInSession
  <2>1. SUFFICES ASSUME TypeOK, All, NEW e \in End, NEW j \in DOMAIN got[e]
                 PROVE  /\ got[e][j] <= Len(sent[Peer(e)])
                        /\ \A i \in 1 .. j - 1 : got[e][i] < got[e][j]
    BY DEF OrderedInSession
  <2>2. Flow(wire[e], Len(sent[Peer(e)]), retain[Peer(e)], got[e], expected_rx_seq[e])
    BY <2>1, PeerFacts DEF FlowFrom
  <2>3. Len(sent[Peer(e)]) \in Nat
    BY <2>2 DEF Flow
  <2>4. QED
    BY <2>2, <2>3 DEF Flow
<1> HIDE DEF All
<1>4. QED
  BY <1>1, <1>2, <1>3, ResetTypeCorrectness, PTL DEF ResetSpec

-----------------------------------------------------------------------------
(***************************************************************************)
(* Types.                                                                  *)
(***************************************************************************)

\* The session's own variables.
SessionTypes ==
    /\ queue \in Seq(Payload) /\ accepted \in Seq(Payload)
    /\ ackTimeout \in AckTimeouts /\ changes \in 0 .. MaxChanges
    /\ armed \in BOOLEAN /\ asked \in BOOLEAN /\ notified \in BOOLEAN
    /\ due \subseteq Callback
    /\ retries \in 0 .. MaxRetries
    /\ writing \in [Thread -> Frame \cup {NoFrame}]
    /\ failing \in [Thread -> Nat] /\ failed \subseteq Nat
    /\ holding \in DataFrame \cup {NoFrame}

\* The line and the ends as FrameArq has them, and the session's variables.
LEMMA TypesSplit == SessionTypeOK <=> TypeOK /\ SessionTypes
BY DEF SessionTypeOK, SessionTypes

\* The ends of the link.
LEMMA EndFacts == A \in End /\ B \in End /\ A # B /\ Peer(A) = B /\ Peer(B) = A
BY EndAssumption DEF End, Peer

\* A frame put on the line, or not, and the head taken off it.
LEMMA WireFacts ==
    ASSUME TypeOK, NEW e \in End
    PROVE  /\ \A f \in Frame :
                [wire EXCEPT ![e] = Transmit(@, f)] \in [End -> Seq(Frame)]
           /\ wire[e] # << >> =>
                /\ [wire EXCEPT ![e] = Tail(@)] \in [End -> Seq(Frame)]
                /\ Head(wire[e]) \in Frame
<1>1. wire \in [End -> Seq(Frame)] /\ wire[e] \in Seq(Frame)
  BY DEF TypeOK
<1>2. \A f \in Frame : Transmit(wire[e], f) \in Seq(Frame)
  BY <1>1, TransmitFacts
<1>3. wire[e] # << >> => Tail(wire[e]) \in Seq(Frame) /\ Head(wire[e]) \in Frame
  BY <1>1, TailFacts
<1>4. QED
  BY <1>1, <1>2, <1>3

\* A thread prepares a new frame (PrepareTransmit).
LEMMA PrepareTypes ==
    ASSUME TypeOK, SessionTypes, NEW t \in Thread, NEW m \in Payload,
           PrepareTransmit(t, m)
    PROVE  /\ tx_seq' \in [End -> SeqNo]
           /\ retain' \in [End -> DataFrame \cup {NoFrame}]
           /\ awaiting_ack' \in [End -> BOOLEAN]
           /\ sent' \in [End -> Seq(Payload)]
           /\ retries' \in 0 .. MaxRetries /\ notified' \in BOOLEAN /\ armed' \in BOOLEAN
           /\ writing' \in [Thread -> Frame \cup {NoFrame}]
<1>1. A \in End
  BY EndFacts
<1>2. Succ(tx_seq[A]) \in SeqNo
  BY <1>1, SeqNoFacts DEF TypeOK
<1>3. Data(Succ(tx_seq[A]), m) \in DataFrame /\ Data(Succ(tx_seq[A]), m) \in Frame
  BY <1>2, FrameFacts
<1>4. Data(Succ(tx_seq[A]), m).seq = Succ(tx_seq[A])
  BY <1>2, FrameFacts
<1>5. Append(sent[A], m) \in Seq(Payload)
  BY <1>1 DEF TypeOK
<1>6. 0 \in 0 .. MaxRetries
  BY RetryAssumption
<1>7. QED
  BY <1>1, <1>2, <1>3, <1>4, <1>5, <1>6 DEF PrepareTransmit, TypeOK, SessionTypes

\* Send.
LEMMA SendTypes ==
    ASSUME TypeOK, SessionTypes, NEW t \in Caller, NEW m \in Payload, Send(t, m)
    PROVE  TypeOK' /\ SessionTypes'
<1>1. t \in Thread
  BY DEF Thread
<1>2. Append(accepted, m) \in Seq(Payload) /\ Append(queue, m) \in Seq(Payload)
  BY DEF SessionTypes
<1>3. CASE awaiting_ack[A]
  BY <1>2, <1>3 DEF Send, TypeOK, SessionTypes
<1>4. CASE ~awaiting_ack[A]
  <2>1. PrepareTransmit(t, m)
    BY <1>4 DEF Send
  <2>2. QED
    BY <1>1, <1>2, <1>4, <2>1, PrepareTypes DEF Send, TypeOK, SessionTypes
<1>5. QED
  BY <1>3, <1>4

\* The read task handles an ACK.
LEMMA HandleAckTypes ==
    ASSUME TypeOK, SessionTypes, HandleAck
    PROVE  TypeOK' /\ SessionTypes'
<1>1. A \in End /\ Reader \in Thread
  BY EndFacts DEF Thread
<1>2. wire' \in [End -> Seq(Frame)]
  BY <1>1, WireFacts DEF HandleAck, Reading, HeadIs, TakeHead
<1>3. CASE ~Frees(A, Head(wire[A]))
  BY <1>2, <1>3 DEF HandleAck, TypeOK, SessionTypes, arqVars
<1>4. CASE Frees(A, Head(wire[A])) /\ queue = << >>
  BY <1>1, <1>2, <1>4 DEF HandleAck, TypeOK, SessionTypes
<1>5. CASE Frees(A, Head(wire[A])) /\ queue # << >>
  <2>1. Head(queue) \in Payload /\ Tail(queue) \in Seq(Payload)
    BY <1>5 DEF SessionTypes
  <2>2. PrepareTransmit(Reader, Head(queue)) /\ queue' = Tail(queue)
    BY <1>5 DEF HandleAck
  <2>3. QED
    BY <1>1, <1>2, <1>5, <2>1, <2>2, PrepareTypes DEF HandleAck, TypeOK, SessionTypes
<1>6. QED
  BY <1>3, <1>4, <1>5

\* The other sections in which a thread decides what to write.
LEMMA DecideTypes ==
    ASSUME TypeOK, SessionTypes,
           \/ \E t \in Caller : Resume(t)
           \/ HandleNack \/ DispatchData \/ RejectCrc
    PROVE  TypeOK' /\ SessionTypes'
<1>1. A \in End /\ Reader \in Thread /\ Caller \subseteq Thread
  BY EndFacts DEF Thread
<1>2. retain[A] \in Frame \cup {NoFrame} /\ expected_rx_seq[A] \in SeqNo
  BY <1>1, FrameFacts DEF TypeOK
<1>3. wire[A] # << >> =>
        /\ [wire EXCEPT ![A] = Tail(@)] \in [End -> Seq(Frame)]
        /\ Head(wire[A]) \in Frame
  BY <1>1, WireFacts
<1>4. ASSUME NEW t \in Caller, Resume(t)
      PROVE  TypeOK' /\ SessionTypes'
  BY <1>1, <1>2, <1>4 DEF Resume, vars, arqVars, timerVars, reportVars, TypeOK, SessionTypes
<1>5. CASE HandleNack
  <2>1. wire' \in [End -> Seq(Frame)]
    BY <1>3, <1>5 DEF HandleNack, Reading, HeadIs, TakeHead
  <2>2. asked' \in BOOLEAN
    BY <1>5 DEF HandleNack
  <2>3. writing' \in [Thread -> Frame \cup {NoFrame}]
    BY <1>1, <1>2, <1>5 DEF HandleNack, SessionTypes
  <2>4. QED
    BY <1>5, <2>1, <2>2, <2>3
       DEF HandleNack, arqVars, timerVars, reportVars, TypeOK, SessionTypes
<1>6. CASE DispatchData
  <2>1. wire' \in [End -> Seq(Frame)] /\ Head(wire[A]) \in DataFrame
    BY <1>3, <1>6, FrameFacts DEF DispatchData, Reading, HeadIs, TakeHead
  <2>2. Head(wire[A]).seq \in SeqNo
    BY <2>1, FrameFacts
  <2>3. writing' \in [Thread -> Frame \cup {NoFrame}]
    BY <1>1, <1>2, <1>6, <2>2, FrameFacts DEF DispatchData, SessionTypes
  <2>4. holding' \in DataFrame \cup {NoFrame}
    BY <1>6, <2>1 DEF DispatchData
  <2>5. QED
    BY <1>6, <2>1, <2>3, <2>4
       DEF DispatchData, arqVars, timerVars, reportVars, TypeOK, SessionTypes
<1>7. CASE RejectCrc
  <2>1. wire' \in [End -> Seq(Frame)]
    BY <1>3, <1>7 DEF RejectCrc, TakeHead
  <2>2. writing' \in [Thread -> Frame \cup {NoFrame}]
    BY <1>1, <1>2, <1>7, FrameFacts DEF RejectCrc, SessionTypes
  <2>3. QED
    BY <1>7, <2>1, <2>2 DEF RejectCrc, arqVars, timerVars, reportVars, TypeOK, SessionTypes
<1>8. QED
  BY <1>4, <1>5, <1>6, <1>7

\* The timer, its callbacks and the AckTimeout property.
LEMMA TimerTypes ==
    ASSUME TypeOK, SessionTypes,
           \/ \E v \in AckTimeouts : SetAckTimeout(v)
           \/ \E c \in Callback : TimerFires(c) \/ OnAckTimeout(c)
    PROVE  TypeOK' /\ SessionTypes'
<1>1. A \in End /\ Callback \subseteq Thread
  BY EndFacts DEF Thread
<1>2. ASSUME NEW v \in AckTimeouts, SetAckTimeout(v)
      PROVE  TypeOK' /\ SessionTypes'
  <2>1. changes' \in 0 .. MaxChanges
    BY <1>2, RetryAssumption DEF SetAckTimeout, SessionTypes
  <2>2. QED
    BY <1>2, <2>1 DEF SetAckTimeout, vars, arqVars, reportVars, threadVars, TypeOK, SessionTypes
<1>3. ASSUME NEW c \in Callback, TimerFires(c)
      PROVE  TypeOK' /\ SessionTypes'
  BY <1>3 DEF TimerFires, vars, arqVars, reportVars, threadVars, TypeOK, SessionTypes
<1>4. ASSUME NEW c \in Callback, OnAckTimeout(c)
      PROVE  TypeOK' /\ SessionTypes'
  <2>1. TypeOK'
    BY <1>4 DEF OnAckTimeout, vars, arqVars, TypeOK
  <2>2. due' \subseteq Callback
    BY <1>4 DEF OnAckTimeout, SessionTypes
  <2>3. retries' \in 0 .. MaxRetries
    BY <1>4, RetryAssumption DEF OnAckTimeout, SessionTypes
  <2>4. notified' \in BOOLEAN /\ armed' \in BOOLEAN
    BY <1>4 DEF OnAckTimeout, SessionTypes
  <2>5. retain[A] \in DataFrame \cup {NoFrame} /\ retain[A] \in Frame \cup {NoFrame}
    BY <1>1, FrameFacts DEF TypeOK
  <2>6. failing' \in [Thread -> Nat]
    <3>1. Retained \in Nat
      BY <1>1 DEF Retained, TypeOK
    <3>2. QED
      BY <1>4, <3>1 DEF OnAckTimeout, SessionTypes
  <2>7. writing' \in [Thread -> Frame \cup {NoFrame}]
    BY <1>1, <1>4, <2>5 DEF OnAckTimeout, SessionTypes
  <2>8. QED
    BY <1>4, <2>1, <2>2, <2>3, <2>4, <2>6, <2>7 DEF OnAckTimeout, SessionTypes
<1>5. QED
  BY <1>2, <1>3, <1>4

\* What a thread does outside the critical sections.
LEMMA OutsideTypes ==
    ASSUME TypeOK, SessionTypes,
           \/ \E t \in Thread : WriteFrame(t) \/ OnFrameError(t)
           \/ OnFrameReceived
    PROVE  TypeOK' /\ SessionTypes'
<1>1. A \in End /\ B \in End
  BY EndFacts
<1>2. ASSUME NEW t \in Thread, WriteFrame(t)
      PROVE  TypeOK' /\ SessionTypes'
  <2>1. writing[t] \in Frame
    BY <1>2 DEF WriteFrame, SessionTypes
  <2>2. wire' \in [End -> Seq(Frame)]
    BY <1>1, <1>2, <2>1, WireFacts DEF WriteFrame
  <2>3. writing' \in [Thread -> Frame \cup {NoFrame}]
    BY <1>2 DEF WriteFrame, SessionTypes
  <2>4. QED
    BY <1>2, <2>2, <2>3 DEF WriteFrame, arqVars, timerVars, reportVars, TypeOK, SessionTypes
<1>3. ASSUME NEW t \in Thread, OnFrameError(t)
      PROVE  TypeOK' /\ SessionTypes'
  BY <1>3 DEF OnFrameError, vars, arqVars, timerVars, threadVars, TypeOK, SessionTypes
<1>4. CASE OnFrameReceived
  <2>1. holding \in DataFrame
    BY <1>4 DEF OnFrameReceived, SessionTypes
  <2>2. holding.seq \in SeqNo /\ holding.msg \in Payload
    BY <2>1, FrameFacts
  <2>3. Succ(holding.seq) \in SeqNo
    BY <2>2, SeqNoFacts
  <2>4. got' \in [End -> Seq(Payload)]
    BY <1>1, <1>4, <2>2 DEF OnFrameReceived, TypeOK
  <2>5. QED
    BY <1>1, <1>4, <2>3, <2>4
       DEF OnFrameReceived, timerVars, reportVars, TypeOK, SessionTypes
<1>5. QED
  BY <1>2, <1>3, <1>4

\* What the board and the line do is a step of FrameArq.
LEMMA BoardIsNext ==
    ASSUME Board \/ LineLoss
    PROVE  Next /\ UNCHANGED sessionVars
BY EndFacts DEF Board, LineLoss, Next

\* Every step of the session, the board or the line keeps the types.
LEMMA SessionTypeStep ==
    ASSUME SessionTypeOK, [SessionNext]_allVars
    PROVE  SessionTypeOK'
<1>1. TypeOK /\ SessionTypes
  BY TypesSplit
<1>2. SUFFICES TypeOK' /\ SessionTypes'
  BY DEF SessionTypeOK, SessionTypes
<1>3. ASSUME UNCHANGED sessionVars
      PROVE  SessionTypes'
  BY <1>1, <1>3 DEF sessionVars, timerVars, reportVars, threadVars, SessionTypes
<1>4. CASE Board \/ LineLoss
  <2>1. Next /\ UNCHANGED sessionVars
    BY <1>4, BoardIsNext
  <2>2. TypeOK'
    BY <1>1, <2>1, TypeStep
  <2>3. QED
    BY <1>3, <2>1, <2>2
<1>5. CASE UNCHANGED allVars
  <2>1. UNCHANGED vars /\ UNCHANGED sessionVars
    BY <1>5 DEF allVars
  <2>2. TypeOK'
    BY <1>1, <2>1, TypeStep
  <2>3. QED
    BY <1>3, <2>1, <2>2
<1>6. CASE \E t \in Caller, m \in Payload : Send(t, m)
  BY <1>1, <1>6, SendTypes
<1>7. CASE HandleAck
  BY <1>1, <1>7, HandleAckTypes
<1>8. CASE (\E t \in Caller : Resume(t)) \/ HandleNack \/ DispatchData \/ RejectCrc
  BY <1>1, <1>8, DecideTypes
<1>9. CASE \/ \E v \in AckTimeouts : SetAckTimeout(v)
           \/ \E c \in Callback : TimerFires(c) \/ OnAckTimeout(c)
  BY <1>1, <1>9, TimerTypes
<1>10. CASE (\E t \in Thread : WriteFrame(t) \/ OnFrameError(t)) \/ OnFrameReceived
  BY <1>1, <1>10, OutsideTypes
<1>11. QED
  BY <1>4, <1>5, <1>6, <1>7, <1>8, <1>9, <1>10 DEF SessionNext

\* The session starts with values of its types.
LEMMA SessionTypeInit ==
    ASSUME SessionInit
    PROVE  SessionTypeOK
<1>1. TypeOK
  BY InvInit DEF SessionInit, IInv
<1>2. /\ 0 \in 0 .. MaxRetries /\ 0 \in 0 .. MaxChanges
      /\ << >> \in Seq(Payload)
  BY RetryAssumption
<1>3. SessionTypes
  BY <1>2 DEF SessionInit, SessionTypes
<1>4. QED
  BY <1>1, <1>3, TypesSplit

\* Type correctness of the session, its threads and timer, the board and the
\* line: every sequence number stays below 64, and no thread writes what is
\* not a frame.
THEOREM SessionTypeCorrectness == SessionSpec => []SessionTypeOK
<1>1. QED
  BY SessionTypeInit, SessionTypeStep, PTL DEF SessionSpec

-----------------------------------------------------------------------------
(***************************************************************************)
(* The queue and the timer.                                                *)
(***************************************************************************)

\* Every step but Send and HandleAck.
OtherStep ==
    \/ \E t \in Caller : Resume(t)
    \/ \E v \in AckTimeouts : SetAckTimeout(v)
    \/ \E c \in Callback : TimerFires(c) \/ OnAckTimeout(c)
    \/ \E t \in Thread : OnFrameError(t) \/ WriteFrame(t)
    \/ HandleNack \/ DispatchData \/ OnFrameReceived \/ RejectCrc
    \/ Board \/ LineLoss \/ UNCHANGED allVars

\* It leaves the queue, what was taken and sent, and the frame in flight as they are.
LEMMA QueueUntouched ==
    ASSUME SessionTypeOK, OtherStep
    PROVE  UNCHANGED <<queue, accepted, sent[A], awaiting_ack[A]>>
<1>1. TypeOK /\ A # B /\ A \in End /\ B \in End
  BY EndFacts DEF SessionTypeOK
<1>2. CASE Board \/ LineLoss
  <2>1. UNCHANGED <<queue, accepted>>
    BY <1>2 DEF Board, LineLoss, sessionVars
  <2>2. ASSUME NEW m \in Payload, Put(B, m)
        PROVE  UNCHANGED <<sent[A], awaiting_ack[A]>>
    BY <1>1, <2>2 DEF Put, TypeOK
  <2>3. ASSUME GetAck(B)
        PROVE  UNCHANGED <<sent[A], awaiting_ack[A]>>
    BY <1>1, <2>3 DEF GetAck, TypeOK
  <2>4. ASSUME \/ Resend(B) \/ GetNack(B) \/ GetData(B) \/ GetDuplicate(B)
               \/ GetUnexpected(B) \/ GetCrcError(B) \/ Lose(A) \/ Lose(B)
        PROVE  UNCHANGED <<sent, awaiting_ack>>
    BY <2>4 DEF Resend, GetNack, GetData, GetDuplicate, GetUnexpected, GetCrcError, Lose,
                IsNew, IsRepeat, arqVars
  <2>5. QED
    BY <1>2, <2>1, <2>2, <2>3, <2>4 DEF Board, LineLoss, Get
<1>3. CASE \/ \E t \in Caller : Resume(t)
           \/ \E v \in AckTimeouts : SetAckTimeout(v)
           \/ \E c \in Callback : TimerFires(c) \/ OnAckTimeout(c)
           \/ \E t \in Thread : OnFrameError(t) \/ WriteFrame(t)
           \/ HandleNack \/ DispatchData \/ OnFrameReceived \/ RejectCrc
           \/ UNCHANGED allVars
  BY <1>3 DEF Resume, SetAckTimeout, TimerFires, OnAckTimeout, OnFrameError, WriteFrame,
              HandleNack, DispatchData, OnFrameReceived, RejectCrc, allVars, sessionVars,
              vars, arqVars
<1>4. QED
  BY <1>2, <1>3 DEF OtherStep

\* An element put behind the second of two sequences is behind both.
LEMMA ConcatAppend ==
    ASSUME NEW s \in Seq(Payload), NEW q \in Seq(Payload), NEW m \in Payload
    PROVE  Append(s \o q, m) = s \o Append(q, m)
OBVIOUS

\* Send and HandleAck keep the order of the queue.
LEMMA QueueStep ==
    ASSUME SessionTypeOK, QueueKeepsOrder, [SessionNext]_allVars
    PROVE  QueueKeepsOrder'
<1>1. /\ queue \in Seq(Payload) /\ accepted \in Seq(Payload) /\ sent[A] \in Seq(Payload)
      /\ sent \in [End -> Seq(Payload)] /\ awaiting_ack \in [End -> BOOLEAN] /\ A \in End
  BY EndFacts DEF SessionTypeOK, TypeOK
<1>2. ASSUME NEW t \in Caller, NEW m \in Payload, Send(t, m)
      PROVE  QueueKeepsOrder'
  <2>1. accepted' = Append(accepted, m)
    BY <1>2 DEF Send
  <2>2. CASE awaiting_ack[A]
    <3>1. queue' = Append(queue, m) /\ sent' = sent /\ awaiting_ack' = awaiting_ack
      BY <1>2, <2>2 DEF Send
    <3>2. Append(sent[A] \o queue, m) = sent[A] \o Append(queue, m)
      <4>1. queue \in Seq(Payload) /\ sent[A] \in Seq(Payload)
        BY <1>1
      <4>2. QED
        BY <4>1, <1>2, ConcatAppend, Zenon
    <3>3. QED
      BY <2>1, <2>2, <3>1, <3>2 DEF QueueKeepsOrder
  <2>3. CASE ~awaiting_ack[A]
    <3>1. PrepareTransmit(t, m) /\ queue' = queue
      BY <1>2, <2>3 DEF Send
    <3>2. sent'[A] = Append(sent[A], m) /\ awaiting_ack'[A] = TRUE
      BY <1>1, <3>1 DEF PrepareTransmit
    <3>3. queue = << >>
      BY <2>3 DEF QueueKeepsOrder
    <3>4. sent[A] \o << >> = sent[A] /\ Append(sent[A], m) \o << >> = Append(sent[A], m)
      BY <1>1
    <3>5. QED
      BY <2>1, <3>1, <3>2, <3>3, <3>4 DEF QueueKeepsOrder
  <2>4. QED
    BY <2>2, <2>3
<1>3. CASE HandleAck
  <2>1. accepted' = accepted
    BY <1>3 DEF HandleAck
  <2>2. CASE ~Frees(A, Head(wire[A]))
    <3>1. UNCHANGED <<queue, sent, awaiting_ack>>
      BY <1>3, <2>2 DEF HandleAck, arqVars
    <3>2. QED
      BY <2>1, <3>1 DEF QueueKeepsOrder
  <2>3. CASE Frees(A, Head(wire[A])) /\ queue = << >>
    <3>1. UNCHANGED <<queue, sent>>
      BY <1>3, <2>3 DEF HandleAck
    <3>2. QED
      BY <2>1, <2>3, <3>1 DEF QueueKeepsOrder
  <2>4. CASE Frees(A, Head(wire[A])) /\ queue # << >>
    <3>1. PrepareTransmit(Reader, Head(queue)) /\ queue' = Tail(queue)
      BY <1>3, <2>4 DEF HandleAck
    <3>2. sent'[A] = Append(sent[A], Head(queue)) /\ awaiting_ack'[A] = TRUE
      BY <1>1, <3>1 DEF PrepareTransmit
    <3>3. Append(sent[A], Head(queue)) \o Tail(queue) = sent[A] \o queue
      BY <1>1, <2>4
    <3>4. QED
      BY <2>1, <3>1, <3>2, <3>3 DEF QueueKeepsOrder
  <2>5. QED
    BY <2>2, <2>3, <2>4
<1>4. CASE OtherStep
  BY <1>4, QueueUntouched DEF QueueKeepsOrder
<1>5. QED
  BY <1>2, <1>3, <1>4 DEF SessionNext, OtherStep

\* Messages are transmitted in the order Send took them, none is dropped, and a
\* queue that is not empty waits for the ACK of a frame in flight: for any number
\* of callers, in any order of Send and HandleAck.
THEOREM QueueOrder == SessionSpec => []QueueKeepsOrder
<1>1. SessionInit => QueueKeepsOrder
  <2>1. << >> \o << >> = << >>
    OBVIOUS
  <2>2. QED
    BY <2>1, EndFacts DEF SessionInit, Init, QueueKeepsOrder
<1>2. SessionTypeOK /\ QueueKeepsOrder /\ [SessionNext]_allVars => QueueKeepsOrder'
  BY QueueStep
<1>3. QED
  BY <1>1, <1>2, SessionTypeCorrectness, PTL DEF SessionSpec

\* The timer is started with the frame, by a new one or by the callback, and stopped
\* with its ACK.
LEMMA TimerStep ==
    ASSUME SessionTypeOK, TimerGuards, [SessionNext]_allVars
    PROVE  TimerGuards'
<1>1. /\ awaiting_ack \in [End -> BOOLEAN] /\ A \in End /\ changes \in Nat
  BY EndFacts, RetryAssumption DEF SessionTypeOK, TypeOK
<1>2. ASSUME NEW t \in Thread, NEW m, PrepareTransmit(t, m), ackTimeout' = ackTimeout
      PROVE  TimerGuards'
  <2>1. awaiting_ack'[A] /\ armed' = (ackTimeout = "timer")
    BY <1>1, <1>2 DEF PrepareTransmit
  <2>2. QED
    BY <1>2, <2>1 DEF TimerGuards
<1>3. ASSUME NEW t \in Caller, NEW m \in Payload, Send(t, m)
      PROVE  TimerGuards'
  <2>1. UNCHANGED <<ackTimeout, due, changes>> /\ t \in Thread
    BY <1>3 DEF Send, Thread
  <2>2. CASE awaiting_ack[A]
    BY <1>3, <2>1, <2>2 DEF Send, TimerGuards
  <2>3. CASE ~awaiting_ack[A]
    BY <1>2, <1>3, <2>1, <2>3 DEF Send
  <2>4. QED
    BY <2>2, <2>3
<1>4. CASE HandleAck
  <2>1. UNCHANGED <<ackTimeout, due, changes>> /\ Reader \in Thread
    BY <1>4 DEF HandleAck, Thread
  <2>2. CASE ~Frees(A, Head(wire[A]))
    BY <1>4, <2>1, <2>2 DEF HandleAck, arqVars, TimerGuards
  <2>3. CASE Frees(A, Head(wire[A])) /\ queue = << >>
    <3>1. awaiting_ack'[A] = FALSE /\ armed' = FALSE
      BY <1>1, <1>4, <2>3 DEF HandleAck
    <3>2. QED
      BY <3>1 DEF TimerGuards
  <2>4. CASE Frees(A, Head(wire[A])) /\ queue # << >>
    BY <1>2, <1>4, <2>1, <2>4 DEF HandleAck
  <2>5. QED
    BY <2>2, <2>3, <2>4
<1>5. ASSUME NEW c \in Callback, TimerFires(c)
      PROVE  TimerGuards'
  BY <1>5 DEF TimerFires, TimerGuards
<1>6. ASSUME NEW c \in Callback, OnAckTimeout(c)
      PROVE  TimerGuards'
  <2>1. UNCHANGED <<awaiting_ack, ackTimeout, changes>>
    BY <1>6 DEF OnAckTimeout, vars, arqVars
  <2>2. CASE ~awaiting_ack[A] \/ ackTimeout # "timer"
    BY <1>6, <2>1, <2>2 DEF OnAckTimeout, TimerGuards
  <2>3. CASE awaiting_ack[A] /\ ackTimeout = "timer"
    BY <1>6, <2>1, <2>3 DEF OnAckTimeout, TimerGuards
  <2>4. QED
    BY <2>2, <2>3
<1>7. ASSUME NEW v \in AckTimeouts, SetAckTimeout(v)
      PROVE  TimerGuards'
  <2>1. changes' # 0 /\ UNCHANGED <<armed, awaiting_ack>>
    BY <1>1, <1>7 DEF SetAckTimeout, vars, arqVars
  <2>2. QED
    BY <2>1 DEF TimerGuards
<1>8. CASE \/ \E t \in Caller : Resume(t)
           \/ \E t \in Thread : OnFrameError(t) \/ WriteFrame(t)
           \/ HandleNack \/ DispatchData \/ OnFrameReceived \/ RejectCrc
           \/ Board \/ LineLoss
           \/ UNCHANGED allVars
  <2>1. UNCHANGED timerVars
    BY <1>8 DEF Resume, OnFrameError, WriteFrame, HandleNack, DispatchData, OnFrameReceived,
                RejectCrc, Board, LineLoss, allVars, sessionVars
  <2>2. awaiting_ack'[A] = awaiting_ack[A]
    BY <1>8, QueueUntouched DEF OtherStep
  <2>3. QED
    BY <2>1, <2>2 DEF timerVars, TimerGuards
<1>9. QED
  BY <1>3, <1>4, <1>5, <1>6, <1>7, <1>8 DEF SessionNext

\* As long as AckTimeout is left alone, a frame in flight has a timer that runs or a
\* callback that is about to start it again, however many callbacks are late; and
\* a timer runs for a frame in flight only.
THEOREM TimerKept == SessionSpec => []TimerGuards
<1>1. SessionInit => TimerGuards
  BY EndFacts DEF SessionInit, Init, TimerGuards
<1>2. SessionTypeOK /\ TimerGuards /\ [SessionNext]_allVars => TimerGuards'
  BY TimerStep
<1>3. QED
  BY <1>1, <1>2, SessionTypeCorrectness, PTL DEF SessionSpec

-----------------------------------------------------------------------------
(***************************************************************************)
(* The reports of FrameError.  Only frames that were sent are reported, and *)
(* the newest of them only after _deliveryNotified was set for it.          *)
(***************************************************************************)

Unreported ==
    /\ Retained \notin failed
    /\ \A t \in Thread : failing[t] # 0 => failing[t] # Retained

ReportsKnown ==
    /\ ReportedOnce
    /\ \A t \in Thread : failing[t] <= Retained
    /\ \A n \in failed : n <= Retained
    /\ notified \/ Retained = 0 \/ Unreported

\* A new frame has a number that none of the reports has.
LEMMA PreparedIsNew ==
    ASSUME SessionTypeOK, ReportsKnown, NEW t \in Thread, NEW m \in Payload,
           PrepareTransmit(t, m), UNCHANGED <<failing, failed>>
    PROVE  ReportsKnown'
<1>1. /\ sent \in [End -> Seq(Payload)] /\ A \in End
      /\ failing \in [Thread -> Nat] /\ failed \subseteq Nat
  BY EndFacts DEF SessionTypeOK, TypeOK
<1>2. Retained \in Nat /\ Retained' = Retained + 1
  <2>1. sent[A] \in Seq(Payload) /\ sent'[A] = Append(sent[A], m)
    BY <1>1 DEF PrepareTransmit
  <2>2. QED
    BY <2>1 DEF Retained
<1>3. \A u \in Thread : failing'[u] <= Retained /\ failing'[u] \in Nat
  BY <1>1 DEF ReportsKnown
<1>4. \A n \in failed' : n <= Retained /\ n \in Nat
  BY <1>1 DEF ReportsKnown
<1>5. ReportedOnce'
  BY DEF ReportsKnown, ReportedOnce
<1>6. Unreported'
  BY <1>2, <1>3, <1>4 DEF Unreported
<1>7. QED
  BY <1>2, <1>3, <1>4, <1>5, <1>6 DEF ReportsKnown

\* Steps that neither send nor report.
LEMMA NothingToReport ==
    ASSUME ReportsKnown, UNCHANGED <<sent[A], failing, failed, notified>>
    PROVE  ReportsKnown'
BY DEF ReportsKnown, ReportedOnce, Unreported, Retained

\* Every step keeps what is known of the reports.
LEMMA ReportStep ==
    ASSUME SessionTypeOK, ReportsKnown, [SessionNext]_allVars
    PROVE  ReportsKnown'
<1>1. /\ failing \in [Thread -> Nat] /\ failed \subseteq Nat /\ Retained \in Nat
      /\ queue \in Seq(Payload)
  BY EndFacts DEF SessionTypeOK, TypeOK, Retained
<1>2. ASSUME NEW t \in Caller, NEW m \in Payload, Send(t, m)
      PROVE  ReportsKnown'
  <2>1. t \in Thread /\ UNCHANGED <<failing, failed>>
    BY <1>2 DEF Send, Thread
  <2>2. CASE awaiting_ack[A]
    BY <1>2, <2>1, <2>2, NothingToReport DEF Send
  <2>3. CASE ~awaiting_ack[A]
    BY <1>2, <2>1, <2>3, PreparedIsNew DEF Send
  <2>4. QED
    BY <2>2, <2>3
<1>3. CASE HandleAck
  <2>1. Reader \in Thread /\ UNCHANGED <<failing, failed>>
    BY <1>3 DEF HandleAck, Thread
  <2>2. CASE ~Frees(A, Head(wire[A])) \/ queue = << >>
    BY <1>3, <2>1, <2>2, NothingToReport DEF HandleAck
  <2>3. CASE Frees(A, Head(wire[A])) /\ queue # << >>
    <3>1. Head(queue) \in Payload /\ PrepareTransmit(Reader, Head(queue))
      BY <1>1, <1>3, <2>3 DEF HandleAck
    <3>2. QED
      BY <2>1, <3>1, PreparedIsNew
  <2>4. QED
    BY <2>2, <2>3
<1>4. ASSUME NEW c \in Callback, OnAckTimeout(c)
      PROVE  ReportsKnown'
  <2>1. c \in Thread /\ failed' = failed /\ Retained' = Retained /\ sent' = sent
    BY <1>4 DEF OnAckTimeout, vars, Thread, Retained
  <2>2. CASE UNCHANGED <<failing, notified>>
    BY <2>1, <2>2, NothingToReport
  <2>3. CASE awaiting_ack[A] /\ ackTimeout = "timer" /\ ~notified /\ notified'
    <3>1. failing' = [failing EXCEPT ![c] = Retained]
      BY <1>4, <2>3 DEF OnAckTimeout
    <3>2. Retained = 0 \/ Unreported
      BY <2>3 DEF ReportsKnown
    <3>3. ReportedOnce'
      BY <1>1, <2>1, <3>1, <3>2 DEF ReportsKnown, ReportedOnce, Unreported
    <3>4. \A t \in Thread : failing'[t] <= Retained
      BY <1>1, <2>1, <3>1 DEF ReportsKnown
    <3>5. QED
      BY <2>1, <2>3, <3>3, <3>4 DEF ReportsKnown
  <2>4. CASE awaiting_ack[A] /\ ackTimeout = "timer" /\ (notified \/ ~notified')
    <3>1. failing' = [failing EXCEPT ![c] = 0] /\ (notified => notified')
      BY <1>4, <2>4 DEF OnAckTimeout
    <3>2. \A t \in Thread : failing'[t] = 0 \/ failing'[t] = failing[t]
      BY <1>1, <3>1
    <3>3. ReportedOnce'
      BY <2>1, <3>2 DEF ReportsKnown, ReportedOnce
    <3>4. \A t \in Thread : failing'[t] <= Retained
      BY <1>1, <3>2 DEF ReportsKnown
    <3>5. notified' \/ Retained = 0 \/ Unreported'
      BY <2>1, <3>1, <3>2 DEF ReportsKnown, Unreported
    <3>6. QED
      BY <2>1, <3>3, <3>4, <3>5 DEF ReportsKnown
  <2>5. QED
    BY <1>4, <2>2, <2>3, <2>4 DEF OnAckTimeout
<1>5. ASSUME NEW t \in Thread, OnFrameError(t)
      PROVE  ReportsKnown'
  <2>1. /\ failing[t] # 0 /\ failed' = failed \cup {failing[t]}
        /\ failing' = [failing EXCEPT ![t] = 0]
        /\ notified' = notified /\ Retained' = Retained
    BY <1>5 DEF OnFrameError, vars, Retained
  <2>2. \A u \in Thread : failing'[u] = IF u = t THEN 0 ELSE failing[u]
    BY <1>1, <2>1
  <2>3. ReportedOnce'
    BY <2>1, <2>2 DEF ReportsKnown, ReportedOnce
  <2>4. \A u \in Thread : failing'[u] <= Retained
    BY <1>1, <2>2 DEF ReportsKnown
  <2>5. \A n \in failed' : n <= Retained
    BY <2>1 DEF ReportsKnown
  <2>6. notified \/ Retained = 0 \/ Unreported'
    BY <2>1, <2>2 DEF ReportsKnown, Unreported
  <2>7. QED
    BY <2>1, <2>3, <2>4, <2>5, <2>6 DEF ReportsKnown
<1>6. CASE \/ \E t \in Caller : Resume(t)
           \/ \E v \in AckTimeouts : SetAckTimeout(v)
           \/ \E c \in Callback : TimerFires(c)
           \/ \E t \in Thread : WriteFrame(t)
           \/ HandleNack \/ DispatchData \/ OnFrameReceived \/ RejectCrc
           \/ Board \/ LineLoss
           \/ UNCHANGED allVars
  <2>1. UNCHANGED <<failing, failed, notified>>
    BY <1>6 DEF Resume, SetAckTimeout, TimerFires, WriteFrame, HandleNack, DispatchData,
                OnFrameReceived, RejectCrc, Board, LineLoss, allVars, sessionVars, reportVars
  <2>2. sent'[A] = sent[A]
    BY <1>6, QueueUntouched DEF OtherStep
  <2>3. QED
    BY <2>1, <2>2, NothingToReport
<1>7. QED
  BY <1>2, <1>3, <1>4, <1>5, <1>6 DEF SessionNext

\* FrameError is raised once for a frame that does not get through, however many
\* callbacks of the timer overlap, however late they report, and in whatever order with
\* the ACK and the frames sent after it.
THEOREM OneReport == SessionSpec => []ReportedOnce
<1>1. SessionInit => ReportsKnown
  BY EndFacts DEF SessionInit, Init, ReportsKnown, ReportedOnce, Retained
<1>2. SessionTypeOK /\ ReportsKnown /\ [SessionNext]_allVars => ReportsKnown'
  BY ReportStep
<1>3. ReportsKnown => ReportedOnce
  BY DEF ReportsKnown
<1>4. QED
  BY <1>1, <1>2, <1>3, SessionTypeCorrectness, PTL DEF SessionSpec

-----------------------------------------------------------------------------
(***************************************************************************)
(* From the board to the session.  The read task decides about a frame in  *)
(* DispatchData: from there on the frame counts as delivered (Received),   *)
(* and the next seq as expected (Expected), although the ACK is written and *)
(* _expectedRxSeq set only later.                                          *)
(***************************************************************************)

Expected == IF holding = NoFrame THEN expected_rx_seq[A] ELSE Succ(holding.seq)

\* The session has decided to deliver all that the board sent; or all but the
\* frame outstanding there.
BoardAll == Received = sent[B] /\ Expected = Succ(tx_seq[B])
BoardLast ==
    /\ awaiting_ack[B]
    /\ sent[B] = Append(Received, retain[B].msg)
    /\ Expected = tx_seq[B]

\* An ACK f that is not yet written, for a board at seq t.
AckFits(f, t, all, last) ==
    f.kind = "ack" => (f.seq = t /\ all) \/ (f.seq = Pred(t) /\ last)

\* Only the read task writes ACKs, and of what it has decided about.
AcksDue ==
    /\ \A u \in Thread \ {Reader} : writing[u].kind # "ack"
    /\ AckFits(writing[Reader], tx_seq[B], BoardAll, BoardLast)

BoardRetains == awaiting_ack[B] => retain[B] # NoFrame /\ retain[B].seq = tx_seq[B]

FromBoard ==
    /\ SessionTypeOK
    /\ BoardAll \/ BoardLast
    /\ BoardRetains
    /\ DataOn(wire[A], tx_seq[B], BoardLast, retain[B])
    /\ AckOn(wire[B], tx_seq[B], BoardAll, awaiting_ack[B])
    /\ AcksDue

\* What the two ends of this direction remember.
boardView == <<tx_seq[B], awaiting_ack[B], retain[B], sent[B], Received, Expected>>

\* Types that the steps below need.
LEMMA BoardFacts ==
    ASSUME SessionTypeOK
    PROVE  /\ A \in End /\ B \in End /\ A # B /\ Reader \in Thread
           /\ tx_seq[B] \in SeqNo /\ Succ(tx_seq[B]) # tx_seq[B]
           /\ awaiting_ack[B] \in BOOLEAN
           /\ wire \in [End -> Seq(Frame)]
           /\ wire[A] \in Seq(Frame) /\ wire[B] \in Seq(Frame)
           /\ BoardAll \in BOOLEAN /\ BoardLast \in BOOLEAN
           /\ BoardAll => ~BoardLast
           /\ writing \in [Thread -> Frame \cup {NoFrame}]
           /\ holding \in DataFrame \cup {NoFrame}
           /\ retain[A] \in DataFrame \cup {NoFrame}
<1>1. /\ A \in End /\ B \in End /\ A # B /\ Reader \in Thread
      /\ tx_seq[B] \in SeqNo /\ awaiting_ack[B] \in BOOLEAN
      /\ wire \in [End -> Seq(Frame)]
      /\ writing \in [Thread -> Frame \cup {NoFrame}]
      /\ holding \in DataFrame \cup {NoFrame}
      /\ retain[A] \in DataFrame \cup {NoFrame}
  BY EndFacts DEF SessionTypeOK, TypeOK, Thread
<1>2. Succ(tx_seq[B]) # tx_seq[B]
  BY <1>1, SeqNoFacts
<1>3. QED
  BY <1>1, <1>2 DEF BoardAll, BoardLast

\* A step that leaves what the ends remember, and keeps the order on the line and the
\* ACKs due, keeps the invariant.
LEMMA ViewStep ==
    ASSUME FromBoard, SessionTypeOK', UNCHANGED boardView,
           DataOn(wire'[A], tx_seq[B], BoardLast, retain[B]),
           AckOn(wire'[B], tx_seq[B], BoardAll, awaiting_ack[B]),
           \A u \in Thread \ {Reader} : writing'[u].kind # "ack",
           AckFits(writing'[Reader], tx_seq[B], BoardAll, BoardLast)
    PROVE  FromBoard'
<1>1. /\ tx_seq'[B] = tx_seq[B] /\ awaiting_ack'[B] = awaiting_ack[B]
      /\ retain'[B] = retain[B] /\ sent'[B] = sent[B]
      /\ Received' = Received /\ Expected' = Expected
  BY DEF boardView
<1>2. (BoardAll' <=> BoardAll) /\ (BoardLast' <=> BoardLast)
  BY <1>1 DEF BoardAll, BoardLast
<1>3. BoardAll' \in BOOLEAN /\ BoardLast' \in BOOLEAN /\ BoardAll \in BOOLEAN /\ BoardLast \in BOOLEAN
  BY DEF BoardAll, BoardLast
<1>4. BoardAll' = BoardAll /\ BoardLast' = BoardLast
  BY <1>2, <1>3
<1>5. (BoardAll \/ BoardLast)'
  BY <1>2 DEF FromBoard
<1>6. BoardRetains'
  BY <1>1 DEF FromBoard, BoardRetains
<1>7. DataOn(wire[A], tx_seq[B], BoardLast, retain[B])'
  BY <1>1, <1>4
<1>8. AckOn(wire[B], tx_seq[B], BoardAll, awaiting_ack[B])'
  BY <1>1, <1>4
<1>9. AcksDue'
  BY <1>1, <1>4 DEF AcksDue
<1>10. QED
  BY <1>5, <1>6, <1>7, <1>8, <1>9 DEF FromBoard

\* What the session retains, prepares or does not write is no ACK.
LEMMA NotAck ==
    ASSUME SessionTypeOK
    PROVE  /\ retain[A].kind # "ack" /\ NoFrame.kind # "ack"
           /\ \A m : Data(Succ(tx_seq[A]), m).kind # "ack"
           /\ \A q \in SeqNo : Nack(q).kind # "ack"
<1>1. retain[A] \in DataFrame \cup {NoFrame}
  BY BoardFacts
<1>2. QED
  BY <1>1 DEF DataFrame, NoFrame, Data, Nack

\* What the session's own ARQ does leaves the board, the line and the reader alone,
BoardUntouched ==
    /\ UNCHANGED <<wire, expected_rx_seq, got, holding>>
    /\ tx_seq'[B] = tx_seq[B] /\ awaiting_ack'[B] = awaiting_ack[B]
    /\ retain'[B] = retain[B] /\ sent'[B] = sent[B]

\* and no ACK is due by another thread.
NoNewAck ==
    /\ writing'[Reader] = writing[Reader]
    /\ \A u \in Thread \ {Reader} : writing'[u].kind # "ack"

\* A thread other than the reader that prepares no ACK keeps it so.
LEMMA WritesOther ==
    ASSUME writing \in [Thread -> Frame \cup {NoFrame}],
           \A u \in Thread \ {Reader} : writing[u].kind # "ack",
           NEW t \in Thread \ {Reader}, NEW f, f.kind # "ack",
           writing' \in {writing, [writing EXCEPT ![t] = f]}
    PROVE  NoNewAck
<1>1. \A u \in Thread : writing'[u] = writing[u] \/ (u = t /\ writing'[u] = f)
  OBVIOUS
<1>2. Reader \in Thread
  BY DEF Thread
<1>3. QED
  BY <1>1, <1>2 DEF NoNewAck

\* The steps of callers, of the timer and of its callbacks concern the other direction.
LEMMA QuietStep ==
    ASSUME FromBoard, SessionTypeOK',
           \/ \E t \in Caller : Resume(t) \/ \E m \in Payload : Send(t, m)
           \/ \E v \in AckTimeouts : SetAckTimeout(v)
           \/ \E c \in Callback : TimerFires(c) \/ OnAckTimeout(c)
           \/ \E t \in Thread : OnFrameError(t)
           \/ UNCHANGED allVars
    PROVE  FromBoard'
<1>1. SessionTypeOK /\ Caller \subseteq Thread \ {Reader} /\ Callback \subseteq Thread \ {Reader}
  BY ThreadAssumption DEF FromBoard, Thread
<1>2. /\ A # B /\ A \in End /\ B \in End
      /\ tx_seq \in [End -> SeqNo] /\ awaiting_ack \in [End -> BOOLEAN]
      /\ retain \in [End -> DataFrame \cup {NoFrame}] /\ sent \in [End -> Seq(Payload)]
      /\ writing \in [Thread -> Frame \cup {NoFrame}]
  BY <1>1, BoardFacts DEF SessionTypeOK, TypeOK
<1>3. BoardUntouched
  <2>1. ASSUME NEW t \in Caller, NEW m \in Payload, Send(t, m)
        PROVE  BoardUntouched
    BY <1>2, <2>1 DEF Send, PrepareTransmit, BoardUntouched
  <2>2. CASE \/ \E t \in Caller : Resume(t)
             \/ \E v \in AckTimeouts : SetAckTimeout(v)
             \/ \E c \in Callback : TimerFires(c) \/ OnAckTimeout(c)
             \/ \E t \in Thread : OnFrameError(t)
             \/ UNCHANGED allVars
    BY <2>2 DEF Resume, SetAckTimeout, TimerFires, OnAckTimeout, OnFrameError, threadVars,
                allVars, sessionVars, vars, arqVars, BoardUntouched
  <2>3. QED
    BY <2>1, <2>2
<1>4. UNCHANGED boardView
  BY <1>3 DEF BoardUntouched, boardView, Received, Expected
<1>5. NoNewAck
  <2>1. /\ retain[A].kind # "ack" /\ NoFrame.kind # "ack"
        /\ \A m : Data(Succ(tx_seq[A]), m).kind # "ack"
        /\ \A u \in Thread \ {Reader} : writing[u].kind # "ack"
    BY <1>1, NotAck DEF FromBoard, AcksDue
  <2>2. ASSUME NEW t \in Caller, NEW m \in Payload, Send(t, m)
        PROVE  NoNewAck
    <3>1. writing' \in {writing, [writing EXCEPT ![t] = Data(Succ(tx_seq[A]), m)]}
      BY <2>2 DEF Send, PrepareTransmit
    <3>2. QED
      BY <1>1, <1>2, <2>1, <3>1, WritesOther
  <2>3. ASSUME NEW t \in Caller, Resume(t)
        PROVE  NoNewAck
    <3>1. PICK f \in {retain[A], NoFrame} : writing' = [writing EXCEPT ![t] = f]
      BY <2>3 DEF Resume
    <3>2. QED
      BY <1>1, <1>2, <2>1, <3>1, WritesOther
  <2>4. ASSUME NEW c \in Callback, OnAckTimeout(c)
        PROVE  NoNewAck
    <3>1. writing' \in {writing, [writing EXCEPT ![c] = retain[A]]}
      BY <2>4 DEF OnAckTimeout
    <3>2. QED
      BY <1>1, <1>2, <2>1, <3>1, WritesOther
  <2>5. CASE \/ \E v \in AckTimeouts : SetAckTimeout(v)
             \/ \E c \in Callback : TimerFires(c)
             \/ \E t \in Thread : OnFrameError(t)
             \/ UNCHANGED allVars
    BY <2>1, <2>5 DEF SetAckTimeout, TimerFires, OnFrameError, threadVars, allVars,
                      sessionVars, NoNewAck
  <2>6. QED
    BY <2>2, <2>3, <2>4, <2>5
<1>6. QED
  BY <1>3, <1>4, <1>5, ViewStep DEF BoardUntouched, NoNewAck, FromBoard, AcksDue

\* WriteFrame: an ACK follows those that are on the line; other frames are none.
LEMMA WriteStep ==
    ASSUME FromBoard, SessionTypeOK', NEW t \in Thread, WriteFrame(t)
    PROVE  FromBoard'
<1> DEFINE f == writing[t]
<1>1. SessionTypeOK
  BY DEF FromBoard
<1>2. f \in Frame /\ f.seq \in SeqNo
  BY <1>1, BoardFacts, FrameFacts DEF WriteFrame
<1>3. wire'[A] = wire[A] /\ wire'[B] = Transmit(wire[B], f)
  BY <1>1, BoardFacts DEF WriteFrame
<1>4. UNCHANGED boardView
  BY DEF WriteFrame, arqVars, boardView, Received, Expected
<1>5. /\ \A u \in Thread \ {Reader} : writing'[u].kind # "ack"
      /\ AckFits(writing'[Reader], tx_seq[B], BoardAll, BoardLast)
  <2>1. \A u \in Thread : writing'[u] = writing[u] \/ writing'[u] = NoFrame
    BY <1>1, BoardFacts DEF WriteFrame
  <2>2. NoFrame.kind # "ack" /\ Reader \in Thread
    BY <1>1, NotAck, BoardFacts
  <2>3. QED
    BY <2>1, <2>2 DEF FromBoard, AcksDue, AckFits
<1>6. AckOn(Transmit(wire[B], f), tx_seq[B], BoardAll, awaiting_ack[B])
  <2>1. /\ wire[B] \in Seq(Frame) /\ tx_seq[B] \in SeqNo
        /\ BoardAll \in BOOLEAN /\ awaiting_ack[B] \in BOOLEAN
        /\ AckOn(wire[B], tx_seq[B], BoardAll, awaiting_ack[B])
    BY <1>1, BoardFacts DEF FromBoard
  <2>2. CASE f.kind # "ack"
    BY <1>2, <2>1, <2>2, AckOther
  <2>3. CASE f.kind = "ack"
    <3>1. t = Reader
      BY <2>3 DEF FromBoard, AcksDue
    <3>2. (f.seq = tx_seq[B] /\ BoardAll) \/ (f.seq = Pred(tx_seq[B]) /\ BoardLast)
      BY <2>3, <3>1 DEF FromBoard, AcksDue, AckFits
    <3>3. BoardLast => awaiting_ack[B] /\ ~BoardAll
      BY <1>1, BoardFacts DEF BoardLast
    <3>4. f = Ack(f.seq)
      BY <1>2, <2>3 DEF Ack, Frame, DataFrame, ControlFrame
    <3>5. AckOn(Transmit(wire[B], Ack(f.seq)), tx_seq[B], BoardAll, awaiting_ack[B])
      BY <1>2, <2>1, <3>2, <3>3, AckAgain
    <3>6. QED
      BY <3>4, <3>5
  <2>4. QED
    BY <2>2, <2>3
<1>7. QED
  BY <1>3, <1>4, <1>5, <1>6, ViewStep DEF FromBoard

\* The read task takes a frame off the line.
LEMMA HeadTaken ==
    ASSUME FromBoard, wire[A] # << >>, TakeHead
    PROVE  /\ wire'[A] = Tail(wire[A]) /\ wire'[B] = wire[B]
           /\ Head(wire[A]) \in Frame
           /\ DataOn(Tail(wire[A]), tx_seq[B], BoardLast, retain[B])
<1>1. SessionTypeOK
  BY DEF FromBoard
<1>2. /\ wire \in [End -> Seq(Frame)] /\ wire[A] \in Seq(Frame)
      /\ A \in End /\ A # B /\ BoardLast \in BOOLEAN
      /\ DataOn(wire[A], tx_seq[B], BoardLast, retain[B])
  BY <1>1, BoardFacts DEF FromBoard
<1>3. DataOn(Tail(wire[A]), tx_seq[B], BoardLast, retain[B])
  BY <1>2, DataTail
<1>4. QED
  BY <1>2, <1>3, TailFacts DEF TakeHead

\* It reads an ACK, a NACK or a damaged frame: it owes no ACK afterwards.
LEMMA ReadControlStep ==
    ASSUME FromBoard, SessionTypeOK', HandleAck \/ HandleNack \/ RejectCrc
    PROVE  FromBoard'
<1>1. SessionTypeOK
  BY DEF FromBoard
<1>2. wire[A] # << >> /\ TakeHead
  BY DEF HandleAck, HandleNack, RejectCrc, Reading, HeadIs
<1>3. /\ A # B /\ A \in End /\ B \in End /\ Reader \in Thread
      /\ tx_seq \in [End -> SeqNo] /\ awaiting_ack \in [End -> BOOLEAN]
      /\ retain \in [End -> DataFrame \cup {NoFrame}] /\ sent \in [End -> Seq(Payload)]
      /\ writing \in [Thread -> Frame \cup {NoFrame}]
      /\ expected_rx_seq[A] \in SeqNo
  BY <1>1, BoardFacts DEF SessionTypeOK, TypeOK
<1>4. UNCHANGED boardView
  <2>1. CASE HandleAck
    <3>1. UNCHANGED <<got, holding, expected_rx_seq>>
      BY <2>1 DEF HandleAck, PrepareTransmit, arqVars
    <3>2. /\ tx_seq'[B] = tx_seq[B] /\ awaiting_ack'[B] = awaiting_ack[B]
          /\ retain'[B] = retain[B] /\ sent'[B] = sent[B]
      BY <1>3, <2>1 DEF HandleAck, PrepareTransmit, arqVars
    <3>3. QED
      BY <3>1, <3>2 DEF boardView, Received, Expected
  <2>2. CASE HandleNack \/ RejectCrc
    BY <2>2 DEF HandleNack, RejectCrc, arqVars, boardView, Received, Expected
  <2>3. QED
    BY <2>1, <2>2
<1>5. \E f : f.kind # "ack" /\ writing' \in {writing, [writing EXCEPT ![Reader] = f]}
  <2>1. CASE HandleAck
    BY <1>1, <2>1, NotAck DEF HandleAck, PrepareTransmit
  <2>2. CASE HandleNack
    BY <1>1, <2>2, NotAck DEF HandleNack
  <2>3. CASE RejectCrc
    BY <1>1, <1>3, <2>3, NotAck DEF RejectCrc
  <2>4. QED
    BY <2>1, <2>2, <2>3
<1>6. /\ \A u \in Thread \ {Reader} : writing'[u].kind # "ack"
      /\ AckFits(writing'[Reader], tx_seq[B], BoardAll, BoardLast)
  BY <1>3, <1>5 DEF FromBoard, AcksDue, AckFits
<1>7. QED
  BY <1>2, <1>4, <1>6, HeadTaken, ViewStep DEF FromBoard

\* DispatchData on a frame that was delivered before, or is not expected at all.
LEMMA RepeatStep ==
    ASSUME FromBoard, SessionTypeOK', DispatchData, ~IsNew(A, Head(wire[A]))
    PROVE  FromBoard'
<1> DEFINE f == Head(wire[A])
<1> DEFINE t == tx_seq[B]
<1>1. SessionTypeOK
  BY DEF FromBoard
<1>2. wire[A] # << >> /\ TakeHead /\ f.kind = "data" /\ Ready
  BY DEF DispatchData, Reading, HeadIs
<1>3. /\ Reader \in Thread /\ writing \in [Thread -> Frame \cup {NoFrame}]
      /\ wire[A] \in Seq(Frame) /\ t \in SeqNo
      /\ expected_rx_seq[A] \in SeqNo
  BY <1>1, BoardFacts DEF SessionTypeOK, TypeOK
<1>4. holding = NoFrame /\ holding' = NoFrame
  BY <1>2 DEF DispatchData, Ready
<1>5. UNCHANGED boardView
  BY <1>4 DEF DispatchData, arqVars, boardView, Received, Expected
<1>6. Expected = expected_rx_seq[A]
  BY <1>4 DEF Expected
<1>7. (f.seq = t /\ BoardAll) \/ (f.seq = Pred(t) /\ BoardLast)
  <2>1. \/ f.seq = t
        \/ f.seq = Pred(t) /\ BoardLast
    BY <1>2, <1>3, TailFacts DEF FromBoard, DataOn
  <2>2. BoardLast => f.seq # t
    BY <1>6 DEF BoardLast, IsNew
  <2>3. QED
    BY <2>1, <2>2 DEF FromBoard
<1>8. AckFits(writing'[Reader], t, BoardAll, BoardLast)
  <2>1. writing'[Reader] \in {Ack(f.seq), Nack(expected_rx_seq[A])}
    BY <1>3 DEF DispatchData
  <2>2. QED
    BY <1>3, <1>7, <2>1 DEF AckFits, Ack, Nack
<1>9. \A u \in Thread \ {Reader} : writing'[u].kind # "ack"
  BY <1>3 DEF DispatchData, FromBoard, AcksDue
<1>10. QED
  BY <1>2, <1>5, <1>8, <1>9, HeadTaken, ViewStep DEF FromBoard

\* Only the frame outstanding at the board is new to the session.
LEMMA NewIsOutstanding ==
    ASSUME FromBoard, DispatchData, IsNew(A, Head(wire[A]))
    PROVE  /\ BoardLast /\ holding = NoFrame
           /\ Head(wire[A]) = retain[B] /\ Head(wire[A]).seq = tx_seq[B]
           /\ Head(wire[A]) \in DataFrame
           /\ Received' = Append(Received, retain[B].msg)
           /\ Expected' = Succ(tx_seq[B])
<1> DEFINE f == Head(wire[A])
<1> DEFINE t == tx_seq[B]
<1>1. SessionTypeOK
  BY DEF FromBoard
<1>2. wire[A] # << >> /\ f.kind = "data" /\ holding = NoFrame
  BY DEF DispatchData, Reading, HeadIs, Ready
<1>3. wire[A] \in Seq(Frame) /\ t \in SeqNo /\ Succ(t) # t /\ Pred(t) # t
  BY <1>1, BoardFacts, SeqNoFacts
<1>4. f \in DataFrame /\ f # NoFrame
  BY <1>2, <1>3, TailFacts, FrameFacts
<1>5. f.seq = Expected
  BY <1>2 DEF IsNew, Expected
<1>6. \/ f.seq = t /\ (BoardLast => f = retain[B])
      \/ f.seq = Pred(t) /\ BoardLast
  BY <1>2, <1>3, TailFacts DEF FromBoard, DataOn
<1>7. BoardLast
  <2>1. BoardAll => f.seq = Succ(t) /\ ~BoardLast
    BY <1>1, <1>5, BoardFacts DEF BoardAll
  <2>2. QED
    BY <1>3, <1>6, <2>1 DEF FromBoard
<1>8. f = retain[B] /\ f.seq = t
  BY <1>3, <1>5, <1>6, <1>7 DEF BoardLast
<1>9. holding' = f /\ got' = got
  BY DEF DispatchData
<1>10. QED
  BY <1>2, <1>4, <1>7, <1>8, <1>9 DEF Received, Expected

\* DispatchData on the frame expected: it counts as delivered, and its ACK is due.
LEMMA NewStep ==
    ASSUME FromBoard, SessionTypeOK', DispatchData, IsNew(A, Head(wire[A]))
    PROVE  FromBoard'
<1> DEFINE f == Head(wire[A])
<1> DEFINE t == tx_seq[B]
<1>1. SessionTypeOK
  BY DEF FromBoard
<1>2. /\ BoardLast /\ f = retain[B] /\ f.seq = t
      /\ Received' = Append(Received, retain[B].msg) /\ Expected' = Succ(t)
  BY NewIsOutstanding
<1>3. wire[A] # << >> /\ TakeHead /\ f.kind = "data"
  BY DEF DispatchData, Reading, HeadIs
<1>4. /\ Reader \in Thread /\ writing \in [Thread -> Frame \cup {NoFrame}]
      /\ wire[A] \in Seq(Frame) /\ t \in SeqNo /\ Succ(t) # t
      /\ BoardLast \in BOOLEAN /\ BoardAll \in BOOLEAN /\ ~BoardAll
  BY <1>1, <1>2, BoardFacts
<1>5. /\ tx_seq' = tx_seq /\ awaiting_ack' = awaiting_ack
      /\ retain' = retain /\ sent' = sent
  BY DEF DispatchData, arqVars
<1>6. BoardAll' /\ ~BoardLast'
  BY <1>2, <1>4, <1>5 DEF BoardAll, BoardLast
<1>7. wire'[A] = Tail(wire[A]) /\ wire'[B] = wire[B]
  BY <1>3, HeadTaken
<1>8. DataOn(wire[A], t, BoardLast, retain[B])'
  <2>1. DataOn(wire[A], t, TRUE, retain[B])
    BY <1>2, <1>4 DEF FromBoard
  <2>2. DataOn(Tail(wire[A]), t, FALSE, retain[B])
    BY <1>2, <1>3, <1>4, <2>1, DataDelivered
  <2>3. BoardLast' = FALSE
    BY <1>6 DEF BoardLast
  <2>4. QED
    BY <1>5, <1>7, <2>2, <2>3
<1>9. AckOn(wire[B], t, BoardAll, awaiting_ack[B])'
  BY <1>5, <1>6, <1>7 DEF FromBoard, AckOn
<1>10. AcksDue'
  <2>1. writing' = [writing EXCEPT ![Reader] = Ack(t)]
    BY <1>2 DEF DispatchData
  <2>2. \A u \in Thread \ {Reader} : writing'[u].kind # "ack"
    BY <1>4, <2>1 DEF FromBoard, AcksDue
  <2>3. writing'[Reader].seq = t
    BY <1>4, <2>1 DEF Ack
  <2>4. QED
    BY <1>5, <1>6, <2>2, <2>3 DEF AcksDue, AckFits
<1>11. BoardRetains'
  BY <1>5 DEF FromBoard, BoardRetains
<1>12. QED
  BY <1>6, <1>8, <1>9, <1>10, <1>11 DEF FromBoard

\* OnFrameReceived changes neither what counts as delivered nor what is expected.
LEMMA ReceivedStep ==
    ASSUME FromBoard, SessionTypeOK', OnFrameReceived
    PROVE  FromBoard'
<1>1. /\ SessionTypeOK /\ A \in End
      /\ expected_rx_seq \in [End -> SeqNo] /\ got \in [End -> Seq(Payload)]
  BY BoardFacts DEF FromBoard, SessionTypeOK, TypeOK
<1>2. /\ holding # NoFrame /\ holding' = NoFrame
      /\ expected_rx_seq'[A] = Succ(holding.seq)
      /\ got'[A] = Append(got[A], holding.msg)
  BY <1>1 DEF OnFrameReceived
<1>3. UNCHANGED <<tx_seq, awaiting_ack, retain, wire, sent, writing>>
  BY DEF OnFrameReceived
<1>4. UNCHANGED boardView
  BY <1>2, <1>3 DEF boardView, Received, Expected
<1>5. QED
  BY <1>3, <1>4, ViewStep DEF FromBoard, AcksDue

-----------------------------------------------------------------------------
(***************************************************************************)
(* The board and the line.                                                 *)
(***************************************************************************)

\* A step of the board or the line leaves the session alone.
LEMMA SessionUntouched ==
    ASSUME UNCHANGED sessionVars, expected_rx_seq'[A] = expected_rx_seq[A], got'[A] = got[A]
    PROVE  /\ Received' = Received /\ Expected' = Expected
           /\ writing' = writing
BY DEF sessionVars, threadVars, Received, Expected

\* frame_arq_put of the board.
LEMMA BoardPutStep ==
    ASSUME FromBoard, SessionTypeOK', UNCHANGED sessionVars, NEW m \in Payload, Put(B, m)
    PROVE  FromBoard'
<1> DEFINE t == tx_seq[B]
<1> DEFINE f == Data(Succ(t), m)
<1>1. SessionTypeOK
  BY DEF FromBoard
<1>2. /\ A \in End /\ B \in End /\ A # B /\ Peer(B) = A
      /\ t \in SeqNo /\ Succ(t) # t /\ Succ(t) \in SeqNo /\ Pred(Succ(t)) = t
      /\ wire \in [End -> Seq(Frame)] /\ wire[A] \in Seq(Frame) /\ wire[B] \in Seq(Frame)
      /\ tx_seq \in [End -> SeqNo] /\ awaiting_ack \in [End -> BOOLEAN]
      /\ retain \in [End -> DataFrame \cup {NoFrame}] /\ sent \in [End -> Seq(Payload)]
  BY <1>1, BoardFacts, EndFacts, SeqNoFacts DEF SessionTypeOK, TypeOK
<1>3. f \in Frame /\ f.seq = Succ(t) /\ f.msg = m /\ f # NoFrame
  BY <1>2, FrameFacts
<1>4. /\ tx_seq'[B] = Succ(t) /\ retain'[B] = f /\ awaiting_ack'[B] = TRUE
      /\ sent'[B] = Append(sent[B], m)
      /\ wire'[A] = Transmit(wire[A], f) /\ wire'[B] = wire[B]
  BY <1>2, <1>3 DEF Put
<1>5. Received' = Received /\ Expected' = Expected /\ writing' = writing
  BY SessionUntouched DEF Put
<1>6. awaiting_ack[B] = FALSE /\ BoardAll /\ ~BoardLast
  BY <1>1, <1>2, BoardFacts DEF Put, FromBoard, BoardLast
<1>7. BoardLast' /\ ~BoardAll'
  <2>1. Received = sent[B] /\ Expected = Succ(t)
    BY <1>6 DEF BoardAll
  <2>2. BoardLast'
    BY <1>3, <1>4, <1>5, <2>1 DEF BoardLast
  <2>3. Succ(Succ(t)) # Succ(t)
    BY <1>2, SeqNoFacts
  <2>4. QED
    BY <1>4, <1>5, <2>1, <2>2, <2>3 DEF BoardAll
<1>8. DataOn(wire[A], t, BoardLast, retain[B])'
  <2>1. DataOn(wire[A], t, FALSE, retain[B])
    BY <1>6 DEF FromBoard, BoardLast
  <2>2. DataOn(Transmit(wire[A], f), Succ(t), TRUE, f)
    BY <1>2, <1>3, <2>1, DataPut
  <2>3. BoardLast' = TRUE
    BY <1>7 DEF BoardLast
  <2>4. QED
    BY <1>4, <2>2, <2>3
<1>9. AckOn(wire[B], t, BoardAll, awaiting_ack[B])'
  <2>1. AckOn(wire[B], t, TRUE, FALSE)
    BY <1>6 DEF FromBoard, BoardAll
  <2>2. AckOn(wire[B], Succ(t), FALSE, TRUE)
    BY <1>2, <2>1, AckPut
  <2>3. BoardAll' = FALSE
    BY <1>7 DEF BoardAll
  <2>4. QED
    BY <1>4, <2>2, <2>3
<1>10. AcksDue'
  <2>1. writing[Reader].kind = "ack" => writing[Reader].seq = t
    BY <1>6 DEF FromBoard, AcksDue, AckFits
  <2>2. AckFits(writing[Reader], Succ(t), BoardAll', BoardLast')
    BY <1>2, <1>7, <2>1 DEF AckFits
  <2>3. QED
    BY <1>4, <1>5, <2>2 DEF FromBoard, AcksDue
<1>11. BoardRetains'
  BY <1>3, <1>4 DEF BoardRetains
<1>12. QED
  BY <1>7, <1>8, <1>9, <1>10, <1>11 DEF FromBoard

\* The board takes a frame off its line: what is left is ordered.
LEMMA BoardTail ==
    ASSUME FromBoard, wire[B] # << >>
    PROVE  /\ Head(wire[B]) \in Frame
           /\ AckOn(Tail(wire[B]), tx_seq[B], BoardAll, awaiting_ack[B])
<1>1. SessionTypeOK
  BY DEF FromBoard
<1>2. /\ wire[B] \in Seq(Frame)
      /\ BoardAll \in BOOLEAN /\ awaiting_ack[B] \in BOOLEAN
  BY <1>1, BoardFacts
<1>3. QED
  BY <1>2, AckTail, TailFacts DEF FromBoard

\* A step of the board that changes nothing but the line, and resend_needed.
LEMMA LineOnly ==
    ASSUME FromBoard, SessionTypeOK', UNCHANGED sessionVars,
           UNCHANGED <<tx_seq, expected_rx_seq[A], awaiting_ack, retain, sent, got[A]>>,
           DataOn(wire'[A], tx_seq[B], BoardLast, retain[B]),
           AckOn(wire'[B], tx_seq[B], BoardAll, awaiting_ack[B])
    PROVE  FromBoard'
<1>1. Received' = Received /\ Expected' = Expected /\ writing' = writing
  BY SessionUntouched
<1>2. UNCHANGED boardView
  BY <1>1 DEF boardView
<1>3. QED
  BY <1>1, <1>2, ViewStep DEF FromBoard, AcksDue

\* frame_arq_get of the board reads an ACK.
LEMMA BoardAckStep ==
    ASSUME FromBoard, SessionTypeOK', UNCHANGED sessionVars, GetAck(B)
    PROVE  FromBoard'
<1> DEFINE t == tx_seq[B]
<1>1. SessionTypeOK /\ TypeOK
  BY DEF FromBoard, SessionTypeOK
<1>2. /\ B \in End /\ A \in End /\ A # B /\ Peer(B) = A
      /\ wire[B] \in Seq(Frame) /\ wire[A] \in Seq(Frame) /\ wire[B] # << >>
      /\ Head(wire[B]).kind = "ack" /\ t \in SeqNo
      /\ BoardAll \in BOOLEAN /\ awaiting_ack[B] \in BOOLEAN
      /\ awaiting_ack \in [End -> BOOLEAN]
  BY <1>1, BoardFacts, EndFacts DEF GetAck, HeadIs, TypeOK
<1>3. wire'[B] = Tail(wire[B]) /\ wire'[A] = wire[A]
  BY <1>1, <1>2, ReceiveFacts DEF GetAck
<1>4. UNCHANGED <<tx_seq, expected_rx_seq, retain, sent, got>>
  BY DEF GetAck
<1>5. CASE ~(awaiting_ack[B] /\ Head(wire[B]).seq = t)
  <2>1. awaiting_ack' = awaiting_ack
    BY <1>2, <1>5 DEF GetAck, Frees
  <2>2. QED
    BY <1>2, <1>3, <1>4, <2>1, BoardTail, LineOnly DEF FromBoard
<1>6. CASE awaiting_ack[B] /\ Head(wire[B]).seq = t
  <2>1. BoardAll /\ AckOn(Tail(wire[B]), t, TRUE, FALSE)
    BY <1>2, <1>6, AckConfirmed DEF FromBoard
  <2>2. awaiting_ack'[B] = FALSE
    BY <1>2, <1>6 DEF GetAck, Frees
  <2>3. Received' = Received /\ Expected' = Expected /\ writing' = writing
    BY <1>4, SessionUntouched
  <2>4. BoardAll' = TRUE /\ BoardAll = TRUE
    BY <1>4, <2>1, <2>3 DEF BoardAll
  <2>5. BoardLast' = FALSE /\ BoardLast = FALSE
    BY <1>1, <2>1, <2>2, BoardFacts DEF BoardLast
  <2>6. DataOn(wire[A], t, BoardLast, retain[B])'
    BY <1>3, <1>4, <2>5 DEF FromBoard
  <2>7. AckOn(wire[B], t, BoardAll, awaiting_ack[B])'
    BY <1>3, <1>4, <2>1, <2>2, <2>4
  <2>8. AcksDue'
    BY <1>4, <2>3, <2>4, <2>5 DEF FromBoard, AcksDue, AckFits
  <2>9. BoardRetains'
    BY <2>2 DEF BoardRetains
  <2>10. QED
    BY <2>4, <2>6, <2>7, <2>8, <2>9 DEF FromBoard
<1>7. QED
  BY <1>5, <1>6

\* The other calls of the board, and the losses on the line.
LEMMA BoardLineStep ==
    ASSUME FromBoard, SessionTypeOK', UNCHANGED sessionVars,
           \/ Resend(B) \/ GetNack(B) \/ GetData(B) \/ GetDuplicate(B)
           \/ GetUnexpected(B) \/ GetCrcError(B) \/ Lose(B) \/ Lose(A)
    PROVE  FromBoard'
<1> DEFINE t == tx_seq[B]
<1>1. SessionTypeOK /\ TypeOK
  BY DEF FromBoard, SessionTypeOK
<1>2. /\ B \in End /\ A \in End /\ A # B /\ Peer(B) = A /\ Peer(A) = B
      /\ wire[B] \in Seq(Frame) /\ wire[A] \in Seq(Frame) /\ t \in SeqNo
      /\ BoardLast \in BOOLEAN /\ expected_rx_seq[B] \in SeqNo
      /\ retain[B] \in DataFrame \cup {NoFrame}
  BY <1>1, BoardFacts, EndFacts DEF TypeOK
<1>3. /\ DataOn(wire[A], t, BoardLast, retain[B])
      /\ AckOn(wire[B], t, BoardAll, awaiting_ack[B])
  BY DEF FromBoard
<1>4. CASE Resend(B)
  <2>1. retain[B] \in Frame /\ retain[B].seq = t
    BY <1>2, <1>4, FrameFacts DEF Resend, FromBoard, BoardRetains
  <2>2. wire'[A] = Transmit(wire[A], retain[B]) /\ wire'[B] = wire[B]
    BY <1>1, <1>2, <1>4, <2>1, SendFacts DEF Resend
  <2>3. DataOn(Transmit(wire[A], retain[B]), t, BoardLast, retain[B])
    BY <1>2, <1>3, <2>1, DataResent
  <2>4. QED
    BY <1>3, <1>4, <2>2, <2>3, LineOnly DEF Resend
<1>5. CASE GetNack(B) \/ Lose(B)
  <2>1. wire[B] # << >> /\ Receive(B, wire[A])
    BY <1>2, <1>5 DEF GetNack, Lose, HeadIs
  <2>2. wire'[B] = Tail(wire[B]) /\ wire'[A] = wire[A]
    BY <1>1, <1>2, <2>1, ReceiveFacts
  <2>3. UNCHANGED <<tx_seq, expected_rx_seq, awaiting_ack, retain, sent, got>>
    BY <1>5 DEF GetNack, Lose, arqVars
  <2>4. QED
    BY <1>3, <2>1, <2>2, <2>3, BoardTail, LineOnly
<1>6. CASE Lose(A)
  <2>1. wire[A] # << >> /\ Receive(A, wire[B])
    BY <1>2, <1>6 DEF Lose
  <2>2. wire'[A] = Tail(wire[A]) /\ wire'[B] = wire[B]
    BY <1>1, <1>2, <2>1, ReceiveFacts
  <2>3. DataOn(Tail(wire[A]), t, BoardLast, retain[B])
    BY <1>2, <1>3, <2>1, DataTail
  <2>4. QED
    BY <1>3, <1>6, <2>2, <2>3, LineOnly DEF Lose, arqVars
<1>7. CASE GetData(B) \/ GetDuplicate(B) \/ GetUnexpected(B) \/ GetCrcError(B)
  <2>1. /\ wire[B] # << >>
        /\ \E f \in Frame : f.kind # "data" /\ Reply(B, f)
    <3>1. wire[B] # << >>
      BY <1>7 DEF GetData, GetDuplicate, GetUnexpected, GetCrcError, HeadIs
    <3>2. Head(wire[B]).seq \in SeqNo
      BY <1>2, <3>1, TailFacts, FrameFacts
    <3>3. /\ Ack(Head(wire[B]).seq) \in Frame /\ Nack(expected_rx_seq[B]) \in Frame
          /\ Ack(Head(wire[B]).seq).kind # "data" /\ Nack(expected_rx_seq[B]).kind # "data"
      BY <1>2, <3>2, FrameFacts
    <3>4. Reply(B, Ack(Head(wire[B]).seq)) \/ Reply(B, Nack(expected_rx_seq[B]))
      BY <1>7 DEF GetData, GetDuplicate, GetUnexpected, GetCrcError
    <3>5. QED
      BY <3>1, <3>3, <3>4
  <2>2. PICK f \in Frame : f.kind # "data" /\ Reply(B, f)
    BY <2>1
  <2>3. wire'[B] = Tail(wire[B]) /\ wire'[A] = Transmit(wire[A], f)
    BY <1>1, <1>2, <2>1, <2>2, ReplyFacts
  <2>4. DataOn(Transmit(wire[A], f), t, BoardLast, retain[B])
    BY <1>2, <1>3, <2>2, DataControl
  <2>5. UNCHANGED <<tx_seq, awaiting_ack, retain, sent>>
    BY <1>7 DEF GetData, GetDuplicate, GetUnexpected, GetCrcError, IsNew, IsRepeat, arqVars
  <2>6. expected_rx_seq'[A] = expected_rx_seq[A] /\ got'[A] = got[A]
    BY <1>1, <1>2, <1>7
       DEF GetData, GetDuplicate, GetUnexpected, GetCrcError, IsNew, IsRepeat, arqVars, TypeOK
  <2>7. QED
    BY <2>1, <2>3, <2>4, <2>5, <2>6, BoardTail, LineOnly
<1>8. QED
  BY <1>4, <1>5, <1>6, <1>7

-----------------------------------------------------------------------------
(***************************************************************************)
(* The invariant of this direction, and the abstract link it implements.   *)
(***************************************************************************)

\* It holds at the start,
LEMMA FromBoardInit ==
    ASSUME SessionInit
    PROVE  FromBoard
<1>1. /\ SessionTypeOK /\ A \in End /\ B \in End
  BY SessionTypeInit, BoardFacts
<1>2. Succ(TxSeqStart) = 0
  BY SeqModAssumption DEF Succ, TxSeqStart
<1>3. BoardAll
  BY <1>1, <1>2 DEF SessionInit, Init, BoardAll, Received, Expected
<1>4. BoardRetains
  BY <1>1 DEF SessionInit, Init, BoardRetains
<1>5. wire[A] = << >> /\ wire[B] = << >>
  BY <1>1 DEF SessionInit, Init
<1>6. /\ DataOn(wire[A], tx_seq[B], BoardLast, retain[B])
      /\ AckOn(wire[B], tx_seq[B], BoardAll, awaiting_ack[B])
  BY <1>5 DEF DataOn, AckOn, LastOfKind
<1>7. AcksDue
  BY <1>1, NotAck, BoardFacts DEF SessionInit, AcksDue, AckFits
<1>8. QED
  BY <1>1, <1>3, <1>4, <1>6, <1>7 DEF FromBoard

\* and every step keeps it.
LEMMA FromBoardStep ==
    ASSUME FromBoard, [SessionNext]_allVars
    PROVE  FromBoard'
<1>1. SessionTypeOK'
  BY SessionTypeStep DEF FromBoard
<1>2. CASE Board
  BY <1>1, <1>2, BoardPutStep, BoardAckStep, BoardLineStep DEF Board, Get
<1>3. CASE LineLoss
  BY <1>1, <1>3, BoardLineStep DEF LineLoss
<1>4. CASE DispatchData
  BY <1>1, <1>4, RepeatStep, NewStep
<1>5. CASE \/ HandleAck \/ HandleNack \/ RejectCrc \/ OnFrameReceived
           \/ \E t \in Thread : WriteFrame(t)
  BY <1>1, <1>5, ReadControlStep, ReceivedStep, WriteStep
<1>6. CASE \/ \E t \in Caller : Resume(t) \/ \E m \in Payload : Send(t, m)
           \/ \E v \in AckTimeouts : SetAckTimeout(v)
           \/ \E c \in Callback : TimerFires(c) \/ OnAckTimeout(c)
           \/ \E t \in Thread : OnFrameError(t)
           \/ UNCHANGED allVars
  BY <1>1, <1>6, QuietStep
<1>7. QED
  BY <1>2, <1>3, <1>4, <1>5, <1>6 DEF SessionNext

\* The steps of the session, but for the delivery, change nothing its peer's
\* users can see.
LEMMA SessionIsQuiet ==
    ASSUME FromBoard, [SessionNext]_allVars, ~Board,
           ~(DispatchData /\ IsNew(A, Head(wire[A])))
    PROVE  UNCHANGED <<sent[B], Received, awaiting_ack[B]>>
<1>1. /\ A # B /\ A \in End /\ B \in End
      /\ expected_rx_seq \in [End -> SeqNo] /\ got \in [End -> Seq(Payload)]
      /\ awaiting_ack \in [End -> BOOLEAN] /\ sent \in [End -> Seq(Payload)]
      /\ holding \in DataFrame \cup {NoFrame}
  BY BoardFacts DEF FromBoard, SessionTypeOK, TypeOK
<1>2. CASE LineLoss
  BY <1>1, <1>2 DEF LineLoss, Lose, arqVars, sessionVars, threadVars, Received
<1>3. CASE DispatchData
  <2>1. holding = NoFrame /\ holding' = NoFrame
    BY <1>3 DEF DispatchData, Reading, Ready
  <2>2. QED
    BY <1>3, <2>1 DEF DispatchData, arqVars, Received
<1>4. CASE HandleAck
  <2>1. got' = got /\ holding' = holding
    BY <1>4 DEF HandleAck
  <2>2. sent'[B] = sent[B] /\ awaiting_ack'[B] = awaiting_ack[B]
    BY <1>1, <1>4 DEF HandleAck, PrepareTransmit, arqVars
  <2>3. QED
    BY <2>1, <2>2 DEF Received
<1>5. CASE OnFrameReceived
  BY <1>1, <1>5 DEF OnFrameReceived, Received
<1>6. ASSUME NEW t \in Caller, NEW m \in Payload, Send(t, m)
      PROVE  UNCHANGED <<sent[B], Received, awaiting_ack[B]>>
  <2>1. got' = got /\ holding' = holding
    BY <1>6 DEF Send
  <2>2. sent'[B] = sent[B] /\ awaiting_ack'[B] = awaiting_ack[B]
    BY <1>1, <1>6 DEF Send, PrepareTransmit
  <2>3. QED
    BY <2>1, <2>2 DEF Received
<1>7. CASE \/ HandleNack \/ RejectCrc
           \/ \E t \in Thread : WriteFrame(t) \/ OnFrameError(t)
           \/ \E t \in Caller : Resume(t)
           \/ \E v \in AckTimeouts : SetAckTimeout(v)
           \/ \E c \in Callback : TimerFires(c) \/ OnAckTimeout(c)
           \/ UNCHANGED allVars
  BY <1>7 DEF HandleNack, RejectCrc, WriteFrame, OnFrameError, Resume, SetAckTimeout,
              TimerFires, OnAckTimeout, threadVars, allVars, sessionVars, vars, arqVars, Received
<1>8. QED
  BY <1>2, <1>3, <1>4, <1>5, <1>6, <1>7 DEF SessionNext

\* The board's put is the Accept of the abstract link, its ACK the Confirm, which
\* finds that everything was delivered; its other calls change nothing.
LEMMA BoardLinkStep ==
    ASSUME FromBoard, Board
    PROVE  ToSession!Accept \/ ToSession!Confirm \/ UNCHANGED ToSession!vars
<1>1. /\ A # B /\ A \in End /\ B \in End /\ Peer(B) = A
      /\ wire \in [End -> Seq(Frame)]
      /\ expected_rx_seq \in [End -> SeqNo] /\ got \in [End -> Seq(Payload)]
      /\ awaiting_ack \in [End -> BOOLEAN] /\ sent \in [End -> Seq(Payload)]
  BY BoardFacts, EndFacts DEF FromBoard, SessionTypeOK, TypeOK
<1>2. UNCHANGED sessionVars
  BY DEF Board
<1>3. got'[A] = got[A] /\ expected_rx_seq'[A] = expected_rx_seq[A]
  BY <1>1 DEF Board, Put, Resend, Get, GetAck, GetNack, GetData, GetDuplicate,
              GetUnexpected, GetCrcError, arqVars
<1>4. Received' = Received
  BY <1>2, <1>3, SessionUntouched
<1>5. ASSUME NEW m \in Payload, Put(B, m)
      PROVE  ToSession!Accept
  BY <1>1, <1>4, <1>5 DEF Put, ToSession!Accept
<1>6. CASE GetAck(B)
  <2>1. sent' = sent
    BY <1>6 DEF GetAck
  <2>2. CASE ~Frees(B, Head(wire[B]))
    <3>1. awaiting_ack'[B] = awaiting_ack[B]
      BY <1>1, <1>6, <2>2 DEF GetAck
    <3>2. QED
      BY <1>4, <2>1, <3>1 DEF ToSession!vars
  <2>3. CASE Frees(B, Head(wire[B]))
    <3>1. awaiting_ack[B] /\ Head(wire[B]).seq = tx_seq[B] /\ Head(wire[B]).kind = "ack"
      BY <1>6, <2>3 DEF GetAck, Frees, HeadIs
    <3>2. BoardAll
      <4>1. /\ wire[B] \in Seq(Frame) /\ wire[B] # << >> /\ tx_seq[B] \in SeqNo
            /\ BoardAll \in BOOLEAN
        BY <1>6, BoardFacts DEF FromBoard, GetAck, HeadIs
      <4>2. QED
        BY <3>1, <4>1, AckConfirmed DEF FromBoard
    <3>3. awaiting_ack'[B] = FALSE
      BY <1>1, <1>6, <3>1 DEF GetAck, Frees
    <3>4. QED
      BY <1>4, <2>1, <3>1, <3>2, <3>3 DEF BoardAll, ToSession!Confirm
  <2>4. QED
    BY <2>2, <2>3
<1>7. CASE \/ Resend(B) \/ GetNack(B) \/ GetData(B) \/ GetDuplicate(B)
           \/ GetUnexpected(B) \/ GetCrcError(B)
  BY <1>4, <1>7 DEF Resend, GetNack, GetData, GetDuplicate, GetUnexpected, GetCrcError,
                    arqVars, ToSession!vars
<1>8. QED
  BY <1>5, <1>6, <1>7 DEF Board, Get

\* DispatchData on the frame expected is the Deliver of the abstract link.
LEMMA DeliverStep ==
    ASSUME FromBoard, DispatchData, IsNew(A, Head(wire[A]))
    PROVE  ToSession!Deliver
<1> DEFINE m == retain[B].msg
<1>1. /\ Received' = Append(Received, m) /\ sent[B] = Append(Received, m)
  BY NewIsOutstanding DEF BoardLast
<1>2. m \in Payload /\ Received \in Seq(Payload)
  <2>1. retain[B] \in DataFrame /\ holding = NoFrame
    BY NewIsOutstanding
  <2>2. got[A] \in Seq(Payload)
    BY BoardFacts DEF FromBoard, SessionTypeOK, TypeOK
  <2>3. QED
    BY <2>1, <2>2, FrameFacts DEF Received
<1>3. Len(Received) < Len(sent[B]) /\ sent[B][Len(Received) + 1] = m
  BY <1>1, <1>2
<1>4. sent' = sent /\ awaiting_ack' = awaiting_ack
  BY DEF DispatchData, arqVars
<1>5. QED
  BY <1>1, <1>3, <1>4 DEF ToSession!Deliver

\* What the board puts is handed to OnFrameReceived once, in order, and confirmed
\* to the board only after the read task took it, although the ACK and the advance
\* of _expectedRxSeq come later, and callbacks write old frames at any time: the
\* half of SessionLinkImplemented that is about this direction.
THEOREM BoardToSession == SessionSpec => ToSession!Spec
<1>1. SessionInit => ToSession!Init
  BY EndFacts DEF SessionInit, Init, Received, ToSession!Init
<1>2. ASSUME FromBoard, [SessionNext]_allVars
      PROVE  [ToSession!Next]_ToSession!vars
  <2>1. CASE Board
    BY <1>2, <2>1, BoardLinkStep DEF ToSession!Next
  <2>2. CASE DispatchData /\ IsNew(A, Head(wire[A]))
    BY <1>2, <2>2, DeliverStep DEF ToSession!Next
  <2>3. CASE ~Board /\ ~(DispatchData /\ IsNew(A, Head(wire[A])))
    BY <1>2, <2>3, SessionIsQuiet DEF ToSession!vars
  <2>4. QED
    BY <2>1, <2>2, <2>3
<1>3. FromBoard /\ [SessionNext]_allVars => FromBoard'
  BY FromBoardStep
<1>4. SessionInit => FromBoard
  BY FromBoardInit
<1>5. QED
  BY <1>1, <1>2, <1>3, <1>4, PTL DEF SessionSpec, ToSession!Spec

-----------------------------------------------------------------------------
(***************************************************************************)
(* From the session to the board.  A thread may write a frame when others  *)
(* have followed it, so that the copies on the line are in no order.  What *)
(* tells a late copy from a new frame is that fewer frames than there are  *)
(* sequence numbers have followed it.                                      *)
(***************************************************************************)

\* The seq d frames before t.
Back(t, d) == (t - d) % SeqMod

\* The last n frames of the session.
Recent(n) ==
    {Data(Back(tx_seq[A], d), sent[A][Len(sent[A]) - d]) :
        d \in {k \in 0 .. n - 1 : k < Len(sent[A])}}

\* No thread is held up, between its decision to write a frame and the write, while
\* all the other sequence numbers are used.
Prompt ==
    \A t \in Thread : writing[t].kind = "data" => writing[t] \in Recent(SeqMod - 1)

\* The DATA frames on w are in R; those behind one with seq t are in S.
CopiesOn(w, t, R, S) ==
    /\ \A i \in DOMAIN w : w[i].kind = "data" => w[i] \in R
    /\ \A i, j \in DOMAIN w :
          j < i /\ w[i].kind = "data" /\ w[j].kind = "data" /\ w[j].seq = t
              => w[i] \in S

\* What the board may still have to read: frames recent for what it has had, and
\* behind a copy of the frame in flight, for when it has had that one too.
Readable == Recent(IF AllDelivered(A) THEN SeqMod - 1 ELSE SeqMod)

ToBoard ==
    /\ SessionTypeOK
    /\ AllDelivered(A) \/ LastOutstanding(A)
    /\ AckOn(wire[A], tx_seq[A], AllDelivered(A), awaiting_ack[A])
    /\ CopiesOn(wire[B], tx_seq[A], Readable, Recent(SeqMod - 1))

\* What the two ends of this direction remember.
sessionView ==
    <<tx_seq[A], awaiting_ack[A], retain[A], sent[A], got[B], expected_rx_seq[B]>>

\* Going back from a sequence number.
LEMMA BackFacts ==
    ASSUME NEW t \in SeqNo, NEW d \in 0 .. SeqMod - 1
    PROVE  /\ Back(t, d) \in SeqNo
           /\ Back(t, 0) = t
           /\ Back(t, d) = t => d = 0
           /\ Back(t, d) = Succ(t) => d = SeqMod - 1
           /\ d < SeqMod - 1 => Back(Succ(t), d + 1) = Back(t, d)
<1>1. /\ t \in Int /\ 0 <= t /\ t <= SeqMod - 1 /\ SeqMod \in Nat /\ SeqMod >= 2
      /\ d \in Int /\ 0 <= d /\ d <= SeqMod - 1
  BY SeqModAssumption DEF SeqNo
<1>2. \A s, k \in Int : 0 <= s /\ s < SeqMod /\ 0 <= k /\ k < SeqMod =>
          Back(s, k) = IF k <= s THEN s - k ELSE s - k + SeqMod
  BY <1>1 DEF Back
<1>3. Succ(t) = IF t = SeqMod - 1 THEN 0 ELSE t + 1
  BY <1>1 DEF Succ
<1>4. Back(t, d) = IF d <= t THEN t - d ELSE t - d + SeqMod
  BY <1>1, <1>2
<1>5. Back(t, 0) = t
  BY <1>1, <1>2
<1>6. ASSUME d < SeqMod - 1
      PROVE  Back(Succ(t), d + 1) = Back(t, d)
  <2> DEFINE s == Succ(t)
  <2> DEFINE k == d + 1
  <2>1. s \in Int /\ 0 <= s /\ s < SeqMod /\ k \in Int /\ 0 <= k /\ k < SeqMod
    BY <1>1, <1>3, <1>6
  <2>2. Back(s, k) = IF k <= s THEN s - k ELSE s - k + SeqMod
    BY <1>2, <2>1
  <2>3. QED
    BY <1>1, <1>3, <1>4, <2>2
<1>7. QED
  BY <1>1, <1>3, <1>4, <1>5, <1>6 DEF SeqNo

\* A line stays as CopiesOn says when its head is taken,
LEMMA CopiesTail ==
    ASSUME NEW w \in Seq(Frame), w # << >>, NEW t, NEW R, NEW S, CopiesOn(w, t, R, S)
    PROVE  CopiesOn(Tail(w), t, R, S)
BY TailFacts DEF CopiesOn

\* when a control frame is put on it, or a recent DATA frame,
LEMMA CopiesTransmit ==
    ASSUME NEW w \in Seq(Frame), NEW f \in Frame, NEW t, NEW R, NEW S, CopiesOn(w, t, R, S),
           f.kind # "data" \/ (f \in R /\ f \in S)
    PROVE  CopiesOn(Transmit(w, f), t, R, S)
<1> DEFINE v == Transmit(w, f)
<1>1. /\ DOMAIN w \subseteq Nat
      /\ \A k \in DOMAIN v :
            \/ k \in DOMAIN w /\ v[k] = w[k]
            \/ v[k] = f /\ k \in Nat /\ \A l \in DOMAIN w : l < k
  BY TransmitFacts
<1> HIDE DEF v
<1>2. \A i \in DOMAIN v : v[i].kind = "data" => v[i] \in R
  BY <1>1 DEF CopiesOn
<1>3. ASSUME NEW i \in DOMAIN v, NEW j \in DOMAIN v, j < i,
             v[i].kind = "data", v[j].kind = "data", v[j].seq = t
      PROVE  v[i] \in S
  <2>1. CASE v[i] = f
    BY <1>3, <2>1
  <2>2. CASE i \in DOMAIN w /\ v[i] = w[i]
    <3>1. i \in Nat /\ j \in Nat
      BY <1>1
    <3>2. j \in DOMAIN w /\ v[j] = w[j]
      BY <1>1, <1>3, <2>2, <3>1
    <3>3. QED
      BY <1>3, <2>2, <3>2 DEF CopiesOn
  <2>3. QED
    BY <1>1, <2>1, <2>2
<1>4. CopiesOn(v, t, R, S)
  BY <1>2, <1>3 DEF CopiesOn
<1>5. QED
  BY <1>4 DEF v

\* and when the frame in flight is read.
LEMMA CopiesDelivered ==
    ASSUME NEW w \in Seq(Frame), w # << >>, NEW t, NEW R, NEW S, CopiesOn(w, t, R, S),
           Head(w).kind = "data", Head(w).seq = t
    PROVE  CopiesOn(Tail(w), t, S, S)
<1>1. \A i \in DOMAIN w : i > 1 /\ w[i].kind = "data" => w[i] \in S
  BY TailFacts DEF CopiesOn
<1>2. QED
  BY <1>1, TailFacts DEF CopiesOn

\* Frames with another seq than the next one are behind none of it.
LEMMA CopiesPut ==
    ASSUME NEW w, NEW t, NEW R, NEW S, CopiesOn(w, t, R, S),
           NEW u, NEW Q, \A f \in R : f \in Q /\ f.seq # u
    PROVE  CopiesOn(w, u, Q, S)
BY DEF CopiesOn

\* What the last frames are.
LEMMA RecentFacts ==
    ASSUME TypeOK, NEW n \in 0 .. SeqMod
    PROVE  /\ \A f \in Recent(n) :
                /\ f \in DataFrame /\ f.kind = "data" /\ f.seq \in SeqNo
                /\ f.seq = tx_seq[A] =>
                      Len(sent[A]) > 0 /\ f.msg = sent[A][Len(sent[A])]
                /\ n < SeqMod => f.seq # Succ(tx_seq[A])
           /\ \A k \in 0 .. n : Recent(k) \subseteq Recent(n)
<1>1. /\ A \in End /\ tx_seq[A] \in SeqNo /\ sent[A] \in Seq(Payload)
      /\ SeqMod \in Nat /\ SeqMod >= 2 /\ Len(sent[A]) \in Nat
  BY EndFacts, SeqModAssumption DEF TypeOK
<1>2. ASSUME NEW f \in Recent(n)
      PROVE  /\ f \in DataFrame /\ f.kind = "data" /\ f.seq \in SeqNo
             /\ f.seq = tx_seq[A] =>
                   Len(sent[A]) > 0 /\ f.msg = sent[A][Len(sent[A])]
             /\ n < SeqMod => f.seq # Succ(tx_seq[A])
  <2>1. PICK d \in 0 .. n - 1 :
           /\ d < Len(sent[A])
           /\ f = Data(Back(tx_seq[A], d), sent[A][Len(sent[A]) - d])
    BY DEF Recent
  <2>2. /\ d \in 0 .. SeqMod - 1 /\ Len(sent[A]) - d \in 1 .. Len(sent[A])
        /\ Len(sent[A]) > 0
    BY <1>1, <2>1
  <2>3. /\ Back(tx_seq[A], d) \in SeqNo
        /\ Back(tx_seq[A], d) = tx_seq[A] => d = 0
        /\ Back(tx_seq[A], d) = Succ(tx_seq[A]) => d = SeqMod - 1
    BY <1>1, <2>2, BackFacts
  <2>4. sent[A][Len(sent[A]) - d] \in Payload
    BY <1>1, <2>2
  <2>5. /\ f \in DataFrame /\ f.kind = "data" /\ f.seq = Back(tx_seq[A], d)
        /\ f.msg = sent[A][Len(sent[A]) - d]
    BY <2>1, <2>3, <2>4, FrameFacts
  <2>6. d = 0 => f.msg = sent[A][Len(sent[A])]
    BY <1>1, <2>5
  <2>7. n < SeqMod => d # SeqMod - 1
    BY <1>1, <2>1
  <2>8. QED
    BY <2>2, <2>3, <2>5, <2>6, <2>7
<1>3. ASSUME NEW k \in 0 .. n
      PROVE  Recent(k) \subseteq Recent(n)
  <2>1. {i \in 0 .. k - 1 : i < Len(sent[A])} \subseteq {i \in 0 .. n - 1 : i < Len(sent[A])}
    BY <1>1
  <2>2. QED
    BY <2>1 DEF Recent
<1>4. QED
  BY <1>2, <1>3

\* A new frame is one more, before the last ones.
LEMMA RecentPut ==
    ASSUME TypeOK, NEW m \in Payload, NEW n \in 0 .. SeqMod - 1,
           tx_seq'[A] = Succ(tx_seq[A]), sent'[A] = Append(sent[A], m)
    PROVE  /\ \A f \in Recent(n) : f \in Recent(n + 1)'
           /\ Data(Succ(tx_seq[A]), m) \in Recent(n + 1)'
<1> DEFINE t == tx_seq[A]
<1> DEFINE s == sent[A]
<1>1. /\ A \in End /\ t \in SeqNo /\ s \in Seq(Payload) /\ Len(s) \in Nat
      /\ SeqMod \in Nat /\ SeqMod >= 2 /\ Succ(t) \in SeqNo
  BY EndFacts, SeqModAssumption, SeqNoFacts DEF TypeOK
<1>2. /\ Len(Append(s, m)) = Len(s) + 1 /\ Append(s, m)[Len(s) + 1] = m
      /\ \A i \in 1 .. Len(s) : Append(s, m)[i] = s[i]
  BY <1>1
<1>3. ASSUME NEW d \in 0 .. n, d < Len(s) + 1
      PROVE  Data(Back(Succ(t), d), Append(s, m)[Len(s) + 1 - d]) \in Recent(n + 1)'
  <2>1. d \in {k \in 0 .. (n + 1) - 1 : k < Len(sent'[A])}
    BY <1>1, <1>2, <1>3
  <2>2. QED
    BY <1>2, <2>1, SMTT(30) DEF Recent
<1>4. ASSUME NEW f \in Recent(n)
      PROVE  f \in Recent(n + 1)'
  <2>1. PICK d \in 0 .. n - 1 : d < Len(s) /\ f = Data(Back(t, d), s[Len(s) - d])
    BY <1>4 DEF Recent
  <2>2. d + 1 \in 0 .. n /\ d + 1 < Len(s) + 1 /\ d \in 0 .. SeqMod - 1 /\ d < SeqMod - 1
    BY <1>1, <2>1
  <2>3. Back(Succ(t), d + 1) = Back(t, d)
    BY <1>1, <2>2, BackFacts
  <2>4. Append(s, m)[Len(s) + 1 - (d + 1)] = s[Len(s) - d]
    <3>1. \A k, j \in Nat : j < k => k + 1 - (j + 1) = k - j /\ k - j \in 1 .. k
      OBVIOUS
    <3>2. d \in Nat /\ d < Len(s) /\ Len(s) \in Nat
      BY <1>1, <2>1
    <3>3. Len(s) + 1 - (d + 1) = Len(s) - d /\ Len(s) - d \in 1 .. Len(s)
      BY <3>1, <3>2, Zenon
    <3>4. QED
      BY <1>2, <3>3
  <2>5. QED
    BY <1>3, <2>1, <2>2, <2>3, <2>4
<1>5. Data(Succ(t), m) \in Recent(n + 1)'
  <2>1. 0 \in 0 .. n /\ 0 < Len(s) + 1 /\ Len(s) + 1 - 0 = Len(s) + 1 /\ 0 \in 0 .. SeqMod - 1
    BY <1>1
  <2>2. Back(Succ(t), 0) = Succ(t)
    BY <1>1, <2>1, BackFacts
  <2>3. QED
    BY <1>2, <1>3, <2>1, <2>2
<1>6. QED
  BY <1>4, <1>5

\* Types that the steps below need, and what the two cases exclude.
LEMMA SendFactsOf ==
    ASSUME SessionTypeOK
    PROVE  /\ TypeOK /\ A \in End /\ B \in End /\ A # B /\ Peer(A) = B /\ Peer(B) = A
           /\ tx_seq[A] \in SeqNo /\ Succ(tx_seq[A]) # tx_seq[A]
           /\ Succ(tx_seq[A]) \in SeqNo /\ Pred(Succ(tx_seq[A])) = tx_seq[A]
           /\ awaiting_ack[A] \in BOOLEAN
           /\ wire \in [End -> Seq(Frame)]
           /\ wire[A] \in Seq(Frame) /\ wire[B] \in Seq(Frame)
           /\ sent[A] \in Seq(Payload) /\ got[B] \in Seq(Payload)
           /\ AllDelivered(A) \in BOOLEAN /\ LastOutstanding(A) \in BOOLEAN
           /\ AllDelivered(A) => ~LastOutstanding(A)
<1>1. /\ TypeOK /\ A \in End /\ B \in End /\ A # B /\ Peer(A) = B /\ Peer(B) = A
      /\ tx_seq[A] \in SeqNo /\ awaiting_ack[A] \in BOOLEAN
      /\ wire \in [End -> Seq(Frame)]
      /\ wire[A] \in Seq(Frame) /\ wire[B] \in Seq(Frame)
      /\ sent[A] \in Seq(Payload) /\ got[B] \in Seq(Payload)
  BY EndFacts DEF SessionTypeOK, TypeOK
<1>2. QED
  BY <1>1, SeqNoFacts DEF AllDelivered, LastOutstanding

\* A step that leaves what the ends remember, and keeps what CopiesOn and AckOn say of
\* the line, keeps the invariant.
LEMMA SessionViewStep ==
    ASSUME ToBoard, SessionTypeOK', UNCHANGED sessionView,
           AckOn(wire'[A], tx_seq[A], AllDelivered(A), awaiting_ack[A]),
           CopiesOn(wire'[B], tx_seq[A], Readable, Recent(SeqMod - 1))
    PROVE  ToBoard'
<1>1. /\ tx_seq'[A] = tx_seq[A] /\ awaiting_ack'[A] = awaiting_ack[A]
      /\ retain'[A] = retain[A] /\ sent'[A] = sent[A]
      /\ got'[Peer(A)] = got[Peer(A)]
      /\ expected_rx_seq'[Peer(A)] = expected_rx_seq[Peer(A)]
  BY EndFacts DEF sessionView
<1>2. AllDelivered(A)' = AllDelivered(A) /\ LastOutstanding(A)' = LastOutstanding(A)
  BY <1>1 DEF AllDelivered, LastOutstanding
<1>3. Readable' = Readable /\ Recent(SeqMod - 1)' = Recent(SeqMod - 1)
  BY <1>1, <1>2 DEF Readable, Recent
<1>4. QED
  BY <1>1, <1>2, <1>3 DEF ToBoard

\* PrepareTransmit, when everything is confirmed: what is on the line are copies of
\* the frames before, and none of them has the new seq.
LEMMA PrepareStep ==
    ASSUME ToBoard, SessionTypeOK', NEW t \in Thread, NEW m \in Payload,
           PrepareTransmit(t, m), UNCHANGED <<expected_rx_seq, got>>,
           AllDelivered(A), wire'[B] = wire[B],
           AckOn(wire'[A], tx_seq[A], TRUE, FALSE)
    PROVE  ToBoard'
<1> DEFINE q == tx_seq[A]
<1> DEFINE f == Data(Succ(q), m)
<1>1. SessionTypeOK
  BY DEF ToBoard
<1>2. /\ TypeOK /\ A \in End /\ Peer(A) = B
      /\ q \in SeqNo /\ Succ(q) \in SeqNo /\ Succ(q) # q
      /\ wire'[A] \in Seq(Frame)
      /\ tx_seq \in [End -> SeqNo] /\ awaiting_ack \in [End -> BOOLEAN]
      /\ retain \in [End -> DataFrame \cup {NoFrame}] /\ sent \in [End -> Seq(Payload)]
  BY <1>1, SendFactsOf DEF SessionTypeOK, TypeOK
<1>3. f.seq = Succ(q) /\ f.msg = m
  BY <1>2, FrameFacts
<1>4. /\ tx_seq'[A] = Succ(q) /\ retain'[A] = f /\ awaiting_ack'[A] = TRUE
      /\ sent'[A] = Append(sent[A], m)
  BY <1>2, <1>3 DEF PrepareTransmit
<1>5. got[B] = sent[A] /\ expected_rx_seq[B] = Succ(q)
  BY <1>2 DEF AllDelivered
<1>6. LastOutstanding(A)' /\ ~AllDelivered(A)'
  <2>1. LastOutstanding(A)'
    BY <1>2, <1>3, <1>4, <1>5 DEF LastOutstanding
  <2>2. Succ(Succ(q)) # Succ(q)
    BY <1>2, SeqNoFacts
  <2>3. QED
    BY <1>2, <1>4, <1>5, <2>1, <2>2 DEF AllDelivered
<1>7. AckOn(wire'[A], Succ(q), FALSE, TRUE)
  BY <1>2, AckPut
<1>8. CopiesOn(wire[B], Succ(q), Readable', Recent(SeqMod - 1)')
  <2>1. Readable = Recent(SeqMod - 1) /\ Readable' = Recent(SeqMod)'
    BY <1>6 DEF Readable
  <2>2. SeqMod - 1 \in 0 .. SeqMod /\ SeqMod - 1 < SeqMod /\ SeqMod - 1 \in 0 .. SeqMod - 1
        /\ SeqMod - 1 + 1 = SeqMod
    BY SeqModAssumption
  <2>3. \A g \in Recent(SeqMod - 1) : g.seq # Succ(q)
    BY <1>2, <2>2, RecentFacts
  <2>4. \A g \in Recent(SeqMod - 1) : g \in Recent(SeqMod)'
    BY <1>2, <1>4, <2>2, RecentPut
  <2>5. \A i \in DOMAIN wire[B] : wire[B][i].kind = "data" =>
            wire[B][i] \in Recent(SeqMod)' /\ wire[B][i].seq # Succ(q)
    BY <2>1, <2>3, <2>4 DEF ToBoard, CopiesOn
  <2>6. QED
    BY <2>1, <2>5 DEF CopiesOn
<1>9. (AllDelivered(A))' = FALSE
  BY <1>6 DEF AllDelivered
<1>10. QED
  BY <1>4, <1>6, <1>7, <1>8, <1>9 DEF ToBoard

\* Send: there is nothing to confirm, or the message waits in the queue.
LEMMA SendKeeps ==
    ASSUME ToBoard, SessionTypeOK', NEW t \in Caller, NEW m \in Payload, Send(t, m)
    PROVE  ToBoard'
<1>1. SessionTypeOK /\ t \in Thread
  BY DEF ToBoard, Thread
<1>2. UNCHANGED <<wire, expected_rx_seq, got>>
  BY DEF Send
<1>3. CASE awaiting_ack[A]
  <2>1. UNCHANGED sessionView
    BY <1>2, <1>3 DEF Send, sessionView
  <2>2. QED
    BY <1>2, <2>1, SessionViewStep DEF ToBoard
<1>4. CASE ~awaiting_ack[A]
  <2>1. AllDelivered(A) = TRUE /\ awaiting_ack[A] = FALSE
    BY <1>1, <1>4, SendFactsOf DEF ToBoard, LastOutstanding
  <2>2. PrepareTransmit(t, m)
    BY <1>4 DEF Send
  <2>3. AckOn(wire'[A], tx_seq[A], TRUE, FALSE)
    BY <1>2, <2>1 DEF ToBoard
  <2>4. QED
    BY <1>1, <1>2, <2>1, <2>2, <2>3, PrepareStep
<1>5. QED
  BY <1>3, <1>4

\* The head taken off a line to the session.
LEMMA SessionHeadTaken ==
    ASSUME ToBoard, wire[A] # << >>, TakeHead
    PROVE  /\ wire'[A] = Tail(wire[A]) /\ wire'[B] = wire[B]
           /\ AckOn(Tail(wire[A]), tx_seq[A], AllDelivered(A), awaiting_ack[A])
<1>1. SessionTypeOK
  BY DEF ToBoard
<1>2. QED
  BY <1>1, SendFactsOf, AckTail DEF TakeHead, ToBoard

\* HandleAck: an ACK of the frame in flight tells that it is delivered, and the next one
\* is prepared if there is one.
LEMMA HandleAckKeeps ==
    ASSUME ToBoard, SessionTypeOK', HandleAck
    PROVE  ToBoard'
<1>1. SessionTypeOK /\ Reader \in Thread
  BY DEF ToBoard, Thread
<1>2. wire[A] # << >> /\ TakeHead /\ Head(wire[A]).kind = "ack"
  BY DEF HandleAck, Reading, HeadIs
<1>3. /\ wire'[A] = Tail(wire[A]) /\ wire'[B] = wire[B]
      /\ AckOn(Tail(wire[A]), tx_seq[A], AllDelivered(A), awaiting_ack[A])
  BY <1>2, SessionHeadTaken
<1>4. CASE ~Frees(A, Head(wire[A]))
  <2>1. UNCHANGED sessionView
    BY <1>4 DEF HandleAck, arqVars, sessionView
  <2>2. QED
    BY <1>3, <2>1, SessionViewStep DEF ToBoard
<1>5. ASSUME Frees(A, Head(wire[A]))
      PROVE  AllDelivered(A) /\ AckOn(Tail(wire[A]), tx_seq[A], TRUE, FALSE)
  <2>1. Head(wire[A]).seq = tx_seq[A]
    BY <1>5 DEF Frees
  <2>2. QED
    BY <1>1, <1>2, <2>1, SendFactsOf, AckConfirmed DEF ToBoard
<1>6. CASE Frees(A, Head(wire[A])) /\ queue = << >>
  <2>1. /\ UNCHANGED <<tx_seq, expected_rx_seq, retain, sent, got>>
        /\ awaiting_ack' = [awaiting_ack EXCEPT ![A] = FALSE]
    BY <1>6 DEF HandleAck
  <2>2. awaiting_ack'[A] = FALSE
    BY <1>1, <2>1, SendFactsOf DEF TypeOK
  <2>3. AllDelivered(A)' = AllDelivered(A) /\ AllDelivered(A) = TRUE
    BY <1>1, <1>5, <1>6, <2>1, SendFactsOf DEF AllDelivered
  <2>4. Readable' = Readable /\ Recent(SeqMod - 1)' = Recent(SeqMod - 1)
    BY <2>1, <2>3 DEF Readable, Recent
  <2>5. AckOn(wire[A], tx_seq[A], AllDelivered(A), awaiting_ack[A])'
    BY <1>3, <1>5, <1>6, <2>1, <2>2, <2>3
  <2>6. CopiesOn(wire[B], tx_seq[A], Readable, Recent(SeqMod - 1))'
    BY <1>3, <2>1, <2>4 DEF ToBoard
  <2>7. QED
    BY <2>3, <2>5, <2>6 DEF ToBoard
<1>7. CASE Frees(A, Head(wire[A])) /\ queue # << >>
  <2>1. /\ PrepareTransmit(Reader, Head(queue)) /\ UNCHANGED <<expected_rx_seq, got>>
    BY <1>7 DEF HandleAck
  <2>2. Head(queue) \in Payload
    BY <1>1, <1>7 DEF SessionTypeOK
  <2>3. QED
    BY <1>1, <1>3, <1>5, <1>7, <2>1, <2>2, PrepareStep
<1>8. QED
  BY <1>4, <1>6, <1>7

\* WriteFrame, by a thread that was not held up.
LEMMA WriteKeeps ==
    ASSUME ToBoard, SessionTypeOK', Prompt, NEW t \in Thread, WriteFrame(t)
    PROVE  ToBoard'
<1> DEFINE f == writing[t]
<1>1. SessionTypeOK
  BY DEF ToBoard
<1>2. f \in Frame
  BY <1>1 DEF WriteFrame, SessionTypeOK
<1>3. wire'[A] = wire[A] /\ wire'[B] = Transmit(wire[B], f)
  BY <1>1, SendFactsOf DEF WriteFrame
<1>4. UNCHANGED sessionView
  BY DEF WriteFrame, arqVars, sessionView
<1>5. f.kind # "data" \/ (f \in Readable /\ f \in Recent(SeqMod - 1))
  <2>1. TypeOK /\ SeqMod \in 0 .. SeqMod /\ SeqMod - 1 \in 0 .. SeqMod
    BY <1>1, SendFactsOf, SeqModAssumption
  <2>2. Recent(SeqMod - 1) \subseteq Recent(SeqMod)
    BY <2>1, RecentFacts
  <2>3. QED
    BY <2>2 DEF Prompt, Readable
<1>6. CopiesOn(Transmit(wire[B], f), tx_seq[A], Readable, Recent(SeqMod - 1))
  BY <1>1, <1>2, <1>5, SendFactsOf, CopiesTransmit DEF ToBoard
<1>7. QED
  BY <1>3, <1>4, <1>6, SessionViewStep DEF ToBoard

\* What the session does otherwise concerns the other direction, but for the line.
LEMMA SessionOtherKeeps ==
    ASSUME ToBoard, SessionTypeOK',
           \/ \E t \in Caller : Resume(t)
           \/ \E v \in AckTimeouts : SetAckTimeout(v)
           \/ \E c \in Callback : TimerFires(c) \/ OnAckTimeout(c)
           \/ \E t \in Thread : OnFrameError(t)
           \/ HandleNack \/ DispatchData \/ OnFrameReceived \/ RejectCrc
           \/ UNCHANGED allVars
    PROVE  ToBoard'
<1>1. SessionTypeOK
  BY DEF ToBoard
<1>2. UNCHANGED sessionView
  <2>1. CASE OnFrameReceived
    BY <1>1, <2>1, SendFactsOf DEF OnFrameReceived, sessionView, TypeOK
  <2>2. CASE \/ \E t \in Caller : Resume(t)
             \/ \E v \in AckTimeouts : SetAckTimeout(v)
             \/ \E c \in Callback : TimerFires(c) \/ OnAckTimeout(c)
             \/ \E t \in Thread : OnFrameError(t)
             \/ HandleNack \/ DispatchData \/ RejectCrc
             \/ UNCHANGED allVars
    BY <2>2 DEF Resume, SetAckTimeout, TimerFires, OnAckTimeout, OnFrameError, HandleNack,
                DispatchData, RejectCrc, allVars, vars, arqVars, sessionView
  <2>3. QED
    BY <2>1, <2>2
<1>3. CASE HandleNack \/ DispatchData \/ RejectCrc
  <2>1. wire[A] # << >> /\ TakeHead
    BY <1>3 DEF HandleNack, DispatchData, RejectCrc, Reading, HeadIs
  <2>2. QED
    BY <1>2, <2>1, SessionHeadTaken, SessionViewStep DEF ToBoard
<1>4. CASE \/ \E t \in Caller : Resume(t)
           \/ \E v \in AckTimeouts : SetAckTimeout(v)
           \/ \E c \in Callback : TimerFires(c) \/ OnAckTimeout(c)
           \/ \E t \in Thread : OnFrameError(t)
           \/ OnFrameReceived \/ UNCHANGED allVars
  <2>1. wire' = wire
    BY <1>4 DEF Resume, SetAckTimeout, TimerFires, OnAckTimeout, OnFrameError,
                OnFrameReceived, allVars, vars
  <2>2. QED
    BY <1>2, <2>1, SessionViewStep DEF ToBoard
<1>5. QED
  BY <1>3, <1>4

\* frame_arq_get of the board delivers a frame: it is the one in flight.
LEMMA BoardReadsNew ==
    ASSUME ToBoard, GetData(B)
    PROVE  /\ LastOutstanding(A) /\ AllDelivered(A) = FALSE
           /\ Head(wire[B]).seq = tx_seq[A] /\ Head(wire[B]).kind = "data"
           /\ got'[B] = Append(got[B], Head(wire[B]).msg)
           /\ sent[A] = Append(got[B], Head(wire[B]).msg)
           /\ Head(wire[B]) \in DataFrame
<1> DEFINE f == Head(wire[B])
<1>1. SessionTypeOK /\ TypeOK /\ Peer(A) = B /\ B \in End
  BY SendFactsOf DEF ToBoard
<1>2. /\ wire[B] # << >> /\ f.kind = "data" /\ f.seq = expected_rx_seq[B]
      /\ got'[B] = Append(got[B], f.msg)
  BY <1>1 DEF GetData, HeadIs, IsNew, TypeOK
<1>3. f \in Readable
  BY <1>1, <1>2, SendFactsOf, TailFacts DEF ToBoard, CopiesOn
<1>4. SeqMod \in 0 .. SeqMod /\ SeqMod - 1 \in 0 .. SeqMod /\ SeqMod - 1 < SeqMod
  BY SeqModAssumption
<1>5. AllDelivered(A) = FALSE
  <2>1. ASSUME AllDelivered(A)
        PROVE  FALSE
    <3>1. f \in Recent(SeqMod - 1) /\ f.seq = Succ(tx_seq[A])
      BY <1>1, <1>2, <1>3, <2>1 DEF Readable, AllDelivered
    <3>2. QED
      BY <1>1, <1>4, <3>1, RecentFacts
  <2>2. QED
    BY <1>1, <2>1, SendFactsOf
<1>6. LastOutstanding(A)
  BY <1>5 DEF ToBoard
<1>7. f.seq = tx_seq[A]
  BY <1>1, <1>2, <1>6 DEF LastOutstanding
<1>8. f \in DataFrame /\ f.msg = sent[A][Len(sent[A])]
  BY <1>1, <1>3, <1>4, <1>5, <1>7, RecentFacts DEF Readable
<1>9. sent[A] = Append(got[B], f.msg)
  <2>1. sent[A] = Append(got[B], retain[A].msg) /\ got[B] \in Seq(Payload)
    BY <1>1, <1>6, SendFactsOf DEF LastOutstanding
  <2>2. sent[A][Len(sent[A])] = retain[A].msg
    BY <2>1
  <2>3. QED
    BY <1>8, <2>1, <2>2
<1>10. QED
  BY <1>2, <1>5, <1>6, <1>7, <1>8, <1>9

LEMMA BoardDelivers ==
    ASSUME ToBoard, SessionTypeOK', GetData(B)
    PROVE  ToBoard'
<1> DEFINE f == Head(wire[B])
<1> DEFINE t == tx_seq[A]
<1>1. /\ SessionTypeOK /\ TypeOK /\ Peer(A) = B /\ Peer(B) = A /\ A # B
      /\ A \in End /\ B \in End /\ t \in SeqNo
      /\ wire[A] \in Seq(Frame) /\ wire[B] \in Seq(Frame)
  BY SendFactsOf DEF ToBoard
<1>2. /\ LastOutstanding(A) /\ AllDelivered(A) = FALSE
      /\ f.seq = t /\ f.kind = "data"
      /\ got'[B] = Append(got[B], f.msg) /\ sent[A] = Append(got[B], f.msg)
  BY BoardReadsNew
<1>3. /\ wire[B] # << >> /\ Reply(B, Ack(f.seq))
      /\ UNCHANGED <<tx_seq, awaiting_ack, retain, sent>>
      /\ expected_rx_seq'[B] = Succ(t)
  BY <1>1, <1>2 DEF GetData, HeadIs, TypeOK
<1>4. wire'[B] = Tail(wire[B]) /\ wire'[A] = Transmit(wire[A], Ack(t))
  <2>1. Ack(t) \in Frame
    BY <1>1, FrameFacts
  <2>2. QED
    BY <1>1, <1>2, <1>3, <2>1, ReplyFacts
<1>5. AllDelivered(A)' /\ AllDelivered(A)' = TRUE
  BY <1>1, <1>2, <1>3 DEF AllDelivered
<1>6. awaiting_ack[A] = TRUE
  BY <1>1, <1>2, SendFactsOf DEF LastOutstanding
<1>7. AckOn(Transmit(wire[A], Ack(t)), t, TRUE, TRUE)
  BY <1>1, <1>2, <1>6, AckFirst DEF ToBoard
<1>8. CopiesOn(Tail(wire[B]), t, Recent(SeqMod - 1), Recent(SeqMod - 1))
  BY <1>1, <1>2, <1>3, CopiesDelivered DEF ToBoard
<1>9. Readable' = Recent(SeqMod - 1) /\ Recent(SeqMod - 1)' = Recent(SeqMod - 1)
  BY <1>3, <1>5 DEF Readable, Recent
<1>10. AckOn(wire[A], tx_seq[A], AllDelivered(A), awaiting_ack[A])'
  BY <1>3, <1>4, <1>5, <1>6, <1>7
<1>11. CopiesOn(wire[B], tx_seq[A], Readable, Recent(SeqMod - 1))'
  BY <1>3, <1>4, <1>8, <1>9
<1>12. QED
  BY <1>5, <1>10, <1>11 DEF ToBoard

\* The board's own messages, and what it reads otherwise, leave what the ends remember;
\* its ACK of a frame read again repeats the last one.
LEMMA BoardKeeps ==
    ASSUME ToBoard, SessionTypeOK',
           \/ \E m \in Payload : Put(B, m)
           \/ Resend(B) \/ GetAck(B) \/ GetNack(B) \/ GetDuplicate(B)
           \/ GetUnexpected(B) \/ GetCrcError(B) \/ Lose(B) \/ Lose(A)
    PROVE  ToBoard'
<1> DEFINE t == tx_seq[A]
<1>1. /\ SessionTypeOK /\ TypeOK /\ Peer(A) = B /\ Peer(B) = A /\ A # B
      /\ A \in End /\ B \in End /\ t \in SeqNo
      /\ wire[A] \in Seq(Frame) /\ wire[B] \in Seq(Frame)
      /\ AllDelivered(A) \in BOOLEAN /\ awaiting_ack[A] \in BOOLEAN
      /\ expected_rx_seq[B] \in SeqNo /\ retain[B] \in DataFrame \cup {NoFrame}
      /\ tx_seq[B] \in SeqNo
  BY SendFactsOf DEF ToBoard, TypeOK
<1>2. /\ AckOn(wire[A], t, AllDelivered(A), awaiting_ack[A])
      /\ CopiesOn(wire[B], t, Readable, Recent(SeqMod - 1))
      /\ AllDelivered(A) \/ LastOutstanding(A)
  BY DEF ToBoard
<1>3. UNCHANGED sessionView
  <2>1. ASSUME NEW m \in Payload, Put(B, m)
        PROVE  UNCHANGED sessionView
    BY <1>1, <2>1 DEF Put, sessionView, TypeOK
  <2>2. CASE GetAck(B)
    BY <1>1, <2>2 DEF GetAck, sessionView, TypeOK
  <2>3. CASE \/ Resend(B) \/ GetNack(B) \/ GetDuplicate(B)
             \/ GetUnexpected(B) \/ GetCrcError(B) \/ Lose(B) \/ Lose(A)
    BY <2>3 DEF Resend, GetNack, GetDuplicate, GetUnexpected, GetCrcError, Lose, arqVars,
                sessionView
  <2>4. QED
    BY <2>1, <2>2, <2>3
<1>4. ASSUME NEW f \in Frame, f.kind # "ack",
             wire' = [wire EXCEPT ![Peer(B)] = Transmit(@, f)]
      PROVE  ToBoard'
  <2>1. wire'[B] = wire[B] /\ wire'[A] = Transmit(wire[A], f)
    BY <1>1, <1>4, SendFacts
  <2>2. AckOn(Transmit(wire[A], f), t, AllDelivered(A), awaiting_ack[A])
    BY <1>1, <1>2, <1>4, AckOther
  <2>3. QED
    BY <1>2, <1>3, <2>1, <2>2, SessionViewStep
<1>5. ASSUME NEW f \in Frame, wire[B] # << >>, Reply(B, f),
             \/ f.kind # "ack"
             \/ /\ f = Ack(f.seq)
                /\ \/ AllDelivered(A) /\ f.seq = t
                   \/ ~AllDelivered(A) /\ awaiting_ack[A] /\ f.seq = Pred(t)
      PROVE  ToBoard'
  <2>1. wire'[B] = Tail(wire[B]) /\ wire'[A] = Transmit(wire[A], f)
    BY <1>1, <1>5, ReplyFacts
  <2>2. CopiesOn(Tail(wire[B]), t, Readable, Recent(SeqMod - 1))
    BY <1>1, <1>2, <1>5, CopiesTail
  <2>3. AckOn(Transmit(wire[A], f), t, AllDelivered(A), awaiting_ack[A])
    <3>1. CASE f.kind # "ack"
      BY <1>1, <1>2, <3>1, AckOther
    <3>2. CASE f.kind = "ack"
      <4>1. f.seq \in SeqNo /\ f = Ack(f.seq)
        BY <1>5, <3>2, FrameFacts
      <4>2. AckOn(Transmit(wire[A], Ack(f.seq)), t, AllDelivered(A), awaiting_ack[A])
        BY <1>1, <1>2, <1>5, <3>2, <4>1, AckAgain
      <4>3. QED
        BY <4>1, <4>2
    <3>3. QED
      BY <3>1, <3>2
  <2>4. QED
    BY <1>3, <2>1, <2>2, <2>3, SessionViewStep
<1>6. ASSUME NEW m \in Payload, Put(B, m)
      PROVE  ToBoard'
  <2>1. Data(Succ(tx_seq[B]), m) \in Frame /\ Data(Succ(tx_seq[B]), m).kind # "ack"
    BY <1>1, SeqNoFacts, FrameFacts
  <2>2. QED
    BY <1>4, <1>6, <2>1 DEF Put
<1>7. CASE Resend(B)
  <2>1. retain[B] \in Frame /\ retain[B].kind # "ack"
    BY <1>1, <1>7, FrameFacts DEF Resend
  <2>2. QED
    BY <1>4, <1>7, <2>1 DEF Resend
<1>8. CASE GetAck(B) \/ GetNack(B) \/ Lose(B)
  <2>1. wire[B] # << >> /\ Receive(B, wire[A])
    BY <1>1, <1>8 DEF GetAck, GetNack, Lose, HeadIs
  <2>2. wire'[B] = Tail(wire[B]) /\ wire'[A] = wire[A]
    BY <1>1, <2>1, ReceiveFacts
  <2>3. CopiesOn(Tail(wire[B]), t, Readable, Recent(SeqMod - 1))
    BY <1>1, <1>2, <2>1, CopiesTail
  <2>4. QED
    BY <1>2, <1>3, <2>2, <2>3, SessionViewStep
<1>9. CASE Lose(A)
  <2>1. wire[A] # << >> /\ Receive(A, wire[B])
    BY <1>1, <1>9 DEF Lose
  <2>2. wire'[A] = Tail(wire[A]) /\ wire'[B] = wire[B]
    BY <1>1, <2>1, ReceiveFacts
  <2>3. AckOn(Tail(wire[A]), t, AllDelivered(A), awaiting_ack[A])
    BY <1>1, <1>2, <2>1, AckTail
  <2>4. QED
    BY <1>2, <1>3, <2>2, <2>3, SessionViewStep
<1>10. CASE GetUnexpected(B) \/ GetCrcError(B)
  <2>1. wire[B] # << >> /\ Reply(B, Nack(expected_rx_seq[B]))
    BY <1>10 DEF GetUnexpected, GetCrcError, HeadIs
  <2>2. Nack(expected_rx_seq[B]) \in Frame /\ Nack(expected_rx_seq[B]).kind # "ack"
    BY <1>1, FrameFacts
  <2>3. QED
    BY <1>5, <2>1, <2>2
<1>11. CASE GetDuplicate(B)
  <2> DEFINE s == Head(wire[B]).seq
  <2>1. wire[B] # << >> /\ Reply(B, Ack(s)) /\ s = Pred(expected_rx_seq[B])
    BY <1>11 DEF GetDuplicate, HeadIs, IsRepeat
  <2>2. s \in SeqNo
    BY <1>1, <2>1, SeqNoFacts
  <2>3. Ack(s) \in Frame /\ Ack(s).seq = s
    BY <2>2, FrameFacts
  <2>4. \/ AllDelivered(A) /\ s = t
        \/ ~AllDelivered(A) /\ awaiting_ack[A] /\ s = Pred(t)
    <3>1. CASE AllDelivered(A)
      BY <1>1, <2>1, <3>1, SeqNoFacts DEF AllDelivered
    <3>2. CASE ~AllDelivered(A)
      BY <1>1, <1>2, <2>1, <3>2 DEF LastOutstanding
    <3>3. QED
      BY <3>1, <3>2
  <2>5. QED
    BY <1>5, <2>1, <2>3, <2>4
<1>12. QED
  BY <1>6, <1>7, <1>8, <1>9, <1>10, <1>11

\* The invariant of this direction holds at the start, and every step of a prompt
\* session keeps it.
LEMMA ToBoardInit ==
    ASSUME SessionInit
    PROVE  ToBoard
<1>1. SessionTypeOK /\ A \in End /\ B \in End /\ Peer(A) = B
  BY SessionTypeInit, EndFacts
<1>2. Succ(TxSeqStart) = 0
  BY SeqModAssumption DEF Succ, TxSeqStart
<1>3. AllDelivered(A)
  BY <1>1, <1>2 DEF SessionInit, Init, AllDelivered
<1>4. wire[A] = << >> /\ wire[B] = << >>
  BY <1>1 DEF SessionInit, Init
<1>5. /\ AckOn(wire[A], tx_seq[A], AllDelivered(A), awaiting_ack[A])
      /\ CopiesOn(wire[B], tx_seq[A], Readable, Recent(SeqMod - 1))
  BY <1>4 DEF AckOn, LastOfKind, CopiesOn
<1>6. QED
  BY <1>1, <1>3, <1>5 DEF ToBoard

LEMMA ToBoardStep ==
    ASSUME ToBoard, Prompt, [SessionNext]_allVars
    PROVE  ToBoard'
<1>1. SessionTypeOK'
  BY SessionTypeStep DEF ToBoard
<1>2. CASE Board \/ LineLoss
  BY <1>1, <1>2, BoardDelivers, BoardKeeps DEF Board, LineLoss, Get
<1>3. CASE \/ HandleAck
           \/ \E t \in Thread : WriteFrame(t)
           \/ \E t \in Caller : \E m \in Payload : Send(t, m)
  BY <1>1, <1>3, HandleAckKeeps, WriteKeeps, SendKeeps
<1>4. CASE \/ \E t \in Caller : Resume(t)
           \/ \E v \in AckTimeouts : SetAckTimeout(v)
           \/ \E c \in Callback : TimerFires(c) \/ OnAckTimeout(c)
           \/ \E t \in Thread : OnFrameError(t)
           \/ HandleNack \/ DispatchData \/ OnFrameReceived \/ RejectCrc
           \/ UNCHANGED allVars
  BY <1>1, <1>4, SessionOtherKeeps
<1>5. QED
  BY <1>2, <1>3, <1>4 DEF SessionNext

-----------------------------------------------------------------------------
(***************************************************************************)
(* The abstract link with a queue that this direction implements.          *)
(***************************************************************************)

Confirmed == Len(sent[A]) - IF awaiting_ack[A] THEN 1 ELSE 0

\* How many messages there are of each kind.
LEMMA QueueCounts ==
    ASSUME ToBoard, QueueKeepsOrder
    PROVE  /\ Len(sent[A]) \in Nat /\ Len(got[B]) \in Nat
           /\ Len(accepted) >= Len(sent[A])
           /\ \A i \in 1 .. Len(sent[A]) : accepted[i] = sent[A][i]
           /\ AllDelivered(A) => Len(got[B]) = Len(sent[A])
           /\ LastOutstanding(A) => Len(got[B]) = Len(sent[A]) - 1 /\ awaiting_ack[A]
<1>1. /\ sent[A] \in Seq(Payload) /\ got[B] \in Seq(Payload) /\ queue \in Seq(Payload)
      /\ Peer(A) = B
  BY SendFactsOf DEF ToBoard, SessionTypeOK
<1>2. accepted = sent[A] \o queue
  BY DEF QueueKeepsOrder
<1>3. /\ Len(accepted) = Len(sent[A]) + Len(queue) /\ Len(queue) \in Nat /\ Len(sent[A]) \in Nat
      /\ \A i \in 1 .. Len(sent[A]) : accepted[i] = sent[A][i]
  BY <1>1, <1>2
<1>4. LastOutstanding(A) => Len(sent[A]) = Len(got[B]) + 1 /\ awaiting_ack[A]
  BY <1>1 DEF LastOutstanding
<1>5. AllDelivered(A) => Len(got[B]) = Len(sent[A])
  BY <1>1 DEF AllDelivered
<1>6. QED
  BY <1>1, <1>3, <1>4, <1>5

\* Send is the Accept of the abstract link: what is confirmed stays.
LEMMA SendAccepts ==
    ASSUME ToBoard, NEW t \in Caller, NEW m \in Payload, Send(t, m)
    PROVE  FromSession!Accept
<1>1. /\ accepted' = Append(accepted, m) /\ got' = got
  BY DEF Send
<1>2. Confirmed' = Confirmed
  <2>1. CASE awaiting_ack[A]
    BY <2>1 DEF Send, Confirmed
  <2>2. CASE ~awaiting_ack[A]
    <3>1. PrepareTransmit(t, m)
      BY <2>2 DEF Send
    <3>2. /\ A \in End /\ sent \in [End -> Seq(Payload)] /\ awaiting_ack \in [End -> BOOLEAN]
          /\ sent[A] \in Seq(Payload)
      BY SendFactsOf DEF ToBoard, TypeOK
    <3>3. sent'[A] = Append(sent[A], m) /\ awaiting_ack'[A] = TRUE
      BY <3>1, <3>2 DEF PrepareTransmit
    <3>4. QED
      BY <2>2, <3>2, <3>3 DEF Confirmed
  <2>3. QED
    BY <2>1, <2>2
<1>3. QED
  BY <1>1, <1>2 DEF FromSession!Accept, Confirmed

\* HandleAck of the ACK of the frame in flight is the Confirm.
LEMMA AckConfirms ==
    ASSUME ToBoard, QueueKeepsOrder, HandleAck
    PROVE  FromSession!Confirm \/ UNCHANGED FromSession!vars
<1>1. /\ A \in End /\ sent \in [End -> Seq(Payload)] /\ awaiting_ack \in [End -> BOOLEAN]
      /\ sent[A] \in Seq(Payload) /\ Len(sent[A]) \in Nat
  BY SendFactsOf DEF ToBoard, TypeOK
<1>2. accepted' = accepted /\ got' = got
  BY DEF HandleAck
<1>3. CASE ~Frees(A, Head(wire[A]))
  BY <1>2, <1>3 DEF HandleAck, arqVars, FromSession!vars
<1>4. CASE Frees(A, Head(wire[A]))
  <2>1. AllDelivered(A) /\ awaiting_ack[A]
    <3>1. /\ Head(wire[A]).seq = tx_seq[A] /\ Head(wire[A]).kind = "ack" /\ wire[A] # << >>
          /\ awaiting_ack[A]
      BY <1>4 DEF HandleAck, Frees, Reading, HeadIs
    <3>2. QED
      BY <3>1, SendFactsOf, AckConfirmed DEF ToBoard
  <2>2. Len(got[B]) = Len(sent[A])
    BY <2>1, QueueCounts
  <2>3. Confirmed' = Confirmed + 1
    <3>1. CASE queue = << >>
      <4>1. sent' = sent /\ awaiting_ack'[A] = FALSE
        BY <1>1, <1>4, <3>1 DEF HandleAck
      <4>2. QED
        BY <1>1, <2>1, <4>1 DEF Confirmed
    <3>2. CASE queue # << >>
      <4>1. PrepareTransmit(Reader, Head(queue))
        BY <1>4, <3>2 DEF HandleAck
      <4>2. sent'[A] = Append(sent[A], Head(queue)) /\ awaiting_ack'[A] = TRUE
        BY <1>1, <4>1 DEF PrepareTransmit
      <4>3. Head(queue) \in Payload
        BY <3>2 DEF ToBoard, SessionTypeOK
      <4>4. Len(sent'[A]) = Len(sent[A]) + 1
        BY <1>1, <4>2, <4>3
      <4>5. QED
        BY <1>1, <2>1, <4>2, <4>4 DEF Confirmed
    <3>3. QED
      BY <3>1, <3>2
  <2>4. Confirmed < Len(got[B])
    BY <1>1, <2>1, <2>2 DEF Confirmed
  <2>5. QED
    BY <1>2, <2>3, <2>4 DEF FromSession!Confirm, Confirmed
<1>5. QED
  BY <1>3, <1>4

\* GetData of the board is the Deliver; its other calls change nothing.
LEMMA BoardTakes ==
    ASSUME ToBoard, QueueKeepsOrder, Board \/ LineLoss
    PROVE  FromSession!Deliver \/ UNCHANGED FromSession!vars
<1>1. /\ TypeOK /\ A # B /\ A \in End /\ B \in End
      /\ got[B] \in Seq(Payload)
  BY SendFactsOf DEF ToBoard
<1>2. UNCHANGED <<accepted, queue>>
  BY DEF Board, LineLoss, sessionVars
<1>3. UNCHANGED <<sent[A], awaiting_ack[A]>>
  BY QueueUntouched DEF OtherStep, ToBoard
<1>4. CASE GetData(B)
  <2>1. /\ LastOutstanding(A) /\ got'[B] = Append(got[B], Head(wire[B]).msg)
        /\ sent[A] = Append(got[B], Head(wire[B]).msg)
    BY <1>4, BoardReadsNew
  <2>2. /\ Len(got[B]) = Len(sent[A]) - 1 /\ awaiting_ack[A]
        /\ Len(sent[A]) \in Nat /\ Len(got[B]) \in Nat
        /\ Len(accepted) >= Len(sent[A])
        /\ \A i \in 1 .. Len(sent[A]) : accepted[i] = sent[A][i]
    BY <2>1, QueueCounts
  <2>3. sent[A][Len(got[B]) + 1] = Head(wire[B]).msg
    BY <1>1, <2>1
  <2>4. accepted[Len(got[B]) + 1] = Head(wire[B]).msg
    <3>1. Len(got[B]) + 1 \in 1 .. Len(sent[A])
      BY <2>2
    <3>2. QED
      BY <2>2, <2>3, <3>1
  <2>5. /\ Confirmed = Len(got[B]) /\ Confirmed' = Confirmed
        /\ Len(got[B]) < Len(accepted)
    <3>1. Len(accepted) \in Nat
      BY DEF ToBoard, SessionTypeOK
    <3>2. QED
      BY <1>3, <2>2, <3>1 DEF Confirmed
  <2>6. QED
    BY <1>2, <2>1, <2>4, <2>5 DEF FromSession!Deliver, Confirmed
<1>5. CASE ~GetData(B)
  <2>1. got'[B] = got[B]
    BY <1>1, <1>5 DEF Board, LineLoss, Put, Resend, Get, GetAck, GetNack, GetDuplicate,
                      GetUnexpected, GetCrcError, Lose, arqVars
  <2>2. QED
    BY <1>2, <1>3, <2>1 DEF FromSession!vars
<1>6. QED
  BY <1>4, <1>5

\* What the session does otherwise is not seen by the users of this direction.
LEMMA OtherUnseen ==
    ASSUME ToBoard,
           \/ \E t \in Caller : Resume(t)
           \/ \E v \in AckTimeouts : SetAckTimeout(v)
           \/ \E c \in Callback : TimerFires(c) \/ OnAckTimeout(c)
           \/ \E t \in Thread : OnFrameError(t) \/ WriteFrame(t)
           \/ HandleNack \/ DispatchData \/ OnFrameReceived \/ RejectCrc
           \/ UNCHANGED allVars
    PROVE  UNCHANGED FromSession!vars
<1>1. TypeOK /\ A # B /\ A \in End /\ B \in End
  BY SendFactsOf DEF ToBoard
<1>2. UNCHANGED <<sent[A], awaiting_ack[A], accepted>>
  BY QueueUntouched DEF OtherStep, ToBoard
<1>3. got'[B] = got[B]
  BY <1>1 DEF Resume, SetAckTimeout, TimerFires, OnAckTimeout, OnFrameError, WriteFrame,
              HandleNack, DispatchData, OnFrameReceived, RejectCrc, allVars, vars, TypeOK
<1>4. QED
  BY <1>2, <1>3 DEF FromSession!vars

\* What Send takes is delivered to the board once, in the order of Send, and confirmed
\* only then, although callers and callbacks of the timer write frames long after they
\* decided to, as long as no thread is held up while all the other sequence numbers are
\* used; and so is, with BoardToSession, what the board puts.
THEOREM PromptSession == SessionSpec /\ []Prompt => SessionLinkImplemented
<1>1. SessionInit => FromSession!Init
  BY EndFacts DEF SessionInit, Init, FromSession!Init
<1>2. ASSUME ToBoard, QueueKeepsOrder, [SessionNext]_allVars
      PROVE  [FromSession!Next]_FromSession!vars
  <2>1. CASE \E t \in Caller : \E m \in Payload : Send(t, m)
    BY <1>2, <2>1, SendAccepts DEF FromSession!Next
  <2>2. CASE HandleAck
    BY <1>2, <2>2, AckConfirms DEF FromSession!Next
  <2>3. CASE Board \/ LineLoss
    BY <1>2, <2>3, BoardTakes DEF FromSession!Next
  <2>4. CASE \/ \E t \in Caller : Resume(t)
             \/ \E v \in AckTimeouts : SetAckTimeout(v)
             \/ \E c \in Callback : TimerFires(c) \/ OnAckTimeout(c)
             \/ \E t \in Thread : OnFrameError(t) \/ WriteFrame(t)
             \/ HandleNack \/ DispatchData \/ OnFrameReceived \/ RejectCrc
             \/ UNCHANGED allVars
    BY <1>2, <2>4, OtherUnseen
  <2>5. QED
    BY <1>2, <2>1, <2>2, <2>3, <2>4 DEF SessionNext
<1>3. ToBoard /\ Prompt /\ [SessionNext]_allVars => ToBoard'
  BY ToBoardStep
<1>4. SessionInit => ToBoard
  BY ToBoardInit
<1>5. SessionSpec /\ []Prompt => FromSession!Spec
  BY <1>1, <1>2, <1>3, <1>4, QueueOrder, PTL DEF SessionSpec, FromSession!Spec
<1>6. QED
  BY <1>5, BoardToSession, PTL DEF SessionLinkImplemented

-----------------------------------------------------------------------------
(***************************************************************************)
(* A session that sends fewer messages than there are sequence numbers is  *)
(* always prompt.                                                          *)
(***************************************************************************)

Short ==
    /\ Len(accepted) <= MaxPut[A]
    /\ retain[A] \in Recent(SeqMod - 1) \cup {NoFrame}
    /\ Prompt

\* What is sent is no more than what was taken.
LEMMA SentIsShort ==
    ASSUME SessionTypeOK, QueueKeepsOrder, Short
    PROVE  /\ Len(sent[A]) \in Nat /\ MaxPut[A] \in Nat
           /\ Len(sent[A]) <= Len(accepted) /\ Len(sent[A]) <= MaxPut[A]
           /\ queue # << >> => Len(sent[A]) < MaxPut[A]
<1>1. /\ sent[A] \in Seq(Payload) /\ queue \in Seq(Payload) /\ A \in End
      /\ accepted \in Seq(Payload)
  <2>1. sent[A] \in Seq(Payload) /\ A \in End
    BY SendFactsOf
  <2>2. queue \in Seq(Payload) /\ accepted \in Seq(Payload)
    BY DEF SessionTypeOK
  <2>3. QED
    BY <2>1, <2>2
<1>2. /\ Len(accepted) = Len(sent[A]) + Len(queue)
      /\ Len(queue) \in Nat /\ Len(sent[A]) \in Nat
      /\ queue # << >> => Len(queue) > 0
  BY <1>1 DEF QueueKeepsOrder
<1>3. MaxPut[A] \in Nat
  BY <1>1, BoundAssumption
<1>4. QED
  BY <1>2, <1>3 DEF Short

\* PrepareTransmit: no frame is so old yet that it ceases to be recent.
LEMMA ShortPrepare ==
    ASSUME SessionTypeOK, Short, MaxPut[A] \in Nat, MaxPut[A] < SeqMod,
           Len(sent[A]) < MaxPut[A],
           NEW t \in Thread, NEW m \in Payload, PrepareTransmit(t, m)
    PROVE  retain'[A] \in Recent(SeqMod - 1)' /\ Prompt'
<1> DEFINE f == Data(Succ(tx_seq[A]), m)
<1>1. /\ TypeOK /\ A \in End /\ Len(sent[A]) \in Nat
      /\ tx_seq \in [End -> SeqNo] /\ sent \in [End -> Seq(Payload)]
      /\ retain \in [End -> DataFrame \cup {NoFrame}]
      /\ writing \in [Thread -> Frame \cup {NoFrame}]
      /\ Succ(tx_seq[A]) \in SeqNo
  BY SendFactsOf, SMTT(30) DEF SessionTypeOK, TypeOK
<1>2. SeqMod \in Nat /\ SeqMod >= 2 /\ SeqMod - 2 \in 0 .. SeqMod - 1 /\ SeqMod - 2 + 1 = SeqMod - 1
  BY SeqModAssumption
<1>3. f.seq = Succ(tx_seq[A])
  BY <1>1, FrameFacts
<1>4. /\ tx_seq'[A] = Succ(tx_seq[A]) /\ sent'[A] = Append(sent[A], m) /\ retain'[A] = f
      /\ writing' = [writing EXCEPT ![t] = f]
  BY <1>1, <1>3 DEF PrepareTransmit
<1>5. Recent(SeqMod - 1) = Recent(SeqMod - 2)
  <2>1. {k \in 0 .. SeqMod - 1 - 1 : k < Len(sent[A])} = {k \in 0 .. SeqMod - 2 - 1 : k < Len(sent[A])}
    BY <1>1, <1>2
  <2>2. QED
    BY <2>1 DEF Recent
<1>6. /\ \A g \in Recent(SeqMod - 1) : g \in Recent(SeqMod - 1)'
      /\ f \in Recent(SeqMod - 1)'
  BY <1>1, <1>2, <1>4, <1>5, RecentPut
<1>7. \A u \in Thread : writing'[u] = f \/ writing'[u] = writing[u]
  BY <1>1, <1>4
<1>8. QED
  BY <1>4, <1>6, <1>7 DEF Short, Prompt

\* What a thread decides to write otherwise is the retained frame, or a control frame.
LEMMA ShortOther ==
    ASSUME SessionTypeOK, Short,
           UNCHANGED <<accepted, tx_seq[A], sent[A], retain[A]>>,
           \A u \in Thread :
              \/ writing'[u] = writing[u] \/ writing'[u] = retain[A]
              \/ writing'[u].kind # "data"
    PROVE  Short'
<1>1. Recent(SeqMod - 1)' = Recent(SeqMod - 1)
  BY DEF Recent
<1>2. NoFrame.kind # "data"
  BY DEF NoFrame
<1>3. QED
  BY <1>1, <1>2 DEF Short, Prompt

LEMMA ShortStep ==
    ASSUME SessionTypeOK, QueueKeepsOrder, Short, MaxPut[A] < SeqMod, [SessionNext]_allVars
    PROVE  Short'
<1>1. /\ TypeOK /\ A \in End /\ B \in End /\ A # B /\ Reader \in Thread /\ Caller \subseteq Thread
      /\ Callback \subseteq Thread
      /\ writing \in [Thread -> Frame \cup {NoFrame}]
      /\ expected_rx_seq[A] \in SeqNo /\ MaxPut[A] \in Nat /\ Len(accepted) \in Nat
      /\ tx_seq \in [End -> SeqNo] /\ retain \in [End -> DataFrame \cup {NoFrame}]
      /\ Len(sent[A]) \in Nat /\ Len(sent[A]) <= Len(accepted) /\ Len(sent[A]) <= MaxPut[A]
      /\ queue \in Seq(Payload) /\ accepted \in Seq(Payload)
  <2>1. /\ TypeOK /\ A \in End /\ B \in End /\ A # B
    BY SendFactsOf, EndFacts DEF SessionTypeOK
  <2>2. /\ Reader \in Thread /\ Caller \subseteq Thread /\ Callback \subseteq Thread
    BY DEF Thread
  <2>3. /\ writing \in [Thread -> Frame \cup {NoFrame}]
        /\ queue \in Seq(Payload) /\ accepted \in Seq(Payload)
    BY DEF SessionTypeOK
  <2>4. /\ expected_rx_seq[A] \in SeqNo /\ tx_seq \in [End -> SeqNo]
        /\ retain \in [End -> DataFrame \cup {NoFrame}]
    BY <2>1 DEF TypeOK
  <2>5. Len(accepted) \in Nat
    BY <2>3
  <2>6. QED
    BY <2>1, <2>2, <2>3, <2>4, <2>5, SentIsShort
<1>2. ASSUME NEW t \in Caller, NEW m \in Payload, Send(t, m)
      PROVE  Short'
  <2>1. /\ Len(accepted) < MaxPut[A] /\ accepted' = Append(accepted, m)
        /\ Len(accepted') <= MaxPut[A]
    BY <1>1, <1>2 DEF Send
  <2>2. CASE awaiting_ack[A]
    <3>1. UNCHANGED <<tx_seq, sent, retain, writing>>
      BY <1>2, <2>2 DEF Send
    <3>2. QED
      BY <2>1, <3>1 DEF Short, Prompt, Recent
  <2>3. CASE ~awaiting_ack[A]
    <3>1. PrepareTransmit(t, m)
      BY <1>2, <2>3 DEF Send
    <3>2. Len(sent[A]) < MaxPut[A]
      BY <1>1, <2>1
    <3>3. QED
      BY <1>1, <2>1, <3>1, <3>2, ShortPrepare DEF Short
  <2>4. QED
    BY <2>2, <2>3
<1>3. CASE HandleAck
  <2>1. accepted' = accepted
    BY <1>3 DEF HandleAck
  <2>2. CASE ~Frees(A, Head(wire[A])) \/ queue = << >>
    <3>1. UNCHANGED <<tx_seq, sent, retain, writing>>
      BY <1>3, <2>2 DEF HandleAck, arqVars
    <3>2. QED
      BY <2>1, <3>1 DEF Short, Prompt, Recent
  <2>3. CASE Frees(A, Head(wire[A])) /\ queue # << >>
    <3>1. PrepareTransmit(Reader, Head(queue)) /\ Head(queue) \in Payload
      BY <1>1, <1>3, <2>3 DEF HandleAck
    <3>2. Len(sent[A]) < MaxPut[A]
      BY <2>3, SentIsShort
    <3>3. QED
      BY <1>1, <2>1, <3>1, <3>2, ShortPrepare DEF Short
  <2>4. QED
    BY <2>2, <2>3
<1>4. CASE Board \/ LineLoss
  <2>1. UNCHANGED <<accepted, writing, sent[A]>>
    BY <1>4, QueueUntouched DEF OtherStep, Board, LineLoss, sessionVars, threadVars
  <2>2. UNCHANGED <<tx_seq[A], retain[A]>>
    BY <1>1, <1>4 DEF Board, LineLoss, Put, Resend, Get, GetAck, GetNack, GetData, GetDuplicate,
                      GetUnexpected, GetCrcError, Lose, arqVars
  <2>3. QED
    BY <2>1, <2>2, ShortOther
<1>5. CASE \/ \E t \in Caller : Resume(t)
           \/ \E v \in AckTimeouts : SetAckTimeout(v)
           \/ \E c \in Callback : TimerFires(c) \/ OnAckTimeout(c)
           \/ \E t \in Thread : OnFrameError(t) \/ WriteFrame(t)
           \/ HandleNack \/ DispatchData \/ OnFrameReceived \/ RejectCrc
           \/ UNCHANGED allVars
  <2>1. UNCHANGED <<accepted, tx_seq, sent, retain>>
    BY <1>5 DEF Resume, SetAckTimeout, TimerFires, OnAckTimeout, OnFrameError, WriteFrame,
                HandleNack, DispatchData, OnFrameReceived, RejectCrc, allVars, sessionVars,
                vars, arqVars
  <2>2. \A f \in {NoFrame, Ack(Head(wire[A]).seq), Nack(expected_rx_seq[A])} : f.kind # "data"
    BY DEF NoFrame, Ack, Nack
  <2>3. \E u \in Thread, f \in {retain[A], NoFrame, Ack(Head(wire[A]).seq), Nack(expected_rx_seq[A])} :
            writing' = writing \/ writing' = [writing EXCEPT ![u] = f]
    BY <1>1, <1>5 DEF Resume, SetAckTimeout, TimerFires, OnAckTimeout, OnFrameError, WriteFrame,
                HandleNack, DispatchData, OnFrameReceived, RejectCrc, allVars, sessionVars,
                threadVars
  <2>4. \A u \in Thread :
            \/ writing'[u] = writing[u] \/ writing'[u] = retain[A]
            \/ writing'[u].kind # "data"
    BY <1>1, <2>2, <2>3
  <2>5. QED
    BY <2>1, <2>4, ShortOther
<1>6. QED
  BY <1>2, <1>3, <1>4, <1>5 DEF SessionNext

\* A session that sends fewer messages than there are sequence numbers implements both
\* abstract links, however its threads and callbacks are held up.
THEOREM ShortSession ==
    ASSUME MaxPut[A] < SeqMod
    PROVE  SessionSpec => SessionLinkImplemented
<1>1. SessionInit => Short
  <2>1. SUFFICES ASSUME SessionInit PROVE Short
    OBVIOUS
  <2>2. /\ accepted = << >> /\ retain[A] = NoFrame /\ MaxPut[A] \in Nat
        /\ \A t \in Thread : writing[t] = NoFrame
    BY <2>1, EndFacts, BoundAssumption DEF SessionInit, Init
  <2>3. NoFrame.kind # "data" /\ Len(<< >>) = 0
    BY DEF NoFrame
  <2>4. QED
    BY <2>2, <2>3 DEF Short, Prompt
<1>2. SessionTypeOK /\ QueueKeepsOrder /\ Short /\ [SessionNext]_allVars => Short'
  BY ShortStep
<1>3. Short => Prompt
  BY DEF Short
<1>4. SessionSpec => []Prompt
  BY <1>1, <1>2, <1>3, SessionTypeCorrectness, QueueOrder, PTL DEF SessionSpec
<1>5. QED
  BY <1>4, PromptSession, PTL

=============================================================================
