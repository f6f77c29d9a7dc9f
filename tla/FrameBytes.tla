------------------------------ MODULE FrameBytes ------------------------------
(***************************************************************************)
(* One direction of a link byte by byte: the frames that frame_arq_put and  *)
(* fa_write_control write, and read_frame of frame_arq.c, which finds them  *)
(* again in what the line delivers; or the reader that EspSerialSession.cs  *)
(* has of its own.  The answers of the receiver go back whole and undamaged: *)
(* their loss is the subject of FrameArq.                                   *)
(*                                                                         *)
(* One action of the reader is one byte from read_cb, with what             *)
(* frame_arq_get does if the byte completes a frame.  read_frame keeps all  *)
(* it knows in the frame_arq_t, so a call cut short by a read_cb that has   *)
(* nothing (FRAME_ARQ_INCOMPLETE) is a stuttering step.                     *)
(*                                                                         *)
(* The length is one byte here and so is the CRC, which stands for what it  *)
(* was computed over.  A payload may hold the CRC of a frame, and all of the *)
(* frame; what is left out is a CRC that matches by chance.                 *)
(* Definitions whose name ends in _ are faulty forms, as in FrameArq.       *)
(***************************************************************************)
EXTENDS Integers, Sequences

CONSTANTS
    Readers,        \* "library", "session": whose reader it may be
    Marks,          \* marker bytes of a frame (8)
    SeqMod,         \* number of sequence numbers (64)
    ByteMax,        \* largest byte (255)
    CrcByte,        \* what a CRC reads as, where a CRC is not expected
    PayloadMax,     \* payload_max_size
    Message,        \* what is sent: [cmd, payload]
    MaxPut,         \* bound: DATA frames sent
    MaxControls,    \* bound: control frames sent in between
    MaxFaults,      \* bound: bytes lost, damaged or made up by the line
    MaxTexts,       \* bound: bytes of log text sent between frames
    MaxDiscards     \* bound: calls of frame_arq_discard

\* Type bits of the seq/type byte: [ttssssss].
FA_TYPE_DATA == 0
FA_TYPE_ACK == 1
FA_TYPE_NACK == 2

\* Markers are the bytes from 128 = FA_TYPE_NACK << 6 up; the first is cmd 0.
FA_CTRL_MARKER == FA_TYPE_NACK * SeqMod

Byte == 0 .. ByteMax
SeqNo == 0 .. SeqMod - 1

\* A unit of the line: its value as a byte and, if it is a CRC, its input.
Unit == [val : Byte, crc : Seq(Byte)]

ASSUME SizeAssumption ==
    /\ Readers \subseteq {"library", "session"}
    /\ Marks \in Nat \ {0}
    /\ SeqMod \in Nat /\ SeqMod >= 2
    /\ ByteMax \in Nat /\ ByteMax >= FA_CTRL_MARKER + SeqMod - 1
    /\ PayloadMax \in 0 .. ByteMax
    /\ CrcByte \in Byte
ASSUME BoundAssumption ==
    \A n \in {MaxPut, MaxControls, MaxFaults, MaxTexts, MaxDiscards} : n \in Nat
ASSUME MessageAssumption ==
    /\ Message \subseteq [cmd : 1 .. ByteMax - FA_CTRL_MARKER, payload : Seq(Unit)]
    /\ \A m \in Message : Len(m.payload) <= PayloadMax

VARIABLES
    reader,                 \* whose reader it is
    tx_seq, awaiting_ack,   \* of the sender
    retain,                 \* the sender's retain_buffer
    expected_rx_seq,        \* of the receiver
    read_buffer,            \* the bytes assembled so far (byte_count of them)
    line,                   \* the bytes on their way to the receiver
    back,                   \* the answers on their way to the sender
    sent, got,              \* history: messages put, messages delivered
    budget                  \* what is left of the bounds

sender == <<tx_seq, awaiting_ack, retain, sent>>
vars == <<reader, sender, expected_rx_seq, read_buffer, line, back, got, budget>>

Succ_(s) == s + 1
Succ(s) == (s + 1) % SeqMod
Pred(s) == (s - 1) % SeqMod

-----------------------------------------------------------------------------
(***************************************************************************)
(* Frames on the wire.                                                     *)
(***************************************************************************)

Plain(v) == [val |-> v, crc |-> << >>]
Values(p) == [i \in DOMAIN p |-> p[i].val]

\* What the two programs see of a message.
Shown(m) == [cmd |-> m.cmd, payload |-> Values(m.payload)]

\* The marker bytes, FA_SEQBYTE, the length, the CRC, the payload.
Bytes(cmd, type, seq, payload) ==
    LET seqbyte == type * SeqMod + seq IN
       [i \in 1 .. Marks |-> Plain(FA_CTRL_MARKER + cmd)]
    \o << Plain(seqbyte), Plain(Len(payload)),
          [val |-> CrcByte, crc |-> <<seqbyte, Len(payload)>> \o Values(payload)] >>
    \o payload

HeaderLength == Marks + 3

\* The fields of an assembled header, and what follows it.
SeqByte(w) == w[Marks + 1].val
Size(w) == w[Marks + 2].val
PayloadOf(w) ==
    [i \in 1 .. Len(w) - HeaderLength |-> w[HeaderLength + i].val]

\* The CRC over the payload alone, as in htcw_frame.
CrcMatches_(w) ==
    /\ Len(w[HeaderLength].crc) >= 2
    /\ SubSeq(w[HeaderLength].crc, 3, Len(w[HeaderLength].crc)) = PayloadOf(w)
CrcMatches(w) == w[HeaderLength].crc = <<SeqByte(w), Size(w)>> \o PayloadOf(w)

TypeOf(w) == SeqByte(w) \div SeqMod
SeqOf(w) == SeqByte(w) % SeqMod

Init ==
    /\ reader \in Readers
    /\ tx_seq = SeqMod - 1
    /\ awaiting_ack = FALSE
    /\ retain = << >>
    /\ expected_rx_seq = 0
    /\ read_buffer = << >>
    /\ line = << >>
    /\ back = << >>
    /\ sent = << >>
    /\ got = << >>
    /\ budget = [controls |-> MaxControls, faults |-> MaxFaults,
                 texts |-> MaxTexts, discards |-> MaxDiscards]

Spend(what) == budget[what] > 0 /\ budget' = [budget EXCEPT ![what] = @ - 1]

-----------------------------------------------------------------------------
(***************************************************************************)
(* The sender.                                                             *)
(***************************************************************************)

\* frame_arq_put.
Put(m) ==
    /\ ~awaiting_ack
    /\ Len(sent) < MaxPut
    /\ tx_seq' = Succ(tx_seq)
    /\ retain' = Bytes(m.cmd, FA_TYPE_DATA, tx_seq', m.payload)
    /\ awaiting_ack' = TRUE
    /\ line' = line \o retain'
    /\ sent' = Append(sent, m)
    /\ UNCHANGED <<reader, expected_rx_seq, read_buffer, back, got, budget>>

\* frame_arq_resend when the caller's timer runs out on a quiet line.
Timeout ==
    /\ awaiting_ack
    /\ line = << >> /\ back = << >>
    /\ line' = retain
    /\ UNCHANGED <<reader, sender, expected_rx_seq, read_buffer, back, got, budget>>

\* frame_arq_get reads an answer; the caller resends on RESEND_NEEDED.
GetAck ==
    /\ back # << >> /\ Head(back).type = FA_TYPE_ACK
    /\ awaiting_ack' = (awaiting_ack /\ Head(back).seq # tx_seq)
    /\ back' = Tail(back)
    /\ UNCHANGED <<reader, tx_seq, retain, sent, expected_rx_seq, read_buffer,
                   line, got, budget>>

GetNack ==
    /\ back # << >> /\ Head(back).type = FA_TYPE_NACK
    /\ back' = Tail(back)
    /\ line' = IF awaiting_ack THEN line \o retain ELSE line
    /\ UNCHANGED <<reader, sender, expected_rx_seq, read_buffer, got, budget>>

\* fa_write_control: an ACK or a NACK of the frames of the other direction.
Control(type, seq) ==
    /\ Spend("controls")
    /\ line' = line \o Bytes(0, type, seq, << >>)
    /\ UNCHANGED <<reader, sender, expected_rx_seq, read_buffer, back, got>>

\* The sender's program writes log text to the same line.
LogText(v) ==
    /\ v < FA_CTRL_MARKER
    /\ Spend("texts")
    /\ line' = Append(line, Plain(v))
    /\ UNCHANGED <<reader, sender, expected_rx_seq, read_buffer, back, got>>

-----------------------------------------------------------------------------
(***************************************************************************)
(* The receiver.                                                           *)
(***************************************************************************)

\* read_frame_marker: a byte that breaks a marker may begin another one.
LibraryMark(b) ==
    IF b.val < FA_CTRL_MARKER THEN << >>
    ELSE IF read_buffer # << >> /\ b.val = read_buffer[1].val
         THEN Append(read_buffer, b)
    ELSE <<b>>

\* The session's search, with text let into a marker.
SessionMark_(b) ==
    IF read_buffer = << >> THEN <<b>>
    ELSE IF b.val = read_buffer[1].val THEN Append(read_buffer, b)
    ELSE << >>

\* The first states of StateMachine.Step: such a byte is dropped.
SessionMark(b) ==
    IF read_buffer = << >>
    THEN IF b.val < FA_CTRL_MARKER THEN << >> ELSE <<b>>
    ELSE IF b.val = read_buffer[1].val THEN Append(read_buffer, b)
    ELSE << >>

\* What read_buffer is with one byte more.
Pump(b) ==
    IF Len(read_buffer) >= Marks THEN Append(read_buffer, b)
    ELSE IF reader = "session" THEN SessionMark(b)
    ELSE LibraryMark(b)

Oversize_(w) == Len(w) >= HeaderLength /\ Size(w) > PayloadMax + 1
Oversize(w) == Len(w) >= HeaderLength /\ Size(w) > PayloadMax
Complete(w) ==
    /\ Len(w) >= HeaderLength /\ ~Oversize(w)
    /\ Len(w) >= HeaderLength + Size(w)

Read == line # << >> /\ line' = Tail(line)
Pumped == Pump(Head(line))

\* The frame is not complete yet, or there is none.
Assemble ==
    /\ Read
    /\ ~Oversize(Pumped) /\ ~Complete(Pumped)
    /\ read_buffer' = Pumped
    /\ UNCHANGED <<reader, sender, expected_rx_seq, back, got, budget>>

Answer(type, seq) == back' = Append(back, [type |-> type, seq |-> seq])

\* byte_count not set back with the overflow.
GetOverflow_ ==
    /\ Read
    /\ reader = "library"
    /\ Oversize(Pumped)
    /\ UNCHANGED <<reader, read_buffer, sender, expected_rx_seq, back, got, budget>>

\* The length is out of range: FRAME_ARQ_ERROR_OVERFLOW.
GetOverflow ==
    /\ Read
    /\ reader = "library"
    /\ Oversize(Pumped)
    /\ read_buffer' = << >>
    /\ UNCHANGED <<reader, sender, expected_rx_seq, back, got, budget>>

\* The session answers such a length with a NACK.
RejectLength ==
    /\ Read
    /\ reader = "session"
    /\ Oversize(Pumped)
    /\ read_buffer' = << >>
    /\ Answer(FA_TYPE_NACK, expected_rx_seq)
    /\ UNCHANGED <<reader, sender, expected_rx_seq, got, budget>>

\* The CRC does not match: NACK, FRAME_ARQ_ERROR_CRC.
GetCrcError ==
    /\ Read
    /\ Complete(Pumped) /\ ~CrcMatches(Pumped)
    /\ read_buffer' = << >>
    /\ Answer(FA_TYPE_NACK, expected_rx_seq)
    /\ UNCHANGED <<reader, sender, expected_rx_seq, got, budget>>

IsFrame(w) == Complete(w) /\ CrcMatches(w)
IsControl(w) == w[1].val = FA_CTRL_MARKER \/ TypeOf(w) # FA_TYPE_DATA

\* A control frame: it concerns the other direction.
GetControl ==
    /\ Read
    /\ IsFrame(Pumped) /\ IsControl(Pumped)
    /\ read_buffer' = << >>
    /\ UNCHANGED <<reader, sender, expected_rx_seq, back, got, budget>>

\* The expected DATA frame: ACK it and deliver it.
GetData ==
    /\ Read
    /\ IsFrame(Pumped) /\ ~IsControl(Pumped)
    /\ SeqOf(Pumped) = expected_rx_seq
    /\ read_buffer' = << >>
    /\ Answer(FA_TYPE_ACK, SeqOf(Pumped))
    /\ expected_rx_seq' = Succ(SeqOf(Pumped))
    /\ got' = Append(got, [cmd |-> Pumped[1].val - FA_CTRL_MARKER,
                           payload |-> PayloadOf(Pumped)])
    /\ UNCHANGED <<reader, sender, budget>>

\* A duplicate of the last one: ACK it again.  (The third branch, for any other
\* seq, is in FrameArq, which shows that it is taken only after a reset.)
GetDuplicate ==
    /\ Read
    /\ IsFrame(Pumped) /\ ~IsControl(Pumped)
    /\ SeqOf(Pumped) # expected_rx_seq
    /\ SeqOf(Pumped) = Pred(expected_rx_seq)
    /\ read_buffer' = << >>
    /\ Answer(FA_TYPE_ACK, SeqOf(Pumped))
    /\ UNCHANGED <<reader, sender, expected_rx_seq, got, budget>>

\* frame_arq_discard (the session has none), called while bytes are waiting.
Discard ==
    /\ Spend("discards")
    /\ reader = "library"
    /\ line # << >>
    /\ read_buffer' = << >>
    /\ UNCHANGED <<reader, sender, expected_rx_seq, line, back, got>>

-----------------------------------------------------------------------------
\* The line loses its next byte, shows another, or makes one up.
Fault ==
    /\ Spend("faults")
    /\ \/ line # << >> /\ line' = Tail(line)
       \/ line # << >> /\ \E v \in Byte : line' = [line EXCEPT ![1] = Plain(v)]
       \/ \E v \in Byte : line' = <<Plain(v)>> \o line
    /\ UNCHANGED <<reader, sender, expected_rx_seq, read_buffer, back, got>>

Receiver ==
    \/ Assemble \/ GetOverflow \/ RejectLength \/ GetCrcError
    \/ GetControl \/ GetData \/ GetDuplicate

Next ==
    \/ \E m \in Message : Put(m)
    \/ Timeout \/ GetAck \/ GetNack
    \/ \E type \in {FA_TYPE_ACK, FA_TYPE_NACK}, seq \in SeqNo : Control(type, seq)
    \/ \E v \in Byte : LogText(v)
    \/ Receiver
    \/ Discard
    \/ Fault

Spec == Init /\ [][Next]_vars

\* Both programs keep calling frame_arq_get, and the sender keeps its timer.
Fairness ==
    /\ WF_vars(Receiver)
    /\ WF_vars(GetAck \/ GetNack)
    /\ WF_vars(Timeout)

FairSpec == Spec /\ Fairness

-----------------------------------------------------------------------------
(***************************************************************************)
(* Properties.                                                             *)
(***************************************************************************)

\* Every variable keeps its type.
TypeOK ==
    /\ reader \in Readers
    /\ tx_seq \in SeqNo /\ expected_rx_seq \in SeqNo
    /\ awaiting_ack \in BOOLEAN
    /\ retain \in Seq(Unit) /\ read_buffer \in Seq(Unit) /\ line \in Seq(Unit)
    /\ back \in Seq([type : {FA_TYPE_ACK, FA_TYPE_NACK}, seq : SeqNo])
    /\ sent \in Seq(Message)
    /\ got \in Seq([cmd : Int, payload : Seq(Byte)])
    /\ budget \in [{"controls", "faults", "texts", "discards"} -> Nat]

\* read_buffer, of FRAME_ARQ_HEADER_LENGTH + max_payload_size bytes, is never
\* written past its end, whatever the line shows; between two bytes it holds no
\* whole frame, and from the header on its length field is in range.
BufferBound ==
    /\ Len(read_buffer) < HeaderLength + PayloadMax
    /\ Len(read_buffer) >= HeaderLength =>
          /\ Size(read_buffer) <= PayloadMax
          /\ Len(read_buffer) < HeaderLength + Size(read_buffer)

\* On a line without a fault or a discard so far every frame is found again,
\* between log text and control frames, whatever is in the payloads, a frame
\* included: nothing is rejected.
CleanLineIsRead ==
    [][budget.faults = MaxFaults /\ budget.discards = MaxDiscards
          => ~GetOverflow /\ ~RejectLength /\ ~GetCrcError]_vars

Link == INSTANCE ReliableLink
            WITH Payload <- {Shown(m) : m \in Message},
                 sent <- [i \in DOMAIN sent |-> Shown(sent[i])],
                 busy <- awaiting_ack

\* No payload holds a CRC.
NoFrameInside == \A m \in Message : \A i \in DOMAIN m.payload : m.payload[i].crc = << >>

\* However bytes are lost, damaged or made up (fewer than a marker has) and
\* wherever a discard cuts in, if NoFrameInside: only what was put is delivered,
\* with its command and payload, once, in order, and it is confirmed only then.
\* (With a whole frame in a payload it is not so: if the frame around it loses a
\* byte of its marker, the reader finds the inner frame.)
LinkImplemented == Link!Spec

\* "Guaranteed delivery": the reader finds its way back to the frames, so what
\* is put is delivered and confirmed in the end.  (For which payloads it does is
\* a matter of Message: see the README.)
GuaranteedDelivery == Link!FairSpec

=============================================================================
