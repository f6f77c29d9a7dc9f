--------------------------- MODULE FrameBytes_proofs ---------------------------
(***************************************************************************)
(* Proofs about FrameBytes: whatever the line shows, read_frame stays       *)
(* inside read_buffer, for any marker length, payload size and messages.    *)
(***************************************************************************)
EXTENDS FrameBytes, TLAPS

\* The bound needs the length field's type; neither holds alone.
IInv == TypeOK /\ BufferBound

-----------------------------------------------------------------------------
(***************************************************************************)
(* Bytes and frames.                                                       *)
(***************************************************************************)

LEMMA ByteFacts ==
    /\ Marks \in Nat /\ Marks >= 1 /\ SeqMod \in Nat /\ SeqMod >= 1
    /\ PayloadMax \in Nat /\ HeaderLength \in Nat /\ HeaderLength = Marks + 3
    /\ FA_CTRL_MARKER \in Byte
    /\ \A n \in 0 .. PayloadMax : n \in Byte
    /\ \A v \in Byte : v \in Nat /\ Plain(v) \in Unit
    /\ \A u \in Unit : u.val \in Byte
BY SizeAssumption DEF HeaderLength, FA_CTRL_MARKER, FA_TYPE_NACK, Byte, Plain, Unit

\* A message that put accepts has its bytes, and so has its marker.
LEMMA MessageFacts ==
    ASSUME NEW m \in Message
    PROVE  /\ m.cmd \in Nat /\ FA_CTRL_MARKER + m.cmd \in Byte
           /\ m.payload \in Seq(Unit) /\ Len(m.payload) <= PayloadMax
<1>1. m.cmd \in 1 .. ByteMax - FA_CTRL_MARKER
  BY MessageAssumption
<1>2. FA_CTRL_MARKER \in Nat /\ ByteMax \in Nat
  BY SizeAssumption, ByteFacts
<1>3. m.cmd \in Nat /\ FA_CTRL_MARKER + m.cmd \in Byte
  BY <1>1, <1>2 DEF Byte
<1>4. QED
  BY <1>3, MessageAssumption

\* The values of the bytes of a payload.
LEMMA ValuesFacts ==
    ASSUME NEW p \in Seq(Unit)
    PROVE  /\ Values(p) \in Seq(Byte) /\ Len(Values(p)) = Len(p)
           /\ Values(p) = [i \in 1 .. Len(p) |-> p[i].val]
<1>1. DOMAIN p = 1 .. Len(p) /\ Len(p) \in Nat /\ \A i \in 1 .. Len(p) : p[i].val \in Byte
  BY ByteFacts
<1>2. QED
  BY <1>1 DEF Values

\* Sequence numbers stay in their range.
LEMMA SeqNoFacts ==
    /\ \A s \in SeqNo : Succ(s) \in SeqNo
    /\ SeqMod - 1 \in SeqNo /\ 0 \in SeqNo
BY SizeAssumption DEF SeqNo, Succ

\* The frames that frame_arq_put and fa_write_control build are bytes.
LEMMA BytesType ==
    ASSUME NEW cmd \in Nat, FA_CTRL_MARKER + cmd \in Byte,
           NEW type \in {FA_TYPE_DATA, FA_TYPE_ACK, FA_TYPE_NACK},
           NEW seq \in SeqNo,
           NEW payload \in Seq(Unit), Len(payload) <= PayloadMax
    PROVE  Bytes(cmd, type, seq, payload) \in Seq(Unit)
<1> DEFINE seqbyte == type * SeqMod + seq
<1> DEFINE marks == [i \in 1 .. Marks |-> Plain(FA_CTRL_MARKER + cmd)]
<1> DEFINE crc == [val |-> CrcByte, crc |-> <<seqbyte, Len(payload)>> \o Values(payload)]
<1>1. seqbyte \in Byte
  BY SizeAssumption
     DEF Byte, SeqNo, FA_TYPE_DATA, FA_TYPE_ACK, FA_TYPE_NACK, FA_CTRL_MARKER
<1>2. Len(payload) \in Byte
  BY ByteFacts
<1>3. marks \in Seq(Unit)
  BY ByteFacts
<1>4. <<seqbyte, Len(payload)>> \o Values(payload) \in Seq(Byte)
  <2>1. Values(payload) \in Seq(Byte)
    BY ValuesFacts
  <2>2. QED
    BY <1>1, <1>2, <2>1
<1>5. crc \in Unit
  BY <1>4, SizeAssumption DEF Unit
<1>6. << Plain(seqbyte), Plain(Len(payload)), crc >> \in Seq(Unit)
  BY <1>1, <1>2, <1>5, ByteFacts
<1> HIDE DEF seqbyte, marks, crc
<1>8. (marks \o << Plain(seqbyte), Plain(Len(payload)), crc >>) \o payload \in Seq(Unit)
  BY <1>3, <1>6
<1>9. QED
  BY <1>8 DEF Bytes, seqbyte, marks, crc

\* One byte more: the buffer is a run of markers, or grows by one.
LEMMA PumpFacts ==
    ASSUME read_buffer \in Seq(Unit), NEW b \in Unit
    PROVE  /\ Pump(b) \in Seq(Unit)
           /\ Len(Pump(b)) <= Len(read_buffer) + 1
           /\ Len(Pump(b)) > Marks => Pump(b) = Append(read_buffer, b)
<1>1. CASE Len(read_buffer) >= Marks
  BY <1>1 DEF Pump
<1>2. CASE Len(read_buffer) < Marks
  <2>1. \/ Pump(b) = Append(read_buffer, b)
        \/ Pump(b) = << >>
        \/ Pump(b) = <<b>>
    BY <1>2 DEF Pump, LibraryMark, SessionMark
  <2>2. Marks >= 1 /\ Marks \in Nat
    BY ByteFacts
  <2>3. CASE Pump(b) = Append(read_buffer, b)
    BY <2>3
  <2>4. CASE Pump(b) = << >>
    BY <2>2, <2>4
  <2>5. CASE Pump(b) = <<b>>
    <3>1. Len(<<b>>) = 1 /\ <<b>> \in Seq(Unit) /\ Len(read_buffer) \in Nat
      OBVIOUS
    <3>2. QED
      BY <2>2, <2>5, <3>1
  <2>6. QED
    BY <2>1, <2>3, <2>4, <2>5
<1>3. QED
  BY <1>1, <1>2, ByteFacts

\* The head of the line is a byte.
LEMMA ReadFacts ==
    ASSUME TypeOK, Read
    PROVE  Head(line) \in Unit /\ line' \in Seq(Unit)
BY DEF TypeOK, Read

-----------------------------------------------------------------------------
(***************************************************************************)
(* The steps.                                                              *)
(***************************************************************************)

\* What a step of the sender, or the line, leaves of the receiver's buffer.
LEMMA BoundKept ==
    ASSUME BufferBound, UNCHANGED read_buffer \/ read_buffer' = << >>
    PROVE  BufferBound'
<1>1. Len(<< >>) = 0
  OBVIOUS
<1>2. HeaderLength \in Nat /\ HeaderLength > 0 /\ PayloadMax \in Nat
  BY ByteFacts
<1>3. CASE UNCHANGED read_buffer
  BY <1>3 DEF BufferBound, Size
<1>4. CASE read_buffer' = << >>
  BY <1>1, <1>2, <1>4 DEF BufferBound
<1>5. QED
  BY <1>3, <1>4

\* A byte that completes no frame and no bad header leaves room for the next.
LEMMA AssembleBound ==
    ASSUME TypeOK, Assemble
    PROVE  BufferBound' /\ read_buffer' \in Seq(Unit)
<1> DEFINE w == Pumped
<1>1. w \in Seq(Unit)
  BY ReadFacts, PumpFacts DEF Assemble, Pumped, TypeOK
<1>2. read_buffer' = w /\ ~Oversize(w) /\ ~Complete(w)
  BY DEF Assemble
<1> HIDE DEF w
<1>3. Len(w) >= HeaderLength => Size(w) \in Nat
  <2>1. Len(w) >= HeaderLength => Marks + 2 \in DOMAIN w
    BY <1>1, ByteFacts
  <2>2. Len(w) >= HeaderLength => w[Marks + 2] \in Unit
    BY <1>1, <2>1
  <2>3. QED
    BY <2>2, ByteFacts DEF Size
<1>4. Len(w) >= HeaderLength => Size(w) <= PayloadMax /\ Len(w) < HeaderLength + Size(w)
  BY <1>1, <1>2, <1>3, ByteFacts DEF Oversize, Complete
<1>5. Len(w) < HeaderLength + PayloadMax
  <2>1. CASE Len(w) >= HeaderLength
    BY <1>1, <1>3, <1>4, <2>1, ByteFacts
  <2>2. CASE Len(w) < HeaderLength
    BY <1>1, <2>2, ByteFacts
  <2>3. QED
    BY <1>1, <2>1, <2>2, ByteFacts
<1>6. QED
  BY <1>1, <1>2, <1>4, <1>5 DEF BufferBound, Size

\* The payload read back is a string of bytes.
LEMMA PayloadType ==
    ASSUME NEW w \in Seq(Unit), Len(w) >= HeaderLength
    PROVE  PayloadOf(w) \in Seq(Byte)
<1>1. Len(w) - HeaderLength \in Nat
  BY ByteFacts
<1>2. ASSUME NEW i \in 1 .. Len(w) - HeaderLength
      PROVE  w[HeaderLength + i].val \in Byte
  <2>1. HeaderLength + i \in DOMAIN w
    BY ByteFacts
  <2>2. w[HeaderLength + i] \in Unit
    BY <2>1
  <2>3. QED
    BY <2>2, ByteFacts
<1>3. QED
  BY <1>1, <1>2 DEF PayloadOf

\* The steps keep the types.
LEMMA TypeStep ==
    ASSUME TypeOK, [Next]_vars
    PROVE  TypeOK'
<1> USE DEF TypeOK
<1>1. ASSUME NEW m \in Message, Put(m)
      PROVE  TypeOK'
  <2>1. tx_seq' \in SeqNo
    BY <1>1, SeqNoFacts DEF Put
  <2>2. /\ m.cmd \in Nat /\ FA_CTRL_MARKER + m.cmd \in Byte
        /\ m.payload \in Seq(Unit) /\ Len(m.payload) <= PayloadMax
    BY MessageFacts
  <2>3. Bytes(m.cmd, FA_TYPE_DATA, tx_seq', m.payload) \in Seq(Unit)
    BY <2>1, <2>2, BytesType
  <2>4. retain' \in Seq(Unit) /\ line' \in Seq(Unit)
    BY <1>1, <2>3 DEF Put
  <2>5. QED
    BY <1>1, <2>1, <2>4 DEF Put
<1>2. ASSUME Timeout
      PROVE  TypeOK'
  BY <1>2 DEF Timeout, sender
<1>3. ASSUME GetAck \/ GetNack
      PROVE  TypeOK'
  <2> DEFINE Answers == [type : {FA_TYPE_ACK, FA_TYPE_NACK}, seq : SeqNo]
  <2> HIDE DEF Answers
  <2>1. back' \in Seq(Answers)
    <3>1. back \in Seq(Answers) /\ back # << >> /\ back' = Tail(back)
      BY <1>3 DEF GetAck, GetNack, Answers
    <3>2. QED
      BY <3>1
  <2>2. line' \in Seq(Unit)
    <3>1. line \in Seq(Unit) /\ retain \in Seq(Unit)
      OBVIOUS
    <3>2. line' = line \/ line' = line \o retain
      BY <1>3 DEF GetAck, GetNack
    <3>3. line \o retain \in Seq(Unit)
      BY <3>1
    <3>4. QED
      BY <3>1, <3>2, <3>3
  <2>3. QED
    BY <1>3, <2>1, <2>2 DEF GetAck, GetNack, sender, Answers
<1>4. ASSUME NEW type \in {FA_TYPE_ACK, FA_TYPE_NACK}, NEW seq \in SeqNo,
             Control(type, seq)
      PROVE  TypeOK'
  <2>1. Bytes(0, type, seq, << >>) \in Seq(Unit)
    <3>1. << >> \in Seq(Unit) /\ Len(<< >>) <= PayloadMax /\ FA_CTRL_MARKER + 0 \in Byte
      BY ByteFacts DEF Byte
    <3>2. QED
      BY <3>1, BytesType
  <2>2. line' \in Seq(Unit)
    BY <1>4, <2>1 DEF Control
  <2>3. budget' \in [{"controls", "faults", "texts", "discards"} -> Nat]
    BY <1>4 DEF Control, Spend
  <2>4. QED
    BY <1>4, <2>2, <2>3 DEF Control, sender
<1>5. ASSUME NEW v \in Byte, LogText(v)
      PROVE  TypeOK'
  <2>1. line' \in Seq(Unit)
    BY <1>5, ByteFacts DEF LogText
  <2>2. budget' \in [{"controls", "faults", "texts", "discards"} -> Nat]
    BY <1>5 DEF LogText, Spend
  <2>3. QED
    BY <1>5, <2>1, <2>2 DEF LogText, sender
<1>6. ASSUME Assemble
      PROVE  TypeOK'
  BY <1>6, AssembleBound, ReadFacts DEF Assemble, sender
<1>7. ASSUME GetOverflow \/ GetControl
      PROVE  TypeOK'
  <2>1. read_buffer' = << >> /\ line' \in Seq(Unit)
    BY <1>7, ReadFacts DEF GetOverflow, GetControl
  <2>2. UNCHANGED <<reader, sender, expected_rx_seq, back, got, budget>>
    BY <1>7 DEF GetOverflow, GetControl
  <2>3. QED
    BY <2>1, <2>2 DEF sender
<1>8. ASSUME GetCrcError \/ RejectLength
      PROVE  TypeOK'
  <2> DEFINE Answers == [type : {FA_TYPE_ACK, FA_TYPE_NACK}, seq : SeqNo]
  <2> DEFINE nack == [type |-> FA_TYPE_NACK, seq |-> expected_rx_seq]
  <2>1. back' \in Seq(Answers)
    <3>1. nack \in Answers /\ back \in Seq(Answers)
      OBVIOUS
    <3>2. back' = Append(back, nack)
      BY <1>8 DEF GetCrcError, RejectLength, Answer
    <3> HIDE DEF Answers, nack
    <3>3. QED
      BY <3>1, <3>2
  <2>2. read_buffer' = << >> /\ line' \in Seq(Unit)
    BY <1>8, ReadFacts DEF GetCrcError, RejectLength
  <2>3. QED
    BY <1>8, <2>1, <2>2 DEF GetCrcError, RejectLength, sender
<1>9. ASSUME GetData
      PROVE  TypeOK'
  <2>1. Pumped \in Seq(Unit)
    BY <1>9, ReadFacts, PumpFacts DEF GetData, Pumped
  <2>2. Len(Pumped) >= HeaderLength /\ 1 \in DOMAIN Pumped
    BY <1>9, <2>1, ByteFacts, SMTT(30) DEF GetData, IsFrame, Complete
  <2>3. PayloadOf(Pumped) \in Seq(Byte)
    BY <2>1, <2>2, PayloadType
  <2>4. Pumped[1].val - FA_CTRL_MARKER \in Int
    <3>1. Pumped[1] \in Unit
      BY <2>1, <2>2
    <3>2. Pumped[1].val \in Nat /\ FA_CTRL_MARKER \in Nat
      BY <3>1, ByteFacts
    <3>3. QED
      BY <3>2, SMTT(30)
  <2>5. got' \in Seq([cmd : Int, payload : Seq(Byte)])
    BY <1>9, <2>3, <2>4 DEF GetData
  <2>6. expected_rx_seq' \in SeqNo
    BY <1>9, SeqNoFacts DEF GetData
  <2>7. back' \in Seq([type : {FA_TYPE_ACK, FA_TYPE_NACK}, seq : SeqNo])
    BY <1>9 DEF GetData, Answer
  <2>8. line' \in Seq(Unit) /\ read_buffer' \in Seq(Unit)
    BY <1>9, ReadFacts DEF GetData
  <2>9. QED
    BY <1>9, <2>5, <2>6, <2>7, <2>8 DEF GetData, sender
<1>10. ASSUME GetDuplicate
       PROVE  TypeOK'
  <2>1. Pred(expected_rx_seq) \in SeqNo
    BY SizeAssumption DEF SeqNo, Pred
  <2>2. back' \in Seq([type : {FA_TYPE_ACK, FA_TYPE_NACK}, seq : SeqNo])
    BY <1>10, <2>1 DEF GetDuplicate, Answer
  <2>3. QED
    BY <1>10, <2>2, ReadFacts DEF GetDuplicate, sender
<1>11. ASSUME Discard
       PROVE  TypeOK'
  BY <1>11 DEF Discard, Spend, sender
<1>12. ASSUME Fault
       PROVE  TypeOK'
  <2>1. line' \in Seq(Unit)
    <3>1. line \in Seq(Unit)
      OBVIOUS
    <3>2. CASE line # << >> /\ line' = Tail(line)
      BY <3>1, <3>2
    <3>3. ASSUME NEW v \in Byte, line # << >>, line' = [line EXCEPT ![1] = Plain(v)]
          PROVE  line' \in Seq(Unit)
      BY <3>1, <3>3, ByteFacts
    <3>4. ASSUME NEW v \in Byte, line' = <<Plain(v)>> \o line
          PROVE  line' \in Seq(Unit)
      BY <3>1, <3>4, ByteFacts
    <3>5. QED
      BY <1>12, <3>2, <3>3, <3>4 DEF Fault
  <2>2. budget' \in [{"controls", "faults", "texts", "discards"} -> Nat]
    BY <1>12 DEF Fault, Spend
  <2>3. QED
    BY <1>12, <2>1, <2>2 DEF Fault, sender
<1>13. CASE UNCHANGED vars
  BY <1>13 DEF vars, sender
<1>14. QED
  BY <1>1, <1>2, <1>3, <1>4, <1>5, <1>6, <1>7, <1>8, <1>9, <1>10, <1>11,
     <1>12, <1>13 DEF Next, Receiver

-----------------------------------------------------------------------------
(***************************************************************************)
(* The theorems.                                                           *)
(***************************************************************************)

\* A frame_arq_t from frame_arq_create satisfies the invariant.
LEMMA InitInv == Init => IInv
<1>1. ASSUME Init
      PROVE  TypeOK
  <2>1. budget \in [{"controls", "faults", "texts", "discards"} -> Nat]
    BY <1>1, BoundAssumption DEF Init
  <2>2. tx_seq \in SeqNo /\ expected_rx_seq \in SeqNo /\ awaiting_ack \in BOOLEAN
    BY <1>1, SeqNoFacts DEF Init
  <2>3. retain \in Seq(Unit) /\ read_buffer \in Seq(Unit) /\ line \in Seq(Unit)
    BY <1>1 DEF Init
  <2>4. back \in Seq([type : {FA_TYPE_ACK, FA_TYPE_NACK}, seq : SeqNo])
    BY <1>1 DEF Init
  <2>5. sent \in Seq(Message) /\ got \in Seq([cmd : Int, payload : Seq(Byte)])
    BY <1>1 DEF Init
  <2>6. reader \in Readers
    BY <1>1 DEF Init
  <2>7. QED
    BY <2>1, <2>2, <2>3, <2>4, <2>5, <2>6 DEF TypeOK
<1>2. ASSUME Init
      PROVE  BufferBound
  <2>1. Len(<< >>) = 0
    OBVIOUS
  <2>2. QED
    BY <1>2, <2>1, ByteFacts DEF Init, BufferBound
<1>3. QED
  BY <1>1, <1>2 DEF IInv

\* A frame_arq_t from frame_arq_create, and every step, satisfy the invariant.
THEOREM Invariance == Spec => []IInv
<1>1. Init => IInv
  BY InitInv
<1>2. IInv /\ [Next]_vars => IInv'
  <2> SUFFICES ASSUME TypeOK, BufferBound, [Next]_vars
               PROVE  TypeOK' /\ BufferBound'
    BY DEF IInv
  <2>1. TypeOK'
    BY TypeStep
  <2>2. ASSUME Assemble
        PROVE  BufferBound'
    BY <2>2, AssembleBound
  <2>3. ASSUME ~Assemble
        PROVE  BufferBound'
    <3>1. UNCHANGED read_buffer \/ read_buffer' = << >>
      BY <2>3 DEF Next, Receiver, Put, Timeout, GetAck, GetNack, Control, LogText,
         GetOverflow, RejectLength, GetCrcError, GetControl, GetData, GetDuplicate, Discard,
         Fault, vars
    <3>2. QED
      BY <3>1, BoundKept
  <2>4. QED
    BY <2>1, <2>2, <2>3
<1>3. QED
  BY <1>1, <1>2, PTL DEF Spec

\* Type correctness of the reader, the sender and the line.
THEOREM TypeCorrectness == Spec => []TypeOK
<1>1. IInv => TypeOK
  BY DEF IInv
<1>2. QED
  BY <1>1, Invariance, PTL

\* frame_arq_get never writes past the end of read_buffer, whatever bytes the
\* line shows and however the calls of it cut them up.
THEOREM BufferSafety == Spec => []BufferBound
<1>1. IInv => BufferBound
  BY DEF IInv
<1>2. QED
  BY <1>1, Invariance, PTL


-----------------------------------------------------------------------------
(***************************************************************************)
(* What is on the line.                                                    *)
(*                                                                         *)
(* Each unit has a tag: the frame it is of (or the byte of text), its       *)
(* place in that frame, and how many messages had been put.  What the line  *)
(* made up, or damaged, comes first: a fault concerns the next byte.        *)
(***************************************************************************)

\* k is the number of messages put, f the frame, o the place in it.
Tag == [kind : {"data", "control", "text"}, k : Nat, f : Seq(Unit), o : Nat]

\* The frame of message k of s; q are the sequence numbers.
DataFrame(s, q, k) == Bytes(s[k].cmd, FA_TYPE_DATA, q[k], s[k].payload)
ControlFrame(f) ==
    \E type \in {FA_TYPE_ACK, FA_TYPE_NACK}, seq \in SeqNo : f = Bytes(0, type, seq, << >>)
TextByte(f) == \E v \in Byte : v < FA_CTRL_MARKER /\ f = <<Plain(v)>>

\* A tag that is true; g messages of s have been delivered, so no copy of an
\* earlier one is left.
Genuine(t, s, q, g) ==
    /\ t \in Tag
    /\ t.o \in 1 .. Len(t.f)
    /\ g <= t.k /\ t.k <= Len(s)
    /\ t.kind = "data" => t.k >= 1 /\ t.f = DataFrame(s, q, t.k)
    /\ t.kind = "control" => ControlFrame(t.f)
    /\ t.kind = "text" => TextByte(t.f)

\* Frames follow each other whole.
Follows(t, u) ==
    IF t.o < Len(t.f) THEN u = [t EXCEPT !.o = t.o + 1] ELSE u.o = 1

\* l is what is left of x bytes made up and of whole frames after them.
OnLine(l, s, q, g, T, x) ==
    /\ T \in Seq(Tag) /\ Len(T) = Len(l) /\ x \in 0 .. Len(l)
    /\ \A i \in 1 .. x : l[i].crc = << >>
    /\ \A i \in x + 1 .. Len(l) : Genuine(T[i], s, q, g) /\ l[i] = T[i].f[T[i].o]
    /\ \A i \in x + 1 .. Len(l) - 1 : Follows(T[i], T[i + 1])
    /\ \A i, j \in x + 1 .. Len(l) : i <= j => T[i].k <= T[j].k
    /\ x < Len(l) => T[Len(l)].o = Len(T[Len(l)].f)

\* What the reader takes for a CRC is that of the frame whose marker it has.
HeldOf(w, t, s, q, g) ==
    /\ Genuine(t, s, q, g) /\ t.kind # "text"
    /\ Len(t.f) >= HeaderLength /\ w[HeaderLength] = t.f[HeaderLength]
    /\ t.kind = "data" => w[1].val = t.f[1].val
Held(w, s, q, g, T, x) ==
    Len(w) >= HeaderLength /\ w[HeaderLength].crc # << >> =>
        \E t \in Tag :
            /\ HeldOf(w, t, s, q, g)
            /\ \A i \in x + 1 .. Len(T) : t.k <= T[i].k

\* The reader has another marker than that of the frame t which is being read.
\* Either all of it was made up since t began, but for the length byte of t; or
\* the o - 1 bytes of t so far were lost or damaged, or are in the place of the
\* fields after the marker. n bytes are held, x are to come that the line made up,
\* and u faults there were.
Cost(n, o, x, u) ==
    \/ n <= Marks /\ u >= x + n - (IF o = HeaderLength THEN 1 ELSE 0)
    \/ u >= o - 1 - (IF n > Marks THEN n - Marks ELSE 0)
Behind(w, T, x, u) ==
    /\ x <= u /\ u < Marks
    /\ w # << >> => w[1].val >= FA_CTRL_MARKER
    /\ (/\ x < Len(T) /\ T[x + 1].kind = "data" /\ T[x + 1].o <= HeaderLength
        /\ w # << >> /\ w[1].val # T[x + 1].f[1].val)
       => Cost(Len(w), T[x + 1].o, x, u)

\* Without a fault the reader has the frame that is being read, so far.
Prefix(w, f, n) == w \in Seq(Unit) /\ Len(w) = n /\ \A i \in 1 .. n : w[i] = f[i]
InStep(w, T) == IF T = << >> THEN w = << >> ELSE Prefix(w, T[1].f, T[1].o - 1)

-----------------------------------------------------------------------------
\* The units of a frame: m marks it, b is its seq/type byte, p the payload.
Shaped(f, m, b, p) ==
    /\ f \in Seq(Unit) /\ Len(f) = HeaderLength + Len(p)
    /\ \A i \in 1 .. Marks : f[i] = Plain(m)
    /\ f[Marks + 1] = Plain(b)
    /\ f[Marks + 2] = Plain(Len(p))
    /\ f[HeaderLength] = [val |-> CrcByte, crc |-> <<b, Len(p)>> \o Values(p)]
    /\ \A i \in 1 .. Len(p) : f[HeaderLength + i] = p[i]

\* The elements of a concatenation.
Joined(a, b) ==
    /\ Len(a) \in Nat /\ Len(b) \in Nat /\ Len(a \o b) = Len(a) + Len(b)
    /\ \A i \in 1 .. Len(a) : (a \o b)[i] = a[i]
    /\ \A i \in 1 .. Len(b) : (a \o b)[Len(a) + i] = b[i]

\* They are the elements of the one, and then those of the other.
LEMMA JoinedFacts ==
    ASSUME NEW S, NEW a \in Seq(S), NEW b \in Seq(S)
    PROVE  Joined(a, b) /\ a \o b \in Seq(S)
BY DEF Joined

\* What frame_arq_put and fa_write_control write, unit by unit.
LEMMA FrameUnits ==
    ASSUME NEW cmd \in Nat, FA_CTRL_MARKER + cmd \in Byte,
           NEW type \in {FA_TYPE_DATA, FA_TYPE_ACK, FA_TYPE_NACK},
           NEW seq \in SeqNo,
           NEW payload \in Seq(Unit), Len(payload) <= PayloadMax
    PROVE  Shaped(Bytes(cmd, type, seq, payload), FA_CTRL_MARKER + cmd,
                  type * SeqMod + seq, payload)
<1> DEFINE b == type * SeqMod + seq
           crc == [val |-> CrcByte, crc |-> <<b, Len(payload)>> \o Values(payload)]
           marks == [i \in 1 .. Marks |-> Plain(FA_CTRL_MARKER + cmd)]
           header == << Plain(b), Plain(Len(payload)), crc >>
           rest == payload
<1>1. Bytes(cmd, type, seq, payload) \in Seq(Unit)
  BY BytesType
<1>2. Bytes(cmd, type, seq, payload) = (marks \o header) \o rest
  BY DEF Bytes
<1>3. /\ marks \in Seq({Plain(FA_CTRL_MARKER + cmd)}) /\ Len(marks) = Marks
      /\ \A i \in 1 .. Marks : marks[i] = Plain(FA_CTRL_MARKER + cmd)
  BY ByteFacts
<1>4. /\ header \in Seq({Plain(b), Plain(Len(payload)), crc}) /\ Len(header) = 3
      /\ header[1] = Plain(b) /\ header[2] = Plain(Len(payload)) /\ header[3] = crc
  OBVIOUS
<1>5. /\ rest \in Seq(Unit) /\ Len(rest) = Len(payload)
      /\ Len(payload) \in Nat /\ \A i \in 1 .. Len(payload) : rest[i] = payload[i]
  OBVIOUS
<1> DEFINE S == {Plain(FA_CTRL_MARKER + cmd), Plain(b), Plain(Len(payload)), crc} \cup Unit
<1>6. marks \in Seq(S) /\ header \in Seq(S) /\ rest \in Seq(S)
  BY <1>3, <1>4, <1>5
<1> HIDE DEF marks, header, rest, S, crc, b
<1> DEFINE h == marks \o header
<1>7. /\ h \in Seq(S) /\ Len(h) = Marks + 3
      /\ \A i \in 1 .. Marks : h[i] = marks[i]
      /\ \A i \in 1 .. 3 : h[Marks + i] = header[i]
  <2>1. Marks \in Nat
    BY ByteFacts
  <2>2. /\ h \in Seq(S) /\ Len(h) = Len(marks) + Len(header)
        /\ \A i \in 1 .. Len(marks) : h[i] = marks[i]
        /\ \A i \in 1 .. Len(header) : h[Len(marks) + i] = header[i]
    <3>1. marks \in Seq(S) /\ header \in Seq(S)
      BY <1>6
    <3>2. Joined(marks, header) /\ marks \o header \in Seq(S)
      BY <3>1, JoinedFacts
    <3>3. QED
      BY <3>2 DEF Joined
  <2>3. QED
    BY <1>3, <1>4, <2>1, <2>2
<1> HIDE DEF h
<1>8. /\ Len(h \o rest) = Marks + 3 + Len(payload)
      /\ \A i \in 1 .. Marks + 3 : (h \o rest)[i] = h[i]
      /\ \A i \in 1 .. Len(payload) : (h \o rest)[Marks + 3 + i] = rest[i]
  <2>1. /\ Len(h \o rest) = Len(h) + Len(rest)
        /\ \A i \in 1 .. Len(h) : (h \o rest)[i] = h[i]
        /\ \A i \in 1 .. Len(rest) : (h \o rest)[Len(h) + i] = rest[i]
    <3>1. h \in Seq(S) /\ rest \in Seq(S)
      BY <1>6, <1>7
    <3>2. Joined(h, rest)
      BY <3>1, JoinedFacts
    <3>3. QED
      BY <3>2 DEF Joined
  <2>2. QED
    BY <1>5, <1>7, <2>1
<1>9. /\ (h \o rest)[Marks + 1] = header[1] /\ (h \o rest)[Marks + 2] = header[2]
      /\ (h \o rest)[Marks + 3] = header[3]
      /\ \A i \in 1 .. Marks : (h \o rest)[i] = marks[i]
  <2>1. Marks \in Nat /\ 1 \in 1 .. 3 /\ 2 \in 1 .. 3 /\ 3 \in 1 .. 3
    BY ByteFacts
  <2>2. h[Marks + 1] = header[1] /\ h[Marks + 2] = header[2] /\ h[Marks + 3] = header[3]
    BY <1>7, <2>1
  <2>3. QED
    BY <1>7, <1>8, <2>1, <2>2, SMTT(30)
<1>10. Bytes(cmd, type, seq, payload) = h \o rest
  BY <1>2 DEF h
<1>11. QED
  BY <1>1, <1>3, <1>4, <1>5, <1>8, <1>9, <1>10, ByteFacts DEF Shaped, crc, b

\* The seq/type byte has both of its fields.
LEMMA SeqByteFacts ==
    ASSUME NEW type \in {FA_TYPE_DATA, FA_TYPE_ACK, FA_TYPE_NACK}, NEW seq \in SeqNo
    PROVE  /\ (type * SeqMod + seq) \div SeqMod = type
           /\ (type * SeqMod + seq) % SeqMod = seq
<1>1. SeqMod \in Nat /\ SeqMod >= 2 /\ seq \in 0 .. SeqMod - 1
  BY SizeAssumption DEF SeqNo
<1>2. CASE type = 0
  <2>1. type * SeqMod + seq = seq
    BY <1>1, <1>2
  <2>2. seq \div SeqMod = 0 /\ seq % SeqMod = seq
    BY <1>1
  <2>3. QED
    BY <1>2, <2>1, <2>2
<1>3. CASE type = 1
  <2>1. (1 * SeqMod + seq) \div SeqMod = 1 /\ (1 * SeqMod + seq) % SeqMod = seq
    BY <1>1
  <2>2. QED
    BY <1>3, <2>1
<1>4. CASE type = 2
  <2>1. (2 * SeqMod + seq) \div SeqMod = 2 /\ (2 * SeqMod + seq) % SeqMod = seq
    BY <1>1
  <2>2. QED
    BY <1>4, <2>1
<1>5. QED
  BY <1>2, <1>3, <1>4 DEF FA_TYPE_DATA, FA_TYPE_ACK, FA_TYPE_NACK

\* A frame that is put is marked by its command, and a control frame by command 0.
LEMMA DataUnits ==
    ASSUME NEW s \in Seq(Message), NEW q \in Seq(SeqNo), Len(q) = Len(s), NEW k \in 1 .. Len(s)
    PROVE  /\ s[k].cmd \in Nat /\ s[k].cmd >= 1 /\ FA_CTRL_MARKER + s[k].cmd \in Byte
           /\ s[k].payload \in Seq(Unit) /\ Len(s[k].payload) <= PayloadMax /\ q[k] \in SeqNo
           /\ Shaped(DataFrame(s, q, k), FA_CTRL_MARKER + s[k].cmd, q[k], s[k].payload)
<1>1. s[k] \in Message /\ q[k] \in SeqNo
  OBVIOUS
<1>2. /\ s[k].cmd \in Nat /\ FA_CTRL_MARKER + s[k].cmd \in Byte
      /\ s[k].payload \in Seq(Unit) /\ Len(s[k].payload) <= PayloadMax
  BY <1>1, MessageFacts
<1>3. s[k].cmd >= 1
  BY <1>1, MessageAssumption
<1>4. 0 * SeqMod + q[k] = q[k]
  BY <1>1, SizeAssumption DEF SeqNo
<1>5. Shaped(DataFrame(s, q, k), FA_CTRL_MARKER + s[k].cmd, 0 * SeqMod + q[k], s[k].payload)
  BY <1>1, <1>2, FrameUnits DEF DataFrame, FA_TYPE_DATA
<1>6. QED
  BY <1>1, <1>2, <1>3, <1>4, <1>5

\* The units of a control frame.
LEMMA ControlUnits ==
    ASSUME NEW f, ControlFrame(f)
    PROVE  \E type \in {FA_TYPE_ACK, FA_TYPE_NACK}, seq \in SeqNo :
              Shaped(f, FA_CTRL_MARKER, type * SeqMod + seq, << >>)
<1>1. PICK type \in {FA_TYPE_ACK, FA_TYPE_NACK}, seq \in SeqNo : f = Bytes(0, type, seq, << >>)
  BY DEF ControlFrame
<1>2. /\ << >> \in Seq(Unit) /\ Len(<< >>) <= PayloadMax /\ FA_CTRL_MARKER + 0 \in Byte
      /\ FA_CTRL_MARKER + 0 = FA_CTRL_MARKER
  BY ByteFacts DEF Byte
<1>3. Shaped(Bytes(0, type, seq, << >>), FA_CTRL_MARKER + 0, type * SeqMod + seq, << >>)
  BY <1>2, FrameUnits
<1>4. QED
  BY <1>1, <1>2, <1>3

\* The shapes of a genuine frame, and where its CRC is.
Whole(t, s, q) ==
    /\ t.kind = "data" =>
        /\ t.k \in 1 .. Len(s)
        /\ Shaped(t.f, FA_CTRL_MARKER + s[t.k].cmd, q[t.k], s[t.k].payload)
    /\ t.kind = "control" =>
        \E type \in {FA_TYPE_ACK, FA_TYPE_NACK}, seq \in SeqNo :
            Shaped(t.f, FA_CTRL_MARKER, type * SeqMod + seq, << >>)
    /\ t.kind = "text" => TextByte(t.f)

\* A true tag is of a whole frame.
LEMMA GenuineWhole ==
    ASSUME NEW s \in Seq(Message), NEW q \in Seq(SeqNo), Len(q) = Len(s), NEW g \in Nat,
           NEW t, Genuine(t, s, q, g)
    PROVE  Whole(t, s, q)
<1>1. t.k \in Nat /\ t.k <= Len(s)
  BY DEF Genuine, Tag
<1>2. t.kind = "data" => /\ t.k \in 1 .. Len(s)
                         /\ t.f = DataFrame(s, q, t.k)
  BY <1>1 DEF Genuine
<1>3. t.kind = "data" =>
        Shaped(t.f, FA_CTRL_MARKER + s[t.k].cmd, q[t.k], s[t.k].payload)
  BY <1>2, DataUnits
<1>4. t.kind = "control" => ControlFrame(t.f)
  BY DEF Genuine
<1>5. t.kind = "text" => TextByte(t.f)
  BY DEF Genuine
<1>6. QED
  BY <1>2, <1>3, <1>4, <1>5, ControlUnits DEF Whole

\* A frame with no CRC in its payload has one in one place, the end of the header.
LEMMA ShapedCrc ==
    ASSUME NEW f, NEW m, NEW b, NEW p \in Seq(Unit), Shaped(f, m, b, p),
           \A i \in 1 .. Len(p) : p[i].crc = << >>,
           NEW o \in 1 .. Len(f), f[o].crc # << >>
    PROVE  o = HeaderLength
<1>1. /\ HeaderLength = Marks + 3 /\ Marks \in Nat /\ Len(p) \in Nat
      /\ Len(f) = HeaderLength + Len(p)
  BY ByteFacts DEF Shaped
<1>2. \A v : Plain(v).crc = << >>
  BY DEF Plain
<1>3. o \notin 1 .. Marks /\ o # Marks + 1 /\ o # Marks + 2
  BY <1>2 DEF Shaped
<1>4. ASSUME o > HeaderLength
      PROVE  FALSE
  <2>1. o - HeaderLength \in 1 .. Len(p)
    BY <1>1, <1>4
  <2>2. f[HeaderLength + (o - HeaderLength)] = p[o - HeaderLength]
    BY <2>1 DEF Shaped
  <2>3. HeaderLength + (o - HeaderLength) = o
    BY <1>1
  <2>4. QED
    BY <2>1, <2>2, <2>3
<1>5. QED
  BY <1>1, <1>3, <1>4

\* A unit with a CRC is the last of the header of a frame.
LEMMA CrcPlace ==
    ASSUME NoFrameInside, NEW s \in Seq(Message), NEW q \in Seq(SeqNo), Len(q) = Len(s), NEW g \in Nat,
           NEW t, Genuine(t, s, q, g), t.f[t.o].crc # << >>
    PROVE  t.kind # "text" /\ t.o = HeaderLength
<1>1. Whole(t, s, q) /\ t.o \in 1 .. Len(t.f) /\ t.kind \in {"data", "control", "text"}
  BY GenuineWhole DEF Genuine, Tag
<1>2. CASE t.kind = "text"
  <2>1. PICK v \in Byte : t.f = <<Plain(v)>>
    BY <1>1, <1>2 DEF Whole, TextByte
  <2>2. t.o = 1 /\ t.f[1] = Plain(v)
    BY <1>1, <2>1
  <2>3. QED
    BY <2>2 DEF Plain
<1>3. CASE t.kind = "data"
  <2>1. s[t.k].payload \in Seq(Unit) /\ s[t.k] \in Message
    BY <1>1, <1>3, DataUnits DEF Whole
  <2>2. \A i \in 1 .. Len(s[t.k].payload) : s[t.k].payload[i].crc = << >>
    BY <2>1 DEF NoFrameInside
  <2>3. QED
    BY <1>1, <1>3, <2>1, <2>2, ShapedCrc DEF Whole
<1>4. CASE t.kind = "control"
  <2>1. PICK type \in {FA_TYPE_ACK, FA_TYPE_NACK}, seq \in SeqNo :
            Shaped(t.f, FA_CTRL_MARKER, type * SeqMod + seq, << >>)
    BY <1>1, <1>4 DEF Whole
  <2> DEFINE z == << >>
  <2>2. z \in Seq(Unit) /\ \A i \in 1 .. Len(z) : z[i].crc = << >>
    OBVIOUS
  <2>3. Shaped(t.f, FA_CTRL_MARKER, type * SeqMod + seq, z)
    BY <2>1
  <2> HIDE DEF z
  <2>4. t.o = HeaderLength
    BY <1>1, <2>2, <2>3, ShapedCrc
  <2>5. QED
    BY <1>4, <2>4
<1>5. QED
  BY <1>1, <1>2, <1>3, <1>4

-----------------------------------------------------------------------------
(***************************************************************************)
(* One byte read, by either reader.                                        *)
(***************************************************************************)

\* What the searches for a marker do with a byte: w was held, w2 is.
Pumps(w, b, w2) ==
    \/ /\ Len(w) >= Marks \/ (w # << >> /\ b.val = w[1].val)
       /\ w2 = Append(w, b)
    \/ /\ Len(w) < Marks
       /\ w2 = << >>
    \/ /\ Len(w) < Marks
       /\ w = << >> \/ b.val # w[1].val
       /\ b.val >= FA_CTRL_MARKER /\ w2 = <<b>>

\* Reading a byte does one of these.
LEMMA PumpShape ==
    ASSUME read_buffer \in Seq(Unit), NEW b \in Unit
    PROVE  Pumps(read_buffer, b, Pump(b))
<1>1. Len(read_buffer) \in Nat /\ Marks \in Nat /\ FA_CTRL_MARKER \in Nat /\ b.val \in Nat
  BY ByteFacts
<1>2. QED
  BY <1>1 DEF Pumps, Pump, LibraryMark, SessionMark

Less(x) == IF x = 0 THEN 0 ELSE x - 1

\* What the line is when its next byte is gone.
LEMMA OnLineTail ==
    ASSUME NEW l \in Seq(Unit), l # << >>, NEW s, NEW q, NEW g, NEW T, NEW x,
           OnLine(l, s, q, g, T, x)
    PROVE  OnLine(Tail(l), s, q, g, Tail(T), Less(x))
<1> DEFINE m == Tail(l)  U == Tail(T)  y == Less(x)
<1>1. /\ Len(l) \in Nat /\ Len(l) >= 1 /\ T \in Seq(Tag) /\ Len(T) = Len(l)
      /\ x \in 0 .. Len(l)
  BY DEF OnLine
<1>2. /\ U \in Seq(Tag) /\ Len(m) = Len(l) - 1 /\ Len(U) = Len(l) - 1
      /\ \A i \in 1 .. Len(m) : m[i] = l[i + 1] /\ U[i] = T[i + 1]
  BY <1>1
<1>3. y \in 0 .. Len(m) /\ x <= y + 1 /\ (y > 0 => x = y + 1)
  BY <1>1, <1>2 DEF Less
<1> HIDE DEF m, U, y
<1>4. \A i \in 1 .. y : m[i].crc = << >>
  BY <1>1, <1>2, <1>3 DEF OnLine
<1>5. ASSUME NEW i \in y + 1 .. Len(m)
      PROVE  /\ i \in 1 .. Len(m) /\ i + 1 \in x + 1 .. Len(l) /\ m[i] = l[i + 1]
             /\ U[i] = T[i + 1]
  BY <1>1, <1>2, <1>3
<1>6. \A i \in y + 1 .. Len(m) : Genuine(U[i], s, q, g) /\ m[i] = U[i].f[U[i].o]
  BY <1>5 DEF OnLine
<1>7. ASSUME NEW i \in y + 1 .. Len(m) - 1
      PROVE  Follows(U[i], U[i + 1])
  <2>1. /\ i \in y + 1 .. Len(m) /\ i + 1 \in y + 1 .. Len(m)
        /\ i + 1 \in x + 1 .. Len(l) - 1
    BY <1>1, <1>2, <1>3
  <2>2. Follows(T[i + 1], T[(i + 1) + 1])
    BY <2>1 DEF OnLine
  <2>3. QED
    BY <1>5, <2>1, <2>2
<1>8. ASSUME NEW i \in y + 1 .. Len(m), NEW j \in y + 1 .. Len(m), i <= j
      PROVE  U[i].k <= U[j].k
  <2>1. T[i + 1].k <= T[j + 1].k
    <3>1. i + 1 \in x + 1 .. Len(l) /\ j + 1 \in x + 1 .. Len(l) /\ i + 1 <= j + 1
      BY <1>1, <1>2, <1>3, <1>8
    <3>2. QED
      BY <3>1 DEF OnLine
  <2>2. QED
    BY <1>5, <2>1
<1>9. ASSUME y < Len(m)
      PROVE  U[Len(m)].o = Len(U[Len(m)].f)
  <2>1. Len(m) \in y + 1 .. Len(m) /\ Len(m) + 1 = Len(l) /\ x < Len(l)
    BY <1>1, <1>2, <1>3, <1>9
  <2>2. U[Len(m)] = T[Len(l)]
    BY <1>5, <2>1
  <2>3. QED
    BY <2>1, <2>2 DEF OnLine
<1>10. QED
  BY <1>2, <1>3, <1>4, <1>6, <1>7, <1>8, <1>9 DEF OnLine, m, U, y

\* The next byte is made up, or a unit of a genuine frame.
LEMMA NextUnit ==
    ASSUME NEW l \in Seq(Unit), l # << >>, NEW s, NEW q, NEW g, NEW T, NEW x,
           OnLine(l, s, q, g, T, x)
    PROVE  /\ Head(l) = l[1] /\ Head(l) \in Unit
           /\ T \in Seq(Tag) /\ Len(T) = Len(l) /\ Len(l) \in Nat /\ Len(l) >= 1
           /\ x \in 0 .. Len(l) /\ Less(x) \in 0 .. Len(l) - 1
           /\ Tail(T) \in Seq(Tag) /\ Len(Tail(T)) = Len(l) - 1
           /\ \A i \in Less(x) + 1 .. Len(l) - 1 : Tail(T)[i] = T[i + 1] /\ i + 1 \in x + 1 .. Len(l)
           /\ x > 0 => Head(l).crc = << >>
           /\ x = 0 => /\ Genuine(T[1], s, q, g) /\ Head(l) = T[1].f[T[1].o]
                       /\ Len(l) > 1 => Follows(T[1], T[2]) /\ Tail(T)[1] = T[2]
                       /\ Len(l) = 1 => T[1].o = Len(T[1].f)
<1>1. /\ Len(l) \in Nat /\ Len(l) >= 1 /\ T \in Seq(Tag) /\ Len(T) = Len(l)
      /\ x \in 0 .. Len(l) /\ Head(l) = l[1] /\ l[1] \in Unit
  BY DEF OnLine
<1>2. /\ Tail(T) \in Seq(Tag) /\ Len(Tail(T)) = Len(l) - 1
      /\ \A i \in 1 .. Len(l) - 1 : Tail(T)[i] = T[i + 1]
  BY <1>1
<1>3. Less(x) \in 0 .. Len(l) - 1 /\ x <= Less(x) + 1
  BY <1>1 DEF Less
<1>4. x > 0 => l[1].crc = << >>
  BY <1>1 DEF OnLine
<1>5. ASSUME x = 0
      PROVE  Genuine(T[1], s, q, g) /\ l[1] = T[1].f[T[1].o]
  <2>1. 1 \in x + 1 .. Len(l)
    BY <1>1, <1>5
  <2>2. QED
    BY <2>1 DEF OnLine
<1>6. ASSUME x = 0, Len(l) > 1
      PROVE  Follows(T[1], T[2])
  <2>1. 1 \in x + 1 .. Len(l) - 1
    BY <1>1, <1>6
  <2>2. Follows(T[1], T[1 + 1])
    BY <2>1 DEF OnLine
  <2>3. QED
    BY <2>2
<1>7. x = 0 /\ Len(l) = 1 => T[1].o = Len(T[1].f)
  BY DEF OnLine
<1>8. QED
  BY <1>1, <1>2, <1>3, <1>4, <1>5, <1>6, <1>7

\* With fewer faults than a marker has bytes, a CRC is taken for one only after
\* the marker of its own frame.
LEMMA HeldPumped ==
    ASSUME NoFrameInside, NEW s \in Seq(Message), NEW q \in Seq(SeqNo), Len(q) = Len(s), NEW g \in Nat,
           NEW l \in Seq(Unit), l # << >>, NEW T, NEW x, OnLine(l, s, q, g, T, x),
           NEW w \in Seq(Unit), Held(w, s, q, g, T, x), NEW u \in Int, Behind(w, T, x, u),
           NEW w2, Pumps(w, Head(l), w2)
    PROVE  Held(w2, s, q, g, Tail(T), Less(x))
<1> DEFINE b == Head(l)
<1>1. /\ Marks \in Nat /\ Marks >= 1 /\ HeaderLength = Marks + 3 /\ Len(w) \in Nat /\ b \in Unit
      /\ Len(l) \in Nat
  BY ByteFacts, NextUnit
<1>2. CASE w2 = << >> \/ w2 = <<b>>
  <2>1. Len(<< >>) = 0 /\ Len(<<b>>) = 1
    OBVIOUS
  <2>2. QED
    BY <1>1, <1>2, <2>1 DEF Held
<1>3. CASE w2 = Append(w, b)
  <2>1. /\ Len(w2) = Len(w) + 1 /\ w2[Len(w) + 1] = b
        /\ \A i \in 1 .. Len(w) : w2[i] = w[i]
    BY <1>1, <1>3
  <2>2. \A i \in Less(x) + 1 .. Len(Tail(T)) : Tail(T)[i] = T[i + 1] /\ i + 1 \in x + 1 .. Len(T)
    BY NextUnit
  <2>3. CASE Len(w) >= HeaderLength
    <3>1. w2[HeaderLength] = w[HeaderLength] /\ w2[1] = w[1]
      BY <1>1, <2>1, <2>3
    <3>2. ASSUME w2[HeaderLength].crc # << >>
          PROVE  \E t \in Tag : /\ HeldOf(w2, t, s, q, g)
                                /\ \A i \in Less(x) + 1 .. Len(Tail(T)) : t.k <= Tail(T)[i].k
      <4>1. PICK t \in Tag : /\ HeldOf(w, t, s, q, g)
                             /\ \A i \in x + 1 .. Len(T) : t.k <= T[i].k
        BY <2>3, <3>1, <3>2 DEF Held
      <4>2. HeldOf(w2, t, s, q, g)
        BY <3>1, <4>1 DEF HeldOf
      <4>3. \A i \in Less(x) + 1 .. Len(Tail(T)) : t.k <= Tail(T)[i].k
        BY <2>2, <4>1
      <4>4. QED
        BY <4>2, <4>3
    <3>3. QED
      BY <3>2 DEF Held
  <2>4. CASE Len(w) = HeaderLength - 1
    <3>1. w2[HeaderLength] = b /\ w2[1] = w[1] /\ Len(w2) = HeaderLength
      BY <1>1, <2>1, <2>4
    <3>2. ASSUME b.crc # << >>
          PROVE  \E t \in Tag : /\ HeldOf(w2, t, s, q, g)
                                /\ \A i \in Less(x) + 1 .. Len(Tail(T)) : t.k <= Tail(T)[i].k
      <4>1. x = 0 /\ Genuine(T[1], s, q, g) /\ b = T[1].f[T[1].o] /\ Len(T) = Len(l) /\ Len(l) >= 1
        BY <3>2, NextUnit
      <4>2. T[1].kind # "text" /\ T[1].o = HeaderLength
        BY <3>2, <4>1, CrcPlace
      <4>3. HeaderLength <= Len(T[1].f) /\ T[1] \in Tag
        BY <4>1, <4>2 DEF Genuine
      <4>4. ASSUME T[1].kind = "data"
            PROVE  w[1].val = T[1].f[1].val
        <5>1. w # << >> /\ ~(Len(w) <= Marks) /\ Len(w) - Marks = 2
          BY <1>1, <2>4
        <5>2. ~Cost(Len(w), T[1].o, x, u)
          BY <1>1, <4>2, <5>1 DEF Cost, Behind
        <5>3. x < Len(T) /\ x + 1 = 1
          BY <1>1, <4>1
        <5>4. QED
          BY <1>1, <4>2, <4>4, <5>1, <5>2, <5>3 DEF Behind
      <4>5. HeldOf(w2, T[1], s, q, g)
        BY <3>1, <4>1, <4>2, <4>3, <4>4 DEF HeldOf
      <4>6. \A i \in Less(x) + 1 .. Len(Tail(T)) : T[1].k <= Tail(T)[i].k
        <5>1. 1 \in x + 1 .. Len(l)
          BY <1>1, <4>1
        <5>2. \A j \in x + 1 .. Len(l) : 1 <= j => T[1].k <= T[j].k
          BY <5>1 DEF OnLine
        <5>3. ASSUME NEW i \in Less(x) + 1 .. Len(Tail(T))
              PROVE  T[1].k <= Tail(T)[i].k
          <6>1. Tail(T)[i] = T[i + 1] /\ i + 1 \in x + 1 .. Len(l)
            BY <2>2, <4>1
          <6>2. 1 <= i + 1
            BY <1>1, <4>1, <6>1
          <6>3. QED
            BY <5>2, <6>1, <6>2
        <5>4. QED
          BY <5>3
      <4>7. QED
        BY <4>3, <4>5, <4>6
    <3>3. QED
      BY <3>1, <3>2 DEF Held
  <2>5. CASE Len(w) < HeaderLength - 1
    BY <1>1, <2>1, <2>5 DEF Held
  <2>6. QED
    BY <1>1, <2>3, <2>4, <2>5
<1>4. QED
  BY <1>2, <1>3 DEF Pumps

\* The units of a DATA frame up to its CRC, as a search for a marker sees them.
LEMMA DataHead ==
    ASSUME NEW s \in Seq(Message), NEW q \in Seq(SeqNo), Len(q) = Len(s), NEW g \in Nat,
           NEW t, Genuine(t, s, q, g), t.kind = "data"
    PROVE  /\ t.o \in Nat /\ t.o >= 1 /\ Len(t.f) \in Nat /\ Len(t.f) >= HeaderLength
           /\ \A i \in 1 .. Marks : t.f[i] = t.f[1]
           /\ t.f[Marks + 1].val < FA_CTRL_MARKER
           /\ t.f[1].val > FA_CTRL_MARKER
<1>1. Shaped(t.f, FA_CTRL_MARKER + s[t.k].cmd, q[t.k], s[t.k].payload) /\ t.k \in 1 .. Len(s)
  BY GenuineWhole DEF Whole
<1>2. s[t.k].cmd \in Nat /\ s[t.k].cmd >= 1 /\ s[t.k].payload \in Seq(Unit) /\ q[t.k] \in SeqNo
  BY <1>1, DataUnits
<1>3. Marks \in Nat /\ 1 \in 1 .. Marks /\ FA_CTRL_MARKER \in Nat
  BY ByteFacts
<1>4. q[t.k] < FA_CTRL_MARKER
  BY <1>2, SizeAssumption DEF SeqNo, FA_CTRL_MARKER, FA_TYPE_NACK
<1>5. \A i \in 1 .. Marks : t.f[i] = Plain(FA_CTRL_MARKER + s[t.k].cmd)
  BY <1>1 DEF Shaped
<1>6. t.f[Marks + 1] = Plain(q[t.k])
  BY <1>1 DEF Shaped
<1>7. t.f[1].val = FA_CTRL_MARKER + s[t.k].cmd /\ t.f[Marks + 1].val = q[t.k]
  BY <1>3, <1>5, <1>6 DEF Plain
<1>8. Len(t.f) \in Nat /\ Len(t.f) >= HeaderLength
  <2>1. Len(s[t.k].payload) \in Nat /\ HeaderLength \in Nat
    BY <1>2, ByteFacts
  <2>2. Len(t.f) = HeaderLength + Len(s[t.k].payload)
    BY <1>1 DEF Shaped
  <2>3. QED
    BY <2>1, <2>2
<1>9. t.o \in Nat /\ t.o >= 1
  BY DEF Genuine, Tag
<1>10. QED
  BY <1>2, <1>3, <1>4, <1>5, <1>7, <1>8, <1>9, SMTT(30)

\* The cost of a wrong marker when a byte is read that the line made up,
LEMMA CostMadeUp ==
    ASSUME NEW n \in Nat, NEW o \in Nat, NEW x \in Nat, NEW u \in Int,
           o >= 1, o <= HeaderLength, x >= 1, x <= u, u < Marks
    PROVE  /\ Cost(n, o, x, u) => Cost(n + 1, o, x - 1, u)
           /\ Cost(1, o, x - 1, u)
BY ByteFacts DEF Cost

\* and when one of the frame is.
LEMMA CostOfFrame ==
    ASSUME NEW n \in Nat, NEW o \in Nat, NEW u \in Int, o >= 1, o <= Marks + 2, 0 <= u, u < Marks
    PROVE  /\ Cost(n, 1, 0, u)
           /\ n >= Marks /\ Cost(n, o, 0, u) => Cost(n + 1, o + 1, 0, u)
           /\ n < Marks /\ o = Marks + 2 /\ Cost(n, o, 0, u) => Cost(n + 1, o + 1, 0, u)
           /\ o = Marks + 2 => Cost(1, o + 1, 0, u)
BY ByteFacts DEF Cost

\* The unit before v, if v does not begin a frame.
LEMMA InFrame ==
    ASSUME NEW t \in Tag, NEW v, Follows(t, v), v.o # 1
    PROVE  v.kind = t.kind /\ v.f = t.f /\ v.k = t.k /\ v.o = t.o + 1 /\ v \in Tag
<1>1. v = [t EXCEPT !.o = t.o + 1]
  BY DEF Follows
<1>2. t.o \in Nat /\ t.o + 1 \in Nat
  BY DEF Tag
<1>3. QED
  BY <1>1, <1>2 DEF Tag

\* What every byte read adds to it.
LEMMA BehindPumped ==
    ASSUME NEW s \in Seq(Message), NEW q \in Seq(SeqNo), Len(q) = Len(s), NEW g \in Nat,
           NEW l \in Seq(Unit), l # << >>, NEW T, NEW x, OnLine(l, s, q, g, T, x),
           NEW w \in Seq(Unit), NEW u \in Int, Behind(w, T, x, u),
           NEW w2, Pumps(w, Head(l), w2)
    PROVE  Behind(w2, Tail(T), Less(x), u)
<1> DEFINE b == Head(l)  U == Tail(T)  y == Less(x)  v == U[y + 1]
<1>1. /\ Marks \in Nat /\ Marks >= 1 /\ HeaderLength = Marks + 3 /\ Len(w) \in Nat /\ b \in Unit
      /\ Len(l) \in Nat /\ FA_CTRL_MARKER \in Nat /\ b.val \in Nat
  BY ByteFacts, NextUnit
<1>2. /\ T \in Seq(Tag) /\ Len(T) = Len(l) /\ x \in Nat /\ y \in Nat /\ y <= x /\ Len(U) = Len(l) - 1
      /\ x = 0 => y = 0
      /\ x > 0 => x = y + 1
  BY <1>1, NextUnit DEF Less
<1>3. y <= u /\ u < Marks /\ x <= u
  BY <1>2 DEF Behind
<1>4. \/ /\ w # << >> /\ w2 = Append(w, b) /\ (Len(w) >= Marks \/ b.val = w[1].val)
         /\ w2 # << >> /\ w2[1] = w[1] /\ Len(w2) = Len(w) + 1
      \/ w2 = << >>
      \/ b.val >= FA_CTRL_MARKER /\ w2 = <<b>> /\ w2[1] = b /\ Len(w2) = 1 /\ w2 # << >>
  <2>1. w # << >> => /\ Append(w, b) # << >> /\ Append(w, b)[1] = w[1]
                     /\ Len(Append(w, b)) = Len(w) + 1
    BY <1>1
  <2>2. <<b>>[1] = b /\ Len(<<b>>) = 1 /\ <<b>> # << >>
    OBVIOUS
  <2>3. Len(w) >= Marks => w # << >>
    BY <1>1
  <2>4. QED
    BY <2>1, <2>2, <2>3 DEF Pumps
<1>5. w2 # << >> => w2[1].val >= FA_CTRL_MARKER
  BY <1>4 DEF Behind
<1>6. ASSUME y < Len(U), v.kind = "data", v.o <= HeaderLength, w2 # << >>, w2[1].val # v.f[1].val
      PROVE  Cost(Len(w2), v.o, y, u)
  <2>1. v = T[y + 2] /\ y + 2 \in x + 1 .. Len(l) /\ y + 1 \in 1 .. Len(U)
    <3>1. y + 1 \in Less(x) + 1 .. Len(l) - 1
      BY <1>1, <1>2, <1>6
    <3>2. v = T[(y + 1) + 1] /\ (y + 1) + 1 \in x + 1 .. Len(l)
      BY <3>1, NextUnit
    <3>3. QED
      BY <1>1, <1>2, <1>6, <3>2, SMTT(30)
  <2>2. Genuine(v, s, q, g)
    BY <2>1 DEF OnLine
  <2>3. /\ v.o \in Nat /\ v.o >= 1 /\ \A i \in 1 .. Marks : v.f[i] = v.f[1]
        /\ v.f[Marks + 1].val < FA_CTRL_MARKER /\ v.f[1].val > FA_CTRL_MARKER
        /\ Len(v.f) \in Nat /\ Len(v.f) >= HeaderLength
    <3>1. v.kind = "data"
      BY <1>6
    <3> HIDE DEF b, U, y, v
    <3>2. QED
      BY <2>2, <3>1, DataHead
  <2>4. CASE x > 0
    <3>1. v = T[x + 1] /\ x < Len(T) /\ y = x - 1
      BY <1>1, <1>2, <1>6, <2>1, <2>4, SMTT(30)
    <3>2. x >= 1 /\ x <= u /\ u < Marks /\ v.o >= 1 /\ v.o <= HeaderLength /\ v.o \in Nat
      BY <1>2, <1>3, <1>6, <2>3, <2>4, SMTT(30)
    <3>3. CASE w # << >> /\ w2[1] = w[1] /\ Len(w2) = Len(w) + 1
      <4>1. Cost(Len(w), v.o, x, u)
        BY <1>6, <3>1, <3>3 DEF Behind
      <4> HIDE DEF v, y
      <4>2. Cost(Len(w) + 1, v.o, x - 1, u)
        BY <1>1, <1>2, <3>2, <4>1, CostMadeUp
      <4>3. QED
        BY <3>1, <3>3, <4>2
    <3>4. CASE Len(w2) = 1
      <4> HIDE DEF v, y
      <4>1. Cost(1, v.o, x - 1, u)
        BY <1>1, <1>2, <3>2, CostMadeUp
      <4>2. QED
        BY <3>1, <3>4, <4>1
    <3>5. QED
      BY <1>4, <1>6, <3>3, <3>4
  <2>5. CASE x = 0 /\ v.o = 1
    <3>1. y = 0 /\ Len(w2) \in Nat /\ 1 <= Marks + 2
      BY <1>1, <1>2, <1>4, <1>6, <2>5
    <3>2. 0 <= u /\ u < Marks
      BY <1>3, <2>5
    <3>3. Cost(Len(w2), 1, 0, u)
      BY <3>1, <3>2, CostOfFrame
    <3> HIDE DEF v, y
    <3>4. QED
      BY <2>5, <3>1, <3>3
  <2>6. CASE x = 0 /\ v.o # 1
    <3> DEFINE t == T[1]
    <3>1. v = T[2] /\ Len(l) > 1 /\ x + 1 = 1 /\ x < Len(T)
      BY <1>1, <1>2, <1>6, <2>1, <2>6, SMTT(30)
    <3>2. y = 0 /\ 0 <= u /\ u < Marks
      BY <1>2, <1>3, <2>6
    <3>3. Genuine(t, s, q, g) /\ b = t.f[t.o] /\ Follows(t, v)
      <4>1. Genuine(T[1], s, q, g) /\ b = T[1].f[T[1].o] /\ Follows(T[1], T[2])
        BY <2>6, <3>1, NextUnit
      <4> HIDE DEF v, b
      <4>2. QED
        BY <3>1, <4>1
    <3> HIDE DEF v, t, b, y
    <3>4. t \in Tag /\ t.o \in Nat /\ t.o >= 1
      BY <3>3 DEF Genuine, Tag
    <3>5. t.kind = "data" /\ t.f = v.f /\ v.o = t.o + 1
      BY <1>6, <2>6, <3>3, <3>4, InFrame
    <3>6. t.o <= Marks + 2
      BY <1>1, <1>6, <3>4, <3>5
    <3>7. t.o <= Marks => b.val = t.f[1].val
      <4>1. t.o <= Marks => t.o \in 1 .. Marks
        BY <1>1, <3>4
      <4>2. QED
        BY <2>3, <3>3, <3>5, <4>1
    <3>8. t.o = Marks + 1 => b.val < FA_CTRL_MARKER
      BY <2>3, <3>3, <3>5
    <3>9. \/ Len(w2) = 1 /\ w2[1].val = b.val
          \/ Len(w2) = Len(w) + 1 /\ (Len(w) >= Marks \/ b.val = w2[1].val) /\ Cost(Len(w), t.o, 0, u)
      <4>1. CASE w # << >> /\ (Len(w) >= Marks \/ b.val = w[1].val) /\ w2[1] = w[1]
                 /\ Len(w2) = Len(w) + 1
        <5>1. w[1].val # t.f[1].val /\ t.o <= HeaderLength
          BY <1>1, <1>6, <3>4, <3>5, <3>6, <4>1
        <5>2. x < Len(T) /\ T[x + 1] = t
          BY <3>1 DEF t
        <5>3. Cost(Len(w), t.o, x, u)
          BY <3>5, <4>1, <5>1, <5>2 DEF Behind
        <5>4. QED
          BY <2>6, <4>1, <5>3
      <4>2. QED
        BY <1>4, <1>6, <4>1
    <3>10. /\ w2[1].val \in Nat /\ t.f[1].val \in Nat /\ Len(w2) \in Nat
           /\ w2[1].val # t.f[1].val /\ w2[1].val >= FA_CTRL_MARKER
      <4>1. w2 \in Seq(Unit) /\ w2[1] \in Unit
        <5>1. w2 \in Seq(Unit)
          <6>1. Append(w, b) \in Seq(Unit) /\ <<b>> \in Seq(Unit)
            BY <1>1
          <6>2. QED
            BY <1>4, <1>6, <6>1
        <5>2. Len(w2) \in Nat /\ Len(w2) >= 1
          BY <1>6, <5>1
        <5>3. QED
          BY <5>1, <5>2
      <4>2. t.f \in Seq(Unit) /\ 1 \in 1 .. Len(t.f)
        BY <1>1, <2>3, <3>4, <3>5 DEF Tag
      <4>3. t.f[1] \in Unit
        BY <4>2
      <4>4. w2[1].val \in Nat /\ t.f[1].val \in Nat /\ Len(w2) \in Nat
        BY <4>1, <4>3, ByteFacts, SMTT(30)
      <4>5. QED
        BY <1>5, <1>6, <3>5, <4>4
    <3> DEFINE n == Len(w)  n2 == Len(w2)  o == t.o  c == w2[1].val  m == t.f[1].val
               d == b.val
    <3>11. Cost(n2, o + 1, 0, u)
      <4>1. n \in Nat /\ n2 \in Nat /\ o \in Nat /\ c \in Nat /\ m \in Nat /\ d \in Nat
        BY <1>1, <3>4, <3>10
      <4>2. \/ n2 = 1 /\ c = d
            \/ n2 = n + 1 /\ (n >= Marks \/ d = c) /\ Cost(n, o, 0, u)
        BY <3>9
      <4>3. /\ o >= 1 /\ o <= Marks + 2 /\ c # m /\ c >= FA_CTRL_MARKER
            /\ o <= Marks => d = m
            /\ o = Marks + 1 => d < FA_CTRL_MARKER
        BY <3>4, <3>6, <3>7, <3>8, <3>10
      <4> HIDE DEF n, n2, o, c, m, d
      <4>4. d = c => o = Marks + 2
        BY <1>1, <4>1, <4>3
      <4>5. CASE n2 = 1 /\ c = d
        BY <3>2, <4>1, <4>3, <4>4, <4>5, CostOfFrame
      <4>6. CASE n2 = n + 1 /\ n >= Marks /\ Cost(n, o, 0, u)
        BY <3>2, <4>1, <4>3, <4>6, CostOfFrame
      <4>7. CASE n2 = n + 1 /\ n < Marks /\ d = c /\ Cost(n, o, 0, u)
        BY <3>2, <4>1, <4>3, <4>4, <4>7, CostOfFrame
      <4>8. QED
        BY <1>1, <4>1, <4>2, <4>5, <4>6, <4>7
    <3>12. QED
      BY <3>2, <3>5, <3>11
  <2> HIDE DEF v, y
  <2>7. QED
    BY <1>2, <2>4, <2>5, <2>6
<1> HIDE DEF U, y
<1>7. QED
  BY <1>3, <1>5, <1>6 DEF Behind, U, y

-----------------------------------------------------------------------------
(***************************************************************************)
(* What is put on the line.                                                *)
(***************************************************************************)

\* The tags of a frame put on it when k messages have been put.
Tags(f, kind, k) == [i \in 1 .. Len(f) |-> [kind |-> kind, k |-> k, f |-> f, o |-> i]]
\* What may be written: the frame of the last message, a control frame, a byte of text.
Sendable(f, kind, s, q) ==
    /\ f \in Seq(Unit) /\ f # << >> /\ kind \in {"data", "control", "text"}
    /\ kind = "data" => Len(s) >= 1 /\ f = DataFrame(s, q, Len(s))
    /\ kind = "control" => ControlFrame(f)
    /\ kind = "text" => TextByte(f)

\* F are the tags of f.
Tagged(F, f, s, q, g) ==
    /\ F \in Seq(Tag) /\ Len(f) \in Nat /\ Len(f) >= 1 /\ Len(F) = Len(f)
    /\ \A i \in 1 .. Len(f) : /\ F[i].k = Len(s) /\ F[i].f = f /\ F[i].o = i
                              /\ Genuine(F[i], s, q, g)
    /\ \A i \in 1 .. Len(f) - 1 : Follows(F[i], F[i + 1])

\* These tags are true, and follow each other.
LEMMA TagsFacts ==
    ASSUME NEW s \in Seq(Message), NEW q, NEW g \in Nat, g <= Len(s), NEW f, NEW kind,
           Sendable(f, kind, s, q)
    PROVE  Tagged(Tags(f, kind, Len(s)), f, s, q, g)
<1> DEFINE F == Tags(f, kind, Len(s))
<1>1. Len(f) \in Nat /\ Len(f) >= 1 /\ f \in Seq(Unit) /\ kind \in {"data", "control", "text"}
  BY DEF Sendable
<1>2. ASSUME NEW i \in 1 .. Len(f)
      PROVE  /\ F[i] = [kind |-> kind, k |-> Len(s), f |-> f, o |-> i]
             /\ F[i] \in Tag
  BY <1>1, <1>2 DEF Tags, Tag
<1>3. F \in Seq(Tag) /\ Len(F) = Len(f)
  <2>1. F \in [1 .. Len(f) -> Tag]
    BY <1>2 DEF Tags
  <2>2. QED
    BY <1>1, <2>1
<1>4. ASSUME NEW i \in 1 .. Len(f)
      PROVE  Genuine(F[i], s, q, g)
  <2>1. /\ F[i].kind = kind /\ F[i].k = Len(s) /\ F[i].f = f /\ F[i].o = i /\ F[i] \in Tag
    <3>1. F[i] = [kind |-> kind, k |-> Len(s), f |-> f, o |-> i] /\ F[i] \in Tag
      BY <1>2
    <3> HIDE DEF F
    <3>2. QED
      BY <3>1
  <2>2. g <= Len(s) /\ Len(s) \in Nat
    OBVIOUS
  <2> HIDE DEF F
  <2>3. QED
    BY <2>1, <2>2 DEF Genuine, Sendable
<1>5. ASSUME NEW i \in 1 .. Len(f)
      PROVE  F[i].k = Len(s) /\ F[i].f = f /\ F[i].o = i
  <2>1. F[i] = [kind |-> kind, k |-> Len(s), f |-> f, o |-> i]
    BY <1>2
  <2> HIDE DEF F
  <2>2. QED
    BY <2>1
<1>6. ASSUME NEW i \in 1 .. Len(f) - 1
      PROVE  Follows(F[i], F[i + 1])
  <2>1. i \in 1 .. Len(f) /\ i + 1 \in 1 .. Len(f) /\ i < Len(f)
    BY <1>1
  <2>2. /\ F[i] = [kind |-> kind, k |-> Len(s), f |-> f, o |-> i]
        /\ F[i + 1] = [kind |-> kind, k |-> Len(s), f |-> f, o |-> i + 1]
    BY <1>2, <2>1
  <2> HIDE DEF F
  <2>3. QED
    BY <2>1, <2>2 DEF Follows
<1>7. QED
  BY <1>1, <1>3, <1>4, <1>5, <1>6 DEF Tagged

\* What is written joins the end of the line.
LEMMA OnLineSent ==
    ASSUME NEW s \in Seq(Message), NEW q, NEW g \in Nat, g <= Len(s), NEW f, NEW kind,
           Sendable(f, kind, s, q),
           NEW l \in Seq(Unit), NEW T, NEW x, OnLine(l, s, q, g, T, x)
    PROVE  OnLine(l \o f, s, q, g, T \o Tags(f, kind, Len(s)), x)
<1> DEFINE F == Tags(f, kind, Len(s))
<1>0. Tagged(F, f, s, q, g)
  BY TagsFacts
<1> HIDE DEF F
<1>1. /\ F \in Seq(Tag) /\ Len(f) \in Nat /\ Len(f) >= 1 /\ Len(F) = Len(f)
      /\ \A i \in 1 .. Len(f) : /\ F[i].k = Len(s) /\ F[i].f = f /\ F[i].o = i
                                /\ Genuine(F[i], s, q, g)
      /\ \A i \in 1 .. Len(f) - 1 : Follows(F[i], F[i + 1])
  BY <1>0 DEF Tagged
<1> DEFINE m == l \o f  U == T \o F
<1>2. T \in Seq(Tag) /\ Len(T) = Len(l) /\ Len(l) \in Nat /\ x \in 0 .. Len(l) /\ f \in Seq(Unit)
  BY DEF OnLine, Sendable
<1> HIDE DEF F
<1>3. /\ U \in Seq(Tag) /\ Len(U) = Len(l) + Len(f)
      /\ \A i \in 1 .. Len(l) : U[i] = T[i]
      /\ \A i \in 1 .. Len(f) : U[Len(l) + i] = F[i]
  <2>1. /\ U \in Seq(Tag) /\ Len(U) = Len(T) + Len(F)
        /\ \A i \in 1 .. Len(T) : U[i] = T[i]
        /\ \A i \in 1 .. Len(F) : U[Len(T) + i] = F[i]
    <3>1. F \in Seq(Tag) /\ T \in Seq(Tag)
      BY <1>1, <1>2
    <3>2. Joined(T, F) /\ U \in Seq(Tag)
      BY <3>1, JoinedFacts
    <3>3. QED
      BY <3>2 DEF Joined
  <2> HIDE DEF U
  <2>2. QED
    BY <1>1, <1>2, <2>1
<1>4. /\ Len(m) = Len(l) + Len(f)
      /\ \A i \in 1 .. Len(l) : m[i] = l[i]
      /\ \A i \in 1 .. Len(f) : m[Len(l) + i] = f[i]
  <2>1. l \in Seq(Unit) /\ f \in Seq(Unit)
    BY <1>2
  <2>2. Joined(l, f)
    BY <2>1, JoinedFacts
  <2>3. QED
    BY <2>2 DEF Joined
<1> HIDE DEF U, m
<1>5. ASSUME NEW i \in x + 1 .. Len(m), i > Len(l)
      PROVE  /\ i - Len(l) \in 1 .. Len(f) /\ U[i] = F[i - Len(l)] /\ m[i] = f[i - Len(l)]
             /\ U[i].k = Len(s) /\ U[i].o = i - Len(l) /\ U[i].f = f
             /\ Genuine(U[i], s, q, g)
  <2>1. i - Len(l) \in 1 .. Len(f) /\ Len(l) + (i - Len(l)) = i
    BY <1>1, <1>2, <1>4, <1>5
  <2>2. U[i] = F[i - Len(l)] /\ m[i] = f[i - Len(l)]
    BY <1>3, <1>4, <2>1
  <2>3. F[i - Len(l)].k = Len(s) /\ F[i - Len(l)].f = f /\ F[i - Len(l)].o = i - Len(l)
    BY <1>1, <2>1
  <2>4. Genuine(F[i - Len(l)], s, q, g)
    BY <1>1, <2>1
  <2>5. QED
    BY <2>1, <2>2, <2>3, <2>4
<1>6. ASSUME NEW i \in x + 1 .. Len(m), i <= Len(l)
      PROVE  /\ i \in x + 1 .. Len(l) /\ U[i] = T[i] /\ m[i] = l[i]
             /\ Genuine(U[i], s, q, g) /\ U[i].k <= Len(s)
  <2>1. i \in x + 1 .. Len(l) /\ i \in 1 .. Len(l)
    BY <1>2, <1>4, <1>6
  <2>2. U[i] = T[i] /\ m[i] = l[i]
    BY <1>3, <1>4, <2>1
  <2>3. Genuine(T[i], s, q, g)
    BY <2>1 DEF OnLine
  <2>4. QED
    BY <2>1, <2>2, <2>3 DEF Genuine
<1>7. \A i \in 1 .. x : m[i].crc = << >>
  <2>1. ASSUME NEW i \in 1 .. x
        PROVE  m[i].crc = << >>
    <3>1. i \in 1 .. Len(l)
      BY <1>2
    <3>2. QED
      BY <1>4, <3>1 DEF OnLine
  <2>2. QED
    BY <2>1
<1>8. ASSUME NEW i \in x + 1 .. Len(m)
      PROVE  Genuine(U[i], s, q, g) /\ m[i] = U[i].f[U[i].o]
  <2>1. CASE i > Len(l)
    BY <1>5, <2>1
  <2>2. CASE i <= Len(l)
    <3>1. l[i] = T[i].f[T[i].o]
      BY <1>6, <2>2 DEF OnLine
    <3>2. QED
      BY <1>6, <2>2, <3>1
  <2>3. QED
    BY <1>2, <2>1, <2>2
<1>9. ASSUME NEW i \in x + 1 .. Len(m) - 1
      PROVE  Follows(U[i], U[i + 1])
  <2>1. i \in x + 1 .. Len(m) /\ i + 1 \in x + 1 .. Len(m) /\ i \in Nat
    BY <1>1, <1>2, <1>4
  <2>2. CASE i > Len(l)
    <3>1. /\ i + 1 > Len(l) /\ i - Len(l) \in 1 .. Len(f) /\ (i + 1) - Len(l) = (i - Len(l)) + 1
          /\ i - Len(l) < Len(f) /\ (i - Len(l)) + 1 \in 1 .. Len(f)
      BY <1>1, <1>2, <1>4, <2>1, <2>2
    <3>2. U[i] = F[i - Len(l)] /\ U[i + 1] = F[(i - Len(l)) + 1]
      BY <1>5, <2>1, <2>2, <3>1
    <3>3. i - Len(l) \in 1 .. Len(f) - 1
      BY <1>1, <3>1
    <3>4. QED
      BY <1>1, <3>2, <3>3
  <2>3. CASE i < Len(l)
    <3>1. i \in x + 1 .. Len(l) - 1 /\ i \in 1 .. Len(l) /\ i + 1 \in 1 .. Len(l)
      BY <1>2, <2>1, <2>3
    <3>2. Follows(T[i], T[i + 1])
      BY <3>1 DEF OnLine
    <3>3. QED
      BY <1>3, <3>1, <3>2
  <2>4. CASE i = Len(l)
    <3>1. T[Len(l)].o = Len(T[Len(l)].f) /\ i <= Len(l) /\ i + 1 > Len(l) /\ (i + 1) - Len(l) = 1
      BY <1>2, <2>1, <2>4 DEF OnLine
    <3>2. U[i].o = Len(U[i].f)
      BY <1>6, <2>1, <2>4, <3>1
    <3>3. U[i + 1].o = 1
      BY <1>5, <2>1, <3>1
    <3>4. U[i].o \in Nat
      BY <1>8, <2>1 DEF Genuine, Tag
    <3>5. QED
      BY <3>2, <3>3, <3>4 DEF Follows
  <2>5. QED
    BY <1>2, <2>1, <2>2, <2>3, <2>4
<1>10. ASSUME NEW i \in x + 1 .. Len(m), NEW j \in x + 1 .. Len(m), i <= j
       PROVE  U[i].k <= U[j].k
  <2>1. CASE j <= Len(l)
    <3>1. i <= Len(l)
      BY <1>2, <1>10, <2>1
    <3>2. U[i] = T[i] /\ U[j] = T[j] /\ i \in x + 1 .. Len(l) /\ j \in x + 1 .. Len(l)
      BY <1>6, <2>1, <3>1
    <3>3. T[i].k <= T[j].k
      BY <1>10, <3>2 DEF OnLine
    <3>4. QED
      BY <3>2, <3>3
  <2>2. CASE j > Len(l)
    <3>1. U[j].k = Len(s)
      BY <1>5, <2>2
    <3>2. CASE i > Len(l)
      BY <1>5, <3>1, <3>2, SMTT(30)
    <3>3. CASE i <= Len(l)
      BY <1>6, <3>1, <3>3
    <3>4. QED
      BY <1>2, <3>2, <3>3
  <2>3. QED
    BY <1>2, <2>1, <2>2
<1>11. U[Len(m)].o = Len(U[Len(m)].f)
  <2>1. Len(m) \in x + 1 .. Len(m) /\ Len(m) > Len(l) /\ Len(m) - Len(l) = Len(f)
    BY <1>1, <1>2, <1>4
  <2>2. QED
    BY <1>5, <2>1
<1>12. Len(U) = Len(m) /\ x \in 0 .. Len(m)
  BY <1>1, <1>2, <1>3, <1>4
<1>13. QED
  BY <1>3, <1>7, <1>8, <1>9, <1>10, <1>11, <1>12 DEF OnLine, m, U, F

\* What the reader has is as it was.
LEMMA HeldSent ==
    ASSUME NEW s \in Seq(Message), NEW q, NEW g \in Nat, g <= Len(s), NEW f, NEW kind,
           Sendable(f, kind, s, q), NEW T \in Seq(Tag), NEW x \in 0 .. Len(T),
           NEW w, Held(w, s, q, g, T, x), NEW u \in Int, x <= u
    PROVE  /\ Held(w, s, q, g, T \o Tags(f, kind, Len(s)), x)
           /\ Behind(w, T, x, u) => Behind(w, T \o Tags(f, kind, Len(s)), x, u)
<1> DEFINE F == Tags(f, kind, Len(s))  U == T \o F
<1>0. Tagged(F, f, s, q, g)
  BY TagsFacts
<1> HIDE DEF F
<1>1. /\ F \in Seq(Tag) /\ Len(f) \in Nat /\ Len(f) >= 1 /\ Len(F) = Len(f)
      /\ \A i \in 1 .. Len(f) : /\ F[i].k = Len(s) /\ F[i].f = f /\ F[i].o = i
                                /\ Genuine(F[i], s, q, g)
      /\ \A i \in 1 .. Len(f) - 1 : Follows(F[i], F[i + 1])
  BY <1>0 DEF Tagged
<1> HIDE DEF F
<1>2. /\ U \in Seq(Tag) /\ Len(U) = Len(T) + Len(f) /\ Len(T) \in Nat
      /\ \A i \in 1 .. Len(T) : U[i] = T[i]
      /\ \A i \in 1 .. Len(f) : U[Len(T) + i] = F[i]
  <2>1. /\ U \in Seq(Tag) /\ Len(U) = Len(T) + Len(F) /\ Len(T) \in Nat
        /\ \A i \in 1 .. Len(T) : U[i] = T[i]
        /\ \A i \in 1 .. Len(F) : U[Len(T) + i] = F[i]
    <3>1. F \in Seq(Tag) /\ T \in Seq(Tag)
      BY <1>1
    <3>2. Joined(T, F) /\ U \in Seq(Tag)
      BY <3>1, JoinedFacts
    <3>3. QED
      BY <3>2 DEF Joined
  <2> HIDE DEF U
  <2>2. QED
    BY <1>1, <2>1
<1> HIDE DEF U
<1>3. ASSUME NEW t \in Tag, HeldOf(w, t, s, q, g), \A i \in x + 1 .. Len(T) : t.k <= T[i].k
      PROVE  \A i \in x + 1 .. Len(U) : t.k <= U[i].k
  <2>1. t.k <= Len(s) /\ t.k \in Nat
    BY <1>3 DEF HeldOf, Genuine, Tag
  <2>2. ASSUME NEW i \in x + 1 .. Len(U)
        PROVE  t.k <= U[i].k
    <3>1. CASE i <= Len(T)
      <4>1. i \in x + 1 .. Len(T) /\ i \in 1 .. Len(T)
        BY <1>2, <3>1
      <4>2. QED
        BY <1>2, <1>3, <4>1
    <3>2. CASE i > Len(T)
      <4>1. i - Len(T) \in 1 .. Len(f) /\ Len(T) + (i - Len(T)) = i
        BY <1>1, <1>2, <3>2
      <4>2. U[i] = F[i - Len(T)]
        BY <1>2, <4>1
      <4>3. F[i - Len(T)].k = Len(s)
        BY <1>1, <4>1
      <4>4. QED
        BY <2>1, <4>2, <4>3
    <3>3. QED
      BY <1>2, <3>1, <3>2
  <2>3. QED
    BY <2>2
<1>4. Held(w, s, q, g, U, x)
  BY <1>3 DEF Held
<1>5. ASSUME Behind(w, T, x, u)
      PROVE  Behind(w, U, x, u)
  <2>1. x <= u /\ u < Marks /\ (w # << >> => w[1].val >= FA_CTRL_MARKER)
    BY <1>5 DEF Behind
  <2>2. CASE x < Len(T)
    <3>1. x + 1 \in 1 .. Len(T) /\ x < Len(U)
      BY <1>1, <1>2, <2>2
    <3>2. U[x + 1] = T[x + 1]
      BY <1>2, <3>1
    <3>3. QED
      BY <1>5, <2>2, <3>1, <3>2 DEF Behind
  <2>3. CASE x = Len(T)
    <3>1. 1 \in 1 .. Len(f) /\ U[Len(T) + 1] = F[1]
      BY <1>1, <1>2
    <3>2. U[x + 1].o = 1
      <4>1. F[1].o = 1
        BY <1>1, <3>1
      <4>2. QED
        BY <2>3, <3>1, <4>1
    <3>3. Cost(Len(w), 1, x, u)
      <4>1. x \in Nat /\ Marks \in Nat
        BY <1>2, ByteFacts
      <4>2. u >= 1 - 1 - (IF Len(w) > Marks THEN Len(w) - Marks ELSE 0)
        BY <2>1, <4>1
      <4>3. QED
        BY <4>2 DEF Cost
    <3>4. QED
      BY <2>1, <3>2, <3>3 DEF Behind
  <2>4. QED
    BY <1>2, <2>2, <2>3
<1>6. QED
  BY <1>4, <1>5 DEF U, F

\* What was true of the line and the reader is, when one more message is put.
LEMMA GenuineGrows ==
    ASSUME NEW s \in Seq(Message), NEW q \in Seq(SeqNo), Len(q) = Len(s), NEW g \in Nat,
           NEW m, NEW z, NEW t, Genuine(t, s, q, g)
    PROVE  Genuine(t, Append(s, m), Append(q, z), g)
<1>1. t.k \in Nat /\ t.k <= Len(s) /\ Len(Append(s, m)) = Len(s) + 1 /\ Len(s) \in Nat
  BY DEF Genuine, Tag
<1>2. ASSUME t.kind = "data"
      PROVE  t.f = DataFrame(Append(s, m), Append(q, z), t.k)
  <2>1. t.k \in 1 .. Len(s) /\ t.f = DataFrame(s, q, t.k)
    BY <1>1, <1>2 DEF Genuine
  <2>2. Append(s, m)[t.k] = s[t.k] /\ Append(q, z)[t.k] = q[t.k]
    BY <2>1
  <2>3. QED
    BY <2>1, <2>2 DEF DataFrame
<1>3. QED
  BY <1>1, <1>2 DEF Genuine

\* One more message put changes nothing on the line,
LEMMA OnLineGrows ==
    ASSUME NEW s \in Seq(Message), NEW q \in Seq(SeqNo), Len(q) = Len(s), NEW g \in Nat,
           NEW m, NEW z, NEW l, NEW T, NEW x, OnLine(l, s, q, g, T, x)
    PROVE  OnLine(l, Append(s, m), Append(q, z), g, T, x)
<1>1. ASSUME NEW i \in x + 1 .. Len(l)
      PROVE  Genuine(T[i], Append(s, m), Append(q, z), g)
  <2>1. Genuine(T[i], s, q, g)
    BY DEF OnLine
  <2>2. QED
    BY <2>1, GenuineGrows
<1>2. QED
  BY <1>1 DEF OnLine

\* and nothing that the reader has.
LEMMA HeldGrows ==
    ASSUME NEW s \in Seq(Message), NEW q \in Seq(SeqNo), Len(q) = Len(s), NEW g \in Nat,
           NEW m, NEW z, NEW w, NEW T, NEW x, Held(w, s, q, g, T, x)
    PROVE  Held(w, Append(s, m), Append(q, z), g, T, x)
<1>1. ASSUME NEW t \in Tag, HeldOf(w, t, s, q, g)
      PROVE  HeldOf(w, t, Append(s, m), Append(q, z), g)
  <2>1. Genuine(t, Append(s, m), Append(q, z), g)
    BY <1>1, GenuineGrows DEF HeldOf
  <2>2. QED
    BY <1>1, <2>1 DEF HeldOf
<1>2. QED
  BY <1>1 DEF Held

-----------------------------------------------------------------------------
(***************************************************************************)
(* What a fault does.                                                      *)
(***************************************************************************)

\* What the reader has is of a frame not behind any that is still to come.
LEMMA HeldLater ==
    ASSUME NEW s, NEW q, NEW g, NEW w, NEW T, NEW x, Held(w, s, q, g, T, x),
           NEW U, NEW y,
           \A i \in y + 1 .. Len(U) : \E j \in x + 1 .. Len(T) : U[i] = T[j]
    PROVE  Held(w, s, q, g, U, y)
<1>1. ASSUME NEW t \in Tag, \A j \in x + 1 .. Len(T) : t.k <= T[j].k
      PROVE  \A i \in y + 1 .. Len(U) : t.k <= U[i].k
  <2>1. ASSUME NEW i \in y + 1 .. Len(U)
        PROVE  t.k <= U[i].k
    <3>1. PICK j \in x + 1 .. Len(T) : U[i] = T[j]
      OBVIOUS
    <3>2. QED
      BY <1>1, <3>1
  <2>2. QED
    BY <2>1
<1>2. QED
  BY <1>1 DEF Held

\* One unit of a frame less, or one that is not what it was: one fault more.
LEMMA CostFault ==
    ASSUME NEW n \in Nat, NEW o \in Nat, NEW x \in Nat, NEW u \in Int, o >= 1, o <= HeaderLength,
           x <= u
    PROVE  /\ Cost(n, o, x, u) => Cost(n, o, x, u + 1) /\ Cost(n, o, x + 1, u + 1)
           /\ Cost(n, o, x, u) /\ x >= 1 => Cost(n, o, x - 1, u + 1)
           /\ Cost(n, o, x, u) /\ o <= Marks + 2 => Cost(n, o + 1, x, u + 1)
           /\ Cost(n, o, x, u) /\ o <= Marks + 2 => Cost(n, o + 1, x + 1, u + 1)
           /\ Cost(n, 1, x, u)
BY ByteFacts DEF Cost

\* The line loses a byte.
LEMMA LineLoses ==
    ASSUME NEW s \in Seq(Message), NEW q \in Seq(SeqNo), Len(q) = Len(s), NEW g \in Nat,
           NEW l \in Seq(Unit), l # << >>, NEW T, NEW x, OnLine(l, s, q, g, T, x),
           NEW w \in Seq(Unit), Held(w, s, q, g, T, x),
           NEW u \in Int, u + 1 < Marks, Behind(w, T, x, u)
    PROVE  /\ OnLine(Tail(l), s, q, g, Tail(T), Less(x))
           /\ Held(w, s, q, g, Tail(T), Less(x))
           /\ Behind(w, Tail(T), Less(x), u + 1)
<1> DEFINE U == Tail(T)  y == Less(x)  v == U[y + 1]
<1>1. OnLine(Tail(l), s, q, g, U, y)
  BY OnLineTail
<1>2. /\ T \in Seq(Tag) /\ Len(T) = Len(l) /\ Len(l) \in Nat /\ Len(l) >= 1 /\ x \in 0 .. Len(l)
      /\ U \in Seq(Tag) /\ Len(U) = Len(l) - 1 /\ y \in 0 .. Len(l) - 1
      /\ \A i \in y + 1 .. Len(l) - 1 : U[i] = T[i + 1] /\ i + 1 \in x + 1 .. Len(l)
  BY NextUnit
<1>3. Held(w, s, q, g, U, y)
  <2>1. \A i \in y + 1 .. Len(U) : \E j \in x + 1 .. Len(T) : U[i] = T[j]
    BY <1>2
  <2> HIDE DEF U, y
  <2>2. QED
    BY <2>1, HeldLater
<1>4. /\ x <= u /\ u < Marks /\ (w # << >> => w[1].val >= FA_CTRL_MARKER)
      /\ y <= x /\ (x >= 1 => y = x - 1) /\ (x = 0 => y = 0)
  BY <1>2 DEF Behind, Less
<1>5. ASSUME y < Len(U), v.kind = "data", v.o <= HeaderLength, w # << >>, w[1].val # v.f[1].val
      PROVE  Cost(Len(w), v.o, y, u + 1)
  <2>1. y + 1 \in y + 1 .. Len(l) - 1
    BY <1>2, <1>5
  <2>2. v = T[y + 2] /\ y + 2 \in x + 1 .. Len(l)
    <3>1. U[y + 1] = T[(y + 1) + 1] /\ (y + 1) + 1 \in x + 1 .. Len(l)
      BY <1>2, <2>1
    <3> HIDE DEF U, y
    <3>2. (y + 1) + 1 = y + 2
      BY <1>2
    <3>3. QED
      BY <3>1, <3>2
  <2>3. Genuine(v, s, q, g)
    BY <2>2 DEF OnLine
  <2> HIDE DEF U, y, v
  <2>4. v.o \in Nat /\ v.o >= 1 /\ Len(w) \in Nat /\ x \in Nat /\ y \in Nat
    <3>1. v.o \in Nat /\ v.o >= 1
      BY <2>3 DEF Genuine, Tag
    <3>2. QED
      BY <1>2, <3>1
  <2>5. CASE x >= 1
    <3>1. v = T[x + 1] /\ x < Len(T) /\ y = x - 1
      <4>1. y + 2 = x + 1
        BY <1>2, <1>4, <2>5
      <4>2. QED
        BY <1>2, <1>4, <1>5, <2>2, <2>5, <4>1, SMTT(30)
    <3>2. Cost(Len(w), v.o, x, u)
      BY <1>5, <3>1 DEF Behind
    <3>3. Cost(Len(w), v.o, x - 1, u + 1)
      BY <1>4, <1>5, <2>4, <2>5, <3>2, CostFault
    <3>4. QED
      BY <3>1, <3>3
  <2>6. CASE x = 0
    <3> DEFINE t == T[1]
    <3>1. v = T[2] /\ Len(l) > 1 /\ y = 0 /\ 0 <= u /\ x < Len(T) /\ x + 1 = 1
      <4>1. y = 0 /\ y + 2 = 2 /\ 0 <= u
        BY <1>2, <1>4, <2>6
      <4>2. QED
        BY <1>2, <1>5, <2>2, <2>6, <4>1
    <3>2. Genuine(t, s, q, g) /\ Follows(t, v)
      BY <2>6, <3>1, NextUnit
    <3>3. t \in Tag /\ t.o \in Nat /\ t.o >= 1
      BY <3>2 DEF Genuine, Tag
    <3> HIDE DEF t
    <3>4. CASE v.o = 1
      <4>1. Cost(Len(w), 1, 0, u + 1)
        BY <1>4, <2>4, <3>1, ByteFacts DEF Cost
      <4>2. QED
        BY <3>1, <3>4, <4>1
    <3>5. CASE v.o # 1
      <4>1. t.kind = "data" /\ t.f = v.f /\ v.o = t.o + 1
        BY <1>5, <3>2, <3>3, <3>5, InFrame
      <4>2. t.o <= Marks + 2 /\ t.o <= HeaderLength
        BY <1>5, <3>3, <4>1, ByteFacts
      <4>3. Cost(Len(w), t.o, x, u)
        BY <1>5, <3>1, <4>1, <4>2 DEF Behind, t
      <4>4. Cost(Len(w), t.o + 1, x, u + 1)
        BY <1>4, <2>4, <3>3, <4>2, <4>3, CostFault
      <4>5. QED
        BY <2>6, <3>1, <4>1, <4>4
    <3>6. QED
      BY <3>4, <3>5
  <2>7. QED
    BY <2>4, <2>5, <2>6
<1>6. Behind(w, U, y, u + 1)
  <2>1. y <= u + 1
    BY <1>2, <1>4
  <2> HIDE DEF U, y
  <2>2. QED
    BY <1>4, <1>5, <2>1 DEF Behind
<1>7. QED
  BY <1>1, <1>3, <1>6

\* The line shows another byte.
LEMMA LineAlters ==
    ASSUME NEW s \in Seq(Message), NEW q \in Seq(SeqNo), Len(q) = Len(s), NEW g \in Nat,
           NEW l \in Seq(Unit), l # << >>, NEW T, NEW x, OnLine(l, s, q, g, T, x),
           NEW w \in Seq(Unit), Held(w, s, q, g, T, x),
           NEW u \in Int, u + 1 < Marks, Behind(w, T, x, u),
           NEW b \in Byte, NEW y, y = IF x = 0 THEN 1 ELSE x
    PROVE  /\ OnLine([l EXCEPT ![1] = Plain(b)], s, q, g, T, y)
           /\ Held(w, s, q, g, T, y)
           /\ Behind(w, T, y, u + 1)
<1> DEFINE m == [l EXCEPT ![1] = Plain(b)]  v == T[y + 1]
<1>1. /\ T \in Seq(Tag) /\ Len(T) = Len(l) /\ Len(l) \in Nat /\ Len(l) >= 1 /\ x \in 0 .. Len(l)
      /\ y \in 1 .. Len(l) /\ x <= y /\ y <= x + 1
      /\ x <= u /\ u < Marks /\ (w # << >> => w[1].val >= FA_CTRL_MARKER)
  BY NextUnit DEF Behind
<1>2. /\ Len(m) = Len(l) /\ m[1] = Plain(b)
      /\ \A i \in 2 .. Len(l) : m[i] = l[i]
  BY <1>1
<1> HIDE DEF m
<1>3. OnLine(m, s, q, g, T, y)
  <2>1. ASSUME NEW i \in 1 .. y
        PROVE  m[i].crc = << >>
    <3>1. CASE i = 1
      BY <1>2, <3>1 DEF Plain
    <3>2. CASE i # 1
      <4>1. i \in 2 .. Len(l) /\ i \in 1 .. x
        BY <1>1, <3>2
      <4>2. QED
        BY <1>2, <4>1 DEF OnLine
    <3>3. QED
      BY <3>1, <3>2
  <2>2. ASSUME NEW i \in y + 1 .. Len(m)
        PROVE  Genuine(T[i], s, q, g) /\ m[i] = T[i].f[T[i].o]
    <3>1. i \in 2 .. Len(l) /\ i \in x + 1 .. Len(l)
      BY <1>1, <1>2
    <3>2. QED
      BY <1>2, <3>1 DEF OnLine
  <2>3. ASSUME NEW i \in y + 1 .. Len(m) - 1
        PROVE  Follows(T[i], T[i + 1])
    <3>1. i \in x + 1 .. Len(l) - 1
      BY <1>1, <1>2
    <3>2. QED
      BY <3>1 DEF OnLine
  <2>4. ASSUME NEW i \in y + 1 .. Len(m), NEW j \in y + 1 .. Len(m), i <= j
        PROVE  T[i].k <= T[j].k
    <3>1. i \in x + 1 .. Len(l) /\ j \in x + 1 .. Len(l)
      BY <1>1, <1>2
    <3>2. QED
      BY <2>4, <3>1 DEF OnLine
  <2>5. y < Len(m) => T[Len(m)].o = Len(T[Len(m)].f)
    <3>1. y < Len(m) => x < Len(l)
      BY <1>1, <1>2
    <3>2. QED
      BY <1>2, <3>1 DEF OnLine
  <2>6. QED
    BY <1>1, <1>2, <2>1, <2>2, <2>3, <2>4, <2>5 DEF OnLine
<1>4. Held(w, s, q, g, T, y)
  <2>1. \A i \in y + 1 .. Len(T) : \E j \in x + 1 .. Len(T) : T[i] = T[j]
    <3>1. ASSUME NEW i \in y + 1 .. Len(T)
          PROVE  \E j \in x + 1 .. Len(T) : T[i] = T[j]
      <4>1. i \in x + 1 .. Len(T)
        BY <1>1
      <4>2. QED
        BY <4>1
    <3>2. QED
      BY <3>1
  <2>2. QED
    BY <2>1, HeldLater
<1>5. ASSUME y < Len(T), v.kind = "data", v.o <= HeaderLength, w # << >>, w[1].val # v.f[1].val
      PROVE  Cost(Len(w), v.o, y, u + 1)
  <2>1. y + 1 \in x + 1 .. Len(l) /\ Len(w) \in Nat /\ x \in Nat /\ y \in Nat
    BY <1>1, <1>5
  <2>2. Genuine(v, s, q, g)
    BY <2>1 DEF OnLine
  <2> HIDE DEF v
  <2>3. v.o \in Nat /\ v.o >= 1
    BY <2>2 DEF Genuine, Tag
  <2>4. CASE x >= 1
    <3>1. v = T[x + 1] /\ x < Len(T) /\ y = x
      <4>1. y = x
        BY <1>1, <2>4
      <4>2. QED
        BY <1>5, <4>1 DEF v
    <3>2. Cost(Len(w), v.o, x, u)
      BY <1>5, <3>1 DEF Behind
    <3>3. Cost(Len(w), v.o, x, u + 1)
      BY <1>1, <1>5, <2>1, <2>3, <3>2, CostFault
    <3>4. QED
      BY <3>1, <3>3
  <2>5. CASE x = 0
    <3> DEFINE t == T[1]
    <3>1. v = T[2] /\ Len(l) > 1 /\ y = 1 /\ x < Len(T) /\ x + 1 = 1
      <4>1. y = 1 /\ Len(l) > 1
        BY <1>1, <1>5, <2>5
      <4>2. QED
        BY <1>1, <2>5, <4>1 DEF v
    <3>2. Genuine(t, s, q, g) /\ Follows(t, v)
      BY <2>5, <3>1, NextUnit
    <3>3. t \in Tag /\ t.o \in Nat /\ t.o >= 1
      BY <3>2 DEF Genuine, Tag
    <3> HIDE DEF t
    <3>4. CASE v.o = 1
      <4>1. 0 <= u /\ 1 <= u + 1
        BY <1>1, <2>5
      <4>2. Cost(Len(w), 1, 1, u + 1)
        BY <2>1, <4>1, ByteFacts DEF Cost
      <4>3. QED
        BY <3>1, <3>4, <4>2
    <3>5. CASE v.o # 1
      <4>1. t.kind = "data" /\ t.f = v.f /\ v.o = t.o + 1
        BY <1>5, <3>2, <3>3, <3>5, InFrame
      <4>2. t.o <= Marks + 2 /\ t.o <= HeaderLength
        BY <1>5, <3>3, <4>1, ByteFacts, SMTT(30)
      <4>3. Cost(Len(w), t.o, x, u)
        BY <1>5, <3>1, <4>1, <4>2 DEF Behind, t
      <4>4. Cost(Len(w), t.o + 1, x + 1, u + 1)
        BY <1>1, <2>1, <3>3, <4>2, <4>3, CostFault
      <4>5. QED
        BY <3>1, <4>1, <4>4
    <3>6. QED
      BY <3>4, <3>5
  <2>6. QED
    BY <2>1, <2>4, <2>5
<1>6. Behind(w, T, y, u + 1)
  <2>1. y <= u + 1
    BY <1>1
  <2>2. QED
    BY <1>1, <1>5, <2>1 DEF Behind
<1>7. QED
  BY <1>3, <1>4, <1>6 DEF m

\* The line makes up a byte.
LEMMA LineInvents ==
    ASSUME NEW s \in Seq(Message), NEW q \in Seq(SeqNo), Len(q) = Len(s), NEW g \in Nat,
           NEW l \in Seq(Unit), NEW T, NEW x, OnLine(l, s, q, g, T, x),
           NEW w \in Seq(Unit), Held(w, s, q, g, T, x),
           NEW u \in Int, u + 1 < Marks, Behind(w, T, x, u),
           NEW b \in Byte, NEW t \in Tag
    PROVE  /\ OnLine(<<Plain(b)>> \o l, s, q, g, <<t>> \o T, x + 1)
           /\ Held(w, s, q, g, <<t>> \o T, x + 1)
           /\ Behind(w, <<t>> \o T, x + 1, u + 1)
<1> DEFINE m == <<Plain(b)>> \o l  U == <<t>> \o T  y == x + 1
<1>1. /\ T \in Seq(Tag) /\ Len(T) = Len(l) /\ Len(l) \in Nat /\ x \in 0 .. Len(l)
      /\ x <= u /\ u < Marks /\ (w # << >> => w[1].val >= FA_CTRL_MARKER)
  BY DEF Behind, OnLine
<1>2. /\ Len(m) = Len(l) + 1 /\ m[1] = Plain(b)
      /\ \A i \in 2 .. Len(l) + 1 : m[i] = l[i - 1]
  <2>1. <<Plain(b)>> \in Seq(Unit) /\ Len(<<Plain(b)>>) = 1 /\ <<Plain(b)>>[1] = Plain(b)
    BY ByteFacts
  <2>2. QED
    BY <2>1
<1>3. /\ U \in Seq(Tag) /\ Len(U) = Len(l) + 1
      /\ \A i \in 2 .. Len(l) + 1 : U[i] = T[i - 1]
  <2>1. <<t>> \in Seq(Tag) /\ Len(<<t>>) = 1
    OBVIOUS
  <2>2. QED
    BY <1>1, <2>1
<1>4. y \in 1 .. Len(l) + 1
  BY <1>1
<1> HIDE DEF m, U, y
<1>5. ASSUME NEW i \in y + 1 .. Len(m)
      PROVE  i \in 2 .. Len(l) + 1 /\ i - 1 \in x + 1 .. Len(l) /\ m[i] = l[i - 1] /\ U[i] = T[i - 1]
  <2>1. i \in 2 .. Len(l) + 1 /\ i - 1 \in x + 1 .. Len(l)
    BY <1>1, <1>2, SMTT(30) DEF y
  <2>2. QED
    BY <1>2, <1>3, <2>1
<1>6. OnLine(m, s, q, g, U, y)
  <2>1. ASSUME NEW i \in 1 .. y
        PROVE  m[i].crc = << >>
    <3>1. CASE i = 1
      BY <1>2, <3>1 DEF Plain
    <3>2. CASE i # 1
      <4>1. i \in 2 .. Len(l) + 1 /\ i - 1 \in 1 .. x
        BY <1>1, <3>2 DEF y
      <4>2. QED
        BY <1>2, <4>1 DEF OnLine
    <3>3. QED
      BY <3>1, <3>2
  <2>2. ASSUME NEW i \in y + 1 .. Len(m)
        PROVE  Genuine(U[i], s, q, g) /\ m[i] = U[i].f[U[i].o]
    BY <1>5 DEF OnLine
  <2>3. ASSUME NEW i \in y + 1 .. Len(m) - 1
        PROVE  Follows(U[i], U[i + 1])
    <3>1. /\ i \in y + 1 .. Len(m) /\ i + 1 \in y + 1 .. Len(m) /\ (i + 1) - 1 = (i - 1) + 1
          /\ i - 1 \in x + 1 .. Len(l) - 1
      BY <1>1, <1>2, <1>4 DEF y
    <3>2. Follows(T[i - 1], T[(i - 1) + 1])
      BY <3>1 DEF OnLine
    <3>3. U[i] = T[i - 1]
      BY <1>5, <3>1
    <3>4. U[i + 1] = T[(i + 1) - 1]
      BY <1>5, <3>1
    <3>5. QED
      BY <3>1, <3>2, <3>3, <3>4
  <2>4. ASSUME NEW i \in y + 1 .. Len(m), NEW j \in y + 1 .. Len(m), i <= j
        PROVE  U[i].k <= U[j].k
    <3>1. i - 1 \in x + 1 .. Len(l) /\ j - 1 \in x + 1 .. Len(l) /\ i - 1 <= j - 1
      BY <1>4, <1>5, <2>4
    <3>2. T[i - 1].k <= T[j - 1].k
      BY <3>1 DEF OnLine
    <3>3. QED
      BY <1>5, <3>2
  <2>5. ASSUME y < Len(m)
        PROVE  U[Len(m)].o = Len(U[Len(m)].f)
    <3>1. Len(m) \in y + 1 .. Len(m) /\ Len(m) - 1 = Len(l) /\ x < Len(l)
      BY <1>1, <1>2, <1>4, <2>5 DEF y
    <3>2. T[Len(l)].o = Len(T[Len(l)].f)
      BY <3>1 DEF OnLine
    <3>3. QED
      BY <1>5, <3>1, <3>2
  <2>6. QED
    BY <1>2, <1>3, <1>4, <2>1, <2>2, <2>3, <2>4, <2>5 DEF OnLine
<1>7. Held(w, s, q, g, U, y)
  <2>1. \A i \in y + 1 .. Len(U) : \E j \in x + 1 .. Len(T) : U[i] = T[j]
    BY <1>1, <1>2, <1>3, <1>5
  <2>2. QED
    BY <2>1, HeldLater
<1>8. Behind(w, U, y, u + 1)
  <2>1. y <= u + 1 /\ y \in Nat
    BY <1>1, <1>4 DEF y
  <2>2. ASSUME y < Len(U)
        PROVE  U[y + 1] = T[x + 1] /\ x < Len(T) /\ x + 1 \in x + 1 .. Len(l)
    <3>1. y + 1 \in y + 1 .. Len(m) /\ (y + 1) - 1 = x + 1 /\ x < Len(T)
      BY <1>1, <1>2, <1>3, <1>4, <2>2, SMTT(30) DEF y
    <3>2. QED
      BY <1>1, <1>5, <3>1, SMTT(30)
  <2>3. ASSUME y < Len(U), U[y + 1].kind = "data", U[y + 1].o <= HeaderLength,
               w # << >>, w[1].val # U[y + 1].f[1].val
        PROVE  Cost(Len(w), U[y + 1].o, y, u + 1)
    <3> DEFINE v == T[x + 1]
    <3>1. Genuine(v, s, q, g) /\ U[y + 1] = v
      BY <2>2, <2>3 DEF OnLine
    <3>2. Cost(Len(w), v.o, x, u)
      BY <2>2, <2>3 DEF Behind
    <3> HIDE DEF v
    <3>3. v.o \in Nat /\ v.o >= 1
      BY <3>1 DEF Genuine, Tag
    <3>4. Cost(Len(w), v.o, x + 1, u + 1)
      BY <1>1, <2>3, <3>1, <3>2, <3>3, CostFault, SMTT(30)
    <3>5. QED
      BY <3>1, <3>4 DEF y
  <2>4. QED
    BY <1>1, <2>1, <2>3 DEF Behind
<1>9. QED
  BY <1>6, <1>7, <1>8 DEF m, U, y

-----------------------------------------------------------------------------
(***************************************************************************)
(* What a frame is read as.                                                *)
(***************************************************************************)

\* Bytes are numbers.
LEMMA BytesAreNumbers ==
    ASSUME NEW p \in Seq(Byte)
    PROVE  p \in Seq(Nat) /\ Len(p) \in Nat
<1>1. Len(p) \in Nat /\ p \in [1 .. Len(p) -> Byte]
  OBVIOUS
<1>2. \A i \in 1 .. Len(p) : p[i] \in Nat
  BY <1>1, ByteFacts
<1>3. p \in [1 .. Len(p) -> Nat]
  BY <1>1, <1>2
<1>4. QED
  BY <1>1, <1>3

\* What a CRC was computed over tells the fields apart.
SameFields(A, C, P, Q) == A \o P = C \o Q => A[1] = C[1] /\ P = Q

\* These are seq/type and length byte, and then the payload.
LEMMA CrcFields ==
    ASSUME NEW S, NEW A \in Seq(S), Len(A) = 2, NEW C \in Seq(S), Len(C) = 2,
           NEW P \in Seq(S), NEW Q \in Seq(S)
    PROVE  SameFields(A, C, P, Q)
<1>1. /\ Len(A \o P) = Len(A) + Len(P)
      /\ \A i \in 1 .. Len(A) : (A \o P)[i] = A[i]
      /\ \A i \in 1 .. Len(P) : (A \o P)[Len(A) + i] = P[i]
  <2>1. Joined(A, P)
    BY JoinedFacts
  <2>2. QED
    BY <2>1 DEF Joined
<1>2. /\ Len(C \o Q) = Len(C) + Len(Q)
      /\ \A i \in 1 .. Len(C) : (C \o Q)[i] = C[i]
      /\ \A i \in 1 .. Len(Q) : (C \o Q)[Len(C) + i] = Q[i]
  <2>1. Joined(C, Q)
    BY JoinedFacts
  <2>2. QED
    BY <2>1 DEF Joined
<1> SUFFICES ASSUME A \o P = C \o Q
             PROVE  A[1] = C[1] /\ P = Q
  BY DEF SameFields
<1>3. Len(P) \in Nat /\ Len(Q) \in Nat /\ 2 + Len(P) = 2 + Len(Q)
  BY <1>1, <1>2
<1>4. Len(P) = Len(Q)
  BY <1>3
<1>5. \A i \in 1 .. Len(P) : P[i] = Q[i]
  BY <1>1, <1>2, <1>4, SMTT(30)
<1>6. /\ P \in [1 .. Len(P) -> S]
      /\ Q \in [1 .. Len(P) -> S]
  BY <1>4
<1>7. P = Q
  BY <1>5, <1>6
<1>8. A[1] = C[1]
  BY <1>1, <1>2
<1>9. QED
  BY <1>7, <1>8

\* w is the frame of message k, and nothing older is on the line.
Found(w, s, q, g, T, x, k) ==
    /\ g <= k /\ SeqOf(w) = q[k]
    /\ w[1].val - FA_CTRL_MARKER = s[k].cmd /\ PayloadOf(w) = Values(s[k].payload)
    /\ \A i \in x + 1 .. Len(T) : k <= T[i].k

\* A frame whose CRC matches, and no control frame, is one that was put and that
\* is not older than the last one delivered: its message, and its number.
LEMMA FrameRead ==
    ASSUME NEW s \in Seq(Message), NEW q \in Seq(SeqNo), Len(q) = Len(s), NEW g \in Nat,
           NEW w \in Seq(Unit), IsFrame(w), ~IsControl(w), NEW T, NEW x, Held(w, s, q, g, T, x)
    PROVE  \E k \in 1 .. Len(s) : Found(w, s, q, g, T, x, k)
<1>1. /\ Len(w) \in Nat /\ Len(w) >= HeaderLength /\ HeaderLength \in Nat /\ HeaderLength = Marks + 3
      /\ Marks \in Nat
  BY ByteFacts DEF IsFrame, Complete
<1>2. PayloadOf(w) \in Seq(Byte) /\ SeqByte(w) \in Nat /\ Size(w) \in Nat
  <2>1. w[Marks + 1] \in Unit /\ w[Marks + 2] \in Unit
    BY <1>1
  <2>2. QED
    BY <1>1, <2>1, PayloadType, ByteFacts DEF SeqByte, Size
<1>3. PayloadOf(w) \in Seq(Nat) /\ Len(PayloadOf(w)) \in Nat
  BY <1>2, BytesAreNumbers
<1> DEFINE fields == <<SeqByte(w), Size(w)>>
<1>4. w[HeaderLength].crc = fields \o PayloadOf(w)
  BY DEF IsFrame, CrcMatches
<1>5. w[HeaderLength].crc # << >>
  <2>1. fields \in Seq(Nat) /\ Len(fields) = 2
    BY <1>2
  <2> HIDE DEF fields
  <2>2. Len(fields \o PayloadOf(w)) = Len(fields) + Len(PayloadOf(w))
    <3>1. Joined(fields, PayloadOf(w))
      BY <1>3, <2>1, JoinedFacts
    <3>2. QED
      BY <3>1 DEF Joined
  <2>3. Len(fields \o PayloadOf(w)) # 0
    BY <1>3, <2>1, <2>2
  <2>4. QED
    BY <1>4, <2>3
<1>6. PICK t \in Tag : /\ HeldOf(w, t, s, q, g)
                       /\ \A i \in x + 1 .. Len(T) : t.k <= T[i].k
  BY <1>1, <1>5 DEF Held
<1>7. /\ t.kind \in {"data", "control"} /\ w[HeaderLength] = t.f[HeaderLength]
      /\ Genuine(t, s, q, g) /\ Whole(t, s, q)
      /\ t.kind = "data" => w[1].val = t.f[1].val
  BY <1>6, GenuineWhole DEF HeldOf, Tag
<1>8. ASSUME NEW b \in Nat, NEW y \in Seq(Unit), NEW m, Shaped(t.f, m, b, y)
      PROVE  SeqByte(w) = b /\ PayloadOf(w) = Values(y)
  <2>0. PICK p : p = Values(y)
    OBVIOUS
  <2>01. p \in Seq(Byte) /\ Len(p) = Len(y)
    BY <2>0, ValuesFacts
  <2>1. t.f[HeaderLength].crc = <<b, Len(p)>> \o p
    <3> DEFINE c == <<b, Len(p)>> \o p
    <3>1. t.f[HeaderLength] = [val |-> CrcByte, crc |-> c]
      <4>1. t.f[HeaderLength] = [val |-> CrcByte, crc |-> <<b, Len(y)>> \o Values(y)]
        BY <1>8, Zenon DEF Shaped
      <4>2. QED
        BY <2>0, <2>01, <4>1, Zenon
    <3> HIDE DEF c
    <3>2. t.f[HeaderLength].crc = c
      BY <3>1
    <3>3. QED
      BY <3>2 DEF c
  <2>2. p \in Seq(Nat) /\ Len(p) \in Nat
    BY <2>01, BytesAreNumbers
  <2>3. <<SeqByte(w), Size(w)>> \o PayloadOf(w) = <<b, Len(p)>> \o p
    BY <1>4, <1>7, <2>1
  <2> DEFINE A == <<SeqByte(w), Size(w)>>  C == <<b, Len(p)>>
  <2>4. A \in Seq(Nat) /\ Len(A) = 2 /\ A[1] = SeqByte(w)
    BY <1>2
  <2>5. C \in Seq(Nat) /\ Len(C) = 2 /\ C[1] = b
    BY <2>2
  <2> DEFINE N == Nat
  <2> HIDE DEF A, C
  <2>6. A \o PayloadOf(w) = C \o p
    BY <2>3 DEF A, C
  <2>7. A[1] = C[1] /\ PayloadOf(w) = p
    <3>1. A \in Seq(N) /\ C \in Seq(N) /\ PayloadOf(w) \in Seq(N) /\ p \in Seq(N)
      BY <1>3, <2>2, <2>4, <2>5
    <3> HIDE DEF N
    <3>2. SameFields(A, C, PayloadOf(w), p)
      BY <2>4, <2>5, <3>1, CrcFields
    <3>3. QED
      BY <2>6, <3>2 DEF SameFields
  <2>8. QED
    BY <2>0, <2>4, <2>5, <2>7
<1>9. t.kind # "control"
  <2>1. SUFFICES ASSUME t.kind = "control"
                 PROVE  FALSE
    OBVIOUS
  <2>2. PICK type \in {FA_TYPE_ACK, FA_TYPE_NACK}, seq \in SeqNo :
            Shaped(t.f, FA_CTRL_MARKER, type * SeqMod + seq, << >>)
    BY <1>7, <2>1 DEF Whole
  <2>3. type * SeqMod + seq \in Nat /\ << >> \in Seq(Unit)
    BY SizeAssumption DEF FA_TYPE_ACK, FA_TYPE_NACK, SeqNo
  <2>4. SeqByte(w) = type * SeqMod + seq
    BY <1>8, <2>2, <2>3
  <2>5. TypeOf(w) = type
    BY <2>4, SeqByteFacts DEF TypeOf
  <2>6. QED
    BY <2>5 DEF IsControl, FA_TYPE_DATA, FA_TYPE_ACK, FA_TYPE_NACK
<1>10. /\ t.kind = "data" /\ t.k \in 1 .. Len(s) /\ g <= t.k
       /\ Shaped(t.f, FA_CTRL_MARKER + s[t.k].cmd, q[t.k], s[t.k].payload)
  BY <1>7, <1>9 DEF Whole, Genuine
<1>11. /\ s[t.k].cmd \in Nat /\ s[t.k].payload \in Seq(Unit) /\ q[t.k] \in SeqNo /\ q[t.k] \in Nat
  <2>1. \A n \in SeqNo : n \in Nat
    BY DEF SeqNo
  <2>2. QED
    BY <1>10, <2>1, DataUnits
<1>12. SeqByte(w) = q[t.k] /\ PayloadOf(w) = Values(s[t.k].payload)
  BY <1>8, <1>10, <1>11
<1>13. SeqOf(w) = q[t.k]
  <2>1. 0 * SeqMod + q[t.k] = q[t.k]
    BY <1>11, SizeAssumption
  <2>2. (0 * SeqMod + q[t.k]) % SeqMod = q[t.k]
    BY <1>11, SeqByteFacts DEF FA_TYPE_DATA
  <2>3. QED
    BY <1>12, <2>1, <2>2 DEF SeqOf
<1>14. w[1].val - FA_CTRL_MARKER = s[t.k].cmd
  <2>1. t.f[1] = Plain(FA_CTRL_MARKER + s[t.k].cmd)
    BY <1>10, ByteFacts DEF Shaped
  <2>2. w[1].val = FA_CTRL_MARKER + s[t.k].cmd
    BY <1>7, <1>10, <2>1 DEF Plain
  <2>3. QED
    BY <1>11, <2>2, ByteFacts
<1>15. QED
  BY <1>6, <1>10, <1>12, <1>13, <1>14 DEF Found

-----------------------------------------------------------------------------
(***************************************************************************)
(* The line and the reader together: l is the line, w what the reader has,  *)
(* s was put with the numbers q, g messages were delivered, and there were  *)
(* u faults.                                                               *)
(***************************************************************************)

Carried(l, w, s, q, g, u) ==
    \E T, x : OnLine(l, s, q, g, T, x) /\ Held(w, s, q, g, T, x) /\ Behind(w, T, x, u)

\* A frame, or a byte of text, is written.
LEMMA CarriedSent ==
    ASSUME NEW s \in Seq(Message), NEW q, NEW g \in Nat, g <= Len(s), NEW f, NEW kind,
           Sendable(f, kind, s, q), NEW l \in Seq(Unit), NEW w, NEW u \in Int,
           Carried(l, w, s, q, g, u)
    PROVE  Carried(l \o f, w, s, q, g, u)
<1>1. PICK T, x : OnLine(l, s, q, g, T, x) /\ Held(w, s, q, g, T, x) /\ Behind(w, T, x, u)
  BY DEF Carried
<1> DEFINE U == T \o Tags(f, kind, Len(s))
<1>2. OnLine(l \o f, s, q, g, U, x)
  BY <1>1, OnLineSent
<1>3. T \in Seq(Tag) /\ x \in 0 .. Len(T) /\ x <= u
  BY <1>1 DEF OnLine, Behind
<1>4. Held(w, s, q, g, U, x) /\ Behind(w, U, x, u)
  BY <1>1, <1>3, HeldSent
<1> HIDE DEF U
<1>5. QED
  BY <1>2, <1>4 DEF Carried

\* A message is put.
LEMMA CarriedGrows ==
    ASSUME NEW s \in Seq(Message), NEW q \in Seq(SeqNo), Len(q) = Len(s), NEW g \in Nat,
           NEW m, NEW z, NEW l, NEW w, NEW u, Carried(l, w, s, q, g, u)
    PROVE  Carried(l, w, Append(s, m), Append(q, z), g, u)
<1>1. PICK T, x : OnLine(l, s, q, g, T, x) /\ Held(w, s, q, g, T, x) /\ Behind(w, T, x, u)
  BY DEF Carried
<1>2. OnLine(l, Append(s, m), Append(q, z), g, T, x)
  BY <1>1, OnLineGrows
<1>3. Held(w, Append(s, m), Append(q, z), g, T, x)
  BY <1>1, HeldGrows
<1>4. QED
  BY <1>1, <1>2, <1>3 DEF Carried

\* The reader starts again.
LEMMA CarriedDropped ==
    ASSUME NEW l, NEW w, NEW s, NEW q, NEW g, NEW u, Carried(l, w, s, q, g, u)
    PROVE  Carried(l, << >>, s, q, g, u)
<1>1. PICK T, x : OnLine(l, s, q, g, T, x) /\ Held(w, s, q, g, T, x) /\ Behind(w, T, x, u)
  BY DEF Carried
<1>2. Behind(<< >>, T, x, u)
  BY <1>1 DEF Behind
<1>3. Held(<< >>, s, q, g, T, x)
  <2>1. Len(<< >>) = 0 /\ HeaderLength \in Nat /\ HeaderLength > 0
    BY ByteFacts
  <2>2. QED
    BY <2>1 DEF Held
<1>4. QED
  BY <1>1, <1>2, <1>3 DEF Carried

\* The line loses, alters or makes up a byte.
LEMMA CarriedFault ==
    ASSUME NEW s \in Seq(Message), NEW q \in Seq(SeqNo), Len(q) = Len(s), NEW g \in Nat,
           NEW l \in Seq(Unit), NEW w \in Seq(Unit), NEW u \in Int, u + 1 < Marks,
           Carried(l, w, s, q, g, u), NEW b \in Byte
    PROVE  /\ l # << >> => Carried(Tail(l), w, s, q, g, u + 1)
           /\ l # << >> => Carried([l EXCEPT ![1] = Plain(b)], w, s, q, g, u + 1)
           /\ Carried(<<Plain(b)>> \o l, w, s, q, g, u + 1)
<1>1. PICK T, x : OnLine(l, s, q, g, T, x) /\ Held(w, s, q, g, T, x) /\ Behind(w, T, x, u)
  BY DEF Carried
<1>2. ASSUME l # << >>
      PROVE  Carried(Tail(l), w, s, q, g, u + 1)
  <2>1. /\ OnLine(Tail(l), s, q, g, Tail(T), Less(x))
        /\ Held(w, s, q, g, Tail(T), Less(x))
        /\ Behind(w, Tail(T), Less(x), u + 1)
    BY <1>1, <1>2, LineLoses
  <2>2. QED
    BY <2>1 DEF Carried
<1>3. ASSUME l # << >>
      PROVE  Carried([l EXCEPT ![1] = Plain(b)], w, s, q, g, u + 1)
  <2> DEFINE y == IF x = 0 THEN 1 ELSE x
  <2>1. /\ OnLine([l EXCEPT ![1] = Plain(b)], s, q, g, T, y)
        /\ Held(w, s, q, g, T, y)
        /\ Behind(w, T, y, u + 1)
    BY <1>1, <1>3, LineAlters
  <2> HIDE DEF y
  <2>2. QED
    BY <2>1 DEF Carried
<1>4. Carried(<<Plain(b)>> \o l, w, s, q, g, u + 1)
  <2> DEFINE t == [kind |-> "text", k |-> 0, f |-> << >>, o |-> 0]
  <2>1. t \in Tag
    BY DEF Tag
  <2> HIDE DEF t
  <2>2. /\ OnLine(<<Plain(b)>> \o l, s, q, g, <<t>> \o T, x + 1)
        /\ Held(w, s, q, g, <<t>> \o T, x + 1)
        /\ Behind(w, <<t>> \o T, x + 1, u + 1)
    BY <1>1, <2>1, LineInvents
  <2>3. QED
    BY <2>2 DEF Carried
<1>5. QED
  BY <1>2, <1>3, <1>4

\* The reader takes a byte.
LEMMA CarriedRead ==
    ASSUME NoFrameInside, NEW s \in Seq(Message), NEW q \in Seq(SeqNo), Len(q) = Len(s), NEW g \in Nat,
           NEW l \in Seq(Unit), l # << >>, NEW w \in Seq(Unit), NEW u \in Int,
           Carried(l, w, s, q, g, u), NEW w2, Pumps(w, Head(l), w2)
    PROVE  Carried(Tail(l), w2, s, q, g, u)
<1>1. PICK T, x : OnLine(l, s, q, g, T, x) /\ Held(w, s, q, g, T, x) /\ Behind(w, T, x, u)
  BY DEF Carried
<1>2. OnLine(Tail(l), s, q, g, Tail(T), Less(x))
  BY <1>1, OnLineTail
<1>3. Held(w2, s, q, g, Tail(T), Less(x))
  BY <1>1, HeldPumped
<1>4. Behind(w2, Tail(T), Less(x), u)
  BY <1>1, BehindPumped
<1>5. QED
  BY <1>2, <1>3, <1>4 DEF Carried

\* A DATA frame is found: it is of a message that was put and that is not older
\* than the last one delivered, and nothing older than it is left on the line.
LEMMA CarriedData ==
    ASSUME NEW s \in Seq(Message), NEW q \in Seq(SeqNo), Len(q) = Len(s), NEW g \in Nat,
           NEW l \in Seq(Unit), NEW w \in Seq(Unit), NEW u \in Int,
           Carried(l, w, s, q, g, u), IsFrame(w), ~IsControl(w)
    PROVE  \E k \in 1 .. Len(s) :
              /\ g <= k /\ SeqOf(w) = q[k]
              /\ w[1].val - FA_CTRL_MARKER = s[k].cmd /\ PayloadOf(w) = Values(s[k].payload)
              /\ Carried(l, << >>, s, q, k, u)
<1>1. PICK T, x : OnLine(l, s, q, g, T, x) /\ Held(w, s, q, g, T, x) /\ Behind(w, T, x, u)
  BY DEF Carried
<1>0. PICK k \in 1 .. Len(s) : Found(w, s, q, g, T, x, k)
  BY <1>1, FrameRead
<1>2. /\ g <= k /\ SeqOf(w) = q[k]
      /\ w[1].val - FA_CTRL_MARKER = s[k].cmd /\ PayloadOf(w) = Values(s[k].payload)
      /\ \A i \in x + 1 .. Len(T) : k <= T[i].k
  BY <1>0 DEF Found
<1>3. OnLine(l, s, q, k, T, x)
  <2>1. ASSUME NEW i \in x + 1 .. Len(l)
        PROVE  Genuine(T[i], s, q, k)
    <3>1. Genuine(T[i], s, q, g) /\ k <= T[i].k
      BY <1>1, <1>2 DEF OnLine
    <3>2. QED
      BY <3>1 DEF Genuine
  <2>2. QED
    BY <1>1, <2>1 DEF OnLine
<1>4. Held(<< >>, s, q, k, T, x) /\ Behind(<< >>, T, x, u)
  <2>1. Len(<< >>) = 0 /\ HeaderLength \in Nat /\ HeaderLength > 0
    BY ByteFacts
  <2>2. QED
    BY <1>1, <2>1 DEF Held, Behind
<1>5. Carried(l, << >>, s, q, k, u)
  BY <1>3, <1>4 DEF Carried
<1>6. QED
  BY <1>2, <1>5

-----------------------------------------------------------------------------
(***************************************************************************)
(* The two ends.  s was put with the numbers q, and r was delivered; the    *)
(* sender has tx, aw and rt, the receiver e, and the answers are bk.        *)
(***************************************************************************)

\* Messages are numbered from 0 on, and each end is at its own place.
Numbers(s, q, g, tx, e) ==
    /\ q \in Seq(SeqNo) /\ Len(q) = Len(s)
    /\ Len(q) >= 1 => q[1] = 0
    /\ \A k \in 1 .. Len(q) - 1 : q[k + 1] = Succ(q[k])
    /\ tx = IF Len(q) = 0 THEN SeqMod - 1 ELSE q[Len(q)]
    /\ e = IF g = 0 THEN 0 ELSE Succ(q[g])

\* At most the last message is not delivered, and then it is not confirmed.
Ends(s, r, q, aw, rt) ==
    /\ Len(r) <= Len(s) /\ Len(s) <= Len(r) + 1
    /\ \A i \in 1 .. Len(r) : r[i] = Shown(s[i])
    /\ ~aw => Len(s) = Len(r)
    /\ aw => Len(s) >= 1 /\ rt = DataFrame(s, q, Len(s))

\* An ACK is for the last message, which is delivered; or for the one before it,
\* sent before any for the last one, and the sender is waiting.
Acks(bk, q, g, aw) ==
    /\ \A i \in 1 .. Len(bk) : bk[i].type = FA_TYPE_ACK =>
          /\ Len(q) >= 1
          /\ \/ bk[i].seq = q[Len(q)] /\ g = Len(q)
             \/ aw /\ Len(q) >= 2 /\ bk[i].seq = q[Len(q) - 1]
    /\ \A i, j \in 1 .. Len(bk) :
          (/\ i < j /\ bk[i].type = FA_TYPE_ACK /\ bk[j].type = FA_TYPE_ACK
           /\ bk[i].seq = q[Len(q)])
          => bk[j].seq = q[Len(q)]

\* With two numbers or more, the next number is another one.
LEMMA SuccFacts ==
    ASSUME NEW z \in SeqNo
    PROVE  Succ(z) \in SeqNo /\ Succ(z) # z /\ Succ(SeqMod - 1) = 0 /\ 0 \in SeqNo
<1>1. z \in Int /\ 0 <= z /\ z <= SeqMod - 1 /\ SeqMod \in Nat /\ SeqMod >= 2
  BY SizeAssumption DEF SeqNo
<1>2. Succ(z) = IF z = SeqMod - 1 THEN 0 ELSE z + 1
  BY <1>1 DEF Succ
<1>3. Succ(SeqMod - 1) = 0
  BY <1>1 DEF Succ
<1>4. QED
  BY <1>1, <1>2, <1>3 DEF SeqNo

\* The message put next has the next number.
LEMMA NumbersPut ==
    ASSUME NEW s \in Seq(Message), NEW q, NEW g \in 0 .. Len(s), NEW tx, NEW e,
           Numbers(s, q, g, tx, e), NEW m \in Message
    PROVE  /\ Numbers(Append(s, m), Append(q, Succ(tx)), g, Succ(tx), e)
           /\ Succ(tx) \in SeqNo
<1>1. /\ q \in Seq(SeqNo) /\ Len(q) = Len(s) /\ Len(s) \in Nat
  BY DEF Numbers
<1>2. SeqMod - 1 \in SeqNo
  BY SeqNoFacts
<1>3. tx \in SeqNo
  <2>1. CASE Len(q) = 0
    BY <1>2, <2>1 DEF Numbers
  <2>2. CASE Len(q) # 0
    <3>1. Len(q) \in 1 .. Len(q)
      BY <1>1, <2>2
    <3>2. q[Len(q)] \in SeqNo
      BY <1>1, <3>1
    <3>3. QED
      BY <2>2, <3>2 DEF Numbers
  <2>3. QED
    BY <2>1, <2>2
<1>4. Succ(tx) \in SeqNo
  BY <1>3, SuccFacts
<1> DEFINE p == Append(q, Succ(tx))  t == Append(s, m)
<1>5. /\ p \in Seq(SeqNo) /\ Len(p) = Len(s) + 1 /\ Len(t) = Len(s) + 1
      /\ p[Len(s) + 1] = Succ(tx)
      /\ \A k \in 1 .. Len(s) : p[k] = q[k]
  BY <1>1, <1>4
<1> HIDE DEF p, t
<1>6. p[1] = 0
  <2>1. CASE Len(s) = 0
    <3>1. Succ(tx) = 0
      BY <1>1, <1>2, <2>1, SuccFacts DEF Numbers
    <3>2. QED
      BY <1>5, <2>1, <3>1
  <2>2. CASE Len(s) # 0
    <3>1. 1 \in 1 .. Len(s)
      BY <1>1, <2>2
    <3>2. QED
      BY <1>1, <1>5, <3>1 DEF Numbers
  <2>3. QED
    BY <2>1, <2>2
<1>7. ASSUME NEW k \in 1 .. Len(p) - 1
      PROVE  p[k + 1] = Succ(p[k])
  <2>1. CASE k = Len(s)
    <3>1. p[k] = q[k] /\ p[k + 1] = Succ(tx) /\ tx = q[Len(q)]
      BY <1>1, <1>5, <2>1 DEF Numbers
    <3>2. QED
      BY <1>1, <2>1, <3>1
  <2>2. CASE k # Len(s)
    <3>1. k \in 1 .. Len(s) /\ k + 1 \in 1 .. Len(s) /\ k \in 1 .. Len(q) - 1
      BY <1>1, <1>5, <2>2
    <3>2. q[k + 1] = Succ(q[k])
      BY <3>1 DEF Numbers
    <3>3. QED
      BY <1>5, <3>1, <3>2
  <2>3. QED
    BY <2>1, <2>2
<1>8. e = IF g = 0 THEN 0 ELSE Succ(p[g])
  <2>1. g # 0 => p[g] = q[g]
    BY <1>1, <1>5
  <2>2. QED
    BY <2>1 DEF Numbers
<1>9. Numbers(t, p, g, Succ(tx), e)
  BY <1>1, <1>5, <1>6, <1>7, <1>8 DEF Numbers
<1>10. QED
  BY <1>4, <1>9 DEF p, t

\* Two neighbours differ.
LEMMA NumbersDiffer ==
    ASSUME NEW s, NEW q, NEW g, NEW tx, NEW e, Numbers(s, q, g, tx, e),
           NEW k \in 1 .. Len(q) - 1
    PROVE  q[k + 1] # q[k] /\ q[k + 1] = Succ(q[k]) /\ q[k] \in SeqNo
<1>1. q \in Seq(SeqNo) /\ q[k + 1] = Succ(q[k]) /\ k \in 1 .. Len(q)
  BY DEF Numbers
<1>2. q[k] \in SeqNo
  BY <1>1
<1>3. QED
  BY <1>1, <1>2, SuccFacts

\* A message is put: no answer on its way is for its number.
LEMMA AcksPut ==
    ASSUME NEW q \in Seq(SeqNo), NEW g, g = Len(q), NEW bk, Acks(bk, q, g, FALSE),
           NEW z \in SeqNo, Len(q) >= 1 => z # q[Len(q)]
    PROVE  Acks(bk, Append(q, z), g, TRUE)
<1> DEFINE p == Append(q, z)
<1>1. /\ Len(q) \in Nat /\ Len(p) = Len(q) + 1 /\ p[Len(p)] = z
      /\ Len(q) >= 1 => p[Len(q)] = q[Len(q)]
  OBVIOUS
<1> HIDE DEF p
<1>2. ASSUME NEW i \in 1 .. Len(bk), bk[i].type = FA_TYPE_ACK
      PROVE  Len(q) >= 1 /\ bk[i].seq = q[Len(q)]
  BY <1>2 DEF Acks
<1>3. ASSUME NEW i \in 1 .. Len(bk), bk[i].type = FA_TYPE_ACK
      PROVE  Len(p) >= 2 /\ bk[i].seq = p[Len(p) - 1] /\ bk[i].seq # p[Len(p)]
  <2>1. Len(p) - 1 = Len(q) /\ Len(q) >= 1 /\ bk[i].seq = q[Len(q)]
    BY <1>1, <1>2, <1>3
  <2>2. QED
    BY <1>1, <2>1
<1>4. Acks(bk, p, g, TRUE)
  <2>1. Len(p) >= 2 => Len(p) >= 1
    BY <1>1
  <2>2. QED
    BY <1>3, <2>1 DEF Acks
<1>5. QED
  BY <1>4 DEF p

\* An answer is read.
LEMMA AcksTail ==
    ASSUME NEW A, NEW bk \in Seq(A), bk # << >>, NEW q, NEW g, NEW aw, Acks(bk, q, g, aw)
    PROVE  Acks(Tail(bk), q, g, aw)
<1> DEFINE c == Tail(bk)
<1>1. /\ Len(bk) \in Nat /\ Len(c) = Len(bk) - 1
      /\ \A i \in 1 .. Len(c) : c[i] = bk[i + 1] /\ i + 1 \in 1 .. Len(bk)
  OBVIOUS
<1> HIDE DEF c
<1>2. ASSUME NEW i \in 1 .. Len(c), c[i].type = FA_TYPE_ACK
      PROVE  /\ Len(q) >= 1
             /\ \/ c[i].seq = q[Len(q)] /\ g = Len(q)
                \/ aw /\ Len(q) >= 2 /\ c[i].seq = q[Len(q) - 1]
  BY <1>1, <1>2 DEF Acks
<1>3. ASSUME NEW i \in 1 .. Len(c), NEW j \in 1 .. Len(c),
             i < j, c[i].type = FA_TYPE_ACK, c[j].type = FA_TYPE_ACK, c[i].seq = q[Len(q)]
      PROVE  c[j].seq = q[Len(q)]
  <2>1. /\ i + 1 \in 1 .. Len(bk) /\ j + 1 \in 1 .. Len(bk)
        /\ c[i] = bk[i + 1] /\ c[j] = bk[j + 1]
    BY <1>1
  <2>2. i + 1 < j + 1
    <3>1. i \in Int /\ j \in Int /\ i < j
      BY <1>3
    <3>2. QED
      BY <3>1
  <2>3. QED
    BY <1>3, <2>1, <2>2 DEF Acks
<1>4. Acks(c, q, g, aw)
  BY <1>2, <1>3 DEF Acks
<1>5. QED
  BY <1>4 DEF c

\* It is the one that the sender waits for: the last message has arrived, and what
\* is left are repetitions of it.
LEMMA AcksConfirm ==
    ASSUME NEW A, NEW bk \in Seq(A), bk # << >>, NEW g, NEW s, NEW q, NEW tx, NEW e,
           Numbers(s, q, g, tx, e), Acks(bk, q, g, TRUE),
           Head(bk).type = FA_TYPE_ACK, Head(bk).seq = tx
    PROVE  g = Len(q) /\ Acks(Tail(bk), q, g, FALSE)
<1> DEFINE c == Tail(bk)
<1>1. /\ Len(bk) \in Nat /\ Len(c) = Len(bk) - 1 /\ Head(bk) = bk[1] /\ 1 \in 1 .. Len(bk)
      /\ \A i \in 1 .. Len(c) : c[i] = bk[i + 1] /\ i + 1 \in 1 .. Len(bk) /\ 1 < i + 1
  OBVIOUS
<1> HIDE DEF c
<1>2. Len(q) >= 1 /\ Len(q) \in Nat
  BY <1>1 DEF Acks, Numbers
<1>3. bk[1].seq = q[Len(q)]
  BY <1>1, <1>2 DEF Numbers
<1>4. ASSUME Len(q) >= 2
      PROVE  q[Len(q) - 1] # q[Len(q)]
  <2>1. Len(q) - 1 \in 1 .. Len(q) - 1 /\ (Len(q) - 1) + 1 = Len(q)
    BY <1>2, <1>4
  <2>2. q[(Len(q) - 1) + 1] # q[Len(q) - 1]
    BY <2>1, NumbersDiffer
  <2>3. QED
    BY <2>1, <2>2
<1>5. g = Len(q)
  BY <1>1, <1>3, <1>4 DEF Acks
<1>6. ASSUME NEW i \in 1 .. Len(c), c[i].type = FA_TYPE_ACK
      PROVE  c[i].seq = q[Len(q)]
  BY <1>1, <1>3, <1>6 DEF Acks
<1>7. Acks(c, q, g, FALSE)
  BY <1>2, <1>5, <1>6 DEF Acks
<1>8. QED
  BY <1>5, <1>7 DEF c

\* An answer is sent: a NACK, or an ACK of the last message delivered.
LEMMA AcksSent ==
    ASSUME NEW A, NEW bk \in Seq(A), NEW a \in A, NEW g \in Nat, NEW s, NEW q, NEW tx, NEW e,
           Numbers(s, q, g, tx, e), NEW aw, Acks(bk, q, g, aw),
           g <= Len(q), Len(q) <= g + 1, ~aw => g = Len(q),
           a.type = FA_TYPE_ACK => g >= 1 /\ a.seq = q[g]
    PROVE  Acks(Append(bk, a), q, g, aw)
<1> DEFINE c == Append(bk, a)
<1>1. /\ Len(bk) \in Nat /\ Len(c) = Len(bk) + 1 /\ c[Len(bk) + 1] = a
      /\ \A i \in 1 .. Len(bk) : c[i] = bk[i]
  OBVIOUS
<1> HIDE DEF c
<1>2. Len(q) \in Nat
  BY DEF Numbers
<1>3. ASSUME NEW i \in 1 .. Len(c), c[i].type = FA_TYPE_ACK
      PROVE  /\ Len(q) >= 1
             /\ \/ c[i].seq = q[Len(q)] /\ g = Len(q)
                \/ aw /\ Len(q) >= 2 /\ c[i].seq = q[Len(q) - 1]
  <2>1. CASE i \in 1 .. Len(bk)
    <3>1. c[i] = bk[i] /\ bk[i].type = FA_TYPE_ACK
      BY <1>1, <1>3, <2>1
    <3>2. QED
      BY <2>1, <3>1 DEF Acks
  <2>2. CASE i = Len(bk) + 1
    <3>1. g >= 1 /\ c[i].seq = q[g]
      BY <1>1, <1>3, <2>2
    <3>2. CASE g = Len(q)
      BY <3>1, <3>2
    <3>3. CASE g # Len(q)
      <4> DEFINE n == Len(q)
      <4>1. n \in Nat /\ g >= 1 /\ g <= n /\ n <= g + 1 /\ g # n /\ aw
        BY <1>2, <3>1, <3>3
      <4> HIDE DEF n
      <4>2. g \in Nat /\ n <= g + 1 /\ g + 1 <= n
        BY <4>1
      <4>3. g = n - 1 /\ n >= 2
        BY <3>1, <4>1, <4>2
      <4>4. QED
        BY <3>1, <4>1, <4>3 DEF n
    <3>4. QED
      BY <3>2, <3>3
  <2>3. QED
    BY <1>1, <2>1, <2>2
<1>4. ASSUME g # Len(q), Len(q) >= 2
      PROVE  q[Len(q)] # q[Len(q) - 1]
  <2>1. Len(q) - 1 \in 1 .. Len(q) - 1 /\ (Len(q) - 1) + 1 = Len(q)
    BY <1>2, <1>4
  <2>2. q[(Len(q) - 1) + 1] # q[Len(q) - 1]
    BY <2>1, NumbersDiffer
  <2>3. QED
    BY <2>1, <2>2
<1>5. ASSUME NEW i \in 1 .. Len(c), NEW j \in 1 .. Len(c),
             i < j, c[i].type = FA_TYPE_ACK, c[j].type = FA_TYPE_ACK, c[i].seq = q[Len(q)]
      PROVE  c[j].seq = q[Len(q)]
  <2>1. i \in 1 .. Len(bk) /\ c[i] = bk[i]
    BY <1>1, <1>5
  <2>2. CASE j \in 1 .. Len(bk)
    BY <1>1, <1>5, <2>1, <2>2 DEF Acks
  <2>3. CASE j = Len(bk) + 1
    <3>1. g = Len(q)
      BY <1>3, <1>4, <1>5
    <3>2. QED
      BY <1>1, <1>5, <2>3, <3>1
  <2>4. QED
    BY <1>1, <2>2, <2>3
<1>6. Acks(c, q, g, aw)
  BY <1>3, <1>5 DEF Acks
<1>7. QED
  BY <1>6 DEF c

\* The last message is delivered, and acknowledged.
LEMMA AcksDelivered ==
    ASSUME NEW A, NEW bk \in Seq(A), NEW a \in A, NEW g \in Nat, NEW s, NEW q, NEW tx, NEW e,
           Numbers(s, q, g, tx, e), NEW aw, Acks(bk, q, g, aw), g + 1 = Len(q),
           a.seq = q[Len(q)]
    PROVE  Acks(Append(bk, a), q, g + 1, aw)
<1> DEFINE c == Append(bk, a)
<1>1. /\ Len(bk) \in Nat /\ Len(c) = Len(bk) + 1 /\ c[Len(bk) + 1] = a
      /\ \A i \in 1 .. Len(bk) : c[i] = bk[i]
  OBVIOUS
<1> HIDE DEF c
<1>2. Len(q) \in Nat /\ Len(q) >= 1 /\ g # Len(q)
  BY DEF Numbers
<1>3. ASSUME NEW i \in 1 .. Len(bk), bk[i].type = FA_TYPE_ACK
      PROVE  aw /\ Len(q) >= 2 /\ bk[i].seq = q[Len(q) - 1] /\ bk[i].seq # q[Len(q)]
  <2>1. aw /\ Len(q) >= 2 /\ bk[i].seq = q[Len(q) - 1]
    BY <1>2, <1>3 DEF Acks
  <2>2. Len(q) - 1 \in 1 .. Len(q) - 1 /\ (Len(q) - 1) + 1 = Len(q)
    BY <1>2, <2>1
  <2>3. q[(Len(q) - 1) + 1] # q[Len(q) - 1]
    BY <2>2, NumbersDiffer
  <2>4. QED
    BY <2>1, <2>2, <2>3
<1>4. ASSUME NEW i \in 1 .. Len(c), c[i].type = FA_TYPE_ACK
      PROVE  /\ Len(q) >= 1
             /\ \/ c[i].seq = q[Len(q)] /\ g + 1 = Len(q)
                \/ aw /\ Len(q) >= 2 /\ c[i].seq = q[Len(q) - 1]
  <2>1. CASE i \in 1 .. Len(bk)
    BY <1>1, <1>2, <1>3, <1>4, <2>1
  <2>2. CASE i = Len(bk) + 1
    BY <1>1, <1>2, <2>2
  <2>3. QED
    BY <1>1, <2>1, <2>2
<1>5. ASSUME NEW i \in 1 .. Len(c), NEW j \in 1 .. Len(c),
             i < j, c[i].type = FA_TYPE_ACK, c[j].type = FA_TYPE_ACK, c[i].seq = q[Len(q)]
      PROVE  c[j].seq = q[Len(q)]
  <2>1. i \in 1 .. Len(bk) /\ c[i] = bk[i]
    BY <1>1, <1>5
  <2>2. QED
    BY <1>3, <1>5, <2>1
<1>6. Acks(c, q, g + 1, aw)
  BY <1>4, <1>5 DEF Acks
<1>7. QED
  BY <1>6 DEF c

-----------------------------------------------------------------------------
(***************************************************************************)
(* The link implements ReliableLink.                                       *)
(***************************************************************************)

\* The faults that there were.
Faults == MaxFaults - budget.faults
LinkAt(q) ==
    /\ Numbers(sent, q, Len(got), tx_seq, expected_rx_seq)
    /\ Ends(sent, got, q, awaiting_ack, retain)
    /\ Acks(back, q, Len(got), awaiting_ack)
    /\ Carried(line, read_buffer, sent, q, Len(got), Faults)
LinkInv == TypeOK /\ \E q : LinkAt(q)

\* The messages as the two programs see them.
Seen(s) == [i \in DOMAIN s |-> Shown(s[i])]

LEMMA SeenFacts ==
    ASSUME NEW s \in Seq(Message)
    PROVE  /\ Len(Seen(s)) = Len(s) /\ Seen(s) \in Seq({Shown(m) : m \in Message})
           /\ \A i \in 1 .. Len(s) : Seen(s)[i] = Shown(s[i])
           /\ \A m \in Message : Seen(Append(s, m)) = Append(Seen(s), Shown(m))
<1> DEFINE S == {Shown(m) : m \in Message}
<1>1. DOMAIN s = 1 .. Len(s) /\ Len(s) \in Nat /\ \A i \in 1 .. Len(s) : s[i] \in Message
  OBVIOUS
<1>2. /\ Seen(s) = [i \in 1 .. Len(s) |-> Shown(s[i])]
      /\ \A i \in 1 .. Len(s) : Shown(s[i]) \in S
  BY <1>1 DEF Seen
<1>3. Len(Seen(s)) = Len(s) /\ Seen(s) \in Seq(S)
  BY <1>1, <1>2
<1>4. ASSUME NEW m \in Message
      PROVE  Seen(Append(s, m)) = Append(Seen(s), Shown(m))
  <2> DEFINE t == Append(s, m)  n == Len(s) + 1
  <2>1. /\ DOMAIN t = 1 .. n /\ t[n] = m /\ \A i \in 1 .. Len(s) : t[i] = s[i]
    BY <1>1
  <2>2. Seen(t) = [i \in 1 .. n |-> Shown(t[i])]
    BY <2>1, Zenon DEF Seen
  <2>3. /\ Append(Seen(s), Shown(m)) \in Seq(S) /\ Len(Append(Seen(s), Shown(m))) = n
        /\ Append(Seen(s), Shown(m))[n] = Shown(m)
        /\ \A i \in 1 .. Len(s) : Append(Seen(s), Shown(m))[i] = Seen(s)[i]
    <3>1. Shown(m) \in S
      OBVIOUS
    <3> HIDE DEF S
    <3>2. QED
      BY <1>1, <1>3, <3>1
  <2>4. \A i \in 1 .. n : Append(Seen(s), Shown(m))[i] = Shown(t[i])
    <3>1. ASSUME NEW i \in 1 .. n
          PROVE  Append(Seen(s), Shown(m))[i] = Shown(t[i])
      <4>1. i = n \/ i \in 1 .. Len(s)
        BY <1>1
      <4>2. CASE i = n
        BY <2>1, <2>3, <4>2
      <4>3. CASE i \in 1 .. Len(s)
        BY <1>2, <2>1, <2>3, <4>3
      <4>4. QED
        BY <4>1, <4>2, <4>3
    <3>2. QED
      BY <3>1
  <2>5. Append(Seen(s), Shown(m)) = [i \in 1 .. n |-> Append(Seen(s), Shown(m))[i]]
    <3> DEFINE a == Append(Seen(s), Shown(m))
    <3>1. a \in Seq(S) /\ Len(a) = n
      BY <2>3
    <3> HIDE DEF a, S, n
    <3>2. a = [i \in 1 .. n |-> a[i]]
      BY <3>1
    <3>3. QED
      BY <3>2 DEF a
  <2>6. QED
    BY <2>2, <2>4, <2>5
<1>5. QED
  BY <1>2, <1>3, <1>4

\* The types that the steps need.
LEMMA LinkTypes ==
    ASSUME TypeOK, NEW q, LinkAt(q)
    PROVE  /\ sent \in Seq(Message) /\ q \in Seq(SeqNo) /\ Len(q) = Len(sent)
           /\ Len(got) \in Nat /\ Len(got) \in 0 .. Len(sent) /\ Len(sent) \in Nat
           /\ Len(sent) <= Len(got) + 1
           /\ line \in Seq(Unit) /\ read_buffer \in Seq(Unit) /\ retain \in Seq(Unit)
           /\ Faults \in Int
<1>1. /\ sent \in Seq(Message) /\ Len(got) \in Nat /\ Len(sent) \in Nat
      /\ line \in Seq(Unit) /\ read_buffer \in Seq(Unit) /\ retain \in Seq(Unit)
  BY DEF TypeOK
<1>2. q \in Seq(SeqNo) /\ Len(q) = Len(sent) /\ Len(got) <= Len(sent)
      /\ Len(sent) <= Len(got) + 1
  BY DEF LinkAt, Numbers, Ends
<1>3. Faults \in Int
  BY BoundAssumption, SMTT(30) DEF TypeOK, Faults
<1>4. QED
  BY <1>1, <1>2, <1>3

\* A DATA frame is not empty.
LEMMA DataNotEmpty ==
    ASSUME NEW s \in Seq(Message), NEW q \in Seq(SeqNo), Len(q) = Len(s), NEW k \in 1 .. Len(s)
    PROVE  DataFrame(s, q, k) # << >> /\ DataFrame(s, q, k) \in Seq(Unit)
<1> DEFINE f == DataFrame(s, q, k)  n == Len(s[k].payload)  d == Len(f)
<1>1. /\ Shaped(f, FA_CTRL_MARKER + s[k].cmd, q[k], s[k].payload)
      /\ s[k].payload \in Seq(Unit)
  BY DataUnits
<1>2. f \in Seq(Unit) /\ d = HeaderLength + n
  BY <1>1 DEF Shaped
<1>3. n \in Nat
  BY <1>1
<1>4. HeaderLength \in Nat /\ HeaderLength >= 1
  BY ByteFacts
<1> HIDE DEF n, d
<1>5. d # 0
  BY <1>2, <1>3, <1>4
<1> HIDE DEF f
<1>6. f # << >>
  BY <1>5 DEF d
<1>7. QED
  BY <1>2, <1>6 DEF f

\* The frame that is retained may be sent,
LEMMA RetainSendable ==
    ASSUME TypeOK, NEW q, LinkAt(q), awaiting_ack
    PROVE  Sendable(retain, "data", sent, q)
<1>1. retain \in Seq(Unit) /\ Len(sent) >= 1 /\ retain = DataFrame(sent, q, Len(sent))
  BY DEF LinkAt, Ends, TypeOK
<1>2. retain # << >>
  <2>1. /\ sent \in Seq(Message) /\ q \in Seq(SeqNo) /\ Len(q) = Len(sent)
        /\ Len(sent) \in 1 .. Len(sent)
    BY <1>1, LinkTypes
  <2>2. QED
    BY <1>1, <2>1, DataNotEmpty
<1>3. QED
  BY <1>1, <1>2 DEF Sendable

\* and so may a control frame and a byte of text.
LEMMA ControlSendable ==
    ASSUME NEW s, NEW q, NEW type \in {FA_TYPE_ACK, FA_TYPE_NACK}, NEW seq \in SeqNo
    PROVE  Sendable(Bytes(0, type, seq, << >>), "control", s, q)
<1> DEFINE f == Bytes(0, type, seq, << >>)
<1>1. ControlFrame(f)
  BY DEF ControlFrame
<1> HIDE DEF f
<1>2. PICK ty \in {FA_TYPE_ACK, FA_TYPE_NACK}, sq \in SeqNo :
          Shaped(f, FA_CTRL_MARKER, ty * SeqMod + sq, << >>)
  BY <1>1, ControlUnits
<1>3. f \in Seq(Unit) /\ Len(f) = HeaderLength + Len(<< >>)
  BY <1>2 DEF Shaped
<1>4. Len(<< >>) = 0 /\ HeaderLength \in Nat /\ HeaderLength >= 1
  BY ByteFacts
<1>5. f # << >>
  BY <1>3, <1>4
<1>6. Sendable(f, "control", s, q)
  BY <1>1, <1>3, <1>5 DEF Sendable
<1>7. QED
  BY <1>6 DEF f

\* and a byte of text.
LEMMA TextSendable ==
    ASSUME NEW s, NEW q, NEW v \in Byte, v < FA_CTRL_MARKER
    PROVE  Sendable(<<Plain(v)>>, "text", s, q)
<1> DEFINE f == <<Plain(v)>>
<1>1. f \in Seq(Unit) /\ f # << >>
  <2>1. Plain(v) \in Unit
    BY ByteFacts
  <2>2. QED
    BY <2>1
<1>2. TextByte(f)
  BY DEF TextByte
<1> HIDE DEF f
<1>3. Sendable(f, "text", s, q)
  BY <1>1, <1>2 DEF Sendable
<1>4. QED
  BY <1>3 DEF f

\* A message is put.
LEMMA PutLink ==
    ASSUME TypeOK, NEW q, LinkAt(q), NEW m \in Message, Put(m)
    PROVE  (\E p : LinkAt(p)') /\ Link!Next
<1>0. PICK z, p, s : z = Succ(tx_seq) /\ p = Append(q, z) /\ s = Append(sent, m)
  OBVIOUS
<1>1. /\ sent \in Seq(Message) /\ q \in Seq(SeqNo) /\ Len(q) = Len(sent)
      /\ Len(got) \in Nat /\ Len(got) \in 0 .. Len(sent) /\ Len(sent) \in Nat
      /\ line \in Seq(Unit) /\ Faults \in Int
  BY LinkTypes
<1>2. /\ ~awaiting_ack /\ awaiting_ack' = TRUE /\ sent' = s /\ tx_seq' = z
      /\ retain' = Bytes(m.cmd, FA_TYPE_DATA, z, m.payload) /\ line' = line \o retain'
      /\ UNCHANGED <<expected_rx_seq, read_buffer, back, got>> /\ Faults' = Faults
  BY <1>0 DEF Put, Faults
<1>3. Len(got) = Len(sent)
  BY <1>2 DEF LinkAt, Ends
<1>4. Numbers(s, p, Len(got), z, expected_rx_seq) /\ z \in SeqNo
  BY <1>0, <1>1, NumbersPut DEF LinkAt
<1>5. Len(q) >= 1 => z # q[Len(q)]
  <2>1. ASSUME Len(q) >= 1
        PROVE  z # q[Len(q)]
    <3>1. tx_seq = q[Len(q)] /\ q[Len(q)] \in SeqNo
      <4>1. Len(q) \in 1 .. Len(q) /\ Len(q) # 0
        BY <1>1, <2>1
      <4>2. QED
        BY <1>1, <4>1 DEF LinkAt, Numbers
    <3>2. QED
      BY <1>0, <3>1, SuccFacts
  <2>2. QED
    BY <2>1
<1>6. Acks(back, p, Len(got), TRUE)
  <2>1. Acks(back, q, Len(got), FALSE)
    <3>1. awaiting_ack = FALSE
      BY <1>2 DEF TypeOK
    <3>2. Acks(back, q, Len(got), awaiting_ack)
      BY DEF LinkAt
    <3>3. QED
      BY <3>1, <3>2
  <2>2. QED
    BY <1>0, <1>1, <1>3, <1>4, <1>5, <2>1, AcksPut
<1>7. /\ s \in Seq(Message) /\ Len(s) = Len(sent) + 1 /\ s[Len(s)] = m
      /\ \A i \in 1 .. Len(sent) : s[i] = sent[i]
      /\ p \in Seq(SeqNo) /\ Len(p) = Len(s) /\ p[Len(s)] = z
  BY <1>0, <1>1, <1>4
<1>8. retain' = DataFrame(s, p, Len(s))
  BY <1>2, <1>7 DEF DataFrame
<1>9. Ends(s, got, p, TRUE, retain')
  <2>1. \A i \in 1 .. Len(got) : got[i] = Shown(s[i])
    BY <1>3, <1>7 DEF LinkAt, Ends
  <2>2. Len(got) <= Len(s) /\ Len(s) <= Len(got) + 1 /\ Len(s) >= 1
    BY <1>1, <1>3, <1>7
  <2>3. QED
    BY <1>8, <2>1, <2>2 DEF Ends
<1>10. Sendable(retain', "data", s, p)
  <2>1. Len(s) \in 1 .. Len(s) /\ Len(s) >= 1
    BY <1>1, <1>7
  <2>2. retain' # << >> /\ retain' \in Seq(Unit)
    BY <1>7, <1>8, <2>1, DataNotEmpty
  <2>3. QED
    BY <1>8, <2>1, <2>2 DEF Sendable
<1>11. Carried(line, read_buffer, s, p, Len(got), Faults)
  BY <1>0, <1>1, CarriedGrows DEF LinkAt
<1>12. Carried(line \o retain', read_buffer, s, p, Len(got), Faults)
  <2>1. Len(got) <= Len(s)
    BY <1>1, <1>7
  <2>2. QED
    BY <1>1, <1>7, <1>10, <1>11, <2>1, CarriedSent
<1>13. LinkAt(p)'
  <2>1. Numbers(sent, p, Len(got), tx_seq, expected_rx_seq)'
    BY <1>2, <1>4
  <2>2. Ends(sent, got, p, awaiting_ack, retain)'
    BY <1>2, <1>9
  <2>3. Acks(back, p, Len(got), awaiting_ack)'
    BY <1>2, <1>6
  <2>4. Carried(line, read_buffer, sent, p, Len(got), Faults)'
    BY <1>2, <1>12
  <2>5. QED
    BY <2>1, <2>2, <2>3, <2>4 DEF LinkAt
<1>14. Link!Accept
  <2>1. Shown(m) \in {Shown(n) : n \in Message}
    OBVIOUS
  <2>2. Seen(sent') = Append(Seen(sent), Shown(m))
    BY <1>0, <1>1, <1>2, SeenFacts
  <2>3. QED
    BY <1>2, <2>1, <2>2 DEF Link!Accept, Seen
<1>15. QED
  BY <1>13, <1>14 DEF Link!Next

\* What a step of the sender writes leaves all else as it was.
LEMMA WriteLink ==
    ASSUME TypeOK, NEW q, LinkAt(q), NEW f, NEW kind, Sendable(f, kind, sent, q),
           line' = line \o f, UNCHANGED <<sender, expected_rx_seq, read_buffer, back, got>>,
           Faults' = Faults
    PROVE  LinkAt(q)'
<1>1. /\ sent \in Seq(Message) /\ Len(got) \in Nat /\ Len(got) <= Len(sent)
      /\ line \in Seq(Unit) /\ Faults \in Int
  BY LinkTypes
<1>2. Carried(line \o f, read_buffer, sent, q, Len(got), Faults)
  BY <1>1, CarriedSent DEF LinkAt
<1>3. QED
  BY <1>2 DEF LinkAt, sender

\* What is left of the line when a byte was read, and what the reader has then.
LEMMA ReadLink ==
    ASSUME NoFrameInside, TypeOK, NEW q, LinkAt(q), Read
    PROVE  /\ Pumped \in Seq(Unit)
           /\ Carried(line', Pumped, sent, q, Len(got), Faults)
           /\ Carried(line', << >>, sent, q, Len(got), Faults)
<1>1. /\ sent \in Seq(Message) /\ q \in Seq(SeqNo) /\ Len(q) = Len(sent) /\ Len(got) \in Nat
      /\ line \in Seq(Unit) /\ read_buffer \in Seq(Unit) /\ Faults \in Int
  BY LinkTypes
<1>2. line # << >> /\ line' = Tail(line) /\ Head(line) \in Unit
  BY ReadFacts DEF Read
<1>3. Pumps(read_buffer, Head(line), Pumped)
  BY <1>1, <1>2, PumpShape DEF Pumped
<1>4. Pumped \in Seq(Unit)
  BY <1>1, <1>2, PumpFacts DEF Pumped
<1> HIDE DEF Pumped
<1>5. Carried(Tail(line), Pumped, sent, q, Len(got), Faults)
  BY <1>1, <1>2, <1>3, CarriedRead DEF LinkAt
<1>6. QED
  BY <1>2, <1>4, <1>5, CarriedDropped

\* A byte that completes nothing, or what the reader rejects with a NACK or passes
\* on to the other direction.
LEMMA RejectLink ==
    ASSUME NoFrameInside, TypeOK, NEW q, LinkAt(q),
           Assemble \/ GetOverflow \/ RejectLength \/ GetCrcError \/ GetControl
    PROVE  LinkAt(q)' /\ UNCHANGED Link!vars
<1>1. /\ Read /\ (read_buffer' = Pumped \/ read_buffer' = << >>)
      /\ UNCHANGED <<sender, expected_rx_seq, got, budget>>
      /\ back' = back \/ back' = Append(back, [type |-> FA_TYPE_NACK, seq |-> expected_rx_seq])
  BY DEF Assemble, GetOverflow, RejectLength, GetCrcError, GetControl, Answer
<1>2. Carried(line', read_buffer', sent, q, Len(got), Faults)
  BY <1>1, ReadLink
<1>3. Acks(back', q, Len(got), awaiting_ack)
  <2>1. CASE back' = back
    BY <2>1 DEF LinkAt
  <2>2. CASE back' = Append(back, [type |-> FA_TYPE_NACK, seq |-> expected_rx_seq])
    <3> DEFINE A == [type : {FA_TYPE_ACK, FA_TYPE_NACK}, seq : SeqNo]
               a == [type |-> FA_TYPE_NACK, seq |-> expected_rx_seq]
    <3>1. a \in A /\ back \in Seq(A) /\ a.type # FA_TYPE_ACK
      BY DEF TypeOK, FA_TYPE_ACK, FA_TYPE_NACK
    <3> HIDE DEF A, a
    <3>2. /\ Numbers(sent, q, Len(got), tx_seq, expected_rx_seq)
          /\ Acks(back, q, Len(got), awaiting_ack)
          /\ ~awaiting_ack => Len(got) = Len(q)
      BY LinkTypes DEF LinkAt, Ends
    <3>3. Len(got) \in Nat /\ Len(got) <= Len(q) /\ Len(q) <= Len(got) + 1
      BY LinkTypes
    <3>4. Acks(Append(back, a), q, Len(got), awaiting_ack)
      BY <3>1, <3>2, <3>3, AcksSent
    <3>5. QED
      BY <2>2, <3>4 DEF a
  <2>3. QED
    BY <1>1, <2>1, <2>2
<1>4. LinkAt(q)'
  <2>1. Faults' = Faults /\ UNCHANGED <<sent, got, awaiting_ack, tx_seq, expected_rx_seq, retain>>
    BY <1>1 DEF Faults, sender
  <2>2. QED
    BY <1>2, <1>3, <2>1 DEF LinkAt
<1>5. QED
  BY <1>1, <1>4 DEF Link!vars, sender

\* The expected DATA frame is the one after the last delivered.
LEMMA DataLink ==
    ASSUME NoFrameInside, TypeOK, NEW q, LinkAt(q), GetData
    PROVE  LinkAt(q)' /\ Link!Next
<1> DEFINE g == Len(got)
<1>1. /\ sent \in Seq(Message) /\ q \in Seq(SeqNo) /\ Len(q) = Len(sent) /\ Len(sent) \in Nat
      /\ g \in Nat /\ g <= Len(sent) /\ Len(sent) <= g + 1 /\ Faults \in Int
  BY LinkTypes
<1>2. /\ Read /\ IsFrame(Pumped) /\ ~IsControl(Pumped) /\ SeqOf(Pumped) = expected_rx_seq
      /\ read_buffer' = << >> /\ expected_rx_seq' = Succ(SeqOf(Pumped))
      /\ back' = Append(back, [type |-> FA_TYPE_ACK, seq |-> SeqOf(Pumped)])
      /\ got' = Append(got, [cmd |-> Pumped[1].val - FA_CTRL_MARKER,
                             payload |-> PayloadOf(Pumped)])
      /\ UNCHANGED <<tx_seq, awaiting_ack, retain, sent, budget>>
  BY DEF GetData, Answer, sender
<1>3. /\ Pumped \in Seq(Unit) /\ line' \in Seq(Unit)
      /\ Carried(line', Pumped, sent, q, g, Faults)
  BY <1>2, ReadLink, ReadFacts
<1>4. PICK k \in 1 .. Len(sent) :
          /\ g <= k /\ SeqOf(Pumped) = q[k]
          /\ Pumped[1].val - FA_CTRL_MARKER = sent[k].cmd /\ PayloadOf(Pumped) = Values(sent[k].payload)
          /\ Carried(line', << >>, sent, q, k, Faults)
  <2> HIDE DEF Pumped, g
  <2>1. QED
    BY <1>1, <1>2, <1>3, CarriedData
<1>5. Numbers(sent, q, g, tx_seq, expected_rx_seq)
  BY DEF LinkAt
<1> HIDE DEF Pumped, g
<1>6. k # g
  <2>1. SUFFICES ASSUME k = g
                 PROVE  FALSE
    OBVIOUS
  <2>2. q[k] \in SeqNo /\ expected_rx_seq = Succ(q[k])
    BY <1>1, <1>5, <2>1 DEF Numbers
  <2>3. Succ(q[k]) # q[k]
    BY <2>2, SuccFacts
  <2>4. QED
    BY <1>2, <1>4, <2>2, <2>3
<1>7. k = g + 1 /\ k = Len(sent) /\ k = Len(q)
  BY <1>1, <1>4, <1>6
<1>8. got' = Append(got, Shown(sent[k])) /\ got \in Seq([cmd : Int, payload : Seq(Byte)])
  BY <1>2, <1>4 DEF TypeOK, Shown
<1>9. /\ Len(got') = g + 1
      /\ \A i \in 1 .. g : got'[i] = got[i]
      /\ got'[g + 1] = Shown(sent[k])
  BY <1>8 DEF g
<1>10. Numbers(sent, q, g + 1, tx_seq, expected_rx_seq')
  BY <1>1, <1>2, <1>4, <1>5, <1>7 DEF Numbers
<1>11. Ends(sent, got', q, awaiting_ack, retain)
  <2>1. Ends(sent, got, q, awaiting_ack, retain)
    BY DEF LinkAt
  <2>2. \A i \in 1 .. g + 1 : got'[i] = Shown(sent[i])
    <3>1. ASSUME NEW i \in 1 .. g + 1
          PROVE  got'[i] = Shown(sent[i])
      <4>1. CASE i = g + 1
        BY <1>7, <1>9, <4>1
      <4>2. CASE i # g + 1
        <5>1. i \in 1 .. g
          BY <1>1, <4>2
        <5>2. QED
          BY <1>9, <2>1, <5>1 DEF Ends, g
      <4>3. QED
        BY <4>1, <4>2
    <3>2. QED
      BY <3>1
  <2>3. Len(got') = Len(sent) /\ Len(got') <= Len(sent) /\ Len(sent) <= Len(got') + 1
    BY <1>1, <1>7, <1>9
  <2>4. QED
    BY <1>9, <2>1, <2>2, <2>3 DEF Ends
<1>12. Acks(back', q, g + 1, awaiting_ack)
  <2> DEFINE A == [type : {FA_TYPE_ACK, FA_TYPE_NACK}, seq : SeqNo]
             a == [type |-> FA_TYPE_ACK, seq |-> SeqOf(Pumped)]
  <2>1. a \in A /\ back \in Seq(A) /\ a.seq = q[Len(q)]
    <3>1. q[k] \in SeqNo /\ back \in Seq(A)
      BY <1>1 DEF TypeOK
    <3>2. a \in A /\ a.seq = q[k]
      BY <1>4, <3>1
    <3>3. QED
      BY <1>7, <3>1, <3>2
  <2> HIDE DEF A, a
  <2>2. Acks(back, q, g, awaiting_ack)
    BY DEF LinkAt, g
  <2>3. Acks(Append(back, a), q, g + 1, awaiting_ack)
    BY <1>1, <1>5, <1>7, <2>1, <2>2, AcksDelivered
  <2>4. QED
    BY <1>2, <2>3 DEF a
<1>13. Carried(line', read_buffer', sent, q, g + 1, Faults)
  BY <1>2, <1>4, <1>7
<1>14. LinkAt(q)'
  <2>1. Len(got') = g + 1 /\ Faults' = Faults
    BY <1>2, <1>9 DEF Faults
  <2>2. QED
    BY <1>2, <1>10, <1>11, <1>12, <1>13, <2>1 DEF LinkAt
<1>15. Link!Deliver
  <2>1. Len(Seen(sent)) = Len(sent) /\ Seen(sent)[k] = Shown(sent[k])
    BY <1>1, SeenFacts
  <2>2. Seen(sent') = Seen(sent)
    BY <1>2
  <2>3. Len(got) < Len(Seen(sent)) /\ got' = Append(got, Seen(sent)[Len(got) + 1])
    BY <1>1, <1>7, <1>8, <2>1 DEF g
  <2>4. QED
    BY <1>2, <2>2, <2>3 DEF Link!Deliver, Seen
<1>16. QED
  BY <1>14, <1>15 DEF Link!Next

\* A DATA frame with another number is a copy of the last one delivered.
LEMMA DuplicateLink ==
    ASSUME NoFrameInside, TypeOK, NEW q, LinkAt(q), GetDuplicate
    PROVE  LinkAt(q)' /\ UNCHANGED Link!vars
<1> DEFINE g == Len(got)
<1>1. /\ sent \in Seq(Message) /\ q \in Seq(SeqNo) /\ Len(q) = Len(sent) /\ Len(sent) \in Nat
      /\ g \in Nat /\ g <= Len(sent) /\ Len(sent) <= g + 1 /\ Faults \in Int
  BY LinkTypes
<1>2. /\ Read /\ IsFrame(Pumped) /\ ~IsControl(Pumped) /\ SeqOf(Pumped) # expected_rx_seq
      /\ read_buffer' = << >>
      /\ back' = Append(back, [type |-> FA_TYPE_ACK, seq |-> SeqOf(Pumped)])
      /\ UNCHANGED <<tx_seq, awaiting_ack, retain, sent, expected_rx_seq, got, budget>>
  BY DEF GetDuplicate, Answer, sender
<1>3. /\ Pumped \in Seq(Unit) /\ line' \in Seq(Unit)
      /\ Carried(line', Pumped, sent, q, g, Faults)
      /\ Carried(line', << >>, sent, q, g, Faults)
  BY <1>2, ReadLink, ReadFacts
<1>4. PICK k \in 1 .. Len(sent) : g <= k /\ SeqOf(Pumped) = q[k]
  <2> HIDE DEF Pumped, g
  <2>1. QED
    BY <1>1, <1>2, <1>3, CarriedData
<1>5. Numbers(sent, q, g, tx_seq, expected_rx_seq)
  BY DEF LinkAt
<1> HIDE DEF Pumped, g
<1>6. k # g + 1
  <2>1. SUFFICES ASSUME k = g + 1
                 PROVE  q[k] = expected_rx_seq
    BY <1>2, <1>4
  <2>2. CASE g = 0
    BY <1>1, <1>5, <2>1, <2>2 DEF Numbers
  <2>3. CASE g # 0
    <3>1. g \in 1 .. Len(q) - 1
      BY <1>1, <2>1, <2>3
    <3>2. q[g + 1] = Succ(q[g])
      BY <1>5, <3>1 DEF Numbers
    <3>3. QED
      BY <1>5, <2>1, <2>3, <3>2 DEF Numbers
  <2>4. QED
    BY <2>2, <2>3
<1>7. k = g /\ g >= 1
  BY <1>1, <1>4, <1>6
<1>8. Acks(back', q, g, awaiting_ack)
  <2> DEFINE A == [type : {FA_TYPE_ACK, FA_TYPE_NACK}, seq : SeqNo]
             a == [type |-> FA_TYPE_ACK, seq |-> SeqOf(Pumped)]
  <2>1. a \in A /\ back \in Seq(A) /\ a.seq = q[g]
    <3>1. q[k] \in SeqNo /\ back \in Seq(A)
      BY <1>1, SMTT(30) DEF TypeOK
    <3>2. a \in A /\ a.seq = q[k]
      BY <1>4, <3>1
    <3>3. QED
      BY <1>7, <3>1, <3>2
  <2> HIDE DEF A, a
  <2>2. Acks(back, q, g, awaiting_ack) /\ (~awaiting_ack => g = Len(q))
    BY <1>1 DEF LinkAt, Ends, g
  <2>3. g <= Len(q) /\ Len(q) <= g + 1
    BY <1>1
  <2>4. Acks(Append(back, a), q, g, awaiting_ack)
    BY <1>1, <1>5, <1>7, <2>1, <2>2, <2>3, AcksSent
  <2>5. QED
    BY <1>2, <2>4 DEF a
<1>9. LinkAt(q)'
  <2>1. Faults' = Faults
    BY <1>2 DEF Faults
  <2>2. QED
    BY <1>2, <1>3, <1>8, <2>1 DEF LinkAt, g
<1>10. QED
  BY <1>2, <1>9 DEF Link!vars

\* The sender reads an ACK.
LEMMA AckLink ==
    ASSUME TypeOK, NEW q, LinkAt(q), GetAck
    PROVE  LinkAt(q)' /\ (Link!Next \/ UNCHANGED Link!vars)
<1> DEFINE g == Len(got)  A == [type : {FA_TYPE_ACK, FA_TYPE_NACK}, seq : SeqNo]
<1>1. /\ back \in Seq(A) /\ back # << >> /\ back' = Tail(back)
      /\ Head(back).type = FA_TYPE_ACK
      /\ awaiting_ack' = (awaiting_ack /\ Head(back).seq # tx_seq)
      /\ UNCHANGED <<tx_seq, retain, sent, expected_rx_seq, read_buffer, line, got, budget>>
  BY DEF TypeOK, GetAck
<1> HIDE DEF A
<1>2. /\ Numbers(sent, q, g, tx_seq, expected_rx_seq) /\ Acks(back, q, g, awaiting_ack)
      /\ Ends(sent, got, q, awaiting_ack, retain)
      /\ Carried(line, read_buffer, sent, q, g, Faults)
  BY DEF LinkAt
<1>3. Faults' = Faults
  BY <1>1 DEF Faults
<1>4. CASE awaiting_ack /\ Head(back).seq = tx_seq
  <2>1. awaiting_ack = TRUE /\ awaiting_ack' = FALSE
    BY <1>1, <1>4 DEF TypeOK
  <2>2. Acks(back, q, g, TRUE)
    BY <1>2, <2>1
  <2>3. g = Len(q) /\ Acks(Tail(back), q, g, FALSE)
    BY <1>1, <1>2, <1>4, <2>2, AcksConfirm
  <2>4. Len(sent) = g /\ got = Seen(sent)
    <3> DEFINE S == {Shown(m) : m \in Message}
    <3>1. /\ Len(sent) = g /\ \A i \in 1 .. g : got[i] = Shown(sent[i])
      BY <1>2, <2>3, LinkTypes DEF Ends
    <3>2. /\ Seen(sent) \in Seq(S) /\ Len(Seen(sent)) = g
          /\ \A i \in 1 .. g : got[i] = Seen(sent)[i]
          /\ got \in Seq([cmd : Int, payload : Seq(Byte)])
      BY <3>1, SeenFacts DEF TypeOK
    <3> HIDE DEF S
    <3> DEFINE R == [cmd : Int, payload : Seq(Byte)]
    <3> HIDE DEF R
    <3>3. got \in Seq(R) /\ Len(got) = g
      BY <3>2 DEF R, g
    <3> HIDE DEF g
    <3>4. Seen(sent) \in [1 .. g -> S]
      BY <3>2
    <3>5. got \in [1 .. g -> R]
      BY <3>3
    <3>6. QED
      BY <3>1, <3>2, <3>4, <3>5
  <2>5. Ends(sent, got, q, FALSE, retain)
    BY <1>2, <2>4 DEF Ends, g
  <2>6. LinkAt(q)'
    <3>1. Acks(back', q, g, awaiting_ack')
      BY <1>1, <2>1, <2>3
    <3>2. Ends(sent, got, q, awaiting_ack', retain)
      BY <2>1, <2>5
    <3>3. QED
      BY <1>1, <1>2, <1>3, <3>1, <3>2 DEF LinkAt, g
  <2>7. Link!Confirm
    BY <1>1, <2>1, <2>4 DEF Link!Confirm, Seen
  <2>8. QED
    BY <2>6, <2>7 DEF Link!Next
<1>5. CASE ~(awaiting_ack /\ Head(back).seq = tx_seq)
  <2>1. awaiting_ack' = awaiting_ack
    BY <1>1, <1>5 DEF TypeOK
  <2>2. Acks(Tail(back), q, g, awaiting_ack)
    BY <1>1, <1>2, AcksTail
  <2>3. LinkAt(q)'
    <3>1. Acks(back', q, g, awaiting_ack')
      BY <1>1, <2>1, <2>2
    <3>2. Ends(sent, got, q, awaiting_ack', retain)
      BY <1>2, <2>1
    <3>3. QED
      BY <1>1, <1>2, <1>3, <3>1, <3>2 DEF LinkAt, g
  <2>4. QED
    BY <1>1, <2>1, <2>3 DEF Link!vars
<1>6. QED
  BY <1>4, <1>5

\* It reads a NACK, or its timer runs out, and it sends the frame again.
LEMMA ResendLink ==
    ASSUME TypeOK, NEW q, LinkAt(q), Timeout \/ GetNack
    PROVE  LinkAt(q)' /\ UNCHANGED Link!vars
<1>1. CASE Timeout
  <2>1. line' = line \o retain
    <3>1. line' = << >> \o retain /\ line = << >>
      BY <1>1 DEF Timeout, TypeOK
    <3>2. QED
      BY <3>1
  <2>2. Faults' = Faults /\ UNCHANGED <<sender, expected_rx_seq, read_buffer, back, got>>
    BY <1>1 DEF Timeout, Faults
  <2>3. Sendable(retain, "data", sent, q)
    BY <1>1, RetainSendable DEF Timeout
  <2>4. LinkAt(q)'
    BY <2>1, <2>2, <2>3, WriteLink
  <2>5. QED
    BY <2>2, <2>4 DEF Link!vars, sender
<1>2. CASE GetNack
  <2> DEFINE A == [type : {FA_TYPE_ACK, FA_TYPE_NACK}, seq : SeqNo]
  <2>1. /\ back \in Seq(A) /\ back # << >> /\ back' = Tail(back)
        /\ line' = IF awaiting_ack THEN line \o retain ELSE line
        /\ UNCHANGED <<tx_seq, awaiting_ack, retain, sent, expected_rx_seq, read_buffer, got, budget>>
    BY <1>2 DEF GetNack, sender, TypeOK
  <2> HIDE DEF A
  <2>2. Acks(back', q, Len(got), awaiting_ack)
    <3>1. Acks(back, q, Len(got), awaiting_ack)
      BY DEF LinkAt
    <3>2. QED
      BY <2>1, <3>1, AcksTail
  <2>3. Carried(line', read_buffer, sent, q, Len(got), Faults)
    <3>1. CASE ~awaiting_ack
      BY <2>1, <3>1 DEF LinkAt
    <3>2. CASE awaiting_ack
      <4>1. /\ sent \in Seq(Message) /\ Len(got) \in Nat /\ Len(got) <= Len(sent)
            /\ line \in Seq(Unit) /\ Faults \in Int /\ line' = line \o retain
        BY <2>1, <3>2, LinkTypes
      <4>2. Sendable(retain, "data", sent, q)
        BY <3>2, RetainSendable
      <4>3. QED
        BY <4>1, <4>2, CarriedSent DEF LinkAt
    <3>3. QED
      BY <3>1, <3>2
  <2>4. LinkAt(q)'
    <3>1. Faults' = Faults
      BY <2>1 DEF Faults
    <3>2. QED
      BY <2>1, <2>2, <2>3, <3>1 DEF LinkAt
  <2>5. QED
    BY <2>1, <2>4 DEF Link!vars
<1>3. QED
  BY <1>1, <1>2

\* Control frames and log text come in between.
LEMMA BetweenLink ==
    ASSUME TypeOK, NEW q, LinkAt(q),
           \/ \E type \in {FA_TYPE_ACK, FA_TYPE_NACK}, seq \in SeqNo : Control(type, seq)
           \/ \E v \in Byte : LogText(v)
    PROVE  LinkAt(q)' /\ UNCHANGED Link!vars
<1>1. ASSUME NEW type \in {FA_TYPE_ACK, FA_TYPE_NACK}, NEW seq \in SeqNo, Control(type, seq)
      PROVE  LinkAt(q)' /\ UNCHANGED Link!vars
  <2> DEFINE f == Bytes(0, type, seq, << >>)
  <2>1. /\ line' = line \o f
        /\ UNCHANGED <<sender, expected_rx_seq, read_buffer, back, got>>
        /\ budget' = [budget EXCEPT !["controls"] = @ - 1]
    BY <1>1 DEF Control, Spend
  <2>2. Faults' = Faults
    BY <2>1 DEF Faults, TypeOK
  <2>3. Sendable(f, "control", sent, q)
    BY ControlSendable
  <2> HIDE DEF f
  <2>4. LinkAt(q)'
    BY <2>1, <2>2, <2>3, WriteLink
  <2>5. QED
    BY <2>1, <2>4 DEF Link!vars, sender
<1>2. ASSUME NEW v \in Byte, LogText(v)
      PROVE  LinkAt(q)' /\ UNCHANGED Link!vars
  <2> DEFINE f == <<Plain(v)>>
  <2>1. /\ line' = Append(line, Plain(v)) /\ v < FA_CTRL_MARKER
        /\ UNCHANGED <<sender, expected_rx_seq, read_buffer, back, got>>
        /\ budget' = [budget EXCEPT !["texts"] = @ - 1]
    BY <1>2 DEF LogText, Spend
  <2>2. Faults' = Faults
    BY <2>1 DEF Faults, TypeOK
  <2>3. line' = line \o f
    <3>1. Plain(v) \in Unit /\ line \in Seq(Unit)
      BY ByteFacts DEF TypeOK
    <3>2. QED
      BY <2>1, <3>1
  <2>4. Sendable(f, "text", sent, q)
    BY <2>1, TextSendable
  <2> HIDE DEF f
  <2>5. LinkAt(q)'
    BY <2>1, <2>2, <2>3, <2>4, WriteLink
  <2>6. QED
    BY <2>1, <2>5 DEF Link!vars, sender
<1>3. QED
  BY <1>1, <1>2

\* A discard, and a fault of the line.
LEMMA FaultLink ==
    ASSUME MaxFaults < Marks, TypeOK, NEW q, LinkAt(q), Discard \/ Fault
    PROVE  LinkAt(q)' /\ UNCHANGED Link!vars
<1>1. CASE Discard
  <2>1. /\ read_buffer' = << >> /\ UNCHANGED <<reader, sender, expected_rx_seq, line, back, got>>
        /\ budget' = [budget EXCEPT !["discards"] = @ - 1]
    BY <1>1 DEF Discard, Spend
  <2>2. Faults' = Faults
    BY <2>1 DEF Faults, TypeOK
  <2>3. Carried(line, << >>, sent, q, Len(got), Faults)
    BY CarriedDropped DEF LinkAt
  <2>4. LinkAt(q)'
    BY <2>1, <2>2, <2>3 DEF LinkAt, sender
  <2>5. QED
    BY <2>1, <2>4 DEF Link!vars, sender
<1>2. CASE Fault
  <2>1. /\ UNCHANGED <<reader, sender, expected_rx_seq, read_buffer, back, got>>
        /\ budget["faults"] > 0 /\ budget' = [budget EXCEPT !["faults"] = @ - 1]
    BY <1>2 DEF Fault, Spend
  <2>2. Faults' = Faults + 1 /\ Faults + 1 < Marks
    <3>1. budget.faults \in Nat /\ MaxFaults \in Nat /\ Marks \in Nat
      BY BoundAssumption, ByteFacts DEF TypeOK
    <3>2. budget'.faults = budget.faults - 1
      BY <2>1 DEF TypeOK
    <3>3. QED
      BY <2>1, <3>1, <3>2 DEF Faults
  <2>3. /\ sent \in Seq(Message) /\ q \in Seq(SeqNo) /\ Len(q) = Len(sent) /\ Len(got) \in Nat
        /\ line \in Seq(Unit) /\ read_buffer \in Seq(Unit) /\ Faults \in Int
        /\ Carried(line, read_buffer, sent, q, Len(got), Faults)
    BY LinkTypes DEF LinkAt
  <2>4. Carried(line', read_buffer, sent, q, Len(got), Faults + 1)
    <3>1. CASE line # << >> /\ line' = Tail(line)
      <4>1. CrcByte \in Byte
        BY SizeAssumption
      <4>2. QED
        BY <2>2, <2>3, <3>1, <4>1, CarriedFault
    <3>2. ASSUME NEW v \in Byte, line # << >>, line' = [line EXCEPT ![1] = Plain(v)]
          PROVE  Carried(line', read_buffer, sent, q, Len(got), Faults + 1)
      BY <2>2, <2>3, <3>2, CarriedFault
    <3>3. ASSUME NEW v \in Byte, line' = <<Plain(v)>> \o line
          PROVE  Carried(line', read_buffer, sent, q, Len(got), Faults + 1)
      BY <2>2, <2>3, <3>3, CarriedFault
    <3>4. QED
      BY <1>2, <3>1, <3>2, <3>3 DEF Fault
  <2>5. LinkAt(q)'
    BY <2>1, <2>2, <2>4 DEF LinkAt, sender
  <2>6. QED
    BY <2>1, <2>5 DEF Link!vars, sender
<1>3. QED
  BY <1>1, <1>2

\* The initial state,
LEMMA InitLink ==
    ASSUME Init
    PROVE  LinkInv /\ Link!Init
<1>1. TypeOK
  BY InitInv DEF IInv
<1>2. /\ tx_seq = SeqMod - 1 /\ awaiting_ack = FALSE /\ retain = << >> /\ expected_rx_seq = 0
      /\ read_buffer = << >> /\ line = << >> /\ back = << >> /\ sent = << >> /\ got = << >>
      /\ budget.faults = MaxFaults
  BY DEF Init
<1> DEFINE z == << >>
<1>3. Len(z) = 0 /\ z \in Seq(SeqNo) /\ z \in Seq(Tag)
  OBVIOUS
<1> HIDE DEF z
<1>4. Numbers(z, z, 0, SeqMod - 1, 0)
  BY <1>3 DEF Numbers
<1>5. Ends(z, z, z, FALSE, z)
  BY <1>3 DEF Ends
<1>6. Acks(z, z, 0, FALSE)
  BY <1>3 DEF Acks
<1>7. Carried(z, z, z, z, 0, 0)
  <2>1. OnLine(z, z, z, 0, z, 0)
    BY <1>3 DEF OnLine
  <2>2. Held(z, z, z, 0, z, 0)
    BY <1>3, ByteFacts DEF Held
  <2>3. Behind(z, z, 0, 0)
    BY <1>3, ByteFacts DEF Behind, z
  <2>4. QED
    BY <2>1, <2>2, <2>3 DEF Carried
<1>8. Faults = 0
  BY <1>2, BoundAssumption DEF Faults
<1>9. LinkAt(z)
  BY <1>2, <1>3, <1>4, <1>5, <1>6, <1>7, <1>8 DEF LinkAt, z
<1>10. QED
  BY <1>1, <1>2, <1>9 DEF LinkInv, Link!Init

\* and every step.
LEMMA NextLink ==
    ASSUME MaxFaults < Marks, NoFrameInside, LinkInv, [Next]_vars
    PROVE  LinkInv' /\ [Link!Next]_(Link!vars)
<1>1. TypeOK /\ TypeOK'
  BY TypeStep DEF LinkInv
<1>2. PICK q : LinkAt(q)
  BY DEF LinkInv
<1>3. ASSUME NEW m \in Message, Put(m)
      PROVE  (\E p : LinkAt(p)') /\ Link!Next
  BY <1>1, <1>2, <1>3, PutLink
<1>4. ASSUME Timeout \/ GetNack
      PROVE  LinkAt(q)' /\ UNCHANGED Link!vars
  BY <1>1, <1>2, <1>4, ResendLink
<1>5. ASSUME GetAck
      PROVE  LinkAt(q)' /\ (Link!Next \/ UNCHANGED Link!vars)
  BY <1>1, <1>2, <1>5, AckLink
<1>6. ASSUME \/ \E type \in {FA_TYPE_ACK, FA_TYPE_NACK}, seq \in SeqNo : Control(type, seq)
             \/ \E v \in Byte : LogText(v)
      PROVE  LinkAt(q)' /\ UNCHANGED Link!vars
  BY <1>1, <1>2, <1>6, BetweenLink
<1>7. ASSUME Assemble \/ GetOverflow \/ RejectLength \/ GetCrcError \/ GetControl
      PROVE  LinkAt(q)' /\ UNCHANGED Link!vars
  BY <1>1, <1>2, <1>7, RejectLink
<1>8. ASSUME GetData
      PROVE  LinkAt(q)' /\ Link!Next
  BY <1>1, <1>2, <1>8, DataLink
<1>9. ASSUME GetDuplicate
      PROVE  LinkAt(q)' /\ UNCHANGED Link!vars
  BY <1>1, <1>2, <1>9, DuplicateLink
<1>10. ASSUME Discard \/ Fault
       PROVE  LinkAt(q)' /\ UNCHANGED Link!vars
  BY <1>1, <1>2, <1>10, FaultLink
<1>11. ASSUME UNCHANGED vars
       PROVE  LinkAt(q)' /\ UNCHANGED Link!vars
  <2>1. UNCHANGED <<tx_seq, awaiting_ack, retain, sent, expected_rx_seq, read_buffer, line,
                    back, got, budget>>
    BY <1>11 DEF vars, sender
  <2>2. LinkAt(q)'
    BY <1>2, <2>1 DEF LinkAt, Faults
  <2>3. QED
    BY <2>1, <2>2 DEF Link!vars
<1>12. (\E p : LinkAt(p)') /\ [Link!Next]_(Link!vars)
  BY <1>3, <1>4, <1>5, <1>6, <1>7, <1>8, <1>9, <1>10, <1>11 DEF Next, Receiver
<1>13. QED
  BY <1>1, <1>12 DEF LinkInv

\* With fewer faults than a marker has bytes, wherever they fall, and with calls of
\* frame_arq_discard anywhere, a link byte by byte does what ReliableLink promises -
\* if no payload holds the CRC of a frame.
THEOREM LinkRefinement ==
    ASSUME MaxFaults < Marks, NoFrameInside
    PROVE  Spec => LinkImplemented
<1>1. Init => LinkInv /\ Link!Init
  BY InitLink
<1>2. LinkInv /\ [Next]_vars => LinkInv' /\ [Link!Next]_(Link!vars)
  BY NextLink
<1>3. QED
  BY <1>1, <1>2, PTL DEF Spec, LinkImplemented, Link!Spec

-----------------------------------------------------------------------------
(***************************************************************************)
(* A line without faults.                                                  *)
(***************************************************************************)

\* Nothing on the line was made up, and the reader has the frame that is being read.
InStepCarried(l, w, s, q) == \E T : OnLine(l, s, q, 0, T, 0) /\ InStep(w, T)

\* What is written does not change what the reader has of the frame it reads.
LEMMA InStepSent ==
    ASSUME NEW s \in Seq(Message), NEW q, NEW f, NEW kind, Sendable(f, kind, s, q),
           NEW l \in Seq(Unit), NEW w, InStepCarried(l, w, s, q)
    PROVE  InStepCarried(l \o f, w, s, q)
<1>1. PICK T : OnLine(l, s, q, 0, T, 0) /\ InStep(w, T)
  BY DEF InStepCarried
<1> DEFINE F == Tags(f, kind, Len(s))  U == T \o F
<1>2. 0 \in Nat /\ 0 <= Len(s) /\ T \in Seq(Tag)
  BY <1>1 DEF OnLine
<1>3. Tagged(F, f, s, q, 0)
  BY <1>2, TagsFacts
<1>4. OnLine(l \o f, s, q, 0, U, 0)
  BY <1>1, <1>2, OnLineSent
<1> HIDE DEF F
<1>5. F \in Seq(Tag) /\ Len(F) \in Nat /\ Len(F) >= 1 /\ F[1].o = 1
  BY <1>3 DEF Tagged
<1>6. Joined(T, F)
  <2>1. F \in Seq(Tag)
    BY <1>5
  <2>2. QED
    BY <1>2, <2>1, JoinedFacts
<1>7. U # << >>
  <2>1. Len(U) = Len(T) + Len(F) /\ Len(T) \in Nat
    BY <1>2, <1>6 DEF Joined
  <2> HIDE DEF U
  <2>2. Len(U) # 0
    BY <1>5, <2>1
  <2>3. QED
    BY <2>2
<1>8. CASE T = << >>
  <2>1. U[1] = F[1]
    <3>1. Len(T) = 0 /\ 1 \in 1 .. Len(F)
      BY <1>5, <1>8
    <3>2. U[Len(T) + 1] = F[1]
      BY <1>6, <3>1 DEF Joined
    <3> HIDE DEF U
    <3>3. QED
      BY <3>1, <3>2
  <2>2. U[1].o - 1 = 0 /\ w = << >>
    BY <1>1, <1>5, <1>8, <2>1 DEF InStep
  <2> HIDE DEF U
  <2>3. Prefix(w, U[1].f, 0)
    BY <2>2 DEF Prefix
  <2>4. QED
    BY <1>4, <1>7, <2>2, <2>3 DEF InStep, InStepCarried
<1>9. CASE T # << >>
  <2>1. 1 \in 1 .. Len(T)
    BY <1>2, <1>9
  <2>2. U[1] = T[1]
    BY <1>6, <2>1 DEF Joined
  <2> HIDE DEF U
  <2>3. InStep(w, U)
    BY <1>1, <1>7, <1>9, <2>2 DEF InStep
  <2>4. QED
    BY <1>4, <2>3 DEF InStepCarried
<1>10. QED
  BY <1>8, <1>9

\* Both readers add the bytes of a frame to what they have of it,
LEMMA PumpPrefix ==
    ASSUME NEW f, NEW m \in Nat, m >= FA_CTRL_MARKER, NEW c, NEW p \in Seq(Unit), Shaped(f, m, c, p),
           NEW o \in 1 .. Len(f), Prefix(read_buffer, f, o - 1)
    PROVE  /\ Pump(f[o]) = Append(read_buffer, f[o])
           /\ Prefix(Append(read_buffer, f[o]), f, o)
<1> DEFINE w == read_buffer  b == f[o]
<1>1. /\ w \in Seq(Unit) /\ Len(w) = o - 1 /\ \A i \in 1 .. o - 1 : w[i] = f[i]
      /\ f \in Seq(Unit) /\ b \in Unit /\ o \in Nat /\ o >= 1 /\ Len(f) \in Nat
  BY SMTT(30) DEF Prefix, Shaped
<1>2. Marks \in Nat /\ Marks >= 1 /\ FA_CTRL_MARKER \in Nat
  BY ByteFacts
<1>3. Prefix(Append(w, b), f, o)
  <2>1. /\ Append(w, b) \in Seq(Unit) /\ Len(Append(w, b)) = o /\ Append(w, b)[o] = b
        /\ \A i \in 1 .. o - 1 : Append(w, b)[i] = w[i]
    BY <1>1
  <2>2. ASSUME NEW i \in 1 .. o
        PROVE  Append(w, b)[i] = f[i]
    <3>1. CASE i = o
      BY <2>1, <3>1
    <3>2. CASE i # o
      <4>1. i \in 1 .. o - 1
        BY <1>1, <3>2
      <4>2. QED
        BY <1>1, <2>1, <4>1
    <3>3. QED
      BY <3>1, <3>2
  <2>3. QED
    BY <2>1, <2>2 DEF Prefix
<1>4. Pump(b) = Append(w, b)
  <2>1. CASE Len(w) >= Marks
    BY <2>1 DEF Pump
  <2>2. CASE Len(w) < Marks
    <3>1. o \in 1 .. Marks
      BY <1>1, <1>2, <2>2
    <3>2. b.val = m
      BY <3>1 DEF Shaped, Plain
    <3>3. ~(b.val < FA_CTRL_MARKER) /\ ~(Len(w) >= Marks)
      BY <1>1, <1>2, <2>2, <3>2
    <3>4. CASE w = << >>
      <4>1. Append(w, b) = <<b>>
        BY <3>4
      <4>2. QED
        BY <3>3, <3>4, <4>1 DEF Pump, LibraryMark, SessionMark
    <3>5. CASE w # << >>
      <4>1. 1 \in 1 .. o - 1 /\ 1 \in 1 .. Marks
        BY <1>1, <1>2, <3>5
      <4>2. w[1].val = m
        BY <1>1, <4>1 DEF Shaped, Plain
      <4>3. QED
        BY <3>2, <3>3, <3>5, <4>2 DEF Pump, LibraryMark, SessionMark
    <3>6. QED
      BY <3>4, <3>5
  <2>3. QED
    BY <1>1, <1>2, <2>1, <2>2
<1>5. QED
  BY <1>3, <1>4

\* and pass over text.
LEMMA PumpText ==
    ASSUME read_buffer = << >>, NEW b, b.val < FA_CTRL_MARKER
    PROVE  Pump(b) = << >>
<1>1. Len(read_buffer) = 0 /\ Marks >= 1 /\ Marks \in Nat
  BY ByteFacts
<1>2. ~(Len(read_buffer) >= Marks)
  BY <1>1
<1>3. QED
  BY <1>2 DEF Pump, LibraryMark, SessionMark

\* Such a reader rejects no frame, and finds it at its last byte.
LEMMA PrefixRead ==
    ASSUME NEW f, NEW m, NEW c, NEW p \in Seq(Unit), Len(p) <= PayloadMax, Shaped(f, m, c, p),
           NEW o \in 1 .. Len(f), NEW w, Prefix(w, f, o)
    PROVE  ~Oversize(w) /\ (Complete(w) <=> o = Len(f)) /\ (Complete(w) => CrcMatches(w))
<1>1. /\ w \in Seq(Unit) /\ Len(w) = o /\ \A i \in 1 .. o : w[i] = f[i]
      /\ Len(f) = HeaderLength + Len(p) /\ Len(p) \in Nat /\ o \in Nat /\ o <= Len(f)
      /\ PayloadMax \in Nat /\ HeaderLength \in Nat /\ Marks \in Nat /\ HeaderLength = Marks + 3
  BY ByteFacts DEF Prefix, Shaped
<1>2. ASSUME Len(w) >= HeaderLength
      PROVE  /\ SeqByte(w) = c /\ Size(w) = Len(p)
             /\ w[HeaderLength].crc = <<c, Len(p)>> \o Values(p)
  <2>1. Marks + 1 \in 1 .. o /\ Marks + 2 \in 1 .. o /\ HeaderLength \in 1 .. o
    BY <1>1, <1>2
  <2>2. w[Marks + 1] = Plain(c) /\ w[Marks + 2] = Plain(Len(p))
    BY <1>1, <2>1 DEF Shaped
  <2>3. w[HeaderLength] = [val |-> CrcByte, crc |-> <<c, Len(p)>> \o Values(p)]
    BY <1>1, <2>1 DEF Shaped
  <2>4. SeqByte(w) = c /\ Size(w) = Len(p)
    BY <2>2 DEF SeqByte, Size, Plain
  <2>5. QED
    BY <2>3, <2>4
<1>3. ~Oversize(w)
  BY <1>1, <1>2 DEF Oversize
<1>4. Complete(w) <=> o = Len(f)
  <2>1. ASSUME Complete(w)
        PROVE  o = Len(f)
    <3>1. Len(w) >= HeaderLength /\ Len(w) >= HeaderLength + Size(w)
      BY <2>1 DEF Complete
    <3>2. Len(w) >= HeaderLength + Len(p)
      BY <1>2, <3>1
    <3>3. QED
      BY <1>1, <3>2
  <2>2. o = Len(f) => Complete(w)
    BY <1>1, <1>2, <1>3 DEF Complete
  <2>3. QED
    BY <2>1, <2>2
<1>5. ASSUME o = Len(f)
      PROVE  CrcMatches(w)
  <2>1. Len(w) >= HeaderLength /\ Len(w) - HeaderLength = Len(p)
    BY <1>1, <1>5
  <2>2. ASSUME NEW i \in 1 .. Len(p)
        PROVE  w[HeaderLength + i].val = p[i].val
    <3>1. HeaderLength + i \in 1 .. o
      BY <1>1, <1>5
    <3>2. w[HeaderLength + i] = p[i]
      BY <1>1, <3>1 DEF Shaped
    <3>3. QED
      BY <3>2
  <2>3. PayloadOf(w) = [i \in 1 .. Len(p) |-> p[i].val]
    BY <2>1, <2>2 DEF PayloadOf
  <2>4. Values(p) = [i \in 1 .. Len(p) |-> p[i].val]
    BY ValuesFacts
  <2>5. PayloadOf(w) = Values(p)
    BY <2>3, <2>4
  <2>6. QED
    BY <1>2, <2>1, <2>5 DEF CrcMatches
<1>6. QED
  BY <1>3, <1>4, <1>5

\* A DATA frame or a control frame.
Framed(f) ==
    \E m, c, p : /\ m \in Nat /\ p \in Seq(Unit)
                 /\ m >= FA_CTRL_MARKER /\ Len(p) <= PayloadMax /\ Shaped(f, m, c, p)

\* A frame of this shape is framed.
LEMMA IsFramed ==
    ASSUME NEW f, NEW m \in Nat, NEW c, NEW p \in Seq(Unit), m >= FA_CTRL_MARKER,
           Len(p) <= PayloadMax, Shaped(f, m, c, p)
    PROVE  Framed(f)
BY DEF Framed

\* A byte is read: nothing is rejected, and the reader is in step.
LEMMA InStepRead ==
    ASSUME NEW s \in Seq(Message), NEW q \in Seq(SeqNo), Len(q) = Len(s),
           NEW l \in Seq(Unit), l # << >>, InStepCarried(l, read_buffer, s, q)
    PROVE  /\ ~Oversize(Pump(Head(l)))
           /\ Complete(Pump(Head(l))) => /\ CrcMatches(Pump(Head(l)))
                                         /\ InStepCarried(Tail(l), << >>, s, q)
           /\ ~Complete(Pump(Head(l))) => InStepCarried(Tail(l), Pump(Head(l)), s, q)
<1>1. PICK T : OnLine(l, s, q, 0, T, 0) /\ InStep(read_buffer, T)
  BY DEF InStepCarried
<1> DEFINE t == T[1]  U == Tail(T)  w2 == Pump(Head(l))
<1>2. /\ T \in Seq(Tag) /\ Len(T) = Len(l) /\ Len(l) \in Nat /\ Len(l) >= 1
      /\ Genuine(t, s, q, 0) /\ Head(l) = t.f[t.o] /\ U \in Seq(Tag) /\ Len(U) = Len(l) - 1
      /\ Len(l) > 1 => Follows(t, T[2]) /\ U[1] = T[2]
      /\ Len(l) = 1 => t.o = Len(t.f)
  BY <1>1, NextUnit
<1>3. OnLine(Tail(l), s, q, 0, U, 0)
  BY <1>1, OnLineTail DEF Less
<1>4. /\ t \in Tag /\ t.o \in 1 .. Len(t.f) /\ t.o \in Nat /\ t.f \in Seq(Unit) /\ Len(t.f) \in Nat
      /\ t.kind \in {"data", "control", "text"} /\ Whole(t, s, q)
  <2>1. t \in Tag /\ t.o \in 1 .. Len(t.f)
    BY <1>2 DEF Genuine
  <2>2. Whole(t, s, q)
    BY <1>2, GenuineWhole
  <2> HIDE DEF t
  <2>3. t.o \in Nat /\ t.f \in Seq(Unit) /\ t.kind \in {"data", "control", "text"}
    BY <2>1 DEF Tag
  <2>4. QED
    BY <2>1, <2>2, <2>3
<1>5. Prefix(read_buffer, t.f, t.o - 1)
  <2>1. T # << >>
    BY <1>2
  <2>2. QED
    BY <1>1, <2>1 DEF InStep
<1>6. U = << >> \/ (U # << >> /\ Len(l) > 1 /\ U[1] = T[2])
  BY <1>2
<1> HIDE DEF t, U
<1>7. ASSUME t.o = Len(t.f)
      PROVE  InStepCarried(Tail(l), << >>, s, q)
  <2>1. CASE U = << >>
    <3>1. InStep(<< >>, U)
      BY <2>1 DEF InStep
    <3>2. QED
      BY <1>3, <3>1 DEF InStepCarried
  <2>2. CASE U # << >>
    <3>1. U[1].o = 1
      BY <1>2, <1>4, <1>6, <1>7, <2>2 DEF Follows
    <3>2. Prefix(<< >>, U[1].f, U[1].o - 1)
      BY <3>1 DEF Prefix
    <3>3. InStep(<< >>, U)
      BY <2>2, <3>2 DEF InStep
    <3>4. QED
      BY <1>3, <3>3 DEF InStepCarried
  <2>3. QED
    BY <2>1, <2>2
<1>8. CASE t.kind = "text"
  <2>1. PICK v \in Byte : v < FA_CTRL_MARKER /\ t.f = <<Plain(v)>>
    BY <1>4, <1>8 DEF Whole, TextByte
  <2>2. Len(t.f) = 1 /\ t.f[1] = Plain(v)
    BY <2>1
  <2>3. t.o = 1 /\ t.o = Len(t.f)
    BY <1>4, <2>2
  <2>4. Head(l).val < FA_CTRL_MARKER
    BY <1>2, <2>1, <2>2, <2>3 DEF Plain
  <2>5. read_buffer = << >>
    <3>1. read_buffer \in Seq(Unit) /\ Len(read_buffer) = 0
      BY <1>5, <2>3 DEF Prefix
    <3>2. QED
      BY <3>1
  <2>6. w2 = << >>
    BY <2>4, <2>5, PumpText
  <2> HIDE DEF w2
  <2>7. ~(Len(w2) >= HeaderLength)
    BY <2>6, ByteFacts
  <2>8. ~Oversize(w2) /\ ~Complete(w2)
    BY <2>7 DEF Oversize, Complete
  <2>9. QED
    BY <1>7, <2>3, <2>6, <2>8 DEF w2
<1>9. CASE t.kind # "text"
  <2>0. Framed(t.f)
    <3>1. CASE t.kind = "data"
      <4>1. /\ t.k \in 1 .. Len(s)
            /\ Shaped(t.f, FA_CTRL_MARKER + s[t.k].cmd, q[t.k], s[t.k].payload)
        BY <1>4, <3>1 DEF Whole
      <4>2. /\ s[t.k].cmd \in Nat /\ s[t.k].payload \in Seq(Unit)
            /\ Len(s[t.k].payload) <= PayloadMax
        BY <4>1, DataUnits
      <4>3. FA_CTRL_MARKER + s[t.k].cmd \in Nat /\ FA_CTRL_MARKER + s[t.k].cmd >= FA_CTRL_MARKER
        BY <4>2, ByteFacts, SMTT(30)
      <4>4. QED
        BY <4>1, <4>2, <4>3, IsFramed
    <3>2. CASE t.kind = "control"
      <4>1. PICK type \in {FA_TYPE_ACK, FA_TYPE_NACK}, seq \in SeqNo :
                Shaped(t.f, FA_CTRL_MARKER, type * SeqMod + seq, << >>)
        BY <1>4, <3>2 DEF Whole
      <4>2. /\ << >> \in Seq(Unit) /\ Len(<< >>) <= PayloadMax /\ FA_CTRL_MARKER \in Nat
            /\ FA_CTRL_MARKER >= FA_CTRL_MARKER
        BY ByteFacts
      <4>3. QED
        BY <4>1, <4>2, IsFramed
    <3>3. QED
      BY <1>4, <1>9, <3>1, <3>2
  <2>1. PICK m, c, p : /\ m \in Nat /\ p \in Seq(Unit)
                       /\ m >= FA_CTRL_MARKER /\ Len(p) <= PayloadMax /\ Shaped(t.f, m, c, p)
    BY <2>0 DEF Framed
  <2>2. w2 = Append(read_buffer, t.f[t.o]) /\ Prefix(w2, t.f, t.o)
    <3>1. /\ Pump(t.f[t.o]) = Append(read_buffer, t.f[t.o])
          /\ Prefix(Append(read_buffer, t.f[t.o]), t.f, t.o)
      BY <1>4, <1>5, <2>1, PumpPrefix
    <3>2. QED
      BY <1>2, <3>1
  <2> HIDE DEF w2
  <2>3. ~Oversize(w2) /\ (Complete(w2) <=> t.o = Len(t.f)) /\ (Complete(w2) => CrcMatches(w2))
    BY <1>4, <2>1, <2>2, PrefixRead
  <2>4. ASSUME t.o # Len(t.f)
        PROVE  InStepCarried(Tail(l), w2, s, q)
    <3>1. t.o < Len(t.f) /\ Len(l) > 1
      BY <1>2, <1>4, <2>4
    <3>2. U # << >> /\ U[1] = T[2]
      BY <1>2, <1>6, <3>1
    <3>3. T[2] = [t EXCEPT !.o = t.o + 1]
      BY <1>2, <3>1 DEF Follows
    <3>4. U[1].f = t.f /\ U[1].o = t.o + 1
      BY <1>4, <3>2, <3>3 DEF Tag
    <3>5. U[1].o - 1 = t.o
      BY <1>4, <3>4
    <3>6. InStep(w2, U)
      BY <2>2, <3>2, <3>4, <3>5 DEF InStep
    <3>7. QED
      BY <1>3, <3>6 DEF InStepCarried
  <2>5. QED
    BY <1>7, <2>3, <2>4 DEF w2
<1>10. QED
  BY <1>8, <1>9

\* No byte was lost or altered and nothing discarded so far.
Clean == budget.faults = MaxFaults /\ budget.discards = MaxDiscards
CleanAt(q) ==
    /\ q \in Seq(SeqNo) /\ Len(q) = Len(sent)
    /\ awaiting_ack => Len(sent) >= 1 /\ retain = DataFrame(sent, q, Len(sent))
    /\ Clean => InStepCarried(line, read_buffer, sent, q)
CleanInv ==
    /\ TypeOK /\ budget.faults <= MaxFaults /\ budget.discards <= MaxDiscards
    /\ \E q : CleanAt(q)

\* While nothing went wrong, no frame is rejected,
LEMMA CleanReads ==
    ASSUME TypeOK, NEW q, CleanAt(q), Clean, Read
    PROVE  /\ ~Oversize(Pumped) /\ (Complete(Pumped) => CrcMatches(Pumped))
           /\ Complete(Pumped) => InStepCarried(line', << >>, sent, q)
           /\ ~Complete(Pumped) => InStepCarried(line', Pumped, sent, q)
<1>1. /\ sent \in Seq(Message) /\ q \in Seq(SeqNo) /\ Len(q) = Len(sent) /\ line \in Seq(Unit)
      /\ line # << >> /\ line' = Tail(line) /\ InStepCarried(line, read_buffer, sent, q)
  BY DEF TypeOK, CleanAt, Read
<1>2. QED
  BY <1>1, InStepRead DEF Pumped

\* so none of the actions that reject a frame is enabled.
LEMMA CleanRejects ==
    ASSUME CleanInv, Clean
    PROVE  ~GetOverflow /\ ~RejectLength /\ ~GetCrcError
<1>1. PICK q : CleanAt(q)
  BY DEF CleanInv
<1>2. Read => ~Oversize(Pumped) /\ (Complete(Pumped) => CrcMatches(Pumped))
  BY <1>1, CleanReads DEF CleanInv
<1>3. QED
  BY <1>2 DEF GetOverflow, RejectLength, GetCrcError

\* and the reader stays in step.
LEMMA CleanStep ==
    ASSUME CleanInv, [Next]_vars
    PROVE  CleanInv'
<1>1. PICK q : CleanAt(q)
  BY DEF CleanInv
<1>2. /\ TypeOK /\ TypeOK' /\ sent \in Seq(Message) /\ q \in Seq(SeqNo) /\ Len(q) = Len(sent)
      /\ line \in Seq(Unit) /\ retain \in Seq(Unit) /\ awaiting_ack \in BOOLEAN
      /\ budget \in [{"controls", "faults", "texts", "discards"} -> Nat]
      /\ budget.faults <= MaxFaults /\ budget.discards <= MaxDiscards
      /\ MaxFaults \in Nat /\ MaxDiscards \in Nat
  BY <1>1, TypeStep, BoundAssumption DEF CleanInv, CleanAt, TypeOK
<1> DEFINE Sound == budget'.faults <= MaxFaults /\ budget'.discards <= MaxDiscards
<1>3. ASSUME awaiting_ack
      PROVE  Sendable(retain, "data", sent, q)
  <2>1. Len(sent) >= 1 /\ retain = DataFrame(sent, q, Len(sent)) /\ Len(sent) \in 1 .. Len(sent)
    BY <1>1, <1>2, <1>3 DEF CleanAt
  <2>2. retain # << >>
    BY <1>2, <2>1, DataNotEmpty
  <2>3. QED
    BY <1>2, <2>1, <2>2 DEF Sendable
<1>4. ASSUME NEW m \in Message, Put(m)
      PROVE  Sound /\ \E p : CleanAt(p)'
  <2>0. PICK z, p, s : z = Succ(tx_seq) /\ p = Append(q, z) /\ s = Append(sent, m)
    OBVIOUS
  <2>1. /\ sent' = s /\ retain' = Bytes(m.cmd, FA_TYPE_DATA, z, m.payload)
        /\ line' = line \o retain' /\ awaiting_ack' = TRUE /\ UNCHANGED <<read_buffer, budget>>
    BY <1>4, <2>0 DEF Put
  <2>2. z \in SeqNo
    BY <1>2, <2>0, SeqNoFacts DEF TypeOK
  <2>3. /\ s \in Seq(Message) /\ Len(s) = Len(sent) + 1 /\ s[Len(s)] = m /\ Len(s) >= 1
        /\ p \in Seq(SeqNo) /\ Len(p) = Len(s) /\ p[Len(s)] = z /\ Len(s) \in 1 .. Len(s)
    BY <1>2, <2>0, <2>2
  <2>4. retain' = DataFrame(s, p, Len(s))
    BY <2>1, <2>3 DEF DataFrame
  <2>5. Sendable(retain', "data", s, p)
    <3>1. retain' # << >> /\ retain' \in Seq(Unit)
      BY <1>2, <2>3, <2>4, DataNotEmpty DEF TypeOK
    <3>2. QED
      BY <2>3, <2>4, <3>1 DEF Sendable
  <2>6. ASSUME Clean
        PROVE  InStepCarried(line', read_buffer, s, p)
    <3>1. PICK T : OnLine(line, sent, q, 0, T, 0) /\ InStep(read_buffer, T)
      BY <1>1, <2>6 DEF CleanAt, InStepCarried
    <3>2. OnLine(line, s, p, 0, T, 0)
      BY <1>2, <2>0, <3>1, OnLineGrows
    <3>3. InStepCarried(line, read_buffer, s, p)
      BY <3>1, <3>2 DEF InStepCarried
    <3>4. InStepCarried(line \o retain', read_buffer, s, p)
      BY <1>2, <2>3, <2>5, <3>3, InStepSent
    <3>5. QED
      BY <2>1, <3>4
  <2>7. CleanAt(p)'
    BY <2>1, <2>3, <2>4, <2>6 DEF CleanAt, Clean
  <2>8. QED
    BY <1>2, <2>1, <2>7
<1>5. ASSUME NEW f, NEW kind, Sendable(f, kind, sent, q), line' = line \o f,
             UNCHANGED <<sender, read_buffer>>, Clean' => Clean
      PROVE  CleanAt(q)'
  <2>1. ASSUME Clean
        PROVE  InStepCarried(line', read_buffer, sent, q)
    <3>1. InStepCarried(line, read_buffer, sent, q)
      BY <1>1, <2>1 DEF CleanAt
    <3>2. InStepCarried(line \o f, read_buffer, sent, q)
      BY <1>2, <1>5, <3>1, InStepSent
    <3>3. QED
      BY <1>5, <3>2
  <2>2. QED
    BY <1>1, <1>5, <2>1 DEF CleanAt, sender
<1>6. ASSUME UNCHANGED <<retain, sent, line, read_buffer>>, awaiting_ack' => awaiting_ack,
             Clean' => Clean
      PROVE  CleanAt(q)'
  BY <1>1, <1>6 DEF CleanAt
<1>7. ASSUME Timeout
      PROVE  Sound /\ CleanAt(q)'
  <2>1. line' = line \o retain
    <3>1. line' = << >> \o retain /\ line = << >>
      BY <1>2, <1>7 DEF Timeout
    <3>2. QED
      BY <3>1
  <2>2. UNCHANGED <<sender, read_buffer, budget>>
    BY <1>7 DEF Timeout
  <2>3. QED
    BY <1>2, <1>3, <1>5, <1>7, <2>1, <2>2 DEF Timeout, Clean
<1>8. ASSUME GetAck
      PROVE  Sound /\ CleanAt(q)'
  <2>1. UNCHANGED <<retain, sent, line, read_buffer, budget>> /\ (awaiting_ack' => awaiting_ack)
    BY <1>8 DEF GetAck
  <2>2. QED
    BY <1>2, <1>6, <2>1 DEF Clean
<1>9. ASSUME GetNack
      PROVE  Sound /\ CleanAt(q)'
  <2>1. UNCHANGED <<sender, read_buffer, budget>> /\ line' = IF awaiting_ack THEN line \o retain ELSE line
    BY <1>9 DEF GetNack
  <2>2. CASE awaiting_ack
    BY <1>2, <1>3, <1>5, <2>1, <2>2 DEF Clean
  <2>3. CASE ~awaiting_ack
    BY <1>2, <1>6, <2>1, <2>3 DEF Clean, sender
  <2>4. QED
    BY <2>2, <2>3
<1>10. ASSUME NEW type \in {FA_TYPE_ACK, FA_TYPE_NACK}, NEW seq \in SeqNo, Control(type, seq)
       PROVE  Sound /\ CleanAt(q)'
  <2> DEFINE f == Bytes(0, type, seq, << >>)
  <2>1. /\ line' = line \o f /\ UNCHANGED <<sender, read_buffer>>
        /\ budget' = [budget EXCEPT !["controls"] = @ - 1]
    BY <1>10 DEF Control, Spend
  <2>2. Sound /\ (Clean' => Clean)
    BY <1>2, <2>1 DEF Clean
  <2>3. Sendable(f, "control", sent, q)
    BY ControlSendable
  <2>4. QED
    BY <1>5, <2>1, <2>2, <2>3
<1>11. ASSUME NEW v \in Byte, LogText(v)
       PROVE  Sound /\ CleanAt(q)'
  <2> DEFINE f == <<Plain(v)>>
  <2>1. /\ line' = Append(line, Plain(v)) /\ UNCHANGED <<sender, read_buffer>>
        /\ v < FA_CTRL_MARKER /\ budget' = [budget EXCEPT !["texts"] = @ - 1]
    BY <1>11 DEF LogText, Spend
  <2>2. Sound /\ (Clean' => Clean)
    BY <1>2, <2>1 DEF Clean
  <2>3. Sendable(f, "text", sent, q)
    BY <2>1, TextSendable
  <2>4. line' = line \o f
    <3>1. Plain(v) \in Unit /\ line \in Seq(Unit)
      BY ByteFacts, <1>2
    <3>2. QED
      BY <2>1, <3>1
  <2>5. QED
    BY <1>5, <2>1, <2>2, <2>3, <2>4
<1>12. ASSUME Receiver
       PROVE  Sound /\ CleanAt(q)'
  <2>1. Read /\ UNCHANGED <<sender, budget>>
    BY <1>12 DEF Receiver, Assemble, GetOverflow, RejectLength, GetCrcError, GetControl,
                 GetData, GetDuplicate
  <2>2. ASSUME Clean
        PROVE  InStepCarried(line', read_buffer', sent, q)
    <3>1. /\ Complete(Pumped) => InStepCarried(line', << >>, sent, q)
          /\ ~Complete(Pumped) => InStepCarried(line', Pumped, sent, q)
      BY <1>1, <1>2, <2>1, <2>2, CleanReads
    <3>2. ~GetOverflow /\ ~RejectLength /\ ~GetCrcError
      BY <2>2, CleanRejects
    <3>3. \/ ~Complete(Pumped) /\ read_buffer' = Pumped
          \/ Complete(Pumped) /\ read_buffer' = << >>
      BY <1>12, <3>2 DEF Receiver, Assemble, GetControl, GetData, GetDuplicate, IsFrame
    <3>4. QED
      BY <3>1, <3>3
  <2>3. QED
    BY <1>1, <1>2, <2>1, <2>2 DEF CleanAt, Clean, sender
<1>13. ASSUME Discard \/ Fault
       PROVE  Sound /\ CleanAt(q)'
  <2>1. /\ UNCHANGED sender
        /\ \/ budget.discards > 0 /\ budget' = [budget EXCEPT !["discards"] = @ - 1]
           \/ budget.faults > 0 /\ budget' = [budget EXCEPT !["faults"] = @ - 1]
    BY <1>13 DEF Discard, Fault, Spend
  <2>2. Sound /\ ~Clean'
    BY <1>2, <2>1 DEF Clean
  <2>3. QED
    BY <1>1, <2>1, <2>2 DEF CleanAt, sender
<1>14. ASSUME UNCHANGED vars
       PROVE  Sound /\ CleanAt(q)'
  <2>1. UNCHANGED <<retain, sent, awaiting_ack, line, read_buffer, budget>>
    BY <1>14 DEF vars, sender
  <2>2. QED
    BY <1>2, <1>6, <2>1 DEF Clean
<1>15. Sound /\ \E p : CleanAt(p)'
  BY <1>4, <1>7, <1>8, <1>9, <1>10, <1>11, <1>12, <1>13, <1>14 DEF Next
<1>16. QED
  BY <1>2, <1>15 DEF CleanInv

\* On a line without a fault or a discard every frame is found again, between log
\* text and control frames, whatever bytes are in the payloads: nothing is rejected.
THEOREM CleanReading == Spec => CleanLineIsRead
<1>1. Init => CleanInv
  <2>1. SUFFICES ASSUME Init
                 PROVE  CleanInv
    OBVIOUS
  <2>2. TypeOK
    BY <2>1, InitInv DEF IInv
  <2>3. /\ awaiting_ack = FALSE /\ read_buffer = << >> /\ line = << >> /\ sent = << >>
        /\ budget.faults = MaxFaults /\ budget.discards = MaxDiscards
    BY <2>1 DEF Init
  <2> DEFINE z == << >>
  <2>4. Len(z) = 0 /\ z \in Seq(SeqNo) /\ z \in Seq(Tag)
    OBVIOUS
  <2>5. InStepCarried(z, z, z, z)
    <3> HIDE DEF z
    <3>1. OnLine(z, z, z, 0, z, 0)
      BY <2>4 DEF OnLine
    <3>2. InStep(z, z)
      BY DEF InStep, z
    <3>3. QED
      BY <3>1, <3>2 DEF InStepCarried
  <2>6. CleanAt(z)
    BY <2>3, <2>4, <2>5 DEF CleanAt
  <2> HIDE DEF z
  <2>7. budget.faults <= MaxFaults /\ budget.discards <= MaxDiscards
    BY <2>3, BoundAssumption
  <2>8. QED
    BY <2>2, <2>6, <2>7 DEF CleanInv
<1>2. CleanInv /\ [Next]_vars => CleanInv'
  BY CleanStep
<1>3. CleanInv => (Clean => ~GetOverflow /\ ~RejectLength /\ ~GetCrcError)
  BY CleanRejects
<1>4. QED
  BY <1>1, <1>2, <1>3, PTL DEF Spec, CleanLineIsRead, Clean

=============================================================================
