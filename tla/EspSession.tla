------------------------------ MODULE EspSession ------------------------------
(***************************************************************************)
(* A link whose end A is an EspSerialSession (EspSerialSession.cs, the PC)   *)
(* and whose end B, the board, uses the library as in FrameArq.  The session *)
(* has an ARQ of its own, a queue of messages, and several threads:          *)
(*                                                                         *)
(*   - the callers of Send (and of Resend, in explicit mode);               *)
(*   - the read task, which handles one frame at a time;                    *)
(*   - the callbacks of the ack timer, each on a thread of the pool.        *)
(*                                                                         *)
(* A thread decides what to write while it holds _arq, and writes it later,  *)
(* holding _sendLock only: an action is one critical section of _arq, or    *)
(* one WriteFrame.  Open, Close and Dispose are not in this module.          *)
(*                                                                         *)
(* Definitions whose name ends in _ are faulty forms, as in FrameArq.       *)
(***************************************************************************)
EXTENDS FrameArq

CONSTANTS
    Caller,         \* threads that call Send
    Callback,       \* callbacks of the timer that may run at a time
    Reader,         \* the read task
    MaxRetries,     \* _maxRetries, timeouts before FrameError is raised
    AckTimeouts,    \* what _ackTimeoutMs can be set to: "timer" (> 0),
                    \* "none" (0) or "explicit" (< 0)
    MaxChanges      \* bound: times AckTimeout is set

Thread == Caller \cup Callback \cup {Reader}

ASSUME ThreadAssumption ==
    /\ Caller \cap Callback = {}
    /\ Reader \notin Caller \cup Callback
ASSUME RetryAssumption == MaxRetries \in Nat /\ MaxChanges \in Nat
ASSUME TimeoutAssumption == AckTimeouts \subseteq {"timer", "none", "explicit"}

VARIABLES
    queue,          \* _sendQueue
    ackTimeout,     \* _ackTimeoutMs
    armed,          \* _ackTimer is running
    due,            \* callbacks that fired and have not got _arq yet
    retries,        \* _retries, counted up to MaxRetries
    notified,       \* _deliveryNotified
    writing,        \* writing[t]: what t is about to write
    failing,        \* failing[t]: the number of the frame t is about to report, or 0
    holding,        \* the DATA frame the read task has ACKed, not handed over
    asked,          \* ResendRequested was raised, Resend not called since
    accepted,       \* history: messages given to Send
    failed,         \* history: the numbers of the frames reported by FrameError
    changes         \* times AckTimeout was set

timerVars == <<ackTimeout, armed, due, changes>>
reportVars == <<retries, notified, failing, failed>>
threadVars == <<writing, holding, asked>>
sessionVars == <<queue, accepted, timerVars, reportVars, threadVars>>
allVars == <<vars, sessionVars>>

SessionInit ==
    /\ Init
    /\ queue = << >> /\ accepted = << >>
    /\ ackTimeout \in AckTimeouts
    /\ armed = FALSE /\ due = {} /\ changes = 0
    /\ retries = 0 /\ notified = FALSE
    /\ writing = [t \in Thread |-> NoFrame]
    /\ failing = [t \in Thread |-> 0] /\ failed = {}
    /\ holding = NoFrame /\ asked = FALSE

Idle(t) == writing[t] = NoFrame /\ failing[t] = 0

\* The number of the frame in _retain, which FrameErrorEventArgs is made of.
Retained == Len(sent[A])

-----------------------------------------------------------------------------
(***************************************************************************)
(* Critical sections of _arq.                                              *)
(***************************************************************************)

\* The timer not started, or started before it is stopped.
PrepareTransmit_(t, m) ==
    LET f == Data(Succ(tx_seq[A]), m) IN
    /\ tx_seq' = [tx_seq EXCEPT ![A] = f.seq]
    /\ retain' = [retain EXCEPT ![A] = f]
    /\ awaiting_ack' = [awaiting_ack EXCEPT ![A] = TRUE]
    /\ retries' = 0 /\ notified' = FALSE
    /\ armed' = FALSE
    /\ writing' = [writing EXCEPT ![t] = f]
    /\ sent' = [sent EXCEPT ![A] = Append(@, m)]

\* PrepareTransmit, by thread t (the timer is off when it is called).
PrepareTransmit(t, m) ==
    LET f == Data(Succ(tx_seq[A]), m) IN
    /\ tx_seq' = [tx_seq EXCEPT ![A] = f.seq]
    /\ retain' = [retain EXCEPT ![A] = f]
    /\ awaiting_ack' = [awaiting_ack EXCEPT ![A] = TRUE]
    /\ retries' = 0
    /\ notified' = FALSE
    /\ armed' = (ackTimeout = "timer")
    /\ writing' = [writing EXCEPT ![t] = f]
    /\ sent' = [sent EXCEPT ![A] = Append(@, m)]

\* A queue that is looked at before the frame in flight.
Send_(t, m) ==
    /\ t \in Caller /\ Idle(t)
    /\ Len(accepted) < MaxPut[A]
    /\ accepted' = Append(accepted, m)
    /\ IF awaiting_ack[A] /\ queue # << >>
       THEN /\ queue' = Append(queue, m)
            /\ UNCHANGED <<tx_seq, retain, awaiting_ack, retries, notified, armed,
                           writing, sent>>
       ELSE PrepareTransmit(t, m) /\ UNCHANGED queue
    /\ UNCHANGED <<expected_rx_seq, resend_needed, wire, got, ackTimeout, due,
                   changes, failing, failed, holding, asked>>

\* Send: transmit, or wait for the frame in flight.
Send(t, m) ==
    /\ t \in Caller /\ Idle(t)
    /\ Len(accepted) < MaxPut[A]
    /\ accepted' = Append(accepted, m)
    /\ \/ /\ awaiting_ack[A]
          /\ queue' = Append(queue, m)
          /\ UNCHANGED <<tx_seq, retain, awaiting_ack, retries, notified, armed,
                         writing, sent>>
       \/ /\ ~awaiting_ack[A]
          /\ PrepareTransmit(t, m)
          /\ UNCHANGED queue
    /\ UNCHANGED <<expected_rx_seq, resend_needed, wire, got, ackTimeout, due,
                   changes, failing, failed, holding, asked>>

\* Resend, called after ResendRequested.
Resume(t) ==
    /\ t \in Caller /\ Idle(t)
    /\ asked
    /\ asked' = FALSE
    /\ writing' = [writing EXCEPT ![t] = IF awaiting_ack[A] THEN retain[A] ELSE NoFrame]
    /\ UNCHANGED <<vars, queue, accepted, timerVars, reportVars, holding>>

\* The read task is at the head of its loop, with a frame of this kind.
Ready == Idle(Reader) /\ holding = NoFrame
Reading(kind) == Ready /\ HeadIs(A, kind)

TakeHead == wire' = [wire EXCEPT ![A] = Tail(@)]

\* The queue left alone.
HandleAck_ ==
    /\ Reading("ack")
    /\ TakeHead
    /\ awaiting_ack' = [awaiting_ack EXCEPT ![A] = @ /\ ~Frees(A, Head(wire[A]))]
    /\ armed' = (armed /\ ~Frees(A, Head(wire[A])))
    /\ UNCHANGED <<tx_seq, expected_rx_seq, resend_needed, retain, sent, got, queue,
                   accepted, ackTimeout, due, changes, reportVars, threadVars>>

\* HandleAck.
HandleAck ==
    /\ Reading("ack")
    /\ TakeHead
    /\ \/ /\ ~Frees(A, Head(wire[A]))
          /\ UNCHANGED <<arqVars, sent, queue, armed, retries, notified, writing>>
       \/ /\ Frees(A, Head(wire[A])) /\ queue = << >>
          /\ awaiting_ack' = [awaiting_ack EXCEPT ![A] = FALSE]
          /\ armed' = FALSE
          /\ UNCHANGED <<tx_seq, expected_rx_seq, resend_needed, retain, sent,
                         queue, retries, notified, writing>>
       \/ /\ Frees(A, Head(wire[A])) /\ queue # << >>
          /\ PrepareTransmit(Reader, Head(queue))
          /\ queue' = Tail(queue)
          /\ UNCHANGED <<expected_rx_seq, resend_needed>>
    /\ UNCHANGED <<got, accepted, ackTimeout, due, changes, failing, failed,
                   holding, asked>>

\* HandleNack, with the Resend it calls.
HandleNack ==
    /\ Reading("nack")
    /\ TakeHead
    /\ asked' = (asked \/ (awaiting_ack[A] /\ ackTimeout = "explicit"))
    /\ writing' = [writing EXCEPT ![Reader] =
          IF awaiting_ack[A] /\ ackTimeout # "explicit" THEN retain[A] ELSE NoFrame]
    /\ UNCHANGED <<arqVars, sent, got, queue, accepted, timerVars, reportVars,
                   holding>>

\* The timer runs out (and is not periodic).  A patient one waits until nothing
\* is on its way.
TimerFires(c) ==
    /\ armed
    /\ c \in Callback \ due /\ Idle(c)
    /\ \/ Impatient
       \/ /\ wire[A] = << >> /\ wire[B] = << >>
          /\ \A t \in Thread : Idle(t)
    /\ armed' = FALSE
    /\ due' = due \cup {c}
    /\ UNCHANGED <<vars, queue, accepted, ackTimeout, changes, reportVars, threadVars>>

\* _deliveryNotified not looked at; and the timer not started again.
OnAckTimeoutReports_(c) ==
    /\ c \in due
    /\ due' = due \ {c}
    /\ \/ /\ ~awaiting_ack[A] \/ ackTimeout # "timer"
          /\ UNCHANGED <<retries, notified, failing, armed, writing>>
       \/ /\ awaiting_ack[A] /\ ackTimeout = "timer"
          /\ writing' = [writing EXCEPT ![c] = retain[A]]
          /\ retries' = IF retries < MaxRetries THEN retries + 1 ELSE retries
          /\ notified' = (notified \/ retries' >= MaxRetries)
          /\ failing' = [failing EXCEPT ![c] = IF notified' THEN Retained ELSE 0]
          /\ armed' = TRUE
    /\ UNCHANGED <<vars, queue, accepted, ackTimeout, changes, failed, holding, asked>>

OnAckTimeoutOnce_(c) ==
    /\ c \in due
    /\ due' = due \ {c}
    /\ writing' = [writing EXCEPT ![c] = IF awaiting_ack[A] THEN retain[A] ELSE NoFrame]
    /\ UNCHANGED <<vars, queue, accepted, armed, ackTimeout, changes, reportVars,
                   holding, asked>>

\* OnAckTimeout, up to the end of its critical section.
OnAckTimeout(c) ==
    /\ c \in due
    /\ due' = due \ {c}
    /\ \/ /\ ~awaiting_ack[A] \/ ackTimeout # "timer"
          /\ UNCHANGED <<retries, notified, failing, armed, writing>>
       \/ /\ awaiting_ack[A] /\ ackTimeout = "timer"
          /\ writing' = [writing EXCEPT ![c] = retain[A]]
          /\ retries' = IF retries < MaxRetries THEN retries + 1 ELSE retries
          /\ notified' = (notified \/ retries' >= MaxRetries)
          /\ failing' = [failing EXCEPT ![c] =
                IF notified' /\ ~notified THEN Retained ELSE 0]
          /\ armed' = TRUE
    /\ UNCHANGED <<vars, queue, accepted, ackTimeout, changes, failed, holding, asked>>

\* The AckTimeout property is set.
SetAckTimeout(v) ==
    /\ changes < MaxChanges
    /\ v # ackTimeout
    /\ changes' = changes + 1
    /\ ackTimeout' = v
    /\ UNCHANGED <<vars, queue, accepted, armed, due, reportVars, threadVars>>

-----------------------------------------------------------------------------
(***************************************************************************)
(* Outside the critical sections.                                          *)
(***************************************************************************)

\* WriteFrame: one whole frame, under _sendLock.
WriteFrame(t) ==
    /\ writing[t] # NoFrame
    /\ wire' = [wire EXCEPT ![B] = Transmit(@, writing[t])]
    /\ writing' = [writing EXCEPT ![t] = NoFrame]
    /\ UNCHANGED <<arqVars, sent, got, queue, accepted, timerVars, reportVars,
                   holding, asked>>

\* OnFrameError, when the callback has written its frame.
OnFrameError(t) ==
    /\ writing[t] = NoFrame /\ failing[t] # 0
    /\ failed' = failed \cup {failing[t]}
    /\ failing' = [failing EXCEPT ![t] = 0]
    /\ UNCHANGED <<vars, queue, accepted, timerVars, retries, notified, threadVars>>

\* DispatchValidFrame on a DATA frame, up to SendControl.
DispatchData ==
    /\ Reading("data")
    /\ TakeHead
    /\ LET f == Head(wire[A]) IN
       /\ writing' = [writing EXCEPT ![Reader] =
             IF IsNew(A, f) \/ IsRepeat(A, f) THEN Ack(f.seq)
             ELSE Nack(expected_rx_seq[A])]
       /\ holding' = IF IsNew(A, f) THEN f ELSE NoFrame
    /\ UNCHANGED <<arqVars, sent, got, queue, accepted, timerVars, reportVars, asked>>

\* The rest of it, when the ACK is written: advance, and OnFrameReceived.
OnFrameReceived ==
    /\ Idle(Reader) /\ holding # NoFrame
    /\ expected_rx_seq' = [expected_rx_seq EXCEPT ![A] = Succ(holding.seq)]
    /\ got' = [got EXCEPT ![A] = Append(@, holding.msg)]
    /\ holding' = NoFrame
    /\ UNCHANGED <<tx_seq, awaiting_ack, resend_needed, retain, wire, sent, queue,
                   accepted, timerVars, reportVars, writing, asked>>

\* The read task finds that the CRC does not match.
RejectCrc ==
    /\ Ready /\ wire[A] # << >>
    /\ TakeHead
    /\ writing' = [writing EXCEPT ![Reader] = Nack(expected_rx_seq[A])]
    /\ UNCHANGED <<arqVars, sent, got, queue, accepted, timerVars, reportVars,
                   holding, asked>>

-----------------------------------------------------------------------------
ReadTask ==
    \/ HandleAck \/ HandleNack \/ DispatchData \/ OnFrameReceived \/ WriteFrame(Reader)

\* What the board does, as in FrameArq.
Board ==
    /\ \/ \E m \in Payload : Put(B, m)
       \/ Resend(B)
       \/ Get(B)
       \/ GetCrcError(B)
    /\ UNCHANGED sessionVars

\* A frame lost on the way is missed when the reader comes to it.
LineLoss ==
    /\ \/ Lose(B)
       \/ Lose(A) /\ Ready
    /\ UNCHANGED sessionVars

SessionNext ==
    \/ \E t \in Caller : Resume(t) \/ \E m \in Payload : Send(t, m)
    \/ \E v \in AckTimeouts : SetAckTimeout(v)
    \/ \E c \in Callback : TimerFires(c) \/ OnAckTimeout(c)
    \/ \E t \in Thread : OnFrameError(t) \/ WriteFrame(t)
    \/ HandleAck \/ HandleNack \/ DispatchData \/ OnFrameReceived \/ RejectCrc
    \/ Board
    \/ LineLoss

SessionSpec == SessionInit /\ [][SessionNext]_allVars

\* What callback c has to do, once it has fired.
RunCallback(c) == OnAckTimeout(c) \/ WriteFrame(c) \/ OnFrameError(c)

\* What the board's loop does without being asked: read, and resend in time.
Polling == (Get(B) \/ Resend(B)) /\ UNCHANGED sessionVars

\* The threads get the locks they wait for, the timer runs out, and the board and
\* the line are as in FrameArq.
SessionFairSpec ==
    /\ SessionSpec
    /\ WF_allVars(ReadTask)
    /\ WF_allVars(\E c \in Callback : TimerFires(c))
    /\ \A t \in Caller : WF_allVars(WriteFrame(t))
    /\ \A c \in Callback : WF_allVars(RunCallback(c))
    /\ SF_allVars(HandleAck)
    /\ SF_allVars(HandleNack)
    /\ SF_allVars(DispatchData)
    /\ WF_allVars(Polling)
    /\ SF_allVars(GetAck(B) /\ UNCHANGED sessionVars)
    /\ SF_allVars(GetNack(B) /\ UNCHANGED sessionVars)
    /\ SF_allVars(GetData(B) /\ UNCHANGED sessionVars)
    /\ SF_allVars(GetDuplicate(B) /\ UNCHANGED sessionVars)

-----------------------------------------------------------------------------
(***************************************************************************)
(* Properties.                                                             *)
(***************************************************************************)

\* Every variable keeps its type.
SessionTypeOK ==
    /\ TypeOK
    /\ queue \in Seq(Payload) /\ accepted \in Seq(Payload)
    /\ ackTimeout \in AckTimeouts /\ changes \in 0 .. MaxChanges
    /\ armed \in BOOLEAN /\ asked \in BOOLEAN /\ notified \in BOOLEAN
    /\ due \subseteq Callback
    /\ retries \in 0 .. MaxRetries
    /\ writing \in [Thread -> Frame \cup {NoFrame}]
    /\ failing \in [Thread -> Nat] /\ failed \subseteq Nat
    /\ holding \in DataFrame \cup {NoFrame}

\* Messages are transmitted in the order Send took them, none dropped, and one
\* that waits in the queue has a frame in flight ahead of it, whose ACK will send
\* it: no order of Send and HandleAck forgets the queue.
QueueKeepsOrder ==
    /\ accepted = sent[A] \o queue
    /\ queue # << >> => awaiting_ack[A]

\* What OnFrameReceived hands over, with the frame that is ACKed already.
Received == IF holding = NoFrame THEN got[A] ELSE Append(got[A], holding.msg)

ToSession == INSTANCE ReliableLink
                WITH sent <- sent[B], got <- Received, busy <- awaiting_ack[B]

FromSession == INSTANCE QueuedLink
                  WITH got <- got[B],
                       confirmed <- Len(sent[A]) - IF awaiting_ack[A] THEN 1 ELSE 0

\* Both directions implement an abstract link, although a thread may write a
\* frame long after it left _arq: late copies are neither delivered nor taken
\* for the ACK of another frame (as long as fewer than SeqMod frames pass).
SessionLinkImplemented == FromSession!Spec /\ ToSession!Spec

\* The timer "never stops on its own; only an ACK or Close() ends it": as long
\* as a frame is in flight the timer runs or its callback is about to start it
\* again, and without one it is off - unless AckTimeout is changed meanwhile.
TimerGuards ==
    /\ changes = 0 /\ awaiting_ack[A] /\ ackTimeout = "timer" => armed \/ due # {}
    /\ armed => awaiting_ack[A]

\* FrameError is a "one-shot" notice: no frame is reported twice, however the
\* callbacks overlap.
ReportedOnce ==
    \A t \in Thread : failing[t] # 0 =>
        /\ failing[t] \notin failed
        /\ \A u \in Thread \ {t} : failing[u] # failing[t]

\* What Send takes is delivered and confirmed, on a line with losses.
QueuedDelivery == FromSession!FairSpec

=============================================================================
