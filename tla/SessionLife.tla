------------------------------ MODULE SessionLife ------------------------------
(***************************************************************************)
(* The life of an EspSerialSession (EspSerialSession.cs): Open, Close,       *)
(* Dispose and suspend, against the threads that are at work meanwhile.      *)
(*                                                                         *)
(* A thread is a stack of what it has yet to do, the first label next:       *)
(* todo[t].  A handle is the number of the CreateFile that made it; each has *)
(* a read loop and a status loop, which end on their own.  A message is      *)
(* known by the session in which Send took it.  What the ARQ does within a   *)
(* session is the subject of EspSession.                                     *)
(*                                                                         *)
(* Definitions whose name ends in _ are faulty forms, as in FrameArq.       *)
(***************************************************************************)
EXTENDS Integers, Sequences

CONSTANTS
    MaxOpens,       \* bound: successful CreateFile calls
    MaxEvents       \* bound: frames read and sent, timeouts, suspends, unplugging,
                    \* and an Open that throws

ASSUME LifeAssumption == MaxOpens \in Nat /\ MaxEvents \in Nat

VARIABLES
    handle,         \* _handle and _boundHandle: the last one created, 0 = null
    closed,         \* the handles that are disposed of
    opened,         \* the handles whose Open got as far as its two tasks
    lost,           \* the handle whose device was pulled out, 0 = none
    closing,        \* _closing
    fired,          \* _connErrorFired
    disposed,       \* _disposed
    powered,        \* _powerNotifyHandle is registered
    todo,           \* todo[t]: what thread t has yet to do
    io,             \* io[t]: the handle on which a call of t is pending, 0 = none
    waited,         \* the status loops that waited for an event at least once
    sendLock,       \* the thread that holds _sendLock
    awaiting,       \* _awaiting
    retain,         \* _retain: the session of the message in it, 0 = null
    queue,          \* _sendQueue: the sessions of its messages
    timer,          \* _ackTimer: null, off or on
    session,        \* history: times Open reset the ARQ state
    frame,          \* frame[t]: the session of the message t has in hand to write
    taken,          \* history, taken[t]: the session in which t took it
    raised,         \* history: the threads that raised ConnectionError since Open began
    overlapped,     \* history: a Close began while another was under way
    crashed,        \* history: an exception nobody catches ended the process
    events          \* counted up to MaxEvents

arqVars == <<awaiting, retain, queue, timer, session>>
flagVars == <<closing, fired, disposed, powered, raised>>
handleVars == <<handle, closed, opened, lost>>
taskVars == <<todo, io, waited, sendLock>>
handVars == <<frame, taken>>
restVars == <<overlapped, crashed, events>>
vars == <<arqVars, flagVars, handleVars, taskVars, handVars, restVars>>

Handle == 1 .. MaxOpens
App == <<"app", 0>>             \* the thread that opens, closes and sends
Timeout == <<"timeout", 0>>     \* a callback of the ack timer
Pool == <<"pool", 0>>           \* the work item of OnSuspend
ReadLoop(h) == <<"read", h>>    \* _readTask
StatLoop(h) == <<"stat", h>>    \* _statTask
Loop == {"read", "stat"} \X Handle
Thread == {App, Timeout, Pool} \cup Loop
Nobody == <<"nobody", 0>>

Init ==
    /\ handle = 0 /\ closed = {} /\ opened = {} /\ lost = 0
    /\ closing = FALSE /\ fired = FALSE /\ disposed = FALSE /\ powered = FALSE
    /\ raised = {} /\ overlapped = FALSE /\ crashed = FALSE /\ events = 0
    /\ todo = [t \in Thread |-> << >>] /\ io = [t \in Thread |-> 0]
    /\ waited = {} /\ sendLock = Nobody
    /\ awaiting = FALSE /\ retain = 0 /\ queue = << >> /\ timer = "off"
    /\ session = 0 /\ frame = [t \in Thread |-> 0] /\ taken = [t \in Thread |-> 0]

IsOpen == handle # 0 /\ handle \notin closed

Idle(t) == todo[t] = << >>
At(t, label) == ~Idle(t) /\ Head(todo[t]) = label
Ahead(t, label) == \E i \in DOMAIN todo[t] : todo[t][i] = label

\* Thread t does these instead of what it was at.
Go(t, labels) == todo' = [todo EXCEPT ![t] = labels \o Tail(@)]

\* _sendLock, if t holds it, is free again.
Unlock(t) == sendLock' = IF sendLock = t THEN Nobody ELSE sendLock

Event == events < MaxEvents /\ events' = events + 1

\* A write that fails ends in the handler of Win32Exception, under _sendLock.
Failed == <<"check", "dispose">>

\* A call of t on the handle is under way.
Calling(t, label) == handle # 0 /\ io[t] = handle /\ At(t, label)

\* Thread u goes on to these labels, and CancelIoEx, or the end of the handle,
\* ends the pending calls of the others.
Abort(u, labels) ==
    /\ todo' = [t \in Thread |->
          CASE t = u -> labels
            [] t # u /\ Calling(t, "pending") -> <<"catch">>
            [] t # u /\ Calling(t, "writing") -> Failed \o Tail(todo[t])
            [] OTHER -> todo[t]]
    /\ io' = [t \in Thread |-> IF io[t] = handle THEN 0 ELSE io[t]]
    /\ UNCHANGED <<waited, sendLock>>

-----------------------------------------------------------------------------
(***************************************************************************)
(* Open.                                                                   *)
(***************************************************************************)

\* _connErrorFired left as it is.
Open_ ==
    /\ Idle(App) /\ handle < MaxOpens
    /\ ~IsOpen
    /\ closing' = FALSE /\ raised' = {}
    /\ todo' = [todo EXCEPT ![App] = <<"clear", "create">>]
    /\ UNCHANGED <<arqVars, fired, disposed, powered, handleVars, io, waited, sendLock,
                   restVars, handVars>>

\* Open, on a session that is not open (on one that is, it returns).
Open ==
    /\ Idle(App) /\ handle < MaxOpens
    /\ ~IsOpen
    /\ closing' = FALSE /\ fired' = FALSE /\ raised' = {}
    /\ todo' = [todo EXCEPT ![App] = <<"clear", "create">>]
    /\ UNCHANGED <<arqVars, disposed, powered, handleVars, io, waited, sendLock,
                   restVars, handVars>>

\* The frame in flight is left as it is.
ClearArq_ ==
    /\ At(App, "clear")
    /\ Go(App, << >>)
    /\ queue' = << >> /\ session' = session + 1
    /\ timer' = IF timer = "null" THEN "off" ELSE timer
    /\ UNCHANGED <<awaiting, retain, flagVars, handleVars, io, waited, sendLock,
                   restVars, handVars>>

\* Under _arq: a new session, with the timer of the last one, if there is one.
ClearArq ==
    /\ At(App, "clear")
    /\ Go(App, << >>)
    /\ awaiting' = FALSE /\ queue' = << >> /\ session' = session + 1
    /\ timer' = IF timer = "null" THEN "off" ELSE timer
    /\ UNCHANGED <<retain, flagVars, handleVars, io, waited, sendLock, restVars, handVars>>

\* CreateFile, the parameters of the port, the notification and the two tasks.
\* Open may throw before the first, or after it, with a handle that nobody reads.
CreateHandle ==
    /\ At(App, "create")
    /\ \/ /\ Event
          /\ handle' \in {handle, handle + 1}
          /\ Go(App, << >>)
          /\ UNCHANGED <<opened, powered>>
       \/ /\ handle' = handle + 1
          /\ todo' = [todo EXCEPT ![App] = Tail(@),
                                   ![ReadLoop(handle')] = <<"top">>,
                                   ![StatLoop(handle')] = <<"top">>]
          /\ opened' = opened \cup {handle'}
          /\ powered' = TRUE
          /\ UNCHANGED events
    /\ UNCHANGED <<arqVars, closing, fired, disposed, raised, closed, lost, io, waited,
                   sendLock, overlapped, crashed, handVars>>

-----------------------------------------------------------------------------
(***************************************************************************)
(* Close, Dispose and OnConnectionError, by any thread.                    *)
(***************************************************************************)

\* The application calls Close or Dispose.
CallClose ==
    /\ Idle(App)
    /\ Event
    /\ \E call \in {"close", "dispose"} : todo' = [todo EXCEPT ![App] = <<call>>]
    /\ UNCHANGED <<arqVars, flagVars, handleVars, io, waited, sendLock, overlapped,
                   crashed, handVars>>

\* Close up to its early return; then does what follows it.
EnterClose(t, then) ==
    /\ powered' = FALSE
    /\ Go(t, (IF IsOpen THEN <<"cancel", "release", "reset">> ELSE << >>) \o then)
    /\ overlapped' = (overlapped \/ (IsOpen /\ \E u \in Thread : Ahead(u, "release")))
    /\ UNCHANGED <<arqVars, closing, fired, disposed, raised, handleVars, io, waited,
                   sendLock, crashed, events, handVars>>

Close(t) == At(t, "close") /\ EnterClose(t, << >>)

\* Dispose(true), which begins with a Close.
Dispose(t) == At(t, "dispose") /\ ~disposed /\ EnterClose(t, <<"disposed">>)

DisposedAlready(t) ==
    /\ At(t, "dispose") /\ disposed
    /\ Go(t, << >>)
    /\ Unlock(t)
    /\ UNCHANGED <<arqVars, flagVars, handleVars, io, waited, restVars, handVars>>

\* _closing is set, and CancelIoEx.
Cancel(t) ==
    /\ At(t, "cancel")
    /\ closing' = TRUE
    /\ Abort(t, Tail(todo[t]))
    /\ UNCHANGED <<arqVars, fired, disposed, powered, raised, handleVars, restVars,
                   handVars>>

\* A task whose Status is Running, which the read task never is, and the status
\* task from its start until it waits for the first time.
Running(h) ==
    h \in opened /\ h \notin waited /\ ~Idle(StatLoop(h)) /\ ~At(StatLoop(h), "top")

\* After a connection error Close waits for a Running task - for ever, if it runs
\* in that task itself.  Then the handles are disposed of.
Release(t) ==
    /\ At(t, "release")
    /\ ~(fired /\ Running(handle))
    /\ closed' = closed \cup {handle}
    /\ Abort(t, Tail(todo[t]))
    /\ UNCHANGED <<arqVars, flagVars, handle, opened, lost, restVars, handVars>>

\* The flags are set back.
ResetFlags(t) ==
    /\ At(t, "reset")
    /\ closing' = FALSE /\ fired' = FALSE
    /\ Go(t, << >>)
    /\ UNCHANGED <<arqVars, disposed, powered, raised, handleVars, io, waited, sendLock,
                   restVars, handVars>>

\* The rest of Dispose, and of the write that failed, if that is what called it.
Disposed(t) ==
    /\ At(t, "disposed")
    /\ timer' = "null" /\ awaiting' = FALSE /\ queue' = << >>
    /\ powered' = FALSE /\ disposed' = TRUE
    /\ Go(t, << >>)
    /\ Unlock(t)
    /\ UNCHANGED <<retain, session, closing, fired, raised, handleVars, io, waited,
                   restVars, handVars>>

\* OnConnectionError: it looks whether the event was raised before,
Check(t) ==
    /\ At(t, "check")
    /\ Go(t, IF disposed \/ fired THEN << >> ELSE <<"raise">>)
    /\ UNCHANGED <<arqVars, flagVars, handleVars, io, waited, sendLock, restVars, handVars>>

\* and raises it; the application's handler may call Close.
Raise(t) ==
    /\ At(t, "raise")
    /\ fired' = TRUE /\ raised' = raised \cup {t}
    /\ \/ Go(t, << >>) /\ UNCHANGED events
       \/ Go(t, <<"close">>) /\ Event
    /\ UNCHANGED <<arqVars, closing, disposed, powered, handleVars, io, waited, sendLock,
                   overlapped, crashed, handVars>>

-----------------------------------------------------------------------------
(***************************************************************************)
(* The loops.                                                              *)
(***************************************************************************)

\* The loops' condition.
Top(t) ==
    /\ At(t, "top")
    /\ Go(t, IF closing THEN << >> ELSE <<"issue">>)
    /\ UNCHANGED <<arqVars, flagVars, handleVars, io, waited, sendLock, restVars, handVars>>

\* ReadAsync or WaitCommEventAsync: it throws, or the call is pending and the
\* thread goes back to the pool.
Issue(t) ==
    /\ At(t, "issue")
    /\ \/ /\ ~IsOpen \/ lost = handle
          /\ Go(t, <<"catch">>)
          /\ UNCHANGED <<io, waited>>
       \/ /\ IsOpen /\ lost # handle
          /\ Go(t, <<"pending">>)
          /\ io' = [io EXCEPT ![t] = handle]
          /\ waited' = IF t[1] = "stat" THEN waited \cup {t[2]} ELSE waited
    /\ UNCHANGED <<arqVars, flagVars, handleVars, sendLock, restVars, handVars>>

\* A frame is read.
ReadEnds(t) ==
    /\ At(t, "pending") /\ t[1] = "read" /\ lost # io[t]
    /\ Event
    /\ io' = [io EXCEPT ![t] = 0]
    /\ Go(t, <<"frame">>)
    /\ UNCHANGED <<arqVars, flagVars, handleVars, waited, sendLock, overlapped, crashed,
                   handVars>>

\* The device is gone: the call ends with an error, or the carrier's event.
CallFails(t) ==
    /\ At(t, "pending") /\ lost = io[t]
    /\ io' = [io EXCEPT ![t] = 0]
    /\ \/ Go(t, <<"catch">>)
       \/ /\ t[1] = "stat"
          /\ Go(t, IF closing THEN <<"top">> ELSE <<"check">>)
    /\ UNCHANGED <<arqVars, flagVars, handleVars, waited, sendLock, restVars, handVars>>

\* The exception is swallowed.
Catch_(t) ==
    /\ At(t, "catch")
    /\ Go(t, << >>)
    /\ UNCHANGED <<arqVars, flagVars, handleVars, io, waited, sendLock, restVars, handVars>>

\* The handler of every exception, with the beginning of OnConnectionError: the
\* loop ends.
Catch(t) ==
    /\ At(t, "catch")
    /\ Go(t, IF closing \/ disposed \/ fired THEN << >> ELSE <<"raise">>)
    /\ UNCHANGED <<arqVars, flagVars, handleVars, io, waited, sendLock, restVars, handVars>>

\* PrepareTransmit.
Prepare(s) ==
    /\ retain' = s
    /\ awaiting' = TRUE
    /\ timer' = IF timer = "null" THEN timer ELSE "on"

\* Under _arq, t takes a message of session s in hand; it writes it after the unlock.
Take(t, s) ==
    /\ frame' = [frame EXCEPT ![t] = s]
    /\ taken' = [taken EXCEPT ![t] = session]

\* And has none any more.
LetGo(t) ==
    /\ frame' = [frame EXCEPT ![t] = 0]
    /\ taken' = [taken EXCEPT ![t] = 0]

\* The read loop looks at _closing again; the frame is answered, or is the ACK of the
\* frame in flight, or a NACK while one is, or one that changes nothing (as a NACK
\* does in the explicit mode, where it is the application that resends).
HandleFrame(t) ==
    /\ At(t, "frame")
    /\ \/ /\ closing
          /\ Go(t, << >>)
          /\ UNCHANGED <<arqVars, handVars>>
       \/ /\ ~closing
          /\ \E answer \in {<<"top">>, <<"control", "top">>} : Go(t, answer)
          /\ UNCHANGED <<arqVars, handVars>>
       \/ /\ ~closing /\ awaiting
          /\ Go(t, <<"resend", "top">>)
          /\ UNCHANGED <<arqVars, handVars>>
       \/ /\ ~closing /\ awaiting /\ queue = << >>
          /\ awaiting' = FALSE
          /\ timer' = IF timer = "null" THEN timer ELSE "off"
          /\ Go(t, <<"top">>)
          /\ UNCHANGED <<queue, retain, session, handVars>>
       \/ /\ ~closing /\ awaiting /\ queue # << >>
          /\ Prepare(Head(queue))
          /\ queue' = Tail(queue)
          /\ Take(t, Head(queue))
          /\ Go(t, <<"data", "top">>)
          /\ UNCHANGED session
    /\ UNCHANGED <<flagVars, handleVars, io, waited, sendLock, restVars>>

\* The application calls Resend, which it does in the explicit mode.
CallResend ==
    /\ Idle(App)
    /\ Event
    /\ todo' = [todo EXCEPT ![App] = <<"resend">>]
    /\ UNCHANGED <<arqVars, flagVars, handleVars, io, waited, sendLock, overlapped, crashed,
                   handVars>>

\* Resend, after a NACK under another lock of _arq than HandleNack's.
Resend(t) ==
    /\ At(t, "resend")
    /\ \/ /\ awaiting
          /\ Take(t, retain)
          /\ Go(t, <<"data">>)
       \/ /\ ~awaiting
          /\ Go(t, << >>)
          /\ UNCHANGED handVars
    /\ UNCHANGED <<arqVars, flagVars, handleVars, io, waited, sendLock, restVars>>

-----------------------------------------------------------------------------
(***************************************************************************)
(* Writing.                                                                *)
(***************************************************************************)

\* Send, whether the session is open or not; the first of a session is free.
Send ==
    /\ Idle(App)
    /\ IF retain = session THEN Event ELSE UNCHANGED events
    /\ \/ /\ awaiting
          /\ queue' = Append(queue, session)
          /\ UNCHANGED <<awaiting, retain, timer, todo, handVars>>
       \/ /\ ~awaiting
          /\ Prepare(session)
          /\ Take(App, session)
          /\ todo' = [todo EXCEPT ![App] = <<"data">>]
          /\ UNCHANGED queue
    /\ UNCHANGED <<session, flagVars, handleVars, io, waited, sendLock, overlapped,
                   crashed>>

\* The timer runs out.
TimerFires ==
    /\ timer = "on" /\ Idle(Timeout)
    /\ Event
    /\ timer' = "off"
    /\ todo' = [todo EXCEPT ![Timeout] = <<"callback">>]
    /\ UNCHANGED <<awaiting, retain, queue, session, flagVars, handleVars, io, waited,
                   sendLock, overlapped, crashed, handVars>>

\* OnAckTimeout, which may come after any Close, Open and Send.
OnAckTimeout ==
    /\ At(Timeout, "callback")
    /\ \/ /\ awaiting
          /\ timer' = IF timer = "null" THEN timer ELSE "on"
          /\ Take(Timeout, retain)
          /\ Go(Timeout, <<"data">>)
       \/ /\ ~awaiting
          /\ Go(Timeout, << >>)
          /\ UNCHANGED <<timer, handVars>>
    /\ UNCHANGED <<awaiting, retain, queue, session, flagVars, handleVars, io, waited,
                   sendLock, restVars>>

\* WriteFrame and WriteAll: a write to a session that is being closed, or was never
\* opened, is dropped.
DropWrite(t) ==
    /\ At(t, "data") \/ At(t, "control")
    /\ sendLock = Nobody
    /\ closing \/ handle = 0
    /\ LetGo(t)
    /\ Go(t, << >>)
    /\ UNCHANGED <<arqVars, flagVars, handleVars, io, waited, sendLock, restVars>>

\* A write to a closed handle throws: the read loop catches that, Send passes it on,
\* and in a callback of the timer it ends the process.
WriteThrows(t) ==
    /\ At(t, "data") \/ At(t, "control")
    /\ sendLock = Nobody
    /\ ~closing /\ handle \in closed
    /\ LetGo(t)
    /\ todo' = [todo EXCEPT ![t] = IF t \in Loop THEN <<"catch">> ELSE << >>]
    /\ crashed' = (t = Timeout)
    /\ UNCHANGED <<arqVars, flagVars, handleVars, io, waited, sendLock, overlapped, events>>

\* Any other is begun; on a device that is gone it fails.
WriteBegins(t) ==
    /\ At(t, "data") \/ At(t, "control")
    /\ sendLock = Nobody
    /\ ~closing /\ IsOpen
    /\ sendLock' = t
    /\ LetGo(t)
    /\ \/ /\ lost = handle
          /\ Go(t, Failed)
          /\ UNCHANGED io
       \/ /\ lost # handle
          /\ Go(t, <<"writing">>)
          /\ io' = [io EXCEPT ![t] = handle]
    /\ UNCHANGED <<arqVars, flagVars, handleVars, waited, restVars>>

\* And ends, unless it is aborted.
WriteEnds(t) ==
    /\ At(t, "writing")
    /\ io' = [io EXCEPT ![t] = 0]
    /\ \/ /\ lost = io[t]
          /\ Go(t, Failed)
          /\ UNCHANGED sendLock
       \/ /\ lost # io[t]
          /\ Go(t, << >>)
          /\ Unlock(t)
    /\ UNCHANGED <<arqVars, flagVars, handleVars, waited, restVars, handVars>>

-----------------------------------------------------------------------------
(***************************************************************************)
(* What happens to the machine.                                            *)
(***************************************************************************)

\* OnSuspend, called by the system.
OnSuspend ==
    /\ Idle(Pool)
    /\ powered /\ ~closing /\ ~disposed
    /\ Event
    /\ Abort(Pool, <<"check">>)
    /\ UNCHANGED <<arqVars, flagVars, handleVars, overlapped, crashed, handVars>>

\* The cable is pulled out.
Unplug ==
    /\ lost = 0 /\ IsOpen
    /\ Event
    /\ lost' = handle
    /\ UNCHANGED <<arqVars, flagVars, handle, closed, opened, taskVars, overlapped,
                   crashed, handVars>>

-----------------------------------------------------------------------------
Ending(t) ==
    \/ Close(t) \/ Dispose(t) \/ DisposedAlready(t)
    \/ Cancel(t) \/ Release(t) \/ ResetFlags(t) \/ Disposed(t)
    \/ Check(t) \/ Raise(t)

Looping(t) ==
    Top(t) \/ Issue(t) \/ ReadEnds(t) \/ CallFails(t) \/ Catch(t) \/ HandleFrame(t)
    \/ Resend(t)

Writing(t) ==
    DropWrite(t) \/ WriteThrows(t) \/ WriteBegins(t) \/ WriteEnds(t)

\* What thread t does, once it has something to do.
Work(t) ==
    \/ t = App /\ (ClearArq \/ CreateHandle \/ Resend(App))
    \/ t = Timeout /\ OnAckTimeout
    \/ t \in Loop /\ Looping(t)
    \/ Ending(t)
    \/ Writing(t)

\* What any thread does; a process that crashed does nothing, and where two Close
\* overlap the model ends.
Working == ~crashed /\ ~overlapped /\ \E t \in Thread : Work(t)

Next ==
    \/ /\ ~crashed /\ ~overlapped
       /\ Open \/ CallClose \/ Send \/ CallResend \/ TimerFires \/ OnSuspend \/ Unplug
    \/ Working

Spec == Init /\ [][Next]_vars

\* As long as a thread can go on, some thread does; nothing makes the application
\* act, or the timer run out.
FairSpec == Spec /\ WF_vars(Working)

-----------------------------------------------------------------------------
(***************************************************************************)
(* Properties.                                                             *)
(***************************************************************************)

\* The read loop does not end in silence: if it has, on a handle that is open,
\* then ConnectionError was raised since Open, or a thread is about to raise it,
\* or to release that handle.  This holds although the flags that decide about
\* the event are shared by all sessions and set back by Close - unless two Close
\* overlap, the second of which may stop the loops of the next session.
NoSilentEnd ==
    IsOpen /\ handle \in opened /\ Idle(ReadLoop(handle)) /\ ~disposed /\ ~overlapped =>
        \/ raised # {}
        \/ \E t \in Thread : \E l \in {"check", "raise", "release"} : Ahead(t, l)

\* Thread t begins to write a message to the port.
WritesData(t) == At(t, "data") /\ sendLock # t /\ sendLock' = t

\* What is written to the port was sent in the session it is written in, or it is a
\* frame that the thread already had in hand when Open began that session: one of the
\* session it was taken in.  Neither the queue, nor the retained frame, nor a callback
\* that is late, nor a NACK hands a thread a message of an earlier session.
SessionsAreApart ==
    [][\A t \in Thread : WritesData(t) =>
          \/ frame[t] = session
          \/ taken[t] < session /\ frame[t] = taken[t]]_vars

\* Of the connection that is lost: it was lost while its handle was the session's, and
\* both loops had been started.
Lost == lost # 0 /\ handle = lost /\ lost \in opened

\* Nobody is to be told of the loss any more: the application closed the session, or
\* disposed of it, or a callback ended the process; or two Close overlapped.
Excused == lost \in closed \/ disposed \/ crashed \/ overlapped

\* A connection that is lost is reported unless that is excused: ConnectionError was
\* raised since Open.  It counts as the report of this loss even when a loop of the
\* session before raised it, for then this session's own loops find _connErrorFired
\* set and say nothing.
LossIsReported == Lost ~> (raised # {} \/ Excused)

\* The same, of an error that a loop of an earlier handle did not raise: it may take
\* the place of the report.
OwnLossIsReported ==
    Lost ~> ((\E t \in raised : t \notin Loop \/ t[2] = lost) \/ Excused)

=============================================================================
