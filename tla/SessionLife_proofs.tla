-------------------------- MODULE SessionLife_proofs --------------------------
(***************************************************************************)
(* Proofs about SessionLife, for any number of Opens and of events.         *)
(*                                                                         *)
(* A thread takes a message in hand in four places: Send, the ACK that      *)
(* sends the head of the queue, Resend, and the callback of the timer.      *)
(* That they take nothing of an earlier session follows from what the ARQ   *)
(* state says of the current one; that what a thread writes is what it took *)
(* follows from the order of its work: nothing is put ahead of a write, so  *)
(* that none is left to surface later, with another message in hand.        *)
(***************************************************************************)
EXTENDS SessionLife, TLAPS

Label == {"clear", "create", "close", "dispose", "cancel", "release", "reset", "disposed",
          "check", "raise", "top", "issue", "pending", "frame", "catch", "data", "control",
          "writing", "callback", "resend"}

\* Labels none of which is the write of a message; and stacks with such a write, if at
\* all, on top.
Clean(s) == s \in Seq(Label) /\ \A i \in 1 .. Len(s) : s[i] # "data"
TopOnly(s) == s \in Seq(Label) /\ \A i \in 2 .. Len(s) : s[i] # "data"

\* The frame in flight, and all that waits in the queue, was sent in this session.
OfThisSession ==
    /\ session \in Nat
    /\ awaiting \in BOOLEAN
    /\ awaiting => retain = session
    /\ queue \in Seq(Nat)
    /\ \A i \in DOMAIN queue : queue[i] = session

\* What a thread is about to write is of the session in which it took it.
InHand ==
    /\ frame \in [Thread -> Nat] /\ taken \in [Thread -> Nat]
    /\ \A t \in Thread : At(t, "data") => frame[t] = taken[t] /\ taken[t] <= session

Apart ==
    /\ OfThisSession /\ InHand
    /\ todo \in [Thread -> Seq(Label)] /\ \A t \in Thread : TopOnly(todo[t])

-----------------------------------------------------------------------------
\* What is below the top, alone or under other labels.
LEMMA TailClean ==
    ASSUME NEW s, TopOnly(s), s # << >>
    PROVE  Clean(Tail(s)) /\ Head(s) \in Label
<1>1. /\ s \in Seq(Label) /\ Tail(s) \in Seq(Label) /\ Len(Tail(s)) = Len(s) - 1
      /\ Len(s) \in Nat \ {0} /\ Head(s) \in Label
  BY DEF TopOnly
<1>2. \A i \in 1 .. Len(Tail(s)) : Tail(s)[i] = s[i + 1] /\ i + 1 \in 2 .. Len(s)
  BY <1>1
<1>3. QED
  BY <1>1, <1>2 DEF TopOnly, Clean

LEMMA ConcatClean ==
    ASSUME NEW s, NEW r, Clean(s), Clean(r)
    PROVE  Clean(s \o r)
<1>1. /\ s \in Seq(Label) /\ r \in Seq(Label) /\ s \o r \in Seq(Label)
      /\ Len(s \o r) = Len(s) + Len(r) /\ Len(s) \in Nat /\ Len(r) \in Nat
  BY DEF Clean
<1>2. \A i \in 1 .. Len(s \o r) :
         (s \o r)[i] = IF i <= Len(s) THEN s[i] ELSE r[i - Len(s)]
  BY <1>1
<1>3. \A i \in 1 .. Len(s \o r) : (s \o r)[i] # "data"
  BY <1>1, <1>2 DEF Clean
<1>4. QED
  BY <1>1, <1>3 DEF Clean

LEMMA ConcatTop ==
    ASSUME NEW l \in Label, NEW r, Clean(r)
    PROVE  /\ TopOnly(<<l>> \o r) /\ <<l>> \o r # << >>
           /\ Head(<<l>> \o r) = l
<1>1. /\ r \in Seq(Label) /\ <<l>> \o r \in Seq(Label)
      /\ Len(<<l>> \o r) = 1 + Len(r) /\ Len(r) \in Nat
  BY DEF Clean
<1>2. (<<l>> \o r)[1] = l /\ \A i \in 2 .. 1 + Len(r) : (<<l>> \o r)[i] = r[i - 1]
  BY <1>1
<1>3. \A i \in 2 .. Len(<<l>> \o r) : (<<l>> \o r)[i] # "data"
  BY <1>1, <1>2 DEF Clean
<1>4. QED
  BY <1>1, <1>2, <1>3 DEF TopOnly

LEMMA CleanTop ==
    ASSUME NEW s, Clean(s)
    PROVE  TopOnly(s) /\ (s # << >> => Head(s) # "data")
<1>1. s \in Seq(Label) /\ Len(s) \in Nat
  BY DEF Clean
<1>2. s # << >> => Len(s) >= 1 /\ Head(s) = s[1]
  BY <1>1
<1>3. QED
  BY <1>1, <1>2 DEF Clean, TopOnly

\* The stacks that steps push.
LEMMA PushedClean ==
    /\ Clean(<< >>) /\ Clean(Failed)
    /\ \A l \in Label \ {"data"} : Clean(<<l>>)
    /\ \A l, k \in Label \ {"data"} : Clean(<<l, k>>)
    /\ \A l, k, j \in Label \ {"data"} : Clean(<<l, k, j>>)
BY DEF Clean, Failed, Label
-----------------------------------------------------------------------------
\* A step that gives no thread a message to write.
Quiet ==
    /\ todo' \in [Thread -> Seq(Label)]
    /\ \A t \in Thread : todo'[t] = todo[t] \/ Clean(todo'[t])

\* What threads have in hand does not change, or t writes, or drops, what it has.
Hands(t) == UNCHANGED handVars \/ (LetGo(t) /\ Clean(todo'[t]))

LEMMA QuietStep ==
    ASSUME Apart, Quiet, OfThisSession', session <= session', NEW u \in Thread, Hands(u)
    PROVE  Apart'
<1>1. /\ frame \in [Thread -> Nat] /\ taken \in [Thread -> Nat]
      /\ session \in Nat /\ session' \in Nat
  BY DEF Apart, InHand, OfThisSession
<1>2. ASSUME NEW t \in Thread
      PROVE  /\ TopOnly(todo'[t])
             /\ At(t, "data")' => At(t, "data") /\ todo'[t] = todo[t] /\ ~Clean(todo'[t])
  BY CleanTop DEF Apart, Quiet, At, Idle
<1>3. ASSUME NEW t \in Thread, At(t, "data")'
      PROVE  frame'[t] = frame[t] /\ taken'[t] = taken[t]
  BY <1>1, <1>2, <1>3 DEF Hands, handVars, LetGo
<1>4. frame' \in [Thread -> Nat] /\ taken' \in [Thread -> Nat]
  BY <1>1 DEF Hands, handVars, LetGo
<1>5. ASSUME NEW t \in Thread, At(t, "data")'
      PROVE  frame'[t] = taken'[t] /\ taken'[t] <= session'
  BY <1>1, <1>2, <1>3, <1>5 DEF Apart, InHand
<1>6. InHand'
  BY <1>4, <1>5 DEF InHand
<1>7. QED
  BY <1>2, <1>6 DEF Apart, Quiet

\* Thread t goes on.
LEMMA GoStep ==
    ASSUME Apart, NEW t \in Thread, todo[t] # << >>, NEW ls, Clean(ls), Go(t, ls)
    PROVE  Quiet
<1>1. Clean(Tail(todo[t])) /\ todo \in [Thread -> Seq(Label)]
  BY TailClean DEF Apart
<1>2. Clean(ls \o Tail(todo[t]))
  BY <1>1, ConcatClean
<1>3. ls \o Tail(todo[t]) \in Seq(Label)
  BY <1>2 DEF Clean
<1>4. QED
  BY <1>1, <1>2, <1>3 DEF Go, Quiet

\* Thread t begins something else.
LEMMA BeginStep ==
    ASSUME Apart, NEW t \in Thread, NEW ls, Clean(ls), todo' = [todo EXCEPT ![t] = ls]
    PROVE  Quiet
BY DEF Apart, Quiet, Clean

\* Pending calls are ended.
LEMMA AbortStep ==
    ASSUME Apart, NEW u \in Thread, NEW ls, Clean(ls), Abort(u, ls)
    PROVE  Quiet
<1>1. ASSUME NEW t \in Thread
      PROVE  /\ todo'[t] \in Seq(Label)
             /\ todo'[t] = todo[t] \/ Clean(todo'[t])
  <2>1. /\ todo'[t] \in {ls, <<"catch">>, todo[t]}
             \/ (todo[t] # << >> /\ todo'[t] = Failed \o Tail(todo[t]))
    BY <1>1 DEF Abort, Calling, At, Idle
  <2>2. todo[t] # << >> => Clean(Failed \o Tail(todo[t]))
    BY <1>1, TailClean, ConcatClean, PushedClean DEF Apart
  <2>3. Clean(<<"catch">>)
    BY PushedClean DEF Label
  <2>4. todo[t] \in Seq(Label)
    BY <1>1 DEF Apart
  <2>5. QED
    BY <2>1, <2>2, <2>3, <2>4 DEF Clean
<1>2. DOMAIN todo' = Thread /\ todo' = [t \in Thread |-> todo'[t]]
  BY DEF Abort
<1>3. QED
  BY <1>1, <1>2 DEF Quiet
-----------------------------------------------------------------------------
(***************************************************************************)
(* The steps, but for those that touch the ARQ state.                      *)
(***************************************************************************)

\* Open, and the calls of Close, Dispose and Resend by the application.
LEMMA OpenQuiet ==
    ASSUME Apart, Open \/ CreateHandle \/ CallClose \/ CallResend
    PROVE  Quiet /\ UNCHANGED <<arqVars, handVars>>
<1>1. App \in Thread
  BY DEF Thread
<1>2. /\ Clean(<<"clear", "create">>) /\ Clean(<<"close">>) /\ Clean(<<"dispose">>)
      /\ Clean(<<"top">>) /\ Clean(<< >>) /\ Clean(<<"resend">>)
  BY PushedClean DEF Label
<1>3. CASE Open
  BY <1>1, <1>2, <1>3, BeginStep DEF Open
<1>4. CASE CallClose
  BY <1>1, <1>2, <1>4, BeginStep DEF CallClose
<1>5. CASE CallResend
  BY <1>1, <1>2, <1>5, BeginStep DEF CallResend
<1>6. CASE CreateHandle
  <2>1. todo[App] # << >>
    BY <1>6 DEF CreateHandle, At, Idle
  <2>2. CASE Go(App, << >>)
    BY <1>1, <1>2, <1>6, <2>1, <2>2, GoStep DEF CreateHandle
  <2>3. CASE todo' = [todo EXCEPT ![App] = Tail(@), ![ReadLoop(handle')] = <<"top">>,
                                  ![StatLoop(handle')] = <<"top">>]
    <3>1. Clean(Tail(todo[App])) /\ todo \in [Thread -> Seq(Label)]
      BY <1>1, <2>1, TailClean DEF Apart
    <3>2. ASSUME NEW t \in Thread
          PROVE  todo'[t] \in {todo[t], Tail(todo[App]), <<"top">>}
      BY <2>3, <3>1
    <3>3. ASSUME NEW t \in Thread
          PROVE  /\ todo'[t] \in Seq(Label)
                 /\ todo'[t] = todo[t] \/ Clean(todo'[t])
      BY <1>2, <3>1, <3>2 DEF Clean
    <3>4. todo' = [t \in Thread |-> todo'[t]]
      BY <2>3, <3>1
    <3>5. QED
      BY <1>6, <3>3, <3>4 DEF Quiet, CreateHandle
  <2>4. QED
    BY <1>6, <2>2, <2>3 DEF CreateHandle
<1>7. QED
  BY <1>3, <1>4, <1>5, <1>6

\* Close and Dispose, but for the part of Dispose under _arq; OnConnectionError.
LEMMA EndingQuiet ==
    ASSUME Apart, NEW t \in Thread,
           \/ Close(t) \/ Dispose(t) \/ DisposedAlready(t) \/ Cancel(t)
           \/ Release(t) \/ ResetFlags(t) \/ Check(t) \/ Raise(t)
    PROVE  Quiet /\ UNCHANGED <<arqVars, handVars>>
<1>1. /\ Clean(<< >>) /\ Clean(<<"close">>) /\ Clean(<<"raise">>) /\ Clean(<<"disposed">>)
      /\ Clean(<<"cancel", "release", "reset">>)
  BY PushedClean DEF Label
<1>2. todo[t] # << >>
  BY DEF Close, Dispose, DisposedAlready, Cancel, Release, ResetFlags, Check, Raise, At, Idle
<1>3. CASE Close(t) \/ Dispose(t)
  <2>1. PICK then \in {<< >>, <<"disposed">>} : EnterClose(t, then)
    BY <1>3 DEF Close, Dispose
  <2>2. PICK first \in {<< >>, <<"cancel", "release", "reset">>} : Go(t, first \o then)
    BY <2>1 DEF EnterClose
  <2>3. Clean(first \o then)
    BY <1>1, <2>1, <2>2, ConcatClean
  <2>4. QED
    BY <1>2, <2>1, <2>2, <2>3, GoStep DEF EnterClose
<1>4. CASE Cancel(t) \/ Release(t)
  <2>1. Clean(Tail(todo[t]))
    BY <1>2, TailClean DEF Apart
  <2>2. QED
    BY <1>4, <2>1, AbortStep DEF Cancel, Release
<1>5. CASE DisposedAlready(t) \/ ResetFlags(t) \/ Check(t) \/ Raise(t)
  <2>1. \E ls \in {<< >>, <<"raise">>, <<"close">>} : Go(t, ls)
    BY <1>5 DEF DisposedAlready, ResetFlags, Check, Raise
  <2>2. Quiet
    BY <1>1, <1>2, <2>1, GoStep
  <2>3. UNCHANGED <<arqVars, handVars>>
    BY <1>5 DEF DisposedAlready, ResetFlags, Check, Raise
  <2>4. QED
    BY <2>2, <2>3
<1>6. QED
  BY <1>3, <1>4, <1>5

\* The loops, but for the frame they read; and the writes.
LEMMA LoopQuiet ==
    ASSUME Apart, NEW t \in Thread,
           \/ Top(t) \/ Issue(t) \/ ReadEnds(t) \/ CallFails(t) \/ Catch(t) \/ Writing(t)
    PROVE  Quiet /\ UNCHANGED arqVars /\ Hands(t)
<1>1. /\ Clean(<< >>) /\ Clean(<<"issue">>) /\ Clean(<<"catch">>) /\ Clean(<<"pending">>)
      /\ Clean(<<"frame">>) /\ Clean(<<"top">>) /\ Clean(<<"check">>) /\ Clean(<<"raise">>)
      /\ Clean(<<"writing">>) /\ Clean(Failed)
  BY PushedClean DEF Label
<1>2. todo[t] # << >>
  BY DEF Top, Issue, ReadEnds, CallFails, Catch, Writing, DropWrite, WriteThrows,
         WriteBegins, WriteEnds, At, Idle
<1>3. /\ UNCHANGED arqVars /\ todo \in [Thread -> Seq(Label)] /\ Clean(Tail(todo[t]))
      /\ UNCHANGED handVars \/ LetGo(t)
  BY <1>2, TailClean
     DEF Top, Issue, ReadEnds, CallFails, Catch, Writing, DropWrite, WriteThrows,
         WriteBegins, WriteEnds, Apart
<1>4. CASE Top(t) \/ Issue(t) \/ ReadEnds(t) \/ CallFails(t) \/ Catch(t)
  <2>1. \E ls \in {<< >>, <<"issue">>, <<"catch">>, <<"pending">>, <<"frame">>, <<"top">>,
                   <<"check">>, <<"raise">>} : Go(t, ls)
    BY <1>4 DEF Top, Issue, ReadEnds, CallFails, Catch
  <2>2. UNCHANGED handVars
    BY <1>4 DEF Top, Issue, ReadEnds, CallFails, Catch
  <2>3. QED
    BY <1>1, <1>2, <1>3, <2>1, <2>2, GoStep DEF Hands
<1>5. CASE DropWrite(t) \/ WriteBegins(t) \/ WriteEnds(t)
  <2>1. PICK ls \in {<< >>, <<"writing">>, Failed} : Go(t, ls)
    BY <1>5 DEF DropWrite, WriteBegins, WriteEnds
  <2>2. Quiet
    BY <1>1, <1>2, <2>1, GoStep
  <2>3. todo'[t] = ls \o Tail(todo[t]) /\ Clean(ls)
    BY <1>1, <1>3, <2>1 DEF Go
  <2>4. Clean(todo'[t])
    BY <1>3, <2>3, ConcatClean
  <2>5. QED
    BY <1>3, <2>2, <2>4 DEF Hands
<1>6. CASE WriteThrows(t)
  <2>1. PICK ls \in {<< >>, <<"catch">>} : todo' = [todo EXCEPT ![t] = ls]
    BY <1>6 DEF WriteThrows
  <2>2. todo'[t] = ls /\ Clean(ls)
    BY <1>1, <1>3, <2>1
  <2>3. QED
    BY <1>3, <2>1, <2>2, BeginStep DEF Hands
<1>7. QED
  BY <1>4, <1>5, <1>6 DEF Writing

\* What happens to the machine.
LEMMA MachineQuiet ==
    ASSUME Apart, OnSuspend \/ Unplug \/ UNCHANGED vars
    PROVE  Quiet /\ UNCHANGED <<arqVars, handVars>>
<1>1. CASE OnSuspend
  BY <1>1, PushedClean, AbortStep DEF OnSuspend, Thread, Label
<1>2. CASE Unplug \/ UNCHANGED vars
  BY <1>2 DEF Unplug, vars, taskVars, Apart, Quiet
<1>3. QED
  BY <1>1, <1>2
-----------------------------------------------------------------------------
(***************************************************************************)
(* The steps that touch the ARQ state.                                     *)
(***************************************************************************)

\* A thread takes a message of the session in hand, to write it.
LEMMA TakeStep ==
    ASSUME Apart, NEW t \in Thread, NEW r, Clean(r),
           todo' = [todo EXCEPT ![t] = <<"data">> \o r], Take(t, session),
           OfThisSession', session' = session
    PROVE  Apart'
<1>1. /\ "data" \in Label /\ todo \in [Thread -> Seq(Label)] /\ session \in Nat
      /\ frame \in [Thread -> Nat] /\ taken \in [Thread -> Nat]
  BY DEF Apart, InHand, OfThisSession, Label
<1>2. TopOnly(<<"data">> \o r) /\ <<"data">> \o r \in Seq(Label)
  BY <1>1, ConcatTop DEF TopOnly
<1>3. ASSUME NEW u \in Thread
      PROVE  todo'[u] \in Seq(Label) /\ TopOnly(todo'[u])
  BY <1>1, <1>2, <1>3 DEF Apart
<1>4. todo' \in [Thread -> Seq(Label)]
  BY <1>1, <1>2
<1>5. frame' \in [Thread -> Nat] /\ taken' \in [Thread -> Nat]
  BY <1>1 DEF Take
<1>6. ASSUME NEW u \in Thread, At(u, "data")'
      PROVE  frame'[u] = taken'[u] /\ taken'[u] <= session'
  <2>1. CASE u = t
    BY <1>1, <2>1 DEF Take
  <2>2. CASE u # t
    <3>1. frame'[u] = frame[u] /\ taken'[u] = taken[u] /\ todo'[u] = todo[u]
      BY <1>1, <2>2 DEF Take
    <3>2. At(u, "data")
      BY <1>6, <3>1 DEF At, Idle
    <3>3. QED
      BY <3>1, <3>2 DEF Apart, InHand
  <2>3. QED
    BY <2>1, <2>2
<1>7. InHand'
  BY <1>5, <1>6 DEF InHand
<1>8. QED
  BY <1>3, <1>4, <1>7 DEF Apart

\* A step that takes nothing in hand, and leaves the ARQ state of the session in order.
LEMMA NoneTaken ==
    ASSUME Apart, Quiet, UNCHANGED handVars, OfThisSession', session <= session'
    PROVE  Apart'
BY QuietStep DEF Hands, Thread

\* A new session, the end of one, and the timer.
LEMMA ClearStep ==
    ASSUME Apart, NEW t \in Thread, ClearArq \/ Disposed(t) \/ TimerFires
    PROVE  Apart'
<1>1. /\ App \in Thread /\ Timeout \in Thread /\ Clean(<< >>) /\ Clean(<<"callback">>)
      /\ session \in Nat /\ session <= session /\ session <= session + 1
  BY PushedClean DEF Thread, Label, Apart, OfThisSession
<1>2. << >> \in Seq(Nat) /\ DOMAIN << >> = {}
  OBVIOUS
<1>3. CASE ClearArq
  <2>1. Quiet
    <3>1. todo[App] # << >> /\ Go(App, << >>)
      BY <1>3 DEF ClearArq, At, Idle
    <3>2. QED
      BY <1>1, <3>1, GoStep
  <2>2. queue' = << >> /\ session' = session + 1 /\ awaiting' = FALSE /\ UNCHANGED handVars
    BY <1>3 DEF ClearArq
  <2>3. OfThisSession'
    <3>1. queue' = << >> /\ session' \in Nat /\ awaiting' = FALSE
      BY <1>1, <2>2
    <3>2. QED
      BY <1>2, <3>1 DEF OfThisSession
  <2>4. QED
    BY <1>1, <2>1, <2>2, <2>3, NoneTaken
<1>4. CASE Disposed(t)
  <2>1. Quiet
    BY <1>1, <1>4, GoStep DEF Disposed, At, Idle
  <2>2. queue' = << >> /\ session' = session /\ awaiting' = FALSE /\ UNCHANGED handVars
    BY <1>4 DEF Disposed
  <2>3. OfThisSession'
    BY <1>1, <1>2, <2>2 DEF OfThisSession
  <2>4. QED
    BY <1>1, <2>1, <2>2, <2>3, NoneTaken
<1>5. CASE TimerFires
  <2>1. Quiet
    BY <1>1, <1>5, BeginStep DEF TimerFires
  <2>2. UNCHANGED <<awaiting, retain, queue, session, handVars>>
    BY <1>5 DEF TimerFires
  <2>3. OfThisSession'
    BY <2>2 DEF Apart, OfThisSession
  <2>4. QED
    BY <1>1, <2>1, <2>2, <2>3, NoneTaken
<1>6. QED
  BY <1>3, <1>4, <1>5

\* Resend, and a callback of the timer, take what is retained, if a frame is in flight.
LEMMA RetainedStep ==
    ASSUME Apart, NEW t \in Thread, (OnAckTimeout /\ t = Timeout) \/ Resend(t)
    PROVE  Apart'
<1>1. /\ todo[t] # << >> /\ todo \in [Thread -> Seq(Label)] /\ session \in Nat
      /\ awaiting \in BOOLEAN /\ Clean(Tail(todo[t])) /\ Clean(<< >>)
  BY TailClean, PushedClean DEF Apart, OfThisSession, OnAckTimeout, Resend, At, Idle
<1>2. UNCHANGED <<awaiting, retain, queue, session>>
  BY DEF OnAckTimeout, Resend, arqVars
<1>3. OfThisSession'
  BY <1>2 DEF Apart, OfThisSession
<1>4. CASE awaiting
  <2>1. Take(t, retain) /\ Go(t, <<"data">>)
    BY <1>4 DEF OnAckTimeout, Resend
  <2>2. retain = session
    BY <1>4 DEF Apart, OfThisSession
  <2>3. todo' = [todo EXCEPT ![t] = <<"data">> \o Tail(todo[t])]
    BY <2>1 DEF Go
  <2>4. QED
    BY <1>1, <1>2, <1>3, <2>1, <2>2, <2>3, TakeStep
<1>5. CASE ~awaiting
  <2>1. UNCHANGED handVars /\ Go(t, << >>)
    BY <1>5 DEF OnAckTimeout, Resend
  <2>2. QED
    BY <1>1, <1>2, <1>3, <2>1, GoStep, NoneTaken
<1>6. QED
  BY <1>1, <1>4, <1>5

\* The queue, when a message is added to it, or its head is taken.
LEMMA QueueFacts ==
    ASSUME OfThisSession
    PROVE  /\ Append(queue, session) \in Seq(Nat)
           /\ \A i \in DOMAIN Append(queue, session) : Append(queue, session)[i] = session
           /\ queue # << >> =>
                 /\ Head(queue) = session /\ Tail(queue) \in Seq(Nat)
                 /\ \A i \in DOMAIN Tail(queue) : Tail(queue)[i] = session
<1>1. queue \in Seq(Nat) /\ session \in Nat /\ DOMAIN queue = 1 .. Len(queue)
      /\ Len(queue) \in Nat
  BY DEF OfThisSession
<1>2. \A i \in 1 .. Len(queue) : queue[i] = session
  BY <1>1 DEF OfThisSession
<1>3. /\ Append(queue, session) \in Seq(Nat)
      /\ \A i \in DOMAIN Append(queue, session) : Append(queue, session)[i] = session
  BY <1>1, <1>2
<1>4. ASSUME queue # << >>
      PROVE  /\ Head(queue) = session /\ Tail(queue) \in Seq(Nat)
             /\ \A i \in DOMAIN Tail(queue) : Tail(queue)[i] = session
  <2>1. Head(queue) = queue[1] /\ 1 \in 1 .. Len(queue)
    BY <1>1, <1>4
  <2>2. Tail(queue) \in Seq(Nat) /\ DOMAIN Tail(queue) = 1 .. (Len(queue) - 1)
    BY <1>1, <1>4
  <2>3. \A i \in 1 .. (Len(queue) - 1) : Tail(queue)[i] = queue[i + 1]
    BY <1>1, <1>4
  <2>4. QED
    BY <1>1, <1>2, <2>1, <2>2, <2>3
<1>5. QED
  BY <1>3, <1>4

\* Send transmits its message, or leaves it to the queue.
LEMMA SendStep ==
    ASSUME Apart, Send
    PROVE  Apart'
<1>1. /\ App \in Thread /\ OfThisSession /\ session' = session /\ session \in Nat
      /\ todo \in [Thread -> Seq(Label)]
  BY DEF Thread, Apart, Send, OfThisSession
<1>2. CASE awaiting
  <2>1. UNCHANGED <<awaiting, retain, todo, handVars>> /\ queue' = Append(queue, session)
    BY <1>2 DEF Send
  <2>2. OfThisSession'
    BY <1>1, <2>1, QueueFacts DEF OfThisSession
  <2>3. Quiet
    BY <1>1, <2>1 DEF Quiet
  <2>4. QED
    BY <1>1, <2>1, <2>2, <2>3, NoneTaken
<1>3. CASE ~awaiting
  <2>1. awaiting' = TRUE /\ retain' = session /\ queue' = queue /\ Take(App, session)
    BY <1>3 DEF Send, Prepare
  <2>2. OfThisSession'
    BY <1>1, <2>1 DEF OfThisSession
  <2>3. todo' = [todo EXCEPT ![App] = <<"data">> \o << >>]
    BY <1>3 DEF Send
  <2>4. QED
    BY <1>1, <2>1, <2>2, <2>3, PushedClean, TakeStep
<1>4. QED
  BY <1>2, <1>3 DEF Apart, OfThisSession

\* The read loop: an ACK sends the head of the queue.
LEMMA FrameStep ==
    ASSUME Apart, NEW t \in Thread, HandleFrame(t)
    PROVE  Apart'
<1>1. /\ todo[t] # << >> /\ OfThisSession /\ todo \in [Thread -> Seq(Label)]
      /\ Clean(Tail(todo[t])) /\ session \in Nat
  BY TailClean DEF HandleFrame, At, Idle, Apart, OfThisSession
<1>2. /\ Clean(<< >>) /\ Clean(<<"top">>) /\ Clean(<<"control">>)
      /\ Clean(<<"control", "top">>) /\ Clean(<<"resend", "top">>)
  BY PushedClean DEF Label
<1>3. CASE /\ UNCHANGED <<arqVars, handVars>>
           /\ \E ls \in {<< >>, <<"top">>, <<"control", "top">>, <<"resend", "top">>} :
                 Go(t, ls)
  <2>1. Quiet
    BY <1>1, <1>2, <1>3, GoStep
  <2>2. OfThisSession' /\ session' = session
    BY <1>1, <1>3 DEF arqVars, OfThisSession
  <2>3. QED
    BY <1>1, <1>3, <2>1, <2>2, NoneTaken
<1>4. CASE /\ awaiting' = FALSE /\ Go(t, <<"top">>)
           /\ UNCHANGED <<queue, retain, session, handVars>>
  <2>1. Quiet
    BY <1>1, <1>2, <1>4, GoStep
  <2>2. OfThisSession'
    BY <1>1, <1>4 DEF OfThisSession
  <2>3. QED
    BY <1>1, <1>4, <2>1, <2>2, NoneTaken
<1>5. CASE /\ queue # << >> /\ Prepare(Head(queue)) /\ queue' = Tail(queue)
           /\ Take(t, Head(queue)) /\ Go(t, <<"data", "top">>) /\ session' = session
  <2>1. OfThisSession' /\ Take(t, session)
    BY <1>1, <1>5, QueueFacts DEF OfThisSession, Prepare
  <2>2. Clean(<<"top">> \o Tail(todo[t])) /\ Tail(todo[t]) \in Seq(Label)
    BY <1>1, <1>2, ConcatClean DEF Clean
  <2>3. <<"data", "top">> \o Tail(todo[t]) = <<"data">> \o (<<"top">> \o Tail(todo[t]))
    <3>1. ASSUME NEW r \in Seq(Label)
          PROVE  <<"data", "top">> \o r = <<"data">> \o (<<"top">> \o r)
      BY DEF Label
    <3>2. QED
      BY <2>2, <3>1
  <2>4. todo' = [todo EXCEPT ![t] = <<"data">> \o (<<"top">> \o Tail(todo[t]))]
    BY <1>1, <1>5, <2>3 DEF Go
  <2>5. QED
    BY <1>5, <2>1, <2>2, <2>4, TakeStep
<1>6. \/ /\ UNCHANGED <<arqVars, handVars>>
         /\ \E ls \in {<< >>, <<"top">>, <<"control", "top">>, <<"resend", "top">>} : Go(t, ls)
      \/ /\ awaiting' = FALSE /\ Go(t, <<"top">>)
         /\ UNCHANGED <<queue, retain, session, handVars>>
      \/ /\ queue # << >> /\ Prepare(Head(queue)) /\ queue' = Tail(queue)
         /\ Take(t, Head(queue)) /\ Go(t, <<"data", "top">>) /\ session' = session
  BY DEF HandleFrame
<1>7. QED
  BY <1>3, <1>4, <1>5, <1>6

-----------------------------------------------------------------------------
LEMMA ApartInit ==
    ASSUME Init
    PROVE  Apart
<1>1. TopOnly(<< >>)
  BY PushedClean, CleanTop
<1>2. << >> \in Seq(Nat) /\ DOMAIN << >> = {} /\ << >> \in Seq(Label)
  OBVIOUS
<1>3. OfThisSession
  BY <1>2 DEF Init, OfThisSession
<1>4. todo \in [Thread -> Seq(Label)] /\ \A t \in Thread : todo[t] = << >>
  BY <1>2 DEF Init
<1>5. InHand
  BY <1>4 DEF Init, InHand, At, Idle
<1>6. QED
  BY <1>1, <1>3, <1>4, <1>5 DEF Apart

LEMMA ApartStep ==
    ASSUME Apart, [Next]_vars
    PROVE  Apart'
<1>1. ASSUME Quiet, UNCHANGED arqVars, NEW t \in Thread, Hands(t)
      PROVE  Apart'
  <2>1. OfThisSession' /\ session' = session /\ session \in Nat
    BY <1>1 DEF Apart, OfThisSession, arqVars
  <2>2. QED
    BY <1>1, <2>1, QuietStep
<1>2. CASE \/ Open \/ CallClose \/ CallResend \/ CreateHandle \/ OnSuspend \/ Unplug
           \/ UNCHANGED vars
  <2>1. Quiet /\ UNCHANGED <<arqVars, handVars>>
    BY <1>2, OpenQuiet, MachineQuiet
  <2>2. QED
    BY <1>1, <2>1 DEF Hands, Thread
<1>3. CASE Send \/ TimerFires \/ ClearArq \/ OnAckTimeout
  BY <1>3, SendStep, ClearStep, RetainedStep DEF Thread
<1>4. ASSUME NEW t \in Thread, Ending(t)
      PROVE  Apart'
  <2>1. CASE Disposed(t)
    BY <2>1, ClearStep
  <2>2. CASE ~Disposed(t)
    <3>1. Quiet /\ UNCHANGED <<arqVars, handVars>>
      BY <1>4, <2>2, EndingQuiet DEF Ending
    <3>2. QED
      BY <1>1, <1>4, <3>1 DEF Hands
  <2>3. QED
    BY <2>1, <2>2
<1>5. ASSUME NEW t \in Thread, Looping(t) \/ Writing(t)
      PROVE  Apart'
  <2>1. CASE HandleFrame(t) \/ Resend(t)
    BY <1>5, <2>1, FrameStep, RetainedStep
  <2>2. CASE ~(HandleFrame(t) \/ Resend(t))
    <3>1. Quiet /\ UNCHANGED arqVars /\ Hands(t)
      BY <1>5, <2>2, LoopQuiet DEF Looping
    <3>2. QED
      BY <1>1, <1>5, <3>1
  <2>3. QED
    BY <2>1, <2>2
<1>6. CASE Resend(App)
  BY <1>6, RetainedStep DEF Thread
<1>7. QED
  BY <1>2, <1>3, <1>4, <1>5, <1>6 DEF Next, Working, Work

\* What SessionsAreApart says of a step.
InHandWritten ==
    \A t \in Thread : WritesData(t) =>
       \/ frame[t] = session
       \/ taken[t] < session /\ frame[t] = taken[t]

\* A write of what a thread has in hand.
LEMMA ApartWrite ==
    ASSUME Apart, NEW t \in Thread, WritesData(t)
    PROVE  frame[t] = session \/ (taken[t] < session /\ frame[t] = taken[t])
<1>1. /\ At(t, "data") /\ session \in Nat /\ taken[t] \in Nat /\ frame[t] = taken[t]
      /\ taken[t] <= session
  BY DEF Apart, InHand, OfThisSession, WritesData
<1>2. QED
  BY <1>1

\* A message that is written was sent in the session it is written in, or in the earlier
\* one in which the thread took it in hand, for any number of Opens, Closes and callbacks
\* that are late: Open clears what Send, Resend and the callbacks read, in one critical
\* section, and no write of a thread waits behind other work of it.
THEOREM SessionsApart == Spec => SessionsAreApart
<1>1. Init => Apart
  BY ApartInit
<1>2. Apart /\ [Next]_vars => Apart'
  BY ApartStep
<1>3. Apart => InHandWritten
  BY ApartWrite DEF InHandWritten
<1>4. Spec => [][InHandWritten]_vars
  BY <1>1, <1>2, <1>3, PTL DEF Spec
<1>5. QED
  BY <1>4 DEF SessionsAreApart, InHandWritten

-----------------------------------------------------------------------------
(***************************************************************************)
(* NoSilentEnd, for any number of Opens and of events.                      *)
(*                                                                         *)
(* The flags by which a loop decides whether to report its end are shared    *)
(* by all sessions: _closing, _connErrorFired, _disposed.  That they are     *)
(* not those of another session takes the invariant Loops: one Close at      *)
(* most is under way, it is to release the handle that is open, and          *)
(* _closing is set on its behalf only; the handle is created when none is.   *)
(* Every step but those that open, or begin to release, or release a handle  *)
(* is covered by one lemma (KeptStep), from what the step does to the stack  *)
(* of each thread (Keeps).                                                  *)
(***************************************************************************)

\* What the read loop has at the bottom of its stack while it goes on, and what is
\* being written, with nothing but the loop below.
LoopLabel == {"top", "issue", "pending", "frame", "catch"}
WriteLabel == {"callback", "data", "control", "writing", "resend"}

Has(s, l) == \E i \in 1 .. Len(s) : s[i] = l
Live(s) == \E l \in LoopLabel : Has(s, l)

Shape(s) ==
    /\ s \in Seq(Label)
    /\ \A i, j \in 1 .. Len(s) : i < j =>
          /\ s[i] \notin LoopLabel
          /\ s[i] \in WriteLabel => s[j] = "top"
    /\ \A i \in 1 .. Len(s) :
          /\ s[i] = "cancel" => i < Len(s) /\ s[i + 1] = "release"
          /\ s[i] = "create" => i = Len(s)

\* The handle is to be released once at most.
Once(s) == \A i, j \in 1 .. Len(s) : s[i] = "release" /\ s[j] = "release" => i = j

Creating == Has(todo[App], "create")

\* One Close at most is under way, and it concerns the handle that is open; _closing
\* is set on behalf of no other.
Exclusive ==
    /\ Creating => ~closing
    /\ \A t \in Thread : Has(todo[t], "release") => IsOpen
    /\ \A t, u \in Thread : Has(todo[t], "release") /\ Has(todo[u], "release") => t = u
    /\ \A t \in Thread : Once(todo[t])
    /\ closing /\ IsOpen => \E t \in Thread : Has(todo[t], "release")

\* The loop goes on, or its end is reported, or the handle is about to be released.
Reported ==
    \/ raised # {}
    \/ \E t \in Thread : \E l \in {"check", "raise", "release"} : Has(todo[t], l)
Ends ==
    IsOpen /\ handle \in opened /\ ~disposed /\ ~Live(todo[ReadLoop(handle)]) => Reported

Handles ==
    /\ handle \in 0 .. MaxOpens /\ opened \subseteq 1 .. handle
    /\ Creating => handle < MaxOpens /\ ~IsOpen

Loops ==
    /\ todo \in [Thread -> Seq(Label)] /\ \A t \in Thread : Shape(todo[t])
    /\ Handles
    /\ fired => raised # {}
    /\ ~overlapped => Exclusive /\ Ends

-----------------------------------------------------------------------------
\* What is on a stack: on its top or below.
LEMMA HasTail ==
    ASSUME NEW s \in Seq(Label), s # << >>
    PROVE  /\ Tail(s) \in Seq(Label) /\ Head(s) \in Label /\ Head(s) = s[1]
           /\ \A l : Has(s, l) <=> Head(s) = l \/ Has(Tail(s), l)
<1>1. /\ Tail(s) \in Seq(Label) /\ Head(s) \in Label /\ Head(s) = s[1]
      /\ Len(s) \in Nat \ {0} /\ Len(Tail(s)) = Len(s) - 1
      /\ \A i \in 1 .. Len(s) - 1 : Tail(s)[i] = s[i + 1]
  OBVIOUS
<1>2. ASSUME NEW l, Has(s, l)
      PROVE  Head(s) = l \/ Has(Tail(s), l)
  <2>1. PICK i \in 1 .. Len(s) : s[i] = l
    BY <1>2 DEF Has
  <2>2. CASE i = 1
    BY <1>1, <2>1, <2>2
  <2>3. CASE i # 1
    <3>1. i - 1 \in 1 .. Len(Tail(s)) /\ Tail(s)[i - 1] = l
      BY <1>1, <2>1, <2>3
    <3>2. QED
      BY <3>1 DEF Has
  <2>4. QED
    BY <2>2, <2>3
<1>3. ASSUME NEW l, Has(Tail(s), l)
      PROVE  Has(s, l)
  <2>1. PICK i \in 1 .. Len(Tail(s)) : Tail(s)[i] = l
    BY <1>3 DEF Has
  <2>2. i + 1 \in 1 .. Len(s) /\ s[i + 1] = l
    BY <1>1, <2>1
  <2>3. QED
    BY <2>2 DEF Has
<1>4. ASSUME NEW l, Head(s) = l
      PROVE  Has(s, l)
  BY <1>1, <1>4 DEF Has
<1>5. QED
  BY <1>1, <1>2, <1>3, <1>4

LEMMA HasConcat ==
    ASSUME NEW p \in Seq(Label), NEW r \in Seq(Label)
    PROVE  /\ p \o r \in Seq(Label)
           /\ \A l : Has(p \o r, l) <=> Has(p, l) \/ Has(r, l)
<1>1. /\ p \o r \in Seq(Label) /\ Len(p \o r) = Len(p) + Len(r)
      /\ Len(p) \in Nat /\ Len(r) \in Nat
      /\ \A i \in 1 .. Len(p) + Len(r) :
            (p \o r)[i] = IF i <= Len(p) THEN p[i] ELSE r[i - Len(p)]
  OBVIOUS
<1>2. ASSUME NEW l, Has(p \o r, l)
      PROVE  Has(p, l) \/ Has(r, l)
  <2>1. PICK i \in 1 .. Len(p) + Len(r) : (p \o r)[i] = l
    BY <1>1, <1>2 DEF Has
  <2>2. CASE i <= Len(p)
    BY <1>1, <2>1, <2>2 DEF Has
  <2>3. CASE i > Len(p)
    <3>1. i - Len(p) \in 1 .. Len(r) /\ r[i - Len(p)] = l
      BY <1>1, <2>1, <2>3
    <3>2. QED
      BY <3>1 DEF Has
  <2>4. QED
    BY <1>1, <2>1, <2>2, <2>3
<1>3. ASSUME NEW l, Has(p, l)
      PROVE  Has(p \o r, l)
  <2>1. PICK i \in 1 .. Len(p) : p[i] = l
    BY <1>3 DEF Has
  <2>2. i \in 1 .. Len(p \o r) /\ (p \o r)[i] = l
    BY <1>1, <2>1
  <2>3. QED
    BY <2>2 DEF Has
<1>4. ASSUME NEW l, Has(r, l)
      PROVE  Has(p \o r, l)
  <2>1. PICK i \in 1 .. Len(r) : r[i] = l
    BY <1>4 DEF Has
  <2>2. i + Len(p) \in 1 .. Len(p \o r) /\ (p \o r)[i + Len(p)] = l
    BY <1>1, <2>1
  <2>3. QED
    BY <2>2 DEF Has
<1>5. QED
  BY <1>1, <1>2, <1>3, <1>4

\* Short stacks.
LEMMA HasShort ==
    /\ \A l : ~Has(<< >>, l)
    /\ \A a, l : Has(<<a>>, l) <=> l = a
    /\ \A a, b, l : Has(<<a, b>>, l) <=> l \in {a, b}
    /\ \A a, b, c, l : Has(<<a, b, c>>, l) <=> l \in {a, b, c}
BY DEF Has

\* A stack without its top, and one that is put on another.
LEMMA ShapeTail ==
    ASSUME NEW s, Shape(s), s # << >>
    PROVE  /\ Shape(Tail(s))
           /\ Head(s) \in LoopLabel \cup {"create"} => Tail(s) = << >>
           /\ Head(s) \in WriteLabel => \A i \in 1 .. Len(Tail(s)) : Tail(s)[i] = "top"
           /\ Head(s) = "cancel" => Has(Tail(s), "release")
           /\ Once(s) => Once(Tail(s))
           /\ Once(s) /\ Head(s) = "release" => ~Has(Tail(s), "release")
<1>1. /\ s \in Seq(Label) /\ Tail(s) \in Seq(Label) /\ Head(s) = s[1]
      /\ Len(s) \in Nat \ {0} /\ Len(Tail(s)) = Len(s) - 1
      /\ \A i \in 1 .. Len(s) - 1 : Tail(s)[i] = s[i + 1] /\ i + 1 \in 1 .. Len(s)
  BY DEF Shape
<1>2. \A i, j \in 1 .. Len(Tail(s)) : i < j =>
          /\ Tail(s)[i] \notin LoopLabel
          /\ Tail(s)[i] \in WriteLabel => Tail(s)[j] = "top"
  <2>1. SUFFICES ASSUME NEW i \in 1 .. Len(Tail(s)), NEW j \in 1 .. Len(Tail(s)), i < j
                 PROVE  /\ Tail(s)[i] \notin LoopLabel
                        /\ Tail(s)[i] \in WriteLabel => Tail(s)[j] = "top"
    OBVIOUS
  <2>2. /\ i + 1 \in 1 .. Len(s) /\ j + 1 \in 1 .. Len(s) /\ i + 1 < j + 1
        /\ Tail(s)[i] = s[i + 1] /\ Tail(s)[j] = s[j + 1]
    BY <1>1, <2>1
  <2>3. QED
    BY <2>2 DEF Shape
<1>3. ASSUME NEW i \in 1 .. Len(Tail(s)), Tail(s)[i] = "cancel"
      PROVE  i < Len(Tail(s)) /\ Tail(s)[i + 1] = "release"
  <2>1. i + 1 \in 1 .. Len(s) /\ s[i + 1] = "cancel"
    BY <1>1, <1>3
  <2>2. i + 1 < Len(s) /\ s[(i + 1) + 1] = "release"
    BY <2>1 DEF Shape
  <2>3. QED
    BY <1>1, <2>1, <2>2
<1>4. Head(s) \in LoopLabel \cup {"create"} => Tail(s) = << >>
  <2>1. 1 \in 1 .. Len(s) /\ (Len(s) > 1 => 2 \in 1 .. Len(s) /\ 1 < 2)
    BY <1>1
  <2>2. Len(s) > 1 => s[1] \notin LoopLabel /\ s[1] # "create"
    BY <2>1 DEF Shape
  <2>3. QED
    BY <1>1, <2>2
<1>5. Head(s) \in WriteLabel => \A i \in 1 .. Len(Tail(s)) : Tail(s)[i] = "top"
  <2>1. 1 \in 1 .. Len(s) /\ \A j \in 2 .. Len(s) : j \in 1 .. Len(s) /\ 1 < j
    BY <1>1
  <2>2. \A j \in 2 .. Len(s) : s[1] \in WriteLabel => s[j] = "top"
    BY <2>1 DEF Shape
  <2>3. QED
    BY <1>1, <2>2
<1>6. Head(s) = "cancel" => Has(Tail(s), "release")
  <2>1. 1 \in 1 .. Len(s) /\ 1 + 1 = 2
    BY <1>1
  <2>2. s[1] = "cancel" => 1 < Len(s) /\ s[2] = "release"
    BY <2>1 DEF Shape
  <2>3. QED
    BY <1>1, <2>2 DEF Has
<1>7. Once(s) => Once(Tail(s))
  <2>1. SUFFICES ASSUME Once(s), NEW i \in 1 .. Len(Tail(s)), NEW j \in 1 .. Len(Tail(s)),
                        Tail(s)[i] = "release", Tail(s)[j] = "release"
                 PROVE  i = j
    BY DEF Once
  <2>2. i + 1 \in 1 .. Len(s) /\ j + 1 \in 1 .. Len(s)
        /\ s[i + 1] = "release" /\ s[j + 1] = "release"
    BY <1>1, <2>1
  <2>3. QED
    BY <2>1, <2>2 DEF Once
<1>8. Once(s) /\ Head(s) = "release" => ~Has(Tail(s), "release")
  <2>1. SUFFICES ASSUME Once(s), s[1] = "release",
                        NEW i \in 1 .. Len(Tail(s)), Tail(s)[i] = "release"
                 PROVE  FALSE
    BY <1>1 DEF Has
  <2>2. i + 1 \in 1 .. Len(s) /\ 1 \in 1 .. Len(s) /\ s[i + 1] = "release" /\ i + 1 # 1
    BY <1>1, <2>1
  <2>3. QED
    BY <2>1, <2>2 DEF Once
<1>9. ASSUME NEW i \in 1 .. Len(Tail(s)), Tail(s)[i] = "create"
      PROVE  i = Len(Tail(s))
  <2>1. i + 1 \in 1 .. Len(s) /\ s[i + 1] = "create"
    BY <1>1, <1>9
  <2>2. i + 1 = Len(s)
    BY <2>1 DEF Shape
  <2>3. i \in Nat /\ Len(s) \in Nat /\ Len(Tail(s)) = Len(s) - 1
    BY <1>1
  <2>4. QED
    BY <2>2, <2>3
<1>10. QED
  BY <1>1, <1>2, <1>3, <1>4, <1>5, <1>6, <1>7, <1>8, <1>9 DEF Shape

LEMMA ShapeConcat ==
    ASSUME NEW p, NEW r, Shape(p), Shape(r), ~Has(p, "create"),
           \/ r = << >>
           \/ \A i \in 1 .. Len(p) : p[i] \notin LoopLabel \cup WriteLabel
           \/ /\ \A i \in 1 .. Len(p) : p[i] \notin LoopLabel
              /\ \A i \in 1 .. Len(r) : r[i] = "top"
    PROVE  /\ Shape(p \o r)
           /\ Once(p) /\ Once(r) /\ ~(Has(p, "release") /\ Has(r, "release")) => Once(p \o r)
<1>1. /\ p \in Seq(Label) /\ r \in Seq(Label)
      /\ p \o r \in Seq(Label) /\ Len(p \o r) = Len(p) + Len(r)
      /\ Len(p) \in Nat /\ Len(r) \in Nat
      /\ \A i \in 1 .. Len(p) : (p \o r)[i] = p[i]
      /\ \A i \in 1 .. Len(p) + Len(r) : i > Len(p) =>
            i - Len(p) \in 1 .. Len(r) /\ (p \o r)[i] = r[i - Len(p)]
  BY DEF Shape
<1>2. ASSUME NEW i \in 1 .. Len(p \o r), NEW j \in 1 .. Len(p \o r), i < j
      PROVE  /\ (p \o r)[i] \notin LoopLabel
             /\ (p \o r)[i] \in WriteLabel => (p \o r)[j] = "top"
  <2>1. CASE j <= Len(p)
    <3>1. i \in 1 .. Len(p) /\ j \in 1 .. Len(p) /\ (p \o r)[i] = p[i] /\ (p \o r)[j] = p[j]
      BY <1>1, <1>2, <2>1
    <3>2. QED
      BY <1>2, <3>1 DEF Shape
  <2>2. CASE i > Len(p)
    <3>1. /\ i - Len(p) \in 1 .. Len(r) /\ j - Len(p) \in 1 .. Len(r)
          /\ i - Len(p) < j - Len(p)
          /\ (p \o r)[i] = r[i - Len(p)] /\ (p \o r)[j] = r[j - Len(p)]
      BY <1>1, <1>2, <2>2
    <3>2. QED
      BY <3>1 DEF Shape
  <2>3. CASE i <= Len(p) /\ j > Len(p)
    <3>1. /\ i \in 1 .. Len(p) /\ j - Len(p) \in 1 .. Len(r)
          /\ (p \o r)[i] = p[i] /\ (p \o r)[j] = r[j - Len(p)]
      BY <1>1, <1>2, <2>3
    <3>2. r # << >>
      BY <3>1
    <3>3. QED
      BY <3>1, <3>2
  <2>4. QED
    BY <1>1, <2>1, <2>2, <2>3
<1>3. ASSUME NEW i \in 1 .. Len(p \o r), (p \o r)[i] = "cancel"
      PROVE  i < Len(p \o r) /\ (p \o r)[i + 1] = "release"
  <2>1. CASE i <= Len(p)
    <3>1. i \in 1 .. Len(p) /\ p[i] = "cancel"
      BY <1>1, <1>3, <2>1
    <3>2. i < Len(p) /\ p[i + 1] = "release"
      BY <3>1 DEF Shape
    <3>3. QED
      BY <1>1, <3>1, <3>2
  <2>2. CASE i > Len(p)
    <3>1. i - Len(p) \in 1 .. Len(r) /\ r[i - Len(p)] = "cancel"
      BY <1>1, <1>3, <2>2
    <3>2. i - Len(p) < Len(r) /\ r[i - Len(p) + 1] = "release"
      BY <3>1 DEF Shape
    <3>3. i + 1 \in 1 .. Len(p) + Len(r) /\ i + 1 > Len(p) /\ i + 1 - Len(p) = i - Len(p) + 1
      BY <1>1, <3>1, <3>2, <2>2
    <3>4. QED
      BY <1>1, <3>2, <3>3
  <2>3. QED
    BY <1>1, <2>1, <2>2
<1>4. ASSUME Once(p), Once(r), ~(Has(p, "release") /\ Has(r, "release")),
             NEW i \in 1 .. Len(p \o r), NEW j \in 1 .. Len(p \o r),
             (p \o r)[i] = "release", (p \o r)[j] = "release"
      PROVE  i = j
  <2>1. \A k \in 1 .. Len(p \o r) : (p \o r)[k] = "release" =>
            IF k <= Len(p) THEN k \in 1 .. Len(p) /\ p[k] = "release"
            ELSE k - Len(p) \in 1 .. Len(r) /\ r[k - Len(p)] = "release"
    BY <1>1
  <2>2. CASE Has(p, "release")
    <3>1. \A k \in 1 .. Len(p \o r) : (p \o r)[k] = "release" =>
              k \in 1 .. Len(p) /\ p[k] = "release"
      BY <1>4, <2>1, <2>2 DEF Has
    <3>2. QED
      BY <1>4, <3>1 DEF Once
  <2>3. CASE ~Has(p, "release")
    <3>1. \A k \in 1 .. Len(p \o r) : (p \o r)[k] = "release" =>
              k - Len(p) \in 1 .. Len(r) /\ r[k - Len(p)] = "release"
      BY <2>1, <2>3 DEF Has
    <3>2. i - Len(p) = j - Len(p)
      BY <1>4, <3>1 DEF Once
    <3>3. QED
      BY <1>1, <3>2
  <2>4. QED
    BY <2>2, <2>3
<1>5. ASSUME NEW i \in 1 .. Len(p \o r), (p \o r)[i] = "create"
      PROVE  i = Len(p \o r)
  <2>1. CASE i <= Len(p)
    <3>1. i \in 1 .. Len(p) /\ p[i] = "create"
      BY <1>1, <1>5, <2>1
    <3>2. QED
      BY <3>1 DEF Has
  <2>2. CASE i > Len(p)
    <3>1. i - Len(p) \in 1 .. Len(r) /\ r[i - Len(p)] = "create"
      BY <1>1, <1>5, <2>2
    <3>2. i - Len(p) = Len(r)
      BY <3>1 DEF Shape
    <3>3. QED
      BY <1>1, <3>2
  <2>3. QED
    BY <1>1, <2>1, <2>2
<1>6. QED
  BY <1>1, <1>2, <1>3, <1>4, <1>5 DEF Shape, Once

\* The stacks that steps push.
LEMMA PushedShape ==
    /\ Shape(<< >>) /\ \A l \in Label \ {"cancel"} : Shape(<<l>>)
    /\ Shape(Failed) /\ Shape(<<"control", "top">>) /\ Shape(<<"data", "top">>)
    /\ Shape(<<"resend", "top">>)
    /\ Shape(<<"clear", "create">>) /\ Shape(<<"cancel", "release", "reset">>)
    /\ Once(<<"cancel", "release", "reset">>)
<1>1. \A l \in Label \ {"cancel"} : Shape(<<l>>)
  BY DEF Shape
<1>2. Shape(<< >>)
  BY DEF Shape
<1>3. Shape(Failed) /\ Shape(<<"clear", "create">>)
  BY DEF Shape, Failed, Label, LoopLabel, WriteLabel
<1>4. Shape(<<"control", "top">>) /\ Shape(<<"data", "top">>) /\ Shape(<<"resend", "top">>)
  BY DEF Shape, Label, LoopLabel, WriteLabel
<1>5. Shape(<<"cancel", "release", "reset">>) /\ Once(<<"cancel", "release", "reset">>)
  <2>1. <<"cancel", "release", "reset">> \in Seq(Label)
    BY DEF Label
  <2>2. QED
    BY <2>1 DEF Shape, Once, LoopLabel, WriteLabel
<1>6. QED
  BY <1>1, <1>2, <1>3, <1>4, <1>5

-----------------------------------------------------------------------------
(***************************************************************************)
(* Steps that neither open nor release a handle, nor begin to.             *)
(***************************************************************************)

\* What such a step does to the stack of a thread: a loop that ends, and a report that
\* is withdrawn, have a reason.
Keeps(t) ==
    /\ Shape(todo'[t])
    /\ Once(todo[t]) => Once(todo'[t])
    /\ Has(todo'[t], "create") => Has(todo[t], "create")
    /\ Has(todo'[t], "release") <=> Has(todo[t], "release")
    /\ t \in Loop /\ Live(todo[t]) /\ ~Live(todo'[t]) =>
          closing \/ raised' # {} \/ disposed' \/ Has(todo'[t], "check") \/ Has(todo'[t], "raise")
    /\ \A l \in {"check", "raise"} : Has(todo[t], l) /\ ~Has(todo'[t], l) =>
          raised' # {} \/ disposed' \/ Has(todo'[t], "raise")

StacksKept == todo' \in [Thread -> Seq(Label)] /\ \A t \in Thread : Keeps(t)

LEMMA KeptStep ==
    ASSUME Loops, ~overlapped, StacksKept, UNCHANGED <<handle, closed, opened>>,
           closing' => closing \/ \E t \in Thread : Has(todo[t], "release"),
           fired' => fired \/ raised' # {}, raised # {} => raised' # {}, disposed => disposed'
    PROVE  Loops'
<1>1. /\ Handles /\ Exclusive /\ Ends /\ (fired => raised # {})
      /\ IsOpen' = IsOpen /\ App \in Thread
  BY DEF Loops, IsOpen, Thread
<1>2. \A t \in Thread : Has(todo'[t], "release") <=> Has(todo[t], "release")
  BY DEF StacksKept, Keeps
<1>3. Has(todo'[App], "create") => Has(todo[App], "create")
  BY <1>1 DEF StacksKept, Keeps
<1>4. Handles'
  BY <1>1, <1>3 DEF Handles, Creating
<1>5. Exclusive'
  <2>1. Creating' => ~closing'
    BY <1>1, <1>3 DEF Exclusive, Handles, Creating
  <2>2. \A t \in Thread : Once(todo'[t])
    BY <1>1 DEF Exclusive, StacksKept, Keeps
  <2>3. closing' /\ IsOpen' => \E t \in Thread : Has(todo'[t], "release")
    BY <1>1, <1>2 DEF Exclusive
  <2>4. QED
    BY <1>1, <1>2, <2>1, <2>2, <2>3 DEF Exclusive
<1>6. Ends'
  <2>1. SUFFICES ASSUME IsOpen, handle \in opened, ~disposed', ~Live(todo'[ReadLoop(handle)])
                 PROVE  Reported'
    BY <1>1 DEF Ends
  <2>2. ReadLoop(handle) \in Thread /\ ReadLoop(handle) \in Loop
    BY <1>1, <2>1 DEF Handles, ReadLoop, Thread, Loop, Handle
  <2>3. CASE Live(todo[ReadLoop(handle)])
    <3>1. \/ closing \/ raised' # {} \/ Has(todo'[ReadLoop(handle)], "check")
          \/ Has(todo'[ReadLoop(handle)], "raise")
      BY <2>1, <2>2, <2>3 DEF StacksKept, Keeps
    <3>2. closing => \E t \in Thread : Has(todo'[t], "release")
      BY <1>1, <1>2, <2>1 DEF Exclusive
    <3>3. QED
      BY <2>2, <3>1, <3>2 DEF Reported
  <2>4. CASE ~Live(todo[ReadLoop(handle)])
    <3>1. raised # {} \/ \E t \in Thread : \E l \in {"check", "raise", "release"} : Has(todo[t], l)
      BY <1>1, <2>1, <2>4 DEF Ends, Reported
    <3>2. ASSUME NEW t \in Thread, NEW l \in {"check", "raise"}, Has(todo[t], l)
          PROVE  Reported'
      <4>1. Has(todo'[t], l) \/ raised' # {} \/ Has(todo'[t], "raise")
        BY <2>1, <3>2 DEF StacksKept, Keeps
      <4>2. QED
        BY <3>2, <4>1 DEF Reported
    <3>3. ASSUME NEW t \in Thread, Has(todo[t], "release")
          PROVE  Reported'
      BY <1>2, <3>3 DEF Reported
    <3>4. QED
      BY <3>1, <3>2, <3>3 DEF Reported
  <2>5. QED
    BY <2>3, <2>4
<1>7. QED
  BY <1>1, <1>4, <1>5, <1>6 DEF Loops, StacksKept, Keeps

\* Stacks that stay as they are.
LEMMA SameKeeps ==
    ASSUME Loops, NEW t \in Thread, todo'[t] = todo[t]
    PROVE  Keeps(t)
BY DEF Loops, Keeps

\* A stack whose top is replaced.
LEMMA TopReplaced ==
    ASSUME Loops, NEW t \in Thread, todo[t] # << >>, NEW p, Shape(p),
           todo'[t] = p \o Tail(todo[t]),
           ~Has(p, "release"), ~Has(p, "create"), ~At(t, "release"),
           \/ Head(todo[t]) \in LoopLabel
           \/ \A i \in 1 .. Len(p) : p[i] \notin LoopLabel \cup WriteLabel
           \/ /\ Head(todo[t]) \in WriteLabel
              /\ \A i \in 1 .. Len(p) : p[i] \notin LoopLabel,
           Head(todo[t]) \in LoopLabel =>
              Live(p) \/ Has(p, "check") \/ Has(p, "raise") \/ closing \/ raised' # {} \/ disposed',
           Head(todo[t]) \in {"check", "raise"} => raised' # {} \/ disposed' \/ Has(p, "raise")
    PROVE  Keeps(t) /\ todo'[t] \in Seq(Label)
<1> DEFINE r == Tail(todo[t])
           h == Head(todo[t])
<1>1. Shape(todo[t]) /\ todo[t] \in Seq(Label) /\ p \in Seq(Label)
  BY DEF Loops, Shape
<1>2. /\ Shape(r) /\ (h \in LoopLabel => r = << >>)
      /\ (h \in WriteLabel => \A i \in 1 .. Len(r) : r[i] = "top")
      /\ (Once(todo[t]) => Once(r))
  BY <1>1, ShapeTail
<1>3. /\ r \in Seq(Label)
      /\ \A l : Has(todo[t], l) <=> h = l \/ Has(r, l)
      /\ \A l : Has(todo'[t], l) <=> Has(p, l) \/ Has(r, l)
  <2>1. r \in Seq(Label) /\ \A l : Has(todo[t], l) <=> h = l \/ Has(r, l)
    BY <1>1, HasTail
  <2>2. \A l : Has(p \o r, l) <=> Has(p, l) \/ Has(r, l)
    BY <1>1, <2>1, HasConcat
  <2>3. QED
    BY <2>1, <2>2
<1>4. h # "release"
  BY DEF At, Idle
<1>5. Once(p)
  BY <1>1 DEF Once, Has
<1>6. Shape(todo'[t]) /\ (Once(todo[t]) => Once(todo'[t]))
  BY <1>2, <1>5, ShapeConcat
<1>7. Live(todo[t]) /\ ~Live(todo'[t]) =>
          closing \/ raised' # {} \/ disposed' \/ Has(todo'[t], "check") \/ Has(todo'[t], "raise")
  BY <1>3 DEF Live
<1>8. QED
  BY <1>3, <1>4, <1>6, <1>7 DEF Keeps, Shape

LEMMA GoKept ==
    ASSUME Loops, NEW t \in Thread, todo[t] # << >>, NEW p, Shape(p), Go(t, p),
           ~Has(p, "release"), ~Has(p, "create"), ~At(t, "release"),
           \/ Head(todo[t]) \in LoopLabel
           \/ \A i \in 1 .. Len(p) : p[i] \notin LoopLabel \cup WriteLabel
           \/ /\ Head(todo[t]) \in WriteLabel
              /\ \A i \in 1 .. Len(p) : p[i] \notin LoopLabel,
           Head(todo[t]) \in LoopLabel =>
              Live(p) \/ Has(p, "check") \/ Has(p, "raise") \/ closing \/ raised' # {} \/ disposed',
           Head(todo[t]) \in {"check", "raise"} => raised' # {} \/ disposed' \/ Has(p, "raise")
    PROVE  StacksKept
<1>1. todo \in [Thread -> Seq(Label)]
  BY DEF Loops
<1>2. todo' = [todo EXCEPT ![t] = p \o Tail(todo[t])]
  BY <1>1 DEF Go
<1>3. todo'[t] = p \o Tail(todo[t]) /\ \A u \in Thread \ {t} : todo'[u] = todo[u]
  BY <1>1, <1>2
<1>4. Keeps(t) /\ todo'[t] \in Seq(Label)
  BY <1>3, TopReplaced
<1>5. \A u \in Thread \ {t} : Keeps(u)
  BY <1>3, SameKeeps
<1>6. QED
  BY <1>1, <1>2, <1>4, <1>5 DEF StacksKept

LEMMA GoNone ==
    ASSUME Loops, NEW t \in Thread, todo[t] # << >>, Go(t, << >>), ~At(t, "release"),
           Head(todo[t]) \in LoopLabel => closing \/ raised' # {} \/ disposed',
           Head(todo[t]) \in {"check", "raise"} => raised' # {} \/ disposed'
    PROVE  StacksKept
<1>1. /\ Shape(<< >>) /\ \A l : ~Has(<< >>, l)
      /\ \A i \in 1 .. Len(<< >>) : << >>[i] \notin LoopLabel \cup WriteLabel
  BY PushedShape, HasShort
<1>2. QED
  BY <1>1, GoKept

LEMMA GoOne ==
    ASSUME Loops, NEW t \in Thread, todo[t] # << >>, ~At(t, "release"),
           NEW l \in Label \ {"cancel", "release", "create"}, Go(t, <<l>>),
           l \in LoopLabel => Head(todo[t]) \in LoopLabel,
           l \in WriteLabel => Head(todo[t]) \in LoopLabel \cup WriteLabel,
           Head(todo[t]) \in LoopLabel =>
              l \in LoopLabel \cup {"check", "raise"} \/ closing \/ raised' # {} \/ disposed',
           Head(todo[t]) \in {"check", "raise"} => raised' # {} \/ disposed' \/ l = "raise"
    PROVE  StacksKept
<1>1. /\ Shape(<<l>>) /\ \A k : Has(<<l>>, k) <=> k = l
      /\ \A i \in 1 .. Len(<<l>>) : <<l>>[i] = l
  BY PushedShape, HasShort
<1>2. Live(<<l>>) <=> l \in LoopLabel
  BY <1>1 DEF Live
<1>3. QED
  BY <1>1, <1>2, GoKept

\* A write that fails, and a frame that is answered or is an ACK.
LEMMA GoFailed ==
    ASSUME Loops, NEW t \in Thread, todo[t] # << >>, Go(t, Failed),
           Head(todo[t]) \in WriteLabel
    PROVE  StacksKept
<1>1. /\ Shape(Failed) /\ ~Has(Failed, "release") /\ ~Has(Failed, "create")
      /\ \A i \in 1 .. Len(Failed) : Failed[i] \notin LoopLabel \cup WriteLabel
  <2>1. \A l : Has(Failed, l) <=> l \in {"check", "dispose"}
    BY HasShort DEF Failed
  <2>2. \A i \in 1 .. Len(Failed) : Failed[i] \notin LoopLabel \cup WriteLabel
    BY DEF Failed, LoopLabel, WriteLabel
  <2>3. QED
    BY <2>1, <2>2, PushedShape
<1>2. ~At(t, "release") /\ Head(todo[t]) \notin LoopLabel \cup {"check", "raise"}
  BY DEF At, WriteLabel, LoopLabel
<1>3. QED
  BY <1>1, <1>2, GoKept

LEMMA GoAnswer ==
    ASSUME Loops, NEW t \in Thread, todo[t] # << >>, Head(todo[t]) \in LoopLabel,
           NEW l \in {"control", "data", "resend"}, Go(t, <<l, "top">>)
    PROVE  StacksKept
<1>1. /\ Shape(<<l, "top">>) /\ ~Has(<<l, "top">>, "release") /\ ~Has(<<l, "top">>, "create")
      /\ Live(<<l, "top">>)
  BY PushedShape, HasShort DEF Live, LoopLabel
<1>2. ~At(t, "release") /\ Head(todo[t]) \notin {"check", "raise"}
  BY DEF At, LoopLabel
<1>3. QED
  BY <1>1, <1>2, GoKept

\* A thread that was idle begins with l.
LEMMA BeginKept ==
    ASSUME Loops, NEW t \in Thread, Idle(t), NEW l \in Label \ {"cancel", "release", "create"},
           todo' = [todo EXCEPT ![t] = <<l>>]
    PROVE  StacksKept
<1>1. /\ todo \in [Thread -> Seq(Label)] /\ todo'[t] = <<l>> /\ todo[t] = << >>
      /\ \A u \in Thread \ {t} : todo'[u] = todo[u]
  BY DEF Loops, Idle
<1>2. /\ Shape(<<l>>) /\ (\A k : Has(<<l>>, k) <=> k = l) /\ (\A k : ~Has(<< >>, k))
  BY PushedShape, HasShort
<1>3. Once(<<l>>)
  BY <1>2 DEF Once, Has
<1>4. Keeps(t)
  BY <1>1, <1>2, <1>3 DEF Keeps, Live
<1>5. todo' \in [Thread -> Seq(Label)]
  BY <1>1
<1>6. QED
  BY <1>1, <1>4, <1>5, SameKeeps DEF StacksKept

LEMMA SameKept ==
    ASSUME Loops, todo' = todo
    PROVE  StacksKept
BY SameKeeps DEF Loops, StacksKept

\* The calls of other threads are ended.
LEMMA AbortOthers ==
    ASSUME Loops, NEW u \in Thread, NEW ls \in Seq(Label), Abort(u, ls)
    PROVE  /\ todo' \in [Thread -> Seq(Label)] /\ todo'[u] = ls
           /\ \A t \in Thread \ {u} : Keeps(t)
<1>1. ASSUME NEW t \in Thread \ {u}
      PROVE  Keeps(t) /\ todo'[t] \in Seq(Label)
  <2>1. CASE Calling(t, "pending")
    <3>1. todo'[t] = <<"catch">> /\ todo[t] # << >> /\ Head(todo[t]) = "pending"
      BY <1>1, <2>1 DEF Abort, Calling, At, Idle
    <3>2. Shape(todo[t])
      BY DEF Loops
    <3>3. Tail(todo[t]) = << >>
      BY <3>1, <3>2, ShapeTail DEF LoopLabel
    <3>4. todo'[t] = <<"catch">> \o Tail(todo[t])
      <4>1. <<"catch">> \in Seq(Label)
        BY DEF Label
      <4>2. <<"catch">> \o << >> = <<"catch">>
        BY <4>1
      <4>3. QED
        BY <3>1, <3>3, <4>2
    <3>5. /\ Shape(<<"catch">>) /\ \A l : Has(<<"catch">>, l) <=> l = "catch"
      BY PushedShape, HasShort DEF Label
    <3>6. Live(<<"catch">>) /\ ~At(t, "release") /\ Head(todo[t]) \in LoopLabel
      BY <3>1, <3>5 DEF Live, LoopLabel, At
    <3>7. QED
      BY <3>1, <3>4, <3>5, <3>6, TopReplaced
  <2>2. CASE Calling(t, "writing") /\ ~Calling(t, "pending")
    <3>1. todo'[t] = Failed \o Tail(todo[t]) /\ todo[t] # << >> /\ Head(todo[t]) = "writing"
      BY <1>1, <2>2 DEF Abort, Calling, At, Idle
    <3>2. /\ Shape(Failed) /\ ~Has(Failed, "release") /\ ~Has(Failed, "create")
      <4>1. \A l : Has(Failed, l) <=> l \in {"check", "dispose"}
        BY HasShort DEF Failed
      <4>2. QED
        BY <4>1, PushedShape
    <3>3. \A i \in 1 .. Len(Failed) : Failed[i] \notin LoopLabel \cup WriteLabel
      BY DEF Failed, LoopLabel, WriteLabel
    <3>4. ~At(t, "release") /\ Head(todo[t]) \notin LoopLabel \cup {"check", "raise"}
      BY <3>1 DEF At, LoopLabel
    <3>5. QED
      BY <3>1, <3>2, <3>3, <3>4, TopReplaced
  <2>3. CASE ~Calling(t, "writing") /\ ~Calling(t, "pending")
    <3>1. todo'[t] = todo[t]
      BY <1>1, <2>3 DEF Abort
    <3>2. QED
      BY <3>1, SameKeeps DEF Loops
  <2>4. QED
    BY <2>1, <2>2, <2>3
<1>2. todo'[u] = ls /\ DOMAIN todo' = Thread /\ todo' = [t \in Thread |-> todo'[t]]
  BY DEF Abort
<1>3. QED
  BY <1>1, <1>2

\* What is at the top of a stack.
LEMMA AtTop ==
    ASSUME NEW t, NEW l, At(t, l)
    PROVE  todo[t] # << >> /\ Head(todo[t]) = l /\ \A k : At(t, k) => k = l
BY DEF At, Idle

\* A frame in flight is taken to be written again, if there is one.
LEMMA ResendKept ==
    ASSUME Loops, NEW t \in Thread, Resend(t)
    PROVE  StacksKept
<1>1. todo[t] # << >> /\ Head(todo[t]) = "resend" /\ ~At(t, "release")
  BY AtTop DEF Resend
<1>2. CASE Go(t, <<"data">>)
  BY <1>1, <1>2, GoOne DEF Label, LoopLabel, WriteLabel
<1>3. CASE Go(t, << >>)
  BY <1>1, <1>3, GoNone DEF LoopLabel
<1>4. QED
  BY <1>2, <1>3 DEF Resend

\* A loop's own steps.
LEMMA LoopKept ==
    ASSUME Loops, ~overlapped, NEW t \in Loop, Looping(t)
    PROVE  Loops'
<1>1. t \in Thread /\ (fired => raised # {})
  BY DEF Loops, Thread
<1>2. UNCHANGED <<handle, closed, opened, flagVars>>
  BY DEF Looping, Top, Issue, ReadEnds, CallFails, Catch, HandleFrame, Resend, handleVars
<1>3. ASSUME StacksKept
      PROVE  Loops'
  BY <1>2, <1>3, KeptStep DEF flagVars
<1>4. CASE Top(t)
  <2>1. todo[t] # << >> /\ Head(todo[t]) = "top" /\ ~At(t, "release")
    BY <1>4, AtTop DEF Top
  <2>2. CASE closing
    <3>1. Go(t, << >>)
      BY <1>4, <2>2 DEF Top
    <3>2. QED
      BY <1>1, <1>3, <2>1, <2>2, <3>1, GoNone
  <2>3. CASE ~closing
    <3>1. Go(t, <<"issue">>)
      BY <1>4, <2>3 DEF Top
    <3>2. StacksKept
      BY <1>1, <2>1, <3>1, GoOne DEF Label, LoopLabel, WriteLabel
    <3>3. QED
      BY <1>3, <3>2
  <2>4. QED
    BY <2>2, <2>3
<1>5. CASE Issue(t)
  <2>1. todo[t] # << >> /\ Head(todo[t]) = "issue" /\ ~At(t, "release")
    BY <1>5, AtTop DEF Issue
  <2>2. PICK l \in {"catch", "pending"} : Go(t, <<l>>)
    BY <1>5 DEF Issue
  <2>3. StacksKept
    BY <1>1, <2>1, <2>2, GoOne DEF Label, LoopLabel, WriteLabel
  <2>4. QED
    BY <1>3, <2>3
<1>6. CASE ReadEnds(t)
  <2>1. todo[t] # << >> /\ Head(todo[t]) = "pending" /\ ~At(t, "release")
    BY <1>6, AtTop DEF ReadEnds
  <2>2. Go(t, <<"frame">>)
    BY <1>6 DEF ReadEnds
  <2>3. StacksKept
    BY <1>1, <2>1, <2>2, GoOne DEF Label, LoopLabel, WriteLabel
  <2>4. QED
    BY <1>3, <2>3
<1>7. CASE CallFails(t)
  <2>1. todo[t] # << >> /\ Head(todo[t]) = "pending" /\ ~At(t, "release")
    BY <1>7, AtTop DEF CallFails
  <2>2. PICK l \in {"catch", "top", "check"} : Go(t, <<l>>)
    BY <1>7 DEF CallFails
  <2>3. StacksKept
    BY <1>1, <2>1, <2>2, GoOne DEF Label, LoopLabel, WriteLabel
  <2>4. QED
    BY <1>3, <2>3
<1>8. CASE Catch(t)
  <2>1. todo[t] # << >> /\ Head(todo[t]) = "catch" /\ ~At(t, "release")
    BY <1>8, AtTop DEF Catch
  <2>2. CASE closing \/ disposed \/ fired
    <3>1. Go(t, << >>) /\ raised' = raised /\ disposed' = disposed
      BY <1>8, <2>2 DEF Catch, flagVars
    <3>2. closing \/ raised' # {} \/ disposed'
      BY <1>1, <2>2, <3>1
    <3>3. StacksKept
      BY <1>1, <2>1, <3>1, <3>2, GoNone
    <3>4. QED
      BY <1>3, <3>3
  <2>3. CASE ~(closing \/ disposed \/ fired)
    <3>1. Go(t, <<"raise">>)
      BY <1>8, <2>3 DEF Catch
    <3>2. StacksKept
      BY <1>1, <2>1, <3>1, GoOne DEF Label, LoopLabel, WriteLabel
    <3>3. QED
      BY <1>3, <3>2
  <2>4. QED
    BY <2>2, <2>3
<1>9. CASE HandleFrame(t)
  <2>1. todo[t] # << >> /\ Head(todo[t]) = "frame" /\ ~At(t, "release")
    BY <1>9, AtTop DEF HandleFrame
  <2>2. \/ closing /\ Go(t, << >>)
        \/ Go(t, <<"top">>)
        \/ \E l \in {"control", "data", "resend"} : Go(t, <<l, "top">>)
    BY <1>9 DEF HandleFrame
  <2>3. CASE closing /\ Go(t, << >>)
    BY <1>1, <1>3, <2>1, <2>3, GoNone
  <2>4. CASE Go(t, <<"top">>)
    <3>1. StacksKept
      BY <1>1, <2>1, <2>4, GoOne DEF Label, LoopLabel, WriteLabel
    <3>2. QED
      BY <1>3, <3>1
  <2>5. CASE \E l \in {"control", "data", "resend"} : Go(t, <<l, "top">>)
    <3>1. StacksKept
      BY <1>1, <2>1, <2>5, GoAnswer DEF LoopLabel
    <3>2. QED
      BY <1>3, <3>1
  <2>6. QED
    BY <2>2, <2>3, <2>4, <2>5
<1>10. CASE Resend(t)
  <2>1. StacksKept
    BY <1>1, <1>10, ResendKept
  <2>2. QED
    BY <1>3, <2>1
<1>11. QED
  BY <1>4, <1>5, <1>6, <1>7, <1>8, <1>9, <1>10 DEF Looping

\* A thread that ends the session or reports its end, but for the steps that decide to
\* release the handle or do so.
LEMMA EndingKept ==
    ASSUME Loops, ~overlapped, NEW t \in Thread,
           DisposedAlready(t) \/ ResetFlags(t) \/ Disposed(t) \/ Check(t) \/ Raise(t)
    PROVE  Loops'
<1>1. UNCHANGED <<handle, closed, opened>> /\ (fired => raised # {})
  BY DEF DisposedAlready, ResetFlags, Disposed, Check, Raise, handleVars, restVars, Loops
<1>2. CASE DisposedAlready(t) \/ ResetFlags(t) \/ Disposed(t)
  <2>1. /\ todo[t] # << >> /\ ~At(t, "release") /\ Go(t, << >>)
        /\ Head(todo[t]) \in {"dispose", "reset", "disposed"}
    BY <1>2, AtTop DEF DisposedAlready, ResetFlags, Disposed
  <2>2. StacksKept
    BY <2>1, GoNone DEF LoopLabel
  <2>3. /\ closing' => closing
        /\ fired' => fired
        /\ raised' = raised /\ (disposed => disposed')
    BY <1>2 DEF DisposedAlready, ResetFlags, Disposed, flagVars
  <2>4. QED
    BY <1>1, <2>2, <2>3, KeptStep
<1>3. CASE Check(t)
  <2>1. /\ todo[t] # << >> /\ Head(todo[t]) = "check" /\ ~At(t, "release")
        /\ UNCHANGED flagVars
    BY <1>3, AtTop DEF Check
  <2>2. CASE disposed \/ fired
    <3>1. Go(t, << >>)
      BY <1>3, <2>2 DEF Check
    <3>2. raised' # {} \/ disposed'
      BY <1>1, <2>1, <2>2 DEF flagVars
    <3>3. StacksKept
      BY <2>1, <3>1, <3>2, GoNone
    <3>4. QED
      BY <1>1, <2>1, <3>3, KeptStep DEF flagVars
  <2>3. CASE ~(disposed \/ fired)
    <3>1. Go(t, <<"raise">>)
      BY <1>3, <2>3 DEF Check
    <3>2. StacksKept
      BY <2>1, <3>1, GoOne DEF Label, LoopLabel, WriteLabel
    <3>3. QED
      BY <1>1, <2>1, <3>2, KeptStep DEF flagVars
  <2>4. QED
    BY <2>2, <2>3
<1>4. CASE Raise(t)
  <2>1. /\ todo[t] # << >> /\ Head(todo[t]) = "raise" /\ ~At(t, "release")
        /\ fired' /\ raised' # {} /\ UNCHANGED <<closing, disposed>>
    BY <1>4, AtTop DEF Raise
  <2>2. Go(t, << >>) \/ Go(t, <<"close">>)
    BY <1>4 DEF Raise
  <2>3. CASE Go(t, << >>)
    <3>1. StacksKept
      BY <2>1, <2>3, GoNone
    <3>2. QED
      BY <1>1, <2>1, <3>1, KeptStep
  <2>4. CASE Go(t, <<"close">>)
    <3>1. StacksKept
      BY <2>1, <2>4, GoOne DEF Label, LoopLabel, WriteLabel
    <3>2. QED
      BY <1>1, <2>1, <3>1, KeptStep
  <2>5. QED
    BY <2>2, <2>3, <2>4
<1>5. QED
  BY <1>2, <1>3, <1>4

\* _closing is set by a Close that is still to release the handle.
LEMMA CancelKept ==
    ASSUME Loops, ~overlapped, NEW t \in Thread, Cancel(t)
    PROVE  Loops'
<1>1. /\ todo[t] # << >> /\ Head(todo[t]) = "cancel" /\ Abort(t, Tail(todo[t]))
      /\ UNCHANGED <<handle, closed, opened, fired, raised, disposed>>
  BY AtTop DEF Cancel, handleVars
<1>2. Shape(todo[t]) /\ todo[t] \in Seq(Label)
  BY DEF Loops, Shape
<1>3. /\ Shape(Tail(todo[t])) /\ Has(Tail(todo[t]), "release")
      /\ (Once(todo[t]) => Once(Tail(todo[t])))
  BY <1>1, <1>2, ShapeTail
<1>4. /\ Tail(todo[t]) \in Seq(Label)
      /\ \A l : Has(todo[t], l) <=> "cancel" = l \/ Has(Tail(todo[t]), l)
  BY <1>1, <1>2, HasTail
<1>5. /\ todo' \in [Thread -> Seq(Label)] /\ todo'[t] = Tail(todo[t])
      /\ \A u \in Thread \ {t} : Keeps(u)
  BY <1>1, <1>4, AbortOthers
<1>6. Keeps(t)
  BY <1>3, <1>4, <1>5 DEF Keeps, Live, LoopLabel
<1>7. StacksKept
  BY <1>5, <1>6 DEF StacksKept
<1>8. \E u \in Thread : Has(todo[u], "release")
  BY <1>3, <1>4
<1>9. QED
  BY <1>1, <1>7, <1>8, KeptStep

\* Below a frame that is to be written there is the loop, if anything.
LEMMA WriteAlone ==
    ASSUME Loops, NEW t \in Thread, todo[t] # << >>, Head(todo[t]) \in WriteLabel
    PROVE  \A l : Has(todo[t], l) => l \in WriteLabel \cup {"top"}
<1>1. Shape(todo[t]) /\ todo[t] \in Seq(Label)
  BY DEF Loops, Shape
<1>2. \A i \in 1 .. Len(Tail(todo[t])) : Tail(todo[t])[i] = "top"
  BY <1>1, ShapeTail
<1>3. \A l : Has(todo[t], l) <=> Head(todo[t]) = l \/ Has(Tail(todo[t]), l)
  BY <1>1, HasTail
<1>4. QED
  BY <1>2, <1>3 DEF Has

\* Writing a frame.
LEMMA WritingKept ==
    ASSUME Loops, ~overlapped, NEW t \in Thread, Writing(t)
    PROVE  Loops'
<1>1. UNCHANGED <<handle, closed, opened, flagVars>>
  BY DEF Writing, DropWrite, WriteThrows, WriteBegins, WriteEnds, handleVars
<1>2. ASSUME StacksKept
      PROVE  Loops'
  BY <1>1, <1>2, KeptStep DEF flagVars
<1>3. todo[t] # << >> /\ Head(todo[t]) \in WriteLabel /\ ~At(t, "release")
  BY AtTop DEF Writing, DropWrite, WriteThrows, WriteBegins, WriteEnds, WriteLabel
<1>4. Head(todo[t]) \notin LoopLabel \cup {"check", "raise"}
  BY <1>3 DEF WriteLabel, LoopLabel
<1>5. CASE Go(t, << >>)
  BY <1>2, <1>3, <1>4, <1>5, GoNone
<1>6. CASE Go(t, Failed)
  BY <1>2, <1>3, <1>6, GoFailed
<1>7. CASE Go(t, <<"writing">>)
  <2>1. StacksKept
    BY <1>3, <1>4, <1>7, GoOne DEF Label, LoopLabel, WriteLabel
  <2>2. QED
    BY <1>2, <2>1
<1>8. CASE WriteThrows(t)
  <2>1. /\ todo \in [Thread -> Seq(Label)] /\ <<"catch">> \in Seq(Label)
        /\ todo' = [todo EXCEPT ![t] = IF t \in Loop THEN <<"catch">> ELSE << >>]
    BY <1>8 DEF WriteThrows, Loops, Label
  <2>2. /\ todo' \in [Thread -> Seq(Label)] /\ \A u \in Thread \ {t} : todo'[u] = todo[u]
        /\ todo'[t] = IF t \in Loop THEN <<"catch">> ELSE << >>
    BY <2>1
  <2>3. /\ Shape(<<"catch">>) /\ Shape(<< >>)
        /\ \A l : (Has(<<"catch">>, l) <=> l = "catch") /\ ~Has(<< >>, l)
    BY PushedShape, HasShort DEF Label
  <2>4. /\ ~Has(todo[t], "release") /\ ~Has(todo[t], "create")
        /\ ~Has(todo[t], "check") /\ ~Has(todo[t], "raise")
    <3>1. \A l : Has(todo[t], l) => l \in WriteLabel \cup {"top"}
      BY <1>3, WriteAlone
    <3>2. QED
      BY <3>1 DEF WriteLabel
  <2>5. Shape(todo'[t]) /\ \A l : Has(todo'[t], l) => l = "catch"
    BY <2>2, <2>3
  <2>6. t \in Loop => Live(todo'[t])
    BY <2>2, <2>3 DEF Live, LoopLabel
  <2>7. Once(todo'[t])
    BY <2>5 DEF Once, Has
  <2>8. Keeps(t)
    BY <2>4, <2>5, <2>6, <2>7 DEF Keeps
  <2>9. StacksKept
    BY <2>2, <2>8, SameKeeps DEF StacksKept
  <2>10. QED
    BY <1>2, <2>9
<1>9. QED
  BY <1>5, <1>6, <1>7, <1>8 DEF Writing, DropWrite, WriteBegins, WriteEnds

\* What the application, the timer and the system begin, and the callback's decision.
LEMMA MachineKept ==
    ASSUME Loops, ~overlapped,
           \/ CallClose \/ Send \/ CallResend \/ TimerFires \/ OnSuspend \/ Unplug
           \/ ClearArq \/ OnAckTimeout \/ Resend(App) \/ UNCHANGED vars
    PROVE  Loops'
<1>1. UNCHANGED <<handle, closed, opened, flagVars>>
  BY DEF CallClose, Send, CallResend, TimerFires, OnSuspend, Unplug, ClearArq,
         OnAckTimeout, Resend, vars, handleVars
<1>2. ASSUME StacksKept
      PROVE  Loops'
  BY <1>1, <1>2, KeptStep DEF flagVars
<1>3. App \in Thread /\ Timeout \in Thread /\ Pool \in Thread
  BY DEF Thread
<1>4. CASE todo' = todo
  BY <1>2, <1>4, SameKept
<1>5. CASE CallClose
  <2>1. PICK l \in {"close", "dispose"} : todo' = [todo EXCEPT ![App] = <<l>>]
    BY <1>5 DEF CallClose
  <2>2. Idle(App)
    BY <1>5 DEF CallClose
  <2>3. StacksKept
    BY <1>3, <2>1, <2>2, BeginKept DEF Label
  <2>4. QED
    BY <1>2, <2>3
<1>6. CASE Idle(App) /\ todo' = [todo EXCEPT ![App] = <<"data">>]
  <2>1. StacksKept
    BY <1>3, <1>6, BeginKept DEF Label
  <2>2. QED
    BY <1>2, <2>1
<1>7. CASE TimerFires
  <2>1. Idle(Timeout) /\ todo' = [todo EXCEPT ![Timeout] = <<"callback">>]
    BY <1>7 DEF TimerFires
  <2>2. StacksKept
    BY <1>3, <2>1, BeginKept DEF Label
  <2>3. QED
    BY <1>2, <2>2
<1>8. CASE OnSuspend
  <2>1. Idle(Pool) /\ Abort(Pool, <<"check">>) /\ <<"check">> \in Seq(Label)
    BY <1>8 DEF OnSuspend, Label
  <2>2. /\ todo' \in [Thread -> Seq(Label)] /\ todo'[Pool] = <<"check">>
        /\ \A t \in Thread \ {Pool} : Keeps(t)
    BY <1>3, <2>1, AbortOthers
  <2>3. /\ Shape(<<"check">>) /\ (\A k : Has(<<"check">>, k) <=> k = "check")
        /\ (\A k : ~Has(<< >>, k))
    BY PushedShape, HasShort DEF Label
  <2>4. Once(<<"check">>)
    BY <2>3 DEF Once, Has
  <2>5. Keeps(Pool)
    BY <2>1, <2>2, <2>3, <2>4 DEF Keeps, Live, Idle
  <2>6. StacksKept
    BY <2>2, <2>5 DEF StacksKept
  <2>7. QED
    BY <1>2, <2>6
<1>9. CASE ClearArq
  <2>1. todo[App] # << >> /\ Head(todo[App]) = "clear" /\ ~At(App, "release") /\ Go(App, << >>)
    BY <1>9, AtTop DEF ClearArq
  <2>2. StacksKept
    BY <1>3, <2>1, GoNone DEF LoopLabel
  <2>3. QED
    BY <1>2, <2>2
<1>10. CASE OnAckTimeout
  <2>1. /\ todo[Timeout] # << >> /\ Head(todo[Timeout]) = "callback"
        /\ ~At(Timeout, "release")
    BY <1>10, AtTop DEF OnAckTimeout
  <2>2. CASE awaiting
    <3>1. Go(Timeout, <<"data">>)
      BY <1>10, <2>2 DEF OnAckTimeout
    <3>2. StacksKept
      BY <1>3, <2>1, <3>1, GoOne DEF Label, LoopLabel, WriteLabel
    <3>3. QED
      BY <1>2, <3>2
  <2>3. CASE ~awaiting
    <3>1. Go(Timeout, << >>)
      BY <1>10, <2>3 DEF OnAckTimeout
    <3>2. StacksKept
      BY <1>3, <2>1, <3>1, GoNone DEF LoopLabel
    <3>3. QED
      BY <1>2, <3>2
  <2>4. QED
    BY <2>2, <2>3
<1>11. CASE CallResend
  <2>1. Idle(App) /\ todo' = [todo EXCEPT ![App] = <<"resend">>]
    BY <1>11 DEF CallResend
  <2>2. StacksKept
    BY <1>3, <2>1, BeginKept DEF Label
  <2>3. QED
    BY <1>2, <2>2
<1>12. CASE Resend(App)
  <2>1. StacksKept
    BY <1>3, <1>12, ResendKept
  <2>2. QED
    BY <1>2, <2>1
<1>13. QED
  BY <1>4, <1>5, <1>6, <1>7, <1>8, <1>9, <1>10, <1>11, <1>12
     DEF Send, Unplug, taskVars, vars

-----------------------------------------------------------------------------
(***************************************************************************)
(* Steps that open or release a handle, or begin to.                       *)
(***************************************************************************)

\* The handle is released: nobody has it open, and no other Close is under way.
LEMMA ReleaseKept ==
    ASSUME Loops, ~overlapped, NEW t \in Thread, Release(t)
    PROVE  Loops'
<1>1. /\ todo[t] # << >> /\ Head(todo[t]) = "release" /\ Abort(t, Tail(todo[t]))
      /\ closed' = closed \cup {handle}
      /\ UNCHANGED <<handle, opened, fired, raised>>
  BY AtTop DEF Release, flagVars
<1>2. Shape(todo[t]) /\ todo[t] \in Seq(Label) /\ Exclusive /\ Handles /\ (fired => raised # {})
  BY DEF Loops, Shape
<1>3. /\ Tail(todo[t]) \in Seq(Label)
      /\ \A l : Has(todo[t], l) <=> "release" = l \/ Has(Tail(todo[t]), l)
  BY <1>1, <1>2, HasTail
<1>4. /\ Shape(Tail(todo[t])) /\ Once(Tail(todo[t])) /\ ~Has(Tail(todo[t]), "release")
  BY <1>1, <1>2, ShapeTail DEF Exclusive
<1>5. /\ todo' \in [Thread -> Seq(Label)] /\ todo'[t] = Tail(todo[t])
      /\ \A u \in Thread \ {t} : Keeps(u)
  BY <1>1, <1>3, AbortOthers
<1>6. Has(todo[t], "release")
  BY <1>3
<1>7. IsOpen /\ \A u \in Thread : Has(todo[u], "release") => u = t
  BY <1>2, <1>6 DEF Exclusive
<1>8. \A u \in Thread : ~Has(todo'[u], "release")
  BY <1>4, <1>5, <1>7 DEF Keeps
<1>9. \A u \in Thread : Shape(todo'[u]) /\ Once(todo'[u])
  BY <1>2, <1>4, <1>5 DEF Keeps, Exclusive
<1>10. ~Creating'
  <2>1. App \in Thread /\ ~Has(todo[App], "create")
    BY <1>2, <1>7 DEF Handles, Creating, Thread
  <2>2. CASE t = App
    BY <1>3, <1>5, <2>1, <2>2 DEF Creating
  <2>3. CASE t # App
    BY <1>5, <2>1, <2>3 DEF Creating, Keeps
  <2>4. QED
    BY <2>2, <2>3
<1>11. ~IsOpen'
  BY <1>1 DEF IsOpen
<1>12. Handles'
  BY <1>1, <1>2, <1>10 DEF Handles
<1>13. Exclusive' /\ Ends'
  BY <1>8, <1>9, <1>10, <1>11 DEF Exclusive, Ends
<1>14. QED
  BY <1>1, <1>2, <1>5, <1>9, <1>12, <1>13 DEF Loops

\* The work of a Close.
LEMMA ClosePushed ==
    ASSUME NEW then \in {<< >>, <<"disposed">>}
    PROVE  LET p == <<"cancel", "release", "reset">> \o then
           IN  /\ Shape(p) /\ Once(p) /\ Has(p, "release") /\ ~Has(p, "create")
               /\ \A i \in 1 .. Len(p) : p[i] \notin LoopLabel \cup WriteLabel
<1> DEFINE q == <<"cancel", "release", "reset">>
<1>1. Shape(q) /\ Once(q) /\ \A l : Has(q, l) <=> l \in {"cancel", "release", "reset"}
  BY PushedShape, HasShort
<1>2. Shape(then) /\ \A l : Has(then, l) => l = "disposed"
  <2>1. Shape(<< >>) /\ Shape(<<"disposed">>)
    BY PushedShape DEF Label
  <2>2. (\A l : ~Has(<< >>, l)) /\ \A l : Has(<<"disposed">>, l) <=> l = "disposed"
    BY HasShort
  <2>3. QED
    BY <2>1, <2>2
<1>3. Once(then)
  BY <1>2 DEF Once, Has
<1>4. q \in Seq(Label) /\ then \in Seq(Label)
  BY <1>1, <1>2 DEF Shape
<1>5. \A i \in 1 .. Len(q) : q[i] \notin LoopLabel \cup WriteLabel
  BY DEF LoopLabel, WriteLabel
<1> HIDE DEF q
<1>6. Shape(q \o then) /\ Once(q \o then)
  <2>1. ~Has(q, "create") /\ ~Has(then, "release")
    BY <1>1, <1>2
  <2>2. QED
    BY <1>1, <1>2, <1>3, <1>5, <2>1, ShapeConcat
<1>7. \A l : Has(q \o then, l) <=> Has(q, l) \/ Has(then, l)
  BY <1>4, HasConcat
<1>8. \A l : Has(q \o then, l) => l \in {"cancel", "release", "reset", "disposed"}
  BY <1>1, <1>2, <1>7
<1>9. Has(q \o then, "release") /\ ~Has(q \o then, "create")
  BY <1>1, <1>7, <1>8
<1>10. \A i \in 1 .. Len(q \o then) : (q \o then)[i] \notin LoopLabel \cup WriteLabel
  <2>1. \A i \in 1 .. Len(q \o then) :
            (q \o then)[i] \in {"cancel", "release", "reset", "disposed"}
    BY <1>8 DEF Has
  <2>2. QED
    BY <2>1 DEF LoopLabel, WriteLabel
<1>11. QED
  BY <1>6, <1>9, <1>10 DEF q

\* A Close that finds the handle open, and no other Close about to release it, is the
\* one that will; after one that finds another, nothing is claimed.
LEMMA EnterKept ==
    ASSUME Loops, ~overlapped, NEW t \in Thread, NEW then \in {<< >>, <<"disposed">>},
           todo[t] # << >>, Head(todo[t]) \in {"close", "dispose"}, EnterClose(t, then)
    PROVE  Loops'
<1>1. /\ UNCHANGED <<handle, closed, opened, closing, fired, raised, disposed>>
      /\ IsOpen' = IsOpen
  BY DEF EnterClose, handleVars, IsOpen
<1>2. ~At(t, "release") /\ Head(todo[t]) \notin LoopLabel \cup WriteLabel \cup {"check", "raise"}
  BY DEF At, LoopLabel, WriteLabel
<1>3. CASE ~IsOpen
  <2>1. Go(t, then)
    <3>1. << >> \o then = then
      OBVIOUS
    <3>2. QED
      BY <1>3, <3>1 DEF EnterClose
  <2>2. StacksKept
    <3>1. CASE then = << >>
      BY <1>2, <2>1, <3>1, GoNone
    <3>2. CASE then = <<"disposed">>
      BY <1>2, <2>1, <3>2, GoOne DEF Label, LoopLabel, WriteLabel
    <3>3. QED
      BY <3>1, <3>2
  <2>3. QED
    BY <1>1, <2>2, KeptStep DEF Loops
<1>4. CASE IsOpen
  <2> DEFINE p == <<"cancel", "release", "reset">> \o then
             r == Tail(todo[t])
  <2>1. /\ Shape(p) /\ Once(p) /\ Has(p, "release") /\ ~Has(p, "create")
        /\ \A i \in 1 .. Len(p) : p[i] \notin LoopLabel \cup WriteLabel
    BY ClosePushed
  <2>2. Go(t, p)
    BY <1>4 DEF EnterClose
  <2> HIDE DEF p
  <2>3. /\ todo \in [Thread -> Seq(Label)] /\ Shape(todo[t]) /\ todo[t] \in Seq(Label)
        /\ Exclusive /\ Ends /\ Handles /\ (fired => raised # {})
    BY DEF Loops, Shape
  <2>4. /\ Shape(r) /\ (Once(todo[t]) => Once(r)) /\ r \in Seq(Label) /\ p \in Seq(Label)
    BY <2>1, <2>3, ShapeTail DEF Shape
  <2>5. \A l : Has(todo[t], l) <=> Head(todo[t]) = l \/ Has(r, l)
    BY <2>3, HasTail
  <2>6. \A l : Has(p \o r, l) <=> Has(p, l) \/ Has(r, l)
    BY <2>4, HasConcat
  <2>7. /\ Shape(p \o r)
        /\ Once(p) /\ Once(r) /\ ~(Has(p, "release") /\ Has(r, "release")) => Once(p \o r)
    BY <2>1, <2>4, ShapeConcat
  <2>8. todo' = [todo EXCEPT ![t] = p \o r]
    BY <2>2, <2>3 DEF Go
  <2>9. /\ todo' \in [Thread -> Seq(Label)] /\ todo'[t] = p \o r
        /\ \A u \in Thread \ {t} : todo'[u] = todo[u]
    <3>1. p \o r \in Seq(Label)
      BY <2>4
    <3>2. QED
      BY <2>3, <2>8, <3>1
  <2>10. \A u \in Thread : Shape(todo'[u])
    BY <2>7, <2>9 DEF Loops
  <2>11. ~Creating /\ ~Creating'
    <3>1. ~Creating /\ App \in Thread
      BY <1>4, <2>3 DEF Handles, Thread
    <3>2. ~Has(todo'[App], "create")
      BY <2>1, <2>5, <2>6, <2>9, <3>1 DEF Creating
    <3>3. QED
      BY <3>1, <3>2 DEF Creating
  <2>12. Handles'
    BY <1>1, <2>3, <2>11 DEF Handles
  <2>13. ASSUME ~overlapped'
         PROVE  Exclusive' /\ Ends'
    <3>1. \A u \in Thread : ~Has(todo[u], "release")
      <4>1. ASSUME NEW u \in Thread, Has(todo[u], "release")
            PROVE  FALSE
        <5>1. DOMAIN todo[u] = 1 .. Len(todo[u])
          BY <2>3
        <5>2. Ahead(u, "release")
          BY <4>1, <5>1 DEF Has, Ahead
        <5>3. QED
          BY <1>4, <2>13, <5>2 DEF EnterClose
      <4>2. QED
        BY <4>1
    <3>2. Once(p \o r) /\ Has(p \o r, "release")
      BY <2>1, <2>3, <2>4, <2>5, <2>6, <2>7, <3>1 DEF Exclusive
    <3>3. \A u \in Thread : Once(todo'[u]) /\ (Has(todo'[u], "release") <=> u = t)
      BY <2>3, <2>9, <3>1, <3>2 DEF Exclusive
    <3>4. Exclusive'
      BY <1>1, <1>4, <2>11, <3>3 DEF Exclusive
    <3>5. Reported'
      BY <3>3 DEF Reported
    <3>6. QED
      BY <3>4, <3>5 DEF Ends
  <2>14. QED
    BY <1>1, <2>3, <2>9, <2>10, <2>12, <2>13 DEF Loops
<1>5. QED
  BY <1>3, <1>4

\* A handle is created: no Close is under way, and _closing is not set.
LEMMA CreateKept ==
    ASSUME Loops, ~overlapped, CreateHandle
    PROVE  Loops'
<1>1. /\ todo[App] # << >> /\ Head(todo[App]) = "create" /\ App \in Thread
      /\ UNCHANGED <<closing, fired, disposed, raised, closed>>
  BY AtTop DEF CreateHandle, Thread
<1>2. /\ todo \in [Thread -> Seq(Label)] /\ Shape(todo[App]) /\ todo[App] \in Seq(Label)
      /\ Exclusive /\ Handles /\ (fired => raised # {})
  BY <1>1 DEF Loops, Shape
<1>3. Creating
  <2>1. \A l : Has(todo[App], l) <=> Head(todo[App]) = l \/ Has(Tail(todo[App]), l)
    BY <1>1, <1>2, HasTail
  <2>2. QED
    BY <1>1, <2>1 DEF Creating
<1>4. /\ ~closing /\ ~IsOpen /\ handle < MaxOpens /\ handle \in 0 .. MaxOpens
      /\ opened \subseteq 1 .. handle
      /\ \A u \in Thread : ~Has(todo[u], "release") /\ Once(todo[u])
  BY <1>2, <1>3 DEF Exclusive, Handles
<1>5. Tail(todo[App]) = << >>
  BY <1>1, <1>2, ShapeTail
<1>6. (\A l : ~Has(<< >>, l)) /\ (\A l : Has(<<"top">>, l) <=> l = "top")
  BY HasShort
<1>7. /\ Shape(<< >>) /\ Once(<< >>) /\ Shape(<<"top">>) /\ Once(<<"top">>)
  <2>1. Shape(<< >>) /\ Shape(<<"top">>)
    BY PushedShape DEF Label
  <2>2. QED
    BY <1>6, <2>1 DEF Once, Has
<1>8. << >> \in Seq(Label) /\ <<"top">> \in Seq(Label)
  BY <1>7 DEF Shape
<1>9. CASE Go(App, << >>) /\ handle' \in {handle, handle + 1} /\ opened' = opened
  <2>1. todo' = [todo EXCEPT ![App] = << >>]
    <3>1. << >> \o << >> = << >>
      OBVIOUS
    <3>2. QED
      BY <1>2, <1>5, <1>9, <3>1 DEF Go
  <2>2. /\ todo' \in [Thread -> Seq(Label)] /\ todo'[App] = << >>
        /\ \A u \in Thread \ {App} : todo'[u] = todo[u]
    BY <1>1, <1>2, <1>8, <2>1
  <2>3. \A u \in Thread : Shape(todo'[u]) /\ Once(todo'[u]) /\ ~Has(todo'[u], "release")
    BY <1>4, <1>6, <1>7, <2>2 DEF Loops
  <2>4. ~Creating'
    BY <1>6, <2>2 DEF Creating
  <2>5. Handles'
    BY <1>4, <1>9, <2>4, LifeAssumption DEF Handles
  <2>6. ~(IsOpen' /\ handle' \in opened')
    <3>1. handle' = handle => ~IsOpen'
      BY <1>1, <1>4 DEF IsOpen
    <3>2. handle' = handle + 1 => handle' \notin opened'
      BY <1>4, <1>9
    <3>3. QED
      BY <1>9, <3>1, <3>2
  <2>7. Exclusive' /\ Ends'
    BY <1>1, <1>4, <2>3, <2>4, <2>6 DEF Exclusive, Ends
  <2>8. QED
    BY <1>1, <1>2, <2>2, <2>3, <2>5, <2>7 DEF Loops
<1>10. CASE /\ handle' = handle + 1 /\ opened' = opened \cup {handle'}
            /\ todo' = [todo EXCEPT ![App] = Tail(@),
                                    ![ReadLoop(handle')] = <<"top">>,
                                    ![StatLoop(handle')] = <<"top">>]
  <2>1. /\ ReadLoop(handle') \in Thread /\ StatLoop(handle') \in Thread
        /\ ReadLoop(handle') # App /\ StatLoop(handle') # App
        /\ ReadLoop(handle') # StatLoop(handle')
        /\ handle' \in 1 .. MaxOpens
    BY <1>4, <1>10, LifeAssumption DEF ReadLoop, StatLoop, App, Thread, Loop, Handle
  <2>2. /\ todo' \in [Thread -> Seq(Label)] /\ todo'[App] = << >>
        /\ todo'[ReadLoop(handle')] = <<"top">> /\ todo'[StatLoop(handle')] = <<"top">>
        /\ \A u \in Thread \ {App, ReadLoop(handle'), StatLoop(handle')} : todo'[u] = todo[u]
    BY <1>1, <1>2, <1>5, <1>8, <1>10, <2>1
  <2>3. \A u \in Thread : Shape(todo'[u]) /\ Once(todo'[u]) /\ ~Has(todo'[u], "release")
    BY <1>4, <1>6, <1>7, <2>2 DEF Loops
  <2>4. ~Creating'
    BY <1>6, <2>2 DEF Creating
  <2>5. Handles'
    <3>1. opened' \subseteq 1 .. handle'
      BY <1>4, <1>10, <2>1
    <3>2. QED
      BY <2>1, <2>4, <3>1 DEF Handles
  <2>6. Live(todo'[ReadLoop(handle')])
    BY <1>6, <2>2 DEF Live, LoopLabel
  <2>7. Exclusive' /\ Ends'
    BY <1>1, <1>4, <2>3, <2>4, <2>6 DEF Exclusive, Ends, ReadLoop
  <2>8. QED
    BY <1>1, <1>2, <2>2, <2>3, <2>5, <2>7 DEF Loops
<1>11. QED
  BY <1>9, <1>10 DEF CreateHandle

\* Open begins on a session that is not open, and so with no Close under way.
LEMMA OpenKept ==
    ASSUME Loops, ~overlapped, Open
    PROVE  Loops'
<1>1. /\ ~closing' /\ ~fired' /\ UNCHANGED <<handle, closed, opened, overlapped>>
      /\ ~IsOpen /\ handle < MaxOpens
      /\ todo' = [todo EXCEPT ![App] = <<"clear", "create">>]
  BY DEF Open, handleVars, restVars
<1>2. /\ todo \in [Thread -> Seq(Label)] /\ Exclusive /\ Handles /\ App \in Thread
  BY DEF Loops, Thread
<1>3. /\ Shape(<<"clear", "create">>)
      /\ \A l : Has(<<"clear", "create">>, l) <=> l \in {"clear", "create"}
  BY PushedShape, HasShort
<1>4. Once(<<"clear", "create">>) /\ <<"clear", "create">> \in Seq(Label)
  BY <1>3 DEF Once, Has, Shape
<1>5. /\ todo' \in [Thread -> Seq(Label)] /\ todo'[App] = <<"clear", "create">>
      /\ \A u \in Thread \ {App} : todo'[u] = todo[u]
  BY <1>1, <1>2, <1>4
<1>6. \A u \in Thread : Shape(todo'[u]) /\ Once(todo'[u]) /\ ~Has(todo'[u], "release")
  BY <1>1, <1>2, <1>3, <1>4, <1>5 DEF Loops, Exclusive
<1>7. ~IsOpen'
  BY <1>1 DEF IsOpen
<1>8. Handles'
  BY <1>1, <1>2, <1>7 DEF Handles
<1>9. Exclusive' /\ Ends'
  BY <1>1, <1>6, <1>7 DEF Exclusive, Ends
<1>10. QED
  BY <1>1, <1>5, <1>6, <1>8, <1>9 DEF Loops

-----------------------------------------------------------------------------
(***************************************************************************)
(* The invariant, and the theorem.                                         *)
(***************************************************************************)

LEMMA LoopsInit == Init => Loops
<1>1. SUFFICES ASSUME Init PROVE Loops
  OBVIOUS
<1>2. /\ todo \in [Thread -> Seq(Label)] /\ (\A t \in Thread : todo[t] = << >>)
      /\ handle = 0 /\ opened = {} /\ ~closing /\ ~fired /\ ~IsOpen
  BY <1>1 DEF Init, IsOpen
<1>3. Shape(<< >>) /\ (\A l : ~Has(<< >>, l)) /\ Once(<< >>)
  BY PushedShape, HasShort DEF Once
<1>4. App \in Thread
  BY DEF Thread
<1>5. ~Creating /\ \A t \in Thread : Shape(todo[t]) /\ Once(todo[t]) /\ ~Has(todo[t], "release")
  BY <1>2, <1>3, <1>4 DEF Creating
<1>6. Handles
  BY <1>2, <1>5, LifeAssumption DEF Handles
<1>7. Exclusive /\ Ends
  BY <1>2, <1>5 DEF Exclusive, Ends
<1>8. QED
  BY <1>2, <1>5, <1>6, <1>7 DEF Loops

LEMMA LoopsStep == Loops /\ [Next]_vars => Loops'
<1>1. SUFFICES ASSUME Loops, [Next]_vars PROVE Loops'
  OBVIOUS
<1>2. CASE UNCHANGED vars
  <2>1. CASE ~overlapped
    BY <1>1, <1>2, <2>1, MachineKept
  <2>2. CASE overlapped
    <3>1. UNCHANGED <<todo, handle, opened, closed, fired, raised, overlapped>>
      BY <1>2 DEF vars, handleVars, flagVars, taskVars, restVars
    <3>2. Handles'
      BY <1>1, <3>1 DEF Loops, Handles, Creating, IsOpen
    <3>3. QED
      BY <1>1, <2>2, <3>1, <3>2 DEF Loops
  <2>3. QED
    BY <2>1, <2>2
<1>3. CASE ~overlapped /\ Open
  BY <1>1, <1>3, OpenKept
<1>4. CASE ~overlapped /\ (CallClose \/ Send \/ CallResend \/ TimerFires \/ OnSuspend \/ Unplug)
  BY <1>1, <1>4, MachineKept
<1>5. ASSUME ~overlapped, NEW t \in Thread, Work(t)
      PROVE  Loops'
  <2>1. CASE t = App /\ (ClearArq \/ CreateHandle \/ Resend(App))
    BY <1>1, <1>5, <2>1, MachineKept, CreateKept
  <2>2. CASE t = Timeout /\ OnAckTimeout
    BY <1>1, <1>5, <2>2, MachineKept
  <2>3. CASE t \in Loop /\ Looping(t)
    BY <1>1, <1>5, <2>3, LoopKept
  <2>4. CASE Writing(t)
    BY <1>1, <1>5, <2>4, WritingKept
  <2>5. CASE Close(t)
    <3>1. /\ todo[t] # << >> /\ Head(todo[t]) \in {"close", "dispose"}
          /\ EnterClose(t, << >>)
      BY <2>5, AtTop DEF Close
    <3>2. QED
      BY <1>1, <1>5, <3>1, EnterKept
  <2>6. CASE Dispose(t)
    <3>1. /\ todo[t] # << >> /\ Head(todo[t]) \in {"close", "dispose"}
          /\ EnterClose(t, <<"disposed">>)
      BY <2>6, AtTop DEF Dispose
    <3>2. QED
      BY <1>1, <1>5, <3>1, EnterKept
  <2>7. CASE Cancel(t)
    BY <1>1, <1>5, <2>7, CancelKept
  <2>8. CASE Release(t)
    BY <1>1, <1>5, <2>8, ReleaseKept
  <2>9. CASE DisposedAlready(t) \/ ResetFlags(t) \/ Disposed(t) \/ Check(t) \/ Raise(t)
    BY <1>1, <1>5, <2>9, EndingKept
  <2>10. QED
    BY <1>5, <2>1, <2>2, <2>3, <2>4, <2>5, <2>6, <2>7, <2>8, <2>9 DEF Work, Ending
<1>6. QED
  BY <1>1, <1>2, <1>3, <1>4, <1>5 DEF Next, Working

LEMMA LoopsEnd == Loops => NoSilentEnd
<1>1. SUFFICES ASSUME Loops, IsOpen, handle \in opened, Idle(ReadLoop(handle)), ~disposed,
                      ~overlapped
               PROVE  \/ raised # {}
                      \/ \E t \in Thread : \E l \in {"check", "raise", "release"} : Ahead(t, l)
  BY DEF NoSilentEnd
<1>2. ~Live(todo[ReadLoop(handle)])
  BY <1>1, HasShort DEF Live, Idle
<1>3. Reported
  BY <1>1, <1>2 DEF Loops, Ends
<1>4. \A t \in Thread : DOMAIN todo[t] = 1 .. Len(todo[t])
  BY <1>1 DEF Loops
<1>5. QED
  BY <1>3, <1>4 DEF Reported, Has, Ahead

\* The read loop of an open session does not end without ConnectionError: it was
\* raised since Open (OnConnectionError), or a thread is about to raise it or to release
\* the handle (Close) - whatever the number of Opens, timeouts, suspends and frames.
THEOREM EndIsReported == Spec => []NoSilentEnd
<1>1. Spec => []Loops
  BY LoopsInit, LoopsStep, PTL DEF Spec
<1>2. QED
  BY <1>1, LoopsEnd, PTL
=============================================================================
