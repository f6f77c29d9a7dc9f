------------------------------ MODULE Demo_proofs ------------------------------
(***************************************************************************)
(* Proofs about Demo, for any number of pins, of commands and of times that *)
(* the console is freed early.                                              *)
(*                                                                         *)
(* Two facts carry them.  What the user last set a pin to is what the last   *)
(* of the requests not yet served says of it, or else its level (Promised);  *)
(* and a console that was freed by answers only has at most one answer on    *)
(* its way, which is about the pin it asked about last (OneAnswer).          *)
(***************************************************************************)
EXTENDS Demo, TLAPS

Reply == {Nothing, [kind |-> "rng"]} \cup [kind : {"get"}, values : SUBSET Pin]

Types == DemoTypeOK /\ resp_buffer \in Reply /\ responses \in Seq(Reply)

\* Requests that the firmware has not handled, and those that set pin p.
Unserved == served + 1 .. Len(requests)
Sets(r, p) == r.kind = "set" /\ p \in r.mask

Promised ==
    \A p \in Pin :
        /\ (\A i \in Unserved : ~Sets(requests[i], p)) => (p \in level <=> p \in wanted)
        /\ \A i \in Unserved :
              Sets(requests[i], p) /\ (\A j \in i + 1 .. Len(requests) : ~Sets(requests[j], p)) =>
                  (p \in wanted <=> requests[i].on)

\* No answer is in the buffer or on its way; and r is the answer to the last request.
Settled == ~resp_pending /\ received = Len(responses)
AnswerTo(r) == r.kind = "get" => r.values = Mask(gpioNum) \cap wanted

\* Of a request that the console waits for: it is not handled yet, or its answer is in
\* the buffer, or was put and not received.
Stages ==
    \/ served < Len(requests) /\ Settled
    \/ /\ served = Len(requests)
       /\ resp_pending /\ received = Len(responses)
       /\ AnswerTo(resp_buffer)
    \/ /\ served = Len(requests)
       /\ ~resp_pending /\ received + 1 = Len(responses)
       /\ AnswerTo(responses[received + 1])

OneAnswer ==
    IF waiting
    THEN /\ Len(requests) > 0
         /\ requests[Len(requests)].kind # "set"
         /\ requests[Len(requests)].kind = "get" => requests[Len(requests)] = Get(gpioNum)
         /\ \A i \in Unserved : i # Len(requests) => requests[i].kind = "set"
         /\ Stages
    ELSE /\ \A i \in Unserved : requests[i].kind = "set"
         /\ Settled

Inv == Types /\ Promised /\ (releases = 0 => OneAnswer)
-----------------------------------------------------------------------------
(***************************************************************************)
(* Types.                                                                  *)
(***************************************************************************)

\* A typed number is a pin, modulo their count.
LEMMA MaskFacts ==
    ASSUME NEW b \in Number
    PROVE  Mask(b) \subseteq Pin /\ Mask(b) # {}
<1>1. b \in Nat /\ Bits \in Nat /\ Bits > 0
  BY DemoAssumption
<1>2. b % Bits \in 0 .. Bits - 1
  BY <1>1
<1>3. QED
  BY <1>2 DEF Mask, Pin

\* Requests, by their kind.
LEMMA RequestFacts ==
    /\ Random \in Request
    /\ \A b \in Number : Get(b) \in Request
    /\ \A b \in Number : \A on \in BOOLEAN : Set(b, on) \in Request
    /\ \A r \in Request :
          /\ r.kind # "rng" => r.mask \subseteq Pin
          /\ r.kind = "set" => r.on \in BOOLEAN
          /\ r.kind \in {"rng", "get", "set"}
<1>1. \A b \in Number : Get(b) \in Request
  BY MaskFacts DEF Get, Request
<1>2. \A b \in Number : \A on \in BOOLEAN : Set(b, on) \in Request
  BY MaskFacts DEF Set, Request
<1>3. QED
  BY <1>1, <1>2 DEF Random, Request

\* The response to a request, and the levels after it.
LEMMA ResponseFacts ==
    ASSUME NEW r \in Request, level \subseteq Pin
    PROVE  Response(r) \in Reply /\ Levels(r) \subseteq Pin
BY RequestFacts DEF Response, Reply, Levels

\* What PutPending does to the buffer and to the responses.
LEMMA PutTypes ==
    ASSUME Types, NEW b \in Reply, NEW p \in BOOLEAN, NEW a \in BOOLEAN, PutPending(b, p, a)
    PROVE  /\ resp_buffer' \in Reply /\ resp_pending' \in BOOLEAN
           /\ awaiting_ack' \in BOOLEAN /\ responses' \in Seq(Reply)
           /\ Len(responses') >= Len(responses)
<1>1. responses \in Seq(Reply) /\ Append(responses, b) \in Seq(Reply)
      /\ Len(Append(responses, b)) = Len(responses) + 1 /\ Len(responses) \in Nat
  BY DEF Types
<1>2. responses' = responses \/ responses' = Append(responses, b)
  BY DEF PutPending
<1>3. resp_buffer' = b /\ resp_pending' \in {FALSE, p} /\ awaiting_ack' \in {TRUE, a}
  BY DEF PutPending
<1>4. resp_pending' \in BOOLEAN /\ awaiting_ack' \in BOOLEAN
  BY <1>3
<1>5. QED
  BY <1>1, <1>2, <1>3, <1>4

LEMMA TypesInit ==
    ASSUME Init
    PROVE  Types
<1>1. /\ << >> \in Seq(Request) /\ << >> \in Seq(Reply) /\ Len(<< >>) = 0
  OBVIOUS
<1>2. 0 \in 0 .. MaxReleases /\ 0 \in 0 .. 0 /\ Nothing \in Reply
  BY DemoAssumption DEF Reply
<1>3. QED
  BY <1>1, <1>2 DEF Init, Types, DemoTypeOK

\* The console asks.
LEMMA AskTypes ==
    ASSUME Types,
           \/ HandleRandom
           \/ \E b \in Number : HandleGpioGet(b)
           \/ \E b \in Number, on \in BOOLEAN : HandleGpioSet(b, on)
    PROVE  Types'
<1>1. ASSUME NEW r \in Request, Ask(r)
      PROVE  requests' \in Seq(Request) /\ Len(requests') = Len(requests) + 1
  BY <1>1 DEF Types, DemoTypeOK, Ask
<1>2. CASE HandleRandom
  BY <1>1, <1>2, RequestFacts DEF HandleRandom, Types, DemoTypeOK, board
<1>3. ASSUME NEW b \in Number, HandleGpioGet(b)
      PROVE  Types'
  BY <1>1, <1>3, RequestFacts DEF HandleGpioGet, Types, DemoTypeOK, board
<1>4. ASSUME NEW b \in Number, NEW on \in BOOLEAN, HandleGpioSet(b, on)
      PROVE  Types'
  <2>1. wanted' \subseteq Pin
    BY <1>4, MaskFacts DEF HandleGpioSet, Types, DemoTypeOK
  <2>2. QED
    BY <1>1, <1>4, <2>1, RequestFacts DEF HandleGpioSet, Types, DemoTypeOK, board
<1>5. QED
  BY <1>2, <1>3, <1>4

\* The console is freed; the links; and the firmware.
LEMMA OtherTypes ==
    ASSUME Types,
           \/ Session_FrameError \/ Watchdog \/ Arrive \/ Session_FrameReceived
           \/ SessionAck \/ HandleCommand \/ BoardAck
    PROVE  Types'
<1>1. CASE Session_FrameError \/ Watchdog
  <2>1. releases' \in 0 .. MaxReleases /\ waiting' = FALSE
    BY <1>1, DemoAssumption DEF Session_FrameError, Watchdog, Types, DemoTypeOK
  <2>2. UNCHANGED <<gpioNum, wanted, board, links>>
    BY <1>1 DEF Session_FrameError, Watchdog
  <2>3. QED
    BY <2>1, <2>2 DEF Types, DemoTypeOK, board, links
<1>2. CASE Arrive \/ Session_FrameReceived \/ SessionAck
  <2>1. /\ UNCHANGED <<gpioNum, wanted, releases, board, requests>>
        /\ waiting' \in {FALSE, waiting}
    BY <1>2 DEF Arrive, Session_FrameReceived, SessionAck, console
  <2>2. /\ served \in Nat /\ arrived \in Nat /\ received \in Nat /\ confirmed \in Nat
        /\ Len(responses) \in Nat /\ served <= Len(requests) /\ Len(requests) \in Nat
    BY DEF Types, DemoTypeOK
  <2>3. /\ confirmed' \in 0 .. served
        /\ received' \in 0 .. arrived' /\ arrived' \in 0 .. Len(responses)
    BY <1>2, <2>2, SMTT(30) DEF Arrive, Session_FrameReceived, SessionAck, Types, DemoTypeOK
  <2>4. waiting' \in BOOLEAN
    BY <2>1 DEF Types, DemoTypeOK
  <2>5. QED
    BY <2>1, <2>3, <2>4 DEF Types, DemoTypeOK, board
<1>3. CASE HandleCommand
  <2>1. requests[served + 1] \in Request
    BY <1>3 DEF HandleCommand, Types, DemoTypeOK
  <2>2. level' \subseteq Pin
    BY <1>3, <2>1, ResponseFacts DEF HandleCommand, Types, DemoTypeOK
  <2>3. /\ resp_buffer' \in Reply /\ resp_pending' \in BOOLEAN
        /\ awaiting_ack' \in BOOLEAN /\ responses' \in Seq(Reply)
        /\ Len(responses') >= Len(responses)
    BY <1>3, <2>1, ResponseFacts, PutTypes DEF HandleCommand, Types, DemoTypeOK
  <2>4. QED
    BY <1>3, <2>2, <2>3 DEF HandleCommand, Types, DemoTypeOK, console, links
<1>4. CASE BoardAck
  <2>1. /\ resp_buffer' \in Reply /\ resp_pending' \in BOOLEAN
        /\ awaiting_ack' \in BOOLEAN /\ responses' \in Seq(Reply)
        /\ Len(responses') >= Len(responses)
    BY <1>4, PutTypes DEF BoardAck, Types, DemoTypeOK
  <2>2. QED
    BY <1>4, <2>1 DEF BoardAck, Types, DemoTypeOK, console, links
<1>5. QED
  BY <1>1, <1>2, <1>3, <1>4

LEMMA TypesStep ==
    ASSUME Types, [Next]_vars
    PROVE  Types'
<1>1. CASE UNCHANGED vars
  BY <1>1 DEF vars, console, board, links, Types, DemoTypeOK
<1>2. QED
  BY <1>1, AskTypes, OtherTypes DEF Next

\* Type correctness: no command makes the firmware touch a pin there is not, or a link
\* run ahead of what was given to it.
THEOREM DemoTypes == Spec => []DemoTypeOK
<1>1. Init => Types
  BY TypesInit
<1>2. Types /\ [Next]_vars => Types'
  BY TypesStep
<1>3. Types => DemoTypeOK
  BY DEF Types
<1>4. QED
  BY <1>1, <1>2, <1>3, PTL DEF Spec
-----------------------------------------------------------------------------
(***************************************************************************)
(* What the user set the pins to.                                          *)
(***************************************************************************)

\* A request is added to those not served.
LEMMA AskFacts ==
    ASSUME Types, NEW r \in Request, Ask(r), served' = served
    PROVE  /\ Len(requests) \in Nat /\ served \in 0 .. Len(requests)
           /\ Len(requests') = Len(requests) + 1
           /\ requests'[Len(requests')] = r
           /\ \A i \in 1 .. Len(requests) : requests'[i] = requests[i]
           /\ Unserved' = Unserved \cup {Len(requests')}
           /\ Unserved \subseteq 1 .. Len(requests)
<1>1. /\ requests \in Seq(Request) /\ served \in Nat /\ served <= Len(requests)
      /\ Len(requests) \in Nat
  BY DEF Types, DemoTypeOK
<1>2. /\ Len(requests') = Len(requests) + 1
      /\ requests'[Len(requests')] = r
      /\ \A i \in 1 .. Len(requests) : requests'[i] = requests[i]
  BY <1>1 DEF Ask
<1>3. Unserved' = served + 1 .. Len(requests) + 1
  BY <1>2 DEF Unserved
<1>4. QED
  BY <1>1, <1>2, <1>3 DEF Unserved

\* A request that sets nothing is asked.
LEMMA PromisedGet ==
    ASSUME Types, Promised, NEW r \in Request, Ask(r), r.kind # "set",
           UNCHANGED <<served, level, wanted>>
    PROVE  Promised'
<1>1. SUFFICES ASSUME NEW p \in Pin
      PROVE  /\ (\A i \in Unserved' : ~Sets(requests'[i], p)) => (p \in level <=> p \in wanted)
             /\ \A i \in Unserved' :
                   Sets(requests'[i], p) /\ (\A j \in i + 1 .. Len(requests') : ~Sets(requests'[j], p)) =>
                       (p \in wanted <=> requests'[i].on)
  BY DEF Promised
<1>2. \A i \in 1 .. Len(requests) : Sets(requests'[i], p) <=> Sets(requests[i], p)
  BY AskFacts DEF Sets
<1>3. ~Sets(requests'[Len(requests')], p)
  BY AskFacts DEF Sets
<1>4. (\A i \in Unserved' : ~Sets(requests'[i], p)) => (p \in level <=> p \in wanted)
  BY <1>2, AskFacts DEF Promised
<1>5. ASSUME NEW i \in Unserved', Sets(requests'[i], p), \A j \in i + 1 .. Len(requests') : ~Sets(requests'[j], p)
      PROVE  p \in wanted <=> requests'[i].on
  <2>1. i \in Unserved /\ i \in 1 .. Len(requests) /\ requests'[i] = requests[i]
    BY <1>3, <1>5, AskFacts
  <2>2. \A j \in i + 1 .. Len(requests) : ~Sets(requests[j], p)
    BY <1>2, <1>5, <2>1, AskFacts
  <2>3. QED
    BY <1>2, <1>5, <2>1, <2>2 DEF Promised
<1>6. QED
  BY <1>4, <1>5

\* A request that sets pins is asked: it is the last one about them.
LEMMA PromisedSet ==
    ASSUME Types, Promised, NEW b \in Number, NEW on \in BOOLEAN, HandleGpioSet(b, on)
    PROVE  Promised'
<1> DEFINE r == Set(b, on)
<1>1. /\ r \in Request /\ Ask(r) /\ UNCHANGED <<served, level>>
      /\ r.kind = "set" /\ r.mask = Mask(b) /\ r.on = on
  BY RequestFacts DEF HandleGpioSet, board, Set
<1>2. \A p \in Pin : p \in wanted' <=> (IF p \in Mask(b) THEN on ELSE p \in wanted)
  BY DEF HandleGpioSet
<1>3. SUFFICES ASSUME NEW p \in Pin
      PROVE  /\ (\A i \in Unserved' : ~Sets(requests'[i], p)) => (p \in level <=> p \in wanted')
             /\ \A i \in Unserved' :
                   Sets(requests'[i], p) /\ (\A j \in i + 1 .. Len(requests') : ~Sets(requests'[j], p)) =>
                       (p \in wanted' <=> requests'[i].on)
  BY <1>1 DEF Promised
<1>4. \A i \in 1 .. Len(requests) : Sets(requests'[i], p) <=> Sets(requests[i], p)
  BY <1>1, AskFacts DEF Sets
<1>5. Sets(requests'[Len(requests')], p) <=> p \in Mask(b)
  BY <1>1, AskFacts DEF Sets
<1>6. (\A i \in Unserved' : ~Sets(requests'[i], p)) => (p \in level <=> p \in wanted')
  BY <1>1, <1>2, <1>4, <1>5, AskFacts DEF Promised
<1>7. ASSUME NEW i \in Unserved', Sets(requests'[i], p), \A j \in i + 1 .. Len(requests') : ~Sets(requests'[j], p)
      PROVE  p \in wanted' <=> requests'[i].on
  <2>1. CASE i = Len(requests')
    BY <1>1, <1>2, <1>5, <1>7, <2>1, AskFacts
  <2>2. CASE i # Len(requests')
    <3>1. i \in Unserved /\ i \in 1 .. Len(requests) /\ requests'[i] = requests[i]
      BY <1>1, <1>7, <2>2, AskFacts
    <3>2. /\ \A j \in i + 1 .. Len(requests) : ~Sets(requests[j], p)
          /\ p \notin Mask(b)
      BY <1>1, <1>4, <1>5, <1>7, <3>1, AskFacts
    <3>3. QED
      BY <1>2, <1>4, <1>7, <3>1, <3>2 DEF Promised
  <2>3. QED
    BY <2>1, <2>2
<1>8. QED
  BY <1>6, <1>7

\* The oldest request is served.
LEMMA PromisedServed ==
    ASSUME Types, Promised, HandleCommand
    PROVE  Promised'
<1> DEFINE n == served + 1
<1> DEFINE r == requests[n]
<1>1. /\ Len(requests) \in Nat /\ served \in Nat /\ n \in 1 .. Len(requests)
      /\ r \in Request /\ level \subseteq Pin
  BY DEF HandleCommand, Types, DemoTypeOK
<1>2. /\ served' = n /\ level' = Levels(r)
      /\ requests' = requests /\ wanted' = wanted
  BY DEF HandleCommand, console, links
<1>3. Unserved' = n + 1 .. Len(requests) /\ Unserved = Unserved' \cup {n}
  BY <1>1, <1>2 DEF Unserved
<1>4. SUFFICES ASSUME NEW p \in Pin
      PROVE  /\ (\A i \in Unserved' : ~Sets(requests[i], p)) => (p \in level' <=> p \in wanted)
             /\ \A i \in Unserved' :
                   Sets(requests[i], p) /\ (\A j \in i + 1 .. Len(requests) : ~Sets(requests[j], p)) =>
                       (p \in wanted <=> requests[i].on)
  BY <1>2 DEF Promised, Sets
<1>5. p \in level' <=> (IF Sets(requests[n], p) THEN r.on ELSE p \in level)
  BY <1>1, <1>2, RequestFacts DEF Levels, Sets
<1>6. ASSUME \A i \in Unserved' : ~Sets(requests[i], p)
      PROVE  p \in level' <=> p \in wanted
  <2>1. CASE Sets(requests[n], p)
    BY <1>3, <1>5, <1>6, <2>1 DEF Promised
  <2>2. CASE ~Sets(requests[n], p)
    BY <1>3, <1>5, <1>6, <2>2 DEF Promised
  <2>3. QED
    BY <2>1, <2>2
<1>7. \A i \in Unserved' :
         Sets(requests[i], p) /\ (\A j \in i + 1 .. Len(requests) : ~Sets(requests[j], p)) =>
             (p \in wanted <=> requests[i].on)
  BY <1>3 DEF Promised
<1>8. QED
  BY <1>6, <1>7

LEMMA PromisedStep ==
    ASSUME Types, Promised, [Next]_vars
    PROVE  Promised'
<1>1. CASE HandleRandom \/ \E b \in Number : HandleGpioGet(b)
  <2>1. PICK r \in Request : Ask(r) /\ r.kind # "set"
    BY <1>1, RequestFacts DEF HandleRandom, HandleGpioGet, Random, Get
  <2>2. UNCHANGED <<served, level, wanted>>
    BY <1>1 DEF HandleRandom, HandleGpioGet, board
  <2>3. QED
    BY <2>1, <2>2, PromisedGet
<1>2. CASE \/ Session_FrameError \/ Watchdog \/ Arrive \/ Session_FrameReceived
           \/ SessionAck \/ BoardAck \/ UNCHANGED vars
  <2>1. UNCHANGED <<served, level, wanted, requests>>
    BY <1>2 DEF Session_FrameError, Watchdog, Arrive, Session_FrameReceived, SessionAck,
                BoardAck, vars, console, board, links
  <2>2. QED
    BY <2>1 DEF Promised, Unserved, Sets
<1>3. QED
  BY <1>1, <1>2, PromisedSet, PromisedServed DEF Next
-----------------------------------------------------------------------------
(***************************************************************************)
(* The answer that a patient console waits for.                            *)
(***************************************************************************)

\* A step that leaves the requests, the answers and the console alone.
answerVars ==
    <<waiting, gpioNum, wanted, requests, served, resp_buffer, resp_pending, responses, received>>

LEMMA AnswerUntouched ==
    ASSUME OneAnswer, UNCHANGED answerVars
    PROVE  OneAnswer'
BY DEF answerVars, OneAnswer, Stages, Settled, AnswerTo, Unserved

\* A command is typed: no answer is on its way.
LEMMA AnswerAsked ==
    ASSUME Types, OneAnswer, NEW r \in Request, Ask(r),
           UNCHANGED <<served, resp_pending, responses, received>>,
           \/ waiting' = TRUE /\ r.kind # "set" /\ (r.kind = "get" => r = Get(gpioNum'))
           \/ waiting' = waiting /\ r.kind = "set"
    PROVE  OneAnswer'
<1>1. /\ ~waiting /\ Settled /\ Settled'
      /\ \A i \in Unserved : requests[i].kind = "set"
  BY DEF Ask, OneAnswer, Settled
<1>2. /\ Len(requests) \in Nat /\ served \in 0 .. Len(requests)
      /\ Len(requests') = Len(requests) + 1
      /\ requests'[Len(requests')] = r
      /\ \A i \in 1 .. Len(requests) : requests'[i] = requests[i]
      /\ Unserved' = Unserved \cup {Len(requests')}
      /\ Unserved \subseteq 1 .. Len(requests)
  BY AskFacts
<1>3. \A i \in Unserved' : i # Len(requests') => requests'[i].kind = "set"
  BY <1>1, <1>2
<1>4. CASE waiting' = TRUE /\ r.kind # "set" /\ (r.kind = "get" => r = Get(gpioNum'))
  <2>1. Stages'
    BY <1>1, <1>2 DEF Stages
  <2>2. Get(gpioNum)' = Get(gpioNum')
    BY DEF Get, Mask
  <2>3. QED
    BY <1>2, <1>3, <1>4, <2>1, <2>2 DEF OneAnswer
<1>5. CASE waiting' = waiting /\ r.kind = "set"
  <2>1. \A i \in Unserved' : requests'[i].kind = "set"
    BY <1>2, <1>3, <1>5
  <2>2. QED
    BY <1>1, <1>5, <2>1 DEF OneAnswer
<1>6. QED
  BY <1>4, <1>5

\* FrameReceived: the answer is the one the console waits for, and the only one.
LEMMA AnswerReceived ==
    ASSUME Types, OneAnswer, Session_FrameReceived
    PROVE  /\ waiting /\ AnswerTo(responses[received + 1])
           /\ OneAnswer'
<1>1. /\ received \in Nat /\ arrived \in Nat /\ Len(responses) \in Nat
      /\ received < Len(responses) /\ served \in Nat
  BY DEF Session_FrameReceived, Types, DemoTypeOK
<1>2. /\ waiting /\ served = Len(requests) /\ ~resp_pending
      /\ received + 1 = Len(responses) /\ AnswerTo(responses[received + 1])
  BY <1>1 DEF OneAnswer, Stages, Settled
<1>3. /\ received' = received + 1 /\ waiting' = FALSE
      /\ UNCHANGED <<served, requests, resp_pending, responses>>
  BY DEF Session_FrameReceived, board
<1>4. Unserved' = {} /\ Settled'
  BY <1>1, <1>2, <1>3 DEF Unserved, Settled
<1>5. QED
  BY <1>2, <1>3, <1>4 DEF OneAnswer

\* Part 2) of loop(), when nothing is pending, and when something is.
LEMMA PutFacts ==
    ASSUME Types, NEW b \in Reply, NEW p \in BOOLEAN, NEW a \in BOOLEAN, PutPending(b, p, a)
    PROVE  /\ ~p => ~resp_pending' /\ responses' = responses
           /\ p => \/ resp_pending' /\ responses' = responses /\ resp_buffer' = b
                   \/ /\ ~resp_pending' /\ Len(responses') = Len(responses) + 1
                      /\ responses'[Len(responses) + 1] = b
<1>1. responses \in Seq(Reply)
  BY DEF Types
<1>2. CASE p /\ ~a /\ responses' = Append(responses, b) /\ resp_pending' = FALSE
  BY <1>1, <1>2
<1>3. CASE (~p \/ a) /\ resp_pending' = p /\ responses' = responses /\ resp_buffer' = b
  BY <1>3
<1>4. QED
  BY <1>2, <1>3 DEF PutPending

\* handle_command: what it answers is what the user last set.
LEMMA AnswerServed ==
    ASSUME Types, Promised, OneAnswer, HandleCommand
    PROVE  OneAnswer'
<1> DEFINE n == served + 1
<1> DEFINE r == requests[n]
<1>1. /\ Len(requests) \in Nat /\ served \in Nat /\ n \in 1 .. Len(requests)
      /\ r \in Request /\ level \subseteq Pin /\ wanted \subseteq Pin
      /\ resp_buffer \in Reply /\ resp_pending \in BOOLEAN /\ awaiting_ack \in BOOLEAN
      /\ Response(r) \in Reply /\ received \in Nat /\ Len(responses) \in Nat
  BY ResponseFacts DEF HandleCommand, Types, DemoTypeOK
<1>2. /\ served' = n
      /\ UNCHANGED <<waiting, gpioNum, wanted, requests, received>>
  BY DEF HandleCommand, console, links
<1>3. Unserved' \subseteq Unserved /\ n \in Unserved
  BY <1>1, <1>2 DEF Unserved
<1>4. Settled
  BY <1>1 DEF OneAnswer, Stages
<1>5. CASE r.kind = "set"
  <2>1. PutPending(resp_buffer, resp_pending, awaiting_ack)
    BY <1>5 DEF HandleCommand
  <2>2. Settled'
    BY <1>1, <1>2, <1>4, <2>1, PutFacts DEF Settled
  <2>3. waiting => n # Len(requests)
    BY <1>5 DEF OneAnswer
  <2>4. QED
    BY <1>1, <1>2, <1>3, <2>2, <2>3 DEF OneAnswer, Stages, Get, Mask
<1>6. CASE r.kind # "set"
  <2>1. waiting /\ n = Len(requests)
    BY <1>3, <1>6 DEF OneAnswer
  <2>2. level = wanted
    <3>1. \A i \in Unserved : i = n
      BY <1>1, <2>1 DEF Unserved
    <3>2. \A p \in Pin : p \in level <=> p \in wanted
      BY <1>6, <3>1 DEF Promised, Sets
    <3>3. QED
      BY <1>1, <3>2
  <2>3. Response(r).kind = "get" => Response(r).values = Mask(gpioNum) \cap wanted
    BY <1>1, <2>1, <2>2 DEF Response, OneAnswer, Get
  <2>4. PutPending(Response(r), TRUE, awaiting_ack)
    BY <1>6 DEF HandleCommand
  <2>5. \/ resp_pending' /\ responses' = responses /\ resp_buffer' = Response(r)
        \/ /\ ~resp_pending' /\ Len(responses') = Len(responses) + 1
           /\ responses'[Len(responses) + 1] = Response(r)
    BY <1>1, <2>4, PutFacts
  <2>6. Stages'
    BY <1>1, <1>2, <1>4, <2>1, <2>3, <2>5 DEF Stages, Settled, AnswerTo, Mask
  <2>7. QED
    BY <1>2, <1>3, <2>1, <2>6 DEF OneAnswer, Get, Mask
<1>7. QED
  BY <1>5, <1>6

\* The ACK of an earlier answer lets the one in the buffer go.
LEMMA AnswerReleased ==
    ASSUME Types, OneAnswer, BoardAck
    PROVE  OneAnswer'
<1>1. /\ resp_buffer \in Reply /\ resp_pending \in BOOLEAN /\ FALSE \in BOOLEAN
      /\ PutPending(resp_buffer, resp_pending, FALSE)
      /\ UNCHANGED <<waiting, gpioNum, wanted, requests, served, received>>
  BY DEF BoardAck, Types, DemoTypeOK, console, links
<1>2. CASE ~resp_pending
  <2>1. ~resp_pending' /\ responses' = responses
    BY <1>1, <1>2, PutFacts
  <2>2. QED
    BY <1>1, <1>2, <2>1 DEF OneAnswer, Stages, Settled, AnswerTo, Unserved, Get, Mask
<1>3. CASE resp_pending
  <2>1. /\ waiting /\ served = Len(requests)
        /\ received = Len(responses) /\ AnswerTo(resp_buffer)
    BY <1>3 DEF OneAnswer, Stages, Settled
  <2>2. /\ ~resp_pending' /\ Len(responses') = Len(responses) + 1
        /\ responses'[Len(responses) + 1] = resp_buffer
    BY <1>1, <1>3, PutFacts DEF PutPending
  <2>3. Stages'
    BY <1>1, <2>1, <2>2 DEF Stages, AnswerTo, Mask
  <2>4. QED
    BY <1>1, <2>1, <2>3 DEF OneAnswer, Unserved, Get, Mask
<1>4. QED
  BY <1>2, <1>3
-----------------------------------------------------------------------------
(***************************************************************************)
(* The invariant, and what a patient console is shown.                     *)
(***************************************************************************)

LEMMA InvInit ==
    ASSUME Init
    PROVE  Inv
<1>1. Types
  BY TypesInit
<1>2. Unserved = {} /\ Len(responses) = 0
  BY DEF Init, Unserved
<1>3. Promised
  BY <1>2 DEF Init, Promised
<1>4. OneAnswer
  BY <1>2 DEF Init, OneAnswer, Settled
<1>5. QED
  BY <1>1, <1>3, <1>4 DEF Inv

LEMMA InvStep ==
    ASSUME Inv, [Next]_vars
    PROVE  Inv'
<1>1. Types' /\ Promised'
  BY TypesStep, PromisedStep DEF Inv
<1>2. ASSUME releases' = 0
      PROVE  OneAnswer'
  <2>1. /\ Types /\ Promised /\ releases \in Nat
    BY DEF Inv, Types, DemoTypeOK
  <2>2. releases' = releases \/ releases' = releases + 1
    BY DEF Next, HandleRandom, HandleGpioGet, HandleGpioSet, Session_FrameError, Watchdog,
           Arrive, Session_FrameReceived, SessionAck, HandleCommand, BoardAck, vars, console
  <2>3. releases = 0 /\ OneAnswer
    BY <1>2, <2>1, <2>2 DEF Inv
  <2>4. ~Session_FrameError /\ ~Watchdog
    BY <1>2, <2>1 DEF Session_FrameError, Watchdog
  <2>5. CASE HandleRandom
    BY <2>1, <2>3, <2>5, AnswerAsked, RequestFacts DEF HandleRandom, board, Random
  <2>6. ASSUME NEW b \in Number, HandleGpioGet(b)
        PROVE  OneAnswer'
    BY <2>1, <2>3, <2>6, AnswerAsked, RequestFacts DEF HandleGpioGet, board, Get
  <2>7. ASSUME NEW b \in Number, NEW on \in BOOLEAN, HandleGpioSet(b, on)
        PROVE  OneAnswer'
    BY <2>1, <2>3, <2>7, AnswerAsked, RequestFacts DEF HandleGpioSet, board, Set
  <2>8. CASE Arrive \/ SessionAck \/ UNCHANGED vars
    BY <2>3, <2>8, AnswerUntouched
       DEF Arrive, SessionAck, vars, console, board, links, answerVars
  <2>9. CASE Session_FrameReceived \/ HandleCommand \/ BoardAck
    BY <2>1, <2>3, <2>9, AnswerReceived, AnswerServed, AnswerReleased
  <2>10. QED
    BY <2>4, <2>5, <2>6, <2>7, <2>8, <2>9 DEF Next
<1>3. QED
  BY <1>1, <1>2 DEF Inv

\* A console that was freed by answers only never has the firmware overwrite one: for
\* any number of pins and commands, although a set waits for nothing.
THEOREM Patience == Spec => PatientIsNotOverwritten
<1>1. Inv /\ [Next]_vars => (releases = 0 => ~Overwrites)
  <2>1. SUFFICES ASSUME Inv, releases = 0, Overwrites
                 PROVE  FALSE
    OBVIOUS
  <2>2. /\ served \in Nat /\ served + 1 \in Unserved /\ served < Len(requests)
        /\ resp_pending /\ requests[served + 1].kind # "set"
    BY <2>1 DEF Inv, Overwrites, HandleCommand, Unserved, Types, DemoTypeOK
  <2>3. QED
    BY <2>1, <2>2 DEF Inv, OneAnswer, Stages, Settled
<1>2. Spec => [][releases = 0 => ~Overwrites]_vars
  BY InvInit, InvStep, <1>1, PTL DEF Spec
<1>3. QED
  BY <1>2 DEF PatientIsNotOverwritten

\* What such a console prints of a pin is what the user last set it to: request, answer
\* and the number asked about last are of one mind, whatever is queued between them.
THEOREM OwnWrites == Spec => ReadsOwnWrites
<1> DEFINE Shown ==
      Session_FrameReceived /\ shown'.kind = "get" /\ releases = 0 =>
          shown'.on = (shown'.pin % Bits \in wanted)
<1>1. Inv /\ [Next]_vars => Shown
  <2>1. SUFFICES ASSUME Inv, Session_FrameReceived, shown'.kind = "get", releases = 0
                 PROVE  shown'.on = (shown'.pin % Bits \in wanted)
    OBVIOUS
  <2> DEFINE r == responses[received + 1]
  <2>2. AnswerTo(r)
    BY <2>1, AnswerReceived DEF Inv
  <2>3. r.kind = "get"
    BY <2>1 DEF Session_FrameReceived
  <2>4. r.values = {gpioNum % Bits} \cap wanted
    BY <2>2, <2>3 DEF AnswerTo, Mask
  <2>5. /\ shown'.pin = gpioNum
        /\ shown'.on = ({gpioNum % Bits} \cap r.values # {})
    BY <2>1, <2>3 DEF Session_FrameReceived, Mask
  <2>6. QED
    BY <2>4, <2>5
<1>2. Spec => [][Shown]_vars
  BY InvInit, InvStep, <1>1, PTL DEF Spec
<1>3. QED
  BY <1>2 DEF ReadsOwnWrites

=============================================================================
