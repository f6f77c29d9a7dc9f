--------------------------------- MODULE Demo ---------------------------------
(***************************************************************************)
(* The demo: the console of Program.cs asks, the firmware of main.cpp       *)
(* answers.  The links between them are the ones that EspSession and        *)
(* FrameArq implement: QueuedLink from the PC to the board, ReliableLink    *)
(* back (that they deliver in order, once, is established there).           *)
(*                                                                         *)
(* The console has one request at a time on its mind: it reads the next     *)
(* command when a frame arrives, when FrameError is raised, or when its     *)
(* watchdog runs out.  The firmware has one buffer for the response it has  *)
(* not put yet.  QUIT, LOG and malformed input are not in this module; a     *)
(* GPIO mode is a request without an answer, like a GPIO set of no pin.      *)
(* Definitions whose name ends in _ are faulty forms, as in FrameArq.       *)
(***************************************************************************)
EXTENDS Integers, Sequences

CONSTANTS
    Bits,           \* width of a pin mask: 64 in the code
    Number,         \* pin numbers that may be typed: 0 .. 255 in the code
    MaxCommands,    \* bound: commands typed
    MaxReleases     \* bound: times FrameError or the watchdog frees the console

ASSUME DemoAssumption ==
    /\ Bits \in Nat \ {0} /\ Number \subseteq Nat
    /\ MaxCommands \in Nat /\ MaxReleases \in Nat

Pin == 0 .. Bits - 1
NoPin == -1

\* 1UL << b, as the set of its bits: the shift takes b modulo the width.
Mask_(b) == {b}
Mask(b) == {b % Bits}

Random == [kind |-> "rng"]
Get(b) == [kind |-> "get", mask |-> Mask(b)]
Set(b, on) == [kind |-> "set", mask |-> Mask(b), on |-> on]
Request ==
    {Random} \cup [kind : {"get"}, mask : SUBSET Pin]
             \cup [kind : {"set"}, mask : SUBSET Pin, on : BOOLEAN]

Nothing == [kind |-> "none"]

VARIABLES
    waiting,        \* _waiting
    gpioNum,        \* _gpioNum: the number asked about last
    wanted,         \* history: what the user last set the pins to
    releases,       \* times the console was freed without a frame
    requests,       \* given to Send, oldest first
    served,         \* how many of them handle_command was given
    confirmed,      \* how many of them are ACKed
    level,          \* levels of the pins
    resp_buffer,    \* the response in the buffer
    resp_pending,   \* it has not been put yet
    responses,      \* responses put, oldest first
    arrived,        \* how many of them the read task has ACKed
    received,       \* how many of them FrameReceived was raised for
    awaiting_ack,   \* of the firmware's frame_arq_t
    shown           \* history: what the console printed last

console == <<waiting, gpioNum, wanted, releases, shown>>
board == <<served, level, resp_buffer, resp_pending, responses, awaiting_ack>>
links == <<requests, confirmed, arrived, received>>
vars == <<console, board, links>>

Init ==
    /\ waiting = FALSE /\ gpioNum = NoPin /\ releases = 0
    /\ wanted = {} /\ level = {}
    /\ requests = << >> /\ served = 0 /\ confirmed = 0
    /\ resp_buffer = Nothing /\ resp_pending = FALSE
    /\ responses = << >> /\ arrived = 0 /\ received = 0 /\ awaiting_ack = FALSE
    /\ shown = Nothing

-----------------------------------------------------------------------------
(***************************************************************************)
(* The console.                                                            *)
(***************************************************************************)

Ask(r) ==
    /\ ~waiting
    /\ Len(requests) < MaxCommands
    /\ requests' = Append(requests, r)

\* RANDOM.
HandleRandom ==
    /\ Ask(Random)
    /\ waiting' = TRUE
    /\ UNCHANGED <<gpioNum, wanted, releases, shown, board, confirmed, arrived, received>>

\* GPIO <pin>.
HandleGpioGet(b) ==
    /\ Ask(Get(b))
    /\ waiting' = TRUE
    /\ gpioNum' = b
    /\ UNCHANGED <<wanted, releases, shown, board, confirmed, arrived, received>>

\* GPIO <pin> ON or OFF, which waits for nothing.
HandleGpioSet(b, on) ==
    /\ Ask(Set(b, on))
    /\ wanted' = IF on THEN wanted \cup Mask(b) ELSE wanted \ Mask(b)
    /\ UNCHANGED <<waiting, gpioNum, releases, shown, board, confirmed, arrived, received>>

\* FrameError, for the request in flight, whatever the console is waiting for.
Session_FrameError ==
    /\ confirmed < Len(requests)
    /\ releases < MaxReleases
    /\ releases' = releases + 1
    /\ waiting' = FALSE
    /\ UNCHANGED <<gpioNum, wanted, shown, board, links>>

\* The reply watchdog.
Watchdog ==
    /\ waiting
    /\ releases < MaxReleases
    /\ releases' = releases + 1
    /\ waiting' = FALSE
    /\ UNCHANGED <<gpioNum, wanted, shown, board, links>>

\* The read task ACKs the next response...
Arrive ==
    /\ arrived = received
    /\ arrived < Len(responses)
    /\ arrived' = arrived + 1
    /\ UNCHANGED <<console, board, requests, confirmed, received>>

\* ... and raises FrameReceived, before it reads on.
Session_FrameReceived ==
    /\ received < arrived
    /\ received' = received + 1
    /\ LET r == responses[received + 1] IN
       shown' = IF r.kind = "get"
                THEN [kind |-> "get", pin |-> gpioNum,
                      on |-> Mask(gpioNum) \cap r.values # {}]
                ELSE [kind |-> "rng"]
    /\ waiting' = FALSE
    /\ UNCHANGED <<gpioNum, wanted, releases, board, requests, confirmed, arrived>>

\* The session reads the ACK of the request in flight.
SessionAck ==
    /\ confirmed < served
    /\ confirmed' = confirmed + 1
    /\ UNCHANGED <<console, board, requests, arrived, received>>

-----------------------------------------------------------------------------
(***************************************************************************)
(* The firmware: one action is one run of loop(), which ends with the put of *)
(* a pending response if nothing is outstanding.                            *)
(***************************************************************************)

\* FRAME_ARQ_ERROR_BUSY taken for one of the errors that drop the response; and
\* resp_pending not cleared.
PutPending_(buffer, pending, awaiting) ==
    /\ resp_buffer' = buffer
    /\ resp_pending' = FALSE
    /\ awaiting_ack' = (pending \/ awaiting)
    /\ responses' = IF pending /\ ~awaiting THEN Append(responses, buffer) ELSE responses

PutPendingKeeps_(buffer, pending, awaiting) ==
    /\ resp_buffer' = buffer
    /\ resp_pending' = pending
    /\ awaiting_ack' = (pending \/ awaiting)
    /\ responses' = IF pending /\ ~awaiting THEN Append(responses, buffer) ELSE responses

\* Part 2) of loop(): what becomes of the buffer.
PutPending(buffer, pending, awaiting) ==
    /\ resp_buffer' = buffer
    /\ \/ /\ pending /\ ~awaiting
          /\ responses' = Append(responses, buffer)
          /\ resp_pending' = FALSE
          /\ awaiting_ack' = TRUE
       \/ /\ ~pending \/ awaiting
          /\ resp_pending' = pending
          /\ awaiting_ack' = awaiting
          /\ UNCHANGED responses

\* Every pin set, whatever the mask; the levels after request r; and the response
\* that handle_command builds.
Levels_(r) == IF r.kind = "set" /\ r.on THEN Pin ELSE {}
Levels(r) ==
    IF r.kind # "set" THEN level
    ELSE IF r.on THEN level \cup r.mask ELSE level \ r.mask

Response(r) ==
    IF r.kind = "get"
    THEN [kind |-> "get", values |-> r.mask \cap level]
    ELSE [kind |-> "rng"]

\* handle_command of the next request.
HandleCommand ==
    /\ served < Len(requests)
    /\ served = confirmed
    /\ served' = served + 1
    /\ LET r == requests[served + 1] IN
       /\ level' = Levels(r)
       /\ \/ /\ r.kind = "set"
             /\ PutPending(resp_buffer, resp_pending, awaiting_ack)
          \/ /\ r.kind # "set"
             /\ PutPending(Response(r), TRUE, awaiting_ack)
    /\ UNCHANGED <<console, links>>

\* The firmware reads the ACK of its response.
BoardAck ==
    /\ awaiting_ack /\ arrived = Len(responses)
    /\ PutPending(resp_buffer, resp_pending, FALSE)
    /\ UNCHANGED <<console, served, level, links>>

-----------------------------------------------------------------------------
Next ==
    \/ HandleRandom
    \/ \E b \in Number : HandleGpioGet(b)
    \/ \E b \in Number, on \in BOOLEAN : HandleGpioSet(b, on)
    \/ Session_FrameError
    \/ Watchdog
    \/ Arrive
    \/ Session_FrameReceived
    \/ SessionAck
    \/ HandleCommand
    \/ BoardAck

Spec == Init /\ [][Next]_vars

\* The links deliver and confirm (QueuedDelivery, GuaranteedDelivery).
FairSpec ==
    /\ Spec
    /\ WF_vars(Arrive)
    /\ WF_vars(Session_FrameReceived)
    /\ WF_vars(SessionAck)
    /\ WF_vars(HandleCommand)
    /\ WF_vars(BoardAck)

-----------------------------------------------------------------------------
(***************************************************************************)
(* Properties.                                                             *)
(***************************************************************************)

\* Every variable keeps its type.
DemoTypeOK ==
    /\ waiting \in BOOLEAN /\ resp_pending \in BOOLEAN /\ awaiting_ack \in BOOLEAN
    /\ gpioNum \in Number \cup {NoPin}
    /\ wanted \subseteq Pin /\ level \subseteq Pin
    /\ releases \in 0 .. MaxReleases
    /\ requests \in Seq(Request)
    /\ confirmed \in 0 .. served /\ served \in 0 .. Len(requests)
    /\ received \in 0 .. arrived /\ arrived \in 0 .. Len(responses)

\* Handling a request that has an answer, while an answer waits to be put.
Overwrites == HandleCommand /\ requests[served + 1].kind # "set" /\ resp_pending

\* "The ESP never has two responses in flight" (main.cpp, of the one slot that
\* handle_command writes to), as long as answers only have freed the console: it
\* never asks again before its response has left the slot, with its ACK on the way.
PatientIsNotOverwritten == [][releases = 0 => ~Overwrites]_vars

\* Such a console prints the level it set the pin to last, although a set waits for
\* nothing and the answer is printed under the pin asked about last.
ReadsOwnWrites ==
    [][Session_FrameReceived /\ shown'.kind = "get" /\ releases = 0 =>
          shown'.on = (shown'.pin % Bits \in wanted)]_vars

\* A console that waits is freed in the end by an answer, its watchdog aside: also
\* one that was freed early and whose earlier answers are late or overwritten.
Answered == waiting ~> ~waiting

=============================================================================
