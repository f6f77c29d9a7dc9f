# A TLA+ verification of htcw_frame_arq

The repository is a small reliable-transport library in C, `frame_arq`, and a
demo: a C# session (`EspSerialSession`) with an ARQ of its own, a console that
uses it, firmware that uses the C library at the other end of a serial line, and
two generators that emit the readers and writers of the messages both ends
exchange. This directory models all five: the ARQ, the byte framing and
resynchronisation, the threads of the C# session and its life from `Open` to
`Dispose`, the request/response logic of the demo, the generators and the code they
emit. TLC checks the models on small instances; TLAPS proves most of the safety
properties for every value of the constants.

Paths below are relative to the repository: `frame_arq.c` is
`src/source/frame_arq.c`, `frame_arq.h` is `src/frame_arq.h`, and
`EspSerialSession.cs`, `Program.cs`, `buffers_gen_c.py`, `buffers_gen_cs.py`,
`buffers_extra.py`, `src/main.cpp` and `include/interface.h` are under
`examples/demo/`. In line references `c` and `cs` are the two generators.

## 1. Inventory

| Component | State | Operations | Modelled by |
|---|---|---|---|
| ARQ core (`frame_arq.c` 174-351) | `tx_seq`, `expected_rx_seq`, `awaiting_ack`, `resend_needed`, `retain_buffer`/`retain_length` | `frame_arq_put`, `frame_arq_resend`, the outcomes of `frame_arq_get` | `FrameArq` |
| Session reset (412-425) | the same, set back | `frame_arq_reset` | `FrameArqReset` |
| Framing (18-173, 254-262) | `read_buffer`, `byte_count`, `start` | `read_frame`, `read_frame_marker`, `fa_write_control`, the writing half of `frame_arq_put`, `frame_arq_discard` | `FrameBytes` |
| The session's framing (`EspSerialSession.cs` 58-112, 735-765) | `StateMachine` | `Step`, the read task's assembly of a frame | `FrameBytes`, `reader = "session"` |
| The session's ARQ (121-167, 273-330, 401-431, 560-642, 920-925) | the ARQ fields, `_sendQueue`, `_ackTimer`, `_retries`, `_deliveryNotified`, `_ackTimeoutMs`; locks `_arq` and `_sendLock` | `Send`, `Resend`, `HandleAck`, `HandleNack`, `OnAckTimeout`, `DispatchValidFrame`, `WriteFrame`, the events | `EspSession` |
| The session's life (131-142, 207-231, 294-388, 433-548, 643-906) | `_handle`, `_closing`, `_connErrorFired`, `_disposed`, the two tasks, the power notification | `Open`, `Close`, `Dispose`, suspend, `OnConnectionError`, the two loops, `WriteAll` | `SessionLife` |
| Overlapped I/O (in the same lines) | the pending calls | complete, fail, `CancelIoEx` | in part, `SessionLife` |
| Console (`Program.cs`) | `_waiting`, `_waitDeadline`, `_gpioNum` | `RANDOM`, `GPIO ...`, the handlers of `FrameReceived` and `FrameError`, the reply watchdog | `Demo` |
| Firmware (`main.cpp` 71-231) | `resp_buffer`, `resp_pending`, the pins, a `frame_arq_t` | `loop`, `handle_command` | `Demo`, and as the board of `EspSession` |
| Wire format of the messages (both generators) | none | types, enums, prefixes, sizes, the bytes of a scalar | `WireFormat` |
| Emitted readers and writers | the buffer, the span, the position | one emitted statement each | `MessageBuffers`, judged by `Messages` |
| A run of a generator, and the build that runs it | the header, the parsed enums and structs, the output files | `parse_enums`, `parse_header`, `main`, `buffers_extra.py` | `Generator` |
| Allocation, Win32 declarations, log buffer, port enumeration, message definitions, build files | - | - | no |

**How they interact.** An application calls `put`, `get` and `resend` of its
`frame_arq_t`; the library calls back `read_cb` and `write_cb`, which are the
serial line. A DATA frame is answered by an ACK (new, or a repeat of the last
one) or by a NACK (bad CRC, or another sequence number); the sender keeps one
frame, and its application resends it on `FRAME_ARQ_RESEND_NEEDED` or after a
timeout of its own. On the PC the same protocol is run by three kinds of thread:
the callers of `Send`, the read task, and the callbacks of the ack timer. They
share the ARQ state under `_arq`, but write frames after leaving it, under
`_sendLock`. `Open` starts a read loop and a status loop; `Close`, `Dispose`, a
suspend and a failed write end them from other threads, by way of flags that all
sessions of the object share. The console asks through `Send` and reads its answers in
`FrameReceived`; the firmware answers with `frame_arq_put` from its one buffer.
What both put in a frame is written and read by code emitted from one header, in C
by one generator and in C# by another that knows nothing of the first; the
firmware's build runs the C generator and compiles what it finds.

**What is hard here.** A stop-and-wait protocol with a 6-bit sequence number
works both ways on one line: every order of loss, damage, resend and late copies
matters, as does the frame an application believes lost and the peer has
already acted on. A reader that lost a byte has nothing but payload bytes to
find the next marker in. In the session a thread decides under one lock and acts
under another; timer callbacks outlive the frame they were started for, and the
session too; `Close` sets flags back that the loops it ended have not seen yet. In the
demo, three things free a waiting console, and one slot holds the answer. Two
emitters must agree on every byte, whatever arrives; a generator that fails may
have written one of its files. `PROJECT.json` lists each of these hazards at its line.

**What makes each component correct.** ARQ: each direction is a one-message
link (`ReliableLink`): delivery in order, once, confirmed only if delivered, and
guaranteed on a line that is not dead. Framing: what is read is what was
written, the buffer is never overrun, and the reader finds its way back. Session:
a queue before such a link (`QueuedLink`), a timer that runs exactly as long as
it must, one report for each failure; over its life, no loop that ends unnoticed,
no thread that takes up a message of an earlier session, no lost connection without
an error event. Demo: every
wait ends, and an answer is the answer to what is displayed. Messages: what one
language writes the other reads, damage is refused by both alike or by neither,
and sizes are true. Generators: success exactly on headers that mean
something, and a build made of one piece.

## 2. Modules

| Module | What it is |
|---|---|
| `ReliableLink` | What a direction of the library promises: `Accept`, `Deliver`, `Confirm`, one message at a time. |
| `FrameArq` | Both ends and the line, frame by frame. Implements `ReliableLink` twice. |
| `FrameArqReset` | Extends it with `frame_arq_reset`. |
| `FrameBytes` | One direction, byte by byte, with either reader. Implements `ReliableLink`. |
| `QueuedLink` | What `Send` of the session promises: a queue and a reliable link. |
| `EspSession` | Extends `FrameArq`: end A is a session with its threads, B a board. Implements `QueuedLink` from A and `ReliableLink` to A. |
| `SessionLife` | The same session from `Open` to `Dispose` and `Open` again; its ARQ is reduced to what outlives a session. |
| `Demo` | Console and firmware over the two abstract links. |
| `WireFormat` | Types, widths, sizes and bytes, as both generators know them. |
| `MessageBuffers` | The emitted writers and readers, statement by statement, and the bounds they keep. |
| `Messages` | What a message means, and what writers and readers make of it. |
| `Generator` | A run of either generator from header to outputs, and the build. |
| `MCFrameArq`, `MCFrameArqReset`, `MCFrameBytes`, `MCEspSession`, `MCDemo`, `MCMessages`, `MCGenerator` | Instances for TLC (`SessionLife` needs none). |
| `Arq_proofs` (of `FrameArq`, `FrameArqReset` and `EspSession`), `FrameBytes_proofs`, `SessionLife_proofs`, `Demo_proofs`, `WireFormat_proofs`, `MessageBuffers_proofs`, `Messages_proofs`, `Generator_proofs` | Theorems and proofs. |

### FrameArq

The variables are the fields of `frame_arq_t`, each a function of the end; `wire[e]`
is what is on its way to `e`, and `sent` and `got` record what `put` accepted and
`get` returned. An action is a call: `Put`, `Resend`, and one for each way
`frame_arq_get` can go: `GetAck`, `GetNack`, `GetData`, `GetDuplicate`,
`GetUnexpected`, `GetCrcError`. `GetNoise` is a `get` that assembled a frame from
bytes nobody sent. Calls that change nothing (`BUSY`, a NULL argument, an
incomplete frame) are stuttering steps; so is a `resend` with nothing outstanding:
it clears `resend_needed`, which is clear then (`RetainedWhileAwaiting`). `put` cut
off by its `write_cb` returns an error, but has recorded the frame as outstanding:
it is a `Put` and then a `Lose`. A `resend` cut off keeps `resend_needed`; the
fragment it leaves on the line is noise.

The sequence number is taken modulo `SeqMod` (64 in the code). The line keeps
order and is bounded by `WireCap` frames, because the FIFO of a UART is: a frame
more is overrun. The line damages or loses a frame as it reaches the reader.

### FrameArqReset

`ResetOne` is `frame_arq_reset` by one end while the other knows nothing, at any time and any number of times;
`ResetBoth` is what `frame_arq.h` 152-153 asks for ("Both ends should reset so
sequences realign"), done on an empty line. `got[e]` restarts with the session of
`e`, so that the properties speak of a session. After a reset by one end alone,
`GetUnexpected` is reached, which without a reset it never is (`DataIsCurrent`).

### FrameBytes

A frame is what `frame_arq_put` writes: `Marks` marker bytes (8), the seq/type byte,
the length (4 bytes in the code, one here), the CRC (4, one here), the payload.
The reader takes one byte in each action; an action also does what `frame_arq_get`
does if the byte completes a frame: `Assemble` (not complete), `GetOverflow`
(`RejectLength` in the session, which also writes a NACK), `GetCrcError`,
`GetControl`, `GetData`, `GetDuplicate`. `LibraryMark` and `SessionMark` are the two
marker searches, which differ in what they do with a byte that breaks a marker.
A CRC is a byte (`Unit`) that carries what it was computed over: it matches if that equals the frame,
never by chance; where it is read as something else it shows `CrcByte`. A payload is any sequence of such bytes, so that
it may hold a CRC, and a whole frame with it. `NoFrameInside` says that none does; it is a hypothesis of what is said about lines with faults.
The answers go back whole: their loss is the subject of `FrameArq`. `Fault` loses,
damages or makes up a byte; `Control` and `LogText` put frames of the other
direction and text between the frames; `Discard` is `frame_arq_discard`.

### EspSession

An action is one critical section of `_arq`, or one `WriteFrame` (under `_sendLock`), or
a step of the read task between the two. `writing[t]` is what thread `t` has decided
to write and not yet written: the gap between the two locks. `armed` is the timer
running, `due` the callbacks that fired and wait for `_arq`; several may. `holding` is
the DATA frame whose ACK is being written, before `_expectedRxSeq` advances and
`FrameReceived` is raised. `HandleNack` and the `Resend` it calls are two critical sections
and one action: between them only another `HandleAck` of the same thread or an idle
`Send` could change the frame, and neither can run then. `Resume` is `Resend` by the application in
explicit mode (`AckTimeout < 0`), after `ResendRequested`. `_retries` is counted up to
`MaxRetries` and stays there: the code only compares it with `_maxRetries`.
`TransmitData` (272-285) is never called and not modelled.

### SessionLife

A thread is a stack of labels, `todo[t]`: what it has yet to do, the next first.
The threads are the application's (`App`, which opens, closes and sends), a callback of the ack
timer (`Timeout`), the work item of `OnSuspend` (`Pool`), and the two loops of each
handle. A handle is the number of the `CreateFile` that made it; `_handle` and
`_boundHandle` are set and disposed of together and are one variable. The steps
are the places where threads can meet: `Open` and its `ClearArq` under `_arq` and
`CreateHandle`, which may throw before or after the handle is made; `Close` in the steps check
(`EnterClose`), `Cancel`, `Release` and `ResetFlags`; `Dispose`, which is a `Close` and then `Disposed`;
`OnConnectionError` in the steps `Check` and `Raise`, whose handler may call `Close`. `Catch` is the loops'
handler of every exception together with the check that `OnConnectionError` begins with; the gap that
matters, between that check and the raising of the event, is there. `Abort` is `CancelIoEx`, or the end of a handle: each pending call of other
threads ends with an error. A write is dropped (`DropWrite`), throws (`WriteThrows`), or begins and ends or
fails (`WriteBegins`, `WriteEnds`); a failed write disposes of the session. A frame is read by `HandleFrame`: an ACK
of the frame in flight, a NACK, or one that is answered; `Resend` is the critical section of `Resend()`, after a NACK or called by the
application (`CallResend`, in explicit mode), and `OnAckTimeout` that of a callback. Between such a section and its write a thread has a
message in hand: `frame[t]` is the session in which `Send` took that message, `taken[t]` the one in which the thread took it over (`Take`, `LetGo`).
`raised` is the set of threads that raised `ConnectionError` since `Open` began. That ACKs carry no session, so that the old read loop may
confirm or refuse a frame of the new session, is not modelled beyond what `HandleFrame` may do at any time, and no property is about it.
When a timer callback throws, the process ends (`crashed`); when one `Close` begins while another
is under way (`overlapped`), the model ends: see the differences at the end of section 5.

### Demo

The links are the abstract ones, because `EspSession` and `FrameArq` show that they
are implemented: `requests`/`served`/`confirmed` is `QueuedLink`, `responses`/`arrived`/`received`
with `awaiting_ack` is `ReliableLink`. One run of `loop()` is one action
(`HandleCommand`, `BoardAck`), with the put of a pending response that ends it
(`PutPending`). `Session_FrameError` and `Watchdog` free the console without an answer.
`HandleRandom` and the two `HandleGpio` actions are commands typed; `Mask` takes the
shift count modulo the width, as C# does. A GPIO mode command is a request without
an answer, as a set of no pin is, and has no action of its own.

### WireFormat

Pure operators: the types (`SCALAR_TYPE_MAP`, `WIRE_TYPE_SIZES`), the width of an enum and
of a length prefix, the size of a struct with its detection of circles (a recursive
function, so that theorems may be stated above it), and the bytes of a scalar, once
as the emitted C writes them, type by type, and once as `BinaryPrimitives` does. A byte has
`ByteBase` values, 256 in the code and 4 in the instances, so that every width of a prefix and
every value of a scalar fit a small instance. A float is its bits.

### MessageBuffers and Messages

`todo` is what is left to write and `fields` what is left to read: the emitted code
is a list of statements, one for each field, in which a nested struct is a call and an
array a loop. One action is one emitted statement; calls and loops
(`CWriteStruct`, `CWriteArray`, `CReadArray`, ...) replace the head of the list by what it consists of. A message is
written by C or by C#, into a buffer of some size; it reaches the readers whole,
cut off, or with a changed byte; C, C# and the C# reader of a stream (`StreamRead`) read it.
A C struct is a sequence of values, a C# struct a reference that may be null, and C# lists may be
shorter or longer than declared. Characters are code units, and `GetBytes` and `GetString` are a
UTF-8 with one character of two bytes and a replacement for what is ill-formed.

`Messages` says, independently of the writers, what scalars and strings a message
means (`Meant`), and how long the emitted size functions say it is (`size_fn`, `SizeOfStruct`). A writer replaces the head of its list at each step;
`Leaves` takes the whole list apart at once (`Expand`), as often as structs can be nested (`Depth`). `RangesAssumption` gives every value the range
of its type. What can be said without all that is in `MessageBuffers`:
`InBounds`, `MaxSizeIsEnough`, and `ReadersAgree`, for which `HeldBy` is what a struct consists of.

### Generator

A header is what the regular expressions find in it: enums with entries, structs with fields,
each with its form. `Start` is `main` up to the reading of the file, which may fail; parsing goes entry by entry
and field by field (`OpenEnum`, `EnumEntry`, `CloseEnum`, `OpenStruct`, `StructField`, `CloseStruct`), any of which may end the run
(`Fails`); `With` is the assignment to a key of a dictionary; then each output is opened, which empties it, and written (`OpenOutput`, `WriteOutput`): the sizes, which may be
in error, are asked for in the text of the first output, after it was opened. Opening an output may fail, and leaves it as it was; writing may, and leaves it
empty or in part, which for the models is `NoFile`: a part of a `.h` or `.c` file does not compile and link. `here` says which of `--out` and `--out_h` name the directories
of the build (`PathOf`): a run by hand may write into both, one or neither of them, everything else being `"elsewhere"`. `torn` is history: since a run wrote both files of the build (`Whole`), a run
ended, by an interruption or a `.c` that could not be opened, just between the two (`BetweenTheTwo`), or wrote one of the two only. `Kill` interrupts a
run anywhere, `Edit` changes the header at any time. `Compile` is the build, which
goes on whatever the generator's exit code (`buffers_extra.py` does not look at it).

### Definitions that end in an underscore

These are faulty forms of the definition that follows, kept beside it: each is a
plausible mistake, and the property in the table is violated when it replaces the
definition. They are not part of the model.

| Property (run) | Faulty form | The mistake |
|---|---|---|
| `TypeOK` (arq_safety) | `Succ_` of `FrameArq` | seq not taken modulo |
| `ExactlyOnceInOrder` (arq_safety) | `IsNew_` of `FrameArq` | a duplicate is delivered |
| `RetainedWhileAwaiting` (arq_safety) | `GetNack_` of `FrameArq` | a NACK without an outstanding frame asks for a resend |
| `DataIsCurrent` (arq_safety) | `Frees_` of `FrameArq` | any ACK frees the sender |
| `AckIsHonest` (arq_safety) | `GetDuplicate_` of `FrameArq` | a duplicate is answered with the ACK of the next frame |
| `NeverAbandons` (arq_safety) | `Resend_` of `FrameArq` | a resend takes a new seq |
| `LinkImplemented` (arq_safety) | `Put_` of `FrameArq` | put does not look at `awaiting_ack` |
| `GuaranteedDelivery` (arq_liveness) | `ResendDue_` of `FrameArq` | resend on a NACK only, no timer |
| `TypeOK` (reset_any) | `TxSeqStart_` of `FrameArq` | the first seq out of range |
| `OrderedInSession` (reset_any) | `IsNew_` of `FrameArq` | a duplicate is delivered |
| `RetainedWhileAwaiting` (reset_any) | `ResetKeepsRetained_` of `FrameArqReset` | a reset keeps the outstanding frame |
| `ResetRealigns` (reset_any) | `ResetKeepsExpected_` of `FrameArqReset` | a reset keeps the seq it expects |
| `TypeOK` (bytes) | `Succ_` of `FrameBytes` | seq not taken modulo |
| `BufferBound` (bytes) | `Oversize_` of `FrameBytes` | length limit off by one |
| `LinkImplemented` (bytes) | `CrcMatches_` of `FrameBytes` | CRC over the payload only |
| `GuaranteedDelivery` (bytes) | `GetOverflow_` of `FrameBytes` | `byte_count` not set back |
| `CleanLineIsRead` (bytes) | `SessionMark_` of `FrameBytes` | text begins a marker |
| `SessionTypeOK` (threads) | `Succ_` of `FrameArq` | seq not taken modulo |
| `QueueKeepsOrder` (threads) | `HandleAck_` of `EspSession` | the queue is left alone |
| `TimerGuards` (threads) | `PrepareTransmit_` of `EspSession` | timer started before it is stopped |
| `ReportedOnce` (threads) | `OnAckTimeoutReports_` of `EspSession` | `_deliveryNotified` not looked at |
| `SessionLinkImplemented` (threads) | `Send_` of `EspSession` | the queue is looked at instead of the frame in flight |
| `QueuedDelivery` (queue_liveness) | `OnAckTimeoutOnce_` of `EspSession` | the timer is not started again |
| `NoSilentEnd` (life) | `Catch_` of `SessionLife` | the exception is swallowed |
| `SessionsAreApart` (life) | `ClearArq_` of `SessionLife` | the frame in flight is left as it is |
| `LossIsReported` (life) | `Open_` of `SessionLife` | `_connErrorFired` not set back |
| `DemoTypeOK` (demo) | `Mask_` of `Demo` | shift count not taken modulo |
| `PatientIsNotOverwritten` (demo) | `PutPendingKeeps_` of `Demo` | `resp_pending` not cleared |
| `ReadsOwnWrites` (demo) | `Levels_` of `Demo` | every pin is set |
| `Answered` (demo) | `PutPending_` of `Demo` | BUSY drops the response |
| `InBounds` (messages) | `TooLong_` of `MessageBuffers` | a length is not compared with the array |
| `RoundTrip` (messages) | `bp_write_` of `WireFormat` | the byte order is ignored |
| `CutIsRefused` (messages) | `CReadScalar_` of `MessageBuffers` | the end of the bytes reads as zero |
| `ReadersAgree` (messages) | `AsInt_` of `MessageBuffers` | a length is kept in two bytes |
| `MaxSizeIsEnough` (messages) | `wire_size_of_` of `WireFormat` | a string's prefix is not counted |
| `SizeIsActual` (messages) | `CsWriteArray_` of `MessageBuffers` | a short array is not filled up |
| `ExitCode` (generate) | `Repeats_` of `Generator` | the last field is not compared |
| `OutputsSound` (generate) | `SizesKnown_` of `Generator` | a size error is ignored |
| `EnumsFit` (generate) | `enum_wire_type_` of `WireFormat` | the lower end is not looked at |
| `BuildOfOnePiece` (generate) | `Compile_` of `Generator` | the build does not wait |

## 3. Runs

| Run | Module | What it asks | Distinct states |
|---|---|---|---|
| `arq_safety` | `MCFrameArq` | Three messages one way and one the other, losses, damage, overrun, noise, resends at any time: types, exactly-once in order, retention, what may be on the line, honest ACKs, no abandoned frame, and both abstract links. | 152,733 |
| `arq_liveness` | `MCFrameArq` | Two messages each way, patient callers: all delivered and confirmed. | 7,393 |
| `reset_any` | `MCFrameArqReset` | Any number of resets, of one end or both: types, order within a session, retention, and the two ends aligned from a common reset on. | 122,022 |
| `bytes` | `MCFrameBytes` | Two frames of payloads of text and markers, either reader. A control frame and a byte of text in between, and no errors: nothing is rejected. A control frame and two errors, that is bytes lost, damaged or made up anywhere, or one such byte and a discard: the buffer's bound, nothing delivered but what was put, and everything delivered in the end. | 1,045,742 |
| `threads` | `MCEspSession` | Three `Send`s; or two and a message from the board; or two with overlapping callbacks and changes of `AckTimeout` between its three modes: types, the queue, the timer, one report for a failure, both links. | 1,629,943 |
| `queue_liveness` | `MCEspSession` | Two `Send`s and a message from the board: all delivered and confirmed. | 90,997 |
| `life` | `SessionLife` | Two openings, with `Close`, `Dispose`, suspend, an unplugged device, an `Open` that throws, failing and aborted writes, NACKs, late callbacks: no loop ends unnoticed, no thread takes up a message of the session before, a lost connection does not stay without an event. | 1,305,139 |
| `demo` | `MCDemo` | Four commands on two pins, two early releases: types, the one slot and the pins of a patient console, and an end to every wait. | 528,392 |
| `messages` | `MCMessages` | Messages of twelve structs, both writers, both byte orders, both modes of strings, four sizes of the buffer; whole, cut anywhere, any byte changed; three readers: one format, no access out of bounds, sizes that are true. | 169,900 |
| `generate` | `MCGenerator` | Two runs of the generators over 22 headers right and wrong, and three over two headers with the C outputs in any directories, with edits, failing files and interruptions: exit codes, files, the types of enums, and what a build compiles. | 457,920 |

Two runs end in a violation; each checks a statement of the repository.

- **`bytes_locked`** (`README.md` 5: "corrupt or missing frames are detected, and
  delivery is retried until it succeeds"). One marker byte is lost of a frame whose last byte is its own
  marker byte; the line makes no other error (`LossSpec`). The rest of the frame is dropped but for that last byte, which the reader keeps as the first of a marker,
  so that it is one byte out of step with the retransmission: it takes the third marker byte for the seq byte and the seq byte for the
  length. In the model that length is too large, in the code, where it has four bytes, it is seq + 256 * length: an overflow, which no NACK
  answers, or where `max_payload_size` allows it as many bytes swallowed. Then the last byte is kept again. With a frame of
  another kind in between it recovers.
- **`life_stolen`** (887-889: "the loops complete with ERROR_OPERATION_ABORTED and raise ConnectionError themselves"). A loop that `Close` cancelled comes to its
  handler after the next `Open`, finds neither `_closing` nor `_connErrorFired` set, and raises the event in a session that lost nothing. When this session loses its device, its loops are silent: an
  application that took the first event for what it was hears of nothing more. `LossIsReported` counts that first event as a report, and so holds.

### Bounds, and why they are enough

- *Sequence numbers*: `SeqMod` is 2 in the ARQ runs, which is the hardest case: a seq comes
  back after one frame. `EspSession` needs more: a thread may hold a late copy while
  other frames pass, and the properties hold as long as fewer than `SeqMod` pass (63 in
  the code). With `SeqMod = 4` and at most three messages that is so.
  `FrameArqReset` has `SeqMod = 4` so that the ends can be out of step by more than one
  frame, and numbers its messages.
- *The line*: `WireCap = 2` lets a copy of a frame follow another one, and be overrun;
  liveness runs have 3, so that with a frame each way the overrun does not
  repeat for ever by itself.
- *Messages of the ARQ*: three frames one way let a copy of the first meet the ACK of the
  second and the third wait; payloads are told apart by two values, or
  numbered in the order they are sent (the constraint `Numbered`), which loses no
  behaviour that the properties tell apart.
- *Bytes*: three marker bytes are the fewest with a first, a middle and a last one; two sequence
  numbers make the control marker 4, commands are marked 5 and 6, and payloads are
  chosen from text, both kinds of marker, and their mixtures. No payload holds a CRC, which takes more bytes than TLC can follow through two errors:
  `LinkRefinement` has payloads of any length, under the hypothesis that none does, and `CleanReading` those that do as well. Faults are fewer than a
  marker has bytes: with as many, a whole marker can be made up in front of the rest of a frame, and the
  CRC does not cover it (this is the hypothesis of `LinkRefinement`; see "Proofs"). Where there are errors, `Chosen` leaves out text between the frames, and the messages that end in a byte the
  reader may be locked by (`PlainMessages`, `TextAtEnd`), and allows two errors. `CrcByte`, as which a CRC shows, is a marker byte.
  `bytes_locked` has four sequence numbers, and a CRC that shows as text, so that the loss of one byte is all that is needed.
- *Changes, commands, releases, controls, texts, discards*: one or two of each,
  enough for one to meet the effects of another.
- *Threads*: one caller of `Send`: callers do nothing outside `_arq` but their own
  `WriteFrame`. The constraint `EitherManyOrOverlapping` of `threads` explores many messages with one
  callback at a time, and overlapping callbacks and changes of `AckTimeout` with two messages, but not both
  at once; `CallbackSymmetry` is used, because the callbacks are interchangeable and the run
  checks safety only. `MaxRetries = 1` makes every timeout the last permitted one; `queue_liveness` has 2.
- *Life*: `MaxOpens = 2`, the fewest with a session before and a session after; `MaxEvents = 2` counts frames
  read, messages sent, timeouts, suspends, unpluggings, calls of `Close` and `Dispose` and an `Open` that
  throws, together; `Open` and the first `Send` of a session are free.
- *Messages of the demo*: each struct of `MCMessages` is there for a combination the emitters treat apart
  (nested, list of structs, list of structs with a list, with and without strings, enum, bool array, a prefix of 1, 2 and 4 bytes, 64 bits,
  empty struct), and each message for one of values: too long, too short, null, with a NUL inside, at the end of a range. With `ByteBase = 4` a changed byte takes every other value. `Rooms` are no room, too little for some,
  enough for all but the largest, and enough.
- *Headers*: nine that are right, with enums at both ends of the range of a type; twelve, each wrong for another
  reason; one that is right in fixed mode only. Two runs are enough for a run that fails after one that did not;
  the constraint `EditsBetweenRuns` lets the header change only between two runs (a run reads it once), to one
  of four. Three are needed for a build to compile what two runs left: one that writes both files, one that fails, is interrupted or
  writes one of them, and one of the build. `TwoRunsOrFew` allows a third run, and directories other than those of the build for the C outputs, of two headers only: one that is right and one that fails when
  the first output is open; and over all headers nothing is edited once the second run has begun. Without any one of the causes of `torn` TLC finds `BuildOfOnePiece` violated.

Deadlock is not checked in any run: every instance ends when its messages are
used up, and an end with nothing to do may stop.

### Fairness, and why the code justifies it

- `FrameArq`: `WF(Get)`, `WF(Resend)`: both programs call `frame_arq_get` in a loop and
  keep a resend timer (`README.md`, the minimal receive/retransmit loop; `main.cpp` 222-230).
  The timer is longer than a round trip (`Impatient = FALSE`): with a shorter one, a bounded
  line may be full of copies for ever. `SF` for the reading of each kind of frame says that
  the line is not dead: of frames that keep arriving, some are undamaged. NACKs
  need it too: without it, two ends could answer damaged NACKs with NACKs for ever.
- `FrameBytes`: `WF` of the reader, of reading an answer, and of the timer. Faults are
  bounded, so no strong fairness is needed.
- `EspSession`: `WF` for each thread that has something to do (`lock` is
  fair enough and nothing holds one for ever), and for the timer; the board and the line as in `FrameArq`.
- `SessionLife`: `WF(Working)`: as long as some thread can go on, some thread does. No
  fairness among threads is needed, and none makes the application act, the timer run out or the
  device go.
- `Demo`: `WF` of what the links promise and of the two event loops; none for the user, for
  `FrameError` or for the watchdog: the wait ends without them.

## 4. Proofs

The assumptions of each theorem are those its module names: two different ends, `SeqMod >= 2`, bounds that
are numbers, a byte with an even number of values; of headers that they have the shape the regular expressions give them, and
that a scalar type has no capitals (`HeaderAssumption`); of structs that the generators find sizes for them and know their types
(`StructsAssumption`), and of messages that they are values of their struct's fields in the language that writes them (`MessagesAssumption`), in `Messages` within the ranges of
their types (`RangesAssumption`). Nothing else is assumed, and nothing bounds the behaviours.

`Arq_proofs` (EXTENDS `EspSession`, `FrameArqReset`, `TLAPS`) first proves of the library, for every `Payload`, every `SeqMod`
from 2 up, every `WireCap`, every bound and both kinds of caller and line:

- `TypeCorrectness`, `ExactlyOnce`, `Retention`, `DataCurrency`, `AckHonesty`,
  `NoAbandonment`: the invariants and the action property of `arq_safety`;
- `Refinement`: `Spec => LinkImplemented`, for both directions.

Exactly-once is not inductive: whether a frame may be delivered depends
on what copies and which ACKs are still on the line. The inductive invariant `IInv` is
`TypeOK`, with, for each end `e`, `Sender(e)` (the outstanding frame is retained under
its seq; everything is delivered or only that frame is missing) and
`LineTo(e)`: the DATA frames on the line (`DataOn`) are copies of the outstanding frame
after copies of the one before it, and the ACKs (`AckOn`) are those of a delivered frame
after those of the one before. Both kinds are ordered by seq, so the alternation of
two values of the seq is enough to tell a late copy from a new frame; this is
where the order of the line is needed. Lemmas say what taking the head, adding
a frame at the end and an overrun do to `DataOn` and `AckOn`; one lemma for each kind
of step (`PutStep`, `AckStep`, `DataStep`, `DuplicateStep`, `ResendStep`, `NackStep`, `TailStep`)
then preserves `IInv`, and `LinkStep` maps each step to a step or a stutter of `ReliableLink`.

Its second part is about `FrameArqReset`. It proves, for any number of resets, `ResetTypeCorrectness`, `ResetRetention`
and `Realignment`: `Aligned`, which a common reset establishes, is kept by every step but
a reset of one end alone. `Aligned` with the types is `IInv`, and `InvStep` shows that each call keeps
`IInv` from any state of the right types, reachable without a reset or not; so no new induction is needed.
It also proves `SessionOrder`: `ResetSpec /\ []Numbered => []OrderedInSession`, whichever end resets when. The invariant is
`Flow`, for each direction: the DATA frames on the line are in the order of their messages, those of one message,
and its retained copy, have one seq, and if the message given last comes again, the receiver does not expect that seq;
one lemma for each change of the line or the ends (`FlowTail`, `FlowSent`, `FlowPut`, `FlowDelivered`, ...) keeps it.
The numbers are what the property is stated with; the code never looks at them.

`FrameBytes_proofs` proves `TypeCorrectness` and `BufferSafety`: for every length of
the marker, buffer size, message, and any bytes at all on the line, for both readers,
no byte is written past the end of `read_buffer`, and between two bytes
the length field is in range. The invariant is `TypeOK` and the bound itself, of which
"no whole frame is held" is the part that makes it inductive.

It also proves `LinkRefinement`: if fewer bytes are lost, damaged or made up than a marker has, and no payload holds a CRC (`NoFrameInside`), `Spec => LinkImplemented`: whatever
else the payloads are, the reader, and the control frames, text and discards in between, what is delivered is what was put, once and in order. The
invariant `LinkInv` has four parts. `Numbers`, `Ends` and `Acks` relate the two ends, as in `FrameArq`. `Carried` is about the bytes: it gives
each unit on the line a tag (the frame it is of, its place in it, and how many messages had been put), says that all but the first `x` units
are whole frames one after the other, and what the reader holds of them. The danger is a frame whose CRC is right and whose marker is
another frame's: the CRC does not cover the marker, so that it would be delivered under another command. `Behind` shows that the
faults do not suffice: to have another marker than that of the frame that is being read costs one fault for each byte of a marker made
up, or for each byte of the frame's own marker that did not count, and `Cost` keeps that account, byte by byte. A frame the reader accepts then is one that was
sent (`FrameRead`), and one that is no older than the last delivered (the tags' numbers do not decrease).

`CleanReading` is `Spec => CleanLineIsRead`, for any `MaxFaults`: until the first fault or discard the reader holds exactly the part
of the present frame that it has read (`InStep`), whatever the payloads are, whole frames included, so that nothing is rejected. Two assumptions are
used, which the library's numbers (64 sequence numbers, commands from 1) satisfy: `SeqMod >= 2` and that no command is 0, since
a command of 0 would have the marker of control frames (`frame_arq.c` refuses it).

The part of `Arq_proofs` about `EspSession` proves, for any number of callers and of
callbacks that overlap, and any changes of `AckTimeout`:

- `SessionTypeCorrectness`, one lemma for each critical section;
- `QueueOrder`: what was transmitted and what waits in the queue is what `Send` took, in that order; inductive
  with the types;
- `TimerKept`: while `AckTimeout` is left alone, a frame in flight has the timer running, or a callback that
  will start it again; inductive with the types;
- `BoardToSession`: `SessionSpec => ToSession!Spec`. Here the session does in three steps what
  `frame_arq_get` does in one: it decides about a frame, writes the ACK, and then counts it. The invariant `FromBoard`
  therefore speaks of what the session has decided (`Received`, `Expected`), and `BoardAll` or `BoardLast`,
  with `DataOn` and `AckOn` of the first part for the line, and `AcksDue`: an ACK not yet
  written fits what was decided, and only the read task holds one. What callers and callbacks write late are DATA frames, which this
  direction does not look at;
- `OneReport`: `FrameError` is raised at most once for a frame. A callback decides to report under the lock and raises
  the event after it, when the frame may be confirmed and others sent. `ReportsKnown` numbers the frames: none that was
  reported, or that a thread is about to report, is newer than the one in flight, and while `_deliveryNotified` is not set none is that one;
- `PromptSession`: `SessionSpec /\ []Prompt => SessionLinkImplemented`, that is the direction from the session as well. Any thread may
  hold a copy of a frame and write it when the frame is long confirmed, so that, other than in `FrameArq`, old DATA frames come
  to the board at any time. A copy is harmless as long as its seq is not the one that the board expects next. `Prompt` says that no thread
  writes a DATA frame that `SeqMod - 1` others have followed (63 in the library, all within one thread's way from
  the lock to the write). `ToBoard` is the invariant: frames on the line are of the last `SeqMod - 1` (`Recent`), or
  of one more while the board has still to read the one in flight, but never behind a copy of that one (`CopiesOn`), and `AckOn` holds as in `FrameArq`.
  Without the hypothesis the theorem is false: TLC finds `ToBoard` violated with `SeqMod` of 2 and three messages, and a held-up callback's frame delivered again as new;
- `ShortSession`: a session that sends fewer than `SeqMod` messages is prompt whatever its threads do, so it implements both
  links without any hypothesis about them. It also shows that `Prompt` asks for nothing that sessions do not meet.

`SessionLife_proofs` proves `SessionsApart` for any number of `Open`s, `Close`s, NACKs and late callbacks, and it speaks of the write itself, not of the
decision to write. The invariant `Apart` says that a frame in flight and all that is in the queue is of this session; that what a thread has in hand is of the session in which it took it,
which is this one or an earlier one; and that a stack holds a decision to write a message at its top only: a decision is made and acted upon before anything below
it is taken up, so that none is uncovered later.

It also proves `EndIsReported`, that is `NoSilentEnd`: as long as no two `Close`s overlap, the read loop of an
open session has ended only if `ConnectionError` was raised since `Open`, or a thread is about to raise it or to release the
handle. The flags are those of all sessions, so the invariant `Loops` has to say whose they are: one thread at most has the
release of a handle ahead of it, once, and that handle is the open one (`Exclusive`); `_closing` is set for an open handle only
on behalf of that thread, and never while `Open` creates one; `_connErrorFired` implies that the event was raised. `Shape` says
how stacks are built: what the read loop goes on from is at the bottom, a frame to be written has nothing but the loop below it,
`cancel` is followed by `release`, and nothing is below `create`. One lemma, `KeptStep`, then covers every step that does not open, begin to
release, or release a handle; `OpenKept`, `CreateKept`, `EnterKept` and `ReleaseKept` are those that do.

`Demo_proofs` proves `DemoTypes`, `Patience` and `OwnWrites` for any number of pins, commands and early
releases. `Promised` says that what the user last set a pin to is what the last request not yet served says of it, or else its
level; `OneAnswer` says that a console freed by answers only has at most one answer on its way, at one
of three `Stages`, and none while it does not wait.

`WireFormat_proofs` is about what the generators compute, for any set of structs, any lengths and any number of values in a byte. `SizesComputed`:
`compute_max_wire_size` is an error exactly if structs hold themselves, by whatever way round (`HoldsItself`), or a string in variable mode
is too long for its prefix (`Misfits`). The code finds circles by the set of structs it is visiting; `FindsCircle`
and `FindsNothingElse` are inductions over the structs not yet visited (`Descent`), the second one along `Below`, the least set of structs that
contains what a struct holds and what those hold. `Values`, `Total` and `struct_wire_size` are recursive functions: that there are functions with these
equations is proved first (`Recursion`, `SizeExists`). The library's induction takes an operator as a parameter, which no prover here
can instantiate, so `Induction` is stated for sets: a set with 0 and with the successor of each of its numbers has all of them, since of those
missing one would be the least (`NatLessThanWellFounded`, `WFMin`).

`MessageBuffers_proofs` (EXTENDS `MessageBuffers`, `WireFormat_proofs`) proves `Bounds`, that is `InBounds`, for any structs, however nested, any
messages, rooms and number of values in a byte, and whatever bytes reach the readers. The invariant `BufferInv` says that what is
left to write are items with values of their fields' types, what is left to read are fields, and that a reader is never past the bytes it has;
there is a lemma for each emitted statement. What a statement writes or stores is the work of the lemmas about operators: `CutFacts`, `PaddedFacts`, `FlattenFacts`,
`GetBytesFacts` (UTF-8 is at least as long as its text), `GetStringFacts` (and a text no longer than its bytes), `FittingFacts`, `AsIntFacts`
(the casts to `int`), `ShortPrefix` (a prefix of one or two bytes is never negative as an `int`). The proof is what showed the exception `HugeWide`
(section 5), of which no instance small enough for TLC has one.

It also proves `RoomIsEnough`, that is `MaxSizeIsEnough`. `StructMaxSize` is a number computed once, by recursion over the nesting of structs; a writer goes through
a list that grows and shrinks as it runs. The invariant `RoomInv` puts the two together: what is written, and the largest sizes of all the
items that are left (`Rest`), are at most the largest size of the message's struct. Each statement takes off `Rest` at least what it
writes (`EmittedRoom`), or replaces an item by items that take no more (`ExpandsRoom`): the elements of an array as many times the size of one (`ElementsSized`),
the fields of a struct its largest size (`FieldsSized`), a text and its prefix no more than the whole array with one. Where `room` is that largest size, nothing
that is left can fail to fit (`GivesUpRoom`). `SizeWherever` of `WireFormat_proofs` is needed for nested structs: the size of a struct does not depend
on which structs were being visited when it was asked for, as long as it has one.

And it proves `AlikeReaders`, that is `ReadersAgree`, for any structs without a string long enough for a prefix of 32 bits (`HugeString`) and any bytes, whoever wrote them. The readers take turns, so neither is
compared with the other: both are compared with the bytes. A reader's state, the fields that are left and a position, has by the statement at its head a next
state, or it is an end, at a position or refused (`Final`, `EndOf`, `StepOf`); `Ways` pairs states with the ends they come to. That is a recursion, and
the prover has no induction for one, so `Ways` is the least set of pairs that contains each end's own and, with a state's next, the state (`Ends`). `OneEnd` proves of any such set that a state has one
end at most: the pairs of states with one end only are such a set as well. The invariant `Alike` says of a reader that whatever its state comes to, the whole struct comes to at
position 0; once it has finished, that is where it ended. `StringDecided` is one proof for both languages; that the length C# computes is the one C reads (`SameLength`) rests on
`SameNumber` (`BinaryPrimitives` and `buffers_read` agree on one and two bytes) and `SmallInts`, and on the fields left being no huge strings, for which `HeldBy` is
closed under nesting (`SmallStructs`).

`Messages_proofs` (EXTENDS `Messages`, `MessageBuffers_proofs`) is about what the bytes mean, for any structs, however nested, any messages in range, rooms, both languages,
orders of bytes and modes of strings. It proves

- `MessagesArrive`, that is `RoundTrip`: what comes whole is read by each reader, to the last byte, as what was meant;
- `CutsRefused`, that is `CutIsRefused`: what is cut off, wherever, is refused;
- `ActualSizes`, that is `SizeIsActual`: the emitted size functions count the bytes that the writer writes.

Writers, readers and size functions never meet: each is compared with the leaves of the message. That `Leaves` are leaves at all, whatever is nested, is
shown first: `Height` of a struct is how many structs it holds, by whatever way round, and falls with each nesting (`Below` of `WireFormat_proofs`), so an item of rank `k` is
taken apart in `k` rounds, of which `Depth` is a bound. From that follows the one equation that the rest is built on: the leaves of a list are those of its
head, taken apart once, and those of its tail, in whatever order the emitted code goes through it; `Spread` turns leaves into bytes, and no recursion is left
(`BytesOf`, `LeafBytes`; texts as code units, `RawOf`). Then

- `MessageInv`, for writers: the bytes written and those of the leaves that `todo` still holds (`Output`) are the bytes of `Meant`. A statement moves the bytes of a leaf from one part
  to the other, or takes an item apart. The slots of a list without an element are where it would fail: in variable mode C# clears them at the largest size
  of their struct, which is the bytes of their leaves only if none of these is a string. That is why `HasGap` is left out;
- `ReadersInv`, for readers: a reader is at the end of the bytes of some of the leaves, has stored for each of them something that shows it, and the fields it has
  left are those of the others (`Follows`). It begins with what was written, whole or cut off (`Begins`); if a statement of it finds too few bytes, or a
  length that it does not accept, there were fewer bytes than the writer wrote. So it does not refuse what came whole, and does not finish on what was cut off;
- `StreamLength`: in fixed mode a message is as long as its struct's largest size, which is what the reader of a stream asks for.

A leaf is shown if its value is read back: `ScalarRead` is the round trip of a number through `ToUnsigned`, the bytes in either order and the sign, which is where
`RangesAssumption` is needed (an `int8_t` of 200 is written as another number); `StringIn`, with `CStringShown` and `CsStringShown`, of a text through its prefix, units and padding, which in fixed mode ends at a NUL. A text of C#
is what of it fits whole (`Fitting`) in the array declared. `IsSpan` bounds the bytes by an `int`, since a prefix of 32 bits is cast to one: with it no length of a
message is negative (`AsIntFacts`).

`Generator_proofs` (EXTENDS `Generator`, `WireFormat_proofs`) proves `OnePiece` for any headers, number of runs, directories, failures and edits. `Stage` says, for each
phase of a run that writes both C files (`Whole`), which of the two are still to be written and what is in the others: wherever such a run stops, the `.h` is empty, or the `.c` is, or
both are of it, or both as they were - except between the two. A run that is not `Whole` tears the files as soon as it opens one of the two, and else leaves them alone.

It also proves `ExitTells`, `FilesAreSound` and `EnumTypesFit`, that is `ExitCode`, `OutputsSound` and `EnumsFit`, for headers of any length. Each of the three
compares what the parser did, entry by entry, with what is said of the header as a whole. The invariant `ReadInv` therefore says how far a run
has come: `EnumsRead(h, n, known)`, `StructsRead(h, n, known, dict)`, and within an enum `EntriesRead` (the values so far are those C gives the entries so far, and
`current` is the next, counted from the last literal) and within a struct `FieldsRead`. `RefusedEnum` and `RefusedStruct` show that a refusal
has its reason in the header; `SizesKnownMeans`, with `SizesComputed`, that a header that is read and has sizes is `WellFormed`, and only such a one. `outs = Outputs \/ SizesKnown` carries
that from the first output, where the sizes are asked for, to the last. `TypeHolds` is the choice of a type by its two ends.

**Only model-checked.** Liveness under fairness (`GuaranteedDelivery`, `QueuedDelivery`,
`Answered`, `LossIsReported`), which is out of the prover's reach. `SessionLinkImplemented` is proved under the hypotheses
above only: it is not true for all constants, since a callback that is
held up while `SeqMod` frames pass writes a frame that counts as new. And the two runs that end in a
violation, which show a behaviour and not a property. Every other property of the runs is a theorem.

## 5. Not modelled, and why

- Allocation in `frame_arq_create`, `frame_arq_create_za` and `frame_arq_destroy` and the NULL checks: they decide
  whether a handle exists, and nothing else.
- A chance match of a CRC-32, and the CRC's arithmetic.
- What an ACK of one session does in the next: the old read loop may hold one, and the ARQ of `SessionLife` has no sequence numbers. `FrameArqReset` is about stale frames on the line.
- Of the session's life: bytes that the read loop has in `_rx` when it ends; the synchronisation context, by way
  of which an application may get its events on a thread of its own; completion callbacks of an old handle
  that free their `NativeOverlapped` on the new `_boundHandle`; a loop that is in
  `DispatchValidFrame` during `Close` and `Open` is modelled, what it reads from the new handle afterwards is one more reader.
- Win32 declarations, pinned buffers, the enumeration of ports and the log buffer: I/O,
  or one append under one lock.
- The console's parsing, `HELP`, `LOG`, `QUIT`; pin modes; `TEST_CORRUPTION` in the firmware, which
  damages frames as `GetCrcError` and `Fault` do.
- The regular expressions of the generators, the names they form and the layout of their text. The message definitions of `interface.h`
  do not have the fields that `Program.cs` and `main.cpp` use at this commit.

### Differences between text and code met while modelling, without a run

Of the library and the demo:

- `README.md` 5: "corrupt or missing frames are detected, and delivery is retried until it succeeds". Any bytes with the right CRC are a frame (`frame_arq.c`
  102-107, 174), those of a payload too. If a payload is a whole frame, as in a program that forwards captured frames, and the frame around it loses one marker byte, the
  reader drops the rest of the outer header, finds the inner frame, delivers it and acknowledges its seq: where that is the seq of the outer frame, the sender is free and
  its message lost. A discard in the middle of the outer marker does the same. `NoFrameInside` is the condition of `LinkRefinement` for this reason.
- `frame_arq.h` 152-153: "Both ends should reset so sequences realign". They realign only if
  nothing of the session before is on the line or in the FIFO: a stale frame with seq 0 is delivered in the new
  session. `ResetRealigns` states the condition under which the sentence holds.
- `README.md` 85 and `main.cpp` 205 say that a corrupt frame is NACKed. If the damage is in the
  length, `frame_arq_get` returns `FRAME_ARQ_ERROR_OVERFLOW` and writes nothing (`frame_arq.c` 202-205): the
  sender's timer is what recovers.
- `frame_arq.h` 121: `frame_arq_discard` "discards the next waiting (incoming) frame". It sets
  `byte_count` to 0 (254-262): a frame of which no byte was read yet is delivered afterwards.
- `README.md` 178, of a noisy line: the session's reader is kept out of step like the library's in
  `bytes_locked`, by a frame that ends in *any* byte from 128 up, because `StateMachine` drops the
  byte that breaks a marker (`EspSerialSession.cs` 93-104). `bytes` shows that it recovers otherwise.
- `Program.cs` 281-283: `FrameError` "fires only when the transport gives up". The session goes on
  retransmitting (`EspSerialSession.cs` 592-610), and the request may be served after it.
- `main.cpp` 71-73: one response slot is enough for a peer that "waits for each reply ... (as the demo PC does),
  so the ESP never has two responses in flight". The console also stops waiting on `FrameError` and on its watchdog;
  it asks again, and `handle_command` builds a response over one that is not put. `PatientIsNotOverwritten`
  states the condition under which it does not happen, and `Answered` that the wait ends nevertheless.

Of the session (`EspSerialSession.cs`):

- `README.md` 125: "recover by reconnecting (which resets the sequence for a fresh session)"; 606: "only an ACK or Close() ends it". A callback takes the retained
  frame under `_arq` and writes it after the unlock (598-608). In between the session may end and the next `Open` begin: the old message goes out on the new handle, under a
  seq of the old session. `SessionsAreApart` says how much holds: only what a thread had in hand already.
- 903-905: "OnConnectionError is idempotent, so firing here in addition to the loop paths above is harmless". It looks at `_connErrorFired` and sets it without a
  lock (375-376): the thread of a failed write and the work item of `OnSuspend` may both find it not set, and both raise the event.
- 343: "port is closing/closed - silently drop the write". `Close` leaves the disposed handles in place, not null, and sets `_closing` back (829-831). A `Send` after it throws `ObjectDisposedException`, having
  made its frame outstanding and started the timer, whose callback throws the same where nobody catches it: the process ends (`crashed`).
- 606, of the ack timer: "never stops on its own; only an ACK or Close() ends it". If `AckTimeout` is set to 0 while a
  frame is in flight, the callback finds no timeout and returns without starting the timer, and setting
  `AckTimeout` back starts nothing. `TimerGuards` speaks of a timeout that is left alone.
- `Close` called twice at once: the second may set `_closing` in the session opened meanwhile, whose loops end without
  an event. The model ends there (`overlapped`).
- A handler of `ConnectionError` that calls `Close` in the part of the status task that runs before its first await waits for that
  task, which is itself (817-820); `Release` is never enabled there.
- An `Open` that throws after `CreateFile` leaves `IsOpen` true and no loops, and a second `Open` returns at once.
- A write that fails or is aborted disposes of the session (299); `Open` works afterwards, but `_disposed` suppresses its events.

Of the generators and what they emit:

- Slots of a C# list without an element are cleared at the largest size of their struct (cs 815-821), and read, in variable
  mode, at their smallest; the clearing throws where the span is short. `RoundTrip` and `CutIsRefused` leave these messages out (`HasGap`).
- A `string` of C# with a NUL inside is written whole. C, and in fixed mode C# too, reads it up to the NUL; C# in variable mode reads all of it. `Shows` says so.
- The text above `SizeOfStruct` says "the actual wire size of this instance" (cs 888), "for all declared elements" (912): the elements
  that are there are summed. `SizeIsActual` asks it of full lists only (`ShortList`).
- In variable mode the length of a `char[N]` with more than N bytes of UTF-8 is cut to N, and `GetBytes` then throws
  (cs 763-771); in fixed mode `Encoder.Convert` throws if not one character fits.
- `TryRead` of a stream asks for `StructMaxSize` bytes, whatever the size of the message (cs 1034-1041), so that it reads
  messages of fixed size only. `RoundTrip` asks no more of it.
- A prefix of 32 bits is cast to `int` (cs 631, 655-657): from 2^31 on it is negative, passes the comparison, and `Slice` throws.
  `ReadersAgree` leaves out structs with such a string. For a `wchar_t` array the length is multiplied by 2, as an `int` too: the product may wrap
  around to a length that is there, and a text longer than declared is returned. `InBounds` leaves these arrays out, for C# (`HugeWide`).
- A C# `char` for a C `char` is read with its sign extended; `Messages` compares the bits on the wire.
- A `wchar_t` or `long` is read by way of an `int16_t *` or `int32_t *`, which is another width on some compilers.
- Types with a blank or a capital letter in their name are written as calls that do not exist (c 425-460), so that the output does not compile.
- The size error comes after the `.h` was opened (c 1258-1264): it is empty, and the `.c` is of an earlier run. The build goes on, and fails
  to compile. `BuildOfOnePiece` says when what it compiles belongs together. It does not if the `.c` file cannot be opened, for one that is read-only: the new `.h` is written by then, the run exits with 1, and the
  build compiles both. The same comes of a run by hand whose `--out` or `--out_h` names one of the two directories only, and of an interruption between the closing of the `.h` and the opening of the `.c`; these are the exceptions of the property.
- Without options a run by hand writes both C files beside the header, in `include/`, and the build goes on with those of `src/` and `include/`.
- `SerialFrameDemo.csproj` 20 passes `--lengths` to the C# generator, which refuses it as an unknown option (cs 1276-1277).
- An enum of more than 64 bits gets a type of 64; `010` and `- 5` pass the regular expression and not `int(..., 0)`; an enum with the name of a scalar
  is taken for the scalar.

## 6. What could be added

- Two calls of `Close` at once, and the bytes left in `_rx` between two sessions.
- Pin modes and `QUIT` of the console.
