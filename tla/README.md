# Verification of smpp

This directory specifies the C++ library `smpp` (the headers in `src/include/smpp`) in TLA+,
model-checks it with TLC on small instances and proves theorems about it with TLAPS for every value
of the constants. Line numbers refer to the files in `src/`. `PROJECT.json` lists, for every
definition that stands for code, the lines it stands for, and the hazards with the properties
that would catch them.

## 1. The system

The library lets an application exchange SMPP PDUs over one TCP connection. Everything is
header-only and built on Asio: a `session` owns the socket, and its operations are stackless
coroutines whose handlers run one at a time on the executor of the session. Between two yields a
handler is not interrupted; between two handlers anything may happen.

| component | source | state | operations |
|---|---|---|---|
| session, sending half | `net/session.hpp` 213-424 | `send_buf_`, `send_cv_`, `sequence_number_`, one suspended coroutine per operation | `async_send` of requests and responses, `async_send_command`, `async_send_unbind` |
| session, `receive_op` | `net/session.hpp` 427-607 | `receive_buf_`, `pending_enquire_link_`, `needs_post_`, the parsed header | `async_receive`, `shutdown_socket` |
| receive buffer | `net/detail/static_flat_buffer.hpp` | the array and `in_`, `out_`, `last_` | `prepare`, `commit`, `consume`, `clear`, copy and move |
| frame header | `net/detail/header_serialization.hpp` | none | `serialize_header`, `deserialize_header` |
| PDU serialization | `common/serialization.hpp` | the buffer that a codec advances | field codecs, `serialize_to`, `deserialize` |
| PDUs | `pdu/*.hpp`, `net/pdu_variant.hpp` | their members | 21 aggregates with `pdu_meta` |
| optional parameters | `param/oparam.hpp` | a map from tags to strings | the constructor from bytes, `serialize`, setters, `erase`, getters |
| bit fields, enumerations | `param/*.hpp` | their members | `from_u8`, `operator uint8_t` |
| two sessions | `net/session.hpp` | one session at each end, TCP between them | the protocol of requests, enquire_links and unbinds |
| short message utilities | `utility/short_message.hpp` | `headers_` of a `user_data_header` | `set_multi_part_data`, `get_multi_part_data`, `serialize`, `pack_short_message`, `unpack_short_message` |
| data coding, unicode | `utility/*unicode*.hpp`, `param/data_coding.hpp` | tables | `extract_unicode`, `convert_gsm_to_ucs2`, `convert_ascii_to_ucs2` |
| errors, concepts, variants | `net/error.hpp`, `common/*.hpp` | none | type-level code |
| examples, tests, tools | `example`, `test`, `tools` | - | users of the library |

How they interact:

* All senders of a session share `send_buf_`, which doubles as a lock: an operation that finds it
  non-empty waits on `send_cv_`, a timer that never expires. The operation whose write ends clears
  the buffer and wakes one waiter with `cancel_one`.
* `receive_op` is itself a sender. It answers `enquire_link` and `unbind`, and sends `enquire_link`
  and then `unbind` when nothing arrives for an interval, in competition with the application.
* Two sessions face each other over TCP. Neither reads while it waits to answer, and each closes its
  socket on the other's unbind, so that the protocol depends on how much TCP holds between them.
* An application puts a user data header and a converted text into the `short_message` of a PDU, and
  takes both out again at the other end.
* `receive_op` reads into the receive buffer, takes frames from its front, and hands their bodies to
  `deserialize`; `async_send` lets `serialize_to` write behind a header whose length it fills in last.

What is hard here, and what makes each part correct:

* **Sending half.** A wake-up (`cancel_one`) and a cancellation end a wait in the same way; a woken
  operation has to look at the buffer again; a write may stop half way through a frame; serialization
  may throw after the wait. Correct means: one writer at a time, on bytes that nobody changes; the
  peer sees whole frames; numbers identify requests; every wake-up is passed on; every send completes.
* **`receive_op`.** Reads cut the stream anywhere; the header of a command is read before an
  asynchronous answer and consumed after it; cancellation arrives at each stage; two silent intervals
  decide about the session. Correct means: it stays at frame boundaries, handles every frame once
  and in order, answers what it must, and gives up exactly the sessions that are silent.
* **Receive buffer.** Offsets survive `consume`, contents move to the front in `prepare`. Correct
  means: a byte queue that never leaves its array.
* **Two sessions.** Both may send, answer, unbind and close at any time. Correct means: an unbind ends
  both ends, and what was written before the answer to an unbind is received.
* **Codecs.** Two directions written separately, with limits on both sides. Correct means: what is
  sent is received; a damaged body is not taken for another PDU; what is received may be sent on.
* **Short messages.** Packing and unpacking have limits of their own; parts are stored by one function
  and searched by another; `char` may be signed; a conversion remembers an escape. Correct means: headers
  and text arrive, nothing of an accepted message is dropped, a gateway can send on what it received.

## 2. The modules

| module | models | extends or instantiates |
|---|---|---|
| `SendPath` | the sending half, the socket and a bounded TCP window | - |
| `Session` | `receive_op`, its timer and its cancellation, a conforming peer | `SendPath`, extended and instantiated |
| `Pair` | a session at each end of a connection | `Session`, extended for one end and instantiated for the other |
| `ByteQueue` | what the receive buffer promises | - |
| `FlatBuffer` | `static_flat_buffer` in bytes and offsets | refines `ByteQueue` |
| `Serialization` | field codecs, optional parameters, header | - |
| `Pdus` | layouts and limits of the 21 PDUs, `serialize_to`, `deserialize` | `Serialization` |
| `FrameCodec` | a PDU that is edited, sent, damaged, received and passed on | `Pdus` |
| `Unicode` | the alphabet of a data coding, conversion to UCS-2 | `Serialization` |
| `ShortMessages` | `user_data_header`, packing and unpacking | `Unicode` |
| `Messages` | a short message from the application to the far end, and through a gateway | `ShortMessages` |
| `MCSendPath`, `MCSession`, `MCPair`, `MCFrameCodec`, `MCMessages` | instances for TLC | the module of that name |
| `SendPathProofs` | theorems about the sending half | `SendPath` |
| `SessionProofs`, `SessionStreamProofs` | theorems about a session and its stream | `Session`, `SendPathProofs` |
| `PairProofs` | theorems about two sessions | `Pair` and `SessionStreamProofs`, and `SessionProofs` for the peer |
| `FlatBufferProofs`, `SerializationProofs` | theorems | the module of that name |
| `FrameCodecProofs` | theorems about a PDU on its way, and what `deserialize` returns | `FrameCodec`, `SerializationProofs` |
| `MessagesProofs` | theorems about a short message on its way, and what the loops over headers and texts compute | `Messages`, `SerializationProofs` |

### SendPath

Each caller in `Callers` has at most one operation outstanding; several operations of one
application are several callers. `pc[c]` is where its coroutine is suspended: `queued` (in
`send_cv_.async_wait`), `woken` (that wait has ended, its handler is queued), `writing` (in
`async_write`), `written` (the write has ended, its handler is queued), `done`. `frame[c]`,
`cancelled[c]`, `ec[c]` and `sent[c]` are the rest of the coroutine.

| action | code |
|---|---|
| `Start` | the initiation, up to the first yield: number, `while (!send_buf_.empty())`, serialization, `async_write` |
| `Resume` | the handler of the wait: the test of `self.cancelled()`, the loop again |
| `WriteSome`, `WriteError`, `WriteTimeout` | Asio and the operating system: one unit, a dead socket, `cancel_after` |
| `WriteHandler` | what follows `async_write`: the test for a timeout of a command, `send_buf_.clear()`, `cancel_one`, completion |
| `CancelQueued`, `CancelWoken`, `CancelWriting`, `CancelWritten` | cancellation signals at each stage |
| `PeerRead`, `SocketReset`, `ShutdownSocket` | the environment |

A frame consists of `HeaderLen` units and, for a request or response, `BodyLen` more. Units stand
for pieces of a frame that the kernel accepts at once; a write that has transferred some units and
not others is an interrupted frame.

### Session

`Rx` is the caller that stands for `receive_op` in its role of a sender. `rx` is where `receive_op` is
suspended; `loop` and `sending` with a finished inner operation are points inside a running handler,
and `Inline` lets nothing else happen until `receive_op` has left them. `receive_buf` is a sequence of
units: what `FlatBuffer` is shown to be. The peer sends whole, well-formed frames, answers what it has
read whole and never numbers two frames alike; `PeerMay` restricts it. `consumed` and `silence` are
history variables that no guard reads. `consumed` counts the frames that carry a number of the peer's.
`silence` says what of "an interval without data, an enquire_link that was handed to TCP whole, another
such interval" has come to pass: 1 when an interval has ended without data, 2 when after that the write
of an enquire_link has ended with success and its units are the last that TCP was given, 3 when a second
interval has ended; any data that is read sets it back.

`FramesHandledOnce` is about each step and about frames of all six kinds. `Stream` is what the peer has sent
and `receive_op` has not consumed. A step either deals with the frame at its head (reports it, has
answered it, or skips it, each as the kind of the frame asks, and removes just its units), or leaves the
stream alone and reports and answers nothing, or is the peer that adds a frame at the end. A frame that is
delivered without being consumed, skipped without being answered, or lost with a cancelled read is
none of these.

`ReadHandler`, `Loop`, `AfterSend` and `Posted` are the segments of the coroutine between its yields.
`AfterSend` decides by the command it has sent, because the code continues behind the `yield` that
sent it.

A frame may be longer than `Capacity`: then `StartRead` finds no room, and the read completes with no
bytes, as `async_read_some` does with an empty buffer.

`Sender` is `SendPath` with its freest environment: every caller may send again, any reply may be
sent, and the socket may be closed at any time. `ImplementsSendPath` says that a session is a behaviour
of it, so that `receive_op` breaks none of the rules by which the callers share the buffer.

### Pair

The second session is an instance of `Session` whose variables have the prefix `peer_` and whose `wire`
is the first one's `inq`, and the other way round. The abstract peer of `Session` takes no part. TCP
tells one end that the other has closed its socket, either behind all data or, when the other end left
data unread, ahead of it (`Closed`). A handler that is running finishes before anything happens at the
other end.

### FlatBuffer and ByteQueue

Pointers are offsets with the object whose array they point into (`target`). `ReadSome` is the socket
writing into prepared memory. `Contents`, the bytes from `begin()` to `end()`, is the refinement
mapping: `prepare` and the read stutter, `commit` appends what was read, `consume` and `clear` drop
from the front.

### Serialization, Pdus, FrameCodec

A codec is a record of its kind and limit, a PDU a sequence of members with their codecs. A
deserializer returns what it took and the rest, or `Thrown`. A 32-bit number is a pair of 16-bit
numbers. `FrameCodec` edits up to `Edits` members or optional parameters of a default-constructed PDU,
sends it, lets one damage happen to the body on the way, and optionally sends what was received again.

### Unicode, ShortMessages, Messages

`ShortMessages` has the operations of `user_data_header` on its list of pairs, and the two functions on
short messages; a thrown exception is a result that is not `ok`. Whether `char` is signed is a parameter,
because the code widens chars (`Widened`, `Combined`). `Messages` goes the way of one message: parts are
set up to `Sets` times, the text is converted or not, packed, carried over the codecs of `esm_class` and
`short_message`, unpacked, and by a gateway packed again. Short messages of other peers enter at the
wire.

## 3. The runs

| run | asks | bounds | size |
|---|---|---|---|
| `send_safety` | one writer, whole frames, distinct numbers, under cancelled waits, timeouts, resets, shutdown and failing serialization | 3 callers, one operation each; frames of 2 and 3 units, 2 in flight; 3 numbers | 87,745 states |
| `send_completes` | types, wake-ups are not lost, every send completes | 3 callers, one operation each; numbers wrap at 2; waits and writes are cancelled, the socket is reset | 98,277 states |
| `send_unserializable` (violation) | does every send complete when serialization may fail? | 3 callers | |
| `flat_buffer` | pointers stay inside; implements `ByteQueue` | 4 bytes of capacity, 3 byte values, two places to live in | 16,200 states |
| `flat_buffer_moved` (violation) | do the pointers point into the object after a move? | 2 bytes | |
| `session_safety` | `receive_op` stays at frame boundaries, deals with every frame once and in its turn, answers before it reports `unbinded`, gives up only after silence, an enquire_link and silence again; one writer with `receive_op` among the senders | a caller, 2 frames of the peer of 2 or 3 units and its answers, 3 on their way, a buffer of 4; waits are cancelled, both kinds of cancellation of `async_receive`, timeouts | 4.6 million states, 2 minutes |
| `session_answers` | every frame is handled, and once; every enquire_link is answered | 2 callers that send or unbind and are cancelled, 2 frames of the peer and its answers | 244 thousand states, 1 minute |
| `session_silence` | a silent peer is given up; a session implements `SendPath` | 2 callers, 1 frame of the peer that just fits the buffer, timers expire, the socket is reset | 91 thousand states |
| `pair` | an unbind ends both ends and loses nothing | 2 callers at each end, requests and unbinds; 3 units each way | 660 thousand states, 2 minutes |
| `codec_frames` | round trip, truncation, forwarding | 21 PDUs, two edits each, every cut position, every altered position, three tails | 271 thousand states |
| `messages` | headers and text arrive, parts are kept, nothing is dropped, a gateway can forward, conversion by parts | 23 texts around every limit, 4 data codings, 5 settings of the parts, set up to twice, 21 foreign messages, both signs of `char` | 471 thousand states, 1 minute |
| `message_reference` (violation) | is the reference number read as it was set? | those of `messages` | |

Why these bounds are enough. The protocol of the send buffer is between the one who writes, the one
who was woken and the one who waits behind it: three callers. Two units per header and three per body
frame are the least for which a write can stop inside a header and inside a body. The three
numbers of `send_safety` are just enough for its three callers, so that a number that is skipped or
taken twice makes two of them collide; in `send_completes` the numbers wrap at 2. A receive buffer of 4 units holds a
frame of 2 or 3 with a part or the whole of the next, so that a read ends inside a header, inside a body,
between two frames, or brings several, and a frame that is already buffered is delivered by a posted
handler; two frames are what it takes to consume one wrongly because of the other. In `session_silence`
a frame fills the buffer exactly. In `pair` TCP holds as much as both callers of an end write, less one
unit: the variations show what happens with less. Four bytes of
`FlatBuffer` hold contents at the front, in the middle and at the end, with and without room behind
them. The values of `MCFrameCodec` are, for each codec, the lengths just below and at its limit, and for
strings with a length byte 254 and 256 (where the length byte wraps); two edits cover each pair of
members, which is what an order of members or a lost terminator could confuse. The texts of
`MCMessages` have the lengths at which a message with no, one or two headers of either kind just fits,
as it is or doubled by the conversion; the references are at and around 127, 255 and 32767.

`CHECK_DEADLOCK FALSE` is given where callers have a finite number of operations, or a session ends,
and the system really stops.

Instances and preconditions that matter:

* `FramesWhole` is checked without cancelled writes. Terminal cancellation of a write is documented by
  Asio to leave the stream in an unspecified state, and the application that emits it has to give the
  connection up; the code's own interruption, the timeout of a command, is included.
* `session_safety` leaves out the cancellation of writes for the sake of its size, and no caller unbinds
  there: an unbind_resp is handled in `session_answers`, an enquire_link_resp in `session_safety`. The
  theorems about the properties of `session_safety` hold for every set of cancellation points and any
  menu. With all four cancellation points, but without `"answer"`, the run passes with 3.2 million states.
* `NumbersIdentifyRequests` compares requests within one round of the counter, with fewer operations
  than numbers. Nothing in the code excludes that a number is taken again, after the counter has gone
  all the way round, while an earlier operation still holds it (223).
* `NullFree` in the codec properties: a null character inside a string with a terminator ends it.
* `TruncationDetected` leaves out the empty body, which `deserialize` takes for a default-constructed
  PDU on purpose (`common/serialization.hpp`).
* `NoLostWakeup` and `EverySendCompletes` hold without the cases of the findings below.
* `PartsKept` leaves the reference number out where the finding of `message_reference` changes it.
* `ForwardedFits` is about a gateway that neither converts the text nor adds a header; `converted` records
  the conversion. To compare the texts instead would not do: an empty text behind a header that fills
  the message is converted to itself, and does not fit any more as UCS-2, whose limit is 140 bytes.

### Fairness

`Fairness` and `SFairness` are weak fairness of single steps:

* handlers that are queued run (`Resume`, `WriteHandler`, `ReadHandler`, `Posted`, `Loop`,
  `AfterSend`): the executor of the session runs what was posted to it;
* a write or a read that can proceed does (`WriteSome`, `ReadSome`, `WriteError`, `ReadError`): the
  reactor reports readiness;
* the peer reads (`PeerRead`, `PeerReads`) where the instance lets it: TCP and a live peer;
* the timers of the enquire_link interval expire, where the instance has timeouts;
* a caller that has received a PDU receives the next one, as the documentation of the session asks.

* both sessions of `Pair` have this fairness, and TCP reports the end of a connection (`Disconnected`,
  `PeerDisconnected`).

Nothing makes a caller start or cancel an operation, and nothing makes a fault happen. Weak fairness
suffices for the peer's and the kernel's steps because nothing but their own step, or the end of the
write or session, disables them. The variation with a looping caller shows where even all of that is
not enough.

## 4. What is proved

| theorem | says | argument |
|---|---|---|
| `SendPathProofs!TypeCorrect` | `TypeOK` is an invariant of `SendPath` | inductive as it stands; one lemma per action |
| `SendPathProofs!BufferOwnership` | `WriterOwnsBuffer` | `IInv`: `TypeOK`, `FramesNamed`, `WriterOwnsBuffer`, `QueueMatchesWaiters` |
| `SendPathProofs!WakeupsNotLost` | `NoLostWakeup` | `IInv`, with an assumption on faults |
| `SendPathProofs!FramesStayWhole` | `FramesWhole` | `FInv`: `Adjacent`, and `WInv` of the last unit: `IInv`, `WritersFresh`, `PositionAt` |
| `SendPathProofs!NumbersIdentify` | `NumbersIdentifyRequests` | `NInv`: `IInv`, `NumbersCount`, `NumbersTimed`; no more operations than numbers |
| `SessionProofs!SessionTypeCorrect` | `STypeOK` | `SIInv`: `IInv`, `RxTypes`, `RxStages` |
| `SessionProofs!SessionBufferOwnership` | `WriterOwnsBuffer` of a session | `SIInv`, through the lemmas of `SendPathProofs` |
| `SessionProofs!SessionWakeupsNotLost` | `NoLostWakeup` of a session | `SIInv`, with the assumption of `WakeupsNotLost` |
| `SessionProofs!SessionFramesStayWhole` | `FramesWhole` of a session | `SIInv` and `FInv`, with the assumption of `FramesStayWhole` |
| `SessionProofs!SessionImplementsSendPath` | `SSpec => ImplementsSendPath` | every step is a `SenderStep`, which is a step of `Sender` or a stutter |
| `SessionProofs!GivenUpOnlyAfterSilence` | `UnbindOnlyAfterSilence` | `GivenUp`: at each stage of `receive_op`, what of the history has come to pass; `Answered` for the enquire_link that was handed over, `Counted` for the steps |
| `SessionProofs!UnbindIsAnswered` | `UnbindAnswered` | `Progressed` and `Answered`: what a write that ended with success has handed to TCP |
| `SessionStreamProofs!StreamStaysInSync` | `StreamInSync` | `StreamInv`: `WholeFrames` and `InOrder` of the stream |
| `SessionStreamProofs!EveryFrameHandledOnce` | `FramesHandledOnce` | the same invariant and `SIInv`: how each step changes the stream and what it reports |
| `PairProofs!NothingLostInUnbind` | `UnbindLosesNothing` | `PairInv`: what both ends know of themselves, and what is between them |
| `PairProofs!PairStreamInSync` | `StreamInSync` when the peer is a session | the same invariant |
| `FlatBufferProofs!BufferInBounds` | `InBounds` | inductive as it stands |
| `FlatBufferProofs!BufferIsByteQueue` | `Spec => IsByteQueue` | every step of the buffer is a step of the queue or a stutter |
| `SerializationProofs!COctetStrRoundTrip` | a null-terminated string is read back | the least null of the buffer is its terminator |
| `SerializationProofs!U8OctetStrRoundTrip` | a string with a length byte is read back | a limit that is a byte makes the narrowing harmless |
| `SerializationProofs!U8RoundTrip`, `EsmClassRoundTrip` | the same of single bytes | directly |
| `SerializationProofs!HeaderRoundTrip` | `deserialize_header` reads what `serialize_header` writes | the four bytes of each number are where they are looked for |
| `SerializationProofs!OparamCut` | the constructor of `oparam` reads what `serialize` writes, and some of it when it is cut | `ParamsReadBack`: induction over the parameters; `Overlap`: where the cut lies |
| `FrameCodecProofs!DeserializeType` | what `deserialize` returns of any bytes is of its type, and `serialize_to` accepts it | `FieldsRead`: what the fields before a position leave |
| `FrameCodecProofs!DeserializeCut` | `deserialize` reads what `serialize_to` writes, and does not mistake it when it is cut | `FieldsKept`: the same, and that the bytes left are those of the fields behind |
| `FrameCodecProofs!RoundTripHolds` | `RoundTrip`, of frames whose length has 32 bits | `CInv`: `Types`, `Forwards`, `Sends`, `Receives`; `DeserializeCut` |
| `FrameCodecProofs!TruncationDetectedHolds` | `TruncationDetected`, of the same frames | `CInv` and `DeserializeCut` |
| `FrameCodecProofs!ReceivedIsSendableHolds` | `ReceivedIsSendable` | `CInv` and `DeserializeType` |
| `MessagesProofs!PartsReadBack` | `get_multi_part_data` returns what `set_multi_part_data` stored | the header that was added is the only one of its tag |
| `MessagesProofs!MessagesKept` | `MessageKept` | `MInv`: `MessagesTyped`, `InTransit`, `Arrived`, `Untouched`, `OwnHeaders` |
| `MessagesProofs!NothingIsDropped` | `NothingDropped` | `MInv`, and what the two loops over a foreign header leave |
| `MessagesProofs!GatewayFits` | `ForwardedFits` | `MInv`: what was unpacked packs to the length it had |
| `MessagesProofs!PartsAreKept` | `PartsKept` | `MInv`: the header that is found is one of the settings |
| `MessagesProofs!TextsByParts` | `ConvertedByParts` | the conversion is a function of each septet and the one before it |

They hold for any callers, menu, faults, cancellation points, frame sizes, window, counter bound,
capacity and bytes that the named assumptions `SendPathAssumption`, `SessionAssumption` and
`FlatBufferAssumption` admit, and for any texts, data codings, parts and foreign messages that
`MessagesAssumption` admits: those are byte sequences and numbers of the width of their C++ types.
`FrameCodecAssumption` says the same of the values that are assigned to the members of a PDU, of tags,
numbers and bytes: there may be any number of them, and of edits.

`WriterOwnsBuffer` alone is not inductive: a waiter is about to start a write, so one has to know that
a writing operation has a named frame (`FramesNamed`: then the buffer is not free) and that a
`cancel_one` makes a waiter, and not a writer, `woken` (`QueueMatchesWaiters`: the queue of the timer
holds exactly the operations at `queued`, each once).

`WakeupsNotLost` assumes that nothing is unserializable and that no operation is cancelled after it
was woken. Both assumptions are necessary: the first is the finding of `send_unserializable`, the
second a variation below. The theorem thus says that these two are the only ways to lose a wake-up.

`FramesStayWhole` assumes that no write is cancelled (`CancelPoints \cap {"writing", "written"} = {}`),
as the run does. `FramesWhole` says nothing of the writer, so the invariant adds where he is:
`PositionAt(u)` relates `u`, the last unit that was handed to TCP, to what the writer has sent of his
frame, and says how a write has ended. `WInv(u)` and its lemmas are stated for any unit and for the
steps of a caller in any surroundings, so that they serve a session, whose units its peer takes out of
`wire`, and the second session of a pair, whose units are consumed by the first. The interesting case is a command whose write timed out half way: the frame
stays incomplete, and the proof has to show that the buffer is never freed again.

`NumbersIdentify` assumes `FewOperations`: one operation for each of finitely many callers, and no fewer
numbers than callers. Then `sequence_number_` is the number of those who hold a number, and the numbers
they hold are the first ones. A request gets its number when it is written and a command when it is
created; `NumbersTimed` says who has one when.

In a session, `SenderSteps` shows that every step of `SNext` is, to the sending half, one of the steps
of its callers (`SenderStep`): this carries the invariant of `SendPathProofs` over and is the refinement
to `Sender` at the same time. `RxStages` says what `receive_op` knows at each of its yields, in
particular that the frame it is answering still stands at the front of the buffer when the answer has
been sent: it is consumed only then, although other handlers run in between.

The assumptions of `SessionWakeupsNotLost` and `SessionFramesStayWhole` are those of the theorems about
the sending half. What a session adds is allowed: the timeouts of commands, and `receive_op` closing the
socket under somebody's write.

`StreamInSync` is not inductive. After a frame is consumed one has to know that what follows begins a
frame, and that is only certain if the frame is in the stream completely. `WholeFrames` therefore says of
every unit of the stream (buffer, what a read is bringing, and what is on its way) that it stands in
its frame, and that a frame begins behind it if it is the last one. This is a statement about positions;
it needs no induction over the stream. `InOrder` adds that the numbers in the stream are those after
`consumed` up to `peer_seq`, in this order.

`FramesHandledOnce` needs both for the units that `consume` removes: that the frame at the head is in the
buffer whole, so that what is removed is that frame (`ConsumesHead`). That it is the right frame to report
or to have answered is `RxStages`: while an answer is being sent the frame it answers stays at the
head, and while a delivery is posted the head is a request or a response. `DeliveryDeals` and
`AfterSendDeals` are the steps that deal with a frame, `NothingHandled` the others.

`UnbindOnlyAfterSilence` speaks of what was handed to TCP. `GivenUp` ties `silence` to the code's only memory of
all that, `pending_enquire_link`: when it is set and `receive_op` is about to read, 2 has been reached. This
holds because `AfterSend` goes on behind an enquire_link only when its write has succeeded, and
`Answered` says that a write of `receive_op` that has ended with success has given TCP the whole frame, with
nothing behind it.

`UnbindLosesNothing` is not inductive either. That nothing is left to read when the answer to our unbind
is consumed depends on what the other end may still write, and that the answer is read as one depends on
its frames being whole. `PairInv` consists of

* `SIInv` of both ends. What `SessionProofs` shows of a session holds of the peer too: `PeerP` is an
  instance of that module with the variables of the second session, and the lemmas `Same...` say that the
  constants and operators of `Pair`'s `Peer` and of `PeerP` are the same;
* `CommandsNumbered` and `Answerers` of the ends: only `receive_op` sends an `unbind_resp`, and it waits
  for what it sends;
* `CutFrames(Stream)` and `WInv(PeerLast)` of the peer: units stand in their frames, of which only the
  last may be cut, and the peer's writer continues where the stream ends. Unlike the abstract peer of
  `Session`, a session may leave a frame incomplete, when its write times out or its socket closes;
* `AnswersLast`: behind a whole `unbind_resp` there is nothing, and the peer is about to learn that it is
  written or has ended (`AnswerWritten`). `NothingAfterAnswer` is the core of the proof: an
  operation that waits for the buffer is woken when the answer's write ends, but `receive_op` closes
  the socket in the same handler (545-549), before the woken one can write;
* `UnbindedQuiet`: when we have reported `unbinded` upon the answer, the stream is empty and stays so.

The theorems about a pair assume that no write is cancelled, as `FramesStayWhole` does, and that callers do
not send an `unbind_resp` themselves (`"unbind_resp" \notin Menu`). The second is what the public interface
allows: `async_send` takes PDUs that are no session commands, `async_send_unbind` sends an unbind, and
`async_send_command` is private (182-190). The peer of a pair has the constants of the first session.

`MessageKept` and the other properties of `Messages` rest on what four loops compute: the constructor of
`user_data_header`, `serialize`, and the conversion of a text in both its branches. The models have them
as recursive functions over a position, and what such a function returns is shown by induction. The
theorem for it, `NatSetInduction` in `SerializationProofs`, is stated of a set of numbers, not of a
predicate, and follows from `NatLessThanWellFounded` in first-order logic, so that each use names its set. Two
facts come before each induction:

* that the function exists, because the library's theorems about recursive definitions take an operator
  (`UdhLoopExists`, `GsmLoopExists`): one for the first `n` positions is extended to the next one;
* what the loop keeps. `Sound` is the headers that a length byte can describe; a sequence of these is read
  back as it was written (`UdhParsedBack`), and whatever the constructor reads is one (`UdhReads`).

`MInv` says of every phase what the message is then. `InTransit` relates the bytes on their way to the
headers and the text they were made of, `Arrived` those that were read to the bytes, and `Untouched` says of
a gateway's message that it still fits: the constructor may have stopped before the end of a
foreign header, so that what was unpacked is not what was packed, but it is never longer. `OwnHeaders`
keeps each header of the application with the setting it came from; `get_multi_part_data` takes one
of them, whatever their order.

The theorems about `FrameCodec` have three layers. Each field codec is read back as it was written,
whatever follows, and throws when it is cut (`FieldCut`). The constructor of `oparam` reads each parameter
that `serialize` wrote, and never bytes of two of them as one (`OparamCut`). Over the fields of a PDU there is an induction as above: `FieldsKept` says of the turns of
`deserialize` before a position that they have failed, which they do only if bytes are missing, or have read
the members in front of it and left the bytes of those behind. It needs of a PDU that `meta()` lists its
members in their order, each once and with a codec, and the optional parameters last (`Formed`), which is
shown of each of the 21 headers; `IdsDistinct` and `TypeOfIs` show that `command_id` finds the type again.

`RoundTrip` is not inductive: when a PDU is received one has to know what the bytes on their way are. `CInv`
says of a PDU that has been sent that its header is that of `async_send`, with the length of the body as it
arrives (`HeaderSent`), and that the body is what `serialize_to` wrote or, when it was cut, a beginning of it
(`BodySent`); of one that was received that it is what `deserialize` returns (`Receives`), and of one that is
passed on that `serialize_to` accepts it (`Forwards`).

`RoundTrip` and `TruncationDetected` are proved of frames with `Fits(body)`: header and body have less than
2^32 bytes. This is not a matter of the proof. `command_length` has 32 bits, and an object may hold 65536
optional parameters of 65539 bytes each, so that the length of its frame would wrap; `async_send` does not
look at it. No such frame comes near what a session can receive, whose buffer has 128 KiB.
`ReceivedIsSendable` needs no such hypothesis.

Only model-checked: everything about liveness (`EverySendCompletes`, `EveryFrameHandled`,
`EnquireLinkAnswered`, `SilenceDetected`, `UnbindEndsBoth`), which is outside what the installed provers can
do. Every other property of the passing runs is stated by a theorem.

## 5. Findings

* **A failed serialization swallows a wake-up** (`send_unserializable`). `async_send` completes with
  `serialization_failed` without `send_cv_.cancel_one()`. If it had been woken, the operations behind
  it hang until another send ends its write.
* **A moved session has a dangling receive buffer** (`flat_buffer_moved`). The generated move of
  `static_flat_buffer` copies pointers into the array of the moved-from object.
* **A reference number changes where `char` is signed** (`message_reference`). `get_multi_part_data`
  widens a `char` to `uint16_t` (122, 134-136): a reference of 255 is read as 65535. The two members next
  to it have the cast that is missing here.

### Variations

Further behaviours of the code that contradict what one would expect are reproduced by changing
constants of an existing configuration:

* `send_completes.cfg` with `"woken"` among `CancelPoints`: an operation that was woken and then
  cancelled leaves without passing the wake-up on (258-260, 315-317, 379-381); `NoLostWakeup` fails.
* `send_completes.cfg` with `"timeout"` among `Faults`: a command whose write timed out leaves the
  buffer full (280-282), so that nothing follows the partial frame, and whoever waits hangs even when
  the connection is closed afterwards; `EverySendCompletes` fails.
* `session_silence.cfg` with `PeerMay = {}`, `MaxPeerFrames = 0`, `Callers = {rx, c1}`, `Window = 1`: a
  peer that does not read either is not given up. The write of a request has no timeout and `receive_op`
  waits behind it for the buffer, although "Upon an enquire_link timeout, operation completes with
  smpp::error::enquire_link_timeout" (`net/session.hpp` 158-159); `SilenceDetected` fails.
* `session_answers.cfg` with `Callers = {rx, c1}`, `Looping = {c1}`, `Menu = {"request"}`, `BodyLen = 0`,
  `MaxSeq = 1`, `PeerMay = {"read", "enquire_link"}`, `MaxPeerFrames = 1`, `InWindow = 1`,
  `Capacity = 1`, `CancelPoints = {}`: a caller that sends in a loop starves `receive_op`. `cancel_one`
  queues the waiter's handler, and the completion handler that runs right after it may take the buffer
  again. `README.md` 57 says that an active `async_receive` "would send and receive enquire_link messages
  and keep the session alive, so there is no need for user intervention"; `EnquireLinkAnswered` fails.
* `session_silence.cfg` with `BodyLen = 2`, `InWindow = 3`: a frame that is longer than the
  receive buffer makes `receive_op` spin (467-476): each read completes at once with no bytes, and the
  timer is started anew each time; `SilenceDetected` fails. With `Capacity = 3` it holds.
* `session_silence.cfg` with `PeerMay = {"read", "enquire_link"}` and `MaxPeerFrames = 1`: the timeout
  of an `enquire_link_resp` is ignored (528-531), the loop goes on, and the next enquire_link of
  `receive_op` waits for a buffer that nobody will clear; `SilenceDetected` fails.
* `pair.cfg` with `Window` and `InWindow` 1 or 2: both ends unbind, both `receive_op`s wait to answer
  behind a request whose write is blocked, because neither end reads while it waits (542);
  `UnbindEndsBoth` fails.
* `pair.cfg`: when both ends unbind at the same time, `receive_op` answers the peer's unbind and completes
  with `unbinded` (537-549) although ours was not answered, which the comment at 124-127 gives as the
  meaning of `unbinded`. Both ends do end, which is what `UnbindEndsBoth` says.
* `session_safety.cfg`: a total or partial cancellation of `async_receive` that is recorded while it
  sends an `enquire_link_resp` is reset before the next read (461-462) and has no effect: states
  with `rx_cancelled` are followed by a read without it.
* `messages.cfg`: `set_multi_part_data` adds a header each time, and `get_multi_part_data` prefers an
  8-bit reference to a 16-bit one whatever their order (94, 116-140): after two settings it may return
  the first. `PartsKept` only asks for one of them, and never a mixture.

## 6. Not modelled

* A frame of an unknown `command_id`, which `receive_op` delivers as an `invalid_pdu` (564-588).
  `FrameCodec!TypeOf` has the 21 identifiers only, which are those that the peers of the model send.
* The size of the receive buffer in `FrameCodec`: `Receive` takes a frame of any length, where the code
  reads through a buffer of 128 KiB (30, 467). What the buffer does to longer frames is a matter of
  `Session`.
* A completion token that initiates an operation later than at the call: a command takes its number when
  `async_send_command` is called (424), and its coroutine starts when it is initiated; `SendPath` has
  both in one step (`AsyncSendNumbered`), as every token does that initiates at once.
* What is lost when TCP resets a connection because the end that closes it has not read everything
  (547): `Closed` lets the reset overtake data on its way, which may be the answer to an unbind. The code
  cannot prevent it, and `UnbindLosesNothing` speaks of an answer that was received.
* The lifetime of C++ objects (the PDU captured by reference at 301), memory and exceptions from
  allocation.
* A `command_length` below 16: the peers here send well-formed headers. The body would end before it
  begins (561), and the pointer arithmetic on it has no outcome that could be enumerated.
* What an application does with several threads: a session is used from one executor, as Asio asks.
* `command_status`, tags and other enumerations beyond their underlying number; the texts of errors
  and of exceptions; completion tokens; concepts and other type-level code; examples, tests and tools.

## 7. Plan

Done: `SendPath`, `FlatBuffer` with `ByteQueue`, `Session` and its refinement of `SendPath`, `Pair`,
`Serialization`, `Pdus`, `FrameCodec`, `Unicode`, `ShortMessages`, `Messages`, and the theorems above.
What would add most from here:

* **Bytes under `receive_op`**: compose `FlatBuffer` and the header of `Serialization` with `Session` in
   place of the sequence of units, and show that the composition implements `Session`.
