------------------------------ MODULE Session ------------------------------
(***************************************************************************)
(* smpp::session (include/smpp/net/session.hpp): receive_op on top of the  *)
(* sending half.  receive_op is itself a sender: it answers enquire_link   *)
(* and unbind, and sends enquire_link and unbind when nothing arrives, with *)
(* async_send_command, competing with the callers for send_buf_.  Rx is    *)
(* the caller that stands for it in SendPath.                              *)
(*                                                                         *)
(* The handler of an inner operation continues receive_op in place.  The   *)
(* stages "loop" (about to look at the buffer) and "sending" with pc[Rx] = *)
(* "done" (about to continue after async_send_command) are therefore left  *)
(* before anything else happens: see Inline.                               *)
(***************************************************************************)
EXTENDS SendPath

CONSTANTS
  Rx,            \* receive_op in its role of a sender
  PeerMay,       \* what the peer does: "read", "answer" and commands it sends
  MaxPeerFrames, \* the frames that the peer sends on its own account
  InWindow,      \* units on their way from the peer
  RxCancels,     \* types of cancellation that are emitted to async_receive
  Capacity       \* units that receive_buf_ holds

ASSUME SessionAssumption ==
  /\ Rx \in Callers \ Looping
  /\ PeerMay \subseteq {"read", "answer"} \cup (Cmds \ {"enquire_link_resp",
                                                        "unbind_resp"})
  /\ MaxPeerFrames \in 0..MaxSeq
  /\ InWindow \in Nat
  /\ RxCancels \subseteq {"total", "terminal"}
  /\ Capacity \in Nat /\ Capacity >= HeaderLen

VARIABLES
  rx,             \* where receive_op is suspended
  rx_ec,          \* the outcome of its read, then of the operation
  received,       \* units that the read has stored and its handler will commit
  receive_buf,    \* receive_buf_
  pending_enquire_link,
  needs_post,
  rx_cancelled,   \* self.cancelled() of receive_op
  result,         \* the frame that the last async_receive ended with
  consumed,       \* history: the number of the last frame of the peer's consumed
  silence,        \* history: what of "an interval without data, an enquire_link
                  \* handed to TCP, another such interval" has come to pass
  inq,            \* units sent by the peer and not yet read
  peer_seq,       \* the number of the last frame of the peer's own account
  owed            \* our frames that the peer has read and not answered

rxState  == <<rx, rx_ec, received, pending_enquire_link, needs_post,
              rx_cancelled, silence>>
rxVars   == <<rxState, receive_buf, result, consumed>>
peerVars == <<peer_seq, owed>>
allVars  == <<vars, rxVars, inq, peerVars>>

SInit ==
  /\ Init
  /\ rx = "idle"
  /\ rx_ec = "ok"
  /\ received = <<>>
  /\ receive_buf = <<>>
  /\ pending_enquire_link = FALSE
  /\ needs_post = TRUE
  /\ rx_cancelled = FALSE
  /\ result = NoFrame
  /\ consumed = 0
  /\ silence = 0
  /\ inq = <<>>
  /\ peer_seq = 0
  /\ owed = {}

Numbered == {"request", "enquire_link", "unbind"}

\* receive_op is about to take another step of the handler that is running.
Inline == rx = "loop" \/ (rx = "sending" /\ pc[Rx] = "done")
-----------------------------------------------------------------------------
(* The start of async_receive and the loop of receive_op. *)

\* The constructor of receive_op; its first activation follows in place.
AsyncReceive ==
  /\ rx = "idle"
  /\ rx_ec \in {"ok", "aborted"}
  /\ rx' = "loop"
  /\ rx_ec' = "ok"
  /\ silence' = 0
  /\ UNCHANGED <<vars, received, receive_buf, pending_enquire_link, needs_post,
                 rx_cancelled, result, consumed, inq, peerVars>>

\* receive_op completes and is destroyed.
RxComplete(e, f) ==
  /\ rx' = "idle"
  /\ rx_ec' = e
  /\ result' = f
  /\ pending_enquire_link' = FALSE
  /\ needs_post' = TRUE
  /\ rx_cancelled' = FALSE
  /\ UNCHANGED <<received, silence>>

\* receive_buf_.consume(command_length_)
ConsumeHeaderOnly(f) ==
  /\ receive_buf' = SubSeq(receive_buf, HeaderLen + 1, Len(receive_buf))
  /\ consumed' = IF f.cmd \in Numbered THEN f.seq ELSE consumed
Consume(f) ==
  /\ receive_buf' = SubSeq(receive_buf, Size(f.cmd) + 1, Len(receive_buf))
  /\ consumed' = IF f.cmd \in Numbered THEN f.seq ELSE consumed

\* receive_op suspends in async_send_command.
RxSendUncounted(cmd, n, s) ==
  /\ Initiate(Rx, [cmd |-> cmd, seq |-> n], sequence_number)
  /\ rx' = "sending"
RxSend(cmd, n, s) ==
  /\ Initiate(Rx, [cmd |-> cmd, seq |-> n], s)
  /\ rx' = "sending"

\* The header that the buffer begins with, once it is there.
HeadFrame == receive_buf[1].frame
HasHeader == Len(receive_buf) >= HeaderLen
HasMoreThanFrame == HasHeader /\ Len(receive_buf) > Size(HeadFrame.cmd)
HasFrame == HasHeader /\ Len(receive_buf) >= Size(HeadFrame.cmd)

\* Not enough data: the cancellation state is reset and async_read_some starts.
\* When a frame that is longer than the buffer fills it, the read is given no
\* room and has ended already, with success and 0 bytes.
StartRead ==
  /\ ~HasFrame
  /\ needs_post' = FALSE
  /\ rx_cancelled' = FALSE
  /\ IF Len(receive_buf) < Capacity
     THEN rx' = "reading" /\ UNCHANGED rx_ec
     ELSE rx' = "read" /\ rx_ec' = "ok"
  /\ UNCHANGED <<vars, received, receive_buf, pending_enquire_link, result,
                 consumed, silence, inq, peerVars>>

\* An answer carries the number of what it answers.
AnswerNumberOfOurs == NextSequenceNumber
AnswerNumber == HeadFrame.seq

\* enquire_link and unbind are answered before they are consumed.
AnswerCommand ==
  /\ HasFrame
  /\ \/ /\ HeadFrame.cmd = "enquire_link"
        /\ RxSend("enquire_link_resp", AnswerNumber, sequence_number)
     \/ /\ HeadFrame.cmd = "unbind"
        /\ RxSend("unbind_resp", AnswerNumber, sequence_number)
  /\ UNCHANGED <<rx_ec, received, receive_buf, pending_enquire_link, needs_post,
                 rx_cancelled, result, consumed, silence, inq, peerVars>>

SkipEnquireLinkResp ==
  /\ HasFrame
  /\ HeadFrame.cmd = "enquire_link_resp"
  /\ Consume(HeadFrame)
  /\ UNCHANGED <<vars, rxState, result, inq, peerVars>>

\* CloseSocket without the variables that shutdown_socket() leaves alone.
RxShutdownForgotten == UNCHANGED vars
RxShutdown ==
  /\ CloseSocket
  /\ UNCHANGED <<send_buf, send_cv, sequence_number, frame, cancelled, sent,
                 wire, last_read>>

FinishUnbind ==
  /\ HasFrame
  /\ HeadFrame.cmd = "unbind_resp"
  /\ RxShutdown
  /\ Consume(HeadFrame)
  /\ RxComplete("unbinded", HeadFrame)
  /\ UNCHANGED <<inq, peerVars>>

DeliverWithoutConsuming ==
  /\ RxComplete("ok", HeadFrame)
  /\ UNCHANGED <<vars, receive_buf, consumed, inq, peerVars>>
DeliverNow ==
  /\ Consume(HeadFrame)
  /\ RxComplete("ok", HeadFrame)
  /\ UNCHANGED <<vars, inq, peerVars>>

\* A PDU that was already buffered is delivered from a posted handler, so that
\* a completion is not nested in the initiation.
DeliverOrPost ==
  /\ HasFrame
  /\ HeadFrame.cmd \in {"request", "response"}
  /\ IF needs_post
     THEN /\ rx' = "posted"
          /\ UNCHANGED <<vars, rx_ec, received, receive_buf,
                         pending_enquire_link, needs_post, rx_cancelled,
                         result, consumed, silence, inq, peerVars>>
     ELSE DeliverNow

Loop ==
  /\ rx = "loop"
  /\ \/ StartRead
     \/ AnswerCommand
     \/ SkipEnquireLinkResp
     \/ FinishUnbind
     \/ DeliverOrPost

Posted == rx = "posted" /\ DeliverNow
-----------------------------------------------------------------------------
(* The read. *)

EndRead(e) ==
  /\ rx' = "read"
  /\ rx_ec' = e

\* The socket stores any part of what has arrived in the rest of the buffer.
ReadSome ==
  /\ rx = "reading"
  /\ socket = "open"
  /\ silence' = 0
  /\ \E k \in 1..Len(inq) :
       /\ k <= Capacity - Len(receive_buf)
       /\ received' = SubSeq(inq, 1, k)
       /\ inq' = SubSeq(inq, k + 1, Len(inq))
  /\ EndRead("ok")
  /\ UNCHANGED <<vars, receive_buf, pending_enquire_link, needs_post,
                 rx_cancelled, result, consumed, peerVars>>

ReadError ==
  /\ rx = "reading"
  /\ socket # "open"
  /\ EndRead("neterr")
  /\ UNCHANGED <<vars, received, receive_buf, pending_enquire_link, needs_post,
                 rx_cancelled, result, consumed, silence, inq, peerVars>>

\* cancel_after(enquire_link_interval_): nothing has arrived for an interval.
ReadTimeout ==
  /\ "timeout" \in Faults
  /\ rx = "reading"
  /\ EndRead("aborted")
  /\ silence' = IF silence \in {0, 2} THEN silence + 1 ELSE silence
  /\ UNCHANGED <<vars, received, receive_buf, pending_enquire_link, needs_post,
                 rx_cancelled, result, consumed, inq, peerVars>>

\* receive_buf_.commit(received)
CommitOverwrites ==
  /\ receive_buf' = received
  /\ received' = <<>>
Commit ==
  /\ receive_buf' = receive_buf \o received
  /\ received' = <<>>

\* Data, if there is any, is committed and counts as an answer of the peer.
DataReceived ==
  /\ Commit
  /\ pending_enquire_link' = (pending_enquire_link /\ received = <<>>)

SendEnquireLinkUnmarked ==
  /\ RxSend("enquire_link", NextSequenceNumber, NextSequenceNumber)
  /\ UNCHANGED pending_enquire_link
SendEnquireLink ==
  /\ RxSend("enquire_link", NextSequenceNumber, NextSequenceNumber)
  /\ pending_enquire_link' = TRUE

SendUnbind ==
  /\ RxSend("unbind", NextSequenceNumber, NextSequenceNumber)
  /\ UNCHANGED pending_enquire_link

\* ec == operation_aborted && !self.cancelled(): an enquire_link the first
\* time, an unbind when that had no effect.
AfterReadTimeout ==
  /\ IF pending_enquire_link THEN SendUnbind ELSE SendEnquireLink
  /\ UNCHANGED <<rx_ec, received, receive_buf, needs_post, rx_cancelled, result,
                 consumed, silence>>

ReadHandler ==
  /\ rx = "read"
  /\ \/ /\ rx_ec = "ok"
        /\ DataReceived
        /\ rx' = "loop"
        /\ UNCHANGED <<vars, rx_ec, needs_post, rx_cancelled, result, consumed,
                       silence>>
     \/ /\ rx_ec = "aborted" /\ ~rx_cancelled
        /\ AfterReadTimeout
     \/ /\ rx_ec = "neterr" \/ (rx_ec = "aborted" /\ rx_cancelled)
        /\ RxComplete(rx_ec, NoFrame)
        /\ UNCHANGED <<vars, receive_buf, consumed>>
  /\ UNCHANGED <<inq, peerVars>>
-----------------------------------------------------------------------------
(* The inner async_send_command has completed with ec[Rx]. *)

\* The two commands after which receive_op looks at ec; it ignores that of
\* enquire_link_resp and of the unbind that ends a silent session.
SendFailedEnquireLinkOnly ==
  frame[Rx].cmd = "enquire_link" /\ ec[Rx] # "ok"
SendFailedUnbindRespOnly ==
  frame[Rx].cmd = "unbind_resp" /\ ec[Rx] # "ok"
SendFailed ==
  frame[Rx].cmd \in {"enquire_link", "unbind_resp"} /\ ec[Rx] # "ok"

\* The whole frame f was handed to TCP, and nothing after it.
HandedLast(f) ==
  LET stream == <<last_read>> \o wire
  IN  Last(stream) = [frame |-> f, part |-> Size(f.cmd)]

AfterSend ==
  /\ rx = "sending"
  /\ pc[Rx] = "done"
  /\ \/ /\ frame[Rx].cmd = "unbind"
        /\ RxShutdown
        /\ RxComplete("enquire_link_timeout", frame[Rx])
        /\ UNCHANGED <<receive_buf, consumed>>
     \/ /\ SendFailed
        /\ RxComplete(ec[Rx], NoFrame)
        /\ UNCHANGED <<vars, receive_buf, consumed>>
     \/ /\ frame[Rx].cmd = "enquire_link" /\ ~SendFailed
        /\ rx' = "loop"
        /\ silence' = IF silence = 1 /\ HandedLast(frame[Rx])
                      THEN 2 ELSE silence
        /\ UNCHANGED <<vars, rx_ec, received, pending_enquire_link, needs_post,
                       rx_cancelled, receive_buf, result, consumed>>
     \/ /\ frame[Rx].cmd = "unbind_resp" /\ ~SendFailed
        /\ RxShutdown
        /\ Consume(HeadFrame)
        /\ RxComplete("unbinded", HeadFrame)
     \/ /\ frame[Rx].cmd = "enquire_link_resp"
        /\ Consume(HeadFrame)
        /\ rx' = "loop"
        /\ UNCHANGED <<vars, rx_ec, received, pending_enquire_link, needs_post,
                       rx_cancelled, silence, result>>
  /\ UNCHANGED <<inq, peerVars>>
-----------------------------------------------------------------------------
(* Cancellation of async_receive. *)

\* async_compose begins with terminal cancellation only; the first read of the
\* operation enables every type.
RxAccepts(type) == type = "terminal" \/ ~needs_post

\* The signal goes on to what receive_op waits for; an inner write accepts
\* terminal cancellation only, and a posted handler none.
RxCancel(type) ==
  /\ type \in RxCancels
  /\ RxAccepts(type)
  /\ rx \in {"reading", "read", "sending", "posted"}
  /\ rx_cancelled' = TRUE
  /\ IF rx = "reading" THEN EndRead("aborted") ELSE UNCHANGED <<rx, rx_ec>>
  /\ \/ rx = "sending" /\ pc[Rx] = "queued" /\ CancelQueued(Rx)
     \/ rx = "sending" /\ pc[Rx] = "woken" /\ CancelWoken(Rx)
     \/ rx = "sending" /\ type = "terminal" /\ CancelWriting(Rx)
     \/ rx = "sending" /\ type = "terminal" /\ CancelWritten(Rx)
     \/ rx = "sending" /\ type = "total" /\ Rx \in Writing /\ UNCHANGED vars
     \/ rx # "sending" /\ UNCHANGED vars
  /\ UNCHANGED <<received, receive_buf, pending_enquire_link, needs_post, result,
                 consumed, silence, inq, peerVars>>
-----------------------------------------------------------------------------
(* The peer, which conforms to the protocol. *)

UnitsOf(f) == [i \in 1..Size(f.cmd) |-> [frame |-> f, part |-> i]]

PeerSends(f) ==
  /\ ~Inline
  /\ socket = "open"
  /\ Len(inq) + Size(f.cmd) <= InWindow
  /\ inq' = inq \o UnitsOf(f)
  /\ UNCHANGED <<vars, rxVars>>

\* A frame on the peer's own account.
PeerSend(cmd) ==
  /\ cmd \in PeerMay \cap Numbered
  /\ peer_seq < MaxPeerFrames
  /\ peer_seq' = peer_seq + 1
  /\ PeerSends([cmd |-> cmd, seq |-> peer_seq + 1])
  /\ UNCHANGED owed

AnswerTo(cmd) ==
  CASE cmd = "request"      -> "response"
    [] cmd = "enquire_link" -> "enquire_link_resp"
    [] cmd = "unbind"       -> "unbind_resp"

PeerAnswer(f) ==
  /\ "answer" \in PeerMay
  /\ PeerSends([cmd |-> AnswerTo(f.cmd), seq |-> f.seq])
  /\ owed' = owed \ {f}
  /\ UNCHANGED peer_seq

\* PeerRead, with what a frame that has been read whole obliges the peer to.
PeerReads ==
  /\ "read" \in PeerMay
  /\ ~Inline
  /\ PeerRead
  /\ LET u == Head(wire)
     IN  owed' = IF u.frame.cmd \in Numbered /\ Whole(u)
                 THEN owed \cup {u.frame}
                 ELSE owed
  /\ UNCHANGED <<rxVars, inq, peer_seq>>
-----------------------------------------------------------------------------
\* A step of the sending half, in which receive_op has no part.
OfSender(Step) == ~Inline /\ Step /\ UNCHANGED <<rxVars, inq, peerVars>>

RxProgress == ReadSome \/ ReadError \/ ReadHandler \/ Posted

\* What the session and those who use it do ...
OwnNext ==
  \/ AsyncReceive
  \/ Loop
  \/ AfterSend
  \/ RxProgress
  \/ ReadTimeout
  \/ \E type \in RxCancels : RxCancel(type)
  \/ \E c \in Callers \ {Rx} : OfSender(Start(c)) \/ OfSender(Cancel(c))
  \/ \E c \in Callers : OfSender(Progress(c)) \/ OfSender(WriteTimeout(c))

\* ... and what happens to it.
SNext ==
  \/ OwnNext
  \/ OfSender(SocketReset)
  \/ \E cmd \in Numbered : PeerSend(cmd)
  \/ \E f \in owed : PeerAnswer(f)
  \/ PeerReads

SSpec == SInit /\ [][SNext]_allVars

\* As in SendPath; besides, receive_op's steps are taken, timers of the
\* interval expire where the instance has timeouts, the peer reads and answers
\* where it may, and a caller that received a PDU receives the next.
SFairness ==
  /\ WF_allVars(Loop \/ AfterSend)
  /\ WF_allVars(AsyncReceive)
  /\ WF_allVars(RxProgress)
  /\ WF_allVars(ReadTimeout)
  /\ WF_allVars(PeerReads)
  /\ WF_allVars(\E f \in owed : PeerAnswer(f))
  /\ \A c \in Callers :
       /\ WF_allVars(OfSender(Resume(c)))
       /\ WF_allVars(OfSender(WriteSome(c)))
       /\ WF_allVars(OfSender(WriteError(c)))
       /\ WF_allVars(OfSender(WriteHandler(c)))
       /\ WF_allVars(OfSender(WriteTimeout(c)))

SFairSpec == SSpec /\ SFairness
-----------------------------------------------------------------------------
(* Properties. *)

\* The types of the state of receive_op and of its environment.
STypeOK ==
  /\ TypeOK
  /\ rx \in {"idle", "loop", "reading", "read", "sending", "posted"}
  /\ rx_ec \in Ecs \cup {"unbinded"}
  /\ received \in Seq(Unit)
  /\ receive_buf \in Seq(Unit) /\ Len(receive_buf) <= Capacity
  /\ pending_enquire_link \in BOOLEAN
  /\ needs_post \in BOOLEAN
  /\ rx_cancelled \in BOOLEAN
  /\ result \in Frame
  /\ consumed \in 0..MaxSeq
  /\ silence \in 0..3
  /\ inq \in Seq(Unit) /\ Len(inq) <= InWindow
  /\ peer_seq \in 0..MaxPeerFrames
  /\ owed \subseteq Frame

\* receive_op uses the sending half as any caller may: what it sends, awaits and
\* cancels is a behaviour of SendPath, where Rx sends again and again, answers
\* whatever number the peer may use, and the socket is closed at some time, once.
Sender == INSTANCE SendPath WITH
  Looping <- Callers, Menu <- Cmds, PeerNumbers <- 1..MaxSeq,
  Faults <- Faults \cup {"shutdown"}
ImplementsSendPath == Sender!Spec

\* What the peer has sent and receive_op has not consumed.
Stream == receive_buf \o received \o inq

\* receive_buf_ begins at the first unit of a frame whenever receive_op looks
\* at it, and what has been read and not consumed is a stream of whole frames
\* together with what is on its way: however the reads cut the stream, and
\* across async_receives, cancellations and answers in between, receive_op
\* never takes a part of a body for a header.
StreamInSync ==
  /\ Stream # <<>> => Stream[1].part = 1
  /\ \A i \in 1..Len(Stream) - 1 : Follows(Stream[i + 1], Stream[i])

\* async_receive completes with a frame, or receive_op goes on after an answer.
Reports(e, f) == rx # "idle" /\ rx' = "idle" /\ rx_ec' = e /\ result' = f
HasAnswered(cmd, f) ==
  rx = "sending" /\ rx' # "sending" /\ frame[Rx] = [cmd |-> cmd, seq |-> f.seq]

\* What the frame f is owed by the step that consumes it.
DealsWith(f) ==
  /\ f.cmd \in {"request", "response"} => Reports("ok", f)
  /\ f.cmd = "unbind_resp" => Reports("unbinded", f)
  /\ f.cmd = "unbind" => Reports("unbinded", f) /\ HasAnswered("unbind_resp", f)
  /\ f.cmd = "enquire_link" => rx' = "loop" /\ HasAnswered("enquire_link_resp", f)
  /\ f.cmd = "enquire_link_resp" => rx = "loop" /\ rx' = "loop"

HandlesNothing ==
  /\ \A e \in {"ok", "unbinded"} : ~Reports(e, result')
  /\ rx' = "loop" => ~HasAnswered("enquire_link_resp", frame[Rx])
  /\ UNCHANGED consumed

\* receive_op takes the frame at the head of the stream, all of it and nothing
\* else, and deals with it in the same step: it reports, answers or skips that
\* very frame, although other handlers may have run since it read the header.
HandlesHead ==
  LET f == Stream[1].frame
  IN  /\ Stream # <<>>
      /\ Stream = UnitsOf(f) \o Stream'
      /\ DealsWith(f)
      /\ consumed' = IF f.cmd \in Numbered THEN consumed + 1 ELSE consumed
      /\ f.cmd \in Numbered => f.seq = consumed + 1

PeerAddsFrame ==
  /\ UNCHANGED <<receive_buf, received>>
  /\ \E f \in Frame : inq' = inq \o UnitsOf(f)

\* Every frame of the peer's, whether it carries a number of the peer's or of
\* ours, is dealt with when its turn comes, as a frame of its kind has to be,
\* and once: a step that does not deal with a frame leaves the stream alone, or
\* is the peer that adds a frame at its end, so that the data of a read that
\* timed out or was cancelled is never dropped or doubled; and a step that
\* reports or has answered a frame consumes it.
FramesHandledOnce ==
  [][ \/ HandlesHead
      \/ HandlesNothing /\ Stream' = Stream
      \/ HandlesNothing /\ PeerAddsFrame ]_allVars

\* The session is given up for want of an answer only after an interval without
\* data, then an enquire_link that was handed to TCP whole, then a second such
\* interval, and no data since the first of them began: an enquire_link that
\* failed, or was cut, and a read that was cancelled do not count.
UnbindOnlyAfterSilence ==
  rx_ec = "enquire_link_timeout" /\ result.cmd = "unbind" => silence = 3

\* When async_receive completes with unbinded because of the peer's unbind, the
\* whole unbind_resp with the number of that unbind was handed to TCP before the
\* socket was closed, and nothing follows it.
UnbindAnswered ==
  rx_ec = "unbinded" /\ result.cmd = "unbind" =>
    HandedLast([cmd |-> "unbind_resp", seq |-> result.seq])

\* Every frame of the peer's is dealt with, as long as the session lives: no
\* frame is left in the buffer for want of a further read, and the answer to an
\* enquire_link gets its turn among the frames of the callers.
EveryFrameHandled ==
  \A n \in 1..MaxPeerFrames :
    peer_seq >= n ~> consumed >= n \/ socket # "open" \/ rx_ec = "unbinded"

\* An enquire_link of the peer's is answered with its number, whatever the
\* callers send meanwhile.
EnquireLinkAnswered ==
  \A n \in 1..MaxPeerFrames :
    LET resp == [cmd |-> "enquire_link_resp", seq |-> n]
    IN  (\E i \in 1..Len(inq) :
           inq[i].frame = [cmd |-> "enquire_link", seq |-> n])
          ~> last_read = [frame |-> resp, part |-> HeaderLen]
             \/ socket # "open"

\* A peer that falls silent for good is noticed: async_receive ends.
SilenceDetected == rx # "idle" ~> rx = "idle"
=============================================================================
