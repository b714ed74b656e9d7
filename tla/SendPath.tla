------------------------------ MODULE SendPath ------------------------------
(***************************************************************************)
(* The sending half of smpp::session (include/smpp/net/session.hpp): the   *)
(* three composed operations async_send(request), async_send(response) and *)
(* async_send_command, which share one buffer and one socket.              *)
(*                                                                         *)
(* send_buf_ doubles as the lock of the sending half.  An operation that   *)
(* finds it non-empty waits on send_cv_, a timer that never expires and is *)
(* used as a condition variable; the operation whose write ends empties    *)
(* the buffer and wakes the oldest waiter, which must look at the buffer   *)
(* again.  Every action below is one activation of a handler: code between *)
(* two yields of a coroutine runs without interleaving, because all the    *)
(* handlers of a session run on one executor.                              *)
(*                                                                         *)
(* TCP is abstracted to a bounded window of units in flight and to the     *)
(* last unit the peer has read; a frame is Size(cmd) units, and a write    *)
(* hands them to the socket one at a time (async_write is a loop of        *)
(* write_some).                                                            *)
(***************************************************************************)
EXTENDS Integers, Sequences, SequencesExt

CONSTANTS
  Callers,         \* contexts with at most one send operation outstanding each
  Looping,         \* the callers that send again once an operation completed
  Menu,            \* the commands that the callers send
  PeerNumbers,     \* sequence numbers of the peer's requests being answered
  Unserializable,  \* data commands whose serialization may throw
  CancelPoints,    \* the stages at which a caller may emit a cancellation
  Faults,          \* "timeout", "reset", "shutdown": what may go wrong
  HeaderLen,       \* units of a header, which is all of a command frame
  BodyLen,         \* further units of a request or a response
  Window,          \* units that TCP holds between the two ends
  MaxSeq           \* 0x7FFFFFFF in the code

Commands == {"enquire_link", "enquire_link_resp", "unbind", "unbind_resp"}
Cmds     == Commands \cup {"request", "response"}

ASSUME SendPathAssumption ==
  /\ Looping \subseteq Callers
  /\ Menu \subseteq Cmds
  /\ Unserializable \subseteq {"request", "response"}
  /\ CancelPoints \subseteq {"queued", "woken", "writing", "written"}
  /\ Faults \subseteq {"timeout", "reset", "shutdown"}
  /\ HeaderLen \in Nat \ {0}
  /\ BodyLen \in Nat
  /\ Window \in Nat \ {0}
  /\ MaxSeq \in Nat \ {0}
  /\ PeerNumbers \subseteq 1..MaxSeq

VARIABLES
  send_buf,         \* send_buf_: the frame being sent, NoFrame when empty
  send_cv,          \* send_cv_: the waits pending on the timer, oldest first
  sequence_number,  \* sequence_number_
  pc,               \* where each caller's operation is suspended
  frame,            \* the frame that each caller's operation sends
  cancelled,        \* self.cancelled() of each caller's operation
  ec,               \* the error code its write, then the operation, ended with
  sent,             \* the units of frame[c] that async_write has transferred
  socket,           \* state of socket_
  wire,             \* units accepted by TCP and not yet read by the peer
  last_read         \* the unit that the peer read last

opVars   == <<pc, frame, cancelled, ec, sent>>
sendVars == <<send_buf, send_cv, sequence_number, opVars>>
netVars  == <<socket, wire, last_read>>
vars     == <<sendVars, netVars>>

NoFrame == [cmd |-> "none", seq |-> 0]
Frame   == [cmd : Cmds \cup {"none"}, seq : 0..MaxSeq]
Unit    == [frame : Frame, part : Nat]

\* The length of a frame: serialize_header is given header_length for a
\* command, and the size of the serialized buffer for a request or response.
Size(cmd) ==
  CASE cmd = "none"      -> 0
    [] cmd \in Commands  -> HeaderLen
    [] OTHER             -> HeaderLen + BodyLen

Init ==
  /\ send_buf = NoFrame
  /\ send_cv = <<>>
  /\ sequence_number = 0
  /\ pc = [c \in Callers |-> "idle"]
  /\ frame = [c \in Callers |-> NoFrame]
  /\ cancelled = [c \in Callers |-> FALSE]
  /\ ec = [c \in Callers |-> "ok"]
  /\ sent = [c \in Callers |-> 0]
  /\ socket = "open"
  /\ wire = <<>>
  /\ last_read = [frame |-> NoFrame, part |-> 0]
-----------------------------------------------------------------------------
(* The operations up to their write. *)

\* next_sequence_number(): the numbers 1..MaxSeq, again and again.
NextSequenceNumberPastTheEnd == sequence_number + 1
NextSequenceNumberTooSoon ==
  IF sequence_number + 1 >= MaxSeq THEN 1 ELSE sequence_number + 1
NextSequenceNumber ==
  IF sequence_number + 1 > MaxSeq THEN 1 ELSE sequence_number + 1

\* The operation of c completes with e; its state is destroyed.
Complete(c, e) ==
  /\ ec' = [ec EXCEPT ![c] = e]
  /\ cancelled' = [cancelled EXCEPT ![c] = FALSE]
  /\ sent' = [sent EXCEPT ![c] = 0]

\* The operation of c suspends in send_cv_.async_wait.
WaitOnCv(c, f, s) ==
  /\ send_cv' = Append(send_cv, c)
  /\ pc' = [pc EXCEPT ![c] = "queued"]
  /\ frame' = [frame EXCEPT ![c] = f]
  /\ ec' = [ec EXCEPT ![c] = "ok"]
  /\ sequence_number' = s
  /\ UNCHANGED <<send_buf, cancelled, sent, netVars>>

\* The operation of c fills the buffer, a request takes its number and
\* async_write starts.  An operation that gets here has not been cancelled.
StartWrite(c, f, s) ==
  LET n == IF f.cmd = "request" THEN NextSequenceNumber ELSE f.seq
      g == [cmd |-> f.cmd, seq |-> n]
  IN  /\ send_buf' = g
      /\ pc' = [pc EXCEPT ![c] = "writing"]
      /\ frame' = [frame EXCEPT ![c] = g]
      /\ ec' = [ec EXCEPT ![c] = "ok"]
      /\ sequence_number' = IF f.cmd = "request" THEN n ELSE s
      /\ UNCHANGED <<send_cv, cancelled, sent, netVars>>

\* serialize_to throws: the buffer is cleared again and the operation
\* completes at once, without a wake-up for the waiters.
SerializeFails(c, f, s) ==
  /\ f.cmd \in Unserializable
  /\ pc' = [pc EXCEPT ![c] = "done"]
  /\ frame' = [frame EXCEPT ![c] = f]
  /\ Complete(c, "serialization_failed")
  /\ sequence_number' = s
  /\ UNCHANGED <<send_buf, send_cv, netVars>>

\* while(!send_buf_.empty()) and what follows it.  s is sequence_number_ once
\* the arguments of the operation have been evaluated.
WhileBufferBusy(c, f, s) ==
  \/ send_buf # NoFrame /\ WaitOnCv(c, f, s)
  \/ send_buf = NoFrame /\ (StartWrite(c, f, s) \/ SerializeFails(c, f, s))

\* Initiation runs the operation up to its first yield.
Initiate(c, f, s) ==
  /\ pc[c] \in {"idle", "done"}
  /\ WhileBufferBusy(c, f, s)

AsyncSendRequest(c) ==
  Initiate(c, [cmd |-> "request", seq |-> 0], sequence_number)

AsyncSendResponse(c, n) ==
  Initiate(c, [cmd |-> "response", seq |-> n], sequence_number)

\* A command that carries a number of ours takes it when the operation is
\* created, before the operation looks at the buffer.
AsyncSendNumbered(c, cmd) ==
  Initiate(c, [cmd |-> cmd, seq |-> NextSequenceNumber], NextSequenceNumber)

\* A command that answers the peer's carries the number of the peer's.
AsyncSendReply(c, cmd, n) ==
  Initiate(c, [cmd |-> cmd, seq |-> n], sequence_number)

-----------------------------------------------------------------------------
(* The wait on send_cv_ ends. *)

\* The handler of a wait runs.  cancel_one ends a wait with operation_aborted,
\* as a cancellation does; the two are told apart by self.cancelled(), and an
\* operation that was woken and then cancelled keeps the wake-up it was given.
ResumeWithoutRecheck(c) ==   \* "if" in place of "while"
  /\ pc[c] = "woken"
  /\ StartWrite(c, frame[c], sequence_number)
Resume(c) ==
  /\ pc[c] = "woken"
  /\ IF cancelled[c]
     THEN /\ pc' = [pc EXCEPT ![c] = "done"]
          /\ Complete(c, "aborted")
          /\ UNCHANGED <<send_buf, send_cv, sequence_number, frame, netVars>>
     ELSE WhileBufferBusy(c, frame[c], sequence_number)

\* A cancellation of any type reaches the pending wait on the timer ...
CancelQueued(c) ==
  /\ "queued" \in CancelPoints
  /\ pc[c] = "queued"
  /\ \E i \in 1..Len(send_cv) : send_cv[i] = c /\ send_cv' = RemoveAt(send_cv, i)
  /\ pc' = [pc EXCEPT ![c] = "woken"]
  /\ cancelled' = [cancelled EXCEPT ![c] = TRUE]
  /\ UNCHANGED <<send_buf, sequence_number, frame, ec, sent, netVars>>

\* ... or is only recorded, because the wait has ended already.
CancelWoken(c) ==
  /\ "woken" \in CancelPoints
  /\ pc[c] = "woken"
  /\ cancelled' = [cancelled EXCEPT ![c] = TRUE]
  /\ UNCHANGED <<send_buf, send_cv, sequence_number, pc, frame, ec, sent,
                 netVars>>
-----------------------------------------------------------------------------
(* The write. *)

\* The asynchronous write of c ends with e; its handler is queued.
EndWrite(c, e) ==
  /\ pc' = [pc EXCEPT ![c] = "written"]
  /\ ec' = [ec EXCEPT ![c] = e]

\* TCP accepts the next unit of the frame.
WriteSome(c) ==
  /\ pc[c] = "writing"
  /\ socket = "open"
  /\ Len(wire) < Window
  /\ wire' = Append(wire, [frame |-> frame[c], part |-> sent[c] + 1])
  /\ sent' = [sent EXCEPT ![c] = @ + 1]
  /\ IF sent[c] + 1 = Size(frame[c].cmd)
     THEN EndWrite(c, "ok")
     ELSE UNCHANGED <<pc, ec>>
  /\ UNCHANGED <<send_buf, send_cv, sequence_number, frame, cancelled,
                 socket, last_read>>

\* The socket reports that it has been reset or closed.
WriteError(c) ==
  /\ pc[c] = "writing"
  /\ socket # "open"
  /\ EndWrite(c, "neterr")
  /\ UNCHANGED <<send_buf, send_cv, sequence_number, frame, cancelled, sent,
                 netVars>>

\* cancel_after(enquire_link_interval_): commands only.
WriteTimeout(c) ==
  /\ "timeout" \in Faults
  /\ pc[c] = "writing"
  /\ frame[c].cmd \in Commands
  /\ EndWrite(c, "aborted")
  /\ UNCHANGED <<send_buf, send_cv, sequence_number, frame, cancelled, sent,
                 netVars>>

\* A terminal cancellation stops the write, even between two of its units.
CancelWriting(c) ==
  /\ "writing" \in CancelPoints
  /\ pc[c] = "writing"
  /\ EndWrite(c, "aborted")
  /\ cancelled' = [cancelled EXCEPT ![c] = TRUE]
  /\ UNCHANGED <<send_buf, send_cv, sequence_number, frame, sent, netVars>>

CancelWritten(c) ==
  /\ "written" \in CancelPoints
  /\ pc[c] = "written"
  /\ cancelled' = [cancelled EXCEPT ![c] = TRUE]
  /\ UNCHANGED <<send_buf, send_cv, sequence_number, pc, frame, ec, sent,
                 netVars>>

\* ec == operation_aborted && !self.cancelled(), which only the operation of a
\* command tests.
TimedOutUntested(c) == FALSE
TimedOut(c) ==
  /\ frame[c].cmd \in Commands
  /\ ec[c] = "aborted"
  /\ ~cancelled[c]

\* send_cv_.cancel_one(): the oldest wait, if there is one, ends.
CancelOneForgotten(completed) == pc' = completed /\ UNCHANGED send_cv
CancelOne(completed) ==
  IF send_cv = <<>>
  THEN /\ pc' = completed
       /\ UNCHANGED send_cv
  ELSE /\ pc' = [completed EXCEPT ![Head(send_cv)] = "woken"]
       /\ send_cv' = Tail(send_cv)

\* The handler of the write runs and the operation completes.
WriteHandler(c) ==
  /\ pc[c] = "written"
  /\ IF TimedOut(c)
     THEN /\ Complete(c, "enquire_link_timeout")
          /\ pc' = [pc EXCEPT ![c] = "done"]
          /\ UNCHANGED <<send_buf, send_cv>>
     ELSE /\ send_buf' = NoFrame
          /\ CancelOne([pc EXCEPT ![c] = "done"])
          /\ Complete(c, ec[c])
  /\ UNCHANGED <<sequence_number, frame, netVars>>
-----------------------------------------------------------------------------
(* The network and the peer. *)

PeerRead ==
  /\ wire # <<>>
  /\ last_read' = Head(wire)
  /\ wire' = Tail(wire)
  /\ UNCHANGED <<sendVars, socket>>

SocketReset ==
  /\ "reset" \in Faults
  /\ socket = "open"
  /\ socket' = "reset"
  /\ UNCHANGED <<sendVars, wire, last_read>>

\* shutdown_socket(): closing the socket ends a pending write.
CloseSocket ==
  /\ socket' = "closed"
  /\ pc' = [c \in Callers |-> IF pc[c] = "writing" THEN "written" ELSE pc[c]]
  /\ ec' = [c \in Callers |-> IF pc[c] = "writing" THEN "aborted" ELSE ec[c]]

\* On its own, the sending half sees receive_op close the socket at any time.
ShutdownSocket ==
  /\ "shutdown" \in Faults
  /\ socket # "closed"
  /\ CloseSocket
  /\ UNCHANGED <<send_buf, send_cv, sequence_number, frame, cancelled, sent,
                 wire, last_read>>
-----------------------------------------------------------------------------
MayStart(c) == pc[c] = "idle" \/ (pc[c] = "done" /\ c \in Looping)

Start(c) ==
  /\ MayStart(c)
  /\ \/ "request" \in Menu /\ AsyncSendRequest(c)
     \/ "response" \in Menu /\ \E n \in PeerNumbers : AsyncSendResponse(c, n)
     \/ \E cmd \in Menu \cap {"enquire_link", "unbind"} :
          AsyncSendNumbered(c, cmd)
     \/ \E cmd \in Menu \cap {"enquire_link_resp", "unbind_resp"} :
          \E n \in PeerNumbers : AsyncSendReply(c, cmd, n)

Cancel(c) ==
  CancelQueued(c) \/ CancelWoken(c) \/ CancelWriting(c) \/ CancelWritten(c)

\* The steps that the executor and the operating system take on their own.
Progress(c) ==
  Resume(c) \/ WriteSome(c) \/ WriteError(c) \/ WriteHandler(c)

Next ==
  \/ \E c \in Callers : Start(c) \/ Progress(c) \/ WriteTimeout(c) \/ Cancel(c)
  \/ PeerRead
  \/ SocketReset
  \/ ShutdownSocket

Spec == Init /\ [][Next]_vars

\* Queued handlers run, a write proceeds while there is room and the peer
\* reads.  Nothing makes callers start, cancel or meet a fault.
Fairness ==
  /\ \A c \in Callers :
       /\ WF_vars(Resume(c))
       /\ WF_vars(WriteSome(c))
       /\ WF_vars(WriteError(c))
       /\ WF_vars(WriteHandler(c))
  /\ WF_vars(PeerRead)

FairSpec == Spec /\ Fairness
-----------------------------------------------------------------------------
(* Properties. *)

Stages == {"idle", "queued", "woken", "writing", "written", "done"}
Ecs    == {"ok", "aborted", "neterr", "serialization_failed",
           "enquire_link_timeout"}

Writing == {c \in Callers : pc[c] \in {"writing", "written"}}
Active  == {c \in Callers : pc[c] \notin {"idle", "done"}}

\* The types of the state of the sending half.
TypeOK ==
  /\ send_buf \in Frame
  /\ send_cv \in Seq(Callers)
  /\ sequence_number \in 0..MaxSeq
  /\ pc \in [Callers -> Stages]
  /\ frame \in [Callers -> Frame]
  /\ cancelled \in [Callers -> BOOLEAN]
  /\ ec \in [Callers -> Ecs]
  /\ sent \in [Callers -> Nat]
  /\ socket \in {"open", "reset", "closed"}
  /\ wire \in Seq(Unit)
  /\ last_read \in Unit

\* send_buf_ is neither resized nor cleared while an async_write still refers
\* to its bytes: one operation at a time writes, and the buffer holds its frame
\* until its handler has run, however many callers are woken, cancelled or
\* timed out in between (session.hpp, the while loops and the write handlers).
WriterOwnsBuffer ==
  \A c \in Writing : send_buf = frame[c] /\ Writing = {c}

\* The number that async_send reports identifies its request among those that
\* were sent since the numbers wrapped: no two operations hold the same number
\* of ours, and no frame of ours is written with the number 0, although commands
\* take their number before they wait for the buffer and requests after it.
NumbersIdentifyRequests ==
  LET Ours == {c \in Callers :
                 frame[c].cmd \in {"request", "enquire_link", "unbind"}}
  IN  /\ \A c \in Ours \cap Writing : frame[c].seq # 0
      /\ \A c, d \in Ours :
           frame[c].seq = frame[d].seq /\ frame[c].seq # 0 => c = d

\* u may follow v in the byte stream: it is the next unit of the same frame, or
\* v ends a frame and u begins one.
Whole(v) == v.part = Size(v.frame.cmd)
Follows(u, v) ==
  \/ u.part = 1 /\ Whole(v)
  \/ u.frame = v.frame /\ u.part = v.part + 1

\* The peer reads one whole frame after another, never the beginning of one
\* followed by another: an interrupted write leaves the stream unusable, so
\* nothing may be written after it (TimedOut keeps the buffer for that).
FramesWhole ==
  LET stream == <<last_read>> \o wire
  IN  \A i \in 1..Len(wire) : Follows(stream[i + 1], stream[i])

\* No wait is forgotten: while the buffer is free and operations wait for it,
\* one of them has been woken and will look at the buffer.
NoLostWakeup ==
  send_buf = NoFrame /\ send_cv # <<>> =>
    \E c \in Callers : pc[c] = "woken" /\ ~cancelled[c]

\* Every operation completes, at the latest when the peer has read what was
\* sent before it: each end of a write hands the buffer on (cancel_one), and an
\* operation that is cancelled before it was woken leaves nobody behind it stuck.
EverySendCompletes == \A c \in Callers : c \in Active ~> c \notin Active
=============================================================================
