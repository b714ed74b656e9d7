--------------------------- MODULE SessionProofs ---------------------------
(* Theorems about receive_op on top of the sending half. *)
EXTENDS Session, SendPathProofs

USE SessionAssumption

-----------------------------------------------------------------------------
(* The state of receive_op and of its environment. *)

RxCommands == {"enquire_link", "unbind"}
RxReplies  == {"enquire_link_resp", "unbind_resp"}

\* A unit of a frame of the peer, whose commands carry numbers.
PeerUnit ==
  {u \in Unit : /\ u.frame.cmd \in Cmds
                /\ u.frame.cmd \in RxCommands => u.frame.seq # 0}

\* STypeOK with what is known of the units that the peer sends.
RxTypes ==
  /\ rx \in {"idle", "loop", "reading", "read", "sending", "posted"}
  /\ rx_ec \in Ecs \cup {"unbinded"}
  /\ received \in Seq(PeerUnit)
  /\ receive_buf \in Seq(PeerUnit)
  /\ Len(receive_buf) + Len(received) <= Capacity
  /\ pending_enquire_link \in BOOLEAN
  /\ needs_post \in BOOLEAN
  /\ rx_cancelled \in BOOLEAN
  /\ result \in Frame
  /\ consumed \in 0..MaxSeq
  /\ silence \in 0..3
  /\ inq \in Seq(PeerUnit)
  /\ peer_seq \in 0..MaxPeerFrames
  /\ owed \subseteq {f \in Frame : f.cmd \in Numbered}

\* What each stage of receive_op is entered with.
RxStages ==
  /\ rx = "idle" => ~pending_enquire_link
  /\ rx # "idle" => rx_ec \in {"ok", "aborted", "neterr"}
  /\ received # <<>> => rx = "read" /\ rx_ec = "ok"
  /\ socket = "closed" => rx = "idle" /\ rx_ec \notin {"ok", "aborted"}
  /\ rx = "posted" => HasFrame /\ HeadFrame.cmd \in {"request", "response"}
  /\ rx = "sending" => frame[Rx].cmd \in RxCommands \cup RxReplies
  /\ rx = "sending" /\ frame[Rx].cmd \in RxReplies =>
       /\ HasFrame
       /\ HeadFrame.seq = frame[Rx].seq
       /\ HeadFrame.cmd = IF frame[Rx].cmd = "unbind_resp"
                          THEN "unbind" ELSE "enquire_link"

SIInv == IInv /\ RxTypes /\ RxStages

\* What the sending half sees of a step of the session.
RxInitiates ==
  \/ \E cmd \in RxCommands : AsyncSendNumbered(Rx, cmd)
  \/ \E cmd \in RxReplies, n \in 1..MaxSeq : AsyncSendReply(Rx, cmd, n)

SenderStep ==
  \/ UNCHANGED vars
  \/ RxInitiates
  \/ RxShutdown /\ socket # "closed"
  \/ \E c \in Callers : Start(c) \/ Progress(c) \/ WriteTimeout(c) \/ Cancel(c)
  \/ PeerRead
  \/ SocketReset

\* The frame at the head of the buffer.
LEMMA HeadFrameType ==
  ASSUME RxTypes, HasHeader
  PROVE  /\ HeadFrame \in Frame
         /\ HeadFrame.cmd \in Cmds
         /\ HeadFrame.cmd \in RxCommands => HeadFrame.seq \in 1..MaxSeq
<1>1. receive_buf \in Seq(PeerUnit) /\ Len(receive_buf) \in Nat
  BY LenProperties DEF RxTypes
<1>2. 1 \in 1..Len(receive_buf)
  BY <1>1, SendPathAssumption DEF HasHeader
<1>3. receive_buf[1] \in PeerUnit
  BY <1>1, <1>2, ElementOfSeq
<1> QED
  BY <1>3 DEF HeadFrame, PeerUnit, Unit, Frame

LEMMA SenderSteps ==
  ASSUME SIInv, SNext
  PROVE  SenderStep
<1>1. CASE AsyncReceive \/ RxProgress \/ ReadTimeout
  <2>1. CASE AsyncReceive \/ ReadSome \/ ReadError \/ Posted \/ ReadTimeout
    BY <2>1 DEF AsyncReceive, ReadSome, ReadError, Posted, DeliverNow,
                ReadTimeout, SenderStep
  <2>2. CASE ReadHandler
    <3>1. CASE UNCHANGED vars
      BY <3>1 DEF SenderStep
    <3>2. CASE AfterReadTimeout
      BY <3>2 DEF AfterReadTimeout, SendUnbind, SendEnquireLink, RxSend,
                  RxCommands, AsyncSendNumbered, RxInitiates, SenderStep
    <3> QED
      BY <2>2, <3>1, <3>2 DEF ReadHandler
  <2> QED
    BY <1>1, <2>1, <2>2 DEF RxProgress
<1>2. CASE Loop
  <2>1. CASE StartRead \/ SkipEnquireLinkResp \/ DeliverOrPost
    BY <2>1 DEF StartRead, SkipEnquireLinkResp, DeliverOrPost, DeliverNow,
                SenderStep
  <2>2. CASE AnswerCommand
    <3>1. HeadFrame.seq \in 1..MaxSeq
      BY <2>2, HeadFrameType DEF AnswerCommand, HasFrame, RxCommands, SIInv
    <3> QED
      BY <2>2, <3>1 DEF AnswerCommand, AnswerNumber, RxSend, RxReplies,
                        AsyncSendReply, RxInitiates, SenderStep
  <2>3. CASE FinishUnbind
    BY <1>2, <2>3 DEF Loop, FinishUnbind, SIInv, RxStages, SenderStep
  <2> QED
    BY <1>2, <2>1, <2>2, <2>3 DEF Loop
<1>3. CASE AfterSend
  <2>1. socket # "closed"
    BY <1>3 DEF AfterSend, SIInv, RxStages
  <2> QED
    BY <1>3, <2>1 DEF AfterSend, SenderStep
<1>4. ASSUME NEW type \in RxCancels, RxCancel(type) PROVE SenderStep
  BY <1>4, SessionAssumption DEF RxCancel, Cancel, SenderStep
<1>5. ASSUME NEW c \in Callers,
             \/ OfSender(Start(c)) \/ OfSender(Cancel(c))
             \/ OfSender(Progress(c)) \/ OfSender(WriteTimeout(c))
      PROVE  SenderStep
  BY <1>5 DEF OfSender, SenderStep
<1>6. CASE OfSender(SocketReset) \/ PeerReads
  BY <1>6 DEF OfSender, PeerReads, SenderStep
<1>7. ASSUME NEW cmd, PeerSend(cmd) PROVE SenderStep
  BY <1>7 DEF PeerSend, PeerSends, SenderStep
<1>8. ASSUME NEW f, PeerAnswer(f) PROVE SenderStep
  BY <1>8 DEF PeerAnswer, PeerSends, SenderStep
<1> QED
  BY <1>1, <1>2, <1>3, <1>4, <1>5, <1>6, <1>7, <1>8 DEF SNext, OwnNext

\* receive_op enters the loop as a caller does.
LEMMA RxInitiatesLoop ==
  ASSUME IInv, RxInitiates
  PROVE  \E f \in Frame, s \in 0..MaxSeq :
           /\ pc[Rx] \in {"idle", "done", "woken"}
           /\ f.cmd \in Cmds
           /\ WhileBufferBusy(Rx, f, s)
<1>1. /\ NextSequenceNumber \in 0..MaxSeq
      /\ sequence_number \in 0..MaxSeq
      /\ RxCommands \cup RxReplies \subseteq Cmds
  BY NextNumberType DEF IInv, TypeOK, RxCommands, RxReplies, Cmds, Commands
<1>2. \A cmd \in Cmds, n \in 0..MaxSeq :
        /\ [cmd |-> cmd, seq |-> n] \in Frame
        /\ [cmd |-> cmd, seq |-> n].cmd = cmd
  BY DEF Frame
<1>3. CASE \E cmd \in RxCommands : AsyncSendNumbered(Rx, cmd)
  BY <1>1, <1>2, <1>3 DEF AsyncSendNumbered, Initiate
<1>4. CASE \E cmd \in RxReplies, n \in 1..MaxSeq : AsyncSendReply(Rx, cmd, n)
  BY <1>1, <1>2, <1>4 DEF AsyncSendReply, Initiate
<1> QED
  BY <1>3, <1>4 DEF RxInitiates

\* An operation that receive_op starts has not been cancelled.
LEMMA RxNotCancelled ==
  ASSUME IInv, RxInitiates
  PROVE  Rx \in Callers /\ ~cancelled[Rx]
BY SessionAssumption DEF IInv, QueueMatchesWaiters, Initiate, RxInitiates,
   AsyncSendNumbered, AsyncSendReply

\* Whatever receive_op does, one operation at a time owns the buffer.
LEMMA SenderStepIInv ==
  ASSUME IInv, SenderStep
  PROVE  IInv'
<1>1. CASE RxInitiates
  BY <1>1, RxInitiatesLoop, RxNotCancelled, WhileBufferBusyIInv
<1>2. CASE RxShutdown
  <2>1. TypeOK'
    BY <1>2 DEF RxShutdown, CloseSocket, IInv, TypeOK, Stages, Ecs
  <2>2. /\ \A c \in Callers :
             pc'[c] = IF pc[c] = "writing" THEN "written" ELSE pc[c]
        /\ UNCHANGED <<send_cv, send_buf, frame, cancelled>>
    BY <1>2 DEF RxShutdown, CloseSocket
  <2>3. \A i \in 1..Len(send_cv) : send_cv[i] \in Callers
    BY ElementOfSeq DEF IInv, TypeOK
  <2>4. QueueMatchesWaiters'
    BY <2>2, <2>3 DEF IInv, QueueMatchesWaiters
  <2>5. Writing' = Writing /\ Active' = Active
    BY <2>2 DEF Writing, Active
  <2> QED
    BY <2>1, <2>2, <2>4, <2>5
    DEF IInv, FramesNamed, WriterOwnsBuffer, Writing, Active
<1>3. ASSUME NEW c \in Callers,
             Start(c) \/ Progress(c) \/ WriteTimeout(c) \/ Cancel(c)
      PROVE  IInv'
  BY <1>3, NextIInv DEF Next
<1>4. CASE PeerRead \/ SocketReset \/ UNCHANGED vars
  BY <1>4, NextIInv DEF Next
<1> QED
  BY <1>1, <1>2, <1>3, <1>4 DEF SenderStep
-----------------------------------------------------------------------------
(* receive_op uses the sending half as any caller may. *)

LEMMA SenderInit == Init => Sender!Init
BY DEF Init, Sender!Init, NoFrame, Sender!NoFrame

\* The substitution leaves every part of an operation as it is.
LEMMA SameLoop ==
  ASSUME NEW c, NEW f, NEW s
  PROVE  /\ Initiate(c, f, s) <=> Sender!Initiate(c, f, s)
         /\ WhileBufferBusy(c, f, s) <=> Sender!WhileBufferBusy(c, f, s)
<1>1. WhileBufferBusy(c, f, s) <=> Sender!WhileBufferBusy(c, f, s)
  <2>1. WaitOnCv(c, f, s) <=> Sender!WaitOnCv(c, f, s)
    BY DEF WaitOnCv, Sender!WaitOnCv, netVars, Sender!netVars
  <2>2. StartWrite(c, f, s) <=> Sender!StartWrite(c, f, s)
    BY DEF StartWrite, Sender!StartWrite, netVars, Sender!netVars,
           NextSequenceNumber, Sender!NextSequenceNumber
  <2>3. SerializeFails(c, f, s) <=> Sender!SerializeFails(c, f, s)
    BY DEF SerializeFails, Sender!SerializeFails, netVars, Sender!netVars,
           Complete, Sender!Complete
  <2> QED
    BY <2>1, <2>2, <2>3
    DEF WhileBufferBusy, Sender!WhileBufferBusy, NoFrame, Sender!NoFrame
<1> QED
  BY <1>1 DEF Initiate, Sender!Initiate

LEMMA SameProgress ==
  ASSUME NEW c
  PROVE  /\ Progress(c) <=> Sender!Progress(c)
         /\ WriteTimeout(c) => Sender!WriteTimeout(c)
         /\ Cancel(c) <=> Sender!Cancel(c)
<1>1. Resume(c) <=> Sender!Resume(c)
  BY SameLoop DEF Resume, Sender!Resume, Complete, Sender!Complete, netVars,
                  Sender!netVars
<1>2. WriteSome(c) <=> Sender!WriteSome(c)
  BY DEF WriteSome, Sender!WriteSome, EndWrite, Sender!EndWrite, Size,
         Sender!Size, Commands, Sender!Commands
<1>3. WriteError(c) <=> Sender!WriteError(c)
  BY DEF WriteError, Sender!WriteError, EndWrite, Sender!EndWrite, netVars,
         Sender!netVars
<1>4. WriteHandler(c) <=> Sender!WriteHandler(c)
  BY DEF WriteHandler, Sender!WriteHandler, TimedOut, Sender!TimedOut,
         Complete, Sender!Complete, CancelOne, Sender!CancelOne, netVars,
         Sender!netVars, NoFrame, Sender!NoFrame, Commands, Sender!Commands
<1>5. WriteTimeout(c) => Sender!WriteTimeout(c)
  BY DEF WriteTimeout, Sender!WriteTimeout, EndWrite, Sender!EndWrite,
         netVars, Sender!netVars, Commands, Sender!Commands
<1>6. Cancel(c) <=> Sender!Cancel(c)
  <2>1. CancelQueued(c) <=> Sender!CancelQueued(c)
    BY DEF CancelQueued, Sender!CancelQueued, netVars, Sender!netVars,
           RemoveAt, Sender!RemoveAt
  <2>2. CancelWoken(c) <=> Sender!CancelWoken(c)
    BY DEF CancelWoken, Sender!CancelWoken, netVars, Sender!netVars
  <2>3. CancelWriting(c) <=> Sender!CancelWriting(c)
    BY DEF CancelWriting, Sender!CancelWriting, EndWrite, Sender!EndWrite,
           netVars, Sender!netVars
  <2>4. CancelWritten(c) <=> Sender!CancelWritten(c)
    BY DEF CancelWritten, Sender!CancelWritten, netVars, Sender!netVars
  <2> QED
    BY <2>1, <2>2, <2>3, <2>4 DEF Cancel, Sender!Cancel
<1> QED
  BY <1>1, <1>2, <1>3, <1>4, <1>5, <1>6 DEF Progress, Sender!Progress

\* What the callers may start, and what receive_op starts, a caller of the
\* sending half may start.
LEMMA SenderStart ==
  ASSUME NEW c \in Callers, Start(c) \/ (c = Rx /\ RxInitiates)
  PROVE  Sender!Start(c)
<1>1. Sender!MayStart(c)
  BY DEF Start, MayStart, Sender!MayStart, RxInitiates, AsyncSendNumbered,
         AsyncSendReply, Initiate
<1>2. CASE AsyncSendRequest(c)
  BY <1>1, <1>2, SameLoop DEF AsyncSendRequest, Sender!AsyncSendRequest,
     Sender!Start, Cmds
<1>3. ASSUME NEW n \in 1..MaxSeq, AsyncSendResponse(c, n)
      PROVE  Sender!Start(c)
  BY <1>1, <1>3, SameLoop DEF AsyncSendResponse, Sender!AsyncSendResponse,
     Sender!Start, Cmds
<1>4. ASSUME NEW cmd \in RxCommands, AsyncSendNumbered(c, cmd)
      PROVE  Sender!Start(c)
  BY <1>1, <1>4, SameLoop DEF AsyncSendNumbered, Sender!AsyncSendNumbered,
     Sender!Start, Cmds, Commands, RxCommands, NextSequenceNumber,
     Sender!NextSequenceNumber
<1>5. ASSUME NEW cmd \in RxReplies, NEW n \in 1..MaxSeq,
             AsyncSendReply(c, cmd, n)
      PROVE  Sender!Start(c)
  BY <1>1, <1>5, SameLoop DEF AsyncSendReply, Sender!AsyncSendReply,
     Sender!Start, Cmds, Commands, RxReplies
<1> QED
  BY <1>2, <1>3, <1>4, <1>5, SendPathAssumption
  DEF Start, RxInitiates, RxCommands, RxReplies

LEMMA SenderStepSimulates ==
  ASSUME SenderStep
  PROVE  [Sender!Next]_(Sender!vars)
<1>1. CASE UNCHANGED vars
  BY <1>1 DEF vars, sendVars, opVars, netVars, Sender!vars, Sender!sendVars,
              Sender!opVars, Sender!netVars
<1>2. CASE RxInitiates
  BY <1>2, SenderStart, SessionAssumption DEF Sender!Next
<1>3. CASE RxShutdown /\ socket # "closed"
  BY <1>3 DEF RxShutdown, CloseSocket, Sender!CloseSocket,
              Sender!ShutdownSocket, Sender!Next
<1>4. ASSUME NEW c \in Callers,
             Start(c) \/ Progress(c) \/ WriteTimeout(c) \/ Cancel(c)
      PROVE  Sender!Next
  BY <1>4, SenderStart, SameProgress DEF Sender!Next
<1>5. CASE PeerRead
  BY <1>5 DEF PeerRead, Sender!PeerRead, sendVars, opVars, Sender!sendVars,
              Sender!opVars, Sender!Next
<1>6. CASE SocketReset
  BY <1>6 DEF SocketReset, Sender!SocketReset, sendVars, opVars,
              Sender!sendVars, Sender!opVars, Sender!Next
<1> QED
  BY <1>1, <1>2, <1>3, <1>4, <1>5, <1>6 DEF SenderStep
-----------------------------------------------------------------------------
(* The state of receive_op stays well typed. *)

\* Dropping and taking a part of a sequence.
LEMMA DropType ==
  ASSUME NEW S, NEW s \in Seq(S), NEW n \in 0..Len(s)
  PROVE  /\ SubSeq(s, n + 1, Len(s)) \in Seq(S)
         /\ Len(SubSeq(s, n + 1, Len(s))) = Len(s) - n
         /\ \A i \in 1..Len(s) - n : SubSeq(s, n + 1, Len(s))[i] = s[n + i]
<1>1. Len(s) \in Nat /\ n + 1 \in Int /\ Len(s) \in Int
  BY LenProperties
<1>2. \A i \in n + 1..Len(s) : s[i] \in S
  BY <1>1, ElementOfSeq
<1> QED
  BY <1>1, <1>2, SubSeqProperties, SMTT(30)

LEMMA TakeType ==
  ASSUME NEW S, NEW s \in Seq(S), NEW n \in 1..Len(s)
  PROVE  /\ SubSeq(s, 1, n) \in Seq(S)
         /\ Len(SubSeq(s, 1, n)) = n
         /\ \A i \in 1..n : SubSeq(s, 1, n)[i] = s[i]
<1>1. Len(s) \in Nat /\ n \in Int
  BY LenProperties
<1>2. \A i \in 1..n : s[i] \in S
  BY <1>1, ElementOfSeq
<1> QED
  BY <1>1, <1>2, SubSeqProperties, SMTT(30)

\* A frame of the peer's has the units that its header says.
LEMMA UnitsOfType ==
  ASSUME NEW f \in Frame, f.cmd \in Cmds,
         f.cmd \in RxCommands => f.seq # 0
  PROVE  /\ UnitsOf(f) \in Seq(PeerUnit)
         /\ Len(UnitsOf(f)) = Size(f.cmd)
         /\ \A i \in 1..Size(f.cmd) : UnitsOf(f)[i] = [frame |-> f, part |-> i]
<1>1. Size(f.cmd) \in Nat
  BY SizeType
<1>2. \A i \in 1..Size(f.cmd) : [frame |-> f, part |-> i] \in PeerUnit
  BY <1>1 DEF PeerUnit, Unit
<1>3. UnitsOf(f) \in [1..Size(f.cmd) -> PeerUnit]
  BY <1>2 DEF UnitsOf
<1> QED
  BY <1>1, <1>3, IsASeq, LenProperties, SMT DEF UnitsOf

\* The first frame leaves the buffer.
LEMMA ConsumeType ==
  ASSUME RxTypes, HasFrame, Consume(HeadFrame)
  PROVE  /\ receive_buf' \in Seq(PeerUnit)
         /\ Len(receive_buf') = Len(receive_buf) - Size(HeadFrame.cmd)
         /\ Len(receive_buf') <= Len(receive_buf)
         /\ consumed' \in 0..MaxSeq
         /\ Size(HeadFrame.cmd) \in 1..Len(receive_buf)
<1>1. /\ receive_buf \in Seq(PeerUnit) /\ Len(receive_buf) \in Nat
      /\ HeadFrame \in Frame /\ HeadFrame.cmd \in Cmds
  BY LenProperties, HeadFrameType DEF RxTypes, HasFrame
<1>2. Size(HeadFrame.cmd) \in 1..Len(receive_buf)
  BY <1>1, SizeType DEF HasFrame
<1>3. HeadFrame.seq \in 0..MaxSeq
  BY <1>1 DEF Frame
<1>4. consumed' \in 0..MaxSeq
  BY <1>3 DEF Consume, RxTypes
<1> DEFINE n == Size(HeadFrame.cmd)
<1>5. n \in 0..Len(receive_buf) /\ n \in 1..Len(receive_buf)
  BY <1>1, <1>2
<1>6. receive_buf' = SubSeq(receive_buf, n + 1, Len(receive_buf))
  BY DEF Consume
<1> HIDE DEF n
<1>7. /\ receive_buf' \in Seq(PeerUnit)
      /\ Len(receive_buf') = Len(receive_buf) - n
  BY <1>1, <1>5, <1>6, DropType, Zenon
<1>8. Len(receive_buf') <= Len(receive_buf)
  BY <1>1, <1>5, <1>7
<1> QED
  BY <1>4, <1>5, <1>7, <1>8 DEF n

\* receive_op suspends with the frame that it was told to send.
LEMMA RxSendFrame ==
  ASSUME TypeOK, NEW cmd \in RxCommands \cup RxReplies, NEW n, NEW s,
         RxSend(cmd, n, s)
  PROVE  /\ frame'[Rx] = [cmd |-> cmd, seq |-> n]
         /\ UNCHANGED <<socket, wire, last_read>>
         /\ rx' = "sending"
BY SessionAssumption
DEF TypeOK, RxSend, Initiate, WhileBufferBusy, WaitOnCv, StartWrite,
    SerializeFails, netVars, RxCommands, RxReplies

\* While receive_op waits for its command, others start, and the command is
\* moved along, but it stays the same command.
LEMMA RxFrameKept ==
  ASSUME IInv, RxStages, NEW c \in Callers,
         \/ c # Rx /\ Start(c)
         \/ Progress(c) \/ WriteTimeout(c) \/ Cancel(c)
  PROVE  /\ rx = "sending" => frame'[Rx] = frame[Rx]
         /\ UNCHANGED <<socket, last_read>>
<1>1. frame \in [Callers -> Frame] /\ Rx \in Callers
  BY SessionAssumption DEF IInv, TypeOK
<1>2. ASSUME NEW f \in Frame, NEW s, WhileBufferBusy(c, f, s),
             c = Rx => f = frame[Rx]
      PROVE  /\ rx = "sending" => frame'[Rx] = frame[Rx]
             /\ UNCHANGED <<socket, last_read>>
  <2>1. UNCHANGED <<socket, last_read>>
    BY <1>2 DEF WhileBufferBusy, WaitOnCv, StartWrite, SerializeFails, netVars
  <2>2. CASE c # Rx
    BY <1>1, <1>2, <2>1, <2>2
    DEF WhileBufferBusy, WaitOnCv, StartWrite, SerializeFails
  <2>3. CASE c = Rx /\ rx = "sending"
    <3>1. f.cmd # "request" /\ [cmd |-> f.cmd, seq |-> f.seq] = f
      BY <1>2, <2>3 DEF RxStages, RxCommands, RxReplies, Frame
    <3> QED
      BY <1>1, <1>2, <2>1, <2>3, <3>1
      DEF WhileBufferBusy, WaitOnCv, StartWrite, SerializeFails
  <2> QED
    BY <2>1, <2>2, <2>3
<1>3. CASE c # Rx /\ Start(c)
  <2>1. PICK f \in Frame, s \in 0..MaxSeq : WhileBufferBusy(c, f, s)
    BY <1>3, StartEntersLoop DEF IInv
  <2> QED
    BY <1>2, <1>3, <2>1
<1>4. CASE Resume(c)
  BY <1>1, <1>2, <1>4 DEF Resume, netVars
<1>5. CASE \/ WriteSome(c) \/ WriteError(c) \/ WriteHandler(c)
           \/ WriteTimeout(c) \/ Cancel(c)
  BY <1>5 DEF WriteSome, WriteError, WriteHandler, WriteTimeout, Cancel,
              CancelQueued, CancelWoken, CancelWriting, CancelWritten, netVars
<1> QED
  BY <1>3, <1>4, <1>5 DEF Progress

RxTyped == RxTypes /\ RxStages

\* A step in which receive_op has no part.
LEMMA RxKept ==
  ASSUME RxTyped, UNCHANGED <<rxVars, inq, peerVars>>,
         socket' = "closed" => socket = "closed",
         rx = "sending" => frame'[Rx] = frame[Rx]
  PROVE  RxTyped'
BY DEF RxTyped, RxTypes, RxStages, rxVars, rxState, peerVars, HasFrame,
       HasHeader, HeadFrame

LEMMA OfSenderTyped ==
  ASSUME SIInv, NEW c \in Callers,
         \/ c # Rx /\ (OfSender(Start(c)) \/ OfSender(Cancel(c)))
         \/ OfSender(Progress(c)) \/ OfSender(WriteTimeout(c))
  PROVE  RxTyped'
BY RxFrameKept, RxKept DEF OfSender, SIInv, RxTyped

LEMMA AsyncReceiveTyped ==
  ASSUME SIInv, AsyncReceive
  PROVE  RxTyped'
<1>1. /\ UNCHANGED <<socket, received, receive_buf, pending_enquire_link>>
      /\ UNCHANGED <<needs_post, rx_cancelled, result, consumed, inq>>
      /\ UNCHANGED <<peer_seq, owed>>
      /\ rx = "idle" /\ rx' = "loop"
      /\ rx_ec \in {"ok", "aborted"} /\ rx_ec' = "ok"
      /\ silence' = 0
  BY DEF AsyncReceive, vars, netVars, peerVars
<1>2. RxTypes'
  BY <1>1 DEF SIInv, RxTypes, Ecs
<1>3. RxStages'
  BY <1>1 DEF SIInv, RxStages
<1> QED
  BY <1>2, <1>3 DEF RxTyped

\* The operation completes.
LEMMA RxCompleteTyped ==
  ASSUME SIInv, NEW e \in Ecs \cup {"unbinded"}, NEW f \in Frame,
         RxComplete(e, f), received = <<>>, UNCHANGED <<inq, peerVars>>,
         socket' = "closed" => e \notin {"ok", "aborted"},
         receive_buf' \in Seq(PeerUnit),
         Len(receive_buf') <= Len(receive_buf),
         consumed' \in 0..MaxSeq
  PROVE  RxTyped'
<1>1. /\ Len(receive_buf) \in Nat /\ Len(receive_buf') \in Nat
      /\ Len(received) \in Nat /\ Capacity \in Nat
      /\ Len(receive_buf) + Len(received) <= Capacity
  BY LenProperties, SessionAssumption DEF SIInv, RxTypes
<1>2. Len(receive_buf') + Len(received') <= Capacity
  BY <1>1 DEF RxComplete
<1>3. RxTypes'
  BY <1>2 DEF RxComplete, SIInv, RxTypes, peerVars
<1>4. RxStages'
  BY DEF RxComplete, RxStages
<1> QED
  BY <1>3, <1>4 DEF RxTyped
LEMMA LoopTyped ==
  ASSUME SIInv, Loop
  PROVE  RxTyped'
<1>1. /\ rx = "loop" /\ received = <<>>
      /\ rx_ec \in {"ok", "aborted", "neterr"}
      /\ socket # "closed"
  BY DEF Loop, SIInv, RxStages
<1>2. CASE StartRead
  <2>1. /\ UNCHANGED <<socket, received, receive_buf, pending_enquire_link>>
        /\ UNCHANGED <<result, consumed, silence, inq, peer_seq, owed>>
        /\ needs_post' = FALSE /\ rx_cancelled' = FALSE
        /\ \/ rx' = "reading" /\ rx_ec' = rx_ec
           \/ rx' = "read" /\ rx_ec' = "ok"
    BY <1>2 DEF StartRead, vars, netVars, peerVars
  <2>2. RxTypes'
    BY <2>1 DEF SIInv, RxTypes, Ecs
  <2>3. RxStages'
    BY <1>1, <2>1 DEF RxStages
  <2> QED
    BY <2>2, <2>3 DEF RxTyped
<1>3. CASE AnswerCommand
  <2>1. /\ UNCHANGED <<rx_ec, received, receive_buf, pending_enquire_link>>
        /\ UNCHANGED <<needs_post, rx_cancelled, result, consumed, silence>>
        /\ UNCHANGED <<inq, peer_seq, owed>>
        /\ HasFrame
    BY <1>3 DEF AnswerCommand, peerVars
  <2>2. /\ UNCHANGED socket /\ rx' = "sending"
        /\ frame'[Rx].cmd = IF HeadFrame.cmd = "unbind"
                            THEN "unbind_resp" ELSE "enquire_link_resp"
        /\ frame'[Rx].seq = HeadFrame.seq
        /\ HeadFrame.cmd \in RxCommands
    <3>1. PICK cmd \in RxReplies :
            /\ RxSend(cmd, HeadFrame.seq, sequence_number)
            /\ HeadFrame.cmd \in RxCommands
            /\ cmd = IF HeadFrame.cmd = "unbind"
                     THEN "unbind_resp" ELSE "enquire_link_resp"
      BY <1>3 DEF AnswerCommand, AnswerNumber, RxReplies, RxCommands
    <3>2. TypeOK /\ cmd \in RxCommands \cup RxReplies
      BY DEF SIInv, IInv
    <3>3. /\ frame'[Rx] = [cmd |-> cmd, seq |-> HeadFrame.seq]
          /\ UNCHANGED <<socket, wire, last_read>>
          /\ rx' = "sending"
      BY <3>1, <3>2, RxSendFrame, Zenon
    <3> QED
      BY <3>1, <3>3
  <2>3. HasFrame' /\ HeadFrame' = HeadFrame
    BY <2>1 DEF HasFrame, HasHeader, HeadFrame
  <2>4. RxTypes'
    BY <2>1, <2>2 DEF SIInv, RxTypes
  <2>5. RxStages'
    BY <1>1, <2>1, <2>2, <2>3 DEF RxStages, RxReplies, RxCommands
  <2> QED
    BY <2>4, <2>5 DEF RxTyped
<1>4. CASE SkipEnquireLinkResp
  <2>1. /\ UNCHANGED <<rxState, socket, result, inq, peerVars>>
        /\ receive_buf' \in Seq(PeerUnit)
        /\ Len(receive_buf') <= Len(receive_buf)
        /\ consumed' \in 0..MaxSeq
    BY <1>4, ConsumeType DEF SkipEnquireLinkResp, vars, netVars, SIInv
  <2>2. /\ Len(receive_buf) \in Nat /\ Len(receive_buf') \in Nat
        /\ Len(received) \in Nat /\ Capacity \in Nat
    BY <2>1, LenProperties, SessionAssumption DEF SIInv, RxTypes
  <2>3. RxTypes'
    BY <2>1, <2>2 DEF SIInv, RxTypes, rxState, peerVars
  <2>4. RxStages'
    BY <1>1, <2>1 DEF RxStages, rxState
  <2> QED
    BY <2>3, <2>4 DEF RxTyped
<1>5. CASE FinishUnbind \/ (DeliverNow /\ HasFrame)
  <2>1. /\ receive_buf' \in Seq(PeerUnit)
        /\ Len(receive_buf') <= Len(receive_buf)
        /\ consumed' \in 0..MaxSeq
        /\ HeadFrame \in Frame
        /\ UNCHANGED <<inq, peerVars>>
    BY <1>5, ConsumeType, HeadFrameType
    DEF FinishUnbind, DeliverNow, HasFrame, SIInv
  <2>2. CASE FinishUnbind
    BY <1>1, <2>1, <2>2, RxCompleteTyped DEF FinishUnbind
  <2>3. CASE DeliverNow
    <3>1. socket' # "closed"
      BY <1>1, <2>3 DEF DeliverNow, vars, netVars
    <3> QED
      BY <1>1, <2>1, <2>3, <3>1, RxCompleteTyped DEF DeliverNow, Ecs
  <2> QED
    BY <1>5, <2>2, <2>3
<1>6. CASE DeliverOrPost /\ ~DeliverNow
  <2>1. /\ UNCHANGED <<rx_ec, received, receive_buf, pending_enquire_link>>
        /\ UNCHANGED <<needs_post, rx_cancelled, result, consumed, silence>>
        /\ UNCHANGED <<inq, peer_seq, owed, socket>>
        /\ HasFrame /\ rx' = "posted"
        /\ HeadFrame.cmd \in {"request", "response"}
    BY <1>6 DEF DeliverOrPost, vars, netVars, peerVars
  <2>2. RxTypes'
    BY <2>1 DEF SIInv, RxTypes
  <2>3. RxStages'
    BY <1>1, <2>1 DEF RxStages, HasFrame, HasHeader, HeadFrame
  <2> QED
    BY <2>2, <2>3 DEF RxTyped
<1>7. DeliverOrPost => HasFrame
  BY DEF DeliverOrPost
<1>8. ASSUME DeliverOrPost PROVE RxTyped'
  <2>1. CASE DeliverNow
    BY <1>5, <1>7, <1>8, <2>1
  <2>2. CASE ~DeliverNow
    BY <1>6, <1>8, <2>2
  <2> QED
    BY <2>1, <2>2
<1>9. ASSUME FinishUnbind PROVE RxTyped'
  BY <1>5, <1>9
<1> QED
  BY <1>2, <1>3, <1>4, <1>8, <1>9 DEF Loop

LEMMA PostedTyped ==
  ASSUME SIInv, Posted
  PROVE  RxTyped'
<1>1. HasFrame /\ received = <<>> /\ socket # "closed"
  BY DEF Posted, SIInv, RxStages
<1>2. /\ receive_buf' \in Seq(PeerUnit)
      /\ Len(receive_buf') <= Len(receive_buf)
      /\ consumed' \in 0..MaxSeq
      /\ HeadFrame \in Frame
      /\ UNCHANGED <<inq, peerVars, socket>>
  BY <1>1, ConsumeType, HeadFrameType
  DEF Posted, DeliverNow, HasFrame, SIInv, vars, netVars
<1> QED
  BY <1>1, <1>2, RxCompleteTyped DEF Posted, DeliverNow, Ecs

LEMMA ReadTyped ==
  ASSUME SIInv, ReadSome \/ ReadError \/ ReadTimeout
  PROVE  RxTyped'
<1>1. /\ rx = "reading" /\ received = <<>> /\ socket # "closed"
      /\ receive_buf \in Seq(PeerUnit) /\ Len(receive_buf) \in Nat
      /\ inq \in Seq(PeerUnit) /\ Len(inq) \in Nat
      /\ Len(received) = 0 /\ Capacity \in Nat
  BY LenProperties, EmptySeq, SessionAssumption
  DEF ReadSome, ReadError, ReadTimeout, SIInv, RxStages, RxTypes
<1>2. /\ UNCHANGED <<socket, receive_buf, pending_enquire_link, needs_post>>
      /\ UNCHANGED <<rx_cancelled, result, consumed, peer_seq, owed>>
      /\ rx' = "read"
      /\ silence' \in {0, silence} \/ (silence \in {0, 2} /\ silence' = silence + 1)
      /\ rx_ec' \in {"ok", "aborted", "neterr"}
      /\ received' # <<>> => rx_ec' = "ok"
  BY <1>1 DEF ReadSome, ReadError, ReadTimeout, EndRead, vars, netVars, peerVars
<1>3. /\ received' \in Seq(PeerUnit) /\ inq' \in Seq(PeerUnit)
      /\ Len(receive_buf) + Len(received') <= Capacity
  <2>1. CASE ReadSome
    <3>1. PICK k \in 1..Len(inq) :
            /\ k <= Capacity - Len(receive_buf)
            /\ received' = SubSeq(inq, 1, k)
            /\ inq' = SubSeq(inq, k + 1, Len(inq))
      BY <2>1 DEF ReadSome
    <3>2. k \in 1..Len(inq) /\ k \in 0..Len(inq)
      BY <1>1, <3>1
    <3>3. /\ received' \in Seq(PeerUnit) /\ Len(received') = k
          /\ inq' \in Seq(PeerUnit) /\ Len(inq') = Len(inq) - k
      <4>1. received' \in Seq(PeerUnit) /\ Len(received') = k
        <5>1. inq \in Seq(PeerUnit) /\ k \in 1..Len(inq)
          BY <1>1, <3>2
        <5>2. /\ SubSeq(inq, 1, k) \in Seq(PeerUnit)
              /\ Len(SubSeq(inq, 1, k)) = k
          BY <5>1, TakeType, Zenon
        <5> QED
          BY <3>1, <5>2
      <4>2. inq' \in Seq(PeerUnit) /\ Len(inq') = Len(inq) - k
        <5>1. inq \in Seq(PeerUnit) /\ k \in 0..Len(inq)
          BY <1>1, <3>2
        <5>2. /\ SubSeq(inq, k + 1, Len(inq)) \in Seq(PeerUnit)
              /\ Len(SubSeq(inq, k + 1, Len(inq))) = Len(inq) - k
          BY <5>1, DropType, Zenon
        <5> QED
          BY <3>1, <5>2
      <4> QED
        BY <4>1, <4>2
    <3> QED
      BY <1>1, <3>1, <3>3
  <2>2. CASE ReadError \/ ReadTimeout
    BY <2>2 DEF ReadError, ReadTimeout, SIInv, RxTypes
  <2> QED
    BY <2>1, <2>2
<1>4. RxTypes'
  <2>1. silence' \in 0..3
    BY <1>2 DEF SIInv, RxTypes
  <2> QED
    BY <1>2, <1>3, <2>1 DEF SIInv, RxTypes, Ecs
<1>5. RxStages'
  BY <1>1, <1>2 DEF RxStages
<1> QED
  BY <1>4, <1>5 DEF RxTyped

LEMMA ReadHandlerTyped ==
  ASSUME SIInv, ReadHandler
  PROVE  RxTyped'
<1>1. /\ rx = "read" /\ socket # "closed"
      /\ receive_buf \in Seq(PeerUnit) /\ Len(receive_buf) \in Nat
      /\ received \in Seq(PeerUnit) /\ Len(received) \in Nat
      /\ Capacity \in Nat
      /\ Len(receive_buf) + Len(received) <= Capacity
      /\ UNCHANGED <<inq, peer_seq, owed>>
  BY LenProperties, SessionAssumption
  DEF ReadHandler, SIInv, RxStages, RxTypes, peerVars
<1>2. CASE /\ rx_ec = "ok" /\ DataReceived
           /\ rx' = "loop"
           /\ UNCHANGED <<vars, rx_ec, needs_post, rx_cancelled, result,
                          consumed, silence>>
  <2>1. receive_buf' = receive_buf \o received /\ received' = <<>>
    BY <1>2 DEF DataReceived, Commit
  <2>2. /\ receive_buf' \in Seq(PeerUnit)
        /\ Len(receive_buf') = Len(receive_buf) + Len(received)
        /\ received' \in Seq(PeerUnit) /\ Len(received') = 0
    BY <1>1, <2>1, ConcatProperties, EmptySeq
  <2>3. pending_enquire_link' \in BOOLEAN
    BY <1>2 DEF DataReceived, SIInv, RxTypes
  <2>4. RxTypes'
    BY <1>1, <1>2, <2>2, <2>3 DEF SIInv, RxTypes
  <2>5. RxStages'
    BY <1>1, <1>2, <2>1 DEF RxStages, vars, netVars
  <2> QED
    BY <2>4, <2>5 DEF RxTyped
<1>3. CASE rx_ec = "aborted" /\ AfterReadTimeout
  <2>1. received = <<>>
    BY <1>3 DEF SIInv, RxStages
  <2>2. /\ UNCHANGED <<rx_ec, received, receive_buf, needs_post, rx_cancelled>>
        /\ UNCHANGED <<result, consumed, silence>>
        /\ pending_enquire_link' \in BOOLEAN
    <3>1. pending_enquire_link' \in BOOLEAN
      BY <1>3 DEF AfterReadTimeout, SendUnbind, SendEnquireLink, SIInv, RxTypes
    <3> QED
      BY <1>3, <3>1 DEF AfterReadTimeout
  <2>3. /\ UNCHANGED socket /\ rx' = "sending"
        /\ frame'[Rx].cmd \in RxCommands
    <3>1. PICK cmd \in RxCommands :
            RxSend(cmd, NextSequenceNumber, NextSequenceNumber)
      BY <1>3 DEF AfterReadTimeout, SendUnbind, SendEnquireLink, RxCommands
    <3>2. TypeOK /\ cmd \in RxCommands \cup RxReplies
      BY DEF SIInv, IInv
    <3>3. /\ frame'[Rx] = [cmd |-> cmd, seq |-> NextSequenceNumber]
          /\ UNCHANGED <<socket, wire, last_read>>
          /\ rx' = "sending"
      BY <3>1, <3>2, RxSendFrame, Zenon
    <3> QED
      BY <3>3
  <2>4. RxTypes'
    BY <1>1, <2>2, <2>3 DEF SIInv, RxTypes
  <2>5. RxStages'
    BY <1>1, <1>3, <2>1, <2>2, <2>3 DEF RxStages, RxCommands, RxReplies
  <2> QED
    BY <2>4, <2>5 DEF RxTyped
<1>4. CASE /\ rx_ec \in {"neterr", "aborted"}
           /\ RxComplete(rx_ec, NoFrame)
           /\ UNCHANGED <<vars, receive_buf, consumed>>
  <2>1. received = <<>> /\ socket' # "closed"
    BY <1>1, <1>4 DEF SIInv, RxStages, vars, netVars
  <2>2. /\ receive_buf' \in Seq(PeerUnit)
        /\ Len(receive_buf') <= Len(receive_buf)
        /\ consumed' \in 0..MaxSeq
        /\ UNCHANGED <<inq, peerVars>>
    BY <1>1, <1>4 DEF SIInv, RxTypes, peerVars
  <2> QED
    BY <1>4, <2>1, <2>2, RxCompleteTyped, NoFrameType DEF Ecs
<1> QED
  BY <1>2, <1>3, <1>4 DEF ReadHandler

LEMMA AfterSendTyped ==
  ASSUME SIInv, AfterSend
  PROVE  RxTyped'
<1>1. /\ rx = "sending" /\ received = <<>> /\ socket # "closed"
      /\ rx_ec \in {"ok", "aborted", "neterr"}
      /\ receive_buf \in Seq(PeerUnit) /\ Len(receive_buf) \in Nat
      /\ consumed \in 0..MaxSeq
      /\ ec[Rx] \in Ecs /\ frame[Rx] \in Frame
      /\ UNCHANGED <<inq, peerVars>>
  BY LenProperties, SessionAssumption
  DEF AfterSend, SIInv, IInv, TypeOK, RxStages, RxTypes
<1>2. CASE /\ RxShutdown
           /\ RxComplete("enquire_link_timeout", frame[Rx])
           /\ UNCHANGED <<receive_buf, consumed>>
  BY <1>1, <1>2, RxCompleteTyped DEF Ecs
<1>3. CASE /\ RxComplete(ec[Rx], NoFrame)
           /\ UNCHANGED <<vars, receive_buf, consumed>>
  <2>1. socket' # "closed"
    BY <1>1, <1>3 DEF vars, netVars
  <2> QED
    BY <1>1, <1>3, <2>1, RxCompleteTyped, NoFrameType
<1>4. CASE /\ rx' = "loop"
           /\ silence' \in {2, silence}
           /\ UNCHANGED <<vars, rx_ec, received, pending_enquire_link,
                          needs_post, rx_cancelled, receive_buf, result,
                          consumed>>
  <2>1. RxTypes'
    BY <1>1, <1>4 DEF SIInv, RxTypes, peerVars
  <2>2. RxStages'
    BY <1>1, <1>4 DEF RxStages, vars, netVars
  <2> QED
    BY <2>1, <2>2 DEF RxTyped
<1>5. ASSUME frame[Rx].cmd \in RxReplies, Consume(HeadFrame)
      PROVE  /\ receive_buf' \in Seq(PeerUnit)
             /\ Len(receive_buf') <= Len(receive_buf)
             /\ consumed' \in 0..MaxSeq
             /\ HeadFrame \in Frame
  BY <1>1, <1>5, ConsumeType, HeadFrameType DEF SIInv, RxStages, HasFrame
<1>6. CASE /\ frame[Rx].cmd = "unbind_resp"
           /\ RxShutdown
           /\ Consume(HeadFrame)
           /\ RxComplete("unbinded", HeadFrame)
  BY <1>1, <1>5, <1>6, RxCompleteTyped DEF RxReplies
<1>7. CASE /\ frame[Rx].cmd = "enquire_link_resp"
           /\ Consume(HeadFrame)
           /\ rx' = "loop"
           /\ UNCHANGED <<vars, rx_ec, received, pending_enquire_link,
                          needs_post, rx_cancelled, silence, result>>
  <2>1. /\ receive_buf' \in Seq(PeerUnit)
        /\ Len(receive_buf') <= Len(receive_buf)
        /\ consumed' \in 0..MaxSeq
    BY <1>5, <1>7 DEF RxReplies
  <2>2. /\ Len(receive_buf) \in Nat /\ Len(receive_buf') \in Nat
        /\ Len(received) \in Nat /\ Capacity \in Nat
    BY <2>1, LenProperties, SessionAssumption DEF SIInv, RxTypes
  <2>3. RxTypes'
    BY <1>7, <1>1, <2>1, <2>2 DEF SIInv, RxTypes, peerVars
  <2>4. RxStages'
    BY <1>1, <1>7 DEF RxStages, vars, netVars
  <2> QED
    BY <2>3, <2>4 DEF RxTyped
<1> QED
  BY <1>2, <1>3, <1>4, <1>6, <1>7 DEF AfterSend

LEMMA RxCancelTyped ==
  ASSUME SIInv, NEW type \in RxCancels, RxCancel(type)
  PROVE  RxTyped'
<1>1. /\ rx # "idle" /\ socket # "closed"
      /\ UNCHANGED <<received, receive_buf, pending_enquire_link, needs_post>>
      /\ UNCHANGED <<result, consumed, silence, inq, peer_seq, owed>>
      /\ rx_cancelled' = TRUE
  BY DEF RxCancel, SIInv, RxStages, peerVars
<1>2. rx = "sending" => UNCHANGED <<socket, frame>>
  BY DEF RxCancel, CancelQueued, CancelWoken, CancelWriting, CancelWritten,
         netVars, vars, sendVars, opVars
<1>3. rx # "sending" => UNCHANGED socket
  BY DEF RxCancel, vars, netVars
<1>4. CASE rx = "reading"
  <2>1. rx' = "read" /\ rx_ec' = "aborted" /\ received = <<>>
    BY <1>4 DEF RxCancel, EndRead, SIInv, RxStages
  <2>2. RxTypes'
    BY <1>1, <2>1 DEF SIInv, RxTypes, Ecs
  <2>3. RxStages'
    BY <1>1, <1>3, <1>4, <2>1 DEF RxStages
  <2> QED
    BY <2>2, <2>3 DEF RxTyped
<1>5. CASE rx # "reading"
  <2>1. UNCHANGED <<rx, rx_ec, socket>>
    BY <1>2, <1>3, <1>5 DEF RxCancel
  <2>2. RxTypes'
    BY <1>1, <2>1 DEF SIInv, RxTypes
  <2>3. RxStages'
    BY <1>1, <1>2, <2>1 DEF SIInv, RxStages, HasFrame, HasHeader, HeadFrame
  <2> QED
    BY <2>2, <2>3 DEF RxTyped
<1> QED
  BY <1>4, <1>5

LEMMA PeerSendsTyped ==
  ASSUME SIInv, NEW f \in Frame, PeerSends(f), f.cmd \in Cmds,
         f.cmd \in RxCommands => f.seq # 0,
         peer_seq' \in 0..MaxPeerFrames,
         owed' \subseteq {g \in Frame : g.cmd \in Numbered}
  PROVE  RxTyped'
<1>1. /\ UNCHANGED <<rxVars, socket, frame>>
      /\ inq' = inq \o UnitsOf(f)
  BY DEF PeerSends, vars, netVars, sendVars, opVars
<1>2. inq \in Seq(PeerUnit)
  BY DEF SIInv, RxTypes
<1>3. UnitsOf(f) \in Seq(PeerUnit)
  BY UnitsOfType
<1>4. inq' \in Seq(PeerUnit)
  BY <1>1, <1>2, <1>3, ConcatProperties
<1>5. RxTypes'
  BY <1>1, <1>4 DEF SIInv, RxTypes, rxVars, rxState
<1>6. RxStages'
  BY <1>1 DEF SIInv, RxStages, rxVars, rxState, HasFrame, HasHeader, HeadFrame
<1> QED
  BY <1>5, <1>6 DEF RxTyped

LEMMA PeerTyped ==
  ASSUME SIInv,
         \/ \E cmd \in Numbered : PeerSend(cmd)
         \/ \E f \in owed : PeerAnswer(f)
         \/ PeerReads
         \/ OfSender(SocketReset)
  PROVE  RxTyped'
<1>1. ASSUME NEW cmd \in Numbered, PeerSend(cmd) PROVE RxTyped'
  <2>1. /\ peer_seq \in 0..MaxPeerFrames /\ MaxPeerFrames \in 0..MaxSeq
        /\ MaxSeq \in Nat
        /\ peer_seq < MaxPeerFrames /\ peer_seq' = peer_seq + 1
    BY <1>1, SessionAssumption, SendPathAssumption
    DEF PeerSend, SIInv, RxTypes
  <2>2. peer_seq + 1 \in 1..MaxSeq /\ peer_seq' \in 0..MaxPeerFrames
    BY <2>1
  <2> DEFINE f == [cmd |-> cmd, seq |-> peer_seq + 1]
  <2>3. /\ f \in Frame /\ f.cmd \in Cmds /\ f.seq # 0
        /\ PeerSends(f)
        /\ UNCHANGED owed
    BY <1>1, <2>2 DEF PeerSend, Frame, Numbered, Cmds, Commands
  <2>4. owed' \subseteq {g \in Frame : g.cmd \in Numbered}
    BY <2>3 DEF SIInv, RxTypes
  <2> HIDE DEF f
  <2> QED
    BY <2>2, <2>3, <2>4, PeerSendsTyped
<1>2. ASSUME NEW a \in owed, PeerAnswer(a) PROVE RxTyped'
  <2> DEFINE f == [cmd |-> AnswerTo(a.cmd), seq |-> a.seq]
  <2>1. a \in Frame /\ a.cmd \in Numbered
    BY DEF SIInv, RxTypes
  <2>2. AnswerTo(a.cmd) \in {"response", "enquire_link_resp", "unbind_resp"}
    BY <2>1 DEF AnswerTo, Numbered
  <2>3. /\ f \in Frame /\ f.cmd \in Cmds /\ f.cmd \notin RxCommands
        /\ PeerSends(f)
    BY <1>2, <2>1, <2>2 DEF PeerAnswer, Frame, Cmds, Commands, RxCommands
  <2>4. /\ owed' \subseteq {g \in Frame : g.cmd \in Numbered}
        /\ peer_seq' \in 0..MaxPeerFrames
    BY <1>2 DEF PeerAnswer, SIInv, RxTypes
  <2> HIDE DEF f
  <2> QED
    BY <2>3, <2>4, PeerSendsTyped
<1>3. CASE PeerReads
  <2>1. /\ UNCHANGED <<rxVars, inq, peer_seq, socket, frame>>
        /\ wire # <<>> /\ wire \in Seq(Unit)
    BY <1>3 DEF PeerReads, PeerRead, sendVars, opVars, SIInv, IInv, TypeOK
  <2>2. Head(wire) \in Unit
    BY <2>1, HeadTailProperties
  <2>3. Head(wire).frame \in Frame
    BY <2>2 DEF Unit
  <2>4. owed' \subseteq owed \cup {f \in {Head(wire).frame} : f.cmd \in Numbered}
    BY <1>3 DEF PeerReads
  <2>5. owed' \subseteq {f \in Frame : f.cmd \in Numbered}
    BY <2>3, <2>4 DEF SIInv, RxTypes
  <2>6. RxTypes'
    BY <2>1, <2>5 DEF SIInv, RxTypes, rxVars, rxState
  <2>7. RxStages'
    BY <2>1 DEF SIInv, RxStages, rxVars, rxState, HasFrame, HasHeader, HeadFrame
  <2> QED
    BY <2>6, <2>7 DEF RxTyped
<1>4. CASE OfSender(SocketReset)
  <2>1. /\ UNCHANGED <<rxVars, inq, peerVars, frame>>
        /\ socket' = "reset"
    BY <1>4 DEF OfSender, SocketReset, sendVars, opVars
  <2> QED
    BY <2>1, RxKept DEF SIInv, RxTyped
<1> QED
  BY <1>1, <1>2, <1>3, <1>4

LEMMA SInitSIInv == SInit => SIInv
<1> SUFFICES ASSUME SInit PROVE SIInv
  OBVIOUS
<1>1. IInv
  BY InitIInv DEF SInit
<1>2. /\ <<>> \in Seq(PeerUnit) /\ Len(<<>>) = 0
      /\ MaxPeerFrames \in Nat /\ MaxSeq \in Nat /\ Capacity \in Nat
  BY EmptySeq, SessionAssumption, SendPathAssumption
<1>3. RxTypes
  <2>1. /\ received = <<>> /\ receive_buf = <<>> /\ inq = <<>>
        /\ Len(receive_buf) + Len(received) <= Capacity
        /\ 0 \in 0..MaxSeq /\ 0 \in 0..MaxPeerFrames
    BY <1>2 DEF SInit
  <2>2. /\ received \in Seq(PeerUnit) /\ receive_buf \in Seq(PeerUnit)
        /\ inq \in Seq(PeerUnit)
    BY <1>2, <2>1, Zenon
  <2>3. /\ rx = "idle" /\ rx_ec \in Ecs /\ result \in Frame /\ silence \in 0..3
        /\ peer_seq = 0 /\ consumed = 0
        /\ pending_enquire_link = FALSE /\ needs_post = TRUE
        /\ rx_cancelled = FALSE /\ owed = {}
    BY NoFrameType DEF SInit, Ecs
  <2> QED
    BY <2>1, <2>2, <2>3 DEF RxTypes
<1>4. RxStages
  BY DEF SInit, Init, RxStages
<1> QED
  BY <1>1, <1>3, <1>4 DEF SIInv

LEMMA SNextSIInv ==
  ASSUME SIInv, [SNext]_allVars
  PROVE  SIInv'
<1>1. CASE UNCHANGED allVars
  <2>1. IInv'
    BY <1>1, SenderStepIInv DEF SIInv, SenderStep, allVars
  <2>2. RxTyped'
    BY <1>1, RxKept
    DEF SIInv, RxTyped, allVars, vars, netVars, sendVars, opVars
  <2> QED
    BY <2>1, <2>2 DEF SIInv, RxTyped
<1>2. CASE SNext
  <2>1. IInv'
    BY <1>2, SenderSteps, SenderStepIInv DEF SIInv
  <2>2. ASSUME AsyncReceive \/ Loop \/ AfterSend \/ RxProgress \/ ReadTimeout
        PROVE  RxTyped'
    BY <2>2, AsyncReceiveTyped, LoopTyped, AfterSendTyped, PostedTyped,
       ReadTyped, ReadHandlerTyped DEF RxProgress
  <2>3. ASSUME \E type \in RxCancels : RxCancel(type)
        PROVE  RxTyped'
    BY <2>3, RxCancelTyped
  <2>4. ASSUME NEW c \in Callers,
               \/ c # Rx /\ (OfSender(Start(c)) \/ OfSender(Cancel(c)))
               \/ OfSender(Progress(c)) \/ OfSender(WriteTimeout(c))
        PROVE  RxTyped'
    BY <2>4, OfSenderTyped
  <2>5. RxTyped'
    BY <1>2, <2>2, <2>3, <2>4, PeerTyped DEF SNext, OwnNext
  <2> QED
    BY <2>1, <2>5 DEF SIInv, RxTyped
<1> QED
  BY <1>1, <1>2

\* What is on its way from the peer fits into the window.
InBound == Len(inq) <= InWindow

LEMMA SNextInBound ==
  ASSUME SIInv, InBound, [SNext]_allVars
  PROVE  InBound'
<1>1. inq \in Seq(PeerUnit) /\ Len(inq) \in Nat /\ InWindow \in Nat
  BY LenProperties, SessionAssumption DEF SIInv, RxTypes
<1>2. CASE ReadSome
  <2>1. PICK k \in 1..Len(inq) : inq' = SubSeq(inq, k + 1, Len(inq))
    BY <1>2 DEF ReadSome
  <2>2. k \in 0..Len(inq)
    BY <1>1, <2>1
  <2>3. Len(inq') = Len(inq) - k
    BY <1>1, <2>1, <2>2, DropType, Zenon
  <2> QED
    BY <1>1, <2>2, <2>3 DEF InBound
<1>3. ASSUME NEW f \in Frame, f.cmd \in Cmds,
             f.cmd \in RxCommands => f.seq # 0, PeerSends(f)
      PROVE  InBound'
  <2>1. /\ inq' = inq \o UnitsOf(f)
        /\ Len(inq) + Size(f.cmd) <= InWindow
    BY <1>3 DEF PeerSends
  <2>2. UnitsOf(f) \in Seq(PeerUnit) /\ Len(UnitsOf(f)) = Size(f.cmd)
    BY <1>3, UnitsOfType
  <2>3. Len(inq') = Len(inq) + Size(f.cmd)
    BY <1>1, <2>1, <2>2, ConcatProperties
  <2> QED
    BY <2>1, <2>3 DEF InBound
<1>4. CASE \E cmd \in Numbered : PeerSend(cmd)
  <2>1. PICK cmd \in Numbered :
          PeerSends([cmd |-> cmd, seq |-> peer_seq + 1]) /\ peer_seq < MaxPeerFrames
    BY <1>4 DEF PeerSend
  <2>2. /\ peer_seq \in 0..MaxPeerFrames /\ MaxPeerFrames \in 0..MaxSeq
        /\ MaxSeq \in Nat
    BY SessionAssumption, SendPathAssumption DEF SIInv, RxTypes
  <2> DEFINE f == [cmd |-> cmd, seq |-> peer_seq + 1]
  <2>3. f \in Frame /\ f.cmd \in Cmds /\ f.seq # 0 /\ PeerSends(f)
    BY <2>1, <2>2 DEF Frame, Numbered, Cmds, Commands
  <2> HIDE DEF f
  <2> QED
    BY <1>3, <2>3
<1>5. CASE \E a \in owed : PeerAnswer(a)
  <2>1. PICK a \in owed : PeerSends([cmd |-> AnswerTo(a.cmd), seq |-> a.seq])
    BY <1>5 DEF PeerAnswer
  <2>2. a \in Frame /\ a.cmd \in Numbered
    BY DEF SIInv, RxTypes
  <2> DEFINE f == [cmd |-> AnswerTo(a.cmd), seq |-> a.seq]
  <2>3. /\ f \in Frame /\ f.cmd \in Cmds /\ f.cmd \notin RxCommands
        /\ PeerSends(f)
    BY <2>1, <2>2
    DEF AnswerTo, Frame, Numbered, Cmds, Commands, RxCommands
  <2> HIDE DEF f
  <2> QED
    BY <1>3, <2>3
<1>6. CASE UNCHANGED inq
  BY <1>6 DEF InBound
<1>7. SNext \/ UNCHANGED inq
  BY DEF allVars
<1>8. ASSUME Loop \/ AfterSend \/ ReadHandler \/ Posted
      PROVE  UNCHANGED inq
  BY <1>8 DEF Loop, StartRead, AnswerCommand, SkipEnquireLinkResp, FinishUnbind,
              DeliverOrPost, DeliverNow, AfterSend, ReadHandler, Posted
<1>9. ASSUME SNext PROVE InBound'
  BY <1>2, <1>4, <1>5, <1>6, <1>8, <1>9
  DEF SNext, OwnNext, AsyncReceive, RxProgress, ReadError, ReadTimeout,
      RxCancel, OfSender, PeerReads
<1> QED
  BY <1>6, <1>7, <1>9
-----------------------------------------------------------------------------
(* Theorems. *)

LEMMA SIInvHolds == SSpec => []SIInv
<1>1. SInit => SIInv
  BY SInitSIInv
<1>2. SIInv /\ [SNext]_allVars => SIInv'
  BY SNextSIInv
<1> QED
  BY <1>1, <1>2, PTL DEF SSpec

\* However the peer's stream is cut into reads and whatever is cancelled or
\* times out, every variable of the session keeps its type; above all,
\* receive_buf_ is never committed more than its capacity, and receive_op never
\* consumes more than it holds.
THEOREM SessionTypeCorrect == SSpec => []STypeOK
<1>1. SIInv /\ InBound => STypeOK
  <2> SUFFICES ASSUME SIInv, InBound PROVE STypeOK
    OBVIOUS
  <2>1. PeerUnit \subseteq Unit
    BY DEF PeerUnit
  <2>2. /\ receive_buf \in Seq(PeerUnit) /\ received \in Seq(PeerUnit)
        /\ inq \in Seq(PeerUnit)
        /\ Len(receive_buf) \in Nat /\ Len(received) \in Nat
    BY LenProperties DEF SIInv, RxTypes
  <2>3. /\ receive_buf \in Seq(Unit) /\ received \in Seq(Unit)
        /\ inq \in Seq(Unit)
    BY <2>1, <2>2, SeqMonotonic, Zenon
  <2>4. Len(receive_buf) <= Capacity
    BY <2>2, SessionAssumption DEF SIInv, RxTypes
  <2> QED
    BY <2>3, <2>4 DEF SIInv, IInv, RxTypes, STypeOK, InBound
<1>2. SInit => InBound
  BY EmptySeq, SessionAssumption DEF SInit, InBound
<1>3. SIInv /\ InBound /\ [SNext]_allVars => InBound'
  BY SNextInBound
<1> QED
  BY <1>1, <1>2, <1>3, SIInvHolds, PTL DEF SSpec

\* The inner operations of receive_op and those of the callers do not resize or
\* clear send_buf_ under each other's async_write, although receive_op closes
\* the socket under them.
THEOREM SessionBufferOwnership == SSpec => []WriterOwnsBuffer
<1>1. SIInv => WriterOwnsBuffer
  BY DEF SIInv, IInv
<1> QED
  BY <1>1, SIInvHolds, PTL

\* receive_op, which sends enquire_link, unbind and the answers to the peer's,
\* cancels and closes the socket, uses the sending half as any caller may:
\* whatever holds of SendPath for every menu and every peer holds in a session.
THEOREM SessionImplementsSendPath == SSpec => ImplementsSendPath
<1>1. SInit => Sender!Init
  BY SenderInit DEF SInit
<1>2. SIInv /\ [SNext]_allVars => [Sender!Next]_(Sender!vars)
  <2> SUFFICES ASSUME SIInv, [SNext]_allVars PROVE [Sender!Next]_(Sender!vars)
    OBVIOUS
  <2>1. SenderStep
    BY SenderSteps DEF SenderStep, allVars
  <2> QED
    BY <2>1, SenderStepSimulates
<1> QED
  BY <1>1, <1>2, SIInvHolds, PTL DEF SSpec, ImplementsSendPath, Sender!Spec
-----------------------------------------------------------------------------
(* What a session inherits of the sending half. *)

LEMMA SenderStepNoLostWakeup ==
  ASSUME Unserializable = {}, "woken" \notin CancelPoints,
         IInv, NoLostWakeup, SenderStep
  PROVE  NoLostWakeup'
<1>1. CASE RxInitiates
  BY <1>1, RxInitiatesLoop, LoopFillsBuffer, SessionAssumption DEF NoLostWakeup
<1>2. CASE RxShutdown
  BY <1>2, WokenStay DEF RxShutdown, CloseSocket, IInv, TypeOK
<1>3. CASE \/ UNCHANGED vars \/ PeerRead \/ SocketReset
           \/ \E c \in Callers :
                Start(c) \/ Progress(c) \/ WriteTimeout(c) \/ Cancel(c)
  BY <1>3, NextNoLostWakeup DEF Next
<1> QED
  BY <1>1, <1>2, <1>3 DEF SenderStep

LEMMA SenderStepWInv ==
  ASSUME CancelPoints \cap {"writing", "written"} = {},
         NEW u, WInv(u), SenderStep
  PROVE  HandsNothing(u) \/ \E v \in Unit : HandsOver(u, v)
<1>1. CASE RxInitiates
  BY <1>1, RxInitiatesLoop, RxNotCancelled, WhileBufferBusyWInv DEF WInv
<1>2. CASE RxShutdown
  <2>1. IInv'
    BY SenderStepIInv DEF WInv
  <2>2. /\ socket' = "closed"
        /\ UNCHANGED <<wire, last_read, cancelled, sent>>
        /\ Writing' = Writing
    BY <1>2 DEF RxShutdown, CloseSocket, Writing
  <2> QED
    BY <2>1, <2>2, SocketEndsWInv DEF HandsNothing
<1>3. CASE \/ UNCHANGED vars \/ PeerRead \/ SocketReset
           \/ \E c \in Callers :
                Start(c) \/ Progress(c) \/ WriteTimeout(c) \/ Cancel(c)
  BY <1>3, NextWInv DEF Next
<1> QED
  BY <1>1, <1>2, <1>3 DEF SenderStep

LEMMA SenderStepFInv ==
  ASSUME CancelPoints \cap {"writing", "written"} = {}, FInv, SenderStep
  PROVE  FInv'
<1>1. PICK u : u = LastUnit
  OBVIOUS
<1>2. WInv(u)
  BY <1>1 DEF FInv
<1> QED
  BY <1>1, <1>2, SenderStepWInv, HandsFInv

\* In a session, too, a free buffer with waiters always has a woken operation,
\* with receive_op and its timed-out commands among them, and when receive_op
\* closes the socket under a write: as long as no serialization fails and
\* nobody is cancelled between its wake-up and its turn.
THEOREM SessionWakeupsNotLost ==
  ASSUME Unserializable = {}, "woken" \notin CancelPoints
  PROVE  SSpec => []NoLostWakeup
<1>1. SInit => NoLostWakeup
  BY DEF SInit, Init, NoLostWakeup
<1>2. SIInv /\ NoLostWakeup /\ [SNext]_allVars => NoLostWakeup'
  BY SenderSteps, SenderStepNoLostWakeup DEF SIInv, SenderStep, allVars
<1> QED
  BY <1>1, <1>2, SIInvHolds, PTL DEF SSpec

\* The peer of a session reads whole frames, however the enquire_links and the
\* answers of receive_op get between the frames of the callers, unless a write
\* is cancelled: also when receive_op closes the socket or gives up a command
\* that was written in part.
THEOREM SessionFramesStayWhole ==
  ASSUME CancelPoints \cap {"writing", "written"} = {}
  PROVE  SSpec => []FramesWhole
<1>1. SInit => FInv
  BY InitFInv DEF SInit
<1>2. SIInv /\ FInv /\ [SNext]_allVars => FInv'
  BY SenderSteps, SenderStepFInv DEF SenderStep, allVars
<1>3. FInv => FramesWhole
  BY AdjacentWhole DEF FInv, WInv, IInv
<1> QED
  BY <1>1, <1>2, <1>3, SIInvHolds, PTL DEF SSpec
-----------------------------------------------------------------------------
(* What the other end of the connection may rely on, when it is a session. *)

\* Others exchange data with the socket, or report that the connection has ended.
LEMMA SurroundingsSIInv ==
  ASSUME SIInv, UNCHANGED <<sendVars, rxVars, last_read, peerVars>>,
         wire' \in Seq(Unit), inq' \in Seq(PeerUnit),
         socket' = socket \/ socket' = "reset"
  PROVE  SIInv'
<1>1. UNCHANGED <<send_buf, send_cv, sequence_number, pc, frame, cancelled, ec,
                  sent>>
  BY DEF sendVars, opVars
<1>2. IInv'
  <2>1. TypeOK'
    BY <1>1 DEF SIInv, IInv, TypeOK
  <2> QED
    BY <1>1, <2>1
    DEF SIInv, IInv, QueueMatchesWaiters, FramesNamed, WriterOwnsBuffer,
        Writing, Active
<1>3. RxTypes'
  BY DEF SIInv, RxTypes, rxVars, rxState, peerVars
<1>4. RxStages'
  BY <1>1 DEF SIInv, RxStages, rxVars, rxState, HasFrame, HasHeader, HeadFrame
<1> QED
  BY <1>2, <1>3, <1>4 DEF SIInv

\* What the session itself does is seen by the other end as units of its frames.
LEMMA OwnWire ==
  ASSUME OwnNext
  PROVE  /\ \/ UNCHANGED wire
            \/ ~Inline /\ \E c \in Callers : WriteSome(c) /\ UNCHANGED rxVars
         /\ UNCHANGED <<last_read, peerVars>>
<1>1. CASE AsyncReceive \/ ReadTimeout \/ RxProgress
  <2>1. CASE ReadHandler
    <3>1. CASE AfterReadTimeout
      BY <2>1, <3>1
      DEF ReadHandler, AfterReadTimeout, SendUnbind, SendEnquireLink, RxSend,
          Initiate, WhileBufferBusy, WaitOnCv, StartWrite, SerializeFails,
          netVars, peerVars
    <3>2. CASE UNCHANGED vars
      BY <2>1, <3>2 DEF ReadHandler, vars, netVars, peerVars
    <3> QED
      BY <2>1, <3>1, <3>2 DEF ReadHandler
  <2>2. CASE AsyncReceive \/ ReadTimeout \/ ReadSome \/ ReadError \/ Posted
    BY <2>2 DEF AsyncReceive, ReadTimeout, ReadSome, ReadError, Posted,
                DeliverNow, vars, netVars, peerVars
  <2> QED
    BY <1>1, <2>1, <2>2 DEF RxProgress
<1>2. CASE Loop
  <2>1. CASE AnswerCommand
    BY <2>1 DEF AnswerCommand, RxSend, Initiate, WhileBufferBusy, WaitOnCv,
                StartWrite, SerializeFails, netVars, peerVars
  <2>2. CASE FinishUnbind
    BY <2>2 DEF FinishUnbind, RxShutdown, peerVars
  <2>3. CASE StartRead \/ SkipEnquireLinkResp \/ DeliverOrPost
    BY <2>3 DEF StartRead, SkipEnquireLinkResp, DeliverOrPost, DeliverNow,
                vars, netVars, peerVars
  <2> QED
    BY <1>2, <2>1, <2>2, <2>3 DEF Loop
<1>3. CASE AfterSend
  BY <1>3 DEF AfterSend, RxShutdown, vars, netVars, peerVars
<1>4. CASE \E type \in RxCancels : RxCancel(type)
  BY <1>4 DEF RxCancel, CancelQueued, CancelWoken, CancelWriting,
              CancelWritten, vars, netVars, peerVars
<1>5. ASSUME NEW c \in Callers,
             \/ OfSender(Start(c)) \/ OfSender(Cancel(c))
             \/ OfSender(WriteTimeout(c)) \/ OfSender(Progress(c))
      PROVE  /\ \/ UNCHANGED wire
                \/ ~Inline /\ \E d \in Callers : WriteSome(d) /\ UNCHANGED rxVars
             /\ UNCHANGED <<last_read, peerVars>>
  <2>1. ASSUME NEW f, NEW s, WhileBufferBusy(c, f, s)
        PROVE  UNCHANGED <<wire, last_read>>
    BY <2>1 DEF WhileBufferBusy, WaitOnCv, StartWrite, SerializeFails, netVars
  <2>2. Start(c) => UNCHANGED <<wire, last_read>>
    BY <2>1 DEF Start, AsyncSendRequest, AsyncSendResponse, AsyncSendNumbered,
                AsyncSendReply, Initiate
  <2>3. Progress(c) => WriteSome(c) \/ UNCHANGED <<wire, last_read>>
    BY <2>1 DEF Progress, Resume, WriteError, WriteHandler, netVars
  <2>4. Cancel(c) \/ WriteTimeout(c) => UNCHANGED <<wire, last_read>>
    BY DEF Cancel, CancelQueued, CancelWoken, CancelWriting, CancelWritten,
           WriteTimeout, netVars
  <2>5. WriteSome(c) => UNCHANGED last_read
    BY DEF WriteSome
  <2> QED
    BY <1>5, <2>2, <2>3, <2>4, <2>5 DEF OfSender, peerVars
<1> QED
  BY <1>1, <1>2, <1>3, <1>4, <1>5 DEF OwnNext

\* Commands that take a number of ours have one.
CommandsNumbered ==
  \A c \in Callers : frame[c].cmd \in RxCommands => frame[c].seq # 0

LEMMA LoopNumbered ==
  ASSUME TypeOK, CommandsNumbered, NEW c \in Callers, NEW f, NEW s,
         WhileBufferBusy(c, f, s), f.cmd \in RxCommands => f.seq # 0
  PROVE  CommandsNumbered'
<1>1. frame \in [Callers -> Frame]
  BY DEF TypeOK
<1>2. \/ frame' = [frame EXCEPT ![c] = f]
      \/ \E g : /\ frame' = [frame EXCEPT ![c] = g]
                /\ g.cmd \in RxCommands => g.seq # 0
  <2>1. CASE WaitOnCv(c, f, s) \/ SerializeFails(c, f, s)
    BY <2>1 DEF WaitOnCv, SerializeFails
  <2>2. CASE StartWrite(c, f, s)
    <3> DEFINE n == IF f.cmd = "request" THEN NextSequenceNumber ELSE f.seq
               g == [cmd |-> f.cmd, seq |-> n]
    <3>1. frame' = [frame EXCEPT ![c] = g]
      BY <2>2 DEF StartWrite
    <3>2. g.cmd \in RxCommands => g.seq # 0
      BY DEF RxCommands
    <3> QED
      BY <3>1, <3>2
  <2> QED
    BY <2>1, <2>2 DEF WhileBufferBusy
<1> QED
  BY <1>1, <1>2 DEF CommandsNumbered

LEMMA SenderStepNumbered ==
  ASSUME IInv, CommandsNumbered, SenderStep
  PROVE  CommandsNumbered'
<1>1. TypeOK /\ NextSequenceNumber # 0
  BY NextNumberType DEF IInv
<1>2. ASSUME NEW c \in Callers, NEW cmd, NEW n, NEW s,
             Initiate(c, [cmd |-> cmd, seq |-> n], s),
             cmd \in RxCommands => n # 0
      PROVE  CommandsNumbered'
  BY <1>1, <1>2, LoopNumbered DEF Initiate
<1>3. CASE RxInitiates
  <2>1. CASE \E cmd \in RxCommands : AsyncSendNumbered(Rx, cmd)
    BY <1>1, <1>2, <2>1, SessionAssumption DEF AsyncSendNumbered
  <2>2. CASE \E cmd \in RxReplies, n \in 1..MaxSeq : AsyncSendReply(Rx, cmd, n)
    BY <1>2, <2>2, SessionAssumption DEF AsyncSendReply
  <2> QED
    BY <1>3, <2>1, <2>2 DEF RxInitiates
<1>4. ASSUME NEW c \in Callers, Start(c) PROVE CommandsNumbered'
  <2>1. CASE AsyncSendRequest(c)
    BY <1>2, <2>1 DEF AsyncSendRequest, RxCommands
  <2>2. CASE \E n \in PeerNumbers : AsyncSendResponse(c, n)
    BY <1>2, <2>2 DEF AsyncSendResponse, RxCommands
  <2>3. CASE \E cmd \in {"enquire_link", "unbind"} : AsyncSendNumbered(c, cmd)
    BY <1>1, <1>2, <2>3 DEF AsyncSendNumbered
  <2>4. CASE \E cmd \in {"enquire_link_resp", "unbind_resp"},
                n \in PeerNumbers : AsyncSendReply(c, cmd, n)
    BY <1>2, <2>4 DEF AsyncSendReply, RxCommands
  <2> QED
    BY <1>4, <2>1, <2>2, <2>3, <2>4 DEF Start
<1>5. ASSUME NEW c \in Callers, Resume(c) PROVE CommandsNumbered'
  <2>1. CASE cancelled[c]
    BY <1>5, <2>1 DEF Resume, CommandsNumbered
  <2>2. CASE ~cancelled[c]
    BY <1>1, <1>5, <2>2, LoopNumbered DEF Resume, CommandsNumbered
  <2> QED
    BY <2>1, <2>2
<1>6. CASE \/ UNCHANGED vars \/ PeerRead \/ SocketReset \/ RxShutdown
           \/ \E c \in Callers : \/ WriteSome(c) \/ WriteError(c)
                                 \/ WriteHandler(c) \/ WriteTimeout(c)
                                 \/ Cancel(c)
  <2>1. UNCHANGED frame
    BY <1>6 DEF vars, sendVars, opVars, PeerRead, SocketReset, RxShutdown,
                WriteSome, WriteError, WriteHandler, WriteTimeout, Cancel,
                CancelQueued, CancelWoken, CancelWriting, CancelWritten
  <2> QED
    BY <2>1 DEF CommandsNumbered
<1> QED
  BY <1>3, <1>4, <1>5, <1>6 DEF SenderStep, Progress

\* What is handed over is a unit as the other end expects it.
LEMMA OwnUnits ==
  ASSUME SIInv, CommandsNumbered, OwnNext, wire \in Seq(PeerUnit)
  PROVE  wire' \in Seq(PeerUnit)
<1>1. CASE UNCHANGED wire
  BY <1>1
<1>2. ASSUME NEW c \in Callers, WriteSome(c)
      PROVE  wire' \in Seq(PeerUnit)
  <2> DEFINE u == [frame |-> frame[c], part |-> sent[c] + 1]
  <2>1. frame[c] \in Frame /\ sent[c] \in Nat /\ pc[c] = "writing"
    BY <1>2 DEF SIInv, IInv, TypeOK, WriteSome
  <2>2. frame[c].cmd \in Cmds
    BY <2>1 DEF SIInv, IInv, FramesNamed, Active
  <2>3. u \in PeerUnit
    BY <2>1, <2>2 DEF CommandsNumbered, PeerUnit, Unit
  <2>4. wire' = Append(wire, u)
    BY <1>2 DEF WriteSome
  <2> HIDE DEF u
  <2> QED
    BY <2>3, <2>4, AppendProperties
<1> QED
  BY <1>1, <1>2, OwnWire

\* The callers leave it to receive_op to answer an unbind, and receive_op waits
\* for what it sends.
Answerers ==
  /\ \A c \in Callers \ {Rx} : frame[c].cmd # "unbind_resp"
  /\ pc[Rx] \notin {"idle", "done"} => rx = "sending"

LEMMA RxSendAnswerers ==
  ASSUME TypeOK, Answerers, NEW cmd, NEW n, NEW s, RxSend(cmd, n, s)
  PROVE  Answerers'
BY SessionAssumption
DEF TypeOK, Answerers, RxSend, Initiate, WhileBufferBusy, WaitOnCv, StartWrite,
    SerializeFails

LEMMA OfSenderAnswerers ==
  ASSUME "unbind_resp" \notin Menu, SIInv, Answerers, UNCHANGED rx,
         NEW c \in Callers,
         \/ c # Rx /\ Start(c)
         \/ Progress(c) \/ WriteTimeout(c) \/ Cancel(c)
  PROVE  Answerers'
<1>1. /\ pc \in [Callers -> Stages] /\ frame \in [Callers -> Frame]
      /\ Rx \in Callers /\ TypeOK /\ QueueMatchesWaiters
  BY SessionAssumption DEF SIInv, IInv, TypeOK
<1>2. ASSUME NEW f, NEW s, WhileBufferBusy(c, f, s),
             c # Rx => f.cmd # "unbind_resp",
             c = Rx => pc[c] = "woken"
      PROVE  Answerers'
  BY <1>1, <1>2
  DEF Answerers, WhileBufferBusy, WaitOnCv, StartWrite, SerializeFails
<1>3. CASE c # Rx /\ Start(c)
  BY <1>2, <1>3 DEF Start, AsyncSendRequest, AsyncSendResponse,
                    AsyncSendNumbered, AsyncSendReply, Initiate
<1>4. CASE Resume(c)
  <2>1. CASE cancelled[c]
    BY <1>1, <1>4, <2>1 DEF Resume, Answerers
  <2>2. CASE ~cancelled[c]
    BY <1>2, <1>4, <2>2 DEF Resume, Answerers
  <2> QED
    BY <2>1, <2>2
<1>5. CASE WriteHandler(c)
  <2>1. UNCHANGED frame /\ pc[c] = "written"
    BY <1>5 DEF WriteHandler
  <2>2. send_cv # <<>> => pc[Head(send_cv)] = "queued"
    <3> SUFFICES ASSUME send_cv # <<>> PROVE pc[Head(send_cv)] = "queued"
      OBVIOUS
    <3>1. send_cv \in Seq(Callers) /\ Len(send_cv) \in Nat \ {0}
      BY <1>1, LenProperties, EmptySeq DEF TypeOK
    <3>2. 1 \in 1..Len(send_cv) /\ Head(send_cv) = send_cv[1]
      BY <3>1
    <3> QED
      BY <1>1, <3>1, <3>2, ElementOfSeq DEF QueueMatchesWaiters
  <2>3. pc'[Rx] \notin {"idle", "done"} => pc[Rx] \notin {"idle", "done"}
    BY <1>1, <1>5, <2>1, <2>2 DEF WriteHandler, CancelOne
  <2> QED
    BY <2>1, <2>3 DEF Answerers
<1>6. CASE WriteSome(c) \/ WriteError(c) \/ WriteTimeout(c) \/ Cancel(c)
  BY <1>1, <1>6 DEF WriteSome, WriteError, WriteTimeout, EndWrite, Cancel,
                    CancelQueued, CancelWoken, CancelWriting, CancelWritten,
                    Answerers
<1> QED
  BY <1>3, <1>4, <1>5, <1>6 DEF Progress

LEMMA OwnAnswerers ==
  ASSUME "unbind_resp" \notin Menu, SIInv, Answerers, OwnNext
  PROVE  Answerers'
<1>1. TypeOK /\ Rx \in Callers /\ pc \in [Callers -> Stages]
  BY SessionAssumption DEF SIInv, IInv, TypeOK
<1>2. ASSUME UNCHANGED vars, rx = "sending" => pc[Rx] = "done"
      PROVE  Answerers'
  BY <1>2 DEF Answerers, vars, sendVars, opVars
<1>3. ASSUME RxShutdown, rx = "sending" => pc[Rx] = "done"
      PROVE  Answerers'
  BY <1>1, <1>3 DEF Answerers, RxShutdown, CloseSocket
<1>4. CASE AsyncReceive \/ ReadTimeout \/ ReadSome \/ ReadError \/ Posted
  BY <1>2, <1>4 DEF AsyncReceive, ReadTimeout, ReadSome, ReadError, Posted,
                    DeliverNow
<1>5. CASE ReadHandler
  BY <1>1, <1>2, <1>5, RxSendAnswerers
  DEF ReadHandler, AfterReadTimeout, SendUnbind, SendEnquireLink
<1>6. CASE Loop
  <2>1. CASE AnswerCommand
    BY <1>1, <2>1, RxSendAnswerers DEF AnswerCommand
  <2>2. CASE FinishUnbind
    BY <1>3, <1>6, <2>2 DEF Loop, FinishUnbind
  <2>3. CASE StartRead \/ SkipEnquireLinkResp \/ DeliverOrPost
    BY <1>2, <1>6, <2>3 DEF Loop, StartRead, SkipEnquireLinkResp,
                            DeliverOrPost, DeliverNow
  <2> QED
    BY <1>6, <2>1, <2>2, <2>3 DEF Loop
<1>7. CASE AfterSend
  BY <1>2, <1>3, <1>7 DEF AfterSend
<1>8. ASSUME NEW type \in RxCancels, RxCancel(type) PROVE Answerers'
  <2>1. CASE rx = "sending"
    <3>1. UNCHANGED <<rx, frame>>
      BY <1>8, <2>1 DEF RxCancel, CancelQueued, CancelWoken, CancelWriting,
                        CancelWritten, vars, sendVars, opVars
    <3> QED
      BY <2>1, <3>1 DEF Answerers
  <2>2. CASE rx # "sending"
    BY <1>2, <1>8, <2>2 DEF RxCancel
  <2> QED
    BY <2>1, <2>2
<1>9. ASSUME NEW c \in Callers,
             \/ c # Rx /\ (OfSender(Start(c)) \/ OfSender(Cancel(c)))
             \/ OfSender(Progress(c)) \/ OfSender(WriteTimeout(c))
      PROVE  Answerers'
  BY <1>9, OfSenderAnswerers DEF OfSender, rxVars, rxState
<1> QED
  BY <1>4, <1>5, <1>6, <1>7, <1>8, <1>9 DEF OwnNext, RxProgress

\* The whole unbind_resp has been handed to TCP: receive_op is about to learn
\* so, or it has ended.
AnswerWritten ==
  \/ /\ rx = "sending"
     /\ frame[Rx].cmd = "unbind_resp"
     /\ pc[Rx] \in {"written", "done"}
     /\ ec[Rx] = "ok"
  \/ /\ rx = "idle"
     /\ rx_ec = "unbinded"
     /\ socket # "open"

\* The write of a unit that ends an unbind_resp.
LEMMA AnswerGetsWritten ==
  ASSUME SIInv, Answerers, NEW c \in Callers, WriteSome(c), UNCHANGED rxVars,
         frame[c].cmd = "unbind_resp", sent[c] + 1 = Size(frame[c].cmd)
  PROVE  AnswerWritten'
<1>1. c = Rx /\ pc[c] = "writing"
  BY DEF Answerers, WriteSome
<1>2. rx = "sending"
  BY <1>1 DEF Answerers
<1> QED
  BY <1>1, <1>2
  DEF AnswerWritten, WriteSome, EndWrite, SIInv, IInv, TypeOK, rxVars, rxState

\* Nothing follows the answer, whoever waits for the buffer: receive_op closes
\* the socket before the operation that it has woken can write.
LEMMA NothingAfterAnswer ==
  ASSUME SIInv, AnswerWritten, OwnNext
  PROVE  AnswerWritten' /\ UNCHANGED wire
<1>1. /\ Rx \in Callers /\ pc \in [Callers -> Stages] /\ ec \in [Callers -> Ecs]
      /\ WriterOwnsBuffer /\ QueueMatchesWaiters /\ send_cv \in Seq(Callers)
      /\ TypeOK /\ IInv /\ RxStages
  BY SessionAssumption DEF SIInv, IInv, TypeOK
<1>2. UNCHANGED wire
  <2>1. ASSUME NEW c \in Callers, WriteSome(c), ~Inline PROVE FALSE
    <3>1. pc[c] = "writing" /\ socket = "open" /\ c \in Writing
      BY <2>1 DEF WriteSome, Writing
    <3>2. pc[Rx] = "written"
      BY <2>1, <3>1 DEF AnswerWritten, Inline
    <3>3. Rx \in Writing
      BY <1>1, <3>2 DEF Writing
    <3> QED
      BY <1>1, <3>1, <3>2, <3>3 DEF WriterOwnsBuffer
  <2> QED
    BY <2>1, OwnWire
<1>3. CASE rx = "idle" /\ rx_ec = "unbinded" /\ socket # "open"
  <2>1. PICK c \in Callers : /\ UNCHANGED <<rx, rx_ec>>
                            /\ \/ c # Rx /\ (Start(c) \/ Cancel(c))
                               \/ Progress(c) \/ WriteTimeout(c)
    BY <1>3 DEF OwnNext, AsyncReceive, Loop, AfterSend, RxProgress, ReadSome,
                ReadError, ReadHandler, Posted, ReadTimeout, RxCancel,
                OfSender, rxVars, rxState
  <2>2. UNCHANGED socket
    BY <1>1, <2>1, RxFrameKept
  <2> QED
    BY <1>2, <1>3, <2>1, <2>2 DEF AnswerWritten
<1>4. CASE /\ rx = "sending" /\ frame[Rx].cmd = "unbind_resp"
           /\ pc[Rx] \in {"written", "done"} /\ ec[Rx] = "ok"
  <2>1. CASE AfterSend
    BY <1>2, <1>4, <2>1
    DEF AfterSend, SendFailed, RxShutdown, CloseSocket, RxComplete, AnswerWritten
  <2>2. ASSUME NEW type \in RxCancels, RxCancel(type) PROVE AnswerWritten'
    <3>1. UNCHANGED <<rx, frame, pc, ec>>
      BY <1>4, <2>2 DEF RxCancel, CancelQueued, CancelWoken, CancelWriting,
                        CancelWritten, vars, sendVars, opVars
    <3> QED
      BY <1>4, <3>1 DEF AnswerWritten
  <2>3. ASSUME NEW c \in Callers, ~Inline, UNCHANGED rxVars,
               \/ c # Rx /\ (Start(c) \/ Cancel(c))
               \/ Progress(c) \/ WriteTimeout(c)
        PROVE  AnswerWritten'
    <3>1. /\ pc[Rx] = "written" /\ Writing = {Rx}
          /\ rx' = "sending" /\ frame'[Rx] = frame[Rx]
      <4>1. pc[Rx] = "written" /\ rx' = "sending"
        BY <1>4, <2>3 DEF Inline, rxVars, rxState
      <4>2. Writing = {Rx}
        BY <1>1, <4>1 DEF Writing, WriterOwnsBuffer
      <4> QED
        BY <1>1, <1>4, <2>3, <4>1, <4>2, RxFrameKept
    <3>2. ASSUME UNCHANGED <<pc, ec>> \/
                 /\ c # Rx
                 /\ pc'[Rx] = pc[Rx]
                 /\ ec'[Rx] = ec[Rx]
          PROVE  AnswerWritten'
      BY <1>4, <3>1, <3>2 DEF AnswerWritten
    <3>3. ASSUME NEW f, NEW s, WhileBufferBusy(c, f, s), c # Rx
          PROVE  AnswerWritten'
      BY <1>1, <3>2, <3>3
      DEF WhileBufferBusy, WaitOnCv, StartWrite, SerializeFails, Complete
    <3>4. CASE c # Rx /\ Start(c)
      BY <1>1, <3>3, <3>4, StartEntersLoop
    <3>5. CASE Resume(c)
      <4>1. c # Rx
        BY <3>1, <3>5 DEF Resume
      <4> QED
        BY <1>1, <3>2, <3>3, <3>5, <4>1 DEF Resume, Complete
    <3>6. CASE WriteSome(c) \/ WriteError(c) \/ WriteTimeout(c)
      <4>1. pc[c] = "writing" /\ c # Rx
        BY <3>1, <3>6 DEF WriteSome, WriteError, WriteTimeout
      <4> QED
        BY <3>1, <4>1 DEF Writing
    <3>7. CASE WriteHandler(c)
      <4>1. c = Rx
        BY <3>1, <3>7 DEF WriteHandler, Writing
      <4>2. send_cv # <<>> => Head(send_cv) \in Callers \ {Rx}
        <5> SUFFICES ASSUME send_cv # <<>>
                     PROVE  Head(send_cv) \in Callers \ {Rx}
          OBVIOUS
        <5>1. Len(send_cv) \in Nat \ {0}
          BY <1>1, LenProperties, EmptySeq
        <5>2. 1 \in 1..Len(send_cv) /\ Head(send_cv) = send_cv[1]
          BY <1>1, <5>1
        <5>3. Head(send_cv) \in Callers /\ pc[Head(send_cv)] = "queued"
          BY <1>1, <5>2, ElementOfSeq DEF QueueMatchesWaiters
        <5> QED
          BY <3>1, <5>3
      <4>3. pc'[Rx] = "done" /\ ec'[Rx] = "ok"
        BY <1>1, <1>4, <3>7, <4>1, <4>2
        DEF WriteHandler, TimedOut, CancelOne, Complete
      <4> QED
        BY <1>4, <3>1, <4>3 DEF AnswerWritten
    <3>8. CASE c # Rx /\ Cancel(c)
      <4>1. pc'[Rx] = pc[Rx] /\ ec'[Rx] = ec[Rx]
        BY <1>1, <3>8 DEF Cancel, CancelQueued, CancelWoken, CancelWriting,
                          CancelWritten, EndWrite
      <4> QED
        BY <3>2, <3>8, <4>1
    <3> QED
      BY <2>3, <3>4, <3>5, <3>6, <3>7, <3>8 DEF Progress
  <2>4. \/ AfterSend
        \/ \E type \in RxCancels : RxCancel(type)
        \/ \E c \in Callers :
             /\ ~Inline /\ UNCHANGED rxVars
             /\ \/ c # Rx /\ (Start(c) \/ Cancel(c))
                \/ Progress(c) \/ WriteTimeout(c)
    BY <1>4 DEF OwnNext, AsyncReceive, Loop, RxProgress, ReadSome, ReadError,
                ReadHandler, Posted, ReadTimeout, OfSender
  <2> QED
    BY <1>2, <2>1, <2>2, <2>3, <2>4
<1> QED
  BY <1>3, <1>4 DEF AnswerWritten
-----------------------------------------------------------------------------
(* The peer's unbind is answered before the socket is closed. *)

\* How far an operation's write got is seen at the end of the stream.
Progressed ==
  /\ \A c \in Callers \ Writing : sent[c] = 0
  /\ \A c \in Callers :
       sent[c] # 0 => LastUnit = [frame |-> frame[c], part |-> sent[c]]
  /\ \A c \in Callers :
       pc[c] = "written" /\ ec[c] = "ok" => sent[c] = Size(frame[c].cmd)

\* A step that hands nothing to TCP.
LEMMA QuietProgressed ==
  ASSUME Progressed, LastUnit' = LastUnit,
         \A d \in Callers :
           /\ sent'[d] # 0 => /\ sent'[d] = sent[d] /\ frame'[d] = frame[d]
                              /\ pc'[d] \in {"writing", "written"}
           /\ pc'[d] = "written" /\ ec'[d] = "ok" =>
                /\ pc[d] = "written" /\ ec[d] = "ok"
                /\ sent'[d] = sent[d] /\ frame'[d] = frame[d]
  PROVE  Progressed'
BY DEF Progressed, Writing

LEMMA LoopProgressed ==
  ASSUME IInv, Progressed, NEW c \in Callers, NEW f, NEW s,
         pc[c] \notin {"writing", "written"}, WhileBufferBusy(c, f, s)
  PROVE  /\ Progressed'
         /\ LastUnit' = LastUnit
         /\ pc'[c] = "done" => ec'[c] = "serialization_failed"
<1>1. /\ pc \in [Callers -> Stages] /\ frame \in [Callers -> Frame]
      /\ ec \in [Callers -> Ecs] /\ sent \in [Callers -> Nat]
      /\ sent[c] = 0
  BY DEF IInv, TypeOK, Progressed, Writing
<1>2. /\ UNCHANGED <<wire, last_read>>
      /\ pc'[c] \in {"queued", "writing", "done"}
      /\ sent'[c] = 0
      /\ pc'[c] = "done" => ec'[c] = "serialization_failed"
      /\ \A d \in Callers \ {c} : /\ pc'[d] = pc[d] /\ frame'[d] = frame[d]
                                  /\ ec'[d] = ec[d] /\ sent'[d] = sent[d]
  BY <1>1 DEF WhileBufferBusy, WaitOnCv, StartWrite, SerializeFails, Complete,
              netVars
<1>3. LastUnit' = LastUnit
  BY <1>2 DEF LastUnit
<1>4. \A d \in Callers : sent[d] # 0 => pc[d] \in {"writing", "written"}
  BY DEF Progressed, Writing
<1>5. Progressed'
  BY <1>2, <1>3, <1>4, QuietProgressed
<1> QED
  BY <1>2, <1>3, <1>5

LEMMA WriteSomeProgressed ==
  ASSUME IInv, Progressed, NEW c \in Callers, WriteSome(c)
  PROVE  Progressed'
<1>1. /\ pc \in [Callers -> Stages] /\ sent \in [Callers -> Nat]
      /\ ec \in [Callers -> Ecs]
      /\ pc[c] = "writing" /\ c \in Writing /\ c \in Active
  BY DEF IInv, TypeOK, WriteSome, Writing, Active
<1>2. frame[c].cmd \in Cmds /\ Writing = {c}
  BY <1>1 DEF IInv, FramesNamed, WriterOwnsBuffer
<1>3. LastUnit' = [frame |-> frame[c], part |-> sent[c] + 1]
  BY <1>2, WriteSomeStream DEF IInv
<1>4. /\ UNCHANGED frame
      /\ sent'[c] = sent[c] + 1
      /\ \A d \in Callers \ {c} : sent'[d] = sent[d] /\ pc'[d] = pc[d]
      /\ \/ pc'[c] = "writing"
         \/ pc'[c] = "written" /\ sent[c] + 1 = Size(frame[c].cmd)
  BY <1>1 DEF WriteSome, EndWrite
<1>5. \A d \in Callers \ {c} : /\ sent[d] = 0
                               /\ pc[d] \notin {"writing", "written"}
  BY <1>2 DEF Progressed, Writing
<1> QED
  BY <1>3, <1>4, <1>5 DEF Progressed, Writing

LEMMA WriteHandlerProgressed ==
  ASSUME IInv, Progressed, NEW c \in Callers, WriteHandler(c)
  PROVE  /\ Progressed'
         /\ LastUnit' = LastUnit
         /\ pc'[c] = "done" /\ ec'[c] = "ok" =>
              /\ ec[c] = "ok"
              /\ LastUnit = [frame |-> frame[c],
                             part  |-> Size(frame[c].cmd)]
<1>1. /\ pc \in [Callers -> Stages] /\ ec \in [Callers -> Ecs]
      /\ sent \in [Callers -> Nat]
      /\ pc[c] = "written" /\ c \in Active
      /\ UNCHANGED <<frame, wire, last_read>>
      /\ sent' = [sent EXCEPT ![c] = 0]
      /\ \A d \in Callers \ {c} : ec'[d] = ec[d]
      /\ ec'[c] = "ok" => ec[c] = "ok"
  BY DEF IInv, TypeOK, WriteHandler, Complete, netVars, Active
<1>2. /\ \A d \in Callers \ {c} : pc'[d] = pc[d] \/ pc'[d] = "woken"
      /\ \A d \in Callers \ {c} : pc'[d] # pc[d] => pc[d] = "queued"
      /\ pc'[c] \notin {"writing", "written"}
  <2>1. CASE pc' = [pc EXCEPT ![c] = "done"]
    BY <1>1, <2>1
  <2>2. CASE /\ send_cv # <<>>
             /\ pc' = [pc EXCEPT ![c] = "done", ![Head(send_cv)] = "woken"]
    <3>1. /\ send_cv \in Seq(Callers) /\ Len(send_cv) \in Nat \ {0}
          /\ Head(send_cv) = send_cv[1]
      BY <2>2, HeadTailProperties, EmptySeq DEF IInv, TypeOK
    <3>2. 1 \in 1..Len(send_cv)
      BY <3>1
    <3>3. pc[Head(send_cv)] = "queued" /\ Head(send_cv) \in Callers
      BY <3>1, <3>2, ElementOfSeq DEF IInv, QueueMatchesWaiters
    <3> QED
      BY <1>1, <2>2, <3>3
  <2> QED
    BY <2>1, <2>2 DEF WriteHandler, CancelOne
<1>3. LastUnit' = LastUnit
  BY <1>1 DEF LastUnit
<1>4. \A d \in Callers : sent[d] # 0 => pc[d] \in {"writing", "written"}
  BY DEF Progressed, Writing
<1>5. Progressed'
  <2>1. ASSUME NEW d \in Callers
        PROVE  /\ sent'[d] # 0 => /\ sent'[d] = sent[d] /\ frame'[d] = frame[d]
                                  /\ pc'[d] \in {"writing", "written"}
               /\ pc'[d] = "written" /\ ec'[d] = "ok" =>
                    /\ pc[d] = "written" /\ ec[d] = "ok"
                    /\ sent'[d] = sent[d] /\ frame'[d] = frame[d]
    BY <1>1, <1>2, <1>4
  <2> QED
    BY <1>3, <2>1, QuietProgressed
<1>6. ASSUME ec'[c] = "ok"
      PROVE  LastUnit = [frame |-> frame[c], part |-> Size(frame[c].cmd)]
  <2>1. sent[c] = Size(frame[c].cmd) /\ Size(frame[c].cmd) # 0
    BY <1>1, <1>6, SizeType DEF Progressed, IInv, FramesNamed
  <2> QED
    BY <2>1 DEF Progressed
<1> QED
  BY <1>1, <1>3, <1>5, <1>6

\* The other steps of the sending half.
LEMMA OtherProgressed ==
  ASSUME IInv, Progressed,
         \/ UNCHANGED vars
         \/ RxShutdown
         \/ PeerRead
         \/ SocketReset
         \/ \E c \in Callers : WriteError(c) \/ WriteTimeout(c) \/ Cancel(c)
  PROVE  Progressed' /\ LastUnit' = LastUnit
<1>1. /\ pc \in [Callers -> Stages] /\ ec \in [Callers -> Ecs]
  BY DEF IInv, TypeOK
<1>2. LastUnit' = LastUnit
  <2>1. CASE PeerRead
    BY <2>1, PeerReadStream DEF IInv
  <2>2. CASE ~PeerRead
    <3>1. UNCHANGED <<wire, last_read>>
      BY <2>2 DEF vars, RxShutdown, SocketReset, WriteError, WriteTimeout,
                  Cancel, CancelQueued, CancelWoken, CancelWriting,
                  CancelWritten, netVars
    <3> QED
      BY <3>1 DEF LastUnit
  <2> QED
    BY <2>1, <2>2
<1>3. UNCHANGED <<frame, sent>>
  BY DEF vars, sendVars, opVars, PeerRead, RxShutdown, SocketReset, WriteError,
         WriteTimeout, Cancel, CancelQueued, CancelWoken, CancelWriting,
         CancelWritten
<1> DEFINE StillWrites(d) ==
             /\ pc[d] \in {"writing", "written"} =>
                  pc'[d] \in {"writing", "written"}
             /\ pc'[d] = "written" /\ ec'[d] = "ok" =>
                  pc[d] = "written" /\ ec[d] = "ok"
<1>4. ASSUME NEW d \in Callers PROVE StillWrites(d)
  <2>1. CASE UNCHANGED <<pc, ec>>
    BY <2>1
  <2>2. CASE RxShutdown
    BY <2>2 DEF RxShutdown, CloseSocket
  <2>3. ASSUME NEW c \in Callers, NEW e \in {"neterr", "aborted"},
               pc[c] = "writing", EndWrite(c, e)
        PROVE  StillWrites(d)
    BY <1>1, <2>3 DEF EndWrite
  <2>4. ASSUME NEW c \in Callers, CancelQueued(c)
        PROVE  StillWrites(d)
    BY <1>1, <2>4 DEF CancelQueued
  <2>5. ASSUME NEW c \in Callers, WriteError(c) \/ WriteTimeout(c) \/ Cancel(c)
        PROVE  \/ UNCHANGED <<pc, ec>>
               \/ CancelQueued(c)
               \/ \E e \in {"neterr", "aborted"} :
                    pc[c] = "writing" /\ EndWrite(c, e)
    BY <2>5 DEF WriteError, WriteTimeout, Cancel, CancelWoken, CancelWriting,
                CancelWritten
  <2>6. CASE UNCHANGED vars \/ PeerRead \/ SocketReset
    BY <2>1, <2>6 DEF vars, sendVars, opVars, PeerRead, SocketReset
  <2> QED
    BY <2>1, <2>2, <2>3, <2>4, <2>5, <2>6
<1>5. \A d \in Callers : sent[d] # 0 => pc[d] \in {"writing", "written"}
  BY DEF Progressed, Writing
<1>6. Progressed'
  BY <1>2, <1>3, <1>4, <1>5, QuietProgressed
<1> QED
  BY <1>2, <1>6

\* UnbindAnswered with what leads up to it: when receive_op continues after a
\* send that succeeded, nothing was handed to TCP after its frame; and once it
\* has closed the socket nothing ever is.
Answered ==
  /\ rx = "sending" /\ pc[Rx] = "done" /\ ec[Rx] = "ok" =>
       LastUnit = [frame |-> frame[Rx], part |-> Size(frame[Rx].cmd)]
  /\ rx_ec = "unbinded" => socket = "closed"
  /\ rx_ec = "unbinded" /\ result.cmd = "unbind" =>
       LastUnit = [frame |-> [cmd |-> "unbind_resp", seq |-> result.seq],
                   part  |-> HeaderLen]

LEMMA AnsweredKept ==
  ASSUME Answered, LastUnit' = LastUnit, UNCHANGED <<rx, rx_ec, result>>,
         socket = "closed" => socket' = "closed",
         rx = "sending" /\ pc'[Rx] = "done" /\ ec'[Rx] = "ok" =>
           /\ pc[Rx] = "done" /\ ec[Rx] = "ok"
           /\ frame'[Rx] = frame[Rx]
  PROVE  Answered'
BY DEF Answered

\* The inner operation of receive_op starts.
LEMMA RxSendAnswered ==
  ASSUME SIInv, Progressed, rx # "idle",
         NEW cmd \in RxCommands \cup RxReplies, NEW n, NEW s,
         RxSend(cmd, n, s), UNCHANGED rx_ec
  PROVE  Progressed' /\ Answered'
<1>1. /\ WhileBufferBusy(Rx, [cmd |-> cmd, seq |-> n], s)
      /\ pc[Rx] \notin {"writing", "written"} /\ Rx \in Callers
      /\ pc \in [Callers -> Stages] /\ ec \in [Callers -> Ecs]
      /\ frame \in [Callers -> Frame]
      /\ rx_ec' # "unbinded"
  BY SessionAssumption
  DEF RxSend, Initiate, SIInv, IInv, TypeOK, RxStages
<1>2. /\ Progressed'
      /\ pc'[Rx] = "done" => ec'[Rx] = "serialization_failed"
  BY <1>1, LoopProgressed DEF SIInv
<1> QED
  BY <1>1, <1>2 DEF Answered

\* receive_op takes a step in which the sending half has no part.
LEMMA RxAloneAnswered ==
  ASSUME Progressed, UNCHANGED vars, rx' # "sending", rx_ec' # "unbinded"
  PROVE  Progressed' /\ Answered'
<1>1. LastUnit' = LastUnit /\ UNCHANGED <<pc, ec, sent, frame>>
  BY DEF vars, sendVars, opVars, netVars, LastUnit
<1> QED
  BY <1>1 DEF Progressed, Answered, Writing

LEMMA RxStepAnswered ==
  ASSUME SIInv, Progressed, Answered,
         AsyncReceive \/ Loop \/ AfterSend \/ RxProgress \/ ReadTimeout
  PROVE  Progressed' /\ Answered'
<1>1. CASE AsyncReceive \/ ReadSome \/ ReadError \/ ReadTimeout \/ Posted
  BY <1>1, RxAloneAnswered
  DEF AsyncReceive, ReadSome, ReadError, ReadTimeout, EndRead, Posted,
      DeliverNow, RxComplete
<1>2. CASE ReadHandler
  <2>1. rx_ec \in {"ok", "aborted", "neterr"} /\ rx # "idle"
    BY <1>2 DEF ReadHandler, SIInv, RxStages
  <2>2. CASE AfterReadTimeout
    <3>1. PICK cmd \in RxCommands :
            RxSend(cmd, NextSequenceNumber, NextSequenceNumber)
      BY <2>2 DEF AfterReadTimeout, SendUnbind, SendEnquireLink, RxCommands
    <3>2. UNCHANGED rx_ec
      BY <2>2 DEF AfterReadTimeout
    <3> QED
      BY <2>1, <3>1, <3>2, RxSendAnswered
  <2>3. CASE UNCHANGED vars /\ rx' # "sending" /\ rx_ec' = rx_ec
    BY <2>1, <2>3, RxAloneAnswered
  <2> QED
    BY <1>2, <2>2, <2>3 DEF ReadHandler, RxComplete
<1>3. CASE Loop
  <2>1. rx_ec \in {"ok", "aborted", "neterr"} /\ rx = "loop"
    BY <1>3 DEF Loop, SIInv, RxStages
  <2>2. CASE AnswerCommand
    <3>1. PICK cmd \in RxReplies : RxSend(cmd, HeadFrame.seq, sequence_number)
      BY <2>2 DEF AnswerCommand, AnswerNumber, RxReplies
    <3>2. UNCHANGED rx_ec
      BY <2>2 DEF AnswerCommand
    <3> QED
      BY <2>1, <3>1, <3>2, RxSendAnswered
  <2>3. CASE FinishUnbind
    <3>1. Progressed' /\ LastUnit' = LastUnit
      BY <2>3, OtherProgressed DEF FinishUnbind, SIInv
    <3>2. /\ rx' = "idle" /\ socket' = "closed"
          /\ result'.cmd = "unbind_resp"
      BY <2>3 DEF FinishUnbind, RxComplete, RxShutdown, CloseSocket
    <3> QED
      BY <3>1, <3>2 DEF Answered
  <2>4. CASE StartRead \/ SkipEnquireLinkResp \/ DeliverOrPost
    BY <2>1, <2>4, RxAloneAnswered
    DEF StartRead, SkipEnquireLinkResp, DeliverOrPost, DeliverNow, RxComplete,
        rxState
  <2> QED
    BY <1>3, <2>2, <2>3, <2>4 DEF Loop
<1>4. CASE AfterSend
  <2>1. /\ rx_ec \in {"ok", "aborted", "neterr"}
        /\ rx = "sending" /\ pc[Rx] = "done"
        /\ ec[Rx] \in Ecs /\ frame[Rx] \in Frame
    BY <1>4, SessionAssumption
    DEF AfterSend, SIInv, RxStages, IInv, TypeOK
  <2>2. CASE /\ RxShutdown
             /\ RxComplete("enquire_link_timeout", frame[Rx])
    <3>1. Progressed'
      BY <2>2, OtherProgressed DEF SIInv
    <3>2. rx' = "idle" /\ rx_ec' = "enquire_link_timeout"
      BY <2>2 DEF RxComplete
    <3> QED
      BY <3>1, <3>2 DEF Answered
  <2>3. CASE UNCHANGED vars /\ RxComplete(ec[Rx], NoFrame)
    BY <2>1, <2>3, RxAloneAnswered DEF RxComplete, Ecs
  <2>4. CASE UNCHANGED vars /\ rx' = "loop" /\ UNCHANGED rx_ec
    BY <2>1, <2>4, RxAloneAnswered
  <2>5. CASE /\ frame[Rx].cmd = "unbind_resp" /\ ~SendFailed
             /\ RxShutdown
             /\ RxComplete("unbinded", HeadFrame)
    <3>1. Progressed' /\ LastUnit' = LastUnit
      BY <2>5, OtherProgressed DEF SIInv
    <3>2. /\ rx' = "idle" /\ socket' = "closed" /\ result' = HeadFrame
      BY <2>5 DEF RxComplete, RxShutdown, CloseSocket
    <3>3. HeadFrame.seq = frame[Rx].seq /\ ec[Rx] = "ok"
      BY <2>1, <2>5 DEF SIInv, RxStages, RxReplies, SendFailed
    <3>4. frame[Rx] = [cmd |-> "unbind_resp", seq |-> HeadFrame.seq]
      BY <2>1, <2>5, <3>3 DEF Frame
    <3>5. Size(frame[Rx].cmd) = HeaderLen
      BY <2>5 DEF Size, Commands
    <3>6. LastUnit' = [frame |-> [cmd |-> "unbind_resp", seq |-> result'.seq],
                       part  |-> HeaderLen]
      BY <2>1, <3>1, <3>2, <3>3, <3>4, <3>5 DEF Answered
    <3> QED
      BY <3>1, <3>2, <3>6 DEF Answered
  <2> QED
    BY <1>4, <2>2, <2>3, <2>4, <2>5 DEF AfterSend
<1> QED
  BY <1>1, <1>2, <1>3, <1>4 DEF RxProgress

LEMMA RxCancelAnswered ==
  ASSUME SIInv, Progressed, Answered, NEW type \in RxCancels, RxCancel(type)
  PROVE  Progressed' /\ Answered'
<1>1. /\ rx # "idle" /\ rx_ec \in {"ok", "aborted", "neterr"}
      /\ Rx \in Callers
      /\ pc \in [Callers -> Stages]
  BY SessionAssumption DEF RxCancel, SIInv, RxStages, IInv, TypeOK
<1>2. Progressed'
  <2>1. UNCHANGED vars \/ Cancel(Rx)
    BY DEF RxCancel, Cancel
  <2> QED
    BY <1>1, <2>1, OtherProgressed DEF SIInv
<1>3. rx_ec' # "unbinded"
  BY <1>1 DEF RxCancel, EndRead
<1>4. rx' = "sending" => pc'[Rx] # "done"
  BY <1>1 DEF RxCancel, EndRead, CancelQueued, CancelWoken, CancelWriting,
              EndWrite, CancelWritten, Writing, vars, sendVars, opVars
<1> QED
  BY <1>2, <1>3, <1>4 DEF Answered

LEMMA OfSenderAnswered ==
  ASSUME SIInv, Progressed, Answered, NEW c \in Callers,
         ~Inline, UNCHANGED rxVars,
         \/ c # Rx /\ Start(c)
         \/ Progress(c) \/ WriteTimeout(c) \/ Cancel(c)
  PROVE  Progressed' /\ Answered'
<1>1. /\ UNCHANGED <<rx, rx_ec, result>>
      /\ Rx \in Callers
      /\ pc \in [Callers -> Stages] /\ ec \in [Callers -> Ecs]
      /\ rx = "sending" => frame'[Rx] = frame[Rx] /\ pc[Rx] # "done"
      /\ UNCHANGED socket
  BY RxFrameKept, SessionAssumption
  DEF SIInv, IInv, TypeOK, rxVars, rxState, Inline
<1>2. ASSUME NEW f, NEW s, WhileBufferBusy(c, f, s),
             pc[c] \notin {"writing", "written"}
      PROVE  Progressed' /\ Answered'
  <2>1. /\ Progressed' /\ LastUnit' = LastUnit
        /\ pc'[c] = "done" => ec'[c] = "serialization_failed"
    BY <1>2, LoopProgressed DEF SIInv
  <2>2. c # Rx => pc'[Rx] = pc[Rx]
    BY <1>1, <1>2 DEF WhileBufferBusy, WaitOnCv, StartWrite, SerializeFails
  <2> QED
    BY <1>1, <2>1, <2>2, AnsweredKept
<1>3. CASE c # Rx /\ Start(c)
  <2>1. PICK f \in Frame, s \in 0..MaxSeq :
          pc[c] \in {"idle", "done"} /\ WhileBufferBusy(c, f, s)
    BY <1>3, StartEntersLoop DEF SIInv, IInv
  <2> QED
    BY <1>2, <2>1
<1>4. CASE Resume(c)
  <2>1. CASE ~cancelled[c]
    BY <1>2, <1>4, <2>1 DEF Resume
  <2>2. CASE cancelled[c]
    <3>1. /\ pc[c] = "woken"
          /\ pc' = [pc EXCEPT ![c] = "done"]
          /\ Complete(c, "aborted")
          /\ UNCHANGED <<frame, wire, last_read>>
          /\ ec \in [Callers -> Ecs] /\ sent \in [Callers -> Nat]
      BY <1>4, <2>2 DEF Resume, netVars, SIInv, IInv, TypeOK
    <3>2. LastUnit' = LastUnit
      BY <3>1 DEF LastUnit
    <3>3. /\ pc'[c] = "done" /\ ec'[c] = "aborted" /\ sent'[c] = 0
          /\ \A d \in Callers \ {c} : /\ pc'[d] = pc[d] /\ ec'[d] = ec[d]
                                      /\ sent'[d] = sent[d]
      BY <1>1, <3>1 DEF Complete
    <3>4. \A d \in Callers : sent[d] # 0 => pc[d] \in {"writing", "written"}
      BY DEF Progressed, Writing
    <3>5. Progressed'
      BY <3>1, <3>2, <3>3, <3>4, QuietProgressed
    <3> QED
      BY <1>1, <3>2, <3>3, <3>5, AnsweredKept
  <2> QED
    BY <2>1, <2>2
<1>5. CASE WriteSome(c)
  <2>1. Progressed'
    BY <1>5, WriteSomeProgressed DEF SIInv
  <2>2. socket = "open" /\ pc'[Rx] = "done" => pc[Rx] = "done"
    BY <1>1, <1>5 DEF WriteSome, EndWrite
  <2>3. socket = "open"
    BY <1>5 DEF WriteSome
  <2> QED
    BY <1>1, <2>1, <2>2, <2>3 DEF Answered
<1>6. CASE WriteError(c) \/ WriteTimeout(c) \/ Cancel(c)
  <2>1. Progressed' /\ LastUnit' = LastUnit
    BY <1>6, OtherProgressed DEF SIInv
  <2>2. pc'[Rx] = "done" => pc[Rx] = "done"
    BY <1>1, <1>6 DEF WriteError, WriteTimeout, EndWrite, Cancel, CancelQueued,
                      CancelWoken, CancelWriting, CancelWritten
  <2> QED
    BY <1>1, <2>1, <2>2, AnsweredKept
<1>7. CASE WriteHandler(c)
  <2>1. /\ Progressed' /\ LastUnit' = LastUnit
        /\ pc'[c] = "done" /\ ec'[c] = "ok" =>
             LastUnit = [frame |-> frame[c], part |-> Size(frame[c].cmd)]
    BY <1>7, WriteHandlerProgressed DEF SIInv
  <2>2. c # Rx /\ pc'[Rx] = "done" => pc[Rx] = "done"
    BY <1>1, <1>7 DEF WriteHandler, CancelOne
  <2>3. CASE c = Rx /\ rx = "sending"
    BY <1>1, <2>1, <2>3 DEF Answered
  <2>4. CASE ~(c = Rx /\ rx = "sending")
    BY <1>1, <2>1, <2>2, <2>4, AnsweredKept
  <2> QED
    BY <2>3, <2>4
<1> QED
  BY <1>3, <1>4, <1>5, <1>6, <1>7 DEF Progress

LEMMA SNextAnswered ==
  ASSUME SIInv, Progressed, Answered, [SNext]_allVars
  PROVE  Progressed' /\ Answered'
<1>1. ASSUME NEW c \in Callers,
             \/ c # Rx /\ (OfSender(Start(c)) \/ OfSender(Cancel(c)))
             \/ OfSender(Progress(c)) \/ OfSender(WriteTimeout(c))
      PROVE  Progressed' /\ Answered'
  BY <1>1, OfSenderAnswered DEF OfSender
<1>2. CASE \/ OfSender(SocketReset)
           \/ \E cmd \in Numbered : PeerSend(cmd)
           \/ \E f \in owed : PeerAnswer(f)
           \/ PeerReads
           \/ UNCHANGED allVars
  <2>1. /\ UNCHANGED <<rx, rx_ec, result, pc, ec, frame>>
        /\ socket = "closed" => socket' = "closed"
        /\ UNCHANGED vars \/ PeerRead \/ SocketReset
    BY <1>2 DEF OfSender, SocketReset, PeerSend, PeerAnswer, PeerSends,
                PeerReads, PeerRead, allVars, vars, sendVars, opVars, netVars,
                rxVars, rxState
  <2>2. Progressed' /\ LastUnit' = LastUnit
    BY <2>1, OtherProgressed DEF SIInv
  <2> QED
    BY <2>1, <2>2, AnsweredKept
<1> QED
  BY <1>1, <1>2, RxStepAnswered, RxCancelAnswered DEF SNext, OwnNext

\* What HandedLast says of the concatenation.
LEMMA HandedLastUnit ==
  ASSUME TypeOK, NEW f
  PROVE  HandedLast(f) <=> LastUnit = [frame |-> f, part |-> Size(f.cmd)]
<1> DEFINE stream == <<last_read>> \o wire
<1>1. /\ last_read \in Unit /\ wire \in Seq(Unit)
      /\ Len(wire) \in Nat
      /\ <<last_read>> \in Seq(Unit) /\ Len(<<last_read>>) = 1
      /\ <<last_read>>[1] = last_read
  BY LenProperties DEF TypeOK
<1>2. /\ Len(stream) = 1 + Len(wire)
      /\ \A j \in 1..1 + Len(wire) :
           stream[j] = IF j <= 1 THEN <<last_read>>[j] ELSE wire[j - 1]
  BY <1>1, ConcatProperties
<1> HIDE DEF stream
<1>3. stream[Len(stream)] = LastUnit
  <2>1. CASE wire = <<>>
    BY <1>1, <1>2, <2>1, EmptySeq DEF LastUnit
  <2>2. CASE wire # <<>>
    <3>1. Len(wire) # 0 /\ 1 + Len(wire) \in 1..1 + Len(wire)
          /\ (1 + Len(wire)) - 1 = Len(wire)
      BY <1>1, <2>2, EmptySeq
    <3> QED
      BY <1>1, <1>2, <2>2, <3>1 DEF LastUnit
  <2> QED
    BY <2>1, <2>2
<1> QED
  BY <1>3 DEF HandedLast, Last, stream

LEMMA AnsweredUnbind ==
  ASSUME TypeOK, Answered
  PROVE  UnbindAnswered
<1> DEFINE f == [cmd |-> "unbind_resp", seq |-> result.seq]
<1>1. Size(f.cmd) = HeaderLen
  BY DEF Size, Commands
<1>2. rx_ec = "unbinded" /\ result.cmd = "unbind" =>
        LastUnit = [frame |-> f, part |-> Size(f.cmd)]
  BY <1>1 DEF Answered
<1> HIDE DEF f
<1>3. rx_ec = "unbinded" /\ result.cmd = "unbind" => HandedLast(f)
  BY <1>2, HandedLastUnit
<1> QED
  BY <1>3 DEF UnbindAnswered, f

LEMMA AnsweredHolds == SSpec => [](Progressed /\ Answered)
<1>1. SInit => Progressed /\ Answered
  BY SessionAssumption
  DEF SInit, Init, Progressed, Answered, Writing
<1>2. SIInv /\ Progressed /\ Answered /\ [SNext]_allVars
        => Progressed' /\ Answered'
  BY SNextAnswered
<1> QED
  BY <1>1, <1>2, SIInvHolds, PTL DEF SSpec

\* unbinded is only reported to the application once the peer's unbind has been
\* answered completely, with its number, and nothing is sent after that answer,
\* whatever the callers were sending (the branch for unbind in receive_op).
THEOREM UnbindIsAnswered == SSpec => []UnbindAnswered
<1>1. SIInv /\ Answered => UnbindAnswered
  BY AnsweredUnbind DEF SIInv, IInv
<1> QED
  BY <1>1, AnsweredHolds, SIInvHolds, PTL
-----------------------------------------------------------------------------
(* When the session is given up. *)

\* What silence is while no interval has passed since: the enquire_link that
\* marks the first one has been handed to TCP.
Counted == IF pending_enquire_link THEN 2 ELSE 0

\* UnbindOnlyAfterSilence with what leads up to it, stage by stage.
GivenUp ==
  /\ rx \in {"loop", "reading", "posted"} => silence = Counted
  /\ rx = "read" /\ rx_ec = "ok" =>
       silence = IF received = <<>> THEN Counted ELSE 0
  /\ rx = "read" /\ rx_ec = "aborted" /\ ~rx_cancelled => silence = Counted + 1
  /\ rx = "sending" /\ frame[Rx].cmd \in RxReplies => silence = Counted
  /\ rx = "sending" /\ frame[Rx].cmd = "enquire_link" =>
       pending_enquire_link /\ silence = 1
  /\ rx = "sending" /\ frame[Rx].cmd = "unbind" => silence = 3
  /\ UnbindOnlyAfterSilence

\* What a step does to what GivenUp speaks of.
LEMMA GivenUpKept ==
  ASSUME GivenUp,
         UNCHANGED <<rx, rx_ec, received, pending_enquire_link, result, silence>>,
         rx_cancelled => rx_cancelled',
         rx = "sending" => frame'[Rx] = frame[Rx]
  PROVE  GivenUp'
BY DEF GivenUp, Counted, UnbindOnlyAfterSilence

\* receive_op completes for another reason.
LEMMA EndsOtherwise ==
  ASSUME rx' = "idle",
         rx_ec' # "enquire_link_timeout" \/ result'.cmd # "unbind"
  PROVE  GivenUp'
BY DEF GivenUp, UnbindOnlyAfterSilence

\* receive_op goes on, with what is counted so far.
LEMMA GoesOnCounted ==
  ASSUME rx' \in {"loop", "reading", "posted"} \/
         (rx' = "read" /\ rx_ec' = "ok" /\ received' = <<>>) \/
         (rx' = "sending" /\ frame'[Rx].cmd \in RxReplies),
         rx_ec' # "enquire_link_timeout",
         silence' = Counted'
  PROVE  GivenUp'
BY DEF GivenUp, UnbindOnlyAfterSilence, RxReplies

LEMMA RxLoopGivenUp ==
  ASSUME SIInv, GivenUp, Loop
  PROVE  GivenUp'
<1>1. /\ rx = "loop" /\ rx_ec \in {"ok", "aborted", "neterr"}
      /\ received = <<>> /\ silence = Counted
  BY DEF Loop, SIInv, RxStages, GivenUp
<1>2. CASE StartRead
  <2>1. /\ UNCHANGED <<silence, pending_enquire_link, received>>
        /\ \/ rx' = "reading" /\ rx_ec' = rx_ec
           \/ rx' = "read" /\ rx_ec' = "ok"
    BY <1>2 DEF StartRead
  <2> QED
    BY <1>1, <2>1, GoesOnCounted DEF Counted
<1>3. CASE AnswerCommand
  <2>1. PICK cmd \in RxReplies : RxSend(cmd, HeadFrame.seq, sequence_number)
    BY <1>3 DEF AnswerCommand, AnswerNumber, RxReplies
  <2>2. TypeOK /\ cmd \in RxCommands \cup RxReplies
    BY DEF SIInv, IInv
  <2>3. frame'[Rx] = [cmd |-> cmd, seq |-> HeadFrame.seq] /\ rx' = "sending"
    BY <2>1, <2>2, RxSendFrame, Zenon
  <2>4. UNCHANGED <<silence, pending_enquire_link, rx_ec>>
    BY <1>3 DEF AnswerCommand
  <2> QED
    BY <1>1, <2>3, <2>4, GoesOnCounted DEF Counted
<1>4. CASE SkipEnquireLinkResp \/ (DeliverOrPost /\ ~DeliverNow)
  <2>1. /\ UNCHANGED <<silence, pending_enquire_link, rx_ec>>
        /\ rx' \in {"loop", "posted"}
    BY <1>1, <1>4 DEF SkipEnquireLinkResp, DeliverOrPost, rxState
  <2> QED
    BY <1>1, <2>1, GoesOnCounted DEF Counted
<1>5. CASE FinishUnbind \/ DeliverNow
  BY <1>5, EndsOtherwise DEF FinishUnbind, DeliverNow, RxComplete
<1> QED
  BY <1>2, <1>3, <1>4, <1>5 DEF Loop

LEMMA RxReadGivenUp ==
  ASSUME SIInv, GivenUp, ReadSome \/ ReadError \/ ReadTimeout \/ ReadHandler
  PROVE  GivenUp'
<1>1. /\ rx_ec \in {"ok", "aborted", "neterr"}
      /\ pending_enquire_link \in BOOLEAN /\ silence \in 0..3
  BY DEF ReadSome, ReadError, ReadTimeout, ReadHandler, SIInv, RxStages, RxTypes
<1>2. CASE ReadSome
  <2>1. /\ rx = "reading" /\ rx' = "read" /\ rx_ec' = "ok" /\ silence' = 0
        /\ \E k \in 1..Len(inq) : received' = SubSeq(inq, 1, k)
    BY <1>2 DEF ReadSome, EndRead
  <2>2. received' # <<>>
    <3>1. PICK k \in 1..Len(inq) : received' = SubSeq(inq, 1, k)
      BY <2>1
    <3>2. inq \in Seq(PeerUnit) /\ k \in 1..Len(inq) /\ Len(inq) \in Nat
      BY <3>1, LenProperties DEF SIInv, RxTypes
    <3>3. Len(SubSeq(inq, 1, k)) = k
      BY <3>2, TakeType, Zenon
    <3> QED
      BY <3>1, <3>2, <3>3, EmptySeq
  <2> QED
    BY <2>1, <2>2 DEF GivenUp, UnbindOnlyAfterSilence
<1>3. CASE ReadError
  BY <1>3 DEF ReadError, EndRead, GivenUp, UnbindOnlyAfterSilence
<1>4. CASE ReadTimeout
  <2>1. /\ silence = Counted
        /\ silence' = IF silence \in {0, 2} THEN silence + 1 ELSE silence
        /\ rx' = "read" /\ rx_ec' = "aborted" /\ UNCHANGED pending_enquire_link
    BY <1>4 DEF ReadTimeout, EndRead, GivenUp
  <2>2. Counted \in {0, 2} /\ Counted' = Counted
    BY <2>1 DEF Counted
  <2>3. silence' = Counted' + 1
    BY <2>1, <2>2
  <2> QED
    BY <2>1, <2>3 DEF GivenUp, UnbindOnlyAfterSilence
<1>5. CASE ReadHandler
  <2>1. CASE rx_ec = "ok" /\ DataReceived /\ rx' = "loop"
             /\ UNCHANGED <<rx_ec, silence>>
    <3>1. pending_enquire_link' = (pending_enquire_link /\ received = <<>>)
      BY <2>1 DEF DataReceived
    <3>2. silence = IF received = <<>> THEN Counted ELSE 0
      BY <1>5, <2>1 DEF ReadHandler, GivenUp
    <3>3. silence' = Counted'
      BY <1>1, <2>1, <3>1, <3>2 DEF Counted
    <3> QED
      BY <2>1, <3>3, GoesOnCounted
  <2>2. CASE rx_ec = "aborted" /\ ~rx_cancelled /\ AfterReadTimeout
    <3>1. silence = Counted + 1 /\ UNCHANGED <<rx_ec, silence>>
      BY <1>5, <2>2 DEF ReadHandler, AfterReadTimeout, GivenUp
    <3>2. PICK cmd \in RxCommands :
            /\ cmd = IF pending_enquire_link THEN "unbind" ELSE "enquire_link"
            /\ RxSend(cmd, NextSequenceNumber, NextSequenceNumber)
            /\ pending_enquire_link'
      BY <1>1, <2>2
      DEF AfterReadTimeout, SendUnbind, SendEnquireLink, RxCommands
    <3>3. TypeOK /\ cmd \in RxCommands \cup RxReplies
      BY DEF SIInv, IInv
    <3>4. frame'[Rx] = [cmd |-> cmd, seq |-> NextSequenceNumber] /\ rx' = "sending"
      BY <3>2, <3>3, RxSendFrame, Zenon
    <3>5. frame'[Rx].cmd = cmd /\ silence' = (IF pending_enquire_link THEN 3 ELSE 1)
      BY <3>1, <3>4 DEF Counted
    <3> QED
      BY <1>1, <2>2, <3>1, <3>2, <3>4, <3>5
      DEF GivenUp, UnbindOnlyAfterSilence, RxReplies
  <2>3. CASE RxComplete(rx_ec, NoFrame)
    BY <1>1, <2>3, EndsOtherwise DEF RxComplete
  <2> QED
    BY <1>5, <2>1, <2>2, <2>3 DEF ReadHandler
<1> QED
  BY <1>2, <1>3, <1>4, <1>5

LEMMA AfterSendGivenUp ==
  ASSUME SIInv, Answered, GivenUp, AfterSend
  PROVE  GivenUp'
<1>1. /\ rx = "sending" /\ pc[Rx] = "done"
      /\ rx_ec \in {"ok", "aborted", "neterr"}
  BY DEF AfterSend, SIInv, RxStages
<1>2. CASE /\ frame[Rx].cmd = "unbind"
           /\ RxComplete("enquire_link_timeout", frame[Rx])
  BY <1>1, <1>2 DEF RxComplete, GivenUp, UnbindOnlyAfterSilence
<1>3. CASE RxComplete(ec[Rx], NoFrame)
  BY <1>3, EndsOtherwise DEF RxComplete, NoFrame
<1>4. CASE /\ frame[Rx].cmd = "enquire_link" /\ ~SendFailed
           /\ rx' = "loop"
           /\ silence' = IF silence = 1 /\ HandedLast(frame[Rx])
                         THEN 2 ELSE silence
           /\ UNCHANGED <<rx_ec, pending_enquire_link>>
  <2>1. pending_enquire_link /\ silence = 1 /\ ec[Rx] = "ok"
    BY <1>1, <1>4 DEF GivenUp, SendFailed
  <2>2. LastUnit = [frame |-> frame[Rx], part |-> Size(frame[Rx].cmd)]
    BY <1>1, <2>1 DEF Answered
  <2>3. HandedLast(frame[Rx])
    BY <2>2, HandedLastUnit DEF SIInv, IInv
  <2>4. silence' = Counted'
    BY <1>4, <2>1, <2>3 DEF Counted
  <2> QED
    BY <1>1, <1>4, <2>4, GoesOnCounted
<1>5. CASE RxComplete("unbinded", HeadFrame)
  BY <1>5, EndsOtherwise DEF RxComplete
<1>6. CASE /\ frame[Rx].cmd = "enquire_link_resp"
           /\ rx' = "loop"
           /\ UNCHANGED <<rx_ec, pending_enquire_link, silence>>
  <2>1. silence' = Counted'
    BY <1>1, <1>6 DEF GivenUp, RxReplies, Counted
  <2> QED
    BY <1>1, <1>6, <2>1, GoesOnCounted
<1> QED
  BY <1>2, <1>3, <1>4, <1>5, <1>6 DEF AfterSend

LEMMA RxStepGivenUp ==
  ASSUME SIInv, Answered, GivenUp,
         AsyncReceive \/ Loop \/ AfterSend \/ RxProgress \/ ReadTimeout
  PROVE  GivenUp'
<1>1. CASE AsyncReceive
  <2>1. /\ rx' = "loop" /\ rx_ec' = "ok" /\ silence' = 0
        /\ ~pending_enquire_link /\ UNCHANGED pending_enquire_link
    BY <1>1 DEF AsyncReceive, SIInv, RxStages
  <2> QED
    BY <2>1, GoesOnCounted DEF Counted
<1>2. CASE Posted
  BY <1>2, EndsOtherwise DEF Posted, DeliverNow, RxComplete
<1> QED
  BY <1>1, <1>2, RxLoopGivenUp, RxReadGivenUp, AfterSendGivenUp DEF RxProgress

LEMMA RxCancelGivenUp ==
  ASSUME SIInv, GivenUp, NEW type \in RxCancels, RxCancel(type)
  PROVE  GivenUp'
<1>1. /\ UNCHANGED <<received, pending_enquire_link, silence, result>>
      /\ rx_cancelled'
  BY DEF RxCancel
<1>2. CASE rx = "reading"
  BY <1>1, <1>2 DEF RxCancel, EndRead, GivenUp, UnbindOnlyAfterSilence
<1>3. CASE rx # "reading"
  <2>1. /\ UNCHANGED <<rx, rx_ec>>
        /\ rx = "sending" => UNCHANGED frame
    BY <1>3 DEF RxCancel, CancelQueued, CancelWoken, CancelWriting,
                CancelWritten, vars, sendVars, opVars
  <2> QED
    BY <1>1, <2>1, GivenUpKept
<1> QED
  BY <1>2, <1>3

\* The steps in which receive_op has no part.
LEMMA OthersGivenUp ==
  ASSUME SIInv, GivenUp, UNCHANGED rxVars,
         rx = "sending" => frame'[Rx] = frame[Rx]
  PROVE  GivenUp'
BY GivenUpKept DEF rxVars, rxState

LEMMA SNextGivenUp ==
  ASSUME SIInv, Answered, GivenUp, [SNext]_allVars
  PROVE  GivenUp'
<1>1. ASSUME NEW c \in Callers,
             \/ c # Rx /\ (OfSender(Start(c)) \/ OfSender(Cancel(c)))
             \/ OfSender(Progress(c)) \/ OfSender(WriteTimeout(c))
      PROVE  GivenUp'
  BY <1>1, RxFrameKept, OthersGivenUp DEF OfSender, SIInv
<1>2. CASE \/ OfSender(SocketReset)
           \/ \E cmd \in Numbered : PeerSend(cmd)
           \/ \E f \in owed : PeerAnswer(f)
           \/ PeerReads
           \/ UNCHANGED allVars
  <2>1. UNCHANGED <<rxVars, frame>>
    BY <1>2 DEF OfSender, SocketReset, PeerSend, PeerAnswer, PeerSends,
                PeerReads, PeerRead, allVars, vars, sendVars, opVars
  <2> QED
    BY <2>1, OthersGivenUp
<1> QED
  BY <1>1, <1>2, RxStepGivenUp, RxCancelGivenUp DEF SNext, OwnNext

\* A session is only given up after an interval without data, an enquire_link
\* that was handed to TCP whole and a second interval without data, in this
\* order, whatever is buffered, cancelled or being sent meanwhile
\* (pending_enquire_link_ in the handlers of receive_op).
THEOREM GivenUpOnlyAfterSilence == SSpec => []UnbindOnlyAfterSilence
<1>1. SInit => GivenUp
  BY DEF SInit, GivenUp, UnbindOnlyAfterSilence
<1>2. SIInv /\ Answered /\ GivenUp /\ [SNext]_allVars => GivenUp'
  BY SNextGivenUp
<1>3. GivenUp => UnbindOnlyAfterSilence
  BY DEF GivenUp
<1> QED
  BY <1>1, <1>2, <1>3, AnsweredHolds, SIInvHolds, PTL DEF SSpec
=============================================================================
