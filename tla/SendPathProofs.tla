--------------------------- MODULE SendPathProofs ---------------------------
(* Theorems about the sending half of a session. *)
EXTENDS SendPath, SequenceTheorems, FiniteSetTheorems, TLAPS

USE SendPathAssumption

-----------------------------------------------------------------------------
(* The state stays well typed. *)

\* The next number is a number of ours.
LEMMA NextNumberType ==
  ASSUME TypeOK
  PROVE  NextSequenceNumber \in 1..MaxSeq
BY DEF TypeOK, NextSequenceNumber

\* Removing one element leaves a sequence.
LEMMA RemoveAtType ==
  ASSUME NEW S, NEW s \in Seq(S), NEW i \in 1..Len(s)
  PROVE  /\ RemoveAt(s, i) \in Seq(S)
         /\ Len(RemoveAt(s, i)) = Len(s) - 1
         /\ \A j \in 1..Len(s) - 1 :
              RemoveAt(s, i)[j] = IF j < i THEN s[j] ELSE s[j + 1]
<1> DEFINE a == SubSeq(s, 1, i - 1)
           b == SubSeq(s, i + 1, Len(s))
<1>1. \A j \in 1..Len(s) : s[j] \in S
  BY ElementOfSeq
<1>2. /\ a \in Seq(S)
      /\ Len(a) = i - 1
      /\ \A j \in 1..i - 1 : a[j] = s[j]
  <2>1. \A j \in 1..i - 1 : s[j] \in S  BY <1>1, LenProperties
  <2>2. 1 \in Int /\ i - 1 \in Int  OBVIOUS
  <2> QED BY <2>1, <2>2, SubSeqProperties, SMTT(30)
<1>3. /\ b \in Seq(S)
      /\ Len(b) = Len(s) - i
      /\ \A j \in 1..Len(s) - i : b[j] = s[i + j]
  <2>1. \A j \in i + 1..Len(s) : s[j] \in S  BY <1>1, LenProperties
  <2>2. i + 1 \in Int /\ Len(s) \in Int  BY LenProperties
  <2> QED BY <2>1, <2>2, SubSeqProperties, SMTT(30)
<1> HIDE DEF a, b
<1>4. /\ a \o b \in Seq(S)
      /\ Len(a \o b) = Len(s) - 1
      /\ \A j \in 1..Len(s) - 1 :
           (a \o b)[j] = IF j <= i - 1 THEN a[j] ELSE b[j - (i - 1)]
  <2>1. /\ a \o b \in Seq(S)
        /\ Len(a \o b) = Len(a) + Len(b)
        /\ \A j \in 1..Len(a) + Len(b) :
             (a \o b)[j] = IF j <= Len(a) THEN a[j] ELSE b[j - Len(a)]
    BY <1>2, <1>3, ConcatProperties, Zenon
  <2>2. Len(s) \in Nat
    BY LenProperties, Zenon
  <2>3. Len(a) + Len(b) = Len(s) - 1
    BY <1>2, <1>3, <2>2, SMT
  <2> QED
    BY <1>2, <2>1, <2>3, Zenon
<1>5. RemoveAt(s, i) = a \o b
  BY DEF RemoveAt, a, b
<1>6. ASSUME NEW j \in 1..Len(s) - 1
      PROVE  (a \o b)[j] = IF j < i THEN s[j] ELSE s[j + 1]
  <2>1. Len(s) \in Nat
    BY LenProperties, Zenon
  <2>2. CASE j < i
    BY <1>2, <1>4, <2>1, <2>2
  <2>3. CASE ~(j < i)
    <3>1. j - (i - 1) \in 1..Len(s) - i /\ i + (j - (i - 1)) = j + 1
      BY <2>1, <2>3
    <3>2. b[j - (i - 1)] = s[j + 1]
      BY <1>3, <3>1
    <3> QED
      BY <1>4, <2>1, <2>3, <3>2
  <2> QED
    BY <2>2, <2>3
<1> QED
  BY <1>4, <1>5, <1>6

\* Whatever the while loop does with a well-typed frame.
LEMMA WhileBufferBusyType ==
  ASSUME TypeOK, NEW c \in Callers, NEW f \in Frame, NEW s \in 0..MaxSeq,
         WhileBufferBusy(c, f, s)
  PROVE  TypeOK'
<1>1. CASE WaitOnCv(c, f, s)
  <2>1. send_cv' \in Seq(Callers)
    BY <1>1, AppendProperties DEF TypeOK, WaitOnCv
  <2> QED
    BY <1>1, <2>1 DEF TypeOK, WaitOnCv, netVars, Stages, Ecs
<1>2. CASE StartWrite(c, f, s)
  BY <1>2, NextNumberType
  DEF TypeOK, StartWrite, netVars, Stages, Ecs, Frame, Cmds, Commands
<1>3. CASE SerializeFails(c, f, s)
  BY <1>3 DEF TypeOK, SerializeFails, Complete, netVars, Stages, Ecs
<1> QED
  BY <1>1, <1>2, <1>3 DEF WhileBufferBusy

\* cancel_one keeps the queue and the stages well typed.
LEMMA CancelOneType ==
  ASSUME TypeOK, NEW completed \in [Callers -> Stages], CancelOne(completed)
  PROVE  /\ send_cv' \in Seq(Callers)
         /\ pc' \in [Callers -> Stages]
<1>1. CASE send_cv = <<>>
  BY <1>1 DEF TypeOK, CancelOne
<1>2. CASE send_cv # <<>>
  <2>1. Head(send_cv) \in Callers /\ Tail(send_cv) \in Seq(Callers)
    BY <1>2, HeadTailProperties, Zenon DEF TypeOK
  <2> QED
    BY <1>2, <2>1 DEF CancelOne, Stages
<1> QED
  BY <1>1, <1>2

LEMMA CompleteType ==
  ASSUME TypeOK, NEW c \in Callers, NEW e \in Ecs, Complete(c, e)
  PROVE  /\ ec' \in [Callers -> Ecs]
         /\ cancelled' \in [Callers -> BOOLEAN]
         /\ sent' \in [Callers -> Nat]
BY DEF TypeOK, Complete

LEMMA NoFrameType == NoFrame \in Frame
BY DEF NoFrame, Frame

\* Every operation that starts enters the loop with a frame of its own.
LEMMA StartEntersLoop ==
  ASSUME TypeOK, NEW c \in Callers, Start(c)
  PROVE  \E f \in Frame, s \in 0..MaxSeq :
           /\ pc[c] \in {"idle", "done"}
           /\ f.cmd \in Cmds
           /\ WhileBufferBusy(c, f, s)
<1> DEFINE F(cmd, n) == [cmd |-> cmd, seq |-> n]
<1>1. /\ sequence_number \in 0..MaxSeq
      /\ NextSequenceNumber \in 0..MaxSeq
      /\ 0 \in 0..MaxSeq
      /\ PeerNumbers \subseteq 0..MaxSeq
  BY NextNumberType DEF TypeOK
<1>2. \A cmd \in Cmds, n \in 0..MaxSeq :
        F(cmd, n) \in Frame /\ F(cmd, n).cmd \in Cmds
  BY DEF Frame
<1>3. SUFFICES \E cmd \in Cmds, n \in 0..MaxSeq, s \in 0..MaxSeq :
                 pc[c] \in {"idle", "done"} /\ WhileBufferBusy(c, F(cmd, n), s)
  BY <1>2
<1>4. CASE AsyncSendRequest(c)
  <2>1. /\ pc[c] \in {"idle", "done"}
        /\ WhileBufferBusy(c, F("request", 0), sequence_number)
    BY <1>4 DEF AsyncSendRequest, Initiate
  <2> QED
    BY <1>1, <2>1 DEF Cmds
<1>5. CASE \E n \in PeerNumbers : AsyncSendResponse(c, n)
  <2>1. PICK n \in PeerNumbers :
             /\ pc[c] \in {"idle", "done"}
             /\ WhileBufferBusy(c, F("response", n), sequence_number)
    BY <1>5 DEF AsyncSendResponse, Initiate
  <2> QED
    BY <1>1, <2>1 DEF Cmds
<1>6. CASE \E cmd \in Menu \cap {"enquire_link", "unbind"} :
             AsyncSendNumbered(c, cmd)
  <2>1. PICK cmd \in {"enquire_link", "unbind"} :
             /\ pc[c] \in {"idle", "done"}
             /\ WhileBufferBusy(c, F(cmd, NextSequenceNumber),
                                NextSequenceNumber)
    BY <1>6 DEF AsyncSendNumbered, Initiate
  <2> QED
    BY <1>1, <2>1 DEF Cmds, Commands
<1>7. CASE \E cmd \in Menu \cap {"enquire_link_resp", "unbind_resp"} :
             \E n \in PeerNumbers : AsyncSendReply(c, cmd, n)
  <2>1. PICK cmd \in {"enquire_link_resp", "unbind_resp"}, n \in PeerNumbers :
             /\ pc[c] \in {"idle", "done"}
             /\ WhileBufferBusy(c, F(cmd, n), sequence_number)
    BY <1>7 DEF AsyncSendReply, Initiate
  <2> QED
    BY <1>1, <2>1 DEF Cmds, Commands
<1> QED
  BY <1>4, <1>5, <1>6, <1>7 DEF Start

LEMMA StartType ==
  ASSUME TypeOK, NEW c \in Callers, Start(c)
  PROVE  TypeOK'
BY StartEntersLoop, WhileBufferBusyType

LEMMA ResumeType ==
  ASSUME TypeOK, NEW c \in Callers, Resume(c)
  PROVE  TypeOK'
<1>1. CASE cancelled[c]
  <2>1. Complete(c, "aborted") /\ "aborted" \in Ecs
    BY <1>1 DEF Resume, Ecs
  <2> QED
    BY <1>1, <2>1, CompleteType DEF Resume, TypeOK, netVars, Stages
<1>2. CASE ~cancelled[c]
  BY <1>2, WhileBufferBusyType DEF Resume, TypeOK
<1> QED
  BY <1>1, <1>2

LEMMA CancelType ==
  ASSUME TypeOK, NEW c \in Callers, Cancel(c)
  PROVE  TypeOK'
<1>1. CASE CancelQueued(c)
  <2>1. send_cv' \in Seq(Callers)
    <3>1. PICK i \in 1..Len(send_cv) : send_cv' = RemoveAt(send_cv, i)
      BY <1>1 DEF CancelQueued
    <3>2. send_cv \in Seq(Callers)
      BY DEF TypeOK
    <3> QED
      BY <3>1, <3>2, RemoveAtType
  <2> QED
    BY <1>1, <2>1 DEF CancelQueued, TypeOK, netVars, Stages
<1>2. CASE CancelWoken(c)
  BY <1>2 DEF CancelWoken, TypeOK, netVars
<1>3. CASE CancelWriting(c)
  BY <1>3 DEF CancelWriting, EndWrite, TypeOK, netVars, Stages, Ecs
<1>4. CASE CancelWritten(c)
  BY <1>4 DEF CancelWritten, TypeOK, netVars
<1> QED
  BY <1>1, <1>2, <1>3, <1>4 DEF Cancel

LEMMA WriteSomeType ==
  ASSUME TypeOK, NEW c \in Callers, WriteSome(c)
  PROVE  TypeOK'
<1>1. wire' \in Seq(Unit)
  <2>1. [frame |-> frame[c], part |-> sent[c] + 1] \in Unit
    BY DEF TypeOK, Unit
  <2> QED
    BY <2>1, AppendProperties DEF WriteSome, TypeOK
<1>2. pc' \in [Callers -> Stages] /\ ec' \in [Callers -> Ecs]
  BY DEF WriteSome, EndWrite, TypeOK, Stages, Ecs
<1>3. sent' \in [Callers -> Nat]
  BY DEF WriteSome, TypeOK
<1> QED
  BY <1>1, <1>2, <1>3 DEF WriteSome, TypeOK

LEMMA WriteHandlerType ==
  ASSUME TypeOK, NEW c \in Callers, WriteHandler(c)
  PROVE  TypeOK'
<1>1. CASE TimedOut(c)
  <2>1. Complete(c, "enquire_link_timeout") /\ "enquire_link_timeout" \in Ecs
    BY <1>1 DEF WriteHandler, Ecs
  <2> QED
    BY <1>1, <2>1, CompleteType DEF WriteHandler, TypeOK, netVars, Stages
<1>2. CASE ~TimedOut(c)
  <2>1. [pc EXCEPT ![c] = "done"] \in [Callers -> Stages]
    BY DEF TypeOK, Stages
  <2>2. send_cv' \in Seq(Callers) /\ pc' \in [Callers -> Stages]
    BY <1>2, <2>1, CancelOneType DEF WriteHandler
  <2>3. Complete(c, ec[c]) /\ ec[c] \in Ecs
    BY <1>2 DEF WriteHandler, TypeOK
  <2> QED
    BY <1>2, <2>2, <2>3, CompleteType, NoFrameType
    DEF WriteHandler, TypeOK, netVars
<1> QED
  BY <1>1, <1>2

LEMMA InitType == Init => TypeOK
<1> SUFFICES ASSUME Init PROVE TypeOK
  OBVIOUS
<1>2. <<>> \in Seq(Callers) /\ <<>> \in Seq(Unit)
  BY EmptySeq
<1> QED
  BY <1>2, NoFrameType DEF Init, TypeOK, Stages, Ecs, Unit

LEMMA NextType == TypeOK /\ [Next]_vars => TypeOK'
<1> SUFFICES ASSUME TypeOK, [Next]_vars PROVE TypeOK'
  OBVIOUS
<1>1. ASSUME NEW c \in Callers, Start(c) PROVE TypeOK'
  BY <1>1, StartType
<1>2. ASSUME NEW c \in Callers, Progress(c) PROVE TypeOK'
  <2>1. CASE Resume(c)
    BY <2>1, ResumeType
  <2>2. CASE WriteSome(c)
    BY <2>2, WriteSomeType
  <2>3. CASE WriteError(c)
    BY <2>3 DEF WriteError, EndWrite, TypeOK, netVars, Stages, Ecs
  <2>4. CASE WriteHandler(c)
    BY <2>4, WriteHandlerType
  <2> QED
    BY <1>2, <2>1, <2>2, <2>3, <2>4 DEF Progress
<1>3. ASSUME NEW c \in Callers, WriteTimeout(c) PROVE TypeOK'
  BY <1>3 DEF WriteTimeout, EndWrite, TypeOK, netVars, Stages, Ecs
<1>4. ASSUME NEW c \in Callers, Cancel(c) PROVE TypeOK'
  BY <1>4, CancelType
<1>5. CASE PeerRead
  BY <1>5, HeadTailProperties DEF PeerRead, TypeOK, sendVars, opVars
<1>6. CASE SocketReset
  BY <1>6 DEF SocketReset, TypeOK, sendVars, opVars
<1>7. CASE ShutdownSocket
  BY <1>7 DEF ShutdownSocket, CloseSocket, TypeOK, Stages, Ecs
<1>8. CASE UNCHANGED vars
  BY <1>8 DEF TypeOK, vars, sendVars, opVars, netVars
<1> QED
  BY <1>1, <1>2, <1>3, <1>4, <1>5, <1>6, <1>7, <1>8 DEF Next

\* Every reachable state of the sending half is well typed: in particular a
\* handler never runs in a state that its operation has left, and every number
\* is one that the header may carry.
THEOREM TypeCorrect == Spec => []TypeOK
BY InitType, NextType, PTL DEF Spec
-----------------------------------------------------------------------------
(* The buffer belongs to the one operation that writes. *)

\* A suspended operation has a frame to send.
FramesNamed ==
  \A c \in Active : frame[c].cmd \in Cmds

\* send_cv_ holds the waits that are pending, each of them once, and a
\* cancellation ends a wait at once.
QueueMatchesWaiters ==
  /\ \A i \in 1..Len(send_cv) : pc[send_cv[i]] = "queued"
  /\ \A i, j \in 1..Len(send_cv) : send_cv[i] = send_cv[j] => i = j
  /\ \A c \in Callers : pc[c] \in {"idle", "queued", "done"} => ~cancelled[c]

\* The inductive invariant: WriterOwnsBuffer alone is not inductive, because
\* a wake-up must find a waiter and not the writer of a frame.
IInv ==
  /\ TypeOK
  /\ FramesNamed
  /\ WriterOwnsBuffer
  /\ QueueMatchesWaiters

LEMMA InitIInv == Init => IInv
<1> SUFFICES ASSUME Init PROVE IInv
  OBVIOUS
<1>1. TypeOK
  BY InitType
<1>2. FramesNamed /\ WriterOwnsBuffer
  BY DEF Init, FramesNamed, WriterOwnsBuffer, Active, Writing
<1>3. QueueMatchesWaiters
  BY DEF Init, QueueMatchesWaiters
<1> QED
  BY <1>1, <1>2, <1>3 DEF IInv

\* A free buffer means that nobody writes.
LEMMA FreeBufferNoWriter ==
  ASSUME IInv, send_buf = NoFrame
  PROVE  Writing = {}
<1>1. \A c \in Writing : frame[c].cmd \in Cmds /\ frame[c] = NoFrame
  BY DEF IInv, FramesNamed, WriterOwnsBuffer, Active, Writing
<1> QED
  BY <1>1 DEF NoFrame, Cmds, Commands

LEMMA WaitOnCvIInv ==
  ASSUME IInv, NEW c \in Callers, NEW f \in Frame, NEW s \in 0..MaxSeq,
         pc[c] \in {"idle", "done", "woken"}, ~cancelled[c], f.cmd \in Cmds,
         WaitOnCv(c, f, s), TypeOK'
  PROVE  IInv'
<1>1. send_cv \in Seq(Callers) /\ Len(send_cv) \in Nat
  BY LenProperties DEF IInv, TypeOK
<1>2. /\ Len(send_cv') = Len(send_cv) + 1
      /\ \A i \in 1..Len(send_cv) : send_cv'[i] = send_cv[i]
      /\ send_cv'[Len(send_cv) + 1] = c
  BY <1>1, AppendProperties DEF WaitOnCv
<1>3. \A i \in 1..Len(send_cv) : send_cv[i] # c
  BY DEF IInv, QueueMatchesWaiters
<1>4. pc' = [pc EXCEPT ![c] = "queued"] /\ pc \in [Callers -> Stages]
  BY DEF WaitOnCv, IInv, TypeOK
<1>5. \A i \in 1..Len(send_cv) : send_cv[i] \in Callers
  BY <1>1, ElementOfSeq
<1>6. QueueMatchesWaiters'
  <2>1. \A i \in 1..Len(send_cv') : pc'[send_cv'[i]] = "queued"
    BY <1>1, <1>2, <1>4, <1>5 DEF IInv, QueueMatchesWaiters
  <2>2. \A i, j \in 1..Len(send_cv') : send_cv'[i] = send_cv'[j] => i = j
    BY <1>1, <1>2, <1>3 DEF IInv, QueueMatchesWaiters
  <2>3. \A d \in Callers :
          pc'[d] \in {"idle", "queued", "done"} => ~cancelled'[d]
    BY <1>4 DEF WaitOnCv, IInv, QueueMatchesWaiters
  <2> QED
    BY <2>1, <2>2, <2>3 DEF QueueMatchesWaiters
<1>7. FramesNamed' /\ WriterOwnsBuffer'
  BY <1>4 DEF WaitOnCv, IInv, TypeOK, FramesNamed, WriterOwnsBuffer, Active,
              Writing
<1> QED
  BY <1>6, <1>7 DEF IInv

\* An operation in a stage from which no wait is pending leaves the queue as
\* it is, whatever its next stage.
LEMMA QueueUndisturbed ==
  ASSUME IInv, NEW c \in Callers, pc[c] # "queued", NEW stage \in Stages,
         pc' = [pc EXCEPT ![c] = stage], UNCHANGED send_cv,
         \A d \in Callers \ {c} : cancelled'[d] = cancelled[d],
         stage \in {"idle", "queued", "done"} => ~cancelled'[c]
  PROVE  QueueMatchesWaiters'
<1>1. pc \in [Callers -> Stages]
  BY DEF IInv, TypeOK
<1>2. \A i \in 1..Len(send_cv) : send_cv[i] \in Callers
  BY ElementOfSeq DEF IInv, TypeOK
<1>3. \A i \in 1..Len(send_cv') : pc'[send_cv'[i]] = "queued"
  BY <1>1, <1>2 DEF IInv, QueueMatchesWaiters
<1>4. \A i, j \in 1..Len(send_cv') : send_cv'[i] = send_cv'[j] => i = j
  BY DEF IInv, QueueMatchesWaiters
<1>5. \A d \in Callers :
        pc'[d] \in {"idle", "queued", "done"} => ~cancelled'[d]
  BY <1>1 DEF IInv, QueueMatchesWaiters
<1> QED
  BY <1>3, <1>4, <1>5 DEF QueueMatchesWaiters

LEMMA StartWriteIInv ==
  ASSUME IInv, NEW c \in Callers, NEW f \in Frame, NEW s \in 0..MaxSeq,
         pc[c] # "queued", ~cancelled[c], f.cmd \in Cmds,
         send_buf = NoFrame, StartWrite(c, f, s), TypeOK'
  PROVE  IInv'
<1>1. /\ pc \in [Callers -> Stages]
      /\ frame \in [Callers -> Frame]
      /\ cancelled' = cancelled
      /\ send_cv' = send_cv
  BY DEF IInv, TypeOK, StartWrite
<1>2. pc' = [pc EXCEPT ![c] = "writing"]
  BY DEF StartWrite
<1>3. Writing = {}
  BY FreeBufferNoWriter
<1>4. /\ frame'[c] = send_buf'
      /\ frame'[c].cmd = f.cmd
      /\ \A d \in Callers \ {c} : frame'[d] = frame[d]
  BY <1>1 DEF StartWrite
<1>5. QueueMatchesWaiters'
  BY <1>1, <1>2, QueueUndisturbed DEF Stages
<1>6. WriterOwnsBuffer'
  BY <1>1, <1>2, <1>3, <1>4 DEF WriterOwnsBuffer, Writing
<1>7. FramesNamed'
  BY <1>1, <1>2, <1>4 DEF IInv, FramesNamed, Active
<1> QED
  BY <1>5, <1>6, <1>7 DEF IInv

LEMMA SerializeFailsIInv ==
  ASSUME IInv, NEW c \in Callers, NEW f \in Frame, NEW s \in 0..MaxSeq,
         pc[c] \in {"idle", "done", "woken"}, SerializeFails(c, f, s), TypeOK'
  PROVE  IInv'
<1>1. /\ pc \in [Callers -> Stages]
      /\ frame \in [Callers -> Frame]
      /\ cancelled \in [Callers -> BOOLEAN]
  BY DEF IInv, TypeOK
<1>2. /\ pc' = [pc EXCEPT ![c] = "done"]
      /\ send_cv' = send_cv
      /\ cancelled' = [cancelled EXCEPT ![c] = FALSE]
  BY DEF SerializeFails, Complete
<1>3. QueueMatchesWaiters'
  BY <1>1, <1>2, QueueUndisturbed DEF Stages
<1>4. FramesNamed' /\ WriterOwnsBuffer'
  BY <1>1, <1>2 DEF SerializeFails, IInv, FramesNamed, WriterOwnsBuffer,
                    Active, Writing
<1> QED
  BY <1>3, <1>4 DEF IInv

LEMMA WhileBufferBusyIInv ==
  ASSUME IInv, NEW c \in Callers, NEW f \in Frame, NEW s \in 0..MaxSeq,
         pc[c] \in {"idle", "done", "woken"}, ~cancelled[c], f.cmd \in Cmds,
         WhileBufferBusy(c, f, s)
  PROVE  IInv'
<1>1. TypeOK'
  BY WhileBufferBusyType DEF IInv
<1>2. CASE WaitOnCv(c, f, s)
  BY <1>1, <1>2, WaitOnCvIInv
<1>3. CASE send_buf = NoFrame /\ StartWrite(c, f, s)
  BY <1>1, <1>3, StartWriteIInv
<1>4. CASE SerializeFails(c, f, s)
  BY <1>1, <1>4, SerializeFailsIInv
<1> QED
  BY <1>2, <1>3, <1>4 DEF WhileBufferBusy

LEMMA StartIInv ==
  ASSUME IInv, NEW c \in Callers, Start(c)
  PROVE  IInv'
<1>1. PICK f \in Frame, s \in 0..MaxSeq :
        /\ pc[c] \in {"idle", "done"}
        /\ f.cmd \in Cmds
        /\ WhileBufferBusy(c, f, s)
  BY StartEntersLoop DEF IInv
<1>2. ~cancelled[c]
  BY <1>1 DEF IInv, QueueMatchesWaiters
<1> QED
  BY <1>1, <1>2, WhileBufferBusyIInv

LEMMA ResumeIInv ==
  ASSUME IInv, NEW c \in Callers, Resume(c)
  PROVE  IInv'
<1>1. TypeOK'
  BY ResumeType DEF IInv
<1>2. CASE cancelled[c]
  <2>1. /\ pc \in [Callers -> Stages]
        /\ cancelled \in [Callers -> BOOLEAN]
    BY DEF IInv, TypeOK
  <2>2. /\ pc' = [pc EXCEPT ![c] = "done"]
        /\ pc[c] = "woken"
        /\ UNCHANGED <<send_cv, send_buf, frame>>
        /\ cancelled' = [cancelled EXCEPT ![c] = FALSE]
    BY <1>2 DEF Resume, Complete
  <2>3. QueueMatchesWaiters'
    BY <2>1, <2>2, QueueUndisturbed DEF Stages
  <2>4. FramesNamed' /\ WriterOwnsBuffer'
    BY <2>1, <2>2 DEF IInv, FramesNamed, WriterOwnsBuffer, Active, Writing
  <2> QED
    BY <1>1, <2>3, <2>4 DEF IInv
<1>3. CASE ~cancelled[c]
  <2>1. /\ frame[c] \in Frame
        /\ frame[c].cmd \in Cmds
        /\ sequence_number \in 0..MaxSeq
    BY DEF Resume, IInv, TypeOK, FramesNamed, Active
  <2> QED
    BY <1>3, <2>1, WhileBufferBusyIInv DEF Resume
<1> QED
  BY <1>2, <1>3

LEMMA CancelQueuedIInv ==
  ASSUME IInv, NEW c \in Callers, CancelQueued(c), TypeOK'
  PROVE  IInv'
<1>1. /\ pc \in [Callers -> Stages]
      /\ send_cv \in Seq(Callers)
      /\ Len(send_cv) \in Nat
      /\ cancelled \in [Callers -> BOOLEAN]
      /\ frame' = frame /\ send_buf' = send_buf
      /\ pc' = [pc EXCEPT ![c] = "woken"]
      /\ cancelled' = [cancelled EXCEPT ![c] = TRUE]
      /\ pc[c] = "queued"
  BY LenProperties DEF IInv, TypeOK, CancelQueued
<1>2. PICK k \in 1..Len(send_cv) :
             send_cv[k] = c /\ send_cv' = RemoveAt(send_cv, k)
  BY DEF CancelQueued
<1>3. /\ Len(send_cv') = Len(send_cv) - 1
      /\ \A j \in 1..Len(send_cv) - 1 :
           send_cv'[j] = IF j < k THEN send_cv[j] ELSE send_cv[j + 1]
  <2> DEFINE r == RemoveAt(send_cv, k)
  <2>0. send_cv \in Seq(Callers) /\ k \in 1..Len(send_cv)
    BY <1>1
  <2>1. /\ Len(r) = Len(send_cv) - 1
        /\ \A j \in 1..Len(send_cv) - 1 :
             r[j] = IF j < k THEN send_cv[j] ELSE send_cv[j + 1]
    BY ONLY <2>0, RemoveAtType, Zenon
  <2> HIDE DEF r
  <2>2. send_cv' = r
    BY <1>2 DEF r
  <2> QED
    BY <2>1, <2>2, Zenon
<1> DEFINE at(n) == IF n < k THEN n ELSE n + 1
<1>4. \A j \in 1..Len(send_cv') :
         /\ at(j) \in 1..Len(send_cv)
         /\ at(j) # k
         /\ send_cv'[j] = send_cv[at(j)]
  <2> TAKE j \in 1..Len(send_cv')
  <2>1. at(j) \in 1..Len(send_cv) /\ at(j) # k
    BY <1>1, <1>3
  <2>2. j \in 1..Len(send_cv) - 1
    BY <1>3
  <2>3. send_cv'[j] = send_cv[at(j)]
    BY <1>3, <2>2
  <2> QED
    BY <2>1, <2>3
<1>5. \A i \in 1..Len(send_cv) :
         i # k => send_cv[i] # c /\ send_cv[i] \in Callers
  BY <1>1, <1>2, ElementOfSeq DEF IInv, QueueMatchesWaiters
<1>6. \A j \in 1..Len(send_cv') : pc'[send_cv'[j]] = "queued"
  BY <1>1, <1>4, <1>5 DEF IInv, QueueMatchesWaiters
<1>7. ASSUME NEW i \in 1..Len(send_cv'), NEW j \in 1..Len(send_cv'),
             send_cv'[i] = send_cv'[j]
      PROVE  i = j
  <2>1. at(i) = at(j)
    <3>1. \A m, n \in 1..Len(send_cv) : send_cv[m] = send_cv[n] => m = n
      BY DEF IInv, QueueMatchesWaiters
    <3>2. /\ at(i) \in 1..Len(send_cv) /\ at(j) \in 1..Len(send_cv)
          /\ send_cv[at(i)] = send_cv[at(j)]
      BY <1>4, <1>7
    <3> HIDE DEF at
    <3> QED
      BY <3>1, <3>2
  <2> QED
    BY <1>1, <1>3, <2>1
<1>8. QueueMatchesWaiters'
  BY <1>1, <1>6, <1>7 DEF IInv, QueueMatchesWaiters
<1>9. FramesNamed' /\ WriterOwnsBuffer'
  BY <1>1 DEF IInv, FramesNamed, WriterOwnsBuffer, Active, Writing
<1> QED
  BY <1>8, <1>9 DEF IInv

\* The steps that only move the write of c along.
LEMMA WritingStepIInv ==
  ASSUME IInv, NEW c \in Callers, c \in Writing \/ pc[c] = "woken",
         NEW stage \in {pc[c], "written"}, pc[c] = "woken" => stage = pc[c],
         pc' = [pc EXCEPT ![c] = stage],
         \A d \in Callers \ {c} : cancelled'[d] = cancelled[d],
         UNCHANGED <<send_cv, send_buf, frame>>, TypeOK'
  PROVE  IInv'
<1>1. pc \in [Callers -> Stages] /\ stage \in Stages
  BY DEF IInv, TypeOK, Stages
<1>2. pc[c] \in {"woken", "writing", "written"}
  BY DEF Writing
<1>3. QueueMatchesWaiters'
  BY <1>1, <1>2, QueueUndisturbed
<1>4. FramesNamed' /\ WriterOwnsBuffer'
  BY <1>1, <1>2 DEF IInv, FramesNamed, WriterOwnsBuffer, Active, Writing
<1> QED
  BY <1>3, <1>4 DEF IInv

LEMMA CancelIInv ==
  ASSUME IInv, NEW c \in Callers, Cancel(c)
  PROVE  IInv'
<1>1. /\ TypeOK'
      /\ pc \in [Callers -> Stages]
      /\ cancelled \in [Callers -> BOOLEAN]
  BY CancelType DEF IInv, TypeOK
<1>2. CASE CancelQueued(c)
  BY <1>1, <1>2, CancelQueuedIInv
<1>3. CASE CancelWoken(c) \/ CancelWritten(c)
  <2>1. pc' = [pc EXCEPT ![c] = pc[c]]
    BY <1>1, <1>3 DEF CancelWoken, CancelWritten
  <2> QED
    BY <1>1, <1>3, <2>1, WritingStepIInv
    DEF CancelWoken, CancelWritten, Writing
<1>4. CASE CancelWriting(c)
  BY <1>1, <1>4, WritingStepIInv DEF CancelWriting, EndWrite, Writing
<1> QED
  BY <1>2, <1>3, <1>4 DEF Cancel

LEMMA WriteEndsIInv ==
  ASSUME IInv, NEW c \in Callers,
         WriteSome(c) \/ WriteError(c) \/ WriteTimeout(c), TypeOK'
  PROVE  IInv'
<1>1. pc \in [Callers -> Stages]
  BY DEF IInv, TypeOK
<1>2. pc[c] = "writing" /\ cancelled' = cancelled
  BY DEF WriteSome, WriteError, WriteTimeout
<1>3. UNCHANGED <<send_cv, send_buf, frame>>
  BY DEF WriteSome, WriteError, WriteTimeout
<1>4. \E stage \in {pc[c], "written"} : pc' = [pc EXCEPT ![c] = stage]
  BY <1>1, <1>2 DEF WriteSome, WriteError, WriteTimeout, EndWrite
<1> QED
  BY <1>2, <1>3, <1>4, WritingStepIInv DEF Writing

LEMMA WriteHandlerIInv ==
  ASSUME IInv, NEW c \in Callers, WriteHandler(c)
  PROVE  IInv'
<1>1. /\ pc \in [Callers -> Stages]
      /\ send_cv \in Seq(Callers)
      /\ cancelled' = [cancelled EXCEPT ![c] = FALSE]
      /\ cancelled \in [Callers -> BOOLEAN]
      /\ pc[c] = "written"
      /\ frame' = frame
      /\ TypeOK'
  BY WriteHandlerType DEF IInv, TypeOK, WriteHandler, Complete
<1>2. Writing = {c}
  BY <1>1 DEF IInv, WriterOwnsBuffer, Writing
<1>3. CASE UNCHANGED send_cv /\ pc' = [pc EXCEPT ![c] = "done"]
  <2>1. QueueMatchesWaiters'
    BY <1>1, <1>3, QueueUndisturbed DEF Stages
  <2>2. Writing' = {} /\ FramesNamed'
    BY <1>1, <1>2, <1>3 DEF Writing, IInv, FramesNamed, Active
  <2> QED
    BY <1>1, <2>1, <2>2 DEF IInv, WriterOwnsBuffer
<1>4. CASE /\ send_cv # <<>>
           /\ send_cv' = Tail(send_cv)
           /\ pc' = [pc EXCEPT ![c] = "done", ![Head(send_cv)] = "woken"]
  <2> DEFINE h == Head(send_cv)
  <2>1. /\ h \in Callers
        /\ h = send_cv[1]
        /\ Len(send_cv) \in Nat \ {0}
        /\ Len(send_cv') = Len(send_cv) - 1
        /\ \A i \in 1..Len(send_cv') : send_cv'[i] = send_cv[i + 1]
    BY <1>1, <1>4, HeadTailProperties, EmptySeq
  <2>2. pc[h] = "queued" /\ h # c
    BY <1>1, <2>1 DEF IInv, QueueMatchesWaiters
  <2>3. \A i \in 1..Len(send_cv') :
          /\ i + 1 \in 1..Len(send_cv)
          /\ send_cv'[i] \in Callers \ {c, h}
          /\ pc[send_cv'[i]] = "queued"
    <3>1. ASSUME NEW i \in 1..Len(send_cv')
          PROVE  /\ i + 1 \in 1..Len(send_cv)
                 /\ i + 1 # 1
                 /\ send_cv[i + 1] \in Callers
      BY <1>1, <2>1, ElementOfSeq
    <3>2. ASSUME NEW i \in 1..Len(send_cv')
          PROVE  /\ send_cv[i + 1] # send_cv[1]
                 /\ pc[send_cv[i + 1]] = "queued"
      <4>1. 1 \in 1..Len(send_cv)
        BY <2>1
      <4> QED
        BY <3>1, <4>1 DEF IInv, QueueMatchesWaiters
    <3> QED
      BY <1>1, <2>1, <3>1, <3>2
  <2> HIDE DEF h
  <2>4. \A d \in Callers : pc'[d] = IF d = h THEN "woken"
                                    ELSE IF d = c THEN "done" ELSE pc[d]
    BY <1>1, <1>4, <2>1, <2>2 DEF h
  <2>5. \A i \in 1..Len(send_cv') : pc'[send_cv'[i]] = "queued"
    BY <2>3, <2>4
  <2>6. \A i, j \in 1..Len(send_cv') : send_cv'[i] = send_cv'[j] => i = j
    BY <2>1, <2>3 DEF IInv, QueueMatchesWaiters
  <2>7. \A d \in Callers :
          pc'[d] \in {"idle", "queued", "done"} => ~cancelled'[d]
    BY <1>1, <2>4 DEF IInv, QueueMatchesWaiters
  <2>8. Writing' = {}
    BY <1>2, <2>4 DEF Writing
  <2>9. FramesNamed'
    BY <1>1, <2>2, <2>4 DEF IInv, FramesNamed, Active
  <2> QED
    BY <1>1, <2>5, <2>6, <2>7, <2>8, <2>9
    DEF IInv, QueueMatchesWaiters, WriterOwnsBuffer
<1> QED
  BY <1>3, <1>4 DEF WriteHandler, CancelOne

LEMMA ShutdownSocketIInv ==
  ASSUME IInv, ShutdownSocket, TypeOK'
  PROVE  IInv'
<1>1. /\ \A c \in Callers :
           pc'[c] = IF pc[c] = "writing" THEN "written" ELSE pc[c]
      /\ UNCHANGED <<send_cv, send_buf, frame, cancelled>>
  BY DEF ShutdownSocket, CloseSocket
<1>2. \A i \in 1..Len(send_cv) : send_cv[i] \in Callers
  BY ElementOfSeq DEF IInv, TypeOK
<1>3. QueueMatchesWaiters'
  BY <1>1, <1>2 DEF IInv, QueueMatchesWaiters
<1>4. Writing' = Writing /\ Active' = Active
  BY <1>1 DEF Writing, Active
<1>5. FramesNamed' /\ WriterOwnsBuffer'
  BY <1>1, <1>4 DEF IInv, FramesNamed, WriterOwnsBuffer, Writing, Active
<1> QED
  BY <1>3, <1>5 DEF IInv

LEMMA NextIInv == IInv /\ [Next]_vars => IInv'
<1> SUFFICES ASSUME IInv, [Next]_vars PROVE IInv'
  OBVIOUS
<1>1. TypeOK'
  BY NextType DEF IInv
<1>2. ASSUME NEW c \in Callers, Start(c) PROVE IInv'
  BY <1>2, StartIInv
<1>3. ASSUME NEW c \in Callers, Progress(c) PROVE IInv'
  BY <1>1, <1>3, ResumeIInv, WriteEndsIInv, WriteHandlerIInv DEF Progress
<1>4. ASSUME NEW c \in Callers, WriteTimeout(c) PROVE IInv'
  BY <1>1, <1>4, WriteEndsIInv
<1>5. ASSUME NEW c \in Callers, Cancel(c) PROVE IInv'
  BY <1>5, CancelIInv
<1>6. CASE PeerRead \/ SocketReset \/ UNCHANGED vars
  <2>1. UNCHANGED sendVars
    BY <1>6 DEF PeerRead, SocketReset, vars
  <2> QED
    BY <1>1, <2>1 DEF sendVars, opVars, IInv, FramesNamed, WriterOwnsBuffer,
                      QueueMatchesWaiters, Writing, Active
<1>7. CASE ShutdownSocket
  BY <1>1, <1>7, ShutdownSocketIInv
<1> QED
  BY <1>2, <1>3, <1>4, <1>5, <1>6, <1>7 DEF Next

\* At any time at most one operation writes, and send_buf_ holds its frame
\* until its handler has run: no interleaving of completions, wake-ups,
\* cancellations and timeouts lets another operation resize or clear a buffer
\* that an async_write refers to.
THEOREM BufferOwnership == Spec => []WriterOwnsBuffer
<1>1. IInv => WriterOwnsBuffer
  BY DEF IInv
<1> QED
  BY InitIInv, NextIInv, <1>1, PTL DEF Spec
-----------------------------------------------------------------------------
(* No wait is forgotten. *)

\* A step of the loop leaves a buffer that is not free.
LEMMA LoopFillsBuffer ==
  ASSUME IInv, Unserializable = {}, NEW c \in Callers, NEW f \in Frame,
         NEW s \in 0..MaxSeq, f.cmd \in Cmds, WhileBufferBusy(c, f, s)
  PROVE  send_buf' # NoFrame
<1>1. CASE send_buf # NoFrame /\ WaitOnCv(c, f, s)
  BY <1>1 DEF WaitOnCv
<1>2. CASE StartWrite(c, f, s)
  <2>1. send_buf'.cmd = f.cmd
    BY <1>2 DEF StartWrite
  <2> QED
    BY <2>1 DEF NoFrame, Cmds, Commands
<1> QED
  BY <1>1, <1>2 DEF WhileBufferBusy, SerializeFails

\* A step that keeps the queue, the buffer and those who have been woken.
LEMMA WokenStay ==
  ASSUME NoLostWakeup, UNCHANGED <<send_buf, send_cv>>,
         \A c \in Callers : pc[c] = "woken" /\ ~cancelled[c]
                              => pc'[c] = "woken" /\ ~cancelled'[c]
  PROVE  NoLostWakeup'
BY DEF NoLostWakeup

LEMMA NextNoLostWakeup ==
  ASSUME Unserializable = {}, "woken" \notin CancelPoints,
         IInv, NoLostWakeup, [Next]_vars
  PROVE  NoLostWakeup'
<1>1. /\ pc \in [Callers -> Stages]
      /\ cancelled \in [Callers -> BOOLEAN]
      /\ send_cv \in Seq(Callers)
  BY DEF IInv, TypeOK
<1>2. ASSUME NEW c \in Callers, Start(c) PROVE NoLostWakeup'
  BY <1>2, StartEntersLoop, LoopFillsBuffer DEF IInv, NoLostWakeup
<1>3. ASSUME NEW c \in Callers, Resume(c) PROVE NoLostWakeup'
  <2>1. CASE cancelled[c]
    BY <1>1, <1>3, <2>1, WokenStay DEF Resume, Complete
  <2>2. CASE ~cancelled[c]
    <3>1. /\ frame[c] \in Frame
          /\ frame[c].cmd \in Cmds
          /\ sequence_number \in 0..MaxSeq
      BY <1>3 DEF Resume, IInv, TypeOK, FramesNamed, Active
    <3> QED
      BY <1>3, <2>2, <3>1, LoopFillsBuffer DEF Resume, NoLostWakeup
  <2> QED
    BY <2>1, <2>2
<1>4. ASSUME NEW c \in Callers,
             WriteSome(c) \/ WriteError(c) \/ WriteTimeout(c)
      PROVE  NoLostWakeup'
  BY <1>1, <1>4, WokenStay DEF WriteSome, WriteError, WriteTimeout, EndWrite
<1>5. ASSUME NEW c \in Callers, WriteHandler(c) PROVE NoLostWakeup'
  <2>1. CASE TimedOut(c)
    BY <1>1, <1>5, <2>1, WokenStay DEF WriteHandler, Complete
  <2>2. CASE ~TimedOut(c) /\ send_cv = <<>>
    BY <1>5, <2>2 DEF WriteHandler, CancelOne, NoLostWakeup
  <2>3. CASE ~TimedOut(c) /\ send_cv # <<>>
    <3> DEFINE h == Head(send_cv)
    <3>1. h \in Callers /\ h = send_cv[1] /\ 1 \in 1..Len(send_cv)
      BY <1>1, <2>3, HeadTailProperties, EmptySeq
    <3>2. pc[h] = "queued" /\ ~cancelled[h]
      BY <3>1 DEF IInv, QueueMatchesWaiters
    <3>3. pc'[h] = "woken" /\ ~cancelled'[h]
      BY <1>1, <1>5, <2>3, <3>1, <3>2 DEF WriteHandler, CancelOne, Complete
    <3> QED
      BY <3>1, <3>3 DEF NoLostWakeup
  <2> QED
    BY <2>1, <2>2, <2>3
<1>6. ASSUME NEW c \in Callers, CancelQueued(c) PROVE NoLostWakeup'
  <2>1. send_cv # <<>>
    BY <1>6 DEF CancelQueued
  <2>2. \A d \in Callers : pc[d] = "woken" /\ ~cancelled[d]
                             => pc'[d] = "woken" /\ ~cancelled'[d]
    BY <1>1, <1>6 DEF CancelQueued
  <2> QED
    BY <1>6, <2>1, <2>2 DEF CancelQueued, NoLostWakeup
<1>7. ASSUME NEW c \in Callers, CancelWriting(c) \/ CancelWritten(c)
      PROVE  NoLostWakeup'
  BY <1>1, <1>7, WokenStay DEF CancelWriting, CancelWritten, EndWrite
<1>8. ASSUME NEW c \in Callers, CancelWoken(c) PROVE FALSE
  BY <1>8 DEF CancelWoken
<1>9. CASE PeerRead \/ SocketReset \/ UNCHANGED vars
  BY <1>9, WokenStay DEF PeerRead, SocketReset, vars, sendVars, opVars
<1>10. CASE ShutdownSocket
  BY <1>10, WokenStay DEF ShutdownSocket, CloseSocket
<1> QED
  BY <1>2, <1>3, <1>4, <1>5, <1>6, <1>7, <1>8, <1>9, <1>10
  DEF Next, Progress, Cancel

\* As long as no serialization fails and no operation is cancelled between its
\* wake-up and its turn, the buffer is never free while everybody waits for it.
\* The run send_unserializable shows that the first condition is needed, the
\* variations of send_completes (README) that the second one is.
THEOREM WakeupsNotLost ==
  ASSUME Unserializable = {}, "woken" \notin CancelPoints
  PROVE  Spec => []NoLostWakeup
<1>1. Init => NoLostWakeup
  BY DEF Init, NoLostWakeup
<1>2. IInv /\ NoLostWakeup /\ [Next]_vars => NoLostWakeup'
  BY NextNoLostWakeup
<1> QED
  BY InitIInv, NextIInv, <1>1, <1>2, PTL DEF Spec
-----------------------------------------------------------------------------
(* The peer reads whole frames. *)

\* The unit that was handed to TCP last.
LastUnit == IF wire = <<>> THEN last_read ELSE wire[Len(wire)]

\* FramesWhole without the concatenation.
Adjacent ==
  /\ wire # <<>> => Follows(wire[1], last_read)
  /\ \A i \in 1..Len(wire) - 1 : Follows(wire[i + 1], wire[i])

\* An operation that does not write has sent nothing; one that writes was not
\* cancelled.
WritersFresh ==
  /\ \A c \in Callers \ Writing : sent[c] = 0
  /\ \A c \in Writing : ~cancelled[c]

\* While the socket is open and u was handed to TCP last: where the writer is in
\* its frame, how a write has ended, and that the stream ends with a whole frame
\* when the buffer is free.  In the remaining case a command has timed out and
\* the buffer is never freed.
PositionAt(u) ==
  socket = "open" =>
    /\ send_buf = NoFrame => Whole(u)
    /\ \A c \in Callers :
         pc[c] = "writing" =>
           /\ sent[c] < Size(frame[c].cmd)
           /\ \/ sent[c] = 0 /\ Whole(u)
              \/ u = [frame |-> frame[c], part |-> sent[c]]
    /\ \A c \in Callers :
         pc[c] = "written" =>
           \/ ec[c] = "ok" /\ Whole(u)
           \/ ec[c] = "aborted" /\ frame[c].cmd \in Commands

\* What the sending half may do next, whatever became of the units before u.
WInv(u) ==
  /\ IInv
  /\ WritersFresh
  /\ PositionAt(u)

\* FramesWhole is not inductive: what may be appended depends on how every
\* write before has ended.
FInv == Adjacent /\ WInv(LastUnit)

\* A step hands nothing to TCP after u, or the unit that follows it.
HandsNothing(u) ==
  /\ WInv(u)'
  /\ UNCHANGED <<wire, last_read>> \/ PeerRead
HandsOver(u, v) ==
  /\ Follows(v, u)
  /\ WInv(v)'
  /\ wire' = Append(wire, v)
  /\ UNCHANGED last_read

\* What FramesWhole says of the concatenation.
LEMMA AdjacentWhole ==
  ASSUME TypeOK
  PROVE  FramesWhole <=> Adjacent
<1> DEFINE stream == <<last_read>> \o wire
<1>1. /\ last_read \in Unit /\ wire \in Seq(Unit)
      /\ Len(wire) \in Nat
      /\ <<last_read>> \in Seq(Unit) /\ Len(<<last_read>>) = 1
      /\ <<last_read>>[1] = last_read
  BY LenProperties DEF TypeOK
<1>2. /\ stream[1] = last_read
      /\ \A i \in 1..Len(wire) : stream[i + 1] = wire[i]
  <2>1. \A j \in 1..1 + Len(wire) :
          stream[j] = IF j <= 1 THEN <<last_read>>[j] ELSE wire[j - 1]
    BY <1>1, ConcatProperties
  <2> HIDE DEF stream
  <2> QED
    BY <1>1, <2>1
<1>3. FramesWhole <=> \A i \in 1..Len(wire) : Follows(stream[i + 1], stream[i])
  BY DEF FramesWhole
<1> HIDE DEF stream
<1>4. wire # <<>> <=> Len(wire) # 0
  BY <1>1, EmptySeq
<1>5. ASSUME \A i \in 1..Len(wire) : Follows(stream[i + 1], stream[i])
      PROVE  Adjacent
  <2>1. wire # <<>> => Follows(wire[1], last_read)
    BY <1>1, <1>2, <1>4, <1>5
  <2>2. ASSUME NEW i \in 1..Len(wire) - 1
        PROVE  Follows(wire[i + 1], wire[i])
    <3>1. i + 1 \in 1..Len(wire) /\ i \in 1..Len(wire)
      BY <1>1
    <3> QED
      BY <1>2, <1>5, <3>1
  <2> QED
    BY <2>1, <2>2 DEF Adjacent
<1>6. ASSUME Adjacent, NEW i \in 1..Len(wire)
      PROVE  Follows(stream[i + 1], stream[i])
  <2>1. CASE i = 1
    BY <1>1, <1>2, <1>4, <1>6, <2>1 DEF Adjacent
  <2>2. CASE i # 1
    <3>1. /\ i - 1 \in 1..Len(wire) - 1 /\ i - 1 \in 1..Len(wire)
          /\ (i - 1) + 1 = i
      BY <1>1, <2>2
    <3>2. stream[i + 1] = wire[i] /\ stream[i] = wire[i - 1]
      BY <1>2, <3>1
    <3>3. Follows(wire[(i - 1) + 1], wire[i - 1])
      BY <1>6, <3>1, Zenon DEF Adjacent
    <3> QED
      BY <3>1, <3>2, <3>3
  <2> QED
    BY <2>1, <2>2
<1> QED
  BY <1>3, <1>5, <1>6

LEMMA SizeType ==
  /\ \A cmd \in Cmds : Size(cmd) \in Nat \ {0}
  /\ Size("none") = 0
BY DEF Size, Cmds, Commands

LEMMA InitWInv ==
  ASSUME Init, NEW u, Whole(u)
  PROVE  WInv(u)
<1>1. IInv
  BY InitIInv
<1> QED
  BY <1>1 DEF Init, WInv, WritersFresh, PositionAt, Writing

LEMMA InitFInv == Init => FInv
<1> SUFFICES ASSUME Init PROVE FInv
  OBVIOUS
<1>1. wire = <<>> /\ Len(wire) = 0
  BY EmptySeq DEF Init
<1>2. Adjacent
  BY <1>1 DEF Adjacent
<1>3. Whole(LastUnit)
  BY <1>1, SizeType DEF Init, LastUnit, Whole, NoFrame
<1>4. WInv(LastUnit)
  <2>1. PICK u : u = LastUnit
    OBVIOUS
  <2> QED
    BY <1>3, <2>1, InitWInv
<1> QED
  BY <1>2, <1>4 DEF FInv

\* A step of an operation that does not write.
LEMMA QuietWInv ==
  ASSUME NEW u, WInv(u), IInv', UNCHANGED socket,
         NEW c \in Callers, c \notin Writing, c \notin Writing',
         send_buf' = send_buf, sent'[c] = 0,
         \A d \in Callers \ {c} : /\ sent'[d] = sent[d]
                                  /\ cancelled'[d] = cancelled[d]
                                  /\ ec'[d] = ec[d]
                                  /\ pc'[d] = pc[d]
                                  /\ frame'[d] = frame[d]
  PROVE  WInv(u)'
<1>1. Writing' = Writing
  BY DEF Writing
<1>2. WritersFresh'
  BY <1>1 DEF WInv, WritersFresh, Writing
<1>3. PositionAt(u)'
  BY <1>1 DEF WInv, PositionAt, Writing, Whole
<1> QED
  BY <1>2, <1>3 DEF WInv

LEMMA StartWriteWInv ==
  ASSUME NEW u, WInv(u), IInv',
         NEW c \in Callers, NEW f \in Frame, NEW s \in 0..MaxSeq,
         pc[c] \in {"idle", "done", "woken"}, ~cancelled[c], f.cmd \in Cmds,
         send_buf = NoFrame, StartWrite(c, f, s)
  PROVE  WInv(u)'
<1>1. /\ pc' = [pc EXCEPT ![c] = "writing"]
      /\ UNCHANGED <<sent, cancelled, socket>>
      /\ frame'[c].cmd \in Cmds
      /\ pc \in [Callers -> Stages]
      /\ Writing = {}
      /\ send_buf' # NoFrame
  <2>1. frame \in [Callers -> Frame] /\ pc \in [Callers -> Stages]
    BY DEF WInv, IInv, TypeOK
  <2>2. Writing = {}
    BY FreeBufferNoWriter DEF WInv
  <2> QED
    BY <2>1, <2>2 DEF StartWrite, netVars, NoFrame, Cmds, Commands
<1>2. Writing' = {c} /\ sent[c] = 0
  BY <1>1 DEF WInv, Writing, WritersFresh
<1>3. WritersFresh'
  BY <1>1, <1>2 DEF WInv, WritersFresh
<1>4. socket = "open" => Whole(u)
  BY DEF WInv, PositionAt
<1>5. Size(frame'[c].cmd) > 0
  BY <1>1, SizeType
<1>6. PositionAt(u)'
  BY <1>1, <1>2, <1>4, <1>5 DEF PositionAt, Writing, Whole
<1> QED
  BY <1>3, <1>6 DEF WInv

LEMMA WhileBufferBusyWInv ==
  ASSUME NEW u, WInv(u),
         NEW c \in Callers, NEW f \in Frame, NEW s \in 0..MaxSeq,
         pc[c] \in {"idle", "done", "woken"}, ~cancelled[c], f.cmd \in Cmds,
         WhileBufferBusy(c, f, s)
  PROVE  HandsNothing(u)
<1>1. IInv'
  BY WhileBufferBusyIInv DEF WInv
<1>2. /\ pc \in [Callers -> Stages] /\ frame \in [Callers -> Frame]
      /\ ec \in [Callers -> Ecs] /\ sent \in [Callers -> Nat]
      /\ cancelled \in [Callers -> BOOLEAN]
      /\ sent[c] = 0 /\ c \notin Writing
      /\ UNCHANGED <<wire, last_read>>
  BY DEF WInv, IInv, TypeOK, WritersFresh, Writing, WhileBufferBusy, WaitOnCv,
         StartWrite, SerializeFails, netVars
<1>3. CASE WaitOnCv(c, f, s)
  BY <1>1, <1>2, <1>3, QuietWInv DEF WaitOnCv, netVars, Writing, HandsNothing
<1>4. CASE send_buf = NoFrame /\ StartWrite(c, f, s)
  BY <1>1, <1>2, <1>4, StartWriteWInv DEF HandsNothing
<1>5. CASE SerializeFails(c, f, s)
  BY <1>1, <1>2, <1>5, QuietWInv
  DEF SerializeFails, Complete, netVars, Writing, HandsNothing
<1> QED
  BY <1>3, <1>4, <1>5 DEF WhileBufferBusy

LEMMA ResumeWInv ==
  ASSUME NEW u, WInv(u), NEW c \in Callers, Resume(c)
  PROVE  HandsNothing(u)
<1>1. /\ pc \in [Callers -> Stages] /\ frame \in [Callers -> Frame]
      /\ ec \in [Callers -> Ecs] /\ sent \in [Callers -> Nat]
      /\ cancelled \in [Callers -> BOOLEAN]
      /\ sequence_number \in 0..MaxSeq
      /\ pc[c] = "woken" /\ c \notin Writing
  BY DEF WInv, IInv, TypeOK, Resume, Writing
<1>2. CASE cancelled[c]
  <2>1. IInv'
    BY ResumeIInv DEF WInv
  <2> QED
    BY <1>1, <1>2, <2>1, QuietWInv
    DEF Resume, Complete, netVars, Writing, HandsNothing
<1>3. CASE ~cancelled[c]
  <2>1. frame[c].cmd \in Cmds
    BY <1>1 DEF WInv, IInv, FramesNamed, Active
  <2> QED
    BY <1>1, <1>3, <2>1, WhileBufferBusyWInv DEF Resume
<1> QED
  BY <1>2, <1>3

\* Only waits are cancelled.
LEMMA CancelWInv ==
  ASSUME CancelPoints \cap {"writing", "written"} = {},
         NEW u, WInv(u), NEW c \in Callers, Cancel(c)
  PROVE  HandsNothing(u)
<1>1. /\ pc \in [Callers -> Stages] /\ cancelled \in [Callers -> BOOLEAN]
      /\ IInv'
  BY CancelIInv DEF WInv, IInv, TypeOK
<1>2. CancelQueued(c) \/ CancelWoken(c)
  BY DEF Cancel, CancelWriting, CancelWritten
<1>3. /\ c \notin Writing /\ c \notin Writing'
      /\ UNCHANGED <<send_buf, frame, ec, sent, netVars>>
      /\ \A d \in Callers \ {c} : /\ pc'[d] = pc[d]
                                  /\ cancelled'[d] = cancelled[d]
  BY <1>1, <1>2 DEF CancelQueued, CancelWoken, Writing
<1>4. sent'[c] = 0
  BY <1>3 DEF WInv, WritersFresh
<1> QED
  BY <1>1, <1>3, <1>4, QuietWInv DEF netVars, HandsNothing

\* Writing hands over the next unit of the frame.
LEMMA WriteSomeWInv ==
  ASSUME NEW u, WInv(u), NEW c \in Callers, WriteSome(c)
  PROVE  \E v \in Unit :
           /\ v = [frame |-> frame[c], part |-> sent[c] + 1]
           /\ v.frame.cmd \in Cmds
           /\ v.part \in 1..Size(v.frame.cmd)
           /\ HandsOver(u, v)
<1>1. PICK v : v = [frame |-> frame[c], part |-> sent[c] + 1]
  OBVIOUS
<1>2. /\ pc \in [Callers -> Stages] /\ ec \in [Callers -> Ecs]
      /\ sent \in [Callers -> Nat]
      /\ frame[c].cmd \in Cmds
      /\ pc[c] = "writing" /\ socket = "open"
      /\ Writing = {c} /\ send_buf = frame[c]
      /\ v \in Unit
  <2>1. /\ pc \in [Callers -> Stages] /\ ec \in [Callers -> Ecs]
        /\ sent \in [Callers -> Nat] /\ frame \in [Callers -> Frame]
        /\ pc[c] = "writing" /\ socket = "open"
    BY DEF WInv, IInv, TypeOK, WriteSome
  <2>2. c \in Writing /\ c \in Active
    BY <2>1 DEF Writing, Active
  <2>3. frame[c].cmd \in Cmds /\ Writing = {c} /\ send_buf = frame[c]
    BY <2>2 DEF WInv, IInv, FramesNamed, WriterOwnsBuffer
  <2>4. v \in Unit
    BY <1>1, <2>1 DEF Unit
  <2> QED
    BY <2>1, <2>3, <2>4
<1>3. IInv'
  <2>1. TypeOK'
    BY WriteSomeType DEF WInv, IInv
  <2> QED
    BY <2>1, WriteEndsIInv DEF WInv
<1>4. wire' = Append(wire, v) /\ UNCHANGED last_read
  BY <1>1 DEF WriteSome
<1>5. Follows(v, u)
  <2>1. \/ sent[c] = 0 /\ Whole(u)
        \/ u = [frame |-> frame[c], part |-> sent[c]]
    BY <1>2 DEF WInv, PositionAt
  <2> QED
    BY <1>1, <1>2, <2>1 DEF Follows
<1>6. /\ \A d \in Callers \ {c} : pc'[d] = pc[d] /\ sent'[d] = sent[d]
      /\ sent'[c] = sent[c] + 1
      /\ UNCHANGED <<frame, cancelled, send_buf, socket>>
      /\ \/ pc'[c] = "writing" /\ sent[c] + 1 # Size(frame[c].cmd)
         \/ pc'[c] = "written" /\ ec'[c] = "ok" /\ sent[c] + 1 = Size(frame[c].cmd)
  BY <1>2 DEF WriteSome, EndWrite
<1>7. WritersFresh'
  BY <1>2, <1>6 DEF WInv, WritersFresh, Writing
<1>8. PositionAt(v)'
  <2>1. sent[c] < Size(frame[c].cmd) /\ Size(frame[c].cmd) \in Nat
    BY <1>2, SizeType DEF WInv, PositionAt
  <2>2. sent[c] \in Nat
    BY <1>2
  <2>3. send_buf # NoFrame
    BY <1>2 DEF NoFrame, Cmds, Commands
  <2>4. \A d \in Callers \ {c} : pc'[d] \notin {"writing", "written"}
    BY <1>2, <1>6 DEF Writing
  <2>5. pc'[c] = "writing" => sent'[c] < Size(frame'[c].cmd)
                              /\ v = [frame |-> frame'[c], part |-> sent'[c]]
    BY <1>1, <1>6, <2>1, <2>2
  <2>6. pc'[c] = "written" => ec'[c] = "ok" /\ Whole(v)
    BY <1>1, <1>6 DEF Whole
  <2> QED
    BY <1>6, <2>3, <2>4, <2>5, <2>6 DEF PositionAt, Whole
<1>9. v.frame.cmd \in Cmds /\ v.part \in 1..Size(v.frame.cmd)
  <2>1. /\ sent[c] \in Nat /\ Size(frame[c].cmd) \in Nat
        /\ sent[c] < Size(frame[c].cmd)
    BY <1>2, SizeType DEF WInv, PositionAt
  <2> QED
    BY <1>1, <1>2, <2>1
<1> QED
  BY <1>1, <1>2, <1>3, <1>4, <1>5, <1>7, <1>8, <1>9 DEF WInv, HandsOver

LEMMA WriteFailsWInv ==
  ASSUME NEW u, WInv(u), NEW c \in Callers, WriteError(c) \/ WriteTimeout(c)
  PROVE  HandsNothing(u)
<1>1. /\ pc \in [Callers -> Stages] /\ ec \in [Callers -> Ecs]
      /\ pc[c] = "writing"
      /\ pc' = [pc EXCEPT ![c] = "written"]
      /\ UNCHANGED <<send_buf, frame, cancelled, sent, socket, wire, last_read>>
      /\ \A d \in Callers \ {c} : ec'[d] = ec[d]
  BY DEF WInv, IInv, TypeOK, WriteError, WriteTimeout, EndWrite, netVars
<1>2. IInv'
  <2>1. TypeOK'
    BY NextType DEF WInv, IInv, Next, Progress
  <2> QED
    BY <2>1, WriteEndsIInv DEF WInv
<1>3. Writing' = Writing
  BY <1>1 DEF Writing
<1>4. WritersFresh'
  BY <1>1, <1>3 DEF WInv, WritersFresh
<1>5. socket = "open" => ec'[c] = "aborted" /\ frame'[c].cmd \in Commands
  BY <1>1 DEF WriteError, WriteTimeout, EndWrite, netVars, WInv, IInv, TypeOK
<1>6. PositionAt(u)'
  BY <1>1, <1>3, <1>5 DEF WInv, PositionAt, Whole
<1> QED
  BY <1>1, <1>2, <1>4, <1>6 DEF WInv, HandsNothing

LEMMA WriteHandlerWInv ==
  ASSUME NEW u, WInv(u), NEW c \in Callers, WriteHandler(c)
  PROVE  HandsNothing(u)
<1>1. IInv'
  BY WriteHandlerIInv DEF WInv
<1>2. /\ pc \in [Callers -> Stages] /\ ec \in [Callers -> Ecs]
      /\ cancelled \in [Callers -> BOOLEAN] /\ sent \in [Callers -> Nat]
      /\ frame \in [Callers -> Frame]
      /\ pc[c] = "written" /\ frame[c].cmd \in Cmds
      /\ UNCHANGED <<frame, socket, wire, last_read>>
      /\ cancelled' = [cancelled EXCEPT ![c] = FALSE]
      /\ sent' = [sent EXCEPT ![c] = 0]
  BY DEF WInv, IInv, TypeOK, WriteHandler, Complete, netVars, FramesNamed,
         Active
<1>3. Writing = {c} /\ send_buf = frame[c] /\ ~cancelled[c]
  BY <1>2 DEF WInv, IInv, WriterOwnsBuffer, Writing, WritersFresh
<1>4. \A d \in Callers : pc'[d] \notin {"writing", "written"}
  <2>1. CASE pc' = [pc EXCEPT ![c] = "done"]
    BY <1>2, <1>3, <2>1 DEF Writing
  <2>2. CASE /\ send_cv # <<>>
             /\ pc' = [pc EXCEPT ![c] = "done", ![Head(send_cv)] = "woken"]
    BY <1>2, <1>3, <2>2 DEF Writing
  <2> QED
    BY <2>1, <2>2 DEF WriteHandler, CancelOne
<1>5. WritersFresh'
  <2>1. Writing' = {}
    BY <1>4 DEF Writing
  <2> QED
    BY <1>2, <1>3, <2>1 DEF WInv, WritersFresh
<1>6. socket = "open" /\ send_buf' = NoFrame => Whole(u)
  <2>1. CASE TimedOut(c)
    BY <1>2, <1>3, <2>1 DEF WriteHandler, NoFrame, Cmds, Commands
  <2>2. CASE ~TimedOut(c)
    BY <1>2, <1>3, <2>2 DEF TimedOut, WInv, PositionAt
  <2> QED
    BY <2>1, <2>2
<1>7. PositionAt(u)'
  BY <1>2, <1>4, <1>6 DEF PositionAt, Whole
<1> QED
  BY <1>1, <1>2, <1>5, <1>7 DEF WInv, HandsNothing

\* Once the socket is no longer open, nothing is handed over.
LEMMA SocketEndsWInv ==
  ASSUME NEW u, WInv(u), IInv', socket' # "open", UNCHANGED cancelled,
         sent' = sent, Writing' = Writing
  PROVE  WInv(u)'
BY DEF WInv, WritersFresh, PositionAt

\* After one whole frame the writer goes on as after any other.
LEMMA WholeWInv ==
  ASSUME NEW u, NEW v, WInv(u), Whole(u), Whole(v)
  PROVE  WInv(v)
<1>1. ASSUME NEW c \in Callers, pc[c] = "writing",
             u = [frame |-> frame[c], part |-> sent[c]]
      PROVE  sent[c] = Size(frame[c].cmd)
  BY <1>1 DEF Whole
<1>2. \A c \in Callers : pc[c] = "writing" =>
        sent[c] \in Nat /\ frame[c].cmd \in Cmds /\ Size(frame[c].cmd) \in Nat
  BY SizeType DEF WInv, IInv, TypeOK, FramesNamed, Active
<1>3. PositionAt(v)
  BY <1>1, <1>2 DEF WInv, PositionAt
<1> QED
  BY <1>3 DEF WInv

LEMMA NextWInv ==
  ASSUME CancelPoints \cap {"writing", "written"} = {},
         NEW u, WInv(u), [Next]_vars
  PROVE  HandsNothing(u) \/ \E v \in Unit : HandsOver(u, v)
<1>1. IInv'
  BY NextIInv DEF WInv
<1>2. ASSUME NEW c \in Callers, Start(c) PROVE HandsNothing(u)
  <2>1. PICK f \in Frame, s \in 0..MaxSeq :
          /\ pc[c] \in {"idle", "done"}
          /\ f.cmd \in Cmds
          /\ WhileBufferBusy(c, f, s)
    BY <1>2, StartEntersLoop DEF WInv, IInv
  <2>2. ~cancelled[c]
    BY <2>1 DEF WInv, IInv, QueueMatchesWaiters
  <2> QED
    BY <2>1, <2>2, WhileBufferBusyWInv
<1>3. ASSUME NEW c \in Callers, Progress(c) \/ WriteTimeout(c)
      PROVE  HandsNothing(u) \/ \E v \in Unit : HandsOver(u, v)
  BY <1>3, ResumeWInv, WriteSomeWInv, WriteFailsWInv, WriteHandlerWInv
  DEF Progress
<1>4. ASSUME NEW c \in Callers, Cancel(c) PROVE HandsNothing(u)
  BY <1>4, CancelWInv
<1>5. CASE PeerRead \/ UNCHANGED vars
  <2>1. UNCHANGED <<sendVars, socket>>
    BY <1>5 DEF PeerRead, vars, netVars
  <2>2. WritersFresh' /\ PositionAt(u)'
    BY <2>1 DEF sendVars, opVars, WInv, WritersFresh, PositionAt, Writing, Whole
  <2> QED
    BY <1>1, <1>5, <2>2 DEF vars, netVars, WInv, HandsNothing
<1>6. CASE SocketReset
  BY <1>1, <1>6, SocketEndsWInv
  DEF SocketReset, sendVars, opVars, Writing, HandsNothing
<1>7. CASE ShutdownSocket
  BY <1>1, <1>7, SocketEndsWInv
  DEF ShutdownSocket, CloseSocket, Writing, HandsNothing
<1> QED
  BY <1>2, <1>3, <1>4, <1>5, <1>6, <1>7 DEF Next

\* Writing appends the next unit of the frame to the stream.
LEMMA WriteSomeStream ==
  ASSUME TypeOK, NEW c \in Callers, WriteSome(c), frame[c].cmd \in Cmds
  PROVE  LET u == [frame |-> frame[c], part |-> sent[c] + 1]
         IN  /\ wire' = Append(wire, u)
             /\ Len(wire') = Len(wire) + 1
             /\ \A i \in 1..Len(wire) : wire'[i] = wire[i]
             /\ wire'[Len(wire) + 1] = u
             /\ wire' # <<>>
             /\ LastUnit' = u
<1> DEFINE u == [frame |-> frame[c], part |-> sent[c] + 1]
<1>1. /\ wire \in Seq(Unit) /\ Len(wire) \in Nat
      /\ u \in Unit
  BY LenProperties DEF TypeOK, Unit
<1>2. /\ wire' = Append(wire, u)
      /\ Len(wire') = Len(wire) + 1
      /\ \A i \in 1..Len(wire) : wire'[i] = wire[i]
      /\ wire'[Len(wire) + 1] = u
      /\ wire' # <<>>
  <2>1. wire' = Append(wire, u)
    BY DEF WriteSome
  <2> HIDE DEF u
  <2>2. /\ wire' \in Seq(Unit)
        /\ Len(wire') = Len(wire) + 1
        /\ \A i \in 1..Len(wire) : wire'[i] = wire[i]
        /\ wire'[Len(wire) + 1] = u
    BY <1>1, <2>1, AppendProperties
  <2>3. Len(wire') # 0
    BY <1>1, <2>2
  <2> QED
    BY <2>1, <2>2, <2>3, EmptySeq
<1>3. LastUnit' = u
  BY <1>2 DEF LastUnit
<1> QED
  BY <1>2, <1>3

\* The peer reads: the stream loses its first unit and keeps its last.
LEMMA PeerReadStream ==
  ASSUME TypeOK, PeerRead
  PROVE  /\ wire \in Seq(Unit) /\ wire # <<>> /\ Len(wire) \in Nat \ {0}
         /\ last_read' = wire[1]
         /\ Len(wire') = Len(wire) - 1
         /\ \A i \in 1..Len(wire) - 1 : wire'[i] = wire[i + 1]
         /\ wire' \in Seq(Unit)
         /\ UNCHANGED <<sendVars, socket>>
         /\ LastUnit' = LastUnit
<1>1. /\ wire \in Seq(Unit) /\ wire # <<>> /\ Len(wire) \in Nat \ {0}
      /\ last_read' = wire[1]
      /\ Len(wire') = Len(wire) - 1
      /\ \A i \in 1..Len(wire) - 1 : wire'[i] = wire[i + 1]
      /\ wire' \in Seq(Unit)
      /\ UNCHANGED <<sendVars, socket>>
  <2>1. wire \in Seq(Unit) /\ wire # <<>>
    BY DEF TypeOK, PeerRead
  <2>2. /\ Len(wire) \in Nat \ {0} /\ Head(wire) = wire[1]
        /\ Tail(wire) \in Seq(Unit) /\ Len(Tail(wire)) = Len(wire) - 1
        /\ \A i \in 1..Len(Tail(wire)) : Tail(wire)[i] = wire[i + 1]
    BY <2>1, HeadTailProperties, LenProperties, EmptySeq
  <2> QED
    BY <2>1, <2>2 DEF PeerRead
<1>2. LastUnit' = LastUnit
  <2>1. CASE Len(wire) = 1
    <3>1. wire' = <<>>
      BY <1>1, <2>1, EmptySeq
    <3> QED
      BY <1>1, <2>1, <3>1 DEF LastUnit
  <2>2. CASE Len(wire) # 1
    <3>1. Len(wire) - 1 \in 1..Len(wire) - 1 /\ (Len(wire) - 1) + 1 = Len(wire)
      BY <1>1, <2>2
    <3>2. wire' # <<>> /\ wire'[Len(wire')] = wire[Len(wire)]
      <4>1. Len(wire') # 0
        BY <1>1, <2>2
      <4>2. wire' # <<>>
        BY <4>1, EmptySeq
      <4>3. wire'[Len(wire) - 1] = wire[(Len(wire) - 1) + 1]
        BY <1>1, <3>1
      <4> QED
        BY <1>1, <3>1, <4>2, <4>3
    <3> QED
      BY <1>1, <3>2 DEF LastUnit
  <2> QED
    BY <2>1, <2>2
<1> QED
  BY <1>1, <1>2

LEMMA PeerReadAdjacent ==
  ASSUME TypeOK, Adjacent, PeerRead
  PROVE  Adjacent'
<1>1. /\ wire \in Seq(Unit) /\ wire # <<>> /\ Len(wire) \in Nat \ {0}
      /\ last_read' = wire[1]
      /\ Len(wire') = Len(wire) - 1
      /\ \A i \in 1..Len(wire) - 1 : wire'[i] = wire[i + 1]
      /\ wire' \in Seq(Unit)
  BY PeerReadStream
<1>2. wire' # <<>> => Follows(wire'[1], last_read')
  <2> SUFFICES ASSUME wire' # <<>> PROVE Follows(wire'[1], last_read')
    OBVIOUS
  <2>1. Len(wire') # 0
    BY <1>1, EmptySeq
  <2>2. 1 \in 1..Len(wire) - 1
    BY <1>1, <2>1
  <2>3. wire'[1] = wire[1 + 1] /\ last_read' = wire[1]
    BY <1>1, <2>2
  <2> QED
    BY <2>2, <2>3 DEF Adjacent
<1>3. ASSUME NEW i \in 1..Len(wire') - 1
      PROVE  Follows(wire'[i + 1], wire'[i])
  <2>1. i + 1 \in 1..Len(wire) - 1 /\ i \in 1..Len(wire) - 1
    BY <1>1
  <2>2. wire'[i + 1] = wire[(i + 1) + 1] /\ wire'[i] = wire[i + 1]
    BY <1>1, <2>1
  <2> QED
    BY <2>1, <2>2 DEF Adjacent
<1> QED
  BY <1>2, <1>3 DEF Adjacent

\* A unit that follows the last one is appended.
LEMMA AppendAdjacent ==
  ASSUME TypeOK, Adjacent, NEW v \in Unit, Follows(v, LastUnit),
         wire' = Append(wire, v), UNCHANGED last_read
  PROVE  LastUnit' = v /\ Adjacent'
<1>1. wire \in Seq(Unit) /\ Len(wire) \in Nat
  BY LenProperties DEF TypeOK
<1>2. /\ wire' \in Seq(Unit)
      /\ Len(wire') = Len(wire) + 1
      /\ \A i \in 1..Len(wire) : wire'[i] = wire[i]
      /\ wire'[Len(wire) + 1] = v
  BY <1>1, AppendProperties
<1>3. wire' # <<>>
  <2>1. Len(wire') # 0
    BY <1>1, <1>2
  <2> QED
    BY <2>1, EmptySeq
<1>4. LastUnit' = v
  BY <1>2, <1>3 DEF LastUnit
<1>5. CASE wire = <<>>
  <2>1. Len(wire) = 0 /\ LastUnit = last_read
    BY <1>5, EmptySeq DEF LastUnit
  <2>2. wire'[1] = v /\ Len(wire') = 1
    BY <1>2, <2>1
  <2> QED
    BY <1>4, <2>1, <2>2 DEF Adjacent
<1>6. CASE wire # <<>>
  <2>1. Len(wire) \in Nat \ {0} /\ LastUnit = wire[Len(wire)]
    BY <1>1, <1>6, EmptySeq DEF LastUnit
  <2>2. Follows(wire'[1], last_read')
    BY <1>2, <1>6, <2>1 DEF Adjacent
  <2>3. ASSUME NEW i \in 1..Len(wire') - 1
        PROVE  Follows(wire'[i + 1], wire'[i])
    <3>1. CASE i = Len(wire)
      <4>1. wire'[i + 1] = v /\ wire'[i] = LastUnit
        BY <1>2, <2>1, <3>1
      <4> QED
        BY <4>1
    <3>2. CASE i # Len(wire)
      <4>1. i \in 1..Len(wire) - 1 /\ i + 1 \in 1..Len(wire)
            /\ i \in 1..Len(wire)
        BY <1>1, <1>2, <3>2
      <4>2. wire'[i + 1] = wire[i + 1] /\ wire'[i] = wire[i]
        BY <1>2, <4>1
      <4> QED
        BY <4>1, <4>2 DEF Adjacent
    <3> QED
      BY <3>1, <3>2
  <2> QED
    BY <1>4, <2>2, <2>3 DEF Adjacent
<1> QED
  BY <1>5, <1>6

\* What a step does to the writer and to the last unit keeps the frames whole.
LEMMA HandsFInv ==
  ASSUME FInv, NEW u, u = LastUnit,
         HandsNothing(u) \/ \E v \in Unit : HandsOver(u, v)
  PROVE  FInv'
<1>1. TypeOK
  BY DEF FInv, WInv, IInv
<1>2. CASE HandsNothing(u)
  <2>1. LastUnit' = u /\ Adjacent'
    <3>1. CASE UNCHANGED <<wire, last_read>>
      BY <3>1 DEF LastUnit, FInv, Adjacent
    <3>2. CASE PeerRead
      BY <1>1, <3>2, PeerReadStream, PeerReadAdjacent DEF FInv
    <3> QED
      BY <1>2, <3>1, <3>2 DEF HandsNothing
  <2> QED
    BY <1>2, <2>1 DEF HandsNothing, FInv
<1>3. ASSUME NEW v \in Unit, HandsOver(u, v)
      PROVE  FInv'
  <2>1. LastUnit' = v /\ Adjacent'
    BY <1>1, <1>3, AppendAdjacent DEF FInv, HandsOver
  <2> QED
    BY <1>3, <2>1 DEF HandsOver, FInv
<1> QED
  BY <1>2, <1>3

LEMMA NextFInv ==
  ASSUME CancelPoints \cap {"writing", "written"} = {}, FInv, [Next]_vars
  PROVE  FInv'
<1>1. PICK u : u = LastUnit
  OBVIOUS
<1>2. WInv(u)
  BY <1>1 DEF FInv
<1> QED
  BY <1>1, <1>2, NextWInv, HandsFInv

\* If no write is cancelled, the peer reads one whole frame after another, for
\* every number of callers, every length of frames and whatever times out or is
\* reset: a frame that was cut short is the last one.
THEOREM FramesStayWhole ==
  ASSUME CancelPoints \cap {"writing", "written"} = {}
  PROVE  Spec => []FramesWhole
<1>1. FInv /\ [Next]_vars => FInv'
  BY NextFInv
<1>2. FInv => FramesWhole
  BY AdjacentWhole DEF FInv, WInv, IInv
<1> QED
  BY InitFInv, <1>1, <1>2, PTL DEF Spec
-----------------------------------------------------------------------------
(* The sequence numbers that the sending half gives out.                   *)

\* Who holds a number of ours: a request has none before it is written.
OurCmds == {"request", "enquire_link", "unbind"}
Ours    == {c \in Callers : frame[c].cmd \in OurCmds}
Taken   == {c \in Ours : frame[c].seq # 0}

\* The numbers that were given out are the first ones, each of them once.
NumbersCount ==
  /\ sequence_number = Cardinality(Taken)
  /\ \A c \in Taken : frame[c].seq \in 1..sequence_number
  /\ \A c, d \in Taken : frame[c].seq = frame[d].seq => c = d

\* When an operation has its number.
NumbersTimed ==
  /\ \A c \in Callers : pc[c] = "idle" => c \notin Ours
  /\ \A c \in Active \ Writing : frame[c].cmd = "request" => frame[c].seq = 0
  /\ \A c \in Active \ Writing :
       frame[c].cmd \in {"enquire_link", "unbind"} => frame[c].seq # 0
  /\ \A c \in Writing : c \in Ours => c \in Taken

NInv == IInv /\ NumbersCount /\ NumbersTimed

\* One operation for each caller, and a number for each of them.
FewOperations ==
  /\ Looping = {}
  /\ IsFiniteSet(Callers)
  /\ Cardinality(Callers) <= MaxSeq

LEMMA TakenFinite ==
  ASSUME FewOperations
  PROVE  /\ IsFiniteSet(Taken)
         /\ Cardinality(Taken) \in Nat
         /\ \A c \in Callers \ Taken : Cardinality(Taken) + 1 <= MaxSeq
<1>1. Taken \in SUBSET Callers
  BY DEF Taken, Ours
<1>2. IsFiniteSet(Taken) /\ Cardinality(Taken) \in Nat
  BY <1>1, FS_Subset, FS_CardinalityType DEF FewOperations
<1>3. ASSUME NEW c \in Callers \ Taken PROVE Cardinality(Taken) + 1 <= MaxSeq
  <2>1. Cardinality(Taken \cup {c}) = Cardinality(Taken) + 1
    BY <1>2, <1>3, FS_AddElement
  <2>2. Taken \cup {c} \in SUBSET Callers
    BY <1>1, <1>3
  <2>3. /\ Cardinality(Taken \cup {c}) <= Cardinality(Callers)
        /\ Cardinality(Callers) \in Nat
    BY <2>2, FS_Subset, FS_CardinalityType DEF FewOperations
  <2> QED
    BY <1>2, <2>1, <2>3, SendPathAssumption DEF FewOperations
<1> QED
  BY <1>2, <1>3

\* A step that gives out no number.
LEMMA NoNumber ==
  ASSUME NumbersCount, Taken' = Taken, sequence_number' = sequence_number,
         \A c \in Taken : frame'[c].seq = frame[c].seq
  PROVE  NumbersCount'
BY DEF NumbersCount

\* A step that gives the next number to c.
LEMMA NewNumber ==
  ASSUME FewOperations, TypeOK, NumbersCount,
         NEW c \in Callers, c \notin Taken, NEW k \in OurCmds,
         sequence_number' = NextSequenceNumber,
         frame' = [frame EXCEPT ![c] = [cmd |-> k, seq |-> NextSequenceNumber]]
  PROVE  /\ NumbersCount'
         /\ c \in Taken'
<1>1. /\ frame \in [Callers -> Frame]
      /\ sequence_number \in Nat
      /\ sequence_number = Cardinality(Taken)
  BY DEF TypeOK, NumbersCount
<1>2. NextSequenceNumber = sequence_number + 1
  BY <1>1, TakenFinite, SendPathAssumption DEF NextSequenceNumber
<1>3. /\ frame'[c].cmd = k
      /\ frame'[c].seq = sequence_number + 1
      /\ \A d \in Callers \ {c} : frame'[d] = frame[d]
  BY <1>1, <1>2
<1>4. Taken' = Taken \cup {c}
  <2>1. \A d \in Callers : d \in Taken' <=> d \in Taken \/ d = c
    BY <1>1, <1>3 DEF Taken, Ours
  <2> QED
    BY <2>1 DEF Taken, Ours
<1>5. sequence_number' = Cardinality(Taken')
  BY <1>1, <1>2, <1>4, TakenFinite, FS_AddElement
<1>6. \A d \in Taken' : frame'[d].seq \in 1..sequence_number'
  BY <1>1, <1>2, <1>3, <1>4 DEF NumbersCount, Taken, Ours
<1>7. \A d, e \in Taken' : frame'[d].seq = frame'[e].seq => d = e
  <2>1. \A d \in Taken : /\ frame[d].seq \in 1..sequence_number
                         /\ frame'[d].seq = frame[d].seq
    BY <1>3 DEF NumbersCount, Taken, Ours
  <2> QED
    BY <1>1, <1>3, <1>4, <2>1 DEF NumbersCount
<1> QED
  BY <1>4, <1>5, <1>6, <1>7 DEF NumbersCount

\* A step of the loop: an operation that waits keeps the number it came with, and
\* a request gets one when it is written.
LEMMA WhileBufferBusyNumbers ==
  ASSUME FewOperations, NInv, NEW c \in Callers, NEW f \in Frame,
         NEW s \in 0..MaxSeq, WhileBufferBusy(c, f, s), f.cmd \in Cmds,
         f.cmd = "request" => f.seq = 0 /\ s = sequence_number /\ c \notin Taken,
         f.cmd \in {"enquire_link", "unbind"} =>
           \/ f = frame[c] /\ s = sequence_number /\ f.seq # 0
           \/ f.seq = NextSequenceNumber /\ s = NextSequenceNumber
              /\ c \notin Taken,
         f.cmd \notin OurCmds => c \notin Taken /\ s = sequence_number
  PROVE  NumbersCount' /\ NumbersTimed'
<1>1. /\ frame \in [Callers -> Frame] /\ pc \in [Callers -> Stages]
      /\ sequence_number \in 0..MaxSeq
      /\ f.seq \in 0..MaxSeq
  BY DEF NInv, IInv, TypeOK, Frame
<1>2. NextSequenceNumber # 0
  BY <1>1, SendPathAssumption DEF NextSequenceNumber
<1> DEFINE others == \A d \in Callers \ {c} : /\ frame'[d] = frame[d]
                                              /\ pc'[d] = pc[d]
<1>3. CASE f.cmd = "request" /\ StartWrite(c, f, s)
  <2>1. /\ frame' = [frame EXCEPT ![c] =
                       [cmd |-> "request", seq |-> NextSequenceNumber]]
        /\ sequence_number' = NextSequenceNumber
        /\ pc' = [pc EXCEPT ![c] = "writing"]
    BY <1>3 DEF StartWrite
  <2>2. NumbersCount' /\ c \in Taken'
    BY <1>3, <2>1, NewNumber DEF NInv, IInv, OurCmds
  <2>3. others /\ pc'[c] = "writing"
    BY <1>1, <2>1
  <2> QED
    BY <2>2, <2>3 DEF NInv, NumbersTimed, Active, Writing, Ours, Taken
<1>4. ASSUME ~(f.cmd = "request" /\ StartWrite(c, f, s))
      PROVE  NumbersCount' /\ NumbersTimed'
  <2>1. /\ frame' = [frame EXCEPT ![c] = f]
        /\ sequence_number' = s
        /\ \/ pc' = [pc EXCEPT ![c] = "queued"]
           \/ pc' = [pc EXCEPT ![c] = "writing"] /\ f.cmd # "request"
           \/ pc' = [pc EXCEPT ![c] = "done"]
    <3>1. f = [cmd |-> f.cmd, seq |-> f.seq]
      BY DEF Frame
    <3> QED
      BY <1>4, <3>1 DEF WhileBufferBusy, WaitOnCv, StartWrite, SerializeFails
  <2>2. others /\ frame'[c] = f /\ pc'[c] \in {"queued", "writing", "done"}
    BY <1>1, <2>1
  <2>3. NumbersTimed'
    <3>1. pc'[c] = "writing" => f.cmd # "request"
      BY <1>1, <2>1
    <3>2. f.cmd \in {"enquire_link", "unbind"} => f.seq # 0
      BY <1>2
    <3> QED
      BY <2>2, <3>1, <3>2
      DEF NInv, NumbersTimed, Active, Writing, Ours, Taken, OurCmds
  <2>4. NumbersCount'
    <3>1. CASE /\ f.cmd \in {"enquire_link", "unbind"}
               /\ f.seq = NextSequenceNumber /\ s = NextSequenceNumber
               /\ c \notin Taken
      <4>1. f = [cmd |-> f.cmd, seq |-> NextSequenceNumber]
        BY <3>1 DEF Frame
      <4> QED
        BY <2>1, <3>1, <4>1, NewNumber DEF NInv, IInv, OurCmds
    <3>2. CASE f = frame[c] /\ s = sequence_number
      <4>1. frame' = frame
        BY <1>1, <2>1, <3>2
      <4> QED
        BY <2>1, <3>2, <4>1 DEF NInv, NumbersCount, Taken, Ours
    <3>3. CASE c \notin Taken /\ s = sequence_number
               /\ (f.cmd = "request" \/ f.cmd \notin OurCmds)
      <4>1. \A d \in Callers : d \in Taken' <=> d \in Taken
        BY <2>2, <3>3 DEF Taken, Ours
      <4>2. Taken' = Taken
        BY <4>1 DEF Taken, Ours
      <4> QED
        BY <2>1, <2>2, <3>3, <4>2, NoNumber DEF NInv, Taken, Ours
    <3> QED
      BY <3>1, <3>2, <3>3 DEF OurCmds
  <2> QED
    BY <2>3, <2>4
<1> QED
  BY <1>3, <1>4

\* A step that leaves the frames alone and starts nothing.
LEMMA QuietNumbers ==
  ASSUME NInv, UNCHANGED <<frame, sequence_number>>,
         \A d \in Callers : \/ pc'[d] = pc[d]
                            \/ pc'[d] = "done"
                            \/ pc[d] = "queued" /\ pc'[d] = "woken"
                            \/ pc[d] = "writing" /\ pc'[d] = "written"
  PROVE  NumbersCount' /\ NumbersTimed'
<1>1. NumbersCount' /\ Taken' = Taken /\ Ours' = Ours
  BY DEF NInv, NumbersCount, Taken, Ours
<1>2. /\ \A d \in Callers : pc'[d] = "idle" => pc[d] = "idle"
      /\ Writing' \subseteq Writing
      /\ Active' \ Writing' \subseteq Active \ Writing
  BY DEF Active, Writing
<1> QED
  BY <1>1, <1>2 DEF NInv, NumbersTimed

LEMMA StartNumbers ==
  ASSUME FewOperations, NInv, NEW c \in Callers, Start(c)
  PROVE  NumbersCount' /\ NumbersTimed'
<1>1. c \notin Ours /\ c \notin Taken
  BY DEF Start, MayStart, FewOperations, NInv, NumbersTimed, Taken
<1>2. /\ sequence_number \in 0..MaxSeq
      /\ NextSequenceNumber \in 1..MaxSeq
  BY NextNumberType DEF NInv, IInv, TypeOK
<1>3. CASE AsyncSendRequest(c)
  <2>1. [cmd |-> "request", seq |-> 0] \in Frame
    BY SendPathAssumption DEF Frame, Cmds
  <2> QED
    BY <1>1, <1>2, <1>3, <2>1, WhileBufferBusyNumbers
    DEF AsyncSendRequest, Initiate, Cmds, OurCmds
<1>4. ASSUME NEW n \in PeerNumbers, AsyncSendResponse(c, n)
      PROVE  NumbersCount' /\ NumbersTimed'
  <2>1. [cmd |-> "response", seq |-> n] \in Frame
    BY SendPathAssumption DEF Frame, Cmds
  <2> QED
    BY <1>1, <1>2, <1>4, <2>1, WhileBufferBusyNumbers
    DEF AsyncSendResponse, Initiate, Cmds, OurCmds
<1>5. ASSUME NEW k \in {"enquire_link", "unbind"}, AsyncSendNumbered(c, k)
      PROVE  NumbersCount' /\ NumbersTimed'
  <2>1. [cmd |-> k, seq |-> NextSequenceNumber] \in Frame
    BY <1>2 DEF Frame, Cmds, Commands
  <2> QED
    BY <1>1, <1>2, <1>5, <2>1, WhileBufferBusyNumbers
    DEF AsyncSendNumbered, Initiate, Cmds, Commands, OurCmds
<1>6. ASSUME NEW k \in {"enquire_link_resp", "unbind_resp"},
             NEW n \in PeerNumbers, AsyncSendReply(c, k, n)
      PROVE  NumbersCount' /\ NumbersTimed'
  <2>1. [cmd |-> k, seq |-> n] \in Frame
    BY SendPathAssumption DEF Frame, Cmds, Commands
  <2> QED
    BY <1>1, <1>2, <1>6, <2>1, WhileBufferBusyNumbers
    DEF AsyncSendReply, Initiate, Cmds, Commands, OurCmds
<1> QED
  BY <1>3, <1>4, <1>5, <1>6 DEF Start

LEMMA ResumeNumbers ==
  ASSUME FewOperations, NInv, NEW c \in Callers, Resume(c)
  PROVE  NumbersCount' /\ NumbersTimed'
<1>1. /\ pc \in [Callers -> Stages]
      /\ sequence_number \in 0..MaxSeq
      /\ frame[c] \in Frame
      /\ pc[c] = "woken"
  BY DEF Resume, NInv, IInv, TypeOK
<1>2. c \in Active \ Writing
  BY <1>1 DEF Active, Writing
<1>3. CASE cancelled[c]
  BY <1>1, <1>3, QuietNumbers DEF Resume
<1>4. CASE ~cancelled[c]
  <2>1. WhileBufferBusy(c, frame[c], sequence_number)
    BY <1>4 DEF Resume
  <2>2. /\ frame[c].cmd \in Cmds
        /\ frame[c].cmd = "request" => frame[c].seq = 0
        /\ frame[c].cmd \in {"enquire_link", "unbind"} => frame[c].seq # 0
    BY <1>2 DEF NInv, IInv, FramesNamed, NumbersTimed
  <2>3. /\ frame[c].cmd = "request" => c \notin Taken
        /\ frame[c].cmd \notin OurCmds => c \notin Taken
    BY <2>2 DEF Taken, Ours
  <2> QED
    BY <1>1, <2>1, <2>2, <2>3, WhileBufferBusyNumbers
<1> QED
  BY <1>3, <1>4

LEMMA WriteHandlerNumbers ==
  ASSUME NInv, NEW c \in Callers, WriteHandler(c)
  PROVE  NumbersCount' /\ NumbersTimed'
<1>1. pc \in [Callers -> Stages] /\ send_cv \in Seq(Callers)
  BY DEF NInv, IInv, TypeOK
<1>2. UNCHANGED <<frame, sequence_number>>
  BY DEF WriteHandler
<1>3. CASE TimedOut(c) \/ send_cv = <<>>
  <2>1. pc' = [pc EXCEPT ![c] = "done"]
    BY <1>3 DEF WriteHandler, CancelOne
  <2> QED
    BY <1>1, <1>2, <2>1, QuietNumbers
<1>4. CASE ~TimedOut(c) /\ send_cv # <<>>
  <2> DEFINE h == Head(send_cv)
  <2>1. h \in Callers /\ pc[h] = "queued"
    <3>1. h \in Callers /\ h = send_cv[1] /\ 1 \in 1..Len(send_cv)
      BY <1>1, <1>4, HeadTailProperties, EmptySeq
    <3> QED
      BY <3>1 DEF NInv, IInv, QueueMatchesWaiters
  <2>2. pc' = [[pc EXCEPT ![c] = "done"] EXCEPT ![h] = "woken"]
    BY <1>4 DEF WriteHandler, CancelOne
  <2> HIDE DEF h
  <2>3. pc[c] = "written"
    BY DEF WriteHandler
  <2>4. \A d \in Callers : pc'[d] = IF d = h THEN "woken"
                                    ELSE IF d = c THEN "done" ELSE pc[d]
    BY <1>1, <2>1, <2>2
  <2> QED
    BY <1>2, <2>1, <2>4, QuietNumbers
<1> QED
  BY <1>3, <1>4

LEMMA NextNumbers ==
  ASSUME FewOperations, NInv, [Next]_vars
  PROVE  NumbersCount' /\ NumbersTimed'
<1>1. pc \in [Callers -> Stages]
  BY DEF NInv, IInv, TypeOK
<1>2. ASSUME NEW c \in Callers, WriteSome(c) \/ WriteError(c) \/ WriteTimeout(c)
      PROVE  NumbersCount' /\ NumbersTimed'
  <2>1. /\ UNCHANGED <<frame, sequence_number>>
        /\ pc[c] = "writing"
        /\ pc' = pc \/ pc' = [pc EXCEPT ![c] = "written"]
    BY <1>2 DEF WriteSome, WriteError, WriteTimeout, EndWrite
  <2> QED
    BY <1>1, <2>1, QuietNumbers
<1>3. ASSUME NEW c \in Callers, Cancel(c) PROVE NumbersCount' /\ NumbersTimed'
  <2>1. /\ UNCHANGED <<frame, sequence_number>>
        /\ \/ pc' = pc
           \/ pc[c] = "queued" /\ pc' = [pc EXCEPT ![c] = "woken"]
           \/ pc[c] = "writing" /\ pc' = [pc EXCEPT ![c] = "written"]
    BY <1>3 DEF Cancel, CancelQueued, CancelWoken, CancelWriting, CancelWritten,
                EndWrite
  <2> QED
    BY <1>1, <2>1, QuietNumbers
<1>4. CASE PeerRead \/ SocketReset \/ UNCHANGED vars
  <2>1. UNCHANGED <<frame, sequence_number, pc>>
    BY <1>4 DEF PeerRead, SocketReset, vars, sendVars, opVars
  <2> QED
    BY <2>1, QuietNumbers
<1>5. CASE ShutdownSocket
  BY <1>1, <1>5, QuietNumbers DEF ShutdownSocket, CloseSocket
<1> QED
  BY <1>2, <1>3, <1>4, <1>5, StartNumbers, ResumeNumbers, WriteHandlerNumbers
  DEF Next, Progress

LEMMA InitNumbers == Init => NumbersCount /\ NumbersTimed
<1> SUFFICES ASSUME Init PROVE NumbersCount /\ NumbersTimed
  OBVIOUS
<1>1. Ours = {} /\ Taken = {} /\ Active = {} /\ Writing = {}
  BY DEF Init, Ours, Taken, OurCmds, NoFrame, Active, Writing
<1>2. sequence_number = 0 /\ Cardinality({}) = 0
  BY FS_EmptySet DEF Init
<1> QED
  BY <1>1, <1>2 DEF NumbersCount, NumbersTimed

\* While there are numbers left, the number that async_send reports is the number
\* of that request alone: however operations wait, are cancelled or fail in
\* between, next_sequence_number() gives every request and command its own, and
\* none is written without one.
THEOREM NumbersIdentify ==
  ASSUME FewOperations
  PROVE  Spec => []NumbersIdentifyRequests
<1>1. Init => NInv
  BY InitIInv, InitNumbers DEF NInv
<1>2. NInv /\ [Next]_vars => NInv'
  BY NextIInv, NextNumbers DEF NInv
<1>3. NInv => NumbersIdentifyRequests
  BY DEF NInv, NumbersCount, NumbersTimed, NumbersIdentifyRequests, Taken, Ours,
         OurCmds
<1> QED
  BY <1>1, <1>2, <1>3, PTL DEF Spec
=============================================================================
