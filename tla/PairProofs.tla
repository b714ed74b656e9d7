----------------------------- MODULE PairProofs -----------------------------
(* Theorems about two sessions that talk to each other. *)
EXTENDS Pair, SessionStreamProofs

\* What is known of a session is known of the peer.
PeerP == INSTANCE SessionProofs WITH
  send_buf <- peer_send_buf, send_cv <- peer_send_cv,
  sequence_number <- peer_sequence_number, pc <- peer_pc, frame <- peer_frame,
  cancelled <- peer_cancelled, ec <- peer_ec, sent <- peer_sent,
  socket <- peer_socket, rx <- peer_rx, rx_ec <- peer_rx_ec,
  received <- peer_received, receive_buf <- peer_receive_buf,
  pending_enquire_link <- peer_pending_enquire_link,
  needs_post <- peer_needs_post, rx_cancelled <- peer_rx_cancelled,
  result <- peer_result, consumed <- peer_consumed, silence <- peer_silence,
  wire <- inq, inq <- wire

-----------------------------------------------------------------------------
(* Sequences of frames of which the last one may be cut short. *)

CutInFrame(s, i) ==
  LET u == s[i]
  IN  /\ u.part \in 1..Size(u.frame.cmd)
      /\ u.part <= i
      /\ \A k \in 1..Size(u.frame.cmd) :
           i - u.part + k <= Len(s) =>
             s[i - u.part + k] = [frame |-> u.frame, part |-> k]
      /\ i < Len(s) /\ Whole(u) => s[i + 1].part = 1

CutFrames(s) == \A i \in 1..Len(s) : CutInFrame(s, i)

\* The first frame of a stream.
LEMMA HeadCut ==
  ASSUME NEW s \in Seq(PeerUnit), s # <<>>, CutFrames(s)
  PROVE  /\ s[1].part = 1
         /\ \A k \in 1..Size(s[1].frame.cmd) :
              k <= Len(s) => s[k] = [frame |-> s[1].frame, part |-> k]
<1>1. Len(s) \in Nat \ {0} /\ 1 \in 1..Len(s)
  BY EmptySeq
<1>2. s[1] \in PeerUnit
  BY <1>1, ElementOfSeq
<1> DEFINE n == Size(s[1].frame.cmd)
<1>3. n \in Nat \ {0} /\ s[1].part \in Nat
  BY <1>2, PeerUnitType
<1>4. /\ s[1].part \in 1..n
      /\ s[1].part <= 1
      /\ \A k \in 1..n :
           1 - s[1].part + k <= Len(s) =>
             s[1 - s[1].part + k] = [frame |-> s[1].frame, part |-> k]
  BY <1>1 DEF CutFrames, CutInFrame
<1> HIDE DEF n
<1>5. s[1].part = 1
  BY <1>3, <1>4
<1>6. \A k \in 1..n : 1 - s[1].part + k = k
  BY <1>5
<1> QED
  BY <1>4, <1>5, <1>6 DEF n

\* What remains when the first frame is consumed.
LEMMA DropCut ==
  ASSUME NEW s \in Seq(PeerUnit), s # <<>>, CutFrames(s),
         NEW n, n = Size(s[1].frame.cmd), n <= Len(s)
  PROVE  CutFrames(SubSeq(s, n + 1, Len(s)))
<1> DEFINE t == SubSeq(s, n + 1, Len(s))
<1>1. /\ n \in 1..Len(s) /\ Len(s) \in Nat /\ n \in Nat /\ n \in 0..Len(s)
      /\ \A k \in 1..n : s[k] = [frame |-> s[1].frame, part |-> k]
  <2>1. Len(s) \in Nat /\ 1 \in 1..Len(s)
    BY EmptySeq
  <2>2. s[1] \in PeerUnit
    BY <2>1, ElementOfSeq
  <2>3. n \in Nat \ {0}
    BY <2>2, PeerUnitType
  <2> QED
    BY <2>1, <2>3, HeadCut
<1>2. /\ Len(t) = Len(s) - n
      /\ \A i \in 1..Len(s) - n : t[i] = s[n + i]
  <2>1. n \in 0..Len(s)
    BY <1>1
  <2> QED
    BY <2>1, DropType
<1> HIDE DEF t
<1>3. ASSUME NEW i \in 1..Len(t) PROVE CutInFrame(t, i)
  <2> DEFINE u == s[n + i]
             m == Size(u.frame.cmd)
             p == u.part
  <2>1. n + i \in 1..Len(s) /\ i \in 1..Len(s) - n /\ i \in Nat
    BY <1>1, <1>2
  <2>2. t[i] = u
    BY <1>2, <2>1
  <2>3. u \in PeerUnit
    BY <2>1, ElementOfSeq
  <2>4. CutInFrame(s, n + i)
    BY <2>1 DEF CutFrames
  <2>5. /\ p \in 1..m
        /\ p <= n + i
        /\ \A k \in 1..m :
             (n + i) - p + k <= Len(s) =>
               s[(n + i) - p + k] = [frame |-> u.frame, part |-> k]
        /\ n + i < Len(s) /\ Whole(u) => s[(n + i) + 1].part = 1
    BY <2>4, Zenon DEF CutInFrame
  <2>6. m \in Nat \ {0} /\ p \in Nat
    BY <2>3, PeerUnitType
  <2> HIDE DEF u, m, p
  <2>7. p <= i
    <3>0. SUFFICES ASSUME ~(p <= i) PROVE FALSE
      OBVIOUS
    <3> DEFINE j == (n + i) - p + 1
    <3>1. 1 \in 1..m
      BY <2>6
    <3>2. j \in 1..n /\ j <= Len(s)
      <4>1. n \in Int /\ i \in Int /\ p \in Int /\ Len(s) \in Int
        BY <1>1, <2>1, <2>6
      <4>2. n <= Len(s) /\ p <= n + i
        BY <2>5
      <4>3. n + i - p + 1 >= 1 /\ n + i - p + 1 <= n /\ n + i - p + 1 \in Int
        BY <3>0, <4>1, <4>2
      <4> QED
        BY <4>1, <4>2, <4>3
    <3>3. s[j] = [frame |-> u.frame, part |-> 1]
      BY <2>5, <3>1, <3>2
    <3>4. s[j] = [frame |-> s[1].frame, part |-> j]
      BY <1>1, <3>2
    <3> HIDE DEF j
    <3>5. j = 1 /\ u.frame = s[1].frame
      BY <3>3, <3>4
    <3>6. m = n
      BY <3>5 DEF m
    <3>7. p \in 1..n
      BY <2>5, <3>6
    <3>8. (n + i) - p + 1 = 1
      BY <3>5 DEF j
    <3> QED
      BY <1>1, <2>1, <3>0, <3>7, <3>8
  <2>8. ASSUME NEW k \in 1..m, i - p + k <= Len(t)
        PROVE  t[i - p + k] = [frame |-> u.frame, part |-> k]
    <3>1. /\ n \in Int /\ i \in Int /\ p \in Int /\ k \in Int /\ k >= 1
          /\ Len(s) \in Int /\ p <= i /\ i - p + k <= Len(s) - n
      BY <1>1, <1>2, <2>1, <2>6, <2>7, <2>8
    <3>2. /\ (n + i) - p + k <= Len(s)
          /\ i - p + k \in 1..Len(s) - n
          /\ n + (i - p + k) = (n + i) - p + k
      BY <3>1
    <3>3. t[i - p + k] = s[n + (i - p + k)]
      BY <1>2, <3>2
    <3>4. s[(n + i) - p + k] = [frame |-> u.frame, part |-> k]
      BY <2>5, <3>2
    <3> QED
      BY <3>2, <3>3, <3>4
  <2>9. ASSUME i < Len(t), Whole(u) PROVE t[i + 1].part = 1
    <3>1. /\ i + 1 \in 1..Len(s) - n /\ n + i < Len(s)
          /\ n + (i + 1) = (n + i) + 1
      BY <1>1, <1>2, <2>1, <2>9
    <3> QED
      BY <1>2, <2>5, <2>9, <3>1
  <2> QED
    BY <2>2, <2>5, <2>7, <2>8, <2>9, Zenon DEF CutInFrame, m, p
<1> QED
  BY <1>3 DEF CutFrames, t

\* Another unit arrives.
LEMMA AppendCut ==
  ASSUME NEW s \in Seq(PeerUnit), CutFrames(s),
         NEW v \in PeerUnit, v.part \in 1..Size(v.frame.cmd),
         s = <<>> => v.part = 1,
         s # <<>> => Follows(v, s[Len(s)])
  PROVE  CutFrames(Append(s, v))
<1> DEFINE t == Append(s, v)
           l == Len(s)
<1>1. /\ l \in Nat
      /\ Len(t) = l + 1
      /\ \A i \in 1..l : t[i] = s[i]
      /\ t[l + 1] = v
  BY AppendProperties, LenProperties
<1> HIDE DEF t
<1>2. s # <<>> => l \in 1..l /\ s[l] \in PeerUnit
  <2> SUFFICES ASSUME s # <<>> PROVE l \in 1..l /\ s[l] \in PeerUnit
    OBVIOUS
  <2>1. l \in 1..l
    BY <1>1, EmptySeq
  <2> QED
    BY <2>1, ElementOfSeq
<1>3. ASSUME NEW i \in 1..l
      PROVE  /\ CutInFrame(s, i) /\ s[i] \in PeerUnit
             /\ s # <<>>
  <2>1. s # <<>>
    BY <1>1, EmptySeq
  <2> QED
    BY <2>1, ElementOfSeq DEF CutFrames
<1>4. ASSUME NEW i \in 1..l PROVE CutInFrame(t, i)
  <2> DEFINE u == s[i]
             m == Size(u.frame.cmd)
             p == u.part
             w == s[l]
  <2>1. /\ p \in 1..m
        /\ p <= i
        /\ \A k \in 1..m :
             i - p + k <= l => s[i - p + k] = [frame |-> u.frame, part |-> k]
        /\ i < l /\ Whole(u) => s[i + 1].part = 1
    BY <1>3, Zenon DEF CutInFrame
  <2>2. t[i] = u /\ s # <<>> /\ Follows(v, w) /\ w \in PeerUnit /\ u \in PeerUnit
    BY <1>1, <1>2, <1>3
  <2>3. m \in Nat \ {0} /\ p \in Nat /\ (Whole(u) <=> p = m)
    BY <2>2, PeerUnitType
  <2>4. Whole(w) <=> w.part = Size(w.frame.cmd)
    BY DEF Whole
  <2> HIDE DEF u, w
  <2>5. ASSUME NEW k \in 1..m, i - p + k <= Len(t)
        PROVE  t[i - p + k] = [frame |-> u.frame, part |-> k]
    <3>1. i - p + k >= 1
      BY <2>1, <2>3
    <3>2. CASE i - p + k <= l
      <4>1. i - p + k \in 1..l
        BY <1>1, <2>3, <3>1, <3>2
      <4> QED
        BY <1>1, <2>1, <3>2, <4>1
    <3>3. CASE ~(i - p + k <= l)
      <4>1. i - p + k = l + 1
        BY <1>1, <2>3, <2>5, <3>3
      <4>2. k - 1 \in 1..m /\ i - p + (k - 1) = l /\ k # 1
        BY <1>1, <2>1, <2>3, <4>1
      <4>3. w = [frame |-> u.frame, part |-> k - 1]
        BY <2>1, <4>2 DEF w
      <4>4. ~Whole(w)
        BY <2>3, <2>4, <4>2, <4>3 DEF m
      <4>5. v.frame = u.frame /\ v.part = k
        <5>1. v.frame = w.frame /\ v.part = w.part + 1
          BY <2>2, <4>4 DEF Follows
        <5>2. w.frame = u.frame /\ w.part = k - 1
          BY <4>3
        <5> QED
          BY <5>1, <5>2
      <4>6. v = [frame |-> u.frame, part |-> k]
        BY <4>5 DEF PeerUnit, Unit
      <4> QED
        BY <1>1, <4>1, <4>6
    <3> QED
      BY <3>2, <3>3
  <2>6. ASSUME i < Len(t), Whole(u) PROVE t[i + 1].part = 1
    <3>1. CASE i < l
      <4>1. i + 1 \in 1..l
        BY <1>1, <3>1
      <4> QED
        BY <1>1, <2>1, <2>6, <3>1, <4>1
    <3>2. CASE i = l
      <4>1. w = u
        BY <3>2 DEF u, w
      <4>2. ~(v.frame = w.frame /\ v.part = w.part + 1)
        BY <2>3, <2>6, <4>1 DEF m, p
      <4>3. v.part = 1
        BY <2>2, <4>2 DEF Follows
      <4> QED
        BY <1>1, <3>2, <4>3
    <3> QED
      BY <1>1, <3>1, <3>2
  <2> QED
    BY <2>1, <2>2, <2>5, <2>6, Zenon DEF CutInFrame, m, p
<1>5. CutInFrame(t, l + 1)
  <2> DEFINE m == Size(v.frame.cmd)
             p == v.part
  <2>1. m \in Nat \ {0} /\ p \in 1..m
    BY PeerUnitType
  <2>2. /\ p <= l + 1
        /\ \A k \in 1..p : t[(l + 1) - p + k] = [frame |-> v.frame, part |-> k]
    <3>1. CASE p = 1
      <4>1. v = [frame |-> v.frame, part |-> 1]
        BY <3>1 DEF PeerUnit, Unit
      <4> QED
        BY <1>1, <3>1, <4>1
    <3>2. CASE p # 1
      <4> DEFINE w == s[l]
                 q == w.part
      <4>1. s # <<>> /\ w.frame = v.frame /\ p = q + 1 /\ l \in 1..l
            /\ w \in PeerUnit
        BY <1>2, <3>2 DEF Follows
      <4>2. CutInFrame(s, l)
        BY <4>1 DEF CutFrames
      <4>3. /\ q \in 1..Size(w.frame.cmd)
            /\ q <= l
            /\ \A k \in 1..Size(w.frame.cmd) :
                 l - q + k <= l => s[l - q + k] = [frame |-> w.frame, part |-> k]
        BY <4>2, Zenon DEF CutInFrame
      <4>4. q \in Nat
        BY <4>1, PeerUnitType
      <4> HIDE DEF w, q
      <4>5. ASSUME NEW k \in 1..p
            PROVE  t[(l + 1) - p + k] = [frame |-> v.frame, part |-> k]
        <5>1. CASE k = p
          <6>1. v = [frame |-> v.frame, part |-> k] /\ (l + 1) - p + k = l + 1
            BY <1>1, <2>1, <5>1 DEF PeerUnit, Unit
          <6> QED
            BY <1>1, <6>1
        <5>2. CASE k # p
          <6>1. /\ k \in 1..q /\ l - q + k <= l /\ l - q + k \in 1..l
                /\ (l + 1) - p + k = l - q + k
            BY <1>1, <2>1, <4>1, <4>3, <4>4, <5>2
          <6>2. k \in 1..Size(w.frame.cmd)
            BY <2>1, <4>1, <4>3, <6>1
          <6>3. s[l - q + k] = [frame |-> w.frame, part |-> k]
            BY <4>3, <6>1, <6>2
          <6> QED
            BY <1>1, <4>1, <6>1, <6>3
        <5> QED
          BY <5>1, <5>2
      <4>6. p <= l + 1
        BY <1>1, <4>1, <4>3, <4>4
      <4> QED
        BY <4>5, <4>6
    <3> QED
      BY <3>1, <3>2
  <2>3. \A k \in 1..m : (l + 1) - p + k <= Len(t) => k \in 1..p
    BY <1>1, <2>1
  <2>4. ~(l + 1 < Len(t))
    BY <1>1
  <2> HIDE DEF l
  <2> QED
    BY <1>1, <2>1, <2>2, <2>3, <2>4, Zenon DEF CutInFrame, m, p
<1>6. \A i \in 1..Len(t) : i \in 1..l \/ i = l + 1
  BY <1>1
<1> HIDE DEF l
<1>7. CutFrames(t)
  BY <1>4, <1>5, <1>6, Zenon DEF CutFrames
<1> QED
  BY <1>7 DEF t
\* The units of a stream that may end within a frame continue each other.
LEMMA CutInSync ==
  ASSUME NEW s \in Seq(PeerUnit), CutFrames(s)
  PROVE  /\ s # <<>> => s[1].part = 1
         /\ \A i \in 1..Len(s) - 1 : Follows(s[i + 1], s[i])
<1>1. s # <<>> => s[1].part = 1
  BY HeadCut
<1>2. ASSUME NEW i \in 1..Len(s) - 1 PROVE Follows(s[i + 1], s[i])
  <2> DEFINE u == s[i]
             m == Size(u.frame.cmd)
             p == u.part
  <2>1. Len(s) \in Nat /\ i \in 1..Len(s) /\ i < Len(s) /\ i \in Nat
    BY LenProperties
  <2>2. u \in PeerUnit /\ CutInFrame(s, i)
    BY <2>1, ElementOfSeq DEF CutFrames
  <2>3. /\ p \in 1..m
        /\ \A k \in 1..m :
             i - p + k <= Len(s) => s[i - p + k] = [frame |-> u.frame, part |-> k]
        /\ i < Len(s) /\ Whole(u) => s[i + 1].part = 1
    BY <2>2, Zenon DEF CutInFrame
  <2>4. m \in Nat \ {0} /\ p \in Nat /\ (Whole(u) <=> p = m)
    BY <2>2, PeerUnitType
  <2> HIDE DEF u, m
  <2>5. CASE Whole(u)
    BY <2>1, <2>3, <2>5 DEF Follows, u
  <2>6. CASE ~Whole(u)
    <3>1. p + 1 \in 1..m /\ i - p + (p + 1) = i + 1 /\ i + 1 <= Len(s)
      BY <2>1, <2>3, <2>4, <2>6
    <3>2. s[i + 1] = [frame |-> u.frame, part |-> p + 1]
      BY <2>3, <3>1
    <3> QED
      BY <3>2 DEF Follows, u
  <2> QED
    BY <2>5, <2>6
<1> QED
  BY <1>1, <1>2
-----------------------------------------------------------------------------
(* The peer of Pair is the session that PeerP is about. *)

LEMMA SameData ==
  /\ PeerP!NoFrame = NoFrame /\ PeerP!Cmds = Cmds
  /\ PeerP!Frame = Frame /\ PeerP!Unit = Unit /\ PeerP!PeerUnit = PeerUnit
  /\ \A cmd : PeerP!Size(cmd) = Size(cmd)
  /\ \A u : PeerP!Whole(u) <=> Whole(u)
  /\ \A u, v : PeerP!Follows(u, v) <=> Follows(u, v)
<1>1. /\ PeerP!Commands = Commands /\ PeerP!RxCommands = RxCommands
      /\ PeerP!NoFrame = NoFrame
  BY DEF Commands, PeerP!Commands, RxCommands, PeerP!RxCommands, NoFrame,
         PeerP!NoFrame
<1>2. PeerP!Cmds = Cmds
  BY <1>1 DEF Cmds, PeerP!Cmds
<1>3. PeerP!Frame = Frame
  BY <1>2 DEF Frame, PeerP!Frame
<1>4. PeerP!Unit = Unit
  BY <1>3 DEF Unit, PeerP!Unit
<1>5. PeerP!PeerUnit = PeerUnit
  BY <1>1, <1>2, <1>4 DEF PeerUnit, PeerP!PeerUnit
<1>6. \A cmd : PeerP!Size(cmd) = Size(cmd)
  BY <1>1 DEF Size, PeerP!Size
<1>7. \A u : PeerP!Whole(u) <=> Whole(u)
  BY <1>6 DEF Whole, PeerP!Whole
<1>8. \A u, v : PeerP!Follows(u, v) <=> Follows(u, v)
  BY <1>7 DEF Follows, PeerP!Follows
<1> QED
  BY <1>1, <1>2, <1>3, <1>4, <1>5, <1>6, <1>7, <1>8

LEMMA SameAssumptions == PeerP!SendPathAssumption /\ PeerP!SessionAssumption
BY SameData, SendPathAssumption, SessionAssumption
DEF PeerP!SendPathAssumption, PeerP!SessionAssumption

LEMMA SameVars ==
  /\ Peer!netVars = PeerP!netVars /\ Peer!vars = PeerP!vars
  /\ Peer!rxState = PeerP!rxState /\ Peer!rxVars = PeerP!rxVars
  /\ Peer!peerVars = PeerP!peerVars
  /\ Peer!netVars' = PeerP!netVars' /\ Peer!vars' = PeerP!vars'
  /\ Peer!rxState' = PeerP!rxState' /\ Peer!rxVars' = PeerP!rxVars'
  /\ Peer!peerVars' = PeerP!peerVars'
BY DEF Peer!netVars, PeerP!netVars, Peer!vars, PeerP!vars, Peer!sendVars,
       PeerP!sendVars, Peer!opVars, PeerP!opVars, Peer!rxState, PeerP!rxState,
       Peer!rxVars, PeerP!rxVars, Peer!peerVars, PeerP!peerVars

LEMMA SameInit == Peer!SInit => PeerP!SInit
BY DEF Peer!SInit, PeerP!SInit, Peer!Init, PeerP!Init, Peer!NoFrame,
       PeerP!NoFrame

LEMMA SameInline == Peer!Inline <=> PeerP!Inline
BY DEF Peer!Inline, PeerP!Inline

LEMMA SamePeerLoop ==
  ASSUME NEW c, NEW f, NEW s
  PROVE  /\ Peer!WhileBufferBusy(c, f, s) <=> PeerP!WhileBufferBusy(c, f, s)
         /\ Peer!Initiate(c, f, s) <=> PeerP!Initiate(c, f, s)
         /\ Peer!NextSequenceNumber = PeerP!NextSequenceNumber
<1>1. Peer!NextSequenceNumber = PeerP!NextSequenceNumber
  BY DEF Peer!NextSequenceNumber, PeerP!NextSequenceNumber
<1>2. Peer!WaitOnCv(c, f, s) <=> PeerP!WaitOnCv(c, f, s)
  BY DEF Peer!WaitOnCv, PeerP!WaitOnCv, Peer!netVars, PeerP!netVars
<1>3. Peer!StartWrite(c, f, s) <=> PeerP!StartWrite(c, f, s)
  BY <1>1 DEF Peer!StartWrite, PeerP!StartWrite, Peer!netVars, PeerP!netVars
<1>4. Peer!SerializeFails(c, f, s) <=> PeerP!SerializeFails(c, f, s)
  BY DEF Peer!SerializeFails, PeerP!SerializeFails, Peer!netVars,
         PeerP!netVars, Peer!Complete, PeerP!Complete
<1>5. Peer!WhileBufferBusy(c, f, s) <=> PeerP!WhileBufferBusy(c, f, s)
  BY <1>2, <1>3, <1>4 DEF Peer!WhileBufferBusy, PeerP!WhileBufferBusy,
                          Peer!NoFrame, PeerP!NoFrame
<1> QED
  BY <1>1, <1>5 DEF Peer!Initiate, PeerP!Initiate

LEMMA SameOperations ==
  ASSUME NEW c
  PROVE  /\ Peer!Start(c) => PeerP!Start(c)
         /\ Peer!Progress(c) => PeerP!Progress(c)
         /\ Peer!WriteTimeout(c) => PeerP!WriteTimeout(c)
         /\ Peer!CancelQueued(c) <=> PeerP!CancelQueued(c)
         /\ Peer!CancelWoken(c) <=> PeerP!CancelWoken(c)
         /\ Peer!CancelWriting(c) <=> PeerP!CancelWriting(c)
         /\ Peer!CancelWritten(c) <=> PeerP!CancelWritten(c)
         /\ Peer!Cancel(c) => PeerP!Cancel(c)
<1>1. Peer!Start(c) => PeerP!Start(c)
  BY SamePeerLoop
  DEF Peer!Start, PeerP!Start, Peer!MayStart, PeerP!MayStart,
      Peer!AsyncSendRequest, PeerP!AsyncSendRequest, Peer!AsyncSendResponse,
      PeerP!AsyncSendResponse, Peer!AsyncSendNumbered, PeerP!AsyncSendNumbered,
      Peer!AsyncSendReply, PeerP!AsyncSendReply
<1>2. Peer!Resume(c) => PeerP!Resume(c)
  BY SamePeerLoop
  DEF Peer!Resume, PeerP!Resume, Peer!Complete, PeerP!Complete, Peer!netVars,
      PeerP!netVars
<1>3. Peer!WriteSome(c) => PeerP!WriteSome(c)
  BY DEF Peer!WriteSome, PeerP!WriteSome, Peer!EndWrite, PeerP!EndWrite,
         Peer!Size, PeerP!Size, Peer!Commands, PeerP!Commands
<1>4. Peer!WriteError(c) => PeerP!WriteError(c)
  BY DEF Peer!WriteError, PeerP!WriteError, Peer!EndWrite, PeerP!EndWrite,
         Peer!netVars, PeerP!netVars
<1>5. Peer!WriteHandler(c) => PeerP!WriteHandler(c)
  BY DEF Peer!WriteHandler, PeerP!WriteHandler, Peer!TimedOut, PeerP!TimedOut,
         Peer!Commands, PeerP!Commands, Peer!Complete, PeerP!Complete,
         Peer!CancelOne, PeerP!CancelOne, Peer!netVars, PeerP!netVars,
         Peer!NoFrame, PeerP!NoFrame
<1>6. Peer!WriteTimeout(c) => PeerP!WriteTimeout(c)
  BY DEF Peer!WriteTimeout, PeerP!WriteTimeout, Peer!EndWrite, PeerP!EndWrite,
         Peer!netVars, PeerP!netVars, Peer!Commands, PeerP!Commands
<1>7. Peer!CancelQueued(c) <=> PeerP!CancelQueued(c)
  BY DEF Peer!CancelQueued, PeerP!CancelQueued, Peer!netVars, PeerP!netVars,
         RemoveAt, PeerP!RemoveAt, Peer!RemoveAt
<1>8. Peer!CancelWoken(c) <=> PeerP!CancelWoken(c)
  BY DEF Peer!CancelWoken, PeerP!CancelWoken, Peer!netVars, PeerP!netVars
<1>9. Peer!CancelWriting(c) <=> PeerP!CancelWriting(c)
  BY DEF Peer!CancelWriting, PeerP!CancelWriting, Peer!EndWrite,
         PeerP!EndWrite, Peer!netVars, PeerP!netVars
<1>10. Peer!CancelWritten(c) <=> PeerP!CancelWritten(c)
  BY DEF Peer!CancelWritten, PeerP!CancelWritten, Peer!netVars, PeerP!netVars
<1> QED
  BY <1>1, <1>2, <1>3, <1>4, <1>5, <1>6, <1>7, <1>8, <1>9, <1>10
  DEF Peer!Progress, PeerP!Progress, Peer!Cancel, PeerP!Cancel

LEMMA SameParts ==
  ASSUME NEW cmd, NEW n, NEW s, NEW e, NEW f
  PROVE  /\ Peer!RxSend(cmd, n, s) <=> PeerP!RxSend(cmd, n, s)
         /\ Peer!RxComplete(e, f) <=> PeerP!RxComplete(e, f)
         /\ Peer!RxShutdown <=> PeerP!RxShutdown
         /\ Peer!Consume(f) <=> PeerP!Consume(f)
         /\ Peer!Commit <=> PeerP!Commit
         /\ Peer!EndRead(e) <=> PeerP!EndRead(e)
         /\ Peer!HasFrame <=> PeerP!HasFrame
         /\ Peer!HeadFrame = PeerP!HeadFrame
<1>1. Peer!RxSend(cmd, n, s) <=> PeerP!RxSend(cmd, n, s)
  BY SamePeerLoop DEF Peer!RxSend, PeerP!RxSend
<1>2. Peer!RxComplete(e, f) <=> PeerP!RxComplete(e, f)
  BY DEF Peer!RxComplete, PeerP!RxComplete
<1>3. Peer!RxShutdown <=> PeerP!RxShutdown
  BY DEF Peer!RxShutdown, PeerP!RxShutdown, Peer!CloseSocket, PeerP!CloseSocket
<1>4. \A cmd1 : Peer!Size(cmd1) = PeerP!Size(cmd1)
  BY DEF Peer!Size, PeerP!Size, Peer!Commands, PeerP!Commands
<1>5. Peer!Consume(f) <=> PeerP!Consume(f)
  BY <1>4 DEF Peer!Consume, PeerP!Consume, Peer!Numbered, PeerP!Numbered
<1>6. Peer!HeadFrame = PeerP!HeadFrame
  BY DEF Peer!HeadFrame, PeerP!HeadFrame
<1>7. Peer!HasFrame <=> PeerP!HasFrame
  BY <1>4, <1>6 DEF Peer!HasFrame, PeerP!HasFrame, Peer!HasHeader,
                    PeerP!HasHeader
<1>8. /\ Peer!Commit <=> PeerP!Commit
      /\ Peer!EndRead(e) <=> PeerP!EndRead(e)
  BY DEF Peer!Commit, PeerP!Commit, Peer!EndRead, PeerP!EndRead
<1> QED
  BY <1>1, <1>2, <1>3, <1>5, <1>6, <1>7, <1>8

LEMMA SameLoopStages == Peer!Loop => PeerP!Loop
<1>1. Peer!StartRead => PeerP!StartRead
  BY SameParts, SameVars DEF Peer!StartRead, PeerP!StartRead
<1>2. Peer!AnswerCommand => PeerP!AnswerCommand
  BY SameParts, SameVars
  DEF Peer!AnswerCommand, PeerP!AnswerCommand, Peer!AnswerNumber,
      PeerP!AnswerNumber
<1>3. Peer!SkipEnquireLinkResp => PeerP!SkipEnquireLinkResp
  BY SameParts, SameVars
  DEF Peer!SkipEnquireLinkResp, PeerP!SkipEnquireLinkResp
<1>4. Peer!FinishUnbind => PeerP!FinishUnbind
  BY SameParts, SameVars DEF Peer!FinishUnbind, PeerP!FinishUnbind
<1>5. Peer!DeliverOrPost => PeerP!DeliverOrPost
  BY SameParts, SameVars
  DEF Peer!DeliverOrPost, PeerP!DeliverOrPost, Peer!DeliverNow,
      PeerP!DeliverNow
<1> QED
  BY <1>1, <1>2, <1>3, <1>4, <1>5 DEF Peer!Loop, PeerP!Loop

LEMMA SameReceive ==
  /\ Peer!AsyncReceive => PeerP!AsyncReceive
  /\ Peer!RxProgress => PeerP!RxProgress
  /\ Peer!ReadTimeout => PeerP!ReadTimeout
  /\ Peer!AfterSend => PeerP!AfterSend
  /\ \A type : Peer!RxCancel(type) => PeerP!RxCancel(type)
<1>1. Peer!AsyncReceive => PeerP!AsyncReceive
  BY SameVars DEF Peer!AsyncReceive, PeerP!AsyncReceive
<1>2. Peer!ReadSome => PeerP!ReadSome
  BY SameVars, SameParts DEF Peer!ReadSome, PeerP!ReadSome
<1>3. Peer!ReadError => PeerP!ReadError
  BY SameVars, SameParts DEF Peer!ReadError, PeerP!ReadError
<1>4. Peer!ReadTimeout => PeerP!ReadTimeout
  BY SameVars, SameParts DEF Peer!ReadTimeout, PeerP!ReadTimeout
<1>5. Peer!Posted => PeerP!Posted
  BY SameVars, SameParts DEF Peer!Posted, PeerP!Posted, Peer!DeliverNow,
                             PeerP!DeliverNow
<1>6. Peer!ReadHandler => PeerP!ReadHandler
  <2>1. Peer!DataReceived <=> PeerP!DataReceived
    BY SameParts DEF Peer!DataReceived, PeerP!DataReceived
  <2>2. Peer!AfterReadTimeout <=> PeerP!AfterReadTimeout
    BY SameParts, SamePeerLoop
    DEF Peer!AfterReadTimeout, PeerP!AfterReadTimeout, Peer!SendUnbind,
        PeerP!SendUnbind, Peer!SendEnquireLink, PeerP!SendEnquireLink
  <2>3. Peer!NoFrame = PeerP!NoFrame
    BY DEF Peer!NoFrame, PeerP!NoFrame
  <2> QED
    BY <2>1, <2>2, <2>3, SameVars, SameParts
    DEF Peer!ReadHandler, PeerP!ReadHandler
<1>7. Peer!AfterSend => PeerP!AfterSend
  <2>1. \A cmd : Peer!Size(cmd) = PeerP!Size(cmd)
    BY DEF Peer!Size, PeerP!Size, Peer!Commands, PeerP!Commands
  <2>2. \A f : Peer!HandedLast(f) <=> PeerP!HandedLast(f)
    BY <2>1 DEF Peer!HandedLast, PeerP!HandedLast, Last, Peer!Last, PeerP!Last
  <2> QED
    BY <2>2, SameVars, SameParts
    DEF Peer!AfterSend, PeerP!AfterSend, Peer!SendFailed, PeerP!SendFailed,
        Peer!NoFrame, PeerP!NoFrame
<1>8. ASSUME NEW type, Peer!RxCancel(type) PROVE PeerP!RxCancel(type)
  BY <1>8, SameVars, SameParts, SameOperations
  DEF Peer!RxCancel, PeerP!RxCancel, Peer!RxAccepts, PeerP!RxAccepts,
      Peer!Writing, PeerP!Writing
<1> QED
  BY <1>1, <1>2, <1>3, <1>4, <1>5, <1>6, <1>7, <1>8
  DEF Peer!RxProgress, PeerP!RxProgress

LEMMA SameOwnNext == Peer!OwnNext => PeerP!OwnNext
<1>1. ASSUME NEW c
      PROVE  /\ Peer!OfSender(Peer!Start(c)) => PeerP!OfSender(PeerP!Start(c))
             /\ Peer!OfSender(Peer!Cancel(c)) => PeerP!OfSender(PeerP!Cancel(c))
             /\ Peer!OfSender(Peer!Progress(c)) =>
                  PeerP!OfSender(PeerP!Progress(c))
             /\ Peer!OfSender(Peer!WriteTimeout(c)) =>
                  PeerP!OfSender(PeerP!WriteTimeout(c))
  BY SameInline, SameVars, SameOperations DEF Peer!OfSender, PeerP!OfSender
<1> QED
  BY <1>1, SameLoopStages, SameReceive DEF Peer!OwnNext, PeerP!OwnNext
-----------------------------------------------------------------------------
(* The inductive invariant. *)

\* The unit that the peer has handed to TCP last, unless all is consumed.
PeerLast ==
  IF Stream = <<>> THEN [frame |-> NoFrame, part |-> 0]
                   ELSE Stream[Len(Stream)]

LEMMA NothingWhole == Whole([frame |-> NoFrame, part |-> 0])
BY SizeType DEF Whole, NoFrame

\* Nothing follows an unbind_resp of the peer's, and the peer has ended with it.
AnswersLast ==
  \A i \in 1..Len(Stream) :
    Stream[i].frame.cmd = "unbind_resp" /\ Whole(Stream[i]) =>
      i = Len(Stream) /\ PeerP!AnswerWritten

UnbindedQuiet ==
  rx_ec = "unbinded" /\ result.cmd = "unbind_resp" =>
    /\ rx = "idle"
    /\ Stream = <<>>
    /\ PeerP!AnswerWritten

\* UnbindLosesNothing is not inductive: that nothing is left when the answer is
\* consumed depends on what the peer may write after it, and that the answer is
\* read as one on the peer's frames being whole.
PairInv ==
  /\ SIInv
  /\ CommandsNumbered
  /\ PeerP!SIInv
  /\ PeerP!CommandsNumbered
  /\ PeerP!Answerers
  /\ CutFrames(Stream)
  /\ PeerP!WInv(PeerLast)
  /\ AnswersLast
  /\ UnbindedQuiet

\* What the peer knows about itself, u being the unit that it handed over last.
PeerKnows(u) ==
  /\ PeerP!SIInv
  /\ PeerP!CommandsNumbered
  /\ PeerP!Answerers
  /\ PeerP!WInv(u)

\* It stays so while the peer does nothing, whether or not its socket ends.
LEMMA PeerKept ==
  ASSUME NEW u, PeerKnows(u), UNCHANGED <<peerSender, peerRx, last_read, peerVars>>,
         peer_socket' = peer_socket \/ peer_socket' = "reset",
         inq' \in Seq(Unit), wire' \in Seq(PeerUnit)
  PROVE  /\ PeerKnows(u)'
         /\ PeerP!AnswerWritten => PeerP!AnswerWritten'
<1>1. UNCHANGED <<PeerP!sendVars, PeerP!rxVars, last_read, PeerP!peerVars>>
  BY DEF peerSender, peerRx, peerVars, PeerP!sendVars, PeerP!opVars,
         PeerP!rxVars, PeerP!rxState, PeerP!peerVars
<1>2. UNCHANGED <<peer_send_buf, peer_pc, peer_frame, peer_cancelled, peer_ec,
                  peer_sent, peer_rx, peer_rx_ec>>
  BY DEF peerSender, peerRx
<1>3. PeerP!SIInv'
  <2>1. inq' \in Seq(PeerP!Unit) /\ wire' \in Seq(PeerP!PeerUnit)
    BY SameData
  <2> QED
    BY <1>1, <2>1, PeerP!SurroundingsSIInv, SameAssumptions DEF PeerKnows
<1>4. PeerP!CommandsNumbered' /\ PeerP!Answerers'
  BY <1>2 DEF PeerKnows, PeerP!CommandsNumbered, PeerP!Answerers
<1>5. PeerP!Writing' = PeerP!Writing
  BY <1>2 DEF PeerP!Writing
<1>6. PeerP!IInv'
  BY <1>3 DEF PeerP!SIInv
<1>7. PeerP!WInv(u)'
  <2>1. CASE peer_socket' = peer_socket
    <3>1. PeerP!WritersFresh'
      BY <1>2, <1>5 DEF PeerKnows, PeerP!WInv, PeerP!WritersFresh
    <3>2. PeerP!PositionAt(u)'
      BY <1>2, <2>1, SameData
      DEF PeerKnows, PeerP!WInv, PeerP!PositionAt, PeerP!Whole
    <3> QED
      BY <1>6, <3>1, <3>2 DEF PeerP!WInv
  <2>2. CASE peer_socket' = "reset"
    BY <1>2, <1>5, <1>6, <2>2, PeerP!SocketEndsWInv, SameAssumptions
    DEF PeerKnows
  <2> QED
    BY <2>1, <2>2
<1>8. PeerP!AnswerWritten => PeerP!AnswerWritten'
  BY <1>2 DEF PeerP!AnswerWritten
<1> QED
  BY <1>3, <1>4, <1>7, <1>8 DEF PeerKnows

\* The connection ends, or nothing happens at all.
LEMMA OnlySocketsEnd ==
  ASSUME PairInv,
         UNCHANGED <<sendVars, rxVars, peerSender, peerRx, wire, inq, last_read,
                     peerVars>>,
         socket' = socket \/ socket' = "reset",
         peer_socket' = peer_socket \/ peer_socket' = "reset"
  PROVE  PairInv'
<1>1. PICK u : u = PeerLast
  OBVIOUS
<1>2. /\ inq \in Seq(PeerUnit) /\ inq \in Seq(Unit)
      /\ wire \in Seq(PeerUnit) /\ wire \in Seq(Unit)
  BY SameData
  DEF PairInv, SIInv, RxTypes, IInv, TypeOK, PeerP!SIInv, PeerP!RxTypes,
      PeerP!IInv, PeerP!TypeOK
<1>3. SIInv'
  BY <1>2, SurroundingsSIInv DEF PairInv
<1>4. PeerKnows(u)' /\ (PeerP!AnswerWritten => PeerP!AnswerWritten')
  <2>1. PeerKnows(u)
    BY <1>1 DEF PairInv, PeerKnows
  <2> QED
    BY <1>2, <2>1, PeerKept
<1>5. /\ Stream' = Stream /\ PeerLast' = u
      /\ UNCHANGED <<rx, rx_ec, result, frame>>
  BY <1>1 DEF Stream, PeerLast, rxVars, rxState, sendVars, opVars
<1>6. AnswersLast' /\ UnbindedQuiet' /\ CutFrames(Stream)' /\ CommandsNumbered'
  BY <1>4, <1>5
  DEF PairInv, AnswersLast, UnbindedQuiet, CutFrames, CutInFrame,
      CommandsNumbered
<1> QED
  BY <1>3, <1>4, <1>5, <1>6 DEF PairInv, PeerKnows
-----------------------------------------------------------------------------
(* The session takes a step. *)

\* Who reports unbinded because an unbind_resp has arrived.
LEMMA UnbindedFrom ==
  ASSUME SIInv, OwnNext, rx_ec' = "unbinded", result'.cmd = "unbind_resp"
  PROVE  \/ Loop /\ FinishUnbind
         \/ rx_ec = "unbinded" /\ UNCHANGED <<rx, rx_ec, result>>
<1>1. CASE UNCHANGED <<rx_ec, result>> /\ rx # "idle"
  BY <1>1 DEF SIInv, RxStages
<1>2. CASE \E c \in Callers \ {Rx} : OfSender(Start(c)) \/ OfSender(Cancel(c))
  BY <1>2 DEF OfSender, rxVars, rxState
<1>3. CASE \E c \in Callers : OfSender(Progress(c)) \/ OfSender(WriteTimeout(c))
  BY <1>3 DEF OfSender, rxVars, rxState
<1>4. CASE AsyncReceive \/ ReadTimeout \/ ReadSome \/ ReadError \/ Posted
  BY <1>4 DEF AsyncReceive, ReadTimeout, ReadSome, ReadError, EndRead, Posted,
              DeliverNow, RxComplete
<1>5. CASE Loop
  BY <1>1, <1>5 DEF Loop, StartRead, AnswerCommand, SkipEnquireLinkResp,
                    rxState, DeliverOrPost, DeliverNow, RxComplete
<1>6. CASE ReadHandler
  BY <1>1, <1>6 DEF ReadHandler, AfterReadTimeout, RxComplete, NoFrame
<1>7. CASE AfterSend
  <2>1. CASE frame[Rx].cmd = "unbind_resp" /\ RxComplete("unbinded", HeadFrame)
    <3>1. HeadFrame.cmd = "unbind"
      BY <1>7, <2>1 DEF AfterSend, SIInv, RxStages, RxReplies
    <3> QED
      BY <2>1, <3>1 DEF RxComplete
  <2>2. ~RxComplete("enquire_link_timeout", frame[Rx])
    BY DEF RxComplete
  <2>3. ~RxComplete(ec[Rx], NoFrame)
    BY DEF RxComplete, NoFrame
  <2> QED
    BY <1>1, <1>7, <2>1, <2>2, <2>3 DEF AfterSend
<1>8. CASE \E type \in RxCancels : RxCancel(type)
  BY <1>1, <1>8 DEF RxCancel, EndRead
<1> QED
  BY <1>2, <1>3, <1>4, <1>5, <1>6, <1>7, <1>8 DEF OwnNext, RxProgress

\* The session consumes the first frame of the stream.
LEMMA ConsumeKeeps ==
  ASSUME PairInv, ConsumesFrame, NEW u, PeerP!WInv(u), u = PeerLast,
         UNCHANGED peerOwn
  PROVE  /\ CutFrames(Stream')
         /\ PeerLast' = u \/ (Stream' = <<>> /\ Whole(u))
         /\ AnswersLast'
         /\ HeadFrame.cmd = "unbind_resp" =>
              Stream' = <<>> /\ PeerP!AnswerWritten
<1> DEFINE s == Stream
           n == Size(HeadFrame.cmd)
           t == SubSeq(s, n + 1, Len(s))
<1>1. /\ RxTypes /\ CutFrames(s) /\ AnswersLast
      /\ s \in Seq(PeerUnit) /\ Len(s) \in Nat
      /\ Len(receive_buf) <= Len(s)
  <2>1. RxTypes
    BY DEF PairInv, SIInv
  <2>2. /\ s \in Seq(PeerUnit) /\ receive_buf \in Seq(PeerUnit)
        /\ received \o inq \in Seq(PeerUnit)
        /\ s = receive_buf \o (received \o inq)
    BY <2>1, StreamType
  <2>3. /\ Len(s) = Len(receive_buf) + Len(received \o inq)
        /\ Len(s) \in Nat /\ Len(receive_buf) \in Nat
        /\ Len(received \o inq) \in Nat
    BY <2>2, ConcatProperties, LenProperties
  <2>4. CutFrames(s) /\ AnswersLast
    BY DEF PairInv
  <2> QED
    BY <2>1, <2>2, <2>3, <2>4
<1>2. /\ s # <<>> /\ Stream' = t /\ n = Size(s[1].frame.cmd)
      /\ HeadFrame = s[1].frame
  <2>1. s # <<>> /\ s[1] = receive_buf[1] /\ Stream' = t
    BY <1>1, ConsumeStream
  <2> QED
    BY <2>1 DEF HeadFrame
<1>3. n \in 1..Len(s) /\ n \in 0..Len(s) /\ n <= Len(s) /\ n \in Nat
  <2>1. n \in 1..Len(receive_buf) /\ Len(receive_buf) \in Nat
    BY <1>1, ConsumeType, StreamType DEF ConsumesFrame
  <2> QED
    BY <1>1, <2>1
<1>4. s[n] = [frame |-> s[1].frame, part |-> n]
  BY <1>1, <1>2, <1>3, HeadCut
<1>5. Whole(s[n]) /\ s[n].frame = HeadFrame
  BY <1>2, <1>4 DEF Whole
<1> HIDE DEF n
<1>6. CutFrames(t)
  BY <1>1, <1>2, <1>3, DropCut
<1>7. /\ t \in Seq(PeerUnit) /\ Len(t) = Len(s) - n
      /\ \A i \in 1..Len(s) - n : t[i] = s[n + i]
  BY <1>1, <1>3, DropType
<1> HIDE DEF t
<1>8. u = s[Len(s)]
  BY <1>2 DEF PeerLast
<1> HIDE DEF s
<1>9. CASE Len(s) = n
  <2>1. t = <<>>
    BY <1>1, <1>3, <1>7, <1>9, EmptySeq
  <2>2. Whole(u) /\ Stream' = <<>>
    BY <1>2, <1>5, <1>8, <1>9, <2>1
  <2>3. Len(Stream') = 0
    BY <2>2, EmptySeq
  <2>4. AnswersLast'
    BY <2>3 DEF AnswersLast
  <2>5. HeadFrame.cmd = "unbind_resp" => PeerP!AnswerWritten
    BY <1>1, <1>3, <1>5 DEF AnswersLast, s
  <2> QED
    BY <1>2, <1>6, <2>2, <2>4, <2>5
<1>10. CASE Len(s) # n
  <2>1. Len(t) \in Nat \ {0} /\ Len(t) \in 1..Len(s) - n
    BY <1>1, <1>3, <1>7, <1>10
  <2>2. Stream' # <<>> /\ Stream'[Len(Stream')] = s[Len(s)]
    <3>1. t # <<>>
      BY <2>1, EmptySeq
    <3>2. t[Len(t)] = s[n + Len(t)] /\ n + Len(t) = Len(s)
      BY <1>1, <1>3, <1>7, <2>1
    <3> QED
      BY <1>2, <3>1, <3>2
  <2>3. PeerLast' = u
    BY <1>8, <2>2 DEF PeerLast
  <2>4. PeerP!AnswerWritten => PeerP!AnswerWritten'
    BY DEF PeerP!AnswerWritten, peerOwn, peerSender, peerRx
  <2>5. AnswersLast'
    <3> SUFFICES ASSUME NEW i \in 1..Len(Stream'),
                        Stream'[i].frame.cmd = "unbind_resp", Whole(Stream'[i])
                 PROVE  i = Len(Stream') /\ PeerP!AnswerWritten'
      BY DEF AnswersLast, Whole
    <3>1. /\ n + i \in 1..Len(s) /\ i \in 1..Len(s) - n
          /\ Stream'[i] = s[n + i]
      BY <1>1, <1>2, <1>3, <1>7
    <3>2. n + i = Len(s) /\ PeerP!AnswerWritten
      BY <1>1, <3>1 DEF AnswersLast, s
    <3> QED
      BY <1>1, <1>2, <1>3, <1>7, <2>4, <3>2
  <2>6. HeadFrame.cmd # "unbind_resp"
    BY <1>1, <1>3, <1>5, <1>10 DEF AnswersLast, s
  <2> QED
    BY <1>2, <1>6, <2>3, <2>5, <2>6
<1> QED
  BY <1>9, <1>10

LEMMA OwnStepPairInv ==
  ASSUME PairInv, OwnNext, UNCHANGED peerOwn
  PROVE  PairInv'
<1>1. PICK u : u = PeerLast
  OBVIOUS
<1>2. /\ SIInv /\ CommandsNumbered /\ CutFrames(Stream) /\ AnswersLast
      /\ UnbindedQuiet /\ PeerKnows(u) /\ PeerP!WInv(u)
      /\ wire \in Seq(PeerUnit)
  BY <1>1, SameData DEF PairInv, PeerKnows, PeerP!SIInv, PeerP!RxTypes
<1>3. SIInv' /\ CommandsNumbered'
  <2>1. SNext
    BY DEF SNext
  <2> QED
    BY <1>2, <2>1, SNextSIInv, SenderSteps, SenderStepNumbered DEF SIInv
<1>4. ASSUME NEW w, PeerKnows(w)
      PROVE  PeerKnows(w)' /\ (PeerP!AnswerWritten => PeerP!AnswerWritten')
  <2>1. inq' \in Seq(Unit)
    <3>1. inq' \in Seq(PeerUnit)
      BY <1>3 DEF SIInv, RxTypes
    <3> QED
      BY <3>1 DEF PeerUnit
  <2>2. wire' \in Seq(PeerUnit)
    BY <1>2, OwnUnits
  <2>3. UNCHANGED <<last_read, peerVars>>
    BY OwnWire
  <2>4. UNCHANGED <<peerSender, peerRx, peer_socket>>
    BY DEF peerOwn
  <2> QED
    BY <1>4, <2>1, <2>2, <2>3, <2>4, PeerKept
<1>5. /\ CutFrames(Stream)' /\ AnswersLast'
      /\ PeerLast' = u \/ (Stream' = <<>> /\ Whole(u))
      /\ Stream = <<>> => Stream' = <<>>
      /\ \/ ConsumesFrame
         \/ Stream' = Stream
  <2>1. CASE Stream' = Stream
    BY <1>1, <1>2, <1>4, <2>1
    DEF CutFrames, CutInFrame, AnswersLast, PeerLast, Whole
  <2>2. CASE ConsumesFrame
    <3>1. Stream # <<>>
      BY <1>2, <2>2, ConsumeStream DEF SIInv
    <3>2. /\ CutFrames(Stream')
          /\ PeerLast' = u \/ (Stream' = <<>> /\ Whole(u))
          /\ AnswersLast'
      BY <1>1, <1>2, <2>2, ConsumeKeeps
    <3>3. CutFrames(Stream)'
      BY <3>2 DEF CutFrames, CutInFrame, Whole
    <3> QED
      BY <2>2, <3>1, <3>2, <3>3
  <2> QED
    BY <1>2, <2>1, <2>2, OwnStreamSteps
<1>6. PeerP!WInv(PeerLast)'
  <2>1. PICK v : v = PeerLast'
    OBVIOUS
  <2>2. PeerP!WInv(v)'
    <3>1. CASE v = u
      BY <1>2, <1>4, <3>1 DEF PeerKnows
    <3>2. CASE Stream' = <<>> /\ Whole(u)
      <4>1. v = [frame |-> NoFrame, part |-> 0]
        BY <2>1, <3>2 DEF PeerLast
      <4>2. PeerP!Whole(u) /\ PeerP!Whole(v)
        BY <3>2, <4>1, NothingWhole, SameData
      <4>3. PeerP!WInv(v)
        BY <1>2, <4>2, PeerP!WholeWInv, SameAssumptions
      <4> QED
        BY <1>2, <1>4, <4>3 DEF PeerKnows
    <3> QED
      BY <1>5, <2>1, <3>1, <3>2
  <2> QED
    BY <2>1, <2>2
<1>7. UnbindedQuiet'
  <2> SUFFICES ASSUME rx_ec' = "unbinded", result'.cmd = "unbind_resp"
               PROVE  rx' = "idle" /\ Stream' = <<>> /\ PeerP!AnswerWritten'
    BY DEF UnbindedQuiet
  <2>1. CASE Loop /\ FinishUnbind
    <3>1. /\ HasFrame /\ HeadFrame.cmd = "unbind_resp" /\ rx' = "idle"
          /\ ConsumesFrame
      BY <2>1 DEF FinishUnbind, RxComplete, ConsumesFrame, peerVars
    <3> QED
      BY <1>1, <1>2, <1>4, <3>1, ConsumeKeeps
  <2>2. CASE rx_ec = "unbinded" /\ UNCHANGED <<rx, rx_ec, result>>
    BY <1>2, <1>4, <1>5, <2>2 DEF UnbindedQuiet
  <2> QED
    BY <1>2, <2>1, <2>2, UnbindedFrom
<1> QED
  BY <1>3, <1>4, <1>5, <1>6, <1>7 DEF PairInv, PeerKnows
-----------------------------------------------------------------------------
(* The peer takes a step. *)

\* The peer hands over v.
LEMMA PeerWrites ==
  ASSUME PairInv, UNCHANGED own, NEW u, u = PeerLast,
         NEW v \in PeerUnit, v.part \in 1..Size(v.frame.cmd), Follows(v, u),
         inq' = Append(inq, v)
  PROVE  /\ CutFrames(Stream')
         /\ PeerLast' = v
         /\ Len(Stream') = Len(Stream) + 1
         /\ \A i \in 1..Len(Stream) : Stream'[i] = Stream[i]
         /\ Stream'[Len(Stream) + 1] = v
<1> DEFINE b == receive_buf \o received
<1>1. /\ receive_buf \in Seq(PeerUnit) /\ received \in Seq(PeerUnit)
      /\ inq \in Seq(PeerUnit) /\ Stream \in Seq(PeerUnit)
      /\ b \in Seq(PeerUnit)
      /\ Len(Stream) \in Nat
  BY StreamType, ConcatProperties, LenProperties DEF PairInv, SIInv, RxTypes
<1>2. UNCHANGED <<receive_buf, received>>
  BY DEF own, rxVars, rxState
<1>3. Stream' = b \o Append(inq, v) /\ Stream = b \o inq
  BY <1>2 DEF Stream
<1> HIDE DEF b
<1>4. /\ <<v>> \in Seq(PeerUnit)
      /\ Append(inq, v) = inq \o <<v>>
      /\ Append(Stream, v) = Stream \o <<v>>
  BY <1>1, AppendIsConcat, ElementOfSeq, EmptySeq
<1>5. Stream' = Append(Stream, v)
  BY <1>1, <1>3, <1>4, ConcatAssociative
<1>6. /\ Len(Stream') = Len(Stream) + 1
      /\ \A i \in 1..Len(Stream) : Stream'[i] = Stream[i]
      /\ Stream'[Len(Stream) + 1] = v
  BY <1>1, <1>5, AppendProperties
<1>7. PeerLast' = v
  <2>1. Stream' # <<>>
    <3>1. Len(Stream') # 0
      BY <1>1, <1>6
    <3> QED
      BY <3>1, EmptySeq
  <2> QED
    BY <1>6, <2>1 DEF PeerLast
<1>8. CutFrames(Stream')
  <2>1. Stream = <<>> => v.part = 1
    <3> SUFFICES ASSUME Stream = <<>> PROVE v.part = 1
      OBVIOUS
    <3>1. u = [frame |-> NoFrame, part |-> 0]
      BY DEF PeerLast
    <3> QED
      BY <3>1 DEF Follows
  <2>2. Stream # <<>> => Follows(v, Stream[Len(Stream)])
    BY DEF PeerLast
  <2>3. CutFrames(Stream)
    BY DEF PairInv
  <2> QED
    BY <1>1, <1>5, <2>1, <2>2, <2>3, AppendCut
<1> QED
  BY <1>6, <1>7, <1>8

\* What the peer hands over continues its stream, and an unbind_resp ends it.
LEMMA PeerStream ==
  ASSUME CancelPoints \cap {"writing", "written"} = {},
         PairInv, PeerP!OwnNext, UNCHANGED own, inq' \in Seq(PeerUnit)
  PROVE  /\ CutFrames(Stream)'
         /\ PeerP!WInv(PeerLast)'
         /\ AnswersLast'
         /\ PeerP!AnswerWritten => PeerP!AnswerWritten' /\ Stream' = Stream
<1>1. PICK u : u = PeerLast
  OBVIOUS
<1>2. /\ CutFrames(Stream) /\ AnswersLast /\ PeerP!WInv(u)
      /\ PeerP!SIInv /\ PeerP!Answerers
      /\ inq \in Seq(PeerUnit) /\ Len(inq) \in Nat
      /\ Stream \in Seq(PeerUnit) /\ Len(Stream) \in Nat
  BY <1>1, StreamType, LenProperties DEF PairInv, SIInv, RxTypes
<1>3. UNCHANGED <<receive_buf, received>>
  BY DEF own, rxVars, rxState
<1>4. PeerP!AnswerWritten => PeerP!AnswerWritten' /\ Stream' = Stream
  <2>1. PeerP!AnswerWritten => PeerP!AnswerWritten' /\ UNCHANGED inq
    BY <1>2, PeerP!NothingAfterAnswer, SameAssumptions
  <2> QED
    BY <1>3, <2>1 DEF Stream
<1>5. CASE UNCHANGED inq
  <2>1. Stream' = Stream /\ PeerLast' = u
    BY <1>1, <1>3, <1>5 DEF Stream, PeerLast
  <2>2. PeerP!WInv(u)'
    <3>1. PeerP!SenderStep
      BY <1>2, PeerP!SenderSteps, SameAssumptions DEF PeerP!SNext
    <3>2. \/ PeerP!HandsNothing(u)
          \/ \E v \in PeerP!Unit : PeerP!HandsOver(u, v)
      BY <1>2, <3>1, PeerP!SenderStepWInv, SameAssumptions
    <3>3. ASSUME NEW v \in PeerP!Unit, PeerP!HandsOver(u, v) PROVE FALSE
      <4>1. inq' = Append(inq, v) /\ inq \in Seq(Unit) /\ v \in Unit
        BY <1>2, <3>3, SameData DEF PeerP!HandsOver, PeerUnit
      <4>2. Len(inq') = Len(inq) + 1
        BY <4>1, AppendProperties
      <4> QED
        BY <1>2, <1>5, <4>2
    <3> QED
      BY <3>2, <3>3 DEF PeerP!HandsNothing
  <2>3. CutFrames(Stream)' /\ AnswersLast'
    BY <1>2, <1>4, <2>1 DEF CutFrames, CutInFrame, AnswersLast, Whole
  <2> QED
    BY <1>4, <2>1, <2>2, <2>3
<1>6. ASSUME NEW c \in Callers, PeerP!WriteSome(c), UNCHANGED PeerP!rxVars
      PROVE  /\ CutFrames(Stream)'
             /\ PeerP!WInv(PeerLast)'
             /\ AnswersLast'
  <2>1. PICK v \in PeerP!Unit :
          /\ v = [frame |-> peer_frame[c], part |-> peer_sent[c] + 1]
          /\ v.frame.cmd \in PeerP!Cmds
          /\ v.part \in 1..PeerP!Size(v.frame.cmd)
          /\ PeerP!HandsOver(u, v)
    BY <1>2, <1>6, PeerP!WriteSomeWInv, SameAssumptions
  <2>2. /\ v \in Unit /\ v.frame.cmd \in Cmds
        /\ v.part \in 1..Size(v.frame.cmd)
        /\ Follows(v, u) /\ inq' = Append(inq, v)
    BY <2>1, SameData DEF PeerP!HandsOver
  <2>3. /\ inq \in Seq(Unit)
        /\ Len(inq') = Len(inq) + 1
        /\ inq'[Len(inq) + 1] = v
    <3>1. inq \in Seq(Unit)
      BY <1>2 DEF PeerUnit
    <3> QED
      BY <2>2, <3>1, AppendProperties
  <2>4. v \in PeerUnit
    <3>1. Len(inq) + 1 \in 1..Len(inq')
      BY <1>2, <2>3
    <3> QED
      BY <2>3, <3>1, ElementOfSeq
  <2>5. /\ CutFrames(Stream')
        /\ PeerLast' = v
        /\ Len(Stream') = Len(Stream) + 1
        /\ \A i \in 1..Len(Stream) : Stream'[i] = Stream[i]
        /\ Stream'[Len(Stream) + 1] = v
    BY <1>1, <2>2, <2>4, PeerWrites
  <2>6. PeerP!WInv(PeerLast)'
    BY <2>1, <2>5 DEF PeerP!HandsOver
  <2>7. ~PeerP!AnswerWritten
    BY <1>2, <1>4, <2>5
  <2>8. AnswersLast'
    <3> SUFFICES ASSUME NEW i \in 1..Len(Stream'),
                        Stream'[i].frame.cmd = "unbind_resp", Whole(Stream'[i])
                 PROVE  i = Len(Stream') /\ PeerP!AnswerWritten'
      BY DEF AnswersLast, Whole
    <3>1. i \notin 1..Len(Stream)
      BY <1>2, <2>5, <2>7 DEF AnswersLast
    <3>2. i = Len(Stream')
      BY <1>2, <2>5, <3>1
    <3>3. Stream'[i] = v
      BY <2>5, <3>2
    <3>4. /\ peer_frame[c].cmd = "unbind_resp"
          /\ peer_sent[c] + 1 = PeerP!Size(peer_frame[c].cmd)
      BY <2>1, <3>3, SameData DEF Whole
    <3>5. PeerP!AnswerWritten'
      BY <1>2, <1>6, <3>4, PeerP!AnswerGetsWritten, SameAssumptions
    <3> QED
      BY <3>2, <3>5
  <2>9. CutFrames(Stream)'
    BY <2>5 DEF CutFrames, CutInFrame, Whole
  <2> QED
    BY <2>6, <2>8, <2>9
<1> QED
  BY <1>4, <1>5, <1>6, PeerP!OwnWire, SameAssumptions

LEMMA PeerStepPairInv ==
  ASSUME CancelPoints \cap {"writing", "written"} = {},
         "unbind_resp" \notin Menu,
         PairInv, Peer!OwnNext, UNCHANGED own
  PROVE  PairInv'
<1>1. PeerP!OwnNext
  BY SameOwnNext
<1>2. /\ SIInv /\ CommandsNumbered /\ UnbindedQuiet
      /\ PeerP!SIInv /\ PeerP!CommandsNumbered /\ PeerP!Answerers
      /\ inq \in Seq(PeerP!PeerUnit)
  BY SameData DEF PairInv, SIInv, RxTypes
<1>3. PeerP!SIInv' /\ PeerP!CommandsNumbered' /\ PeerP!Answerers'
  <2>1. PeerP!SNext
    BY <1>1 DEF PeerP!SNext
  <2>2. PeerP!SenderStep
    BY <1>2, <2>1, PeerP!SenderSteps, SameAssumptions
  <2>3. PeerP!SIInv'
    BY <1>2, <2>1, PeerP!SNextSIInv, SameAssumptions
  <2>4. PeerP!CommandsNumbered'
    BY <1>2, <2>2, PeerP!SenderStepNumbered, SameAssumptions DEF PeerP!SIInv
  <2>5. PeerP!Answerers'
    BY <1>1, <1>2, PeerP!OwnAnswerers, SameAssumptions
  <2> QED
    BY <2>3, <2>4, <2>5
<1>4. inq' \in Seq(PeerUnit)
  <2>1. inq' \in Seq(PeerP!PeerUnit)
    BY <1>1, <1>2, PeerP!OwnUnits, SameAssumptions
  <2> QED
    BY <2>1, SameData
<1>5. UNCHANGED <<sendVars, rxVars, last_read, peerVars, socket>>
  <2>1. UNCHANGED <<last_read, PeerP!peerVars>>
    BY <1>1, PeerP!OwnWire, SameAssumptions
  <2> QED
    BY <2>1 DEF own, peerVars, PeerP!peerVars
<1>6. SIInv'
  <2>1. wire' \in Seq(Unit)
    <3>1. wire' \in Seq(PeerP!PeerUnit)
      BY <1>3 DEF PeerP!SIInv, PeerP!RxTypes
    <3> QED
      BY <3>1, SameData DEF PeerUnit
  <2> QED
    BY <1>2, <1>4, <1>5, <2>1, SurroundingsSIInv
<1>7. /\ CutFrames(Stream)' /\ PeerP!WInv(PeerLast)' /\ AnswersLast'
      /\ PeerP!AnswerWritten => PeerP!AnswerWritten' /\ Stream' = Stream
  BY <1>1, <1>4, PeerStream
<1>8. CommandsNumbered' /\ UnbindedQuiet'
  BY <1>2, <1>5, <1>7
  DEF CommandsNumbered, UnbindedQuiet, sendVars, opVars, rxVars, rxState
<1> QED
  BY <1>3, <1>6, <1>7, <1>8 DEF PairInv
-----------------------------------------------------------------------------
(* Theorems. *)

LEMMA PInitPairInv == PInit => PairInv
<1> SUFFICES ASSUME PInit PROVE PairInv
  OBVIOUS
<1>1. SInit /\ PeerP!SInit
  BY SameInit DEF PInit
<1>2. SIInv
  BY <1>1, SInitSIInv
<1>3. PeerP!SIInv
  BY <1>1, PeerP!SInitSIInv, SameAssumptions
<1>4. CommandsNumbered
  BY <1>1 DEF SInit, Init, CommandsNumbered, NoFrame, RxCommands
<1>5. PeerP!CommandsNumbered /\ PeerP!Answerers
  BY <1>1, SameAssumptions
  DEF PeerP!SInit, PeerP!Init, PeerP!CommandsNumbered, PeerP!Answerers,
      PeerP!NoFrame, PeerP!RxCommands, PeerP!SessionAssumption
<1>6. Stream = <<>> /\ Len(Stream) = 0
  BY <1>1, ConcatEmptySeq, EmptySeq DEF SInit, Stream
<1>7. CutFrames(Stream) /\ AnswersLast
  BY <1>6 DEF CutFrames, AnswersLast
<1>8. PeerP!WInv(PeerLast)
  <2>1. PICK u : u = PeerLast
    OBVIOUS
  <2>2. PeerP!Whole(u)
    BY <1>6, <2>1, NothingWhole, SameData DEF PeerLast
  <2>3. PeerP!Init
    BY <1>1 DEF PeerP!SInit
  <2> QED
    BY <2>1, <2>2, <2>3, PeerP!InitWInv, SameAssumptions
<1>9. UnbindedQuiet
  BY <1>1 DEF SInit, UnbindedQuiet
<1> QED
  BY <1>2, <1>3, <1>4, <1>5, <1>7, <1>8, <1>9 DEF PairInv

LEMMA PNextPairInv ==
  ASSUME CancelPoints \cap {"writing", "written"} = {},
         "unbind_resp" \notin Menu,
         PairInv, [PNext]_pairVars
  PROVE  PairInv'
<1>1. CASE OwnNext /\ UNCHANGED peerOwn
  BY <1>1, OwnStepPairInv
<1>2. CASE Peer!OwnNext /\ UNCHANGED own
  BY <1>2, PeerStepPairInv
<1>3. CASE Disconnected
  BY <1>3, OnlySocketsEnd DEF Disconnected, peerOwn
<1>4. CASE PeerDisconnected
  BY <1>4, OnlySocketsEnd DEF PeerDisconnected, own
<1>5. CASE UNCHANGED pairVars
  BY <1>5, OnlySocketsEnd DEF pairVars, own, peerOwn
<1> QED
  BY <1>1, <1>2, <1>3, <1>4, <1>5 DEF PNext

LEMMA PairInvHolds ==
  ASSUME CancelPoints \cap {"writing", "written"} = {},
         "unbind_resp" \notin Menu
  PROVE  PSpec => []PairInv
BY PInitPairInv, PNextPairInv, PTL DEF PSpec

\* The answer to an unbind is the last that a session writes and the last that
\* the other consumes: for every number of callers, every length of frames and
\* whatever times out or is cancelled before it is written, an async_receive
\* that ends with unbinded because the unbind was answered has received
\* everything (the branches for unbind and unbind_resp in receive_op).
THEOREM NothingLostInUnbind ==
  ASSUME CancelPoints \cap {"writing", "written"} = {},
         "unbind_resp" \notin Menu
  PROVE  PSpec => []UnbindLosesNothing
<1>1. PairInv => UnbindLosesNothing
  <2> SUFFICES ASSUME PairInv, rx_ec = "unbinded", result.cmd = "unbind_resp"
               PROVE  /\ inq = <<>> /\ receive_buf = <<>>
                      /\ \/ peer_rx = "sending"
                            /\ peer_frame[Rx].cmd = "unbind_resp"
                         \/ PeerEnded /\ peer_rx_ec = "unbinded"
    BY DEF UnbindLosesNothing
  <2>1. Stream = <<>> /\ PeerP!AnswerWritten
    BY DEF PairInv, UnbindedQuiet
  <2>2. /\ receive_buf \in Seq(PeerUnit) /\ Len(receive_buf) \in Nat
        /\ received \o inq \in Seq(PeerUnit)
        /\ received \in Seq(PeerUnit) /\ Len(received) \in Nat
        /\ inq \in Seq(PeerUnit) /\ Len(inq) \in Nat
        /\ Stream = receive_buf \o (received \o inq)
    BY StreamType DEF PairInv, SIInv
  <2>3. /\ Len(Stream) = Len(receive_buf) + Len(received \o inq)
        /\ Len(received \o inq) = Len(received) + Len(inq)
        /\ Len(Stream) = 0
    <3>1. Len(received \o inq) = Len(received) + Len(inq)
      BY <2>2, ConcatProperties
    <3>2. Len(receive_buf \o (received \o inq))
            = Len(receive_buf) + Len(received \o inq)
      BY <2>2, ConcatProperties
    <3>3. Len(Stream) = 0
      BY <2>1, EmptySeq
    <3> QED
      BY <2>2, <3>1, <3>2, <3>3
  <2>4. Len(inq) = 0 /\ Len(receive_buf) = 0
    BY <2>2, <2>3
  <2>5. inq = <<>> /\ receive_buf = <<>>
    BY <2>2, <2>4, EmptySeq
  <2> QED
    BY <2>1, <2>5 DEF PeerP!AnswerWritten, PeerEnded
<1> QED
  BY <1>1, PairInvHolds, PTL

\* What one sending half keeps whole is what receive_op at the other end relies
\* on to find its headers: between two sessions the buffer always begins with
\* the first unit of a frame, and every unit after it continues the one before,
\* although a write may time out within a frame.
THEOREM PairStreamInSync ==
  ASSUME CancelPoints \cap {"writing", "written"} = {},
         "unbind_resp" \notin Menu
  PROVE  PSpec => []StreamInSync
<1>1. PairInv => StreamInSync
  <2> SUFFICES ASSUME PairInv PROVE StreamInSync
    OBVIOUS
  <2>1. Stream \in Seq(PeerUnit) /\ CutFrames(Stream)
    BY StreamType DEF PairInv, SIInv
  <2>2. /\ Stream # <<>> => Stream[1].part = 1
        /\ \A i \in 1..Len(Stream) - 1 : Follows(Stream[i + 1], Stream[i])
    BY <2>1, CutInSync
  <2> QED
    BY <2>2 DEF StreamInSync, Stream
<1> QED
  BY <1>1, PairInvHolds, PTL
=============================================================================
