-------------------------- MODULE FlatBufferProofs --------------------------
(* Theorems about the receive buffer of a session. *)
EXTENDS FlatBuffer, SequenceTheorems, TLAPS

USE FlatBufferAssumption

LEMMA InitInBounds == Init => InBounds
BY DEF Init, InBounds

\* The smaller of two numbers, as FiniteSetsExt defines it.
LEMMA MinOfTwo ==
  ASSUME NEW a \in Int, NEW b \in Int, a <= b
  PROVE  Min({a, b}) = a
<1>1. \A y \in {a, b} : a <= y
  OBVIOUS
<1>2. \A x \in {a, b} : (\A y \in {a, b} : x <= y) => x = a
  OBVIOUS
<1> QED
  BY <1>1, <1>2 DEF Min

LEMMA PrepareInBounds ==
  ASSUME InBounds, NEW n \in 0..Cap, Prepare(n)
  PROVE  InBounds'
<1>1. /\ in \in Int /\ out \in Int /\ size = out - in /\ size \in 0..Cap
      /\ buf \in [0..Cap - 1 -> Bytes]
  BY DEF InBounds, size
<1>2. CASE n <= Cap - out
  BY <1>1, <1>2 DEF InBounds, Prepare
<1>3. CASE ~(n <= Cap - out)
  <2>1. MovedToFront \in [0..Cap - 1 -> Bytes]
    BY <1>1 DEF MovedToFront, InBounds
  <2> QED
    BY <1>1, <1>3, <2>1 DEF InBounds, Prepare
<1> QED
  BY <1>2, <1>3

LEMMA ReadSomeInBounds ==
  ASSUME InBounds, NEW n \in 1..Cap, NEW s \in [1..n -> Bytes], ReadSome(s)
  PROVE  InBounds'
<1>1. Len(s) = n /\ n <= last - out
  BY DEF ReadSome
<1>2. buf' \in [0..Cap - 1 -> Bytes]
  BY <1>1 DEF ReadSome, InBounds
<1> QED
  BY <1>1, <1>2 DEF ReadSome, InBounds

\* What commit adds is what was read.
LEMMA CommitAll ==
  ASSUME InBounds, NEW n \in 0..Cap, Commit(n)
  PROVE  out' = out + n
<1>1. n \in Int /\ last - out \in Int /\ n <= last - out
  BY DEF InBounds, Commit
<1> QED
  BY <1>1, MinOfTwo DEF Commit

LEMMA NextInBounds == InBounds /\ [Next]_vars => InBounds'
<1> SUFFICES ASSUME InBounds, [Next]_vars PROVE InBounds'
  OBVIOUS
<1>1. ASSUME NEW n \in 0..Cap, Prepare(n) PROVE InBounds'
  BY <1>1, PrepareInBounds
<1>2. ASSUME NEW n \in 0..Cap, Commit(n) PROVE InBounds'
  <2>1. out' = out + n
    BY <1>2, CommitAll
  <2> QED
    BY <1>2, <2>1 DEF Commit, InBounds
<1>3. ASSUME NEW n \in 0..Cap, Consume(n) PROVE InBounds'
  BY <1>3 DEF Consume, InBounds, size
<1>4. ASSUME NEW n \in 1..Cap, NEW s \in [1..n -> Bytes], ReadSome(s)
      PROVE  InBounds'
  BY <1>4, ReadSomeInBounds
<1>5. CASE Clear
  BY <1>5 DEF Clear, InBounds
<1>6. CASE Move
  BY <1>6 DEF Move, InBounds
<1>7. CASE UNCHANGED vars
  BY <1>7 DEF vars, InBounds
<1> QED
  BY <1>1, <1>2, <1>3, <1>4, <1>5, <1>6, <1>7 DEF Next

\* No sequence of the operations of the receive buffer moves, reads or exposes
\* memory outside of the array, for an array of any size.
THEOREM BufferInBounds == Spec => []InBounds
BY InitInBounds, NextInBounds, PTL DEF Spec
-----------------------------------------------------------------------------
(* The buffer implements a queue of bytes. *)

\* The contents are a sequence of bytes that is as long as size() says.
ContentsOK ==
  /\ Contents \in Seq(Bytes)
  /\ Len(Contents) = size
  /\ size \in 0..Cap
  /\ \A i \in 1..size : Contents[i] = buf[in + i - 1]

LEMMA ContentsType == InBounds => ContentsOK
<1> SUFFICES ASSUME InBounds PROVE ContentsOK
  OBVIOUS
<1>1. in \in Int /\ out \in Int /\ size = out - in /\ size \in 0..Cap
  BY DEF InBounds, size
<1>2. \A i \in 1..size : in + i - 1 \in 0..Cap - 1
  BY <1>1 DEF InBounds
<1>3. Contents \in [1..size -> Bytes]
  BY <1>1, <1>2 DEF Contents, InBounds
<1>4. \A i \in 1..size : Contents[i] = buf[in + i - 1]
  BY DEF Contents
<1> HIDE DEF Contents
<1>5. Contents \in Seq(Bytes) /\ Len(Contents) = size
  BY <1>1, <1>3
<1> QED
  BY <1>1, <1>4, <1>5 DEF ContentsOK

\* memmove shows in no byte of the contents.
LEMMA PrepareStutters ==
  ASSUME InBounds, NEW n \in 0..Cap, Prepare(n)
  PROVE  Contents' = Contents
<1>1. in \in Int /\ out \in Int /\ size = out - in /\ size \in 0..Cap
  BY DEF InBounds, size
<1>2. CASE n <= Cap - out
  BY <1>2 DEF Prepare, Contents, size
<1>3. CASE ~(n <= Cap - out)
  <2>1. in' = 0 /\ out' = size /\ buf' = MovedToFront
    BY <1>3 DEF Prepare
  <2>2. size' = size
    BY <1>1, <2>1 DEF size
  <2>3. \A i \in 1..size : buf'[in' + i - 1] = buf[in + i - 1]
    BY <1>1, <2>1 DEF MovedToFront
  <2> QED
    BY <2>2, <2>3 DEF Contents
<1> QED
  BY <1>2, <1>3

\* A read stores its bytes behind the contents.
LEMMA ReadSomeStutters ==
  ASSUME InBounds, NEW n \in 1..Cap, NEW s \in [1..n -> Bytes], ReadSome(s)
  PROVE  Contents' = Contents
<1>1. in \in Int /\ out \in Int /\ size = out - in /\ size \in 0..Cap
  BY DEF InBounds, size
<1>2. in' = in /\ out' = out /\ size' = size
  BY DEF ReadSome, size
<1>3. \A i \in 1..size : buf'[in' + i - 1] = buf[in + i - 1]
  BY <1>1, <1>2 DEF ReadSome, InBounds
<1> QED
  BY <1>2, <1>3 DEF Contents

\* commit appends what the read has stored.
LEMMA CommitPuts ==
  ASSUME InBounds, NEW n \in 0..Cap, Commit(n)
  PROVE  Queue!Next \/ UNCHANGED Contents
<1> DEFINE s == [i \in 1..n |-> buf[out + i - 1]]
<1>1. /\ in \in Int /\ out \in Int /\ n \in Nat
      /\ size = out - in /\ size \in 0..Cap
      /\ out + n <= Cap
  BY DEF InBounds, Commit, size
<1>2. out' = out + n /\ in' = in /\ buf' = buf
  BY CommitAll DEF Commit
<1>3. size' = size + n
  BY <1>1, <1>2 DEF size
<1>4. CASE n = 0
  BY <1>1, <1>2, <1>3, <1>4 DEF Contents
<1>5. CASE n # 0
  <2>1. \A i \in 1..n : out + i - 1 \in 0..Cap - 1
    BY <1>1 DEF InBounds
  <2>2. s \in [1..n -> Bytes]
    BY <2>1 DEF InBounds
  <2>3. s \in Seq(Bytes) /\ Len(s) = n
    BY <1>1, <2>2
  <2>4. /\ Contents \in Seq(Bytes) /\ Len(Contents) = size
        /\ Contents' \in Seq(Bytes) /\ Len(Contents') = size'
        /\ \A i \in 1..size : Contents[i] = buf[in + i - 1]
        /\ \A i \in 1..size' : Contents'[i] = buf'[in' + i - 1]
    <3>1. InBounds'
      BY NextInBounds DEF Next
    <3>2. ContentsOK'
      BY <3>1, ContentsType, PTL
    <3> QED
      BY <3>2, ContentsType DEF ContentsOK
  <2>5. Contents' = Contents \o s
    <3> DEFINE t == Contents \o s
    <3>1. /\ t \in Seq(Bytes)
          /\ Len(t) = size + n
          /\ \A i \in 1..size + n :
               t[i] = IF i <= size THEN Contents[i] ELSE s[i - size]
      <4> HIDE DEF s
      <4>1. /\ t \in Seq(Bytes)
            /\ Len(t) = Len(Contents) + Len(s)
            /\ \A i \in 1..Len(Contents) + Len(s) :
                 t[i] = IF i <= Len(Contents) THEN Contents[i]
                                              ELSE s[i - Len(Contents)]
        BY <2>3, <2>4, ConcatProperties
      <4> QED
        BY <2>3, <2>4, <4>1, Zenon
    <3> HIDE DEF t
    <3>2. ASSUME NEW i \in 1..size + n
          PROVE  Contents'[i] = t[i]
      <4>1. Contents'[i] = buf[in + i - 1]
        BY <1>2, <1>3, <2>4
      <4>2. CASE i <= size
        <5>1. i \in 1..size
          BY <1>1, <4>2
        <5>2. Contents[i] = buf[in + i - 1]
          BY <2>4, <5>1
        <5> QED
          BY <3>1, <4>1, <4>2, <5>2
      <4>3. CASE ~(i <= size)
        <5>1. i - size \in 1..n /\ out + (i - size) - 1 = in + i - 1
          BY <1>1, <4>3
        <5>2. s[i - size] = buf[in + i - 1]
          BY <5>1
        <5> HIDE DEF s
        <5> QED
          BY <3>1, <4>1, <4>3, <5>2
      <4> QED
        BY <4>2, <4>3
    <3>3. Contents' \in Seq(Bytes) /\ Len(Contents') = Len(t)
      BY <1>3, <2>4, <3>1
    <3>4. \A i \in 1..Len(Contents') : Contents'[i] = t[i]
      BY <1>3, <2>4, <3>2
    <3> QED
      BY <3>1, <3>3, <3>4, SeqEqual, Zenon DEF t
  <2>6. n \in 1..Cap - Len(Contents)
    BY <1>1, <1>5, <2>4 DEF InBounds
  <2> HIDE DEF s
  <2> QED
    BY <2>2, <2>5, <2>6 DEF Queue!Next, Queue!Put
<1> QED
  BY <1>4, <1>5

\* consume drops a prefix.
LEMMA ConsumeDrops ==
  ASSUME InBounds, NEW n \in 0..Cap, Consume(n)
  PROVE  Queue!Next \/ UNCHANGED Contents
<1>1. /\ in \in Int /\ out \in Int /\ n \in Nat
      /\ size = out - in /\ size \in 0..Cap
  BY DEF InBounds, size
<1>2. ContentsOK
  BY ContentsType
<1>3. ContentsOK'
  <2>1. InBounds'
    BY NextInBounds DEF Next
  <2> QED
    BY <2>1, ContentsType, PTL
<1>4. CASE n = 0 \/ size = 0
  <2>1. size' = size /\ \A i \in 1..size : in' + i - 1 = in + i - 1
    BY <1>1, <1>4 DEF Consume, size
  <2> QED
    BY <2>1 DEF Consume, Contents
<1>5. CASE n # 0 /\ size # 0
  <2> DEFINE m == IF n >= size THEN size ELSE n
             t == SubSeq(Contents, m + 1, Len(Contents))
  <2>1. m \in 1..size /\ m \in Int
    BY <1>1, <1>5
  <2>2. /\ size' = size - m
        /\ buf' = buf
        /\ \A i \in 1..size - m : in' + i - 1 = in + (m + i) - 1
    BY <1>1, <1>5 DEF Consume, size
  <2> HIDE DEF m
  <2>3. /\ t \in Seq(Bytes)
        /\ Len(t) = size - m
        /\ \A i \in 1..size - m : t[i] = Contents[m + i]
    <3>1. /\ m + 1 \in Int /\ Len(Contents) \in Int
          /\ \A i \in m + 1..Len(Contents) : Contents[i] \in Bytes
      <4>1. Len(Contents) = size /\ Contents \in Seq(Bytes)
        BY <1>2 DEF ContentsOK
      <4>2. \A i \in 1..Len(Contents) : Contents[i] \in Bytes
        BY <4>1, ElementOfSeq
      <4> QED
        BY <1>1, <2>1, <4>1, <4>2
    <3>2. /\ t \in Seq(Bytes)
          /\ Len(t) = IF m + 1 <= Len(Contents)
                      THEN Len(Contents) - (m + 1) + 1 ELSE 0
          /\ \A i \in 1..Len(Contents) - (m + 1) + 1 :
               t[i] = Contents[m + 1 + i - 1]
      BY <3>1, SubSeqProperties
    <3>3. Len(Contents) = size
      BY <1>2 DEF ContentsOK
    <3>4. Len(t) = size - m
      BY <1>1, <2>1, <3>2, <3>3
    <3>5. ASSUME NEW i \in 1..size - m PROVE t[i] = Contents[m + i]
      <4>1. m + 1 + i - 1 = m + i /\ i \in 1..size - (m + 1) + 1
        BY <1>1, <2>1
      <4> HIDE DEF t
      <4> QED
        BY <3>2, <3>3, <4>1
    <3> QED
      BY <3>2, <3>4, <3>5
  <2> HIDE DEF t
  <2>4. ASSUME NEW i \in 1..size - m
        PROVE  Contents'[i] = t[i]
    <3>1. m + i \in 1..size
      BY <1>1, <2>1
    <3>2. Contents[m + i] = buf[in + (m + i) - 1]
      BY <1>2, <3>1 DEF ContentsOK
    <3>3. Contents'[i] = buf'[in' + i - 1]
      BY <1>3, <2>2 DEF ContentsOK
    <3> QED
      BY <2>2, <2>3, <3>2, <3>3
  <2>5. Contents' = t
    <3>1. Contents' \in Seq(Bytes) /\ Len(Contents') = size - m
      BY <1>3, <2>2 DEF ContentsOK
    <3> QED
      BY <2>3, <2>4, <3>1, SeqEqual
  <2>6. m \in 1..Len(Contents)
    BY <1>2, <2>1 DEF ContentsOK
  <2> QED
    BY <2>5, <2>6 DEF t, Queue!Next, Queue!Drop
<1> QED
  BY <1>4, <1>5

LEMMA ClearDrops ==
  ASSUME InBounds, Clear
  PROVE  Queue!Next \/ UNCHANGED Contents
<1>1. ContentsOK
  BY ContentsType
<1>2. size' = 0
  BY DEF Clear, size
<1>3. Contents' = <<>>
  BY <1>2 DEF Contents
<1>4. CASE size = 0
  BY <1>3, <1>4 DEF Contents
<1>5. CASE size # 0
  <2>1. size \in 1..Len(Contents) /\ Len(Contents) = size
    BY <1>1, <1>5 DEF ContentsOK
  <2>2. SubSeq(Contents, size + 1, Len(Contents)) = <<>>
    BY <2>1, SubSeqEmpty
  <2> QED
    BY <1>3, <2>1, <2>2 DEF Queue!Next, Queue!Drop
<1> QED
  BY <1>4, <1>5

LEMMA InitEmptyQueue == Init => Queue!Init
<1> SUFFICES ASSUME Init PROVE Contents = <<>>
  BY DEF Queue!Init
<1>1. size = 0
  BY DEF Init, size
<1> QED
  BY <1>1 DEF Contents

LEMMA NextIsQueueStep ==
  InBounds /\ [Next]_vars => [Queue!Next]_Contents
<1> SUFFICES ASSUME InBounds, [Next]_vars
             PROVE  Queue!Next \/ UNCHANGED Contents
  OBVIOUS
<1>1. ASSUME NEW n \in 0..Cap, Prepare(n) PROVE UNCHANGED Contents
  BY <1>1, PrepareStutters
<1>2. ASSUME NEW n \in 0..Cap, Commit(n)
      PROVE  Queue!Next \/ UNCHANGED Contents
  BY <1>2, CommitPuts
<1>3. ASSUME NEW n \in 0..Cap, Consume(n)
      PROVE  Queue!Next \/ UNCHANGED Contents
  BY <1>3, ConsumeDrops
<1>4. ASSUME NEW n \in 1..Cap, NEW s \in [1..n -> Bytes], ReadSome(s)
      PROVE  UNCHANGED Contents
  BY <1>4, ReadSomeStutters
<1>5. CASE Clear
  BY <1>5, ClearDrops
<1>6. CASE Move \/ UNCHANGED vars
  BY <1>6 DEF Move, vars, Contents, size
<1> QED
  BY <1>1, <1>2, <1>3, <1>4, <1>5, <1>6 DEF Next

\* static_flat_buffer implements a FIFO queue of bytes: whatever is prepared,
\* moved to the front, committed and consumed, and for an array of any size,
\* receive_op sees the bytes of the stream once and in order.
THEOREM BufferIsByteQueue == Spec => IsByteQueue
<1>1. Spec => []InBounds
  BY BufferInBounds
<1> QED
  BY <1>1, InitEmptyQueue, NextIsQueueStep, PTL
  DEF Spec, IsByteQueue, Queue!Spec
=============================================================================
