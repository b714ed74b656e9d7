------------------------ MODULE SessionStreamProofs ------------------------
(* Theorems about the stream that receive_op takes frames from.            *)
EXTENDS SessionProofs

\* Unit i of s stands in its frame, which is there from its first unit to its
\* last and is followed by the beginning of another.
InFrame(s, i) ==
  LET u == s[i]
  IN  /\ u.part \in 1..Size(u.frame.cmd)
      /\ \A k \in 1..Size(u.frame.cmd) :
           /\ i - u.part + k \in 1..Len(s)
           /\ s[i - u.part + k] = [frame |-> u.frame, part |-> k]
      /\ i < Len(s) /\ Whole(u) => s[i + 1].part = 1

WholeFrames(s) == \A i \in 1..Len(s) : InFrame(s, i)

\* s holds the peer's own frames with the numbers after lo up to hi, in order.
Counts(u) == u.frame.cmd \in Numbered

InOrder(s, lo, hi) ==
  /\ lo <= hi
  /\ \A i \in 1..Len(s) : Counts(s[i]) => s[i].frame.seq \in lo + 1..hi
  /\ \A i, j \in 1..Len(s) :
       i < j /\ Counts(s[i]) /\ Counts(s[j]) /\ s[j].part = 1 =>
         s[i].frame.seq < s[j].frame.seq
  /\ \A n \in lo + 1..hi : \E i \in 1..Len(s) :
       Counts(s[i]) /\ s[i].part = 1 /\ s[i].frame.seq = n

\* StreamInSync is not inductive: what follows a frame that is consumed is only
\* known to begin a frame when all of the frame is there.
StreamInv ==
  /\ WholeFrames(Stream)
  /\ InOrder(Stream, consumed, peer_seq)

-----------------------------------------------------------------------------
(* Sequences of whole frames. *)

LEMMA PeerUnitType ==
  ASSUME NEW u \in PeerUnit
  PROVE  /\ u.part \in Nat
         /\ u.frame \in Frame
         /\ u.frame.seq \in Nat
         /\ Size(u.frame.cmd) \in Nat \ {0}
         /\ Whole(u) <=> u.part = Size(u.frame.cmd)
<1>1. /\ u.part \in Nat /\ u.frame \in Frame /\ u.frame.seq \in 0..MaxSeq
      /\ u.frame.cmd \in Cmds
  BY DEF PeerUnit, Unit, Frame
<1> QED
  BY <1>1, SizeType DEF Whole

\* The first frame of a stream.
LEMMA HeadWhole ==
  ASSUME NEW s \in Seq(PeerUnit), s # <<>>, WholeFrames(s)
  PROVE  /\ s[1].part = 1
         /\ Size(s[1].frame.cmd) \in 1..Len(s)
         /\ \A k \in 1..Size(s[1].frame.cmd) :
              s[k] = [frame |-> s[1].frame, part |-> k]
<1>1. Len(s) \in Nat \ {0} /\ 1 \in 1..Len(s)
  BY EmptySeq
<1>2. s[1] \in PeerUnit
  BY <1>1, ElementOfSeq
<1> DEFINE n == Size(s[1].frame.cmd)
<1>3. n \in Nat \ {0} /\ s[1].part \in Nat
  BY <1>2, PeerUnitType
<1>4. /\ s[1].part \in 1..n
      /\ \A k \in 1..n :
           /\ 1 - s[1].part + k \in 1..Len(s)
           /\ s[1 - s[1].part + k] = [frame |-> s[1].frame, part |-> k]
  BY <1>1 DEF WholeFrames, InFrame
<1> HIDE DEF n
<1>5. 1 \in 1..n /\ n \in 1..n
  BY <1>3
<1>6. 1 - s[1].part + 1 \in 1..Len(s)
  BY <1>4, <1>5
<1>7. s[1].part = 1
  BY <1>3, <1>4, <1>6
<1>8. \A k \in 1..n : 1 - s[1].part + k = k
  BY <1>7
<1>9. \A k \in 1..n : k \in 1..Len(s) /\ s[k] = [frame |-> s[1].frame, part |-> k]
  BY <1>4, <1>8
<1>10. n \in 1..Len(s)
  BY <1>5, <1>9
<1> QED
  BY <1>7, <1>9, <1>10 DEF n

\* What remains when the first frame is consumed.
LEMMA DropWhole ==
  ASSUME NEW s \in Seq(PeerUnit), s # <<>>, WholeFrames(s),
         NEW n, n = Size(s[1].frame.cmd)
  PROVE  WholeFrames(SubSeq(s, n + 1, Len(s)))
<1> DEFINE t == SubSeq(s, n + 1, Len(s))
<1>1. /\ n \in 1..Len(s) /\ n \in 0..Len(s) /\ Len(s) \in Nat /\ n \in Nat
      /\ \A k \in 1..n : s[k] = [frame |-> s[1].frame, part |-> k]
  BY HeadWhole, LenProperties
<1>2. /\ Len(t) = Len(s) - n
      /\ \A i \in 1..Len(s) - n : t[i] = s[n + i]
  <2>1. n \in 0..Len(s)
    BY <1>1
  <2> QED
    BY <2>1, DropType
<1> HIDE DEF t
<1>3. ASSUME NEW i \in 1..Len(t) PROVE InFrame(t, i)
  <2> DEFINE u == s[n + i]
             m == Size(u.frame.cmd)
  <2>1. n + i \in 1..Len(s) /\ i \in 1..Len(s) - n /\ i \in Nat
    BY <1>1, <1>2
  <2>2. t[i] = u
    BY <1>2, <2>1
  <2>3. u \in PeerUnit
    BY <2>1, ElementOfSeq
  <2>4. InFrame(s, n + i)
    BY <2>1 DEF WholeFrames
  <2>5. /\ u.part \in 1..m
        /\ \A k \in 1..m :
             /\ (n + i) - u.part + k \in 1..Len(s)
             /\ s[(n + i) - u.part + k] = [frame |-> u.frame, part |-> k]
        /\ n + i < Len(s) /\ Whole(u) => s[(n + i) + 1].part = 1
    BY <2>4, Zenon DEF InFrame
  <2>6. m \in Nat \ {0} /\ u.part \in Nat
    BY <2>3, PeerUnitType
  <2> HIDE DEF u, m
  <2>7. (n + i) - u.part + 1 > n
    <3> SUFFICES ASSUME ~((n + i) - u.part + 1 > n) PROVE FALSE
      OBVIOUS
    <3> DEFINE j == (n + i) - u.part + 1
    <3>1. 1 \in 1..m
      BY <2>6
    <3>2. j \in 1..Len(s) /\ s[j] = [frame |-> u.frame, part |-> 1]
      BY <2>5, <3>1
    <3>3. j \in 1..n
      BY <1>1, <2>1, <2>6, <3>2
    <3>4. s[j] = [frame |-> s[1].frame, part |-> j]
      BY <1>1, <3>3
    <3> HIDE DEF j
    <3>5. j = 1 /\ u.frame = s[1].frame
      BY <3>2, <3>4
    <3>6. m = n
      BY <3>5 DEF m
    <3>7. u.part \in 1..n
      BY <2>5, <3>6
    <3>8. (n + i) - u.part + 1 = 1
      BY <3>5 DEF j
    <3> QED
      BY <1>1, <2>1, <3>7, <3>8
  <2>8. ASSUME NEW k \in 1..m
        PROVE  /\ i - u.part + k \in 1..Len(t)
               /\ t[i - u.part + k] = [frame |-> u.frame, part |-> k]
    <3>1. /\ (n + i) - u.part + k \in 1..Len(s)
          /\ s[(n + i) - u.part + k] = [frame |-> u.frame, part |-> k]
      BY <2>5
    <3>2. /\ i - u.part + k \in 1..Len(s) - n
          /\ n + (i - u.part + k) = (n + i) - u.part + k
      <4>1. n \in Nat /\ i \in Nat /\ u.part \in Nat /\ k \in Nat /\ k >= 1
        BY <1>1, <2>1, <2>6
      <4>2. Len(s) \in Nat /\ (n + i) - u.part + k <= Len(s)
        BY <1>1, <3>1
      <4> DEFINE p == u.part
      <4>3. /\ n \in Int /\ i \in Int /\ p \in Int /\ k \in Int /\ k >= 1
            /\ Len(s) \in Int
            /\ (n + i) - p + 1 > n /\ (n + i) - p + k <= Len(s)
        BY <2>7, <4>1, <4>2
      <4> HIDE DEF p
      <4>4. i - p + k >= 1 /\ i - p + k <= Len(s) - n
        BY <4>3
      <4>5. n + (i - p + k) = (n + i) - p + k
        BY <4>3
      <4>6. i - p + k \in 1..Len(s) - n
        BY <4>3, <4>4
      <4> QED
        BY <4>5, <4>6 DEF p
    <3>3. t[i - u.part + k] = s[n + (i - u.part + k)]
      BY <1>2, <3>2
    <3> QED
      BY <1>2, <3>1, <3>2, <3>3
  <2>9. ASSUME i < Len(t), Whole(u) PROVE t[i + 1].part = 1
    <3>1. /\ i + 1 \in 1..Len(s) - n /\ n + i < Len(s)
          /\ n + (i + 1) = (n + i) + 1
      BY <1>1, <1>2, <2>1, <2>9
    <3> QED
      BY <1>2, <2>5, <2>9, <3>1
  <2> QED
    BY <2>2, <2>5, <2>8, <2>9, Zenon DEF InFrame, m
<1> QED
  BY <1>3 DEF WholeFrames, t

\* What the peer sends is appended.
LEMMA AppendWhole ==
  ASSUME NEW s \in Seq(PeerUnit), WholeFrames(s), NEW f \in Frame,
         f.cmd \in Cmds, f.cmd \in RxCommands => f.seq # 0
  PROVE  WholeFrames(s \o UnitsOf(f))
<1> DEFINE r == UnitsOf(f)
           t == s \o r
           n == Size(f.cmd)
<1>1. /\ r \in Seq(PeerUnit) /\ Len(r) = n /\ n \in Nat \ {0}
      /\ Len(s) \in Nat
      /\ \A i \in 1..n : r[i] = [frame |-> f, part |-> i]
  BY UnitsOfType, SizeType, LenProperties
<1> HIDE DEF r, n
<1>2. /\ Len(t) = Len(s) + n
      /\ \A i \in 1..Len(s) + n :
           t[i] = IF i <= Len(s) THEN s[i] ELSE r[i - Len(s)]
  <2>1. r \in Seq(PeerUnit) /\ Len(r) = n
    BY <1>1
  <2>2. /\ Len(t) = Len(s) + Len(r)
        /\ \A i \in 1..Len(s) + Len(r) :
             t[i] = IF i <= Len(s) THEN s[i] ELSE r[i - Len(s)]
    BY <2>1, ConcatProperties
  <2> QED
    BY <2>1, <2>2, Zenon
<1> HIDE DEF t
<1>3. \A i \in 1..Len(s) : i \in 1..Len(t) /\ t[i] = s[i]
  BY <1>1, <1>2
<1>4. \A i \in 1..n : /\ Len(s) + i \in 1..Len(t)
                      /\ t[Len(s) + i] = [frame |-> f, part |-> i]
  BY <1>1, <1>2
<1>5. ASSUME NEW i \in 1..Len(s) PROVE InFrame(t, i)
  <2> DEFINE u == s[i]
             m == Size(u.frame.cmd)
  <2>1. t[i] = u
    BY <1>3
  <2>2. InFrame(s, i)
    BY DEF WholeFrames
  <2>3. /\ u.part \in 1..m
        /\ \A k \in 1..m :
             /\ i - u.part + k \in 1..Len(s)
             /\ s[i - u.part + k] = [frame |-> u.frame, part |-> k]
        /\ i < Len(s) /\ Whole(u) => s[i + 1].part = 1
    BY <2>2, Zenon DEF InFrame
  <2> HIDE DEF u, m
  <2>4. \A k \in 1..m :
          /\ i - u.part + k \in 1..Len(t)
          /\ t[i - u.part + k] = [frame |-> u.frame, part |-> k]
    BY <1>3, <2>3
  <2>5. ASSUME Whole(u), i < Len(t) PROVE t[i + 1].part = 1
    <3>1. CASE i < Len(s)
      <4>1. i + 1 \in 1..Len(s)
        BY <1>1, <3>1
      <4> QED
        BY <1>3, <2>3, <2>5, <3>1, <4>1
    <3>2. CASE i = Len(s)
      <4>1. t[Len(s) + 1] = [frame |-> f, part |-> 1]
        BY <1>1, <1>4
      <4> QED
        BY <3>2, <4>1
    <3> QED
      BY <1>1, <3>1, <3>2
  <2> QED
    BY <2>1, <2>3, <2>4, <2>5, Zenon DEF InFrame, m
<1>6. ASSUME NEW m \in 1..n, NEW i, i = Len(s) + m PROVE InFrame(t, i)
  <2> DEFINE u == t[i]
  <2>1. /\ u = [frame |-> f, part |-> m]
        /\ u.part = m /\ u.frame = f /\ Size(u.frame.cmd) = n
    BY <1>4, <1>6 DEF n
  <2>2. u.part \in 1..Size(u.frame.cmd)
    BY <2>1
  <2>3. ASSUME NEW k \in 1..n
        PROVE  /\ i - m + k \in 1..Len(t)
               /\ t[i - m + k] = [frame |-> f, part |-> k]
    <3>1. i - m + k = Len(s) + k
      BY <1>1, <1>6
    <3> QED
      BY <1>4, <3>1
  <2>4. i < Len(t) => ~Whole(u)
    BY <1>1, <1>2, <1>6, <2>1 DEF Whole
  <2> HIDE DEF u
  <2>5. \A k \in 1..Size(u.frame.cmd) :
          /\ i - u.part + k \in 1..Len(t)
          /\ t[i - u.part + k] = [frame |-> u.frame, part |-> k]
    BY <2>1, <2>3
  <2> QED
    BY <2>2, <2>4, <2>5, Zenon DEF InFrame, u
<1>7. \A i \in 1..Len(t) : i \in 1..Len(s) \/ \E m \in 1..n : i = Len(s) + m
  <2> TAKE i \in 1..Len(t)
  <2>1. i \notin 1..Len(s) => i - Len(s) \in 1..n /\ i = Len(s) + (i - Len(s))
    BY <1>1, <1>2
  <2> QED
    BY <2>1
<1>8. WholeFrames(t)
  BY <1>5, <1>6, <1>7, Zenon DEF WholeFrames
<1> QED
  BY <1>8 DEF t, r

\* The peer's own frames stay in order when the first frame is consumed ...
LEMMA DropInOrder ==
  ASSUME NEW s \in Seq(PeerUnit), s # <<>>, WholeFrames(s),
         NEW n, n = Size(s[1].frame.cmd),
         NEW lo \in Int, NEW hi \in Int, InOrder(s, lo, hi),
         NEW next, next = IF Counts(s[1]) THEN s[1].frame.seq ELSE lo
  PROVE  /\ InOrder(SubSeq(s, n + 1, Len(s)), next, hi)
         /\ next \in {lo, lo + 1}
<1> DEFINE t == SubSeq(s, n + 1, Len(s))
<1>1. /\ n \in 1..Len(s) /\ n \in 0..Len(s) /\ Len(s) \in Nat /\ n \in Nat
      /\ \A k \in 1..n : s[k] = [frame |-> s[1].frame, part |-> k]
      /\ s[1].part = 1 /\ 1 \in 1..Len(s)
  BY HeadWhole, LenProperties, EmptySeq
<1>2. /\ Len(t) = Len(s) - n
      /\ \A i \in 1..Len(s) - n : t[i] = s[n + i]
  <2>1. n \in 0..Len(s)
    BY <1>1
  <2> QED
    BY <2>1, DropType
<1> HIDE DEF t
<1>3. /\ lo <= hi
      /\ \A i \in 1..Len(s) : Counts(s[i]) => s[i].frame.seq \in lo + 1..hi
      /\ \A i, j \in 1..Len(s) :
           i < j /\ Counts(s[i]) /\ Counts(s[j]) /\ s[j].part = 1 =>
             s[i].frame.seq < s[j].frame.seq
      /\ \A m \in lo + 1..hi : \E i \in 1..Len(s) :
           Counts(s[i]) /\ s[i].part = 1 /\ s[i].frame.seq = m
  BY Zenon DEF InOrder
<1>4. \A i \in 1..Len(t) : n + i \in 1..Len(s) /\ t[i] = s[n + i]
  BY <1>1, <1>2
\* A frame that begins in s is the first one or begins in t.
<1>5. ASSUME NEW j \in 1..Len(s), s[j].part = 1, j # 1
      PROVE  j - n \in 1..Len(t) /\ t[j - n] = s[j]
  <2>1. j \notin 1..n
    <3>1. j \in 1..n => s[j] = [frame |-> s[1].frame, part |-> j]
      BY <1>1
    <3>2. j \in 1..n => s[j].part = j
      BY <3>1
    <3> QED
      BY <1>5, <3>2
  <2>2. j - n \in 1..Len(s) - n /\ n + (j - n) = j
    BY <1>1, <2>1
  <2>3. t[j - n] = s[n + (j - n)]
    BY <1>2, <2>2
  <2> QED
    BY <1>2, <2>2, <2>3
<1>6. next \in {lo, lo + 1} /\ next <= hi /\ next >= lo
  <2>1. CASE Counts(s[1])
    <3>1. next = s[1].frame.seq /\ next \in lo + 1..hi
      BY <1>1, <1>3, <2>1
    <3>2. lo + 1 \in lo + 1..hi
      BY <3>1
    <3>3. PICK j \in 1..Len(s) :
            Counts(s[j]) /\ s[j].part = 1 /\ s[j].frame.seq = lo + 1
      BY <1>3, <3>2
    <3>4. j # 1 => next < lo + 1
      BY <1>1, <1>3, <2>1, <3>1, <3>3
    <3> QED
      BY <3>1, <3>3, <3>4
  <2>2. CASE ~Counts(s[1])
    BY <1>3, <2>2
  <2> QED
    BY <2>1, <2>2
<1>7. ASSUME NEW i \in 1..Len(t), Counts(t[i])
      PROVE  t[i].frame.seq \in next + 1..hi
  <2>1. /\ n + i \in 1..Len(s) /\ t[i] = s[n + i] /\ i \in Nat
        /\ s[n + i] \in PeerUnit
    BY <1>4, ElementOfSeq
  <2>2. s[n + i].frame.seq \in lo + 1..hi
    BY <1>3, <1>7, <2>1
  <2>3. CASE Counts(s[1])
    <3> DEFINE u == s[n + i]
               j == (n + i) - u.part + 1
    \* The first unit of its frame comes after the first frame.
    <3>1. WholeFrames(t)
      BY DropWhole, Zenon DEF t
    <3>2. InFrame(t, i) /\ t[i] = u
      <4>1. \A k \in 1..Len(t) : InFrame(t, k)
        BY <3>1, Zenon DEF WholeFrames
      <4> HIDE DEF u
      <4>2. t[i] = u
        BY <2>1, Zenon DEF u
      <4> QED
        BY <1>7, <4>1, <4>2, Zenon
    <3>3. /\ u.part \in 1..Size(u.frame.cmd) /\ Size(u.frame.cmd) \in Nat \ {0}
          /\ u.part \in Nat
      BY <2>1, <3>2, PeerUnitType DEF InFrame
    <3>4. 1 \in 1..Size(u.frame.cmd)
      BY <3>3
    <3>5. \A k \in 1..Size(u.frame.cmd) :
            /\ i - u.part + k \in 1..Len(t)
            /\ t[i - u.part + k] = [frame |-> u.frame, part |-> k]
      BY <3>2, Zenon DEF InFrame
    <3>6. /\ i - u.part + 1 \in 1..Len(t)
          /\ t[i - u.part + 1] = [frame |-> u.frame, part |-> 1]
      BY <3>4, <3>5
    <3> HIDE DEF u
    <3>7. n + (i - u.part + 1) = j
      BY <1>1, <2>1, <3>3
    <3> HIDE DEF j
    <3>8. j \in 1..Len(s) /\ s[j] = [frame |-> u.frame, part |-> 1]
      BY <1>4, <3>6, <3>7
    <3>9. 1 < j
      BY <1>1, <1>2, <3>6, <3>7
    <3>10. Counts(s[j]) /\ s[j].part = 1 /\ s[j].frame.seq = u.frame.seq
      BY <1>7, <3>2, <3>8 DEF Counts
    <3>11. s[1].frame.seq < u.frame.seq
      BY <1>1, <1>3, <2>3, <3>8, <3>9, <3>10
    <3>12. t[i].frame.seq \in lo + 1..hi /\ t[i].frame.seq = u.frame.seq
      BY <2>1, <2>2, <3>2
    <3>13. next = s[1].frame.seq
      BY <2>3
    <3>14. next \in Int
      BY <1>6, <3>13
    <3>15. \A x \in lo + 1..hi : next < x => x \in next + 1..hi
      BY <3>14
    <3> QED
      BY <3>11, <3>12, <3>13, <3>15, Zenon
  <2>4. CASE ~Counts(s[1])
    BY <2>1, <2>2, <2>4
  <2> QED
    BY <2>3, <2>4
<1>8. ASSUME NEW i \in 1..Len(t), NEW j \in 1..Len(t), i < j, Counts(t[i]),
             Counts(t[j]), t[j].part = 1
      PROVE  t[i].frame.seq < t[j].frame.seq
  <2>1. n + i < n + j
    BY <1>1, <1>2, <1>8
  <2>2. /\ n + i \in 1..Len(s) /\ t[i] = s[n + i]
        /\ n + j \in 1..Len(s) /\ t[j] = s[n + j]
    BY <1>4
  <2>3. Counts(s[n + i]) /\ Counts(s[n + j]) /\ s[n + j].part = 1
    BY <1>8, <2>2
  <2>4. s[n + i].frame.seq < s[n + j].frame.seq
    BY <1>3, <2>1, <2>2, <2>3
  <2> QED
    BY <2>2, <2>4
<1>9. ASSUME NEW m \in next + 1..hi
      PROVE  \E i \in 1..Len(t) :
               Counts(t[i]) /\ t[i].part = 1 /\ t[i].frame.seq = m
  <2>1. m \in lo + 1..hi
    BY <1>6
  <2>2. PICK j \in 1..Len(s) :
          Counts(s[j]) /\ s[j].part = 1 /\ s[j].frame.seq = m
    BY <1>3, <2>1
  <2>3. j # 1
    BY <1>6, <2>2
  <2> QED
    BY <1>5, <2>2, <2>3
<1>10. InOrder(t, next, hi)
  BY <1>6, <1>7, <1>8, <1>9 DEF InOrder
<1> QED
  BY <1>6, <1>10 DEF t

\* ... and when the peer sends another.
LEMMA AppendInOrder ==
  ASSUME NEW s \in Seq(PeerUnit), NEW f \in Frame,
         f.cmd \in Cmds, f.cmd \in RxCommands => f.seq # 0,
         NEW lo \in Int, NEW hi \in Int, InOrder(s, lo, hi), NEW new,
         \/ f.cmd \notin Numbered /\ new = hi
         \/ f.cmd \in Numbered /\ new = hi + 1 /\ f.seq = new
  PROVE  InOrder(s \o UnitsOf(f), lo, new)
<1> DEFINE r == UnitsOf(f)
           t == s \o r
           n == Size(f.cmd)
<1>1. /\ r \in Seq(PeerUnit) /\ Len(r) = n /\ n \in Nat \ {0}
      /\ Len(s) \in Nat
      /\ \A i \in 1..n : r[i] = [frame |-> f, part |-> i]
  BY UnitsOfType, SizeType, LenProperties
<1> HIDE DEF r, n
<1>2. /\ Len(t) = Len(s) + n
      /\ \A i \in 1..Len(s) + n :
           t[i] = IF i <= Len(s) THEN s[i] ELSE r[i - Len(s)]
  <2>1. r \in Seq(PeerUnit) /\ Len(r) = n
    BY <1>1
  <2>2. /\ Len(t) = Len(s) + Len(r)
        /\ \A i \in 1..Len(s) + Len(r) :
             t[i] = IF i <= Len(s) THEN s[i] ELSE r[i - Len(s)]
    BY <2>1, ConcatProperties
  <2> QED
    BY <2>1, <2>2, Zenon
<1> HIDE DEF t
<1>3. \A i \in 1..Len(s) : i \in 1..Len(t) /\ t[i] = s[i]
  BY <1>1, <1>2
<1>4. \A i \in 1..n : /\ Len(s) + i \in 1..Len(t)
                      /\ t[Len(s) + i] = [frame |-> f, part |-> i]
  BY <1>1, <1>2
<1>5. /\ lo <= hi
      /\ \A i \in 1..Len(s) : Counts(s[i]) => s[i].frame.seq \in lo + 1..hi
      /\ \A i, j \in 1..Len(s) :
           i < j /\ Counts(s[i]) /\ Counts(s[j]) /\ s[j].part = 1 =>
             s[i].frame.seq < s[j].frame.seq
      /\ \A m \in lo + 1..hi : \E i \in 1..Len(s) :
           Counts(s[i]) /\ s[i].part = 1 /\ s[i].frame.seq = m
  BY Zenon DEF InOrder
<1>6. ASSUME NEW i \in 1..Len(t), i \notin 1..Len(s)
      PROVE  /\ i - Len(s) \in 1..n
             /\ t[i] = [frame |-> f, part |-> i - Len(s)]
  BY <1>1, <1>2, <1>6
<1>7. lo <= new /\ new \in Int /\ hi <= new
  BY <1>5
<1>8. ASSUME NEW i \in 1..Len(t), Counts(t[i])
      PROVE  t[i].frame.seq \in lo + 1..new
  <2>1. CASE i \in 1..Len(s)
    <3>1. t[i] = s[i] /\ s[i].frame.seq \in lo + 1..hi
      BY <1>3, <1>5, <1>8, <2>1
    <3> QED
      BY <1>7, <3>1
  <2>2. CASE i \notin 1..Len(s)
    <3>1. t[i] = [frame |-> f, part |-> i - Len(s)]
      BY <1>6, <2>2
    <3>2. f.cmd \in Numbered /\ t[i].frame.seq = f.seq
      BY <1>8, <3>1 DEF Counts
    <3> QED
      BY <1>5, <3>2
  <2> QED
    BY <2>1, <2>2
<1>9. ASSUME NEW i \in 1..Len(t), NEW j \in 1..Len(t), i < j, Counts(t[i]),
             Counts(t[j]), t[j].part = 1
      PROVE  t[i].frame.seq < t[j].frame.seq
  <2>1. CASE j \in 1..Len(s)
    <3>1. i \in 1..Len(s)
      BY <1>1, <1>9, <2>1
    <3> QED
      BY <1>3, <1>5, <1>9, <2>1, <3>1
  <2>2. CASE j \notin 1..Len(s)
    <3>1. /\ t[j] = [frame |-> f, part |-> j - Len(s)] /\ j - Len(s) \in 1..n
      BY <1>6, <2>2
    <3>2. j = Len(s) + 1
      BY <1>1, <1>9, <3>1
    <3>3. i \in 1..Len(s)
      BY <1>1, <1>9, <3>2
    <3>4. t[j].frame.seq = hi + 1
      BY <1>9, <3>1 DEF Counts
    <3> QED
      BY <1>3, <1>5, <1>9, <3>3, <3>4
  <2> QED
    BY <2>1, <2>2
<1>10. ASSUME NEW m \in lo + 1..new
       PROVE  \E i \in 1..Len(t) :
                Counts(t[i]) /\ t[i].part = 1 /\ t[i].frame.seq = m
  <2>1. CASE m \in lo + 1..hi
    BY <1>3, <1>5, <2>1
  <2>2. CASE m \notin lo + 1..hi
    <3>1. m = hi + 1 /\ f.cmd \in Numbered /\ f.seq = m
      BY <1>5, <2>2
    <3>2. 1 \in 1..n
      BY <1>1
    <3>3. /\ Len(s) + 1 \in 1..Len(t)
          /\ t[Len(s) + 1] = [frame |-> f, part |-> 1]
      BY <1>4, <3>2
    <3> QED
      BY <3>1, <3>3 DEF Counts
  <2> QED
    BY <2>1, <2>2
<1>11. InOrder(t, lo, new)
  BY <1>7, <1>8, <1>9, <1>10 DEF InOrder
<1> QED
  BY <1>11 DEF t, r

\* StreamInSync follows from the frames being whole.
LEMMA WholeInSync ==
  ASSUME NEW s \in Seq(PeerUnit), WholeFrames(s)
  PROVE  /\ s # <<>> => s[1].part = 1
         /\ \A i \in 1..Len(s) - 1 : Follows(s[i + 1], s[i])
<1>1. s # <<>> => s[1].part = 1
  BY HeadWhole
<1>2. ASSUME NEW i \in 1..Len(s) - 1 PROVE Follows(s[i + 1], s[i])
  <2> DEFINE u == s[i]
             m == Size(u.frame.cmd)
  <2>1. /\ Len(s) \in Nat /\ i \in 1..Len(s) /\ i < Len(s) /\ i \in Nat
    BY LenProperties
  <2>2. u \in PeerUnit
    BY <2>1, ElementOfSeq
  <2>3. InFrame(s, i)
    BY <2>1 DEF WholeFrames
  <2>4. /\ u.part \in 1..m
        /\ \A k \in 1..m :
             /\ i - u.part + k \in 1..Len(s)
             /\ s[i - u.part + k] = [frame |-> u.frame, part |-> k]
        /\ i < Len(s) /\ Whole(u) => s[i + 1].part = 1
    BY <2>3, Zenon DEF InFrame
  <2>5. m \in Nat \ {0} /\ u.part \in Nat /\ (Whole(u) <=> u.part = m)
    BY <2>2, PeerUnitType
  <2> HIDE DEF u, m
  <2>6. CASE Whole(u)
    BY <2>1, <2>4, <2>6 DEF Follows, u
  <2>7. CASE ~Whole(u)
    <3>1. u.part + 1 \in 1..m /\ i - u.part + (u.part + 1) = i + 1
      BY <2>1, <2>4, <2>5, <2>7
    <3>2. s[i + 1] = [frame |-> u.frame, part |-> u.part + 1]
      BY <2>4, <3>1
    <3> QED
      BY <3>2 DEF Follows, u
  <2> QED
    BY <2>6, <2>7
<1> QED
  BY <1>1, <1>2
-----------------------------------------------------------------------------
(* What the steps do to the stream. *)

ConsumesFrame ==
  /\ HasFrame
  /\ Consume(HeadFrame)
  /\ UNCHANGED <<received, inq, peer_seq>>

PeerFrame(f) ==
  /\ f.cmd \in Cmds
  /\ f.cmd \in RxCommands => f.seq # 0
  /\ \/ f.cmd \notin Numbered /\ peer_seq' = peer_seq
     \/ f.cmd \in Numbered /\ peer_seq' = peer_seq + 1 /\ f.seq = peer_seq'
  /\ PeerSends(f)

StreamStep ==
  \/ Stream' = Stream /\ HandlesNothing /\ UNCHANGED <<consumed, peer_seq>>
  \/ ConsumesFrame /\ DealsWith(HeadFrame)
  \/ HandlesNothing /\ \E f \in Frame : PeerFrame(f)

LEMMA StreamType ==
  ASSUME RxTypes
  PROVE  /\ receive_buf \in Seq(PeerUnit) /\ Len(receive_buf) \in Nat
         /\ received \in Seq(PeerUnit) /\ Len(received) \in Nat
         /\ inq \in Seq(PeerUnit) /\ Len(inq) \in Nat
         /\ received \o inq \in Seq(PeerUnit)
         /\ Stream \in Seq(PeerUnit)
         /\ Stream = receive_buf \o (received \o inq)
<1>1. /\ receive_buf \in Seq(PeerUnit) /\ received \in Seq(PeerUnit)
      /\ inq \in Seq(PeerUnit)
  BY DEF RxTypes
<1>2. Stream = receive_buf \o (received \o inq)
  BY <1>1, ConcatAssociative DEF Stream
<1>3. received \o inq \in Seq(PeerUnit)
  BY <1>1, ConcatProperties
<1>4. Stream \in Seq(PeerUnit)
  BY <1>1, <1>2, <1>3, ConcatProperties
<1> QED
  BY <1>1, <1>2, <1>3, <1>4, LenProperties

\* Reading moves units from the network to the buffer's rest ...
LEMMA ReadSomeStream ==
  ASSUME SIInv, ReadSome
  PROVE  Stream' = Stream
<1>1. RxTypes /\ received = <<>>
  BY DEF SIInv, RxStages, ReadSome
<1>2. PICK k \in 1..Len(inq) :
        /\ received' = SubSeq(inq, 1, k)
        /\ inq' = SubSeq(inq, k + 1, Len(inq))
  BY DEF ReadSome
<1>3. /\ inq \in Seq(PeerUnit) /\ Len(inq) \in Nat
      /\ receive_buf \in Seq(PeerUnit)
  BY <1>1, StreamType
<1>4. /\ 1 \in 1..Len(inq) + 1 /\ k \in 1 - 1..Len(inq)
      /\ Len(inq) \in k..Len(inq)
      /\ k \in 1..Len(inq) /\ k \in 0..Len(inq)
  BY <1>2, <1>3
<1>5. received' \o inq' = SubSeq(inq, 1, Len(inq))
  BY <1>2, <1>3, <1>4, ConcatAdjacentSubSeq
<1>6. received' \o inq' = inq
  BY <1>3, <1>5, SubSeqFull
<1>7. received' \in Seq(PeerUnit) /\ inq' \in Seq(PeerUnit)
  BY <1>2, <1>3, <1>4, TakeType, DropType, Zenon
<1>8. Stream' = (receive_buf' \o received') \o inq'
  BY DEF Stream
<1>9. receive_buf' = receive_buf
  BY DEF ReadSome
<1>10. Stream' = receive_buf \o (received' \o inq')
  <2>1. ASSUME NEW a \in Seq(PeerUnit), NEW b \in Seq(PeerUnit)
        PROVE  (receive_buf \o a) \o b = receive_buf \o (a \o b)
    <3>1. receive_buf \in Seq(PeerUnit)
      BY <1>3
    <3> QED
      BY <3>1, ConcatAssociative
  <2>2. (receive_buf \o received') \o inq'
          = receive_buf \o (received' \o inq')
    BY <1>7, <2>1, Zenon
  <2> QED
    BY <1>8, <1>9, <2>2, Zenon
<1>11. Stream = receive_buf \o inq
  BY <1>1, <1>3, ConcatEmptySeq DEF Stream
<1> QED
  BY <1>6, <1>10, <1>11

\* ... and its handler commits them.
LEMMA CommitStream ==
  ASSUME SIInv, Commit, UNCHANGED inq
  PROVE  Stream' = Stream
<1>1. /\ receive_buf \in Seq(PeerUnit) /\ received \in Seq(PeerUnit)
  BY DEF SIInv, RxTypes
<1>2. receive_buf' = receive_buf \o received /\ received' = <<>>
  BY DEF Commit
<1>3. receive_buf' \in Seq(PeerUnit)
  BY <1>1, <1>2, ConcatProperties
<1>4. receive_buf' \o received' = receive_buf \o received
  BY <1>2, <1>3, ConcatEmptySeq
<1> QED
  BY <1>4 DEF Stream

\* Consuming takes the first frame of the stream.
LEMMA ConsumeStream ==
  ASSUME RxTypes, ConsumesFrame
  PROVE  /\ Stream # <<>>
         /\ Stream[1] = receive_buf[1]
         /\ Stream' = SubSeq(Stream, Size(HeadFrame.cmd) + 1, Len(Stream))
<1> DEFINE n == Size(HeadFrame.cmd)
           q == received \o inq
<1>1. /\ receive_buf \in Seq(PeerUnit) /\ Len(receive_buf) \in Nat
      /\ q \in Seq(PeerUnit) /\ Len(q) \in Nat
      /\ received \in Seq(PeerUnit) /\ inq \in Seq(PeerUnit)
      /\ Stream = receive_buf \o q /\ Stream \in Seq(PeerUnit)
  BY StreamType, LenProperties
<1>2. n \in 1..Len(receive_buf)
  BY ConsumeType DEF ConsumesFrame
<1>3. receive_buf' = SubSeq(receive_buf, n + 1, Len(receive_buf))
  BY DEF ConsumesFrame, Consume
<1> HIDE DEF n
<1>4. n \in 0..Len(receive_buf) /\ n \in Nat /\ 1 \in 1..Len(receive_buf)
  BY <1>1, <1>2
<1>5. /\ receive_buf' \in Seq(PeerUnit)
      /\ Len(receive_buf') = Len(receive_buf) - n
      /\ \A i \in 1..Len(receive_buf) - n : receive_buf'[i] = receive_buf[n + i]
  BY <1>1, <1>3, <1>4, DropType
<1>6. Stream' = receive_buf' \o q
  <2>1. Stream' = (receive_buf' \o received) \o inq
    BY DEF Stream, ConsumesFrame
  <2> QED
    <3>1. ASSUME NEW a \in Seq(PeerUnit)
          PROVE  (a \o received) \o inq = a \o (received \o inq)
      <4>1. received \in Seq(PeerUnit) /\ inq \in Seq(PeerUnit)
        BY <1>1
      <4> QED
        BY <4>1, ConcatAssociative
    <3> QED
      BY <1>5, <2>1, <3>1, Zenon
<1> HIDE DEF q
<1>7. /\ Len(Stream) = Len(receive_buf) + Len(q)
      /\ \A i \in 1..Len(receive_buf) + Len(q) :
           Stream[i] = IF i <= Len(receive_buf)
                       THEN receive_buf[i] ELSE q[i - Len(receive_buf)]
  BY <1>1, ConcatProperties
<1>8. /\ Stream' \in Seq(PeerUnit)
      /\ Len(Stream') = Len(receive_buf') + Len(q)
      /\ \A i \in 1..Len(receive_buf') + Len(q) :
           Stream'[i] = IF i <= Len(receive_buf')
                        THEN receive_buf'[i] ELSE q[i - Len(receive_buf')]
  BY <1>1, <1>5, <1>6, ConcatProperties
<1> DEFINE t == SubSeq(Stream, n + 1, Len(Stream))
<1>9. n \in 0..Len(Stream) /\ Len(Stream) \in Nat
  BY <1>1, <1>4, <1>7
<1>10. /\ t \in Seq(PeerUnit)
       /\ Len(t) = Len(Stream) - n
       /\ \A i \in 1..Len(Stream) - n : t[i] = Stream[n + i]
  BY <1>1, <1>9, DropType
<1> HIDE DEF t
<1>11. Len(t) = Len(Stream')
  BY <1>1, <1>4, <1>5, <1>7, <1>8, <1>10
<1>12. ASSUME NEW i \in 1..Len(Stream') PROVE Stream'[i] = t[i]
  <2>1. /\ i \in Nat /\ i >= 1 /\ i <= Len(receive_buf) - n + Len(q)
        /\ n + i \in 1..Len(receive_buf) + Len(q)
        /\ i \in 1..Len(Stream) - n
        /\ i \in 1..Len(receive_buf') + Len(q)
    BY <1>1, <1>4, <1>5, <1>7, <1>8
  <2>2. t[i] = Stream[n + i]
    BY <1>10, <2>1
  <2>3. CASE i <= Len(receive_buf) - n
    <3>1. /\ n + i <= Len(receive_buf) /\ i <= Len(receive_buf')
          /\ i \in 1..Len(receive_buf) - n
      BY <1>1, <1>4, <1>5, <2>1, <2>3
    <3>2. Stream[n + i] = receive_buf[n + i] /\ Stream'[i] = receive_buf'[i]
      BY <1>7, <1>8, <2>1, <3>1
    <3> QED
      BY <1>5, <2>2, <3>1, <3>2
  <2>4. CASE ~(i <= Len(receive_buf) - n)
    <3>1. /\ ~(n + i <= Len(receive_buf)) /\ ~(i <= Len(receive_buf'))
          /\ (n + i) - Len(receive_buf) = i - Len(receive_buf')
      BY <1>1, <1>4, <1>5, <2>1, <2>4
    <3>2. /\ Stream[n + i] = q[(n + i) - Len(receive_buf)]
          /\ Stream'[i] = q[i - Len(receive_buf')]
      BY <1>7, <1>8, <2>1, <3>1
    <3> QED
      BY <2>2, <3>1, <3>2
  <2> QED
    BY <2>3, <2>4
<1>13. Stream' = t
  BY <1>8, <1>10, <1>11, <1>12, SeqEqual
<1>14. Len(Stream) # 0 /\ Stream[1] = receive_buf[1]
  <2>1. 1 \in 1..Len(receive_buf) + Len(q) /\ 1 <= Len(receive_buf)
    BY <1>1, <1>4
  <2> QED
    BY <1>1, <1>7, <2>1
<1>15. Stream # <<>>
  BY <1>14, EmptySeq
<1> QED
  BY <1>13, <1>14, <1>15 DEF t, n

\* A step that neither reports a frame nor goes on after an answer.
LEMMA NothingHandled ==
  ASSUME UNCHANGED consumed,
         rx' = "idle" => rx = "idle" \/ rx_ec' \notin {"ok", "unbinded"},
         rx' = "loop" => rx # "sending" \/ frame[Rx].cmd # "enquire_link_resp"
  PROVE  HandlesNothing
BY DEF HandlesNothing, Reports, HasAnswered

\* receive_op reports the frame that it consumes.
LEMMA DeliveryDeals ==
  ASSUME DeliverNow, rx # "idle", HeadFrame.cmd \in {"request", "response"}
  PROVE  DealsWith(HeadFrame)
BY DEF DeliverNow, RxComplete, DealsWith, Reports

\* What receive_op does after a send.
LEMMA AfterSendDeals ==
  ASSUME SIInv, AfterSend
  PROVE  \/ /\ UNCHANGED <<receive_buf, consumed>>
            /\ HandlesNothing
         \/ /\ frame[Rx].cmd \in RxReplies
            /\ Consume(HeadFrame)
            /\ DealsWith(HeadFrame)
<1>1. /\ rx = "sending" /\ frame[Rx] \in Frame /\ ec[Rx] \in Ecs
  BY SessionAssumption DEF AfterSend, SIInv, IInv, TypeOK
<1>2. CASE /\ RxComplete("enquire_link_timeout", frame[Rx])
           /\ UNCHANGED <<receive_buf, consumed>>
  BY <1>2, NothingHandled DEF RxComplete
<1>3. CASE /\ SendFailed
           /\ RxComplete(ec[Rx], NoFrame)
           /\ UNCHANGED <<receive_buf, consumed>>
  <2>1. ec[Rx] \notin {"ok", "unbinded"}
    BY <1>1, <1>3 DEF SendFailed, Ecs
  <2> QED
    BY <1>3, <2>1, NothingHandled DEF RxComplete
<1>4. CASE /\ frame[Rx].cmd = "enquire_link"
           /\ rx' = "loop"
           /\ UNCHANGED <<receive_buf, consumed>>
  BY <1>4, NothingHandled
<1>5. ASSUME frame[Rx].cmd \in RxReplies
      PROVE  /\ HeadFrame.seq = frame[Rx].seq
             /\ HeadFrame.cmd = IF frame[Rx].cmd = "unbind_resp"
                                THEN "unbind" ELSE "enquire_link"
             /\ frame[Rx] = [cmd |-> frame[Rx].cmd, seq |-> HeadFrame.seq]
  BY <1>1, <1>5 DEF SIInv, RxStages, Frame
<1>6. CASE /\ frame[Rx].cmd = "unbind_resp"
           /\ Consume(HeadFrame)
           /\ RxComplete("unbinded", HeadFrame)
  <2>1. HeadFrame.cmd = "unbind" /\ frame[Rx].cmd \in RxReplies
    BY <1>5, <1>6 DEF RxReplies
  <2>2. HasAnswered("unbind_resp", HeadFrame)
    BY <1>1, <1>5, <1>6, <2>1 DEF HasAnswered, RxComplete
  <2>3. Reports("unbinded", HeadFrame)
    BY <1>1, <1>6 DEF Reports, RxComplete
  <2> QED
    BY <1>6, <2>1, <2>2, <2>3 DEF DealsWith
<1>7. CASE /\ frame[Rx].cmd = "enquire_link_resp"
           /\ Consume(HeadFrame)
           /\ rx' = "loop"
  <2>1. HeadFrame.cmd = "enquire_link" /\ frame[Rx].cmd \in RxReplies
    BY <1>5, <1>7 DEF RxReplies
  <2>2. HasAnswered("enquire_link_resp", HeadFrame)
    BY <1>1, <1>5, <1>7, <2>1 DEF HasAnswered
  <2> QED
    BY <1>7, <2>1, <2>2 DEF DealsWith
<1> QED
  BY <1>2, <1>3, <1>4, <1>6, <1>7 DEF AfterSend

\* The session itself takes nothing but whole frames from the stream, and deals
\* with those it takes.
LEMMA OwnStreamSteps ==
  ASSUME SIInv, OwnNext
  PROVE  \/ /\ Stream' = Stream
            /\ HandlesNothing
            /\ UNCHANGED <<consumed, peer_seq>>
         \/ ConsumesFrame /\ DealsWith(HeadFrame)
<1>1. CASE /\ UNCHANGED <<receive_buf, received, inq, consumed, peer_seq>>
           /\ HandlesNothing
  BY <1>1 DEF Stream
<1>2. CASE ReadSome
  <2>1. HandlesNothing
    BY <1>2, NothingHandled DEF ReadSome, EndRead
  <2> QED
    BY <1>2, <2>1, ReadSomeStream DEF ReadSome, peerVars
<1>3. CASE Loop
  <2>1. CASE StartRead \/ AnswerCommand
    <3>1. rx' \in {"reading", "read", "sending"} /\ UNCHANGED consumed
      BY <2>1 DEF StartRead, AnswerCommand, RxSend
    <3>2. HandlesNothing
      BY <3>1, NothingHandled
    <3> QED
      BY <1>1, <2>1, <3>2 DEF StartRead, AnswerCommand, peerVars
  <2>2. CASE SkipEnquireLinkResp
    <3>1. DealsWith(HeadFrame)
      BY <1>3, <2>2 DEF Loop, SkipEnquireLinkResp, rxState, DealsWith
    <3> QED
      BY <2>2, <3>1 DEF SkipEnquireLinkResp, rxState, peerVars, ConsumesFrame
  <2>3. CASE FinishUnbind
    <3>1. DealsWith(HeadFrame)
      BY <1>3, <2>3 DEF Loop, FinishUnbind, RxComplete, DealsWith, Reports
    <3> QED
      BY <2>3, <3>1 DEF FinishUnbind, RxComplete, peerVars, ConsumesFrame
  <2>4. CASE DeliverOrPost /\ DeliverNow
    <3>1. DealsWith(HeadFrame)
      BY <1>3, <2>4, DeliveryDeals DEF Loop, DeliverOrPost
    <3> QED
      BY <2>4, <3>1 DEF DeliverOrPost, DeliverNow, RxComplete, peerVars,
                        ConsumesFrame
  <2>5. CASE DeliverOrPost /\ ~DeliverNow
    <3>1. HandlesNothing
      BY <2>5, NothingHandled DEF DeliverOrPost
    <3> QED
      BY <1>1, <2>5, <3>1 DEF DeliverOrPost, peerVars
  <2> QED
    BY <1>3, <2>1, <2>2, <2>3, <2>4, <2>5 DEF Loop
<1>4. CASE Posted
  <2>1. HasFrame /\ HeadFrame.cmd \in {"request", "response"}
    BY <1>4 DEF Posted, SIInv, RxStages
  <2>2. DealsWith(HeadFrame)
    BY <1>4, <2>1, DeliveryDeals DEF Posted
  <2> QED
    BY <1>4, <2>1, <2>2
    DEF Posted, DeliverNow, RxComplete, peerVars, ConsumesFrame
<1>5. CASE ReadHandler
  <2>1. CASE DataReceived /\ rx' = "loop" /\ UNCHANGED <<consumed, inq, peerVars>>
    <3>1. HandlesNothing
      BY <1>5, <2>1, NothingHandled DEF ReadHandler
    <3> QED
      BY <2>1, <3>1, CommitStream DEF DataReceived, peerVars
  <2>2. CASE AfterReadTimeout /\ UNCHANGED <<inq, peerVars>>
    <3>1. rx' = "sending" /\ UNCHANGED consumed
      BY <2>2 DEF AfterReadTimeout, SendUnbind, SendEnquireLink, RxSend
    <3>2. HandlesNothing
      BY <3>1, NothingHandled
    <3> QED
      BY <1>1, <2>2, <3>2 DEF AfterReadTimeout, peerVars
  <2>3. CASE /\ rx_ec \in {"neterr", "aborted"}
             /\ RxComplete(rx_ec, NoFrame)
             /\ UNCHANGED <<receive_buf, consumed, inq, peerVars>>
    <3>1. HandlesNothing
      BY <2>3, NothingHandled DEF RxComplete
    <3> QED
      BY <1>1, <2>3, <3>1 DEF RxComplete, peerVars
  <2> QED
    BY <1>5, <2>1, <2>2, <2>3 DEF ReadHandler
<1>6. CASE AfterSend
  <2>1. CASE UNCHANGED <<receive_buf, consumed>> /\ HandlesNothing
    BY <1>1, <1>6, <2>1 DEF AfterSend, RxComplete, peerVars
  <2>2. CASE /\ Consume(HeadFrame) /\ frame[Rx].cmd \in RxReplies
             /\ DealsWith(HeadFrame)
    <3>1. HasFrame
      BY <1>6, <2>2 DEF AfterSend, SIInv, RxStages
    <3> QED
      BY <1>6, <2>2, <3>1
      DEF AfterSend, RxComplete, peerVars, ConsumesFrame
  <2> QED
    BY <1>6, <2>1, <2>2, AfterSendDeals
<1>7. CASE \/ AsyncReceive \/ ReadError \/ ReadTimeout
           \/ \E type \in RxCancels : RxCancel(type)
           \/ \E c \in Callers : \/ OfSender(Start(c)) \/ OfSender(Cancel(c))
                                 \/ OfSender(Progress(c))
                                 \/ OfSender(WriteTimeout(c))
  <2>1. /\ UNCHANGED <<receive_buf, received, inq, consumed, peer_seq>>
        /\ \/ rx = "idle" /\ rx' = "loop"
           \/ rx' = "read"
           \/ rx' = rx /\ rx' # "loop"
           \/ rx' = rx /\ rx # "sending"
    BY <1>7 DEF AsyncReceive, ReadError, ReadTimeout, EndRead, RxCancel,
                OfSender, rxVars, rxState, peerVars
  <2>2. HandlesNothing
    BY <2>1, NothingHandled
  <2> QED
    BY <1>1, <2>1, <2>2
<1> QED
  BY <1>2, <1>3, <1>4, <1>5, <1>6, <1>7 DEF OwnNext, RxProgress

LEMMA StreamSteps ==
  ASSUME SIInv, [SNext]_allVars
  PROVE  StreamStep
<1>1. CASE OwnNext
  BY <1>1, OwnStreamSteps DEF StreamStep
<1>2. CASE OfSender(SocketReset) \/ PeerReads \/ UNCHANGED allVars
  <2>1. UNCHANGED <<rxVars, inq, peer_seq>>
    BY <1>2 DEF OfSender, PeerReads, allVars, peerVars
  <2>2. HandlesNothing
    BY <2>1, NothingHandled DEF rxVars, rxState
  <2> QED
    BY <2>1, <2>2 DEF rxVars, rxState, Stream, StreamStep
<1>3. ASSUME NEW cmd \in Numbered, PeerSend(cmd) PROVE StreamStep
  <2>1. /\ peer_seq \in 0..MaxPeerFrames /\ MaxPeerFrames \in 0..MaxSeq
        /\ MaxSeq \in Nat /\ peer_seq < MaxPeerFrames
        /\ peer_seq' = peer_seq + 1
    BY <1>3, SessionAssumption, SendPathAssumption
    DEF PeerSend, SIInv, RxTypes
  <2> DEFINE f == [cmd |-> cmd, seq |-> peer_seq + 1]
  <2>2. /\ f \in Frame /\ f.cmd \in Cmds /\ f.seq # 0 /\ f.cmd \in Numbered
        /\ f.seq = peer_seq' /\ PeerSends(f)
    BY <1>3, <2>1 DEF PeerSend, Frame, Numbered, Cmds, Commands
  <2>3. HandlesNothing
    BY <2>2, NothingHandled DEF PeerSends, rxVars, rxState
  <2> HIDE DEF f
  <2> QED
    BY <2>1, <2>2, <2>3 DEF PeerFrame, StreamStep
<1>4. ASSUME NEW a \in owed, PeerAnswer(a) PROVE StreamStep
  <2> DEFINE f == [cmd |-> AnswerTo(a.cmd), seq |-> a.seq]
  <2>1. a \in Frame /\ a.cmd \in Numbered
    BY DEF SIInv, RxTypes
  <2>2. AnswerTo(a.cmd) \in {"response", "enquire_link_resp", "unbind_resp"}
    BY <2>1 DEF AnswerTo, Numbered
  <2>3. /\ f \in Frame /\ f.cmd \in Cmds /\ f.cmd \notin RxCommands
        /\ f.cmd \notin Numbered
        /\ PeerSends(f) /\ peer_seq' = peer_seq
    BY <1>4, <2>1, <2>2
    DEF PeerAnswer, Frame, Cmds, Commands, RxCommands, Numbered
  <2>4. HandlesNothing
    BY <2>3, NothingHandled DEF PeerSends, rxVars, rxState
  <2> HIDE DEF f
  <2> QED
    BY <2>3, <2>4 DEF PeerFrame, StreamStep
<1> QED
  BY <1>1, <1>2, <1>3, <1>4 DEF SNext
-----------------------------------------------------------------------------
(* Theorems. *)

LEMMA StreamStepInv ==
  ASSUME SIInv, StreamInv, StreamStep
  PROVE  /\ StreamInv'
         /\ consumed' \in {consumed, consumed + 1}
<1>1. /\ Stream \in Seq(PeerUnit)
      /\ consumed \in Int /\ peer_seq \in Int
  BY StreamType, SessionAssumption DEF SIInv, RxTypes
<1>2. WholeFrames(Stream) /\ InOrder(Stream, consumed, peer_seq)
  BY DEF StreamInv
<1>3. CASE Stream' = Stream /\ UNCHANGED <<consumed, peer_seq>>
  BY <1>2, <1>3 DEF StreamInv
<1>4. CASE ConsumesFrame
  <2> DEFINE n == Size(HeadFrame.cmd)
             t == SubSeq(Stream, n + 1, Len(Stream))
  <2>1. /\ Stream # <<>> /\ Stream[1] = receive_buf[1]
        /\ Stream' = t
    BY <1>4, ConsumeStream DEF SIInv
  <2>2. n = Size(Stream[1].frame.cmd)
    BY <2>1 DEF HeadFrame
  <2>3. /\ consumed' = IF Counts(Stream[1]) THEN Stream[1].frame.seq
                                            ELSE consumed
        /\ peer_seq' = peer_seq
    BY <1>4, <2>1 DEF ConsumesFrame, Consume, Counts, HeadFrame
  <2> HIDE DEF n
  <2>4. WholeFrames(t)
    BY <1>1, <1>2, <2>1, <2>2, DropWhole
  <2>5. /\ InOrder(t, consumed', peer_seq)
        /\ consumed' \in {consumed, consumed + 1}
    BY <1>1, <1>2, <2>1, <2>2, <2>3, DropInOrder
  <2> HIDE DEF t
  <2> QED
    BY <2>1, <2>3, <2>4, <2>5 DEF StreamInv
<1>5. ASSUME NEW f \in Frame, PeerFrame(f)
      PROVE  /\ StreamInv'
             /\ consumed' \in {consumed, consumed + 1}
  <2>1. /\ inq' = inq \o UnitsOf(f)
        /\ UNCHANGED <<receive_buf, received, consumed>>
    BY <1>5 DEF PeerFrame, PeerSends, rxVars, rxState
  <2>2. /\ f.cmd \in Cmds
        /\ f.cmd \in RxCommands => f.seq # 0
        /\ \/ f.cmd \notin Numbered /\ peer_seq' = peer_seq
           \/ f.cmd \in Numbered /\ peer_seq' = peer_seq + 1 /\ f.seq = peer_seq'
    BY <1>5 DEF PeerFrame
  <2>3. /\ receive_buf \in Seq(PeerUnit) /\ received \in Seq(PeerUnit)
        /\ inq \in Seq(PeerUnit) /\ UnitsOf(f) \in Seq(PeerUnit)
        /\ receive_buf \o received \in Seq(PeerUnit)
    <3>1. /\ receive_buf \in Seq(PeerUnit) /\ received \in Seq(PeerUnit)
          /\ inq \in Seq(PeerUnit)
      BY DEF SIInv, RxTypes
    <3>2. UnitsOf(f) \in Seq(PeerUnit)
      BY <2>2, UnitsOfType
    <3>3. receive_buf \o received \in Seq(PeerUnit)
      BY <3>1, ConcatProperties
    <3> QED
      BY <3>1, <3>2, <3>3
  <2>4. Stream' = Stream \o UnitsOf(f)
    BY <2>1, <2>3, ConcatAssociative DEF Stream
  <2>5. WholeFrames(Stream \o UnitsOf(f))
    BY <1>1, <1>2, <2>2, AppendWhole
  <2>6. InOrder(Stream \o UnitsOf(f), consumed, peer_seq')
    BY <1>1, <1>2, <2>2, AppendInOrder
  <2> QED
    BY <2>1, <2>4, <2>5, <2>6 DEF StreamInv
<1> QED
  BY <1>3, <1>4, <1>5 DEF StreamStep

LEMMA SInitStreamInv == SInit => StreamInv
<1> SUFFICES ASSUME SInit PROVE StreamInv
  OBVIOUS
<1>1. Stream = <<>> /\ consumed = 0 /\ peer_seq = 0
  BY ConcatEmptySeq, EmptySeq DEF SInit, Stream
<1>2. Len(Stream) = 0
  BY <1>1, EmptySeq
<1> QED
  BY <1>1, <1>2 DEF StreamInv, WholeFrames, InOrder

LEMMA StreamInvHolds == SSpec => []StreamInv
<1>1. SIInv /\ StreamInv /\ [SNext]_allVars => StreamInv'
  BY StreamSteps, StreamStepInv
<1> QED
  BY <1>1, SInitStreamInv, SIInvHolds, PTL DEF SSpec

\* receive_op takes headers for headers only: however the reads cut the stream,
\* and whatever is answered, skipped, delivered, cancelled or timed out, the
\* buffer begins with the first unit of a frame (consume(command_length) after
\* the frame has been handled).
THEOREM StreamStaysInSync == SSpec => []StreamInSync
<1>1. SIInv /\ StreamInv => StreamInSync
  <2> SUFFICES ASSUME SIInv, StreamInv PROVE StreamInSync
    OBVIOUS
  <2>1. Stream \in Seq(PeerUnit) /\ WholeFrames(Stream)
    BY StreamType DEF SIInv, StreamInv
  <2>2. /\ Stream # <<>> => Stream[1].part = 1
        /\ \A i \in 1..Len(Stream) - 1 : Follows(Stream[i + 1], Stream[i])
    BY <2>1, WholeInSync
  <2> QED
    BY <2>2 DEF StreamInSync, Stream
<1> QED
  BY <1>1, StreamInvHolds, SIInvHolds, PTL

\* A stream of whole frames is its first frame followed by the rest.
LEMMA HeadAndRest ==
  ASSUME NEW s \in Seq(PeerUnit), s # <<>>, WholeFrames(s),
         NEW n, n = Size(s[1].frame.cmd)
  PROVE  s = UnitsOf(s[1].frame) \o SubSeq(s, n + 1, Len(s))
<1> DEFINE f == s[1].frame
           r == UnitsOf(f)
           t == SubSeq(s, n + 1, Len(s))
<1>1. /\ n \in 1..Len(s) /\ n \in 0..Len(s) /\ Len(s) \in Nat /\ n \in Nat
      /\ \A k \in 1..n : s[k] = [frame |-> f, part |-> k]
      /\ 1 \in 1..Len(s)
  BY HeadWhole, LenProperties, EmptySeq
<1>2. f \in Frame /\ f.cmd \in Cmds /\ (f.cmd \in RxCommands => f.seq # 0)
  <2>1. s[1] \in PeerUnit
    BY <1>1, ElementOfSeq
  <2> QED
    BY <2>1 DEF PeerUnit, Unit
<1> HIDE DEF f
<1>3. /\ r \in Seq(PeerUnit) /\ Len(r) = n
      /\ \A i \in 1..n : r[i] = [frame |-> f, part |-> i]
  <2>1. n = Size(f.cmd)
    BY DEF f
  <2> QED
    BY <1>2, <2>1, UnitsOfType
<1> HIDE DEF r
<1>4. /\ t \in Seq(PeerUnit) /\ Len(t) = Len(s) - n
      /\ \A i \in 1..Len(s) - n : t[i] = s[n + i]
  <2>1. n \in 0..Len(s)
    BY <1>1
  <2> QED
    BY <2>1, DropType
<1> HIDE DEF t
<1>5. /\ r \o t \in Seq(PeerUnit)
      /\ Len(r \o t) = Len(r) + Len(t)
      /\ \A i \in 1..Len(r) + Len(t) :
           (r \o t)[i] = IF i <= Len(r) THEN r[i] ELSE t[i - Len(r)]
  BY <1>3, <1>4, ConcatProperties
<1> DEFINE w == r \o t
<1> HIDE DEF w
<1>6. /\ w \in Seq(PeerUnit) /\ Len(w) = Len(s)
      /\ \A i \in 1..Len(s) : w[i] = IF i <= n THEN r[i] ELSE t[i - n]
  <2>1. Len(r) + Len(t) = Len(s) /\ Len(r) = n
    BY <1>1, <1>3, <1>4
  <2> QED
    BY <1>5, <2>1, Zenon DEF w
<1>7. ASSUME NEW i \in 1..Len(s) PROVE s[i] = w[i]
  <2>1. CASE i <= n
    <3>1. i \in 1..n
      BY <1>1, <2>1
    <3> QED
      BY <1>1, <1>3, <1>6, <2>1, <3>1
  <2>2. CASE ~(i <= n)
    <3>1. i - n \in 1..Len(s) - n /\ n + (i - n) = i
      BY <1>1, <2>2
    <3> QED
      BY <1>4, <1>6, <2>2, <3>1
  <2> QED
    BY <2>1, <2>2
<1>8. s = w
  BY <1>6, <1>7, SeqEqual
<1> QED
  BY <1>8 DEF w, r, t, f

LEMMA ConsumesHead ==
  ASSUME SIInv, StreamInv, ConsumesFrame, DealsWith(HeadFrame)
  PROVE  HandlesHead
<1> DEFINE f == Stream[1].frame
           n == Size(f.cmd)
<1>1. /\ Stream \in Seq(PeerUnit) /\ consumed \in Int /\ peer_seq \in Int
      /\ WholeFrames(Stream) /\ InOrder(Stream, consumed, peer_seq)
  BY StreamType, SessionAssumption DEF SIInv, RxTypes, StreamInv
<1>2. /\ Stream # <<>> /\ HeadFrame = f
      /\ Stream' = SubSeq(Stream, n + 1, Len(Stream))
  BY ConsumeStream DEF SIInv, HeadFrame
<1>3. Stream = UnitsOf(f) \o Stream'
  BY <1>1, <1>2, HeadAndRest
<1>4. consumed' = IF Counts(Stream[1]) THEN f.seq ELSE consumed
  BY <1>2 DEF ConsumesFrame, Consume, Counts
<1>5. consumed' \in {consumed, consumed + 1}
  BY <1>1, <1>2, <1>4, DropInOrder
<1>6. Counts(Stream[1]) => f.seq \in consumed + 1..peer_seq
  <2>1. 1 \in 1..Len(Stream)
    BY <1>1, <1>2, EmptySeq, LenProperties
  <2> QED
    BY <1>1, <2>1 DEF InOrder
<1>7. Counts(Stream[1]) => f.seq = consumed + 1
  BY <1>1, <1>4, <1>5, <1>6
<1>8. /\ consumed' = IF f.cmd \in Numbered THEN consumed + 1 ELSE consumed
      /\ f.cmd \in Numbered => f.seq = consumed + 1
  BY <1>4, <1>7 DEF Counts
<1>9. DealsWith(f)
  BY <1>2
<1> QED
  BY <1>2, <1>3, <1>8, <1>9 DEF HandlesHead

\* receive_op deals with the peer's frames in their order, with each once and as
\* its kind asks for, also when a frame arrives in parts, is answered first, is
\* delivered by a posted handler, or the read that brought it was cancelled or
\* timed out (the branches of receive_op and their consume(command_length)).
THEOREM EveryFrameHandledOnce == SSpec => FramesHandledOnce
<1> DEFINE Handled == \/ HandlesHead
                      \/ HandlesNothing /\ Stream' = Stream
                      \/ HandlesNothing /\ PeerAddsFrame
<1>1. SIInv /\ StreamInv /\ [SNext]_allVars => [Handled]_allVars
  <2> SUFFICES ASSUME SIInv, StreamInv, [SNext]_allVars PROVE Handled
    OBVIOUS
  <2>1. CASE ConsumesFrame /\ DealsWith(HeadFrame)
    BY <2>1, ConsumesHead
  <2>2. CASE HandlesNothing /\ \E f \in Frame : PeerFrame(f)
    BY <2>2 DEF PeerFrame, PeerSends, rxVars, rxState, PeerAddsFrame
  <2> QED
    BY <2>1, <2>2, StreamSteps DEF StreamStep
<1> QED
  BY <1>1, StreamInvHolds, SIInvHolds, PTL DEF SSpec, FramesHandledOnce
=============================================================================
