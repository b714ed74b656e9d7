--------------------------- MODULE MessagesProofs ---------------------------
(***************************************************************************)
(* Theorems about utility/short_message.hpp and unicode.hpp: what parsing, *)
(* packing, unpacking and converting return, for texts of any length; and  *)
(* about the way of a short message from one end to the other.             *)
(***************************************************************************)
EXTENDS Messages, SerializationProofs

(* The user data header: serialize() and the constructor from a string.    *)

\* A header of user_data_header: its tag and its value.
Header == Byte \X Seq(Byte)

\* One turn of the loop that parses a header, at position i of buf, when g says
\* what the turns behind it return.
UdhTurn(buf, g, i) ==
  IF Len(buf) - i + 1 < 2 THEN [ok |-> TRUE, headers |-> <<>>]
  ELSE LET tag        == buf[i]
           val_length == buf[i + 1]
           next       == i + 2 + val_length
       IN  IF \/ val_length > Len(buf) - i - 1
              \/ tag = concatenated_sm_8bit_ref /\ val_length # 3
              \/ tag = concatenated_sm_16bit_ref /\ val_length # 4
           THEN [ok |-> FALSE, headers |-> <<>>]
           ELSE [g[next] EXCEPT !.headers =
                   << <<tag, SubSeq(buf, i + 2, next - 1)>> >> \o @]

UdhLoop(buf, g) == g = [i \in 1..Len(buf) + 1 |-> UdhTurn(buf, g, i)]

\* A turn looks at turns behind it only.
LEMMA UdhTurnLooksAhead ==
  ASSUME NEW buf \in Seq(Byte), NEW f, NEW g, NEW i \in 1..Len(buf) + 1,
         \A j \in i + 1..Len(buf) + 1 : f[j] = g[j]
  PROVE  UdhTurn(buf, f, i) = UdhTurn(buf, g, i)
<1> DEFINE next == i + 2 + buf[i + 1]
<1>1. Len(buf) \in Nat /\ i \in Nat
  BY LenProperties
<1>2. CASE Len(buf) - i + 1 < 2
  BY <1>2 DEF UdhTurn
<1>3. CASE ~(Len(buf) - i + 1 < 2)
  <2>1. i + 1 \in 1..Len(buf) /\ Len(buf) \in Nat
    BY <1>1, <1>3
  <2>2. buf[i + 1] \in Nat
    BY <2>1, ByteAt
  <2>3. ~(buf[i + 1] > Len(buf) - i - 1) => next \in i + 1..Len(buf) + 1
    BY <1>1, <2>1, <2>2
  <2>4. ~(buf[i + 1] > Len(buf) - i - 1) => f[next] = g[next]
    BY <2>3
  <2> QED BY <2>4 DEF UdhTurn
<1> QED BY <1>2, <1>3

\* There is such a function: the loop ends, since it moves on at each turn.
LEMMA UdhLoopExists ==
  ASSUME NEW buf \in Seq(Byte)
  PROVE  \E g : UdhLoop(buf, g)
<1> DEFINE n == Len(buf) + 1
           Behind(g, k) == /\ g = [i \in 1..n |-> g[i]]
                         /\ \A i \in 1..n : i > n - k => g[i] = UdhTurn(buf, g, i)
           K == {k \in Nat : \E g : Behind(g, k)}
<1>1. n \in Nat
  BY LenProperties
<1>2. 0 \in K
  <2> DEFINE g == [i \in 1..n |-> 0]
  <2>1. g = [i \in 1..n |-> g[i]]
    OBVIOUS
  <2>2. \A i \in 1..n : ~(i > n - 0)
    BY <1>1
  <2> HIDE DEF g, n
  <2>3. Behind(g, 0)
    BY <2>1, <2>2
  <2> QED BY <2>3
<1>3. ASSUME NEW k \in Nat, k \in K PROVE k + 1 \in K
  <2>1. PICK f : Behind(f, k)
    BY <1>3
  <2> DEFINE g == [i \in 1..n |-> IF i = n - k THEN UdhTurn(buf, f, i) ELSE f[i]]
  <2>2. g = [i \in 1..n |-> g[i]]
    OBVIOUS
  <2>3. \A j \in 1..n : j # n - k => g[j] = f[j]
    OBVIOUS
  <2>4. n - k \in 1..n => g[n - k] = UdhTurn(buf, f, n - k)
    OBVIOUS
  <2> HIDE DEF g
  <2>5. ASSUME NEW i \in 1..n, i > n - (k + 1)
        PROVE  g[i] = UdhTurn(buf, g, i)
    <3>1. i = n - k \/ i > n - k
      BY <1>1, <2>5
    <3>2. \A j \in i + 1..n : j \in 1..n /\ j # n - k
      BY <1>1, <3>1
    <3>3. \A j \in i + 1..n : f[j] = g[j]
      BY <2>3, <3>2
    <3>4. UdhTurn(buf, f, i) = UdhTurn(buf, g, i)
      BY <3>3, UdhTurnLooksAhead
    <3>5. CASE i = n - k
      BY <2>4, <3>4, <3>5
    <3>6. CASE i > n - k
      <4>1. i # n - k
        BY <1>1, <3>6
      <4>2. f[i] = UdhTurn(buf, f, i)
        BY <2>1, <3>6
      <4> QED BY <2>3, <3>4, <4>1, <4>2
    <3> QED BY <3>1, <3>5, <3>6
  <2>6. Behind(g, k + 1)
    BY <2>2, <2>5
  <2> HIDE DEF Behind
  <2> QED BY <2>6
<1>4. n \in K
  <2> HIDE DEF K
  <2>1. Nat \subseteq K
    BY <1>2, <1>3, NatSetInduction
  <2> QED BY <1>1, <2>1
<1>5. PICK g : Behind(g, n)
  BY <1>4
<1>6. \A i \in 1..n : i > n - n
  BY <1>1
<1>7. g = [i \in 1..n |-> UdhTurn(buf, g, i)]
  <2>1. \A i \in 1..n : g[i] = UdhTurn(buf, g, i)
    BY <1>5, <1>6
  <2>2. g = [i \in 1..n |-> g[i]]
    BY <1>5
  <2> QED BY <2>1, <2>2
<1> QED BY <1>7 DEF UdhLoop

\* The constructor returns what such a function says of the first position.
LEMMA ParseUdhIs ==
  ASSUME NEW buf \in Seq(Byte)
  PROVE  \E g : UdhLoop(buf, g) /\ ParseUdh(buf) = g[1]
<1> DEFINE g == CHOOSE g : UdhLoop(buf, g)
<1>1. UdhLoop(buf, g)
  BY UdhLoopExists
<1>2. ParseUdh(buf) = g[1]
  BY DEF ParseUdh, UdhLoop, UdhTurn
<1> QED BY <1>1, <1>2

\* The bytes of one header.
HeaderBytes(h) == <<h[1], Len(h[2]) % 256>> \o h[2]

\* A header that the parser admits and the serializer keeps.
Sound ==
  {h \in Header : /\ Len(h[2]) <= 255
                  /\ h[1] = concatenated_sm_8bit_ref => Len(h[2]) = 3
                  /\ h[1] = concatenated_sm_16bit_ref => Len(h[2]) = 4}

\* Two bytes in front of a string.
LEMMA InFront ==
  ASSUME NEW a \in Byte, NEW b \in Byte, NEW s \in Seq(Byte),
         NEW w, w = <<a, b>> \o s
  PROVE  /\ w \in Seq(Byte) /\ Len(w) = Len(s) + 2
         /\ w[1] = a /\ w[2] = b
         /\ \A i \in 1..Len(s) : w[i + 2] = s[i]
<1>1. PICK lead : lead = <<a, b>>
  OBVIOUS
<1>2. lead \in Seq(Byte) /\ Len(lead) = 2 /\ lead[1] = a /\ lead[2] = b
  BY <1>1
<1>3. w = lead \o s
  BY <1>1
<1>4. /\ w \in Seq(Byte) /\ Len(w) = 2 + Len(s) /\ Len(s) \in Nat
      /\ \A i \in 1..2 + Len(s) : w[i] = IF i <= 2 THEN lead[i] ELSE s[i - 2]
  <2>1. /\ w \in Seq(Byte) /\ Len(w) = Len(lead) + Len(s)
        /\ \A i \in 1..Len(lead) + Len(s) :
             w[i] = IF i <= Len(lead) THEN lead[i] ELSE s[i - Len(lead)]
    BY <1>2, <1>3, ConcatProperties
  <2> QED BY <1>2, <2>1, LenProperties
<1>5. ASSUME NEW i \in 1..Len(s) PROVE w[i + 2] = s[i]
  <2>1. i + 2 \in 1..2 + Len(s) /\ ~(i + 2 <= 2) /\ i + 2 - 2 = i
    BY <1>4
  <2> QED BY <1>4, <2>1
<1>6. w[1] = a /\ w[2] = b /\ Len(w) = Len(s) + 2
  BY <1>2, <1>4
<1> QED BY <1>4, <1>5, <1>6

\* The bytes of a header: its tag, the length of its value, and the value.
LEMMA HeaderBytesAre ==
  ASSUME NEW h \in Header
  PROVE  /\ HeaderBytes(h) \in Seq(Byte)
         /\ Len(HeaderBytes(h)) = Len(h[2]) + 2
         /\ HeaderBytes(h)[1] = h[1]
         /\ HeaderBytes(h)[2] = Len(h[2]) % 256
         /\ \A i \in 1..Len(h[2]) : HeaderBytes(h)[i + 2] = h[2][i]
<1>1. h[1] \in Byte /\ h[2] \in Seq(Byte) /\ Len(h[2]) \in Nat
  BY LenProperties DEF Header
<1>2. Len(h[2]) % 256 \in Byte
  BY <1>1, ModByte
<1>3. PICK a \in Byte, b \in Byte, s \in Seq(Byte) :
        a = h[1] /\ b = Len(h[2]) % 256 /\ s = h[2]
  BY <1>1, <1>2
<1> PICK w : w = HeaderBytes(h)
  OBVIOUS
<1>4. w = <<a, b>> \o s
  BY <1>3 DEF HeaderBytes
<1>5. /\ w \in Seq(Byte) /\ Len(w) = Len(s) + 2
      /\ w[1] = a /\ w[2] = b
      /\ \A i \in 1..Len(s) : w[i + 2] = s[i]
  BY <1>4, InFront
<1> QED BY <1>3, <1>5

\* serialize() writes the headers one behind the other.
LEMMA UdhCons ==
  ASSUME NEW h \in Header, NEW t \in Seq(Header)
  PROVE  /\ SerializeUdh(t) \in Seq(Byte)
         /\ SerializeUdh(<<h>> \o t) = HeaderBytes(h) \o SerializeUdh(t)
<1> DEFINE bytes(s) == [i \in DOMAIN s |-> HeaderBytes(s[i])]
           u == <<h>> \o t
<1>1. ASSUME NEW s \in Seq(Header)
      PROVE  /\ bytes(s) \in Seq(Seq(Byte))
             /\ Len(bytes(s)) = Len(s)
             /\ \A i \in 1..Len(s) : bytes(s)[i] = HeaderBytes(s[i])
             /\ SerializeUdh(s) = FlattenSeq(bytes(s))
  <2>1. DOMAIN s = 1..Len(s) /\ Len(s) \in Nat
    BY LenProperties
  <2>2. \A i \in 1..Len(s) : HeaderBytes(s[i]) \in Seq(Byte)
    BY ElementOfSeq, HeaderBytesAre
  <2>3. SerializeUdh(s) = FlattenSeq(bytes(s))
    BY DEF SerializeUdh, HeaderBytes
  <2> QED BY <2>1, <2>2, <2>3
<1> HIDE DEF bytes
<1>2. SerializeUdh(t) \in Seq(Byte)
  BY <1>1, FlattenType
<1>3. /\ u \in Seq(Header) /\ Len(u) = 1 + Len(t) /\ Len(t) \in Nat
      /\ u[1] = h
      /\ \A i \in 1..Len(t) : u[i + 1] = t[i]
  <2>1. <<h>> \in Seq(Header) /\ Len(<<h>>) = 1 /\ <<h>>[1] = h
    OBVIOUS
  <2>2. /\ u \in Seq(Header) /\ Len(u) = 1 + Len(t)
        /\ \A i \in 1..1 + Len(t) : u[i] = IF i <= 1 THEN <<h>>[i] ELSE t[i - 1]
    BY <2>1, ConcatProperties
  <2> HIDE DEF u
  <2>3. Len(t) \in Nat
    BY LenProperties
  <2>4. ASSUME NEW i \in 1..Len(t) PROVE u[i + 1] = t[i]
    <3>1. i + 1 \in 1..1 + Len(t) /\ ~(i + 1 <= 1) /\ i + 1 - 1 = i
      BY <2>3
    <3> QED BY <2>2, <3>1
  <2>5. 1 \in 1..1 + Len(t)
    BY <2>3
  <2> QED BY <2>1, <2>2, <2>3, <2>4, <2>5
<1> HIDE DEF u
<1>4. bytes(u) = <<HeaderBytes(h)>> \o bytes(t)
  <2> DEFINE x == HeaderBytes(h)
             v == <<x>> \o bytes(t)
  <2>1. x \in Seq(Byte)
    BY HeaderBytesAre
  <2> HIDE DEF x
  <2>2. <<x>> \in Seq(Seq(Byte)) /\ Len(<<x>>) = 1 /\ <<x>>[1] = x
    BY <2>1
  <2>3. /\ v \in Seq(Seq(Byte)) /\ Len(v) = 1 + Len(t)
        /\ \A i \in 1..1 + Len(t) : v[i] = IF i <= 1 THEN <<x>>[i] ELSE bytes(t)[i - 1]
    BY <1>1, <2>2, ConcatProperties
  <2> HIDE DEF v
  <2>4. bytes(u) \in Seq(Seq(Byte)) /\ Len(bytes(u)) = 1 + Len(t)
    BY <1>1, <1>3
  <2>5. ASSUME NEW i \in 1..1 + Len(t) PROVE bytes(u)[i] = v[i]
    <3>1. CASE i = 1
      BY <1>1, <1>3, <2>2, <2>3, <3>1 DEF x
    <3>2. CASE i # 1
      <4>1. /\ i - 1 \in 1..Len(t) /\ ~(i <= 1) /\ i - 1 + 1 = i
            /\ i \in 1..Len(u)
        BY <1>3, <3>2
      <4>2. bytes(u)[i] = HeaderBytes(u[i]) /\ u[i] = t[i - 1]
        BY <1>1, <1>3, <4>1
      <4>3. bytes(t)[i - 1] = HeaderBytes(t[i - 1])
        BY <1>1, <4>1
      <4> QED BY <2>3, <4>1, <4>2, <4>3
    <3> QED BY <3>1, <3>2
  <2>6. bytes(u) = v
    BY <2>3, <2>4, <2>5, SeqEqual
  <2> QED BY <2>6 DEF v, x
<1>5. FlattenSeq(<<HeaderBytes(h)>> \o bytes(t)) = HeaderBytes(h) \o FlattenSeq(bytes(t))
  BY <1>1, HeaderBytesAre, FlattenCons
<1> QED BY <1>1, <1>2, <1>3, <1>4, <1>5 DEF u

\* serialize() writes nothing when there is no header.
LEMMA NoHeaders == SerializeUdh(<<>>) = <<>>
BY FlattenEmpty DEF SerializeUdh

\* A header in front of those that the rest of the loop returns.
LEMMA Extended ==
  ASSUME NEW a, NEW t, NEW x, NEW r, r = [ok |-> a, headers |-> t]
  PROVE  [r EXCEPT !.headers = x \o @] = [ok |-> a, headers |-> x \o t]
<1>1. PICK y : y = x \o t
  OBVIOUS
<1>2. [r EXCEPT !.headers = y] = [ok |-> a, headers |-> y]
  OBVIOUS
<1>3. r.headers = t
  OBVIOUS
<1> QED BY <1>1, <1>2, <1>3

\* Those headers are headers.
LEMMA SoundIsHeader == Sound \subseteq Header /\ Seq(Sound) \subseteq Seq(Header)
<1>1. Sound \subseteq Header
  BY DEF Sound
<1> QED BY <1>1, SeqMonotonic

\* What serialize() writes, the constructor parses.
LEMMA UdhParsedBack ==
  ASSUME NEW buf \in Seq(Byte), NEW g, UdhLoop(buf, g)
  PROVE  \A hs \in Seq(Sound), i \in 1..Len(buf) + 1 :
           Rest(buf, i) = SerializeUdh(hs)
             => g[i] = [ok |-> TRUE, headers |-> hs]
<1> DEFINE n == Len(buf)
           Back(hs) == \A i \in 1..n + 1 :
             Rest(buf, i) = SerializeUdh(hs)
               => g[i] = [ok |-> TRUE, headers |-> hs]
           K == {k \in Nat : \A hs \in Seq(Sound) : Len(hs) = k => Back(hs)}
<1>1. n \in Nat
  BY LenProperties
<1>2. \A i \in 1..n + 1 : g[i] = UdhTurn(buf, g, i)
  BY DEF UdhLoop
<1>3. 0 \in K
  <2> SUFFICES ASSUME NEW hs \in Seq(Sound), Len(hs) = 0,
                      NEW i \in 1..n + 1, Rest(buf, i) = SerializeUdh(hs)
               PROVE  g[i] = [ok |-> TRUE, headers |-> hs]
    OBVIOUS
  <2>1. hs = <<>>
    BY EmptySeq
  <2>2. Rest(buf, i) = <<>>
    BY <2>1, NoHeaders
  <2>3. Len(Rest(buf, i)) = n - i + 1
    BY From DEF Rest
  <2>4. n - i + 1 < 2
    BY <1>1, <2>2, <2>3
  <2>5. UdhTurn(buf, g, i) = [ok |-> TRUE, headers |-> <<>>]
    BY <2>4 DEF UdhTurn
  <2> QED BY <1>2, <2>1, <2>5
<1>4. ASSUME NEW k \in Nat, k \in K PROVE k + 1 \in K
  <2> SUFFICES ASSUME NEW hs \in Seq(Sound), Len(hs) = k + 1,
                      NEW i \in 1..n + 1, Rest(buf, i) = SerializeUdh(hs)
               PROVE  g[i] = [ok |-> TRUE, headers |-> hs]
    OBVIOUS
  <2>1. PICK h \in Sound, t \in Seq(Sound) : hs = <<h>> \o t /\ Len(hs) = Len(t) + 1
    <3>1. hs # <<>>
      BY EmptySeq
    <3> QED BY <3>1, FirstAndRest
  <2>2. h \in Header /\ t \in Seq(Header)
    BY SoundIsHeader
  <2>3. PICK w \in Seq(Byte), u \in Seq(Byte) :
          w = HeaderBytes(h) /\ u = SerializeUdh(t)
    BY <2>2, HeaderBytesAre, UdhCons
  <2>4. Rest(buf, i) = w \o u
    BY <2>1, <2>2, <2>3, UdhCons
  <2>5. PICK tag, val : tag = h[1] /\ val = h[2]
    OBVIOUS
  <2>6. /\ h = <<tag, val>> /\ tag \in Byte /\ val \in Seq(Byte)
        /\ Len(val) \in Nat /\ Len(val) <= 255
        /\ tag = concatenated_sm_8bit_ref => Len(val) = 3
        /\ tag = concatenated_sm_16bit_ref => Len(val) = 4
    <3>1. h = <<tag, val>> /\ tag \in Byte /\ val \in Seq(Byte)
      BY <2>2, <2>5 DEF Header
    <3>2. /\ Len(val) <= 255
          /\ tag = concatenated_sm_8bit_ref => Len(val) = 3
          /\ tag = concatenated_sm_16bit_ref => Len(val) = 4
      BY <2>5 DEF Sound
    <3> QED BY <3>1, <3>2, LenProperties
  <2>7. /\ Len(w) = Len(val) + 2 /\ w[1] = tag /\ w[2] = Len(val)
        /\ \A j \in 1..Len(val) : w[j + 2] = val[j]
    <3>1. /\ Len(w) = Len(val) + 2 /\ w[1] = tag /\ w[2] = Len(val) % 256
          /\ \A j \in 1..Len(val) : w[j + 2] = val[j]
      BY <2>2, <2>3, <2>5, HeaderBytesAre
    <3> QED BY <2>6, <3>1, ModByte
  <2>8. /\ i + Len(w) \in 1..n + 1
        /\ \A j \in 1..Len(w) : buf[i + j - 1] = w[j]
        /\ Rest(buf, i + Len(w)) = u
    <3>1. PartedAt(buf, i, w, u)
      BY <2>4, PartsFrom
    <3> QED BY <3>1 DEF PartedAt
  <2>9. PICK next : next = i + 2 + Len(val)
    OBVIOUS
  <2>10. next \in 1..n + 1 /\ Rest(buf, next) = u /\ i \in Nat
    BY <2>6, <2>7, <2>8, <2>9
  <2>11. g[next] = [ok |-> TRUE, headers |-> t]
    <3>1. Len(t) = k
      BY <2>1, LenProperties
    <3> QED BY <1>4, <2>3, <2>10, <3>1
  <2>12. buf[i] = tag /\ buf[i + 1] = Len(val)
    <3>1. 1 \in 1..Len(w) /\ 2 \in 1..Len(w) /\ i + 1 - 1 = i /\ i + 2 - 1 = i + 1
      BY <2>6, <2>7, <2>10
    <3> QED BY <2>7, <2>8, <3>1
  <2>13. SubSeq(buf, i + 2, next - 1) = val
    <3>1. PICK v : v = SubSeq(buf, i + 2, next - 1)
      OBVIOUS
    <3>2. /\ \A j \in i + 2..next - 1 : buf[j] \in Byte
          /\ i + 2 \in Int /\ next - 1 \in Int
          /\ next - 1 - (i + 2) + 1 = Len(val)
      BY <1>1, <2>6, <2>9, <2>10, ElementOfSeq
    <3>3. /\ v \in Seq(Byte)
          /\ Len(v) = IF i + 2 <= next - 1 THEN next - 1 - (i + 2) + 1 ELSE 0
          /\ \A j \in 1..next - 1 - (i + 2) + 1 : v[j] = buf[i + 2 + j - 1]
      BY <3>1, <3>2, SubSeqProperties, SMTT(20)
    <3>4. Len(v) = Len(val)
      BY <2>6, <2>9, <2>10, <3>3
    <3>5. ASSUME NEW j \in 1..Len(v) PROVE v[j] = val[j]
      <4>1. /\ j \in 1..Len(val) /\ j + 2 \in 1..Len(w)
            /\ i + (j + 2) - 1 = i + 2 + j - 1
        BY <2>6, <2>7, <2>10, <3>4
      <4>2. v[j] = buf[i + 2 + j - 1]
        BY <3>2, <3>3, <3>4
      <4> QED BY <2>7, <2>8, <4>1, <4>2
    <3>6. v = val
      BY <2>6, <3>3, <3>4, <3>5, SeqEqual
    <3> QED BY <3>1, <3>6
  <2>14. ~(n - i + 1 < 2) /\ ~(Len(val) > n - i - 1)
    BY <1>1, <2>6, <2>9, <2>10
  <2>15. UdhTurn(buf, g, i) = [g[next] EXCEPT !.headers = << <<tag, val>> >> \o @]
    BY <2>6, <2>9, <2>12, <2>13, <2>14 DEF UdhTurn
  <2>16. UdhTurn(buf, g, i) = [ok |-> TRUE, headers |-> <<h>> \o t]
    <3>1. PICK r, x, y : /\ r = g[next] /\ x = << <<tag, val>> >>
                         /\ y = [r EXCEPT !.headers = x \o @]
      OBVIOUS
    <3>2. r = [ok |-> TRUE, headers |-> t]
      BY <2>11, <3>1
    <3>3. y = [ok |-> TRUE, headers |-> x \o t]
      BY <3>1, <3>2, Extended
    <3>4. x = <<h>>
      BY <2>6, <3>1
    <3>5. UdhTurn(buf, g, i) = y
      BY <2>15, <3>1
    <3> QED BY <3>3, <3>4, <3>5
  <2> QED BY <1>2, <2>1, <2>16
<1> HIDE DEF K
<1>5. Nat \subseteq K
  BY <1>3, <1>4, NatSetInduction
<1> QED BY <1>5, LenProperties DEF K

\* A header that is met at position i, and what is left behind it.
MetAt(buf, i, h, next) ==
  /\ h \in Sound
  /\ next \in i + 2..Len(buf) + 1
  /\ Rest(buf, i) = HeaderBytes(h) \o Rest(buf, next)
  /\ Rest(buf, next) \in Seq(Byte)

\* A turn of the loop that does not throw has met a header at its place.
LEMMA HeaderMet ==
  ASSUME NEW buf \in Seq(Byte), NEW i \in 1..Len(buf) + 1,
         ~(Len(buf) - i + 1 < 2),
         ~(buf[i + 1] > Len(buf) - i - 1),
         buf[i] = concatenated_sm_8bit_ref => buf[i + 1] = 3,
         buf[i] = concatenated_sm_16bit_ref => buf[i + 1] = 4,
         NEW next, next = i + 2 + buf[i + 1],
         NEW h, h = <<buf[i], SubSeq(buf, i + 2, next - 1)>>
  PROVE  MetAt(buf, i, h, next)
<1> DEFINE n == Len(buf)
<1>1. n \in Nat /\ i \in Nat /\ i \in 1..n /\ i + 1 \in 1..n
  BY LenProperties
<1>2. PICK tag, len, val : tag = buf[i] /\ len = buf[i + 1] /\ val = SubSeq(buf, i + 2, next - 1)
  OBVIOUS
<1>3. tag \in Byte /\ len \in Byte /\ len \in Nat /\ len <= 255
  BY <1>1, <1>2, ByteAt
<1>4. next = i + 2 + len /\ next \in i + 2..n + 1 /\ len <= n - i - 1
  <2>1. next = i + 2 + len /\ ~(len > n - i - 1)
    BY <1>2
  <2>2. \A k, l \in Nat : ~(l > k - i - 1) => i + 2 + l \in i + 2..k + 1 /\ l <= k - i - 1
    BY <1>1
  <2> QED BY <1>1, <1>3, <2>1, <2>2
<1>5. /\ val \in Seq(Byte) /\ Len(val) = len
      /\ \A j \in 1..len : val[j] = buf[i + 2 + j - 1]
  <2>1. PICK a, b : a = i + 2 /\ b = (i + 2 + len) - 1
    OBVIOUS
  <2>2. /\ a \in 1..n + 1 /\ b \in Int /\ a <= b + 1 /\ b <= n
        /\ b - a + 1 = len
    <3>1. i >= 1 /\ ~(len > n - i - 1)
      BY <1>2
    <3>2. \A k, l, j \in Nat :
            j >= 1 /\ ~(l > k - j - 1)
            => /\ j + 2 \in 1..k + 1 /\ (j + 2 + l) - 1 \in Int
               /\ j + 2 <= (j + 2 + l) - 1 + 1 /\ (j + 2 + l) - 1 <= k
               /\ (j + 2 + l) - 1 - (j + 2) + 1 = l
      OBVIOUS
    <3> HIDE DEF n
    <3> QED BY <1>1, <1>3, <2>1, <3>1, <3>2
  <2>3. val = SubSeq(buf, a, b)
    BY <1>2, <1>4, <2>1
  <2>4. /\ val \in Seq(Byte) /\ Len(val) = b - a + 1
        /\ \A j \in 1..b - a + 1 : val[j] = buf[a + j - 1]
    BY <2>2, <2>3, SubSeqBytes
  <2> QED BY <2>1, <2>2, <2>4
<1>6. h = <<tag, val>> /\ h \in Header /\ h[1] = tag /\ h[2] = val
  BY <1>2, <1>3, <1>5 DEF Header
<1>7. h \in Sound
  BY <1>2, <1>3, <1>5, <1>6 DEF Sound
<1>8. PICK r, q, w :
        r = Rest(buf, i) /\ q = Rest(buf, next) /\ w = HeaderBytes(h)
  OBVIOUS
<1>9. /\ r \in Seq(Byte) /\ Len(r) = n - i + 1
      /\ \A j \in 1..n - i + 1 : r[j] = buf[i + j - 1]
  <2>1. RestIs(Byte, buf, i, r)
    BY <1>8, RestOf
  <2> QED BY <2>1 DEF RestIs
<1>10. /\ q \in Seq(Byte) /\ Len(q) = n - next + 1
       /\ \A j \in 1..n - next + 1 : q[j] = buf[next + j - 1]
  <2>1. next \in 1..n + 1
    BY <1>1, <1>4
  <2>2. RestIs(Byte, buf, next, Rest(buf, next))
    BY <2>1, RestOf
  <2> QED BY <1>8, <2>2 DEF RestIs
<1>11. /\ w \in Seq(Byte) /\ Len(w) = len + 2 /\ w[1] = tag /\ w[2] = len
       /\ \A j \in 1..len : w[j + 2] = val[j]
  <2>1. /\ w \in Seq(Byte) /\ Len(w) = Len(val) + 2 /\ w[1] = tag
        /\ w[2] = Len(val) % 256
        /\ \A j \in 1..Len(val) : w[j + 2] = val[j]
    BY <1>6, <1>8, HeaderBytesAre
  <2> QED BY <1>3, <1>5, <2>1, ModByte
<1>12. r = w \o q
  <2>1. PICK c : c = w \o q
    OBVIOUS
  <2>2. /\ c \in Seq(Byte) /\ Len(c) = Len(w) + Len(q)
        /\ \A j \in 1..Len(w) + Len(q) :
             c[j] = IF j <= Len(w) THEN w[j] ELSE q[j - Len(w)]
    <3>1. w \in Seq(Byte) /\ q \in Seq(Byte)
      BY <1>10, <1>11
    <3> QED BY <2>1, <3>1, ConcatProperties
  <2>3. Len(c) = n - i + 1
    BY <1>1, <1>3, <1>4, <1>10, <1>11, <2>2
  <2>4. ASSUME NEW j \in 1..Len(r) PROVE r[j] = c[j]
    <3>1. r[j] = buf[i + j - 1] /\ j \in 1..Len(w) + Len(q) /\ j \in Nat
      <4>1. j \in 1..n - i + 1
        BY <1>9, Zenon
      <4>2. j \in 1..Len(w) + Len(q)
        BY <2>2, <2>3, <4>1, Zenon
      <4>3. j \in Nat
        OBVIOUS
      <4> QED BY <1>9, <4>1, <4>2, <4>3, Zenon
    <3>2. CASE j = 1
      <4>1. i + j - 1 = i /\ j <= Len(w)
        BY <1>1, <1>3, <1>11, <3>2
      <4> QED BY <1>2, <1>11, <2>2, <3>1, <3>2, <4>1
    <3>3. CASE j = 2
      <4>1. i + j - 1 = i + 1 /\ j <= Len(w)
        BY <1>1, <1>3, <1>11, <3>3
      <4> QED BY <1>2, <1>11, <2>2, <3>1, <3>3, <4>1
    <3>4. CASE j > 2 /\ j <= Len(w)
      <4>1. /\ j - 2 \in 1..len /\ (j - 2) + 2 = j
            /\ i + 2 + (j - 2) - 1 = i + j - 1
        BY <1>1, <1>3, <1>11, <3>1, <3>4
      <4>2. w[j] = val[j - 2] /\ val[j - 2] = buf[i + j - 1]
        BY <1>5, <1>11, <4>1
      <4> QED BY <2>2, <3>1, <3>4, <4>2
    <3>5. CASE j > Len(w)
      <4>1. PICK k : k = j - Len(w)
        OBVIOUS
      <4>2. j <= n - i + 1 /\ Len(w) = len + 2
        BY <1>9, <1>11
      <4>3. \A m, l, lw \in Nat : j <= m - i + 1 /\ lw = l + 2 /\ j > lw =>
              /\ j - lw \in 1..m - (i + 2 + l) + 1
              /\ (i + 2 + l) + (j - lw) - 1 = i + j - 1
              /\ ~(j <= lw)
        BY <1>1, <3>1
      <4>4. PICK lw \in Nat : lw = Len(w)
        BY <1>3, <4>2
      <4>5. j <= n - i + 1 /\ lw = len + 2 /\ j > lw
        BY <3>5, <4>2, <4>4
      <4>6. /\ j - lw \in 1..n - (i + 2 + len) + 1
            /\ (i + 2 + len) + (j - lw) - 1 = i + j - 1
            /\ ~(j <= lw)
        BY <1>1, <1>3, <4>3, <4>5
      <4>7. k \in 1..n - next + 1 /\ next + k - 1 = i + j - 1 /\ ~(j <= Len(w))
        BY <1>4, <4>1, <4>4, <4>6
      <4> QED BY <1>10, <2>2, <3>1, <4>1, <4>7
    <3>6. j = 1 \/ j = 2 \/ (j > 2 /\ j <= Len(w)) \/ j > Len(w)
      BY <1>3, <1>11, <3>1
    <3> QED BY <3>2, <3>3, <3>4, <3>5, <3>6
  <2>5. r = c
    BY <1>9, <2>2, <2>3, <2>4, SeqEqual
  <2> QED BY <2>1, <2>5
<1> QED BY <1>4, <1>7, <1>8, <1>10, <1>12 DEF MetAt

\* What the loop returns at position i says what there is, but for one byte.
Read(buf, i, r) ==
  \E ok \in BOOLEAN, hs \in Seq(Sound) :
    /\ r = [ok |-> ok, headers |-> hs]
    /\ ok => \E left \in Seq(Byte) :
               Len(left) <= 1 /\ Rest(buf, i) = SerializeUdh(hs) \o left

\* A turn says what there is when the turns behind it do.
LEMMA UdhTurnReads ==
  ASSUME NEW buf \in Seq(Byte), NEW g, NEW i \in 1..Len(buf) + 1,
         \A j \in i + 1..Len(buf) + 1 : Read(buf, j, g[j])
  PROVE  Read(buf, i, UdhTurn(buf, g, i))
<1> DEFINE n == Len(buf)
           stop == \/ buf[i + 1] > n - i - 1
                   \/ buf[i] = concatenated_sm_8bit_ref /\ buf[i + 1] # 3
                   \/ buf[i] = concatenated_sm_16bit_ref /\ buf[i + 1] # 4
<1>1. n \in Nat /\ i \in Nat /\ <<>> \in Seq(Sound)
  BY LenProperties
<1>2. CASE n - i + 1 < 2
  <2>1. UdhTurn(buf, g, i) = [ok |-> TRUE, headers |-> <<>>]
    BY <1>2 DEF UdhTurn
  <2>2. PICK left : left = Rest(buf, i)
    OBVIOUS
  <2>3. left \in Seq(Byte) /\ Len(left) = n - i + 1
    BY <2>2, From DEF Rest
  <2>4. Len(left) <= 1 /\ <<>> \o left = left
    BY <1>1, <1>2, <2>3, ConcatEmptySeq
  <2>5. Rest(buf, i) = SerializeUdh(<<>>) \o left
    BY <2>2, <2>4, NoHeaders
  <2> QED BY <1>1, <2>1, <2>3, <2>4, <2>5 DEF Read
<1>3. CASE ~(n - i + 1 < 2) /\ stop
  <2>1. UdhTurn(buf, g, i) = [ok |-> FALSE, headers |-> <<>>]
    BY <1>3 DEF UdhTurn
  <2> QED BY <1>1, <2>1 DEF Read
<1>4. CASE ~(n - i + 1 < 2) /\ ~stop
  <2>1. PICK next, h : /\ next = i + 2 + buf[i + 1]
                       /\ h = <<buf[i], SubSeq(buf, i + 2, next - 1)>>
    OBVIOUS
  <2>2. MetAt(buf, i, h, next)
    BY <1>4, <2>1, HeaderMet
  <2>3. UdhTurn(buf, g, i) = [g[next] EXCEPT !.headers = <<h>> \o @]
    BY <1>4, <2>1 DEF UdhTurn
  <2>4. Read(buf, next, g[next])
    <3>1. next \in i + 1..n + 1
      BY <1>1, <2>2 DEF MetAt
    <3> QED BY <3>1
  <2>5. PICK ok \in BOOLEAN, hs \in Seq(Sound) :
          /\ g[next] = [ok |-> ok, headers |-> hs]
          /\ ok => \E left \in Seq(Byte) :
                     Len(left) <= 1 /\ Rest(buf, next) = SerializeUdh(hs) \o left
    BY <2>4 DEF Read
  <2>6. UdhTurn(buf, g, i) = [ok |-> ok, headers |-> <<h>> \o hs]
    <3>1. PICK r, x, y : r = g[next] /\ x = <<h>> /\ y = [r EXCEPT !.headers = x \o @]
      OBVIOUS
    <3>2. y = [ok |-> ok, headers |-> x \o hs]
      BY <2>5, <3>1, Extended
    <3> QED BY <2>3, <3>1, <3>2
  <2>7. <<h>> \o hs \in Seq(Sound)
    <3>1. <<h>> \in Seq(Sound)
      BY <2>2 DEF MetAt
    <3> QED BY <3>1, ConcatProperties
  <2>8. ASSUME ok
        PROVE  \E left \in Seq(Byte) :
                 /\ Len(left) <= 1
                 /\ Rest(buf, i) = SerializeUdh(<<h>> \o hs) \o left
    <3>1. PICK left \in Seq(Byte) :
            Len(left) <= 1 /\ Rest(buf, next) = SerializeUdh(hs) \o left
      BY <2>5, <2>8
    <3>2. h \in Header /\ hs \in Seq(Header)
      BY <2>2, SoundIsHeader DEF MetAt
    <3>3. /\ SerializeUdh(hs) \in Seq(Byte) /\ HeaderBytes(h) \in Seq(Byte)
          /\ SerializeUdh(<<h>> \o hs) = HeaderBytes(h) \o SerializeUdh(hs)
      BY <3>2, UdhCons, HeaderBytesAre
    <3>4. PICK a \in Seq(Byte), b \in Seq(Byte) :
            a = HeaderBytes(h) /\ b = SerializeUdh(hs)
      BY <3>3
    <3>5. a \o (b \o left) = (a \o b) \o left
      <4>1. Associates(a, b, left)
        BY Associative
      <4> QED BY <4>1 DEF Associates
    <3>6. Rest(buf, i) = SerializeUdh(<<h>> \o hs) \o left
      BY <2>2, <3>1, <3>3, <3>4, <3>5 DEF MetAt
    <3> QED BY <3>1, <3>6
  <2> QED BY <2>6, <2>7, <2>8 DEF Read
<1> QED BY <1>2, <1>3, <1>4

\* Every position of a buffer that the constructor visits.
LEMMA UdhReads ==
  ASSUME NEW buf \in Seq(Byte), NEW g, UdhLoop(buf, g)
  PROVE  \A i \in 1..Len(buf) + 1 : Read(buf, i, g[i])
<1> DEFINE n == Len(buf) + 1
           K == {k \in Nat : \A i \in 1..n : i > n - k => Read(buf, i, g[i])}
<1>1. n \in Nat
  BY LenProperties
<1>2. \A i \in 1..n : g[i] = UdhTurn(buf, g, i)
  BY DEF UdhLoop
<1>3. 0 \in K
  BY <1>1
<1>4. ASSUME NEW k \in Nat, k \in K PROVE k + 1 \in K
  <2> SUFFICES ASSUME NEW i \in 1..n, i > n - (k + 1)
               PROVE  Read(buf, i, g[i])
    OBVIOUS
  <2>1. \A j \in i + 1..n : j \in 1..n /\ j > n - k
    BY <1>1
  <2>2. \A j \in i + 1..n : Read(buf, j, g[j])
    BY <1>4, <2>1
  <2>3. Read(buf, i, UdhTurn(buf, g, i))
    BY <2>2, UdhTurnReads
  <2> QED BY <1>2, <2>3
<1> HIDE DEF K
<1>5. Nat \subseteq K
  BY <1>3, <1>4, NatSetInduction
<1>6. n \in K
  BY <1>1, <1>5
<1>7. \A i \in 1..n : i > n - n
  BY <1>1
<1> QED BY <1>6, <1>7 DEF K
-----------------------------------------------------------------------------
(* The conversion of septets.                                              *)

\* Induction over sequences that grow at the front.
LEMMA SeqFrontInduction ==
  ASSUME NEW T, NEW P, <<>> \in P,
         \A x \in T, t \in Seq(T) : t \in P => <<x>> \o t \in P
  PROVE  Seq(T) \subseteq P
<1> DEFINE K == {k \in Nat : \A s \in Seq(T) : Len(s) = k => s \in P}
<1>1. 0 \in K
  BY EmptySeq
<1>2. ASSUME NEW k \in Nat, k \in K PROVE k + 1 \in K
  <2> SUFFICES ASSUME NEW s \in Seq(T), Len(s) = k + 1 PROVE s \in P
    OBVIOUS
  <2>1. s # <<>>
    BY EmptySeq
  <2>2. PICK x \in T, t \in Seq(T) : s = <<x>> \o t /\ Len(s) = Len(t) + 1
    BY <2>1, FirstAndRest
  <2>3. Len(t) = k
    BY <2>2, LenProperties
  <2>4. t \in P
    BY <1>2, <2>3
  <2> QED BY <2>2, <2>4
<1> HIDE DEF K
<1>3. Nat \subseteq K
  BY <1>1, <1>2, NatSetInduction
<1> QED BY <1>3, LenProperties DEF K

\* The tables of gsm_03_38_to_ucs2 hold numbers.
LEMMA FromTables ==
  ASSUME NEW septet \in Byte
  PROVE  /\ gsm_03_38_to_ucs2(septet) \in Nat
         /\ extended_gsm_03_38_to_ucs2(septet) \in Nat
<1> DEFINE D == {<<10, 12>>, <<20, 94>>, <<40, 123>>, <<41, 125>>, <<47, 92>>,
                 <<60, 91>>, <<61, 126>>, <<62, 93>>, <<64, 124>>, <<101, 8364>>}
<1>1. septet \in Nat
  BY DEF Byte
<1>2. gsm_03_38_to_ucs2(septet) \in Nat
  <2>1. << 64, 163, 36, 165, 232, 233, 249, 236, 242, 231, 10, 216, 248, 13,
           197, 229, 916, 95, 934, 915, 923, 937, 928, 936, 931, 920, 926,
           160, 198, 230, 223, 201 >> \in [1..32 -> Nat]
    OBVIOUS
  <2>2. /\ <<196, 214, 209, 220, 167, 191>> \in [1..6 -> Nat]
        /\ <<228, 246, 241, 252, 224>> \in [1..5 -> Nat]
    OBVIOUS
  <2> QED BY <1>1, <2>1, <2>2 DEF gsm_03_38_to_ucs2
<1>3. \A d \in D : d[2] \in Nat
  OBVIOUS
<1>4. extended_gsm_03_38_to_ucs2(septet)
        = IF \E d \in D : d[1] = septet THEN (CHOOSE d \in D : d[1] = septet)[2] ELSE 32
  BY DEF extended_gsm_03_38_to_ucs2
<1> HIDE DEF D
<1> QED BY <1>2, <1>3, <1>4

\* A turn of the loop of convert_gsm_to_ucs2 appends bytes.
LEMMA TurnType ==
  ASSUME NEW septet \in Byte, NEW extended \in BOOLEAN
  PROVE  /\ ConvertSeptet(septet, extended).ucs2 \in Seq(Byte)
         /\ ConvertSeptet(septet, extended).extended \in BOOLEAN
<1> DEFINE n == IF extended THEN extended_gsm_03_38_to_ucs2(septet)
                ELSE gsm_03_38_to_ucs2(septet)
<1>1. n \in Nat
  BY FromTables
<1>2. ConvertSeptet(septet, extended) =
        IF septet > 127 THEN [ucs2 |-> <<>>, extended |-> extended]
        ELSE IF ~extended /\ septet = Escape THEN [ucs2 |-> <<>>, extended |-> TRUE]
        ELSE [ucs2 |-> U16(n), extended |-> FALSE]
  BY DEF ConvertSeptet
<1> HIDE DEF n
<1>3. U16(n) \in Seq(Byte)
  <2>1. \A k \in Nat : k \div 256 % 256 \in Byte /\ k % 256 \in Byte
    BY DEF Byte
  <2> QED BY <1>1, <2>1 DEF U16
<1>4. PICK w : w = U16(n)
  OBVIOUS
<1>5. \/ ConvertSeptet(septet, extended) = [ucs2 |-> <<>>, extended |-> extended]
      \/ ConvertSeptet(septet, extended) = [ucs2 |-> <<>>, extended |-> TRUE]
      \/ ConvertSeptet(septet, extended) = [ucs2 |-> w, extended |-> FALSE]
  BY <1>2, <1>4, Zenon
<1>6. w \in Seq(Byte) /\ <<>> \in Seq(Byte)
  BY <1>3, <1>4
<1>7. PICK turn : turn = ConvertSeptet(septet, extended)
  OBVIOUS
<1>8. turn.ucs2 \in {<<>>, w} /\ turn.extended \in BOOLEAN
  <2>1. CASE turn = [ucs2 |-> <<>>, extended |-> extended]
    BY <2>1
  <2>2. CASE turn = [ucs2 |-> <<>>, extended |-> TRUE]
    BY <2>2
  <2>3. CASE turn = [ucs2 |-> w, extended |-> FALSE]
    BY <2>3
  <2> QED BY <1>5, <1>7, <2>1, <2>2, <2>3
<1> QED BY <1>6, <1>7, <1>8

\* One turn of the conversion's loop, when f says what the turns behind it append.
GsmTurn(text, f, at) ==
  IF at[1] > Len(text) THEN <<>>
  ELSE LET turn == ConvertSeptet(text[at[1]], at[2])
       IN  turn.ucs2 \o f[<<at[1] + 1, turn.extended>>]

GsmLoop(text, f) ==
  f = [at \in (1..Len(text) + 1) \X BOOLEAN |-> GsmTurn(text, f, at)]

\* A turn uses the loop at later positions only.
LEMMA GsmTurnLooksAhead ==
  ASSUME NEW text \in Seq(Byte), NEW f, NEW g, NEW i \in 1..Len(text) + 1,
         \A j \in i + 1..Len(text) + 1, e \in BOOLEAN : f[<<j, e>>] = g[<<j, e>>]
  PROVE  \A e \in BOOLEAN : GsmTurn(text, f, <<i, e>>) = GsmTurn(text, g, <<i, e>>)
<1> TAKE e \in BOOLEAN
<1>1. Len(text) \in Nat /\ i \in Nat
  BY LenProperties
<1>2. CASE i > Len(text)
  BY <1>2 DEF GsmTurn
<1>3. CASE ~(i > Len(text))
  <2>1. i \in 1..Len(text) /\ i + 1 \in i + 1..Len(text) + 1
    BY <1>1, <1>3
  <2>2. text[i] \in Byte
    BY <2>1, ElementOfSeq
  <2>3. PICK x \in BOOLEAN : x = ConvertSeptet(text[i], e).extended
    BY <2>2, TurnType
  <2>4. f[<<i + 1, x>>] = g[<<i + 1, x>>]
    BY <2>1
  <2> QED BY <2>3, <2>4 DEF GsmTurn
<1> QED BY <1>2, <1>3

\* There is such a function.
LEMMA GsmLoopExists ==
  ASSUME NEW text \in Seq(Byte)
  PROVE  \E g : GsmLoop(text, g)
<1> DEFINE n == Len(text) + 1
           A == (1..n) \X BOOLEAN
           Partial(g, k) ==
             /\ g = [at \in A |-> g[at]]
             /\ \A i \in 1..n, e \in BOOLEAN :
                  i > n - k => g[<<i, e>>] = GsmTurn(text, g, <<i, e>>)
           K == {k \in Nat : \E g : Partial(g, k)}
<1>1. n \in Nat
  BY LenProperties
<1>2. 0 \in K
  <2> DEFINE g == [at \in A |-> 0]
  <2>1. g = [at \in A |-> g[at]]
    OBVIOUS
  <2>2. \A i \in 1..n : ~(i > n - 0)
    BY <1>1
  <2> HIDE DEF g, n
  <2>3. Partial(g, 0)
    BY <2>1, <2>2
  <2> QED BY <2>3
<1>3. ASSUME NEW k \in Nat, k \in K PROVE k + 1 \in K
  <2>1. PICK f : Partial(f, k)
    BY <1>3
  <2> DEFINE g == [at \in A |-> IF at[1] = n - k THEN GsmTurn(text, f, at) ELSE f[at]]
  <2>2. g = [at \in A |-> g[at]]
    OBVIOUS
  <2>3. \A j \in 1..n, e \in BOOLEAN : j # n - k => g[<<j, e>>] = f[<<j, e>>]
    OBVIOUS
  <2>4. \A j \in 1..n, e \in BOOLEAN :
          j = n - k => g[<<j, e>>] = GsmTurn(text, f, <<j, e>>)
    OBVIOUS
  <2> HIDE DEF g, A
  <2>5. ASSUME NEW i \in 1..n, NEW e \in BOOLEAN, i > n - (k + 1)
        PROVE  g[<<i, e>>] = GsmTurn(text, g, <<i, e>>)
    <3>1. i = n - k \/ i > n - k
      BY <1>1, <2>5
    <3>2. \A j \in i + 1..n : j \in 1..n /\ j # n - k
      BY <1>1, <3>1
    <3>3. \A j \in i + 1..n, d \in BOOLEAN : f[<<j, d>>] = g[<<j, d>>]
      BY <2>3, <3>2
    <3>4. GsmTurn(text, f, <<i, e>>) = GsmTurn(text, g, <<i, e>>)
      BY <3>3, GsmTurnLooksAhead
    <3>5. CASE i = n - k
      BY <2>4, <3>4, <3>5
    <3>6. CASE i > n - k
      <4>1. i # n - k
        BY <1>1, <3>6
      <4>2. f[<<i, e>>] = GsmTurn(text, f, <<i, e>>)
        BY <2>1, <3>6
      <4> QED BY <2>3, <3>4, <4>1, <4>2
    <3> QED BY <3>1, <3>5, <3>6
  <2>6. Partial(g, k + 1)
    BY <2>2, <2>5
  <2> HIDE DEF Partial
  <2> QED BY <2>6
<1>4. n \in K
  <2> HIDE DEF K
  <2>1. Nat \subseteq K
    BY <1>2, <1>3, NatSetInduction
  <2> QED BY <1>1, <2>1
<1>5. PICK g : Partial(g, n)
  BY <1>4
<1>6. \A i \in 1..n : i > n - n
  BY <1>1
<1>7. g = [at \in A |-> GsmTurn(text, g, at)]
  <2>1. \A i \in 1..n, e \in BOOLEAN : g[<<i, e>>] = GsmTurn(text, g, <<i, e>>)
    BY <1>5, <1>6
  <2>2. \A at \in A : g[at] = GsmTurn(text, g, at)
    BY <2>1
  <2>3. g = [at \in A |-> g[at]]
    BY <1>5
  <2> QED BY <2>2, <2>3
<1> QED BY <1>7 DEF GsmLoop

\* What the loop makes of a text, when an escape came before it or not.
Gsm(text, extended) == (CHOOSE g : GsmLoop(text, g))[<<1, extended>>]

\* convert_gsm_to_ucs2 runs the loop from the start, with no escape before it.
LEMMA GsmIs ==
  ASSUME NEW text \in Seq(Byte)
  PROVE  /\ GsmLoop(text, CHOOSE g : GsmLoop(text, g))
         /\ convert_gsm_to_ucs2(text) = Gsm(text, FALSE)
<1>1. GsmLoop(text, CHOOSE g : GsmLoop(text, g))
  BY GsmLoopExists
<1>2. convert_gsm_to_ucs2(text) = Gsm(text, FALSE)
  BY DEF convert_gsm_to_ucs2, Gsm, GsmLoop, GsmTurn
<1> QED BY <1>1, <1>2

\* The loop appends nothing for an empty text.
LEMMA GsmEmpty ==
  ASSUME NEW e \in BOOLEAN
  PROVE  Gsm(<<>>, e) = <<>>
<1>1. <<>> \in Seq(Byte) /\ Len(<<>>) = 0
  OBVIOUS
<1>2. PICK g : GsmLoop(<<>>, g) /\ Gsm(<<>>, e) = g[<<1, e>>]
  BY <1>1, GsmIs DEF Gsm
<1>3. g[<<1, e>>] = GsmTurn(<<>>, g, <<1, e>>)
  BY <1>1, <1>2 DEF GsmLoop
<1>4. GsmTurn(<<>>, g, <<1, e>>) = <<>>
  BY <1>1 DEF GsmTurn
<1> QED BY <1>2, <1>3, <1>4

\* The loop appends what the first byte makes, and what the rest makes after it.
LEMMA GsmCons ==
  ASSUME NEW x \in Byte, NEW t \in Seq(Byte), NEW e \in BOOLEAN
  PROVE  LET turn == ConvertSeptet(x, e)
         IN  Gsm(<<x>> \o t, e) = turn.ucs2 \o Gsm(t, turn.extended)
<1> DEFINE n == Len(t) + 1
<1>1. PICK s : s = <<x>> \o t
  OBVIOUS
<1>2. /\ s \in Seq(Byte) /\ Len(s) = n /\ n \in Nat /\ s[1] = x
      /\ \A i \in 1..Len(t) : s[i + 1] = t[i]
  <2>1. PICK w : w = <<x>> /\ w \in Seq(Byte) /\ Len(w) = 1 /\ w[1] = x
    <3>1. <<x>> \in Seq(Byte) /\ Len(<<x>>) = 1 /\ <<x>>[1] = x
      OBVIOUS
    <3> QED BY <3>1
  <2>2. /\ s \in Seq(Byte) /\ Len(s) = 1 + Len(t)
        /\ \A i \in 1..1 + Len(t) : s[i] = IF i <= 1 THEN w[i] ELSE t[i - 1]
    BY <1>1, <2>1, ConcatProperties
  <2>3. Len(t) \in Nat
    BY LenProperties
  <2>4. ASSUME NEW i \in 1..Len(t) PROVE s[i + 1] = t[i]
    <3>1. i + 1 \in 1..1 + Len(t) /\ ~(i + 1 <= 1) /\ i + 1 - 1 = i
      BY <2>3
    <3> QED BY <2>2, <3>1
  <2>5. 1 \in 1..1 + Len(t)
    BY <2>3
  <2> QED BY <2>1, <2>2, <2>3, <2>4, <2>5
<1>3. PICK g : GsmLoop(s, g) /\ \A d \in BOOLEAN : Gsm(s, d) = g[<<1, d>>]
  BY <1>2, GsmIs DEF Gsm
<1>4. PICK h : GsmLoop(t, h) /\ \A d \in BOOLEAN : Gsm(t, d) = h[<<1, d>>]
  BY GsmIs DEF Gsm
<1>5. /\ \A i \in 1..n + 1, d \in BOOLEAN : g[<<i, d>>] = GsmTurn(s, g, <<i, d>>)
      /\ \A i \in 1..n, d \in BOOLEAN : h[<<i, d>>] = GsmTurn(t, h, <<i, d>>)
  <2>1. \A i \in 1..Len(s) + 1, d \in BOOLEAN : g[<<i, d>>] = GsmTurn(s, g, <<i, d>>)
    BY <1>3 DEF GsmLoop
  <2>2. \A i \in 1..Len(t) + 1, d \in BOOLEAN : h[<<i, d>>] = GsmTurn(t, h, <<i, d>>)
    BY <1>4 DEF GsmLoop
  <2> QED BY <1>2, <2>1, <2>2
<1> DEFINE K == {k \in Nat : \A i \in 1..n, d \in BOOLEAN :
                                i > n - k => g[<<i + 1, d>>] = h[<<i, d>>]}
<1>6. 0 \in K
  BY <1>2
<1>7. ASSUME NEW k \in Nat, k \in K PROVE k + 1 \in K
  <2> SUFFICES ASSUME NEW i \in 1..n, NEW d \in BOOLEAN, i > n - (k + 1)
               PROVE  g[<<i + 1, d>>] = h[<<i, d>>]
    OBVIOUS
  <2>1. i \in Nat /\ i + 1 \in 1..n + 1
    BY <1>2
  <2>2. /\ g[<<i + 1, d>>] = GsmTurn(s, g, <<i + 1, d>>)
        /\ h[<<i, d>>] = GsmTurn(t, h, <<i, d>>)
    BY <1>5, <2>1
  <2>3. CASE i = n
    <3>1. i + 1 > Len(s) /\ i > Len(t)
      BY <1>2, <2>3, LenProperties
    <3> QED BY <2>2, <3>1 DEF GsmTurn
  <2>4. CASE i # n
    <3>1. /\ i \in 1..Len(t) /\ i + 1 \in 1..n /\ i + 1 > n - k
          /\ ~(i + 1 > Len(s)) /\ ~(i > Len(t))
      BY <1>2, <2>1, <2>4, LenProperties
    <3>2. t[i] \in Byte /\ s[i + 1] = t[i]
      BY <1>2, <3>1, ElementOfSeq
    <3>3. PICK turn : turn = ConvertSeptet(t[i], d) /\ turn.extended \in BOOLEAN
      BY <3>2, TurnType
    <3>4. g[<<(i + 1) + 1, turn.extended>>] = h[<<i + 1, turn.extended>>]
      BY <1>7, <3>1, <3>3
    <3>5. GsmTurn(s, g, <<i + 1, d>>) = turn.ucs2 \o g[<<(i + 1) + 1, turn.extended>>]
      BY <3>1, <3>2, <3>3 DEF GsmTurn
    <3>6. GsmTurn(t, h, <<i, d>>) = turn.ucs2 \o h[<<i + 1, turn.extended>>]
      BY <3>1, <3>3 DEF GsmTurn
    <3> QED BY <2>2, <3>4, <3>5, <3>6
  <2> QED BY <2>3, <2>4
<1> HIDE DEF K
<1>8. n \in K
  BY <1>2, <1>6, <1>7, NatSetInduction
<1>9. \A d \in BOOLEAN : g[<<2, d>>] = h[<<1, d>>]
  <2>1. 1 \in 1..n /\ 1 > n - n /\ 1 + 1 = 2
    BY <1>2, LenProperties
  <2> QED BY <1>8, <2>1 DEF K
<1>10. PICK turn : turn = ConvertSeptet(x, e) /\ turn.extended \in BOOLEAN
  BY TurnType
<1>11. g[<<1, e>>] = turn.ucs2 \o g[<<2, turn.extended>>]
  <2>1. g[<<1, e>>] = GsmTurn(s, g, <<1, e>>)
    BY <1>2, <1>5
  <2>2. ~(1 > Len(s)) /\ 1 + 1 = 2
    BY <1>2, LenProperties
  <2> QED BY <1>2, <1>10, <2>1, <2>2 DEF GsmTurn
<1>12. Gsm(s, e) = turn.ucs2 \o Gsm(t, turn.extended)
  BY <1>3, <1>4, <1>9, <1>10, <1>11
<1> QED BY <1>1, <1>10, <1>12

\* The loop makes a string of bytes.
LEMMA GsmType ==
  ASSUME NEW s \in Seq(Byte)
  PROVE  \A e \in BOOLEAN : Gsm(s, e) \in Seq(Byte)
<1> DEFINE P == {t \in Seq(Byte) : \A e \in BOOLEAN : Gsm(t, e) \in Seq(Byte)}
<1>1. <<>> \in P
  <2>1. <<>> \in Seq(Byte)
    OBVIOUS
  <2> QED BY <2>1, GsmEmpty
<1>2. ASSUME NEW x \in Byte, NEW t \in Seq(Byte), t \in P PROVE <<x>> \o t \in P
  <2>1. <<x>> \o t \in Seq(Byte)
    BY ConcatProperties
  <2>2. ASSUME NEW e \in BOOLEAN PROVE Gsm(<<x>> \o t, e) \in Seq(Byte)
    <3>1. PICK turn : turn = ConvertSeptet(x, e)
      OBVIOUS
    <3>2. turn.ucs2 \in Seq(Byte) /\ turn.extended \in BOOLEAN
      BY <3>1, TurnType
    <3>3. Gsm(t, turn.extended) \in Seq(Byte)
      BY <1>2, <3>2
    <3>4. Gsm(<<x>> \o t, e) = turn.ucs2 \o Gsm(t, turn.extended)
      BY <3>1, GsmCons
    <3> QED BY <3>2, <3>3, <3>4, ConcatProperties
  <2> QED BY <2>1, <2>2
<1> HIDE DEF P
<1>3. Seq(Byte) \subseteq P
  BY <1>1, <1>2, SeqFrontInduction
<1> QED BY <1>3 DEF P

\* Both conversions make a string of bytes.
LEMMA ConvertedType ==
  ASSUME NEW s \in Seq(Byte)
  PROVE  convert_gsm_to_ucs2(s) \in Seq(Byte) /\ convert_ascii_to_ucs2(s) \in Seq(Byte)
<1>1. convert_gsm_to_ucs2(s) \in Seq(Byte)
  BY GsmIs, GsmType
<1>2. convert_ascii_to_ucs2(s) \in Seq(Byte)
  <2>1. PICK n \in Nat : n = Len(s)
    BY LenProperties
  <2>2. \A i \in 1..2 * n : i % 2 # 1 => i \div 2 \in 1..n
    OBVIOUS
  <2>3. \A i \in 1..2 * n : (IF i % 2 = 1 THEN 0 ELSE s[i \div 2]) \in Byte
    <3>1. 0 \in Byte
      BY DEF Byte
    <3> QED BY <2>1, <2>2, <3>1, ElementOfSeq
  <2>4. [i \in 1..2 * n |-> IF i % 2 = 1 THEN 0 ELSE s[i \div 2]] \in [1..2 * n -> Byte]
    BY <2>3
  <2>5. 2 * n \in Nat
    BY <2>1
  <2>6. [i \in 1..2 * n |-> IF i % 2 = 1 THEN 0 ELSE s[i \div 2]] \in Seq(Byte)
    BY <2>4, <2>5, IsASeq
  <2> QED BY <2>1, <2>6 DEF convert_ascii_to_ucs2
<1> QED BY <1>1, <1>2

\* Each element of a sequence is mapped to a sequence, in order.
Mapped(F, s) == FlattenSeq([i \in DOMAIN s |-> F[s[i]]])

\* The first element is mapped in front of the others.
FirstMapped(S, F, x, t) ==
  /\ Mapped(F, t) \in Seq(S)
  /\ Mapped(F, <<x>> \o t) = F[x] \o Mapped(F, t)

\* It is, for every function.
LEMMA MappedCons ==
  ASSUME NEW S, NEW T, NEW F \in [T -> Seq(S)], NEW x \in T, NEW t \in Seq(T)
  PROVE  FirstMapped(S, F, x, t)
<1> DEFINE m(s) == [i \in DOMAIN s |-> F[s[i]]]
<1>1. ASSUME NEW s \in Seq(T)
      PROVE  /\ m(s) \in Seq(Seq(S)) /\ Len(m(s)) = Len(s)
             /\ \A i \in 1..Len(s) : m(s)[i] = F[s[i]]
             /\ Mapped(F, s) = FlattenSeq(m(s))
  <2>1. DOMAIN s = 1..Len(s) /\ Len(s) \in Nat
    BY LenProperties
  <2>2. \A i \in 1..Len(s) : F[s[i]] \in Seq(S)
    BY ElementOfSeq
  <2>3. Mapped(F, s) = FlattenSeq(m(s))
    BY DEF Mapped
  <2> QED BY <2>1, <2>2, <2>3
<1> HIDE DEF m
<1>2. Mapped(F, t) \in Seq(S)
  BY <1>1, FlattenType
<1>3. PICK u : u = <<x>> \o t
  OBVIOUS
<1>4. PICK w : w = <<x>> /\ w \in Seq(T) /\ Len(w) = 1 /\ w[1] = x
  <2>1. <<x>> \in Seq(T) /\ Len(<<x>>) = 1 /\ <<x>>[1] = x
    OBVIOUS
  <2> QED BY <2>1
<1>5. /\ u \in Seq(T) /\ Len(u) = 1 + Len(t) /\ Len(t) \in Nat
      /\ \A i \in 1..1 + Len(t) : u[i] = IF i <= 1 THEN w[i] ELSE t[i - 1]
  BY <1>3, <1>4, ConcatProperties, LenProperties
<1>6. PICK a \in Seq(S) : a = F[x]
  OBVIOUS
<1>7. PICK b : b = <<a>> /\ b \in Seq(Seq(S)) /\ Len(b) = 1 /\ b[1] = a
  <2>1. <<a>> \in Seq(Seq(S)) /\ Len(<<a>>) = 1 /\ <<a>>[1] = a
    OBVIOUS
  <2> QED BY <2>1
<1>8. m(u) = b \o m(t)
  <2>1. PICK v : v = b \o m(t)
    OBVIOUS
  <2>2. /\ v \in Seq(Seq(S)) /\ Len(v) = 1 + Len(t)
        /\ \A i \in 1..1 + Len(t) : v[i] = IF i <= 1 THEN b[i] ELSE m(t)[i - 1]
    <3>1. m(t) \in Seq(Seq(S)) /\ Len(m(t)) = Len(t)
      BY <1>1
    <3>2. /\ v \in Seq(Seq(S)) /\ Len(v) = Len(b) + Len(m(t))
          /\ \A i \in 1..Len(b) + Len(m(t)) :
               v[i] = IF i <= Len(b) THEN b[i] ELSE m(t)[i - Len(b)]
      BY <1>7, <2>1, <3>1, ConcatProperties
    <3> QED BY <1>7, <3>1, <3>2
  <2>3. m(u) \in Seq(Seq(S)) /\ Len(m(u)) = 1 + Len(t)
    BY <1>1, <1>5
  <2>4. ASSUME NEW i \in 1..1 + Len(t) PROVE m(u)[i] = v[i]
    <3>1. m(u)[i] = F[u[i]]
      BY <1>1, <1>5
    <3>2. CASE i = 1
      <4>1. u[i] = x /\ v[i] = a
        BY <1>4, <1>5, <1>7, <2>2, <3>2
      <4> QED BY <1>6, <3>1, <4>1
    <3>3. CASE i # 1
      <4>1. i - 1 \in 1..Len(t) /\ ~(i <= 1)
        BY <1>5, <3>3
      <4>2. u[i] = t[i - 1] /\ v[i] = m(t)[i - 1]
        BY <1>5, <2>2, <4>1
      <4>3. m(t)[i - 1] = F[t[i - 1]]
        BY <1>1, <4>1
      <4> QED BY <3>1, <4>2, <4>3
    <3> QED BY <3>2, <3>3
  <2>5. m(u) = v
    BY <2>2, <2>3, <2>4, SeqEqual
  <2> QED BY <2>1, <2>5
<1>9. FlattenSeq(<<a>> \o m(t)) = a \o FlattenSeq(m(t))
  BY <1>1, FlattenCons
<1>10. Mapped(F, u) = a \o Mapped(F, t)
  BY <1>1, <1>5, <1>7, <1>8, <1>9
<1> QED BY <1>2, <1>3, <1>6, <1>10 DEF FirstMapped

\* An empty text has no septets.
LEMMA SeptetsEmpty == Septets(<<>>) = <<>>
BY FlattenEmpty DEF Septets

\* The first byte of a text is one of its septets, or is skipped.
LEMMA SeptetsCons ==
  ASSUME NEW x \in Byte, NEW t \in Seq(Byte)
  PROVE  /\ Septets(t) \in Seq(Byte)
         /\ x <= 127 => Septets(<<x>> \o t) = <<x>> \o Septets(t)
         /\ x > 127 => Septets(<<x>> \o t) = Septets(t)
<1> DEFINE F == [b \in Byte |-> IF b <= 127 THEN <<b>> ELSE <<>>]
<1>1. F \in [Byte -> Seq(Byte)]
  OBVIOUS
<1>2. ASSUME NEW s \in Seq(Byte) PROVE Septets(s) = Mapped(F, s)
  <2>1. \A i \in DOMAIN s : s[i] \in Byte
    BY ElementOfSeq, LenProperties
  <2>2. [i \in DOMAIN s |-> IF s[i] <= 127 THEN <<s[i]>> ELSE <<>>]
          = [i \in DOMAIN s |-> F[s[i]]]
    BY <2>1
  <2> QED BY <2>2 DEF Septets, Mapped
<1>3. F[x] = IF x <= 127 THEN <<x>> ELSE <<>>
  OBVIOUS
<1> HIDE DEF F
<1>4. Mapped(F, t) \in Seq(Byte) /\ Mapped(F, <<x>> \o t) = F[x] \o Mapped(F, t)
  <2>1. FirstMapped(Byte, F, x, t)
    BY <1>1, MappedCons
  <2> QED BY <2>1 DEF FirstMapped
<1>5. <<x>> \o t \in Seq(Byte)
  BY ConcatProperties
<1>6. <<>> \o Mapped(F, t) = Mapped(F, t)
  BY <1>4, ConcatEmptySeq
<1>7. x > 127 => ~(x <= 127)
  BY DEF Byte
<1> QED BY <1>2, <1>3, <1>4, <1>5, <1>6, <1>7

\* Bytes that are no septets make no difference.
LEMMA OnlySeptets ==
  ASSUME NEW s \in Seq(Byte)
  PROVE  \A e \in BOOLEAN : Gsm(Septets(s), e) = Gsm(s, e)
<1> DEFINE P == {t \in Seq(Byte) : \A e \in BOOLEAN : Gsm(Septets(t), e) = Gsm(t, e)}
<1>1. <<>> \in P
  <2>1. <<>> \in Seq(Byte)
    OBVIOUS
  <2> QED BY <2>1, SeptetsEmpty
<1>2. ASSUME NEW x \in Byte, NEW t \in Seq(Byte), t \in P PROVE <<x>> \o t \in P
  <2>1. <<x>> \o t \in Seq(Byte)
    BY ConcatProperties
  <2>2. ASSUME NEW e \in BOOLEAN
        PROVE  Gsm(Septets(<<x>> \o t), e) = Gsm(<<x>> \o t, e)
    <3>1. PICK turn : turn = ConvertSeptet(x, e) /\ turn.extended \in BOOLEAN
      BY TurnType
    <3>2. Gsm(<<x>> \o t, e) = turn.ucs2 \o Gsm(t, turn.extended)
      BY <3>1, GsmCons
    <3>3. PICK q \in Seq(Byte) : q = Septets(t)
      BY SeptetsCons
    <3>4. \A d \in BOOLEAN : Gsm(q, d) = Gsm(t, d)
      BY <1>2, <3>3
    <3>5. CASE x <= 127
      <4>1. Gsm(<<x>> \o q, e) = turn.ucs2 \o Gsm(q, turn.extended)
        BY <3>1, GsmCons
      <4>2. Septets(<<x>> \o t) = <<x>> \o q
        BY <3>3, <3>5, SeptetsCons
      <4> QED BY <3>1, <3>2, <3>4, <4>1, <4>2
    <3>6. CASE x > 127
      <4>1. turn.ucs2 = <<>> /\ turn.extended = e
        BY <3>1, <3>6 DEF ConvertSeptet
      <4>2. Gsm(t, e) \in Seq(Byte)
        BY GsmType
      <4>3. <<>> \o Gsm(t, e) = Gsm(t, e)
        BY <4>2, ConcatEmptySeq
      <4>4. Septets(<<x>> \o t) = q
        BY <3>3, <3>6, SeptetsCons
      <4> QED BY <3>2, <3>4, <4>1, <4>3, <4>4
    <3>7. x <= 127 \/ x > 127
      BY DEF Byte
    <3> QED BY <3>5, <3>6, <3>7
  <2> QED BY <2>1, <2>2
<1> HIDE DEF P
<1>3. Seq(Byte) \subseteq P
  BY <1>1, <1>2, SeqFrontInduction
<1> QED BY <1>3 DEF P

\* A text does not leave an escape behind that is open.
Closed(s, e) ==
  \/ Septets(s) = <<>> /\ ~e
  \/ Septets(s) # <<>> /\ Last(Septets(s)) # Escape

\* The last element of a text with another one in front.
LEMMA LastOfCons ==
  ASSUME NEW x \in Byte, NEW q \in Seq(Byte)
  PROVE  /\ <<x>> \o q # <<>>
         /\ q = <<>> => Last(<<x>> \o q) = x
         /\ q # <<>> => Last(<<x>> \o q) = Last(q)
<1>1. PICK w : w = <<x>> /\ w \in Seq(Byte) /\ Len(w) = 1 /\ w[1] = x
  <2>1. <<x>> \in Seq(Byte) /\ Len(<<x>>) = 1 /\ <<x>>[1] = x
    OBVIOUS
  <2> QED BY <2>1
<1>2. PICK c : c = w \o q
  OBVIOUS
<1>3. /\ c \in Seq(Byte) /\ Len(c) = 1 + Len(q) /\ Len(q) \in Nat
      /\ \A i \in 1..1 + Len(q) : c[i] = IF i <= 1 THEN w[i] ELSE q[i - 1]
  BY <1>1, <1>2, ConcatProperties, LenProperties
<1>4. c # <<>>
  BY <1>3, EmptySeq
<1>5. PICK n \in Nat : n = Len(c) /\ n = 1 + Len(q)
  BY <1>3
<1>6. CASE q = <<>>
  <2>1. Len(q) = 0
    BY <1>6, EmptySeq
  <2>2. c[1] = x /\ n = 1
    BY <1>1, <1>3, <1>5, <2>1
  <2> QED BY <1>1, <1>2, <1>4, <1>5, <1>6, <2>2 DEF Last
<1>7. CASE q # <<>>
  <2>1. Len(q) # 0
    BY <1>7, EmptySeq
  <2>2. n \in 1..1 + Len(q) /\ ~(n <= 1) /\ n - 1 = Len(q)
    BY <1>3, <1>5, <2>1
  <2>3. c[n] = q[n - 1]
    BY <1>3, <2>2
  <2>4. c[Len(c)] = q[Len(q)]
    BY <1>5, <2>2, <2>3
  <2> QED BY <1>1, <1>2, <1>4, <1>7, <2>4 DEF Last
<1> QED BY <1>6, <1>7

\* Behind a text that leaves no escape open, the loop begins anew.
LEMMA GsmParts ==
  ASSUME NEW s \in Seq(Byte), NEW t \in Seq(Byte)
  PROVE  \A e \in BOOLEAN : Closed(s, e) => Gsm(s \o t, e) = Gsm(s, e) \o Gsm(t, FALSE)
<1> DEFINE P == {r \in Seq(Byte) : \A e \in BOOLEAN :
                   Closed(r, e) => Gsm(r \o t, e) = Gsm(r, e) \o Gsm(t, FALSE)}
<1>1. <<>> \in P
  <2>1. <<>> \in Seq(Byte) /\ <<>> \o t = t
    BY ConcatEmptySeq
  <2>2. Gsm(t, FALSE) \in Seq(Byte)
    BY GsmType
  <2>3. <<>> \o Gsm(t, FALSE) = Gsm(t, FALSE)
    BY <2>2, ConcatEmptySeq
  <2>4. ASSUME NEW e \in BOOLEAN, Closed(<<>>, e)
        PROVE  Gsm(<<>> \o t, e) = Gsm(<<>>, e) \o Gsm(t, FALSE)
    <3>1. e = FALSE
      BY <2>4, SeptetsEmpty DEF Closed
    <3> QED BY <2>1, <2>3, <3>1, GsmEmpty
  <2> QED BY <2>1, <2>4
<1>2. ASSUME NEW x \in Byte, NEW r \in Seq(Byte), r \in P PROVE <<x>> \o r \in P
  <2>1. <<x>> \in Seq(Byte) /\ <<x>> \o r \in Seq(Byte) /\ r \o t \in Seq(Byte)
    BY ConcatProperties
  <2>2. (<<x>> \o r) \o t = <<x>> \o (r \o t)
    BY <2>1, ConcatAssociative
  <2>3. ASSUME NEW e \in BOOLEAN, Closed(<<x>> \o r, e)
        PROVE  Gsm((<<x>> \o r) \o t, e) = Gsm(<<x>> \o r, e) \o Gsm(t, FALSE)
    <3>1. PICK turn : turn = ConvertSeptet(x, e) /\ turn.ucs2 \in Seq(Byte) /\ turn.extended \in BOOLEAN
      BY TurnType
    <3>2. Gsm(<<x>> \o r, e) = turn.ucs2 \o Gsm(r, turn.extended)
      BY <3>1, GsmCons
    <3>3. PICK rt \in Seq(Byte) : rt = r \o t
      BY <2>1
    <3>4. Gsm(<<x>> \o rt, e) = turn.ucs2 \o Gsm(rt, turn.extended)
      BY <3>1, GsmCons
    <3>5. Closed(r, turn.extended)
      <4>1. CASE x > 127
        <5>1. turn.extended = e
          BY <3>1, <4>1 DEF ConvertSeptet
        <5>2. Septets(<<x>> \o r) = Septets(r)
          BY <4>1, SeptetsCons
        <5> QED BY <2>3, <5>1, <5>2 DEF Closed
      <4>2. CASE x <= 127
        <5>1. PICK q \in Seq(Byte) : q = Septets(r)
          BY SeptetsCons
        <5>2. Septets(<<x>> \o r) = <<x>> \o q
          BY <4>2, <5>1, SeptetsCons
        <5>3. Last(<<x>> \o q) # Escape
          BY <2>3, <5>2, LastOfCons DEF Closed
        <5>4. CASE q = <<>>
          <6>1. x # Escape
            BY <5>3, <5>4, LastOfCons
          <6>2. ~(x > 127)
            BY <4>2 DEF Byte
          <6>3. turn.extended = FALSE
            BY <3>1, <6>1, <6>2 DEF ConvertSeptet
          <6> QED BY <5>1, <5>4, <6>3 DEF Closed
        <5>5. CASE q # <<>>
          <6>1. Last(q) # Escape
            BY <5>3, <5>5, LastOfCons
          <6> QED BY <5>1, <5>5, <6>1 DEF Closed
        <5> QED BY <5>4, <5>5
      <4>3. x > 127 \/ x <= 127
        BY DEF Byte
      <4> QED BY <4>1, <4>2, <4>3
    <3>6. Gsm(rt, turn.extended) = Gsm(r, turn.extended) \o Gsm(t, FALSE)
      BY <1>2, <3>1, <3>3, <3>5
    <3>7. PICK a \in Seq(Byte), b \in Seq(Byte), c \in Seq(Byte) :
            a = turn.ucs2 /\ b = Gsm(r, turn.extended) /\ c = Gsm(t, FALSE)
      BY <3>1, GsmType
    <3>8. a \o (b \o c) = (a \o b) \o c
      <4>1. Associates(a, b, c)
        BY Associative
      <4> QED BY <4>1 DEF Associates
    <3> QED BY <2>2, <3>2, <3>3, <3>4, <3>6, <3>7, <3>8
  <2> QED BY <2>1, <2>3
<1> HIDE DEF P
<1>3. Seq(Byte) \subseteq P
  BY <1>1, <1>2, SeqFrontInduction
<1> QED BY <1>3 DEF P
-----------------------------------------------------------------------------
(* pack_short_message and unpack_short_message.                            *)

\* serialize() writes bytes, and none only when there is no header.
LEMMA SerializedType ==
  ASSUME NEW hs \in Seq(Sound)
  PROVE  /\ SerializeUdh(hs) \in Seq(Byte)
         /\ SerializeUdh(hs) = <<>> <=> hs = <<>>
<1>1. hs \in Seq(Header)
  BY SoundIsHeader
<1>2. CASE hs = <<>>
  <2>1. <<>> \in Seq(Byte) /\ SerializeUdh(hs) = <<>>
    BY <1>2, NoHeaders
  <2> QED BY <1>2, <2>1
<1>3. CASE hs # <<>>
  <2>1. PICK h \in Sound, t \in Seq(Sound) : hs = <<h>> \o t
    BY <1>3, FirstAndRest
  <2>2. h \in Header /\ t \in Seq(Header)
    BY SoundIsHeader
  <2>3. PICK w \in Seq(Byte), v \in Seq(Byte) : w = HeaderBytes(h) /\ v = SerializeUdh(t)
    BY <2>2, UdhCons, HeaderBytesAre
  <2>4. SerializeUdh(hs) = w \o v
    BY <2>1, <2>2, <2>3, UdhCons
  <2>5. Len(w) = Len(h[2]) + 2 /\ Len(h[2]) \in Nat
    <3>1. h[2] \in Seq(Byte)
      BY <2>2 DEF Header
    <3> QED BY <2>2, <2>3, <3>1, HeaderBytesAre, LenProperties
  <2>6. w \o v \in Seq(Byte) /\ w \o v # <<>>
    <3>1. w # <<>>
      BY <2>5, EmptySeq
    <3> QED BY <3>1, ConcatProperties, ConcatEqualIffEmpty
  <2> QED BY <1>3, <2>4, <2>6
<1> QED BY <1>2, <1>3

\* A message of a length, a header of so many bytes, and a text.
InFrontOf(m, udh, text) ==
  /\ m \in Seq(Byte)
  /\ Len(m) = 1 + Len(udh) + Len(text)
  /\ m[1] = Len(udh) % 256
  /\ \A j \in 1..Len(udh) : m[1 + j] = udh[j]
  /\ \A j \in 1..Len(text) : m[1 + Len(udh) + j] = text[j]

\* pack_short_message builds such a message.
LEMMA ThreeParts ==
  ASSUME NEW udh \in Seq(Byte), NEW text \in Seq(Byte)
  PROVE  InFrontOf(<<Len(udh) % 256>> \o udh \o text, udh, text)
<1>1. PICK x \in Byte : x = Len(udh) % 256
  BY ModByte, LenProperties
<1>2. PICK w : w = <<x>> /\ w \in Seq(Byte) /\ Len(w) = 1 /\ w[1] = x
  <2>1. <<x>> \in Seq(Byte) /\ Len(<<x>>) = 1 /\ <<x>>[1] = x
    OBVIOUS
  <2> QED BY <2>1
<1>3. PICK a : a = w \o udh
  OBVIOUS
<1>4. /\ a \in Seq(Byte) /\ Len(a) = 1 + Len(udh) /\ Len(udh) \in Nat
      /\ \A i \in 1..1 + Len(udh) : a[i] = IF i <= 1 THEN w[i] ELSE udh[i - 1]
  BY <1>2, <1>3, ConcatProperties, LenProperties
<1>5. PICK m : m = a \o text
  OBVIOUS
<1>6. PICK n \in Nat : n = Len(a)
  BY <1>4
<1>7. /\ m \in Seq(Byte) /\ Len(m) = n + Len(text) /\ Len(text) \in Nat
      /\ \A i \in 1..n + Len(text) : m[i] = IF i <= n THEN a[i] ELSE text[i - n]
  BY <1>4, <1>5, <1>6, ConcatProperties, LenProperties
<1>8. n = 1 + Len(udh)
  BY <1>4, <1>6
<1>9. m[1] = x
  <2>1. 1 \in 1..1 + Len(udh) /\ 1 \in 1..n + Len(text) /\ 1 <= n
    BY <1>4, <1>7, <1>8
  <2> QED BY <1>2, <1>4, <1>7, <2>1
<1>10. ASSUME NEW j \in 1..Len(udh) PROVE m[1 + j] = udh[j]
  <2>1. PICK i : i = 1 + j
    OBVIOUS
  <2>2. /\ i \in 1..1 + Len(udh) /\ i \in 1..n + Len(text) /\ i <= n /\ ~(i <= 1)
        /\ i - 1 = j
    BY <1>4, <1>7, <1>8, <2>1
  <2> QED BY <1>4, <1>7, <2>1, <2>2
<1>11. ASSUME NEW j \in 1..Len(text) PROVE m[1 + Len(udh) + j] = text[j]
  <2>1. PICK i : i = 1 + Len(udh) + j
    OBVIOUS
  <2>2. i \in 1..n + Len(text) /\ ~(i <= n) /\ i - n = j
    BY <1>4, <1>7, <1>8, <2>1
  <2> QED BY <1>7, <2>1, <2>2
<1>12. Len(m) = 1 + Len(udh) + Len(text)
  BY <1>4, <1>7, <1>8
<1>13. InFrontOf(m, udh, text)
  BY <1>1, <1>7, <1>9, <1>10, <1>11, <1>12 DEF InFrontOf
<1> QED BY <1>1, <1>2, <1>3, <1>5, <1>13

\* The parts of such a message are where unpack_short_message looks for them.
LEMMA PartsFound ==
  ASSUME NEW m, NEW udh \in Seq(Byte), NEW text \in Seq(Byte),
         InFrontOf(m, udh, text)
  PROVE  /\ SubSeq(m, 2, Len(udh) + 1) = udh
         /\ SubSeq(m, Len(udh) + 2, Len(m)) = text
<1>1. /\ m \in Seq(Byte)
      /\ Len(m) = 1 + Len(udh) + Len(text)
      /\ \A j \in 1..Len(udh) : m[1 + j] = udh[j]
      /\ \A j \in 1..Len(text) : m[1 + Len(udh) + j] = text[j]
  BY DEF InFrontOf
<1>2. Len(udh) \in Nat /\ Len(text) \in Nat /\ Len(m) \in Nat
  BY <1>1, LenProperties
<1>3. SubSeq(m, 2, Len(udh) + 1) = udh
  <2>1. PICK a, b, v : a = 2 /\ b = Len(udh) + 1 /\ v = SubSeq(m, a, b)
    OBVIOUS
  <2>2. a \in 1..Len(m) + 1 /\ b \in Int /\ a <= b + 1 /\ b <= Len(m)
    BY <1>1, <1>2, <2>1
  <2>3. /\ v \in Seq(Byte) /\ Len(v) = b - a + 1
        /\ \A j \in 1..b - a + 1 : v[j] = m[a + j - 1]
    BY <1>1, <2>1, <2>2, SubSeqBytes
  <2>4. b - a + 1 = Len(udh)
    BY <1>2, <2>1
  <2>5. ASSUME NEW j \in 1..Len(v) PROVE v[j] = udh[j]
    <3>1. j \in 1..b - a + 1 /\ j \in 1..Len(udh)
      BY <2>3, <2>4, Zenon
    <3>2. a + j - 1 = 1 + j
      BY <1>2, <2>1
    <3> QED BY <1>1, <2>3, <3>1, <3>2
  <2>6. v = udh
    BY <2>3, <2>4, <2>5, SeqEqual
  <2> QED BY <2>1, <2>6
<1>4. SubSeq(m, Len(udh) + 2, Len(m)) = text
  <2>1. PICK a, b, v : a = Len(udh) + 2 /\ b = Len(m) /\ v = SubSeq(m, a, b)
    OBVIOUS
  <2>2. a \in 1..Len(m) + 1 /\ b \in Int /\ a <= b + 1 /\ b <= Len(m)
    BY <1>1, <1>2, <2>1
  <2>3. /\ v \in Seq(Byte) /\ Len(v) = b - a + 1
        /\ \A j \in 1..b - a + 1 : v[j] = m[a + j - 1]
    BY <1>1, <2>1, <2>2, SubSeqBytes
  <2>4. b - a + 1 = Len(text)
    BY <1>1, <1>2, <2>1
  <2>5. ASSUME NEW j \in 1..Len(v) PROVE v[j] = text[j]
    <3>1. j \in 1..b - a + 1 /\ j \in 1..Len(text)
      BY <2>3, <2>4, Zenon
    <3>2. a + j - 1 = 1 + Len(udh) + j
      BY <1>2, <2>1
    <3> QED BY <1>1, <2>3, <3>1, <3>2
  <2>6. v = text
    BY <2>3, <2>4, <2>5, SeqEqual
  <2> QED BY <2>1, <2>6
<1> QED BY <1>3, <1>4

\* What pack_short_message returns, with and without headers.
LEMMA PackedIs ==
  ASSUME NEW hs \in Seq(Sound), NEW text \in Seq(Byte)
  PROVE  /\ hs = <<>> => Packed(hs, text) = text
         /\ hs # <<>> => InFrontOf(Packed(hs, text), SerializeUdh(hs), text)
<1>1. PICK udh \in Seq(Byte) : udh = SerializeUdh(hs) /\ (udh = <<>> <=> hs = <<>>)
  BY SerializedType
<1>2. InFrontOf(<<Len(udh) % 256>> \o udh \o text, udh, text)
  BY ThreeParts
<1> QED BY <1>1, <1>2 DEF Packed

\* The two limits of pack_short_message and unpack_short_message.
LEMMA LimitIs == \A dc : Limit(dc) \in {140, 160}
BY DEF Limit

\* esm_class of a message that has been packed.
EsmFor(hs) == IF hs = <<>> THEN <<0, 0, 0>> ELSE <<0, 0, 64>>

\* unpack_short_message returns what has been packed.
LEMMA UnpackedBack ==
  ASSUME NEW hs \in Seq(Sound), NEW text \in Seq(Byte), NEW dc,
         CanPack(hs, text, dc)
  PROVE  UnpackShortMessage(EsmFor(hs), dc, Packed(hs, text))
           = [ok |-> TRUE, headers |-> hs, body |-> text]
<1>1. PICK m, n : m = Packed(hs, text) /\ n = Limit(dc)
  OBVIOUS
<1>2. Len(m) <= n /\ n \in {140, 160}
  BY <1>1, LimitIs DEF CanPack
<1>3. CASE hs = <<>>
  <2>1. m = text /\ ~Uhdi(EsmFor(hs)) /\ Len(m) \in Nat
    <3>1. m = text
      BY <1>1, <1>3, PackedIs
    <3>2. EsmFor(hs)[3] = 0
      BY <1>3 DEF EsmFor
    <3>3. ~Uhdi(EsmFor(hs))
      BY <3>2 DEF Uhdi
    <3> QED BY <3>1, <3>3, LenProperties
  <2>2. ~(Len(m) > Limit(dc))
    BY <1>1, <1>2, <2>1
  <2> QED BY <1>1, <1>3, <2>1, <2>2 DEF UnpackShortMessage
<1>4. CASE hs # <<>>
  <2>1. PICK udh \in Seq(Byte) : udh = SerializeUdh(hs)
    BY SerializedType
  <2>2. InFrontOf(m, udh, text)
    BY <1>1, <1>4, <2>1, PackedIs
  <2>3. /\ m \in Seq(Byte) /\ Len(m) = 1 + Len(udh) + Len(text)
        /\ m[1] = Len(udh) % 256
        /\ Len(udh) \in Nat /\ Len(text) \in Nat
    BY <2>2, LenProperties DEF InFrontOf
  <2>4. Len(udh) <= 255 /\ ~(Len(udh) >= Len(m)) /\ ~(Len(m) > Limit(dc))
    BY <1>1, <1>2, <2>3
  <2>5. m[1] = Len(udh) /\ m # <<>>
    <3>1. m # <<>>
      BY <2>3, EmptySeq
    <3> QED BY <2>3, <2>4, <3>1, ModByte
  <2>6. SubSeq(m, 2, Len(udh) + 1) = udh /\ SubSeq(m, Len(udh) + 2, Len(m)) = text
    BY <2>2, PartsFound
  <2>7. ParseUdh(udh) = [ok |-> TRUE, headers |-> hs]
    <3>1. PICK g : UdhLoop(udh, g) /\ ParseUdh(udh) = g[1]
      BY ParseUdhIs
    <3>2. Rest(udh, 1) = SerializeUdh(hs)
      BY <2>1, SubSeqFull DEF Rest
    <3>3. 1 \in 1..Len(udh) + 1
      BY <2>3
    <3>4. \A i \in 1..Len(udh) + 1 :
            Rest(udh, i) = SerializeUdh(hs) => g[i] = [ok |-> TRUE, headers |-> hs]
      BY <3>1, UdhParsedBack
    <3> QED BY <3>1, <3>2, <3>3, <3>4
  <2>8. Uhdi(EsmFor(hs))
    <3>1. EsmFor(hs)[3] = 64
      BY <1>4 DEF EsmFor
    <3> QED BY <3>1 DEF Uhdi
  <2>9. PICK l, e : l = (IF m = <<>> THEN 0 ELSE m[1]) /\ e = EsmFor(hs)
    OBVIOUS
  <2>10. PICK b, r, p : /\ b = SubSeq(m, 2, l + 1)
                        /\ r = SubSeq(m, l + 2, Len(m))
                        /\ p = ParseUdh(b)
    OBVIOUS
  <2>11. l = Len(udh)
    BY <2>5, <2>9
  <2>12. b = udh /\ r = text
    BY <2>6, <2>10, <2>11
  <2>13. p = [ok |-> TRUE, headers |-> hs]
    BY <2>7, <2>10, <2>12
  <2>14. p.ok /\ p.headers = hs
    BY <2>13
  <2>15. ~(l >= Len(m)) /\ ~(Len(m) > Limit(dc)) /\ Uhdi(e)
    BY <2>4, <2>8, <2>9, <2>11
  <2>16. UnpackShortMessage(e, dc, m) = [ok |-> TRUE, headers |-> p.headers, body |-> r]
    BY <2>9, <2>10, <2>14, <2>15 DEF UnpackShortMessage
  <2> QED BY <1>1, <2>9, <2>12, <2>14, <2>16
<1> QED BY <1>3, <1>4

\* What a message is made of.
Kept(m, hs, text) ==
  LET udh  == SerializeUdh(hs)
      kept == udh \o text
  IN  /\ Len(m) - Len(kept) \in {1, 2}
      /\ SubSeq(m, 2, Len(udh) + 1) = udh
      /\ SubSeq(m, Len(m) - Len(text) + 1, Len(m)) = text

\* What unpack_short_message returns can be packed again, and is what the
\* message is made of.
UnpackedFrom(m, esm, dc, u) ==
  /\ u.headers \in Seq(Sound) /\ u.body \in Seq(Byte)
  /\ CanPack(u.headers, u.body, dc)
  /\ Uhdi(esm) => Kept(m, u.headers, u.body)

\* unpack_short_message returns headers and a text of that kind, for the message
\* of any peer.
LEMMA UnpackKeeps ==
  ASSUME NEW m \in Seq(Byte), NEW esm, NEW dc,
         NEW u, u = UnpackShortMessage(esm, dc, m), u.ok
  PROVE  UnpackedFrom(m, esm, dc, u)
<1>1. PICK n : n = Limit(dc) /\ n \in {140, 160}
  BY LimitIs
<1>2. Len(m) \in Nat
  BY LenProperties
<1>3. Len(m) <= n
  <2>1. ~(Len(m) > Limit(dc))
    BY DEF UnpackShortMessage
  <2> QED BY <1>1, <1>2, <2>1
<1>4. CASE ~Uhdi(esm)
  <2>1. u = [ok |-> TRUE, headers |-> <<>>, body |-> m]
    BY <1>4 DEF UnpackShortMessage
  <2>2. <<>> \in Seq(Sound)
    OBVIOUS
  <2>3. Packed(<<>>, m) = m
    BY <2>2, PackedIs
  <2>4. CanPack(<<>>, m, dc)
    BY <1>1, <1>3, <2>3 DEF CanPack
  <2> QED BY <1>4, <2>1, <2>2, <2>4 DEF UnpackedFrom
<1>5. CASE Uhdi(esm)
  <2>1. PICK l : l = IF m = <<>> THEN 0 ELSE m[1]
    OBVIOUS
  <2>2. PICK b, text, p : /\ b = SubSeq(m, 2, l + 1)
                          /\ text = SubSeq(m, l + 2, Len(m))
                          /\ p = ParseUdh(b)
    OBVIOUS
  <2>3. /\ ~(l >= Len(m)) /\ p.ok
        /\ u = [ok |-> TRUE, headers |-> p.headers, body |-> text]
    BY <1>5, <2>1, <2>2 DEF UnpackShortMessage
  <2>4. m # <<>> /\ l = m[1] /\ l \in Nat /\ l < Len(m)
    <3>1. CASE m = <<>>
      BY <2>1, <2>3, <3>1, EmptySeq
    <3>2. CASE m # <<>>
      <4>1. Len(m) # 0
        BY <3>2, EmptySeq
      <4>2. 1 \in 1..Len(m)
        BY <1>2, <4>1
      <4>3. m[1] \in Nat
        BY <4>2, ByteAt
      <4> QED BY <1>2, <2>1, <2>3, <3>2, <4>3
    <3> QED BY <3>1, <3>2
  <2>5. /\ b \in Seq(Byte) /\ Len(b) = l
        /\ \A j \in 1..l : b[j] = m[1 + j]
    <3>1. PICK i, k : i = 2 /\ k = l + 1
      OBVIOUS
    <3>2. i \in 1..Len(m) + 1 /\ k \in Int /\ i <= k + 1 /\ k <= Len(m) /\ k - i + 1 = l
      BY <1>2, <2>4, <3>1
    <3>3. b = SubSeq(m, i, k)
      BY <2>2, <3>1
    <3>4. /\ b \in Seq(Byte) /\ Len(b) = k - i + 1
          /\ \A j \in 1..k - i + 1 : b[j] = m[i + j - 1]
      BY <3>2, <3>3, SubSeqBytes
    <3>5. \A j \in 1..l : i + j - 1 = 1 + j
      BY <3>1
    <3> QED BY <3>2, <3>4, <3>5
  <2>6. text \in Seq(Byte) /\ Len(text) = Len(m) - l - 1
    <3>1. PICK i, k : i = l + 2 /\ k = Len(m)
      OBVIOUS
    <3>2. /\ i \in 1..Len(m) + 1 /\ k \in Int /\ i <= k + 1 /\ k <= Len(m)
          /\ k - i + 1 = Len(m) - l - 1
      BY <1>2, <2>4, <3>1
    <3>3. text = SubSeq(m, i, k)
      BY <2>2, <3>1
    <3>4. text \in Seq(Byte) /\ Len(text) = k - i + 1
      BY <3>2, <3>3, SubSeqBytes
    <3> QED BY <3>2, <3>4
  <2>7. PICK hs \in Seq(Sound), left \in Seq(Byte) :
          p.headers = hs /\ Len(left) <= 1 /\ b = SerializeUdh(hs) \o left
    <3>1. PICK g : UdhLoop(b, g) /\ p = g[1]
      BY <2>2, <2>5, ParseUdhIs
    <3>2. \A i \in 1..Len(b) + 1 : Read(b, i, g[i])
      BY <2>5, <3>1, UdhReads
    <3>3. 1 \in 1..Len(b) + 1
      BY <2>4, <2>5
    <3>4. Read(b, 1, p)
      BY <3>1, <3>2, <3>3
    <3>5. PICK ok \in BOOLEAN, hs \in Seq(Sound) :
            /\ p = [ok |-> ok, headers |-> hs]
            /\ ok => \E left \in Seq(Byte) :
                       Len(left) <= 1 /\ Rest(b, 1) = SerializeUdh(hs) \o left
      BY <3>4 DEF Read
    <3>6. ok /\ p.headers = hs
      BY <2>3, <3>5
    <3>7. Rest(b, 1) = b
      BY <2>5, SubSeqFull DEF Rest
    <3> QED BY <3>5, <3>6, <3>7
  <2>8. PICK udh \in Seq(Byte) : udh = SerializeUdh(hs)
    BY SerializedType
  <2>9. /\ Len(udh) \in Nat /\ Len(left) \in Nat /\ Len(udh) + Len(left) = l
        /\ \A j \in 1..Len(udh) : b[j] = udh[j]
    <3>1. PICK c : c = udh \o left /\ c = b
      BY <2>7, <2>8
    <3>2. /\ Len(c) = Len(udh) + Len(left)
          /\ \A j \in 1..Len(udh) + Len(left) :
               c[j] = IF j <= Len(udh) THEN udh[j] ELSE left[j - Len(udh)]
      BY <3>1, ConcatProperties
    <3>3. Len(udh) \in Nat /\ Len(left) \in Nat
      BY LenProperties
    <3>4. \A j \in 1..Len(udh) : j \in 1..Len(udh) + Len(left) /\ j <= Len(udh)
      BY <3>3
    <3> QED BY <2>5, <3>1, <3>2, <3>3, <3>4
  <2>10. PICK a \in Nat, c \in Nat, d \in Nat, e \in Nat :
           /\ a = Len(m) /\ c = Len(udh) /\ d = Len(left) /\ e = Len(text)
           /\ e = a - l - 1 /\ c + d = l /\ d <= 1 /\ l < a /\ a <= n
    BY <1>2, <1>3, <2>4, <2>6, <2>7, <2>9, LenProperties
  <2>11. SubSeq(m, 2, Len(udh) + 1) = udh
    <3>1. PICK i, k, v : i = 2 /\ k = Len(udh) + 1 /\ v = SubSeq(m, i, k)
      OBVIOUS
    <3>2. /\ i \in 1..Len(m) + 1 /\ k \in Int /\ i <= k + 1 /\ k <= Len(m)
          /\ k - i + 1 = Len(udh)
      BY <1>2, <2>4, <2>9, <3>1
    <3>3. /\ v \in Seq(Byte) /\ Len(v) = k - i + 1
          /\ \A j \in 1..k - i + 1 : v[j] = m[i + j - 1]
      BY <3>1, <3>2, SubSeqBytes
    <3>4. ASSUME NEW j \in 1..Len(v) PROVE v[j] = udh[j]
      <4>1. /\ j \in 1..k - i + 1 /\ j \in 1..Len(udh) /\ j \in 1..l
            /\ i + j - 1 = 1 + j
        BY <2>4, <2>9, <3>1, <3>2, <3>3
      <4> QED BY <2>5, <2>9, <3>3, <4>1
    <3>5. v = udh
      BY <3>2, <3>3, <3>4, SeqEqual
    <3> QED BY <3>1, <3>5
  <2>12. Kept(m, hs, text)
    <3>1. PICK kept : kept = udh \o text
      OBVIOUS
    <3>2. Len(kept) = Len(udh) + Len(text)
      BY <2>6, <3>1, ConcatProperties
    <3>3. Len(m) - Len(kept) \in {1, 2}
      <4>1. \A i, j, k, f, g \in Nat :
              /\ k = i - g - 1 /\ j + f = g /\ f <= 1
              => i - (j + k) \in {1, 2}
        OBVIOUS
      <4>2. a - (c + e) \in {1, 2}
        BY <2>4, <2>10, <4>1
      <4> QED BY <2>10, <3>2, <4>2
    <3>4. Len(m) - Len(text) + 1 = l + 2
      <4>1. \A i, j \in Int : i - (i - j - 1) + 1 = j + 2
        OBVIOUS
      <4>2. Len(m) - (Len(m) - l - 1) + 1 = l + 2
        BY <1>2, <2>4, <4>1
      <4> QED BY <2>6, <4>2, Zenon
    <3> QED BY <2>2, <2>8, <2>11, <3>1, <3>3, <3>4 DEF Kept
  <2>13. CanPack(hs, text, dc)
    <3>1. CASE hs = <<>>
      <4>1. Packed(hs, text) = text
        BY <2>6, <3>1, PackedIs
      <4>2. Len(text) <= n
        BY <1>1, <1>2, <1>3, <2>4, <2>6
      <4> QED BY <1>1, <4>1, <4>2 DEF CanPack
    <3>2. CASE hs # <<>>
      <4>1. InFrontOf(Packed(hs, text), udh, text)
        BY <2>6, <2>8, <3>2, PackedIs
      <4>2. Len(Packed(hs, text)) = 1 + Len(udh) + Len(text)
        BY <4>1 DEF InFrontOf
      <4>3. 1 + Len(udh) + Len(text) <= n
        <5>0. \A i, j, k, f, g, h \in Nat :
                k = i - g - 1 /\ j + f = g /\ i <= h => 1 + j + k <= h
          OBVIOUS
        <5>1. 1 + c + e <= n
          <6>1. n \in Nat
            BY <1>1
          <6> QED BY <2>4, <2>10, <5>0, <6>1
        <5> QED BY <2>10, <5>1
      <4> QED BY <1>1, <4>2, <4>3 DEF CanPack
    <3> QED BY <3>1, <3>2
  <2> QED BY <2>3, <2>6, <2>7, <2>12, <2>13 DEF UnpackedFrom
<1> QED BY <1>4, <1>5
-----------------------------------------------------------------------------
(* The parts of a message.                                                 *)

\* The values of multi_part_data.
MultiParts == [ref : U16s, number_of_parts : Byte, sequence_number : Byte]

\* The header that set_multi_part_data adds.
PartHeader(mpd) ==
  IF mpd.ref > 255
  THEN <<concatenated_sm_16bit_ref,
         U16(mpd.ref) \o <<mpd.number_of_parts, mpd.sequence_number>>>>
  ELSE <<concatenated_sm_8bit_ref,
         <<mpd.ref, mpd.number_of_parts, mpd.sequence_number>>>>

\* A header with a reference of 16 bits.
WideIs(h, mpd) ==
  /\ h[1] = concatenated_sm_16bit_ref
  /\ h[2] \in Seq(Byte) /\ Len(h[2]) = 4
  /\ h[2][1] = mpd.ref \div 256 % 256 /\ h[2][2] = mpd.ref % 256
  /\ h[2][3] = mpd.number_of_parts /\ h[2][4] = mpd.sequence_number
\* A header with a reference of 8 bits.
NarrowIs(h, mpd) ==
  /\ h[1] = concatenated_sm_8bit_ref
  /\ h[2] \in Seq(Byte) /\ Len(h[2]) = 3
  /\ h[2][1] = mpd.ref
  /\ h[2][2] = mpd.number_of_parts /\ h[2][3] = mpd.sequence_number

\* A header with a value of 3 or 4 bytes, as its tag asks for.
LEMMA SoundWith ==
  ASSUME NEW h \in Header, NEW tag, NEW v, h[1] = tag, h[2] = v, Len(v) \in {3, 4},
         tag = concatenated_sm_8bit_ref => Len(v) = 3,
         tag = concatenated_sm_16bit_ref => Len(v) = 4
  PROVE  h \in Sound
<1>1. PICK n \in {3, 4} : n = Len(h[2])
  OBVIOUS
<1>3. n <= 255
  OBVIOUS
<1>2. PICK k \in Byte : k = tag
  BY DEF Header
<1> QED BY <1>1, <1>3 DEF Sound

\* A number of one byte is not narrowed.
LEMMA SmallMod ==
  ASSUME NEW k \in Byte PROVE k % 256 = k
BY ModByte DEF Byte

\* The u8_octet_str codec reads back what it has written.
StringFits(m, max, rest) ==
  DeserializeU8OctetStr(SerializeU8OctetStr(m) \o rest, max)
    = [ok |-> TRUE, val |-> m, rest |-> rest]

\* It does when the string is within the limit.
LEMMA ReadString ==
  ASSUME NEW m \in Seq(Byte), NEW max \in Byte, NEW rest \in Seq(Byte), Len(m) <= max
  PROVE  StringFits(m, max, rest)
BY U8OctetStrRoundTrip DEF StringFits

\* set_multi_part_data adds a header that can be read back, with all of the
\* multi_part_data in it.
LEMMA PartHeaderIs ==
  ASSUME NEW mpd \in MultiParts
  PROVE  /\ PartHeader(mpd) \in Sound
         /\ mpd.ref > 255 => WideIs(PartHeader(mpd), mpd)
         /\ ~(mpd.ref > 255) => NarrowIs(PartHeader(mpd), mpd) /\ mpd.ref \in Byte
<1>1. PICK r \in U16s, n \in Byte, k \in Byte :
        r = mpd.ref /\ n = mpd.number_of_parts /\ k = mpd.sequence_number
  BY DEF MultiParts
<1>2. /\ concatenated_sm_8bit_ref \in Byte /\ concatenated_sm_16bit_ref \in Byte
      /\ concatenated_sm_8bit_ref # concatenated_sm_16bit_ref
  BY DEF Byte, concatenated_sm_8bit_ref, concatenated_sm_16bit_ref
<1>3. CASE r > 255
  <2>1. PICK hi \in Byte, lo \in Byte : hi = r \div 256 % 256 /\ lo = r % 256
    BY U16Bytes
  <2>2. PICK v : v = <<hi, lo>> \o <<n, k>>
    OBVIOUS
  <2>3. /\ v \in Seq(Byte) /\ Len(v) = 4
        /\ v[1] = hi /\ v[2] = lo /\ v[3] = n /\ v[4] = k
    BY <2>2
  <2>4. PICK h : h = PartHeader(mpd) /\ h = <<concatenated_sm_16bit_ref, v>>
    BY <1>1, <1>3, <2>1, <2>2 DEF PartHeader, U16
  <2>5. h[1] = concatenated_sm_16bit_ref /\ h[2] = v /\ h \in Header
    BY <1>2, <2>3, <2>4 DEF Header
  <2>6. h \in Sound
    BY <1>2, <2>3, <2>5, SoundWith
  <2>7. WideIs(h, mpd)
    BY <1>1, <2>1, <2>3, <2>5 DEF WideIs
  <2> QED BY <1>1, <1>3, <2>4, <2>6, <2>7
<1>4. CASE ~(r > 255)
  <2>1. r \in Byte
    <3>1. r \in Nat
      BY DEF U16s
    <3>2. r <= 255
      BY <1>4, <3>1
    <3> QED BY <3>1, <3>2 DEF Byte
  <2>2. PICK v : v = <<r, n, k>>
    OBVIOUS
  <2>3. /\ v \in Seq(Byte) /\ Len(v) = 3
        /\ v[1] = r /\ v[2] = n /\ v[3] = k
    BY <2>1, <2>2
  <2>4. PICK h : h = PartHeader(mpd) /\ h = <<concatenated_sm_8bit_ref, v>>
    BY <1>1, <1>4, <2>2 DEF PartHeader
  <2>5. h[1] = concatenated_sm_8bit_ref /\ h[2] = v /\ h \in Header
    BY <1>2, <2>3, <2>4 DEF Header
  <2>6. h \in Sound
    BY <1>2, <2>3, <2>5, SoundWith
  <2>7. NarrowIs(h, mpd)
    BY <1>1, <2>3, <2>5 DEF NarrowIs
  <2> QED BY <1>1, <1>4, <2>1, <2>4, <2>6, <2>7
<1> QED BY <1>3, <1>4

\* What get_multi_part_data returns is one of the settings.
SettingsIn(hs, s) ==
  /\ s \in Seq(MultiParts) /\ hs \in Seq(Sound)
  /\ Len(hs) = Len(s)
  /\ \A i \in 1..Len(s) : hs[i] = PartHeader(s[i])

\* What get_multi_part_data returns of a multi_part_data that was set.
PartsOf(p, mpd, signed) ==
  /\ p.number_of_parts = mpd.number_of_parts
  /\ p.sequence_number = mpd.sequence_number
  /\ ~signed \/ mpd.ref % 256 < 128 => p.ref = mpd.ref

\* The first header of a tag is one of the settings.
LEMMA OneOfTheSettings ==
  ASSUME NEW hs, NEW s, SettingsIn(hs, s), s # <<>>, NEW signed \in BOOLEAN
  PROVE  \E i \in DOMAIN s : PartsOf(GetMultiPartData(hs, signed), s[i], signed)
<1> DEFINE with(tag) == {i \in DOMAIN hs : hs[i][1] = tag}
<1>1. PICK n \in Nat : /\ n = Len(s) /\ n # 0 /\ DOMAIN s = 1..n /\ DOMAIN hs = 1..n
                       /\ \A i \in 1..n : s[i] \in MultiParts /\ hs[i] = PartHeader(s[i])
  BY EmptySeq, LenProperties, ElementOfSeq DEF SettingsIn
<1>2. \A tag : with(tag) \in SUBSET Nat
  BY <1>1
<1>3. concatenated_sm_8bit_ref # concatenated_sm_16bit_ref
  BY DEF concatenated_sm_8bit_ref, concatenated_sm_16bit_ref
<1>4. CASE with(concatenated_sm_8bit_ref) # {}
  <2>1. PICK i : i = Min(with(concatenated_sm_8bit_ref))
    OBVIOUS
  <2>2. i \in 1..n /\ hs[i][1] = concatenated_sm_8bit_ref
    <3> DEFINE W == with(concatenated_sm_8bit_ref)
    <3>1. Min(W) \in W
      <4>1. W \in SUBSET Nat /\ W # {}
        BY <1>2, <1>4
      <4> HIDE DEF W
      <4> QED BY <4>1, MinExists
    <3> QED BY <1>1, <2>1, <3>1
  <2>3. PICK mpd \in MultiParts : mpd = s[i] /\ hs[i] = PartHeader(mpd)
    BY <1>1, <2>2
  <2>4. NarrowIs(hs[i], mpd) /\ mpd.ref \in Byte
    <3>1. CASE mpd.ref > 255
      BY <1>3, <2>2, <2>3, <3>1, PartHeaderIs DEF WideIs
    <3> QED BY <2>3, <3>1, PartHeaderIs
  <2>5. PICK v : v = hs[i][2]
    OBVIOUS
  <2>6. GetMultiPartData(hs, signed) = MultiPart(Widened(v[1], signed), v[2], v[3])
    BY <1>4, <2>1, <2>5 DEF GetMultiPartData
  <2>7. v[1] = mpd.ref /\ v[2] = mpd.number_of_parts /\ v[3] = mpd.sequence_number
    BY <2>4, <2>5 DEF NarrowIs
  <2>8. ~signed \/ mpd.ref % 256 < 128 => Widened(v[1], signed) = mpd.ref
    <3>1. PICK k \in Byte : k = mpd.ref /\ k % 256 = k
      BY <2>4, SmallMod
    <3>2. k % 256 < 128 => ~(k > 127)
      BY <3>1 DEF Byte
    <3> QED BY <2>7, <3>1, <3>2 DEF Widened
  <2>9. PartsOf(GetMultiPartData(hs, signed), mpd, signed)
    BY <2>6, <2>7, <2>8 DEF PartsOf, MultiPart
  <2> QED BY <1>1, <2>2, <2>3, <2>9
<1>5. CASE with(concatenated_sm_8bit_ref) = {}
  <2>1. \A i \in 1..n : hs[i][1] # concatenated_sm_8bit_ref
    BY <1>1, <1>5
  <2>2. ASSUME NEW i \in 1..n
        PROVE  WideIs(hs[i], s[i]) /\ s[i] \in MultiParts
    <3>1. PICK mpd \in MultiParts : mpd = s[i] /\ hs[i] = PartHeader(mpd)
      BY <1>1
    <3>2. CASE ~(mpd.ref > 255)
      BY <2>1, <3>1, <3>2, PartHeaderIs DEF NarrowIs
    <3> QED BY <3>1, <3>2, PartHeaderIs
  <2>3. with(concatenated_sm_16bit_ref) # {}
    <3>1. 1 \in 1..n
      BY <1>1
    <3>2. hs[1][1] = concatenated_sm_16bit_ref
      BY <2>2, <3>1 DEF WideIs
    <3> QED BY <1>1, <3>1, <3>2
  <2>4. PICK i : i = Min(with(concatenated_sm_16bit_ref))
    OBVIOUS
  <2>5. i \in 1..n
    <3> DEFINE W == with(concatenated_sm_16bit_ref)
    <3>1. Min(W) \in W
      <4>1. W \in SUBSET Nat /\ W # {}
        BY <1>2, <2>3
      <4> HIDE DEF W
      <4> QED BY <4>1, MinExists
    <3> QED BY <1>1, <2>4, <3>1
  <2>6. PICK mpd \in MultiParts : mpd = s[i] /\ WideIs(hs[i], mpd)
    BY <2>2, <2>5
  <2>7. PICK v : v = hs[i][2]
    OBVIOUS
  <2>8. GetMultiPartData(hs, signed) = MultiPart(Combined(v[1], v[2], signed), v[3], v[4])
    BY <1>5, <2>3, <2>4, <2>7 DEF GetMultiPartData
  <2>9. PICK hi \in Byte, lo \in Byte :
          hi = mpd.ref \div 256 % 256 /\ lo = mpd.ref % 256 /\ hi * 256 + lo = mpd.ref
    <3>1. mpd.ref \in U16s
      BY DEF MultiParts
    <3> QED BY <3>1, U16Bytes
  <2>10. /\ v[1] = hi /\ v[2] = lo
         /\ v[3] = mpd.number_of_parts /\ v[4] = mpd.sequence_number
    BY <2>6, <2>7, <2>9 DEF WideIs
  <2>11. ~signed \/ lo < 128 => Combined(v[1], v[2], signed) = mpd.ref
    <3>1. lo < 128 => ~(lo > 127)
      BY DEF Byte
    <3> QED BY <2>9, <2>10, <3>1 DEF Combined
  <2>12. PartsOf(GetMultiPartData(hs, signed), mpd, signed)
    BY <2>8, <2>9, <2>10, <2>11 DEF PartsOf, MultiPart
  <2> QED BY <1>1, <2>5, <2>6, <2>12
<1> QED BY <1>4, <1>5

\* esm_class without and with a header.
EsmValues == {<<0, 0, 0>>, <<0, 0, 64>>, <<0, 0, 128>>, <<0, 0, 192>>}

\* The codecs of esm_class and short_message, one behind the other.
OverTheWire(esm, m) ==
  LET w == SerializeField(esm_class, esm) \o SerializeField(u8_octet_str(254), m)
      e == DeserializeField(esm_class, w)
      f == DeserializeField(u8_octet_str(254), e.rest)
  IN  /\ e.val = esm
      /\ f.ok => f.val = m
      /\ Len(m) <= 254 => f.ok

\* The other end reads the members that were sent, unless the string is too long.
LEMMA WireKeeps ==
  ASSUME NEW esm \in EsmValues, NEW m \in Seq(Byte), Len(m) <= 255
  PROVE  OverTheWire(esm, m)
<1>1. PICK b \in {0, 64, 128, 192} : esm = <<0, 0, b>>
  BY DEF EsmValues
<1>2. SerializeField(esm_class, esm) = <<b>> /\ EsmClassFromU8(b) = esm /\ b \in Byte
  <2>1. FlagsToU8(esm) = b
    BY <1>1 DEF FlagsToU8
  <2>2. EsmClassFromU8(b) = esm
    BY <1>1 DEF EsmClassFromU8
  <2>3. SerializeField(esm_class, esm) = <<FlagsToU8(esm)>>
    BY DEF SerializeField, esm_class
  <2> QED BY <2>1, <2>2, <2>3 DEF Byte
<1>3. PICK s : s = SerializeU8OctetStr(m)
  OBVIOUS
<1>4. SerializeField(u8_octet_str(254), m) = s
  BY <1>3 DEF SerializeField, u8_octet_str
<1>5. PICK x \in Byte : x = Len(m) % 256 /\ x = Len(m)
  BY LenProperties, ModByte
<1>6. s \in Seq(Byte) /\ s # <<>> /\ s[1] = x
  <2>1. PICK w : w = <<x>> /\ w \in Seq(Byte) /\ Len(w) = 1 /\ w[1] = x
    <3>1. <<x>> \in Seq(Byte) /\ Len(<<x>>) = 1 /\ <<x>>[1] = x
      OBVIOUS
    <3> QED BY <3>1
  <2>2. s = w \o m
    BY <1>3, <1>5, <2>1 DEF SerializeU8OctetStr
  <2>3. /\ s \in Seq(Byte) /\ Len(s) = 1 + Len(m) /\ Len(m) \in Nat
        /\ \A i \in 1..1 + Len(m) : s[i] = IF i <= 1 THEN w[i] ELSE m[i - 1]
    BY <2>1, <2>2, ConcatProperties, LenProperties
  <2>4. 1 \in 1..1 + Len(m)
    BY <2>3
  <2> QED BY <2>1, <2>3, <2>4, EmptySeq
<1>7. PICK w : w = <<b>> \o s
  OBVIOUS
<1>8. DeserializeField(esm_class, w) = [ok |-> TRUE, val |-> esm, rest |-> s]
  <2>1. PICK v : v = <<b>> /\ v \in Seq(Byte) /\ Len(v) = 1 /\ v[1] = b
    <3>1. <<b>> \in Seq(Byte) /\ Len(<<b>>) = 1 /\ <<b>>[1] = b
      BY <1>2
    <3> QED BY <3>1
  <2>2. Taken(esm, Len(v), v \o s) = [ok |-> TRUE, val |-> esm, rest |-> s]
    BY <1>6, <2>1, TakenFromFront
  <2>3. w # <<>> /\ w[1] = b
    <3>1. /\ w \in Seq(Byte) /\ Len(w) = 1 + Len(s) /\ Len(s) \in Nat
          /\ \A i \in 1..1 + Len(s) : w[i] = IF i <= 1 THEN v[i] ELSE s[i - 1]
      BY <1>6, <1>7, <2>1, ConcatProperties, LenProperties
    <3>2. 1 \in 1..1 + Len(s)
      BY <3>1
    <3> QED BY <2>1, <3>1, <3>2, EmptySeq
  <2>4. DeserializeField(esm_class, w) = DeserializeFlags(esm_class, w)
    BY DEF DeserializeField, esm_class
  <2>5. DeserializeFlags(esm_class, w) = Taken(EsmClassFromU8(w[1]), 1, w)
    BY <2>3 DEF DeserializeFlags, FromU8, esm_class
  <2> QED BY <1>2, <1>7, <2>1, <2>2, <2>3, <2>4, <2>5
<1>9. DeserializeField(u8_octet_str(254), s) = DeserializeU8OctetStr(s, 254)
  BY DEF DeserializeField, u8_octet_str
<1>10. PICK f : f = DeserializeU8OctetStr(s, 254)
  OBVIOUS
<1>11. (f.ok => f.val = m) /\ (Len(m) <= 254 => f.ok)
  <2>1. CASE Len(m) <= 254
    <3>1. PICK top \in Byte : top = 254
      <4>1. 254 \in Byte
        BY DEF Byte
      <4> QED BY <4>1
    <3>0. PICK none \in Seq(Byte) : none = <<>>
      <4>1. <<>> \in Seq(Byte)
        OBVIOUS
      <4> QED BY <4>1
    <3>3. Len(m) <= top
      BY <2>1, <3>1
    <3>4. StringFits(m, top, none)
      BY <3>3, ReadString
    <3>5. s \o none = s
      BY <1>6, <3>0, ConcatEmptySeq
    <3>6. f = [ok |-> TRUE, val |-> m, rest |-> none]
      BY <1>3, <1>10, <3>1, <3>4, <3>5 DEF StringFits
    <3> QED BY <3>6
  <2>2. CASE ~(Len(m) <= 254)
    <3>1. s[1] > 254
      BY <1>5, <1>6, <2>2, LenProperties
    <3>2. f = Thrown
      BY <1>10, <3>1 DEF DeserializeU8OctetStr
    <3> QED BY <2>2, <3>2 DEF Thrown
  <2> QED BY <2>1, <2>2
<1>12. PICK e : e = DeserializeField(esm_class, w) /\ e.val = esm /\ e.rest = s
  BY <1>8
<1> QED BY <1>2, <1>4, <1>7, <1>9, <1>10, <1>11, <1>12 DEF OverTheWire

\* A header that says nothing of parts.
Plain(hs) ==
  \A i \in DOMAIN hs :
    hs[i][1] \notin {concatenated_sm_8bit_ref, concatenated_sm_16bit_ref}

\* The header that is added at the end of a plain one is the only one of its tag.
LEMMA OnlyOneAdded ==
  ASSUME NEW hs \in Seq(Header), Plain(hs), NEW h \in Header,
         NEW tag \in {concatenated_sm_8bit_ref, concatenated_sm_16bit_ref}
  PROVE  LET added == Append(hs, h)
             with  == {i \in DOMAIN added : added[i][1] = tag}
         IN  /\ h[1] = tag => with # {} /\ added[Min(with)] = h
             /\ h[1] # tag => with = {}
  <1> DEFINE added == Append(hs, h)
             n == Len(hs) + 1
             with == {i \in DOMAIN added : added[i][1] = tag}
  <1>1. /\ added \in Seq(Header) /\ Len(added) = n /\ n \in Nat
        /\ \A i \in 1..Len(hs) : added[i] = hs[i]
        /\ added[n] = h
    BY AppendProperties, LenProperties
  <1>2. DOMAIN added = 1..n /\ DOMAIN hs = 1..Len(hs)
    BY <1>1
  <1> HIDE DEF added
  <1>3. \A i \in 1..n : added[i][1] = tag <=> i = n /\ h[1] = tag
    <2>1. ASSUME NEW i \in 1..Len(hs) PROVE added[i][1] # tag
      BY <1>1, <1>2 DEF Plain
    <2>2. \A i \in 1..n : i = n \/ i \in 1..Len(hs)
      BY LenProperties
    <2> QED BY <1>1, <2>1, <2>2
  <1>4. n \in 1..n
    BY LenProperties
  <1>5. CASE h[1] = tag
    <2>1. with = {n}
      BY <1>2, <1>3, <1>4, <1>5
    <2> HIDE DEF with
    <2>2. Min(with) = n
      <3>1. {n} \in SUBSET Int /\ n \in {n} /\ \A x \in {n} : n <= x
        BY <1>1
      <3> QED BY <2>1, <3>1, MinIs
    <2> QED BY <1>1, <1>5, <2>1, <2>2 DEF with, added
  <1>6. CASE h[1] # tag
    <2>1. with = {}
      BY <1>2, <1>3, <1>6
    <2> QED BY <1>6, <2>1 DEF added
  <1> QED BY <1>5, <1>6

LEMMA SmallNumber ==
  ASSUME NEW k \in U16s, ~(k > 255)
  PROVE  k \in Byte
  <1>1. k \in Nat
    BY DEF U16s
  <1> QED BY <1>1 DEF Byte

\* A byte that is not negative as a char is widened to itself.
LEMMA NothingCovered ==
  ASSUME NEW hi, NEW lo, NEW signed \in BOOLEAN, ~(signed /\ lo > 127)
  PROVE  /\ Widened(lo, signed) = lo
         /\ Combined(hi, lo, signed) = hi * 256 + lo
  <1>1. Widened(lo, signed) = lo
    BY DEF Widened
  <1>2. Combined(hi, lo, signed) = hi * 256 + lo
    BY DEF Combined
  <1> QED BY <1>1, <1>2

\* Behind headers that say nothing of parts, what set_multi_part_data stores is
\* what get_multi_part_data returns, for all numbers of parts and all references,
\* whichever of the two headers they take: where char is unsigned, and where it
\* is signed when the low byte of the reference is below 128.
THEOREM PartsReadBack ==
  ASSUME NEW hs \in Seq(Header), Plain(hs),
         NEW mpd \in [ref : U16s, number_of_parts : Byte, sequence_number : Byte],
         NEW signed \in BOOLEAN,
         signed => mpd.ref % 256 < 128
  PROVE  GetMultiPartData(SetMultiPartData(hs, mpd), signed) = mpd
  <1> DEFINE wide == U16(mpd.ref) \o <<mpd.number_of_parts, mpd.sequence_number>>
             narrow == <<mpd.ref, mpd.number_of_parts, mpd.sequence_number>>
             with(s, tag) == {i \in DOMAIN s : s[i][1] = tag}
  <1>1. /\ mpd.ref \in U16s /\ mpd.number_of_parts \in Byte
        /\ mpd.sequence_number \in Byte
        /\ mpd = MultiPart(mpd.ref, mpd.number_of_parts, mpd.sequence_number)
    BY DEF MultiPart
  <1>2. CASE mpd.ref > 255
    <2> DEFINE hi == mpd.ref \div 256 % 256
               lo == mpd.ref % 256
               h == <<concatenated_sm_16bit_ref, wide>>
               added == Append(hs, h)
    <2>1. hi \in Byte /\ lo \in Byte /\ hi * 256 + lo = mpd.ref
      BY <1>1, U16Bytes
    <2>2. Combined(hi, lo, signed) = mpd.ref
      <3>1. \A k \in Byte : k < 128 => ~(k > 127)
        BY DEF Byte
      <3>2. signed => ~(lo > 127)
        BY <2>1, <3>1, Zenon
      <3> HIDE DEF hi, lo
      <3>3. ~(signed /\ lo > 127)
        BY <3>2, Zenon
      <3> QED BY <2>1, <3>3, NothingCovered
    <2> HIDE DEF hi, lo
    <2>3. /\ wide \in Seq(Byte)
          /\ wide[1] = hi /\ wide[2] = lo
          /\ wide[3] = mpd.number_of_parts /\ wide[4] = mpd.sequence_number
      BY <1>1, <2>1 DEF U16, hi, lo
    <2> HIDE DEF wide
    <2>4. h \in Header
      BY <2>3 DEF Header, Byte, concatenated_sm_16bit_ref
    <2>5. /\ with(added, concatenated_sm_8bit_ref) = {}
          /\ with(added, concatenated_sm_16bit_ref) # {}
          /\ added[Min(with(added, concatenated_sm_16bit_ref))] = h
      <3>1. /\ h[1] # concatenated_sm_8bit_ref
            /\ h[1] = concatenated_sm_16bit_ref
        BY DEF concatenated_sm_8bit_ref, concatenated_sm_16bit_ref
      <3> HIDE DEF h
      <3> QED BY <2>4, <3>1, OnlyOneAdded, ZenonT(30)
    <2>6. SetMultiPartData(hs, mpd) = added
      BY <1>2 DEF SetMultiPartData, wide
    <2> HIDE DEF added
    <2>7. GetMultiPartData(added, signed)
            = MultiPart(Combined(wide[1], wide[2], signed), wide[3], wide[4])
      BY <2>5 DEF GetMultiPartData
    <2> QED BY <1>1, <2>2, <2>3, <2>6, <2>7
  <1>3. CASE ~(mpd.ref > 255)
    <2> DEFINE h == <<concatenated_sm_8bit_ref, narrow>>
               added == Append(hs, h)
    <2>1. mpd.ref \in Byte
      BY <1>1, <1>3, SmallNumber, Zenon
    <2>2. Widened(mpd.ref, signed) = mpd.ref
      <3>1. \A k \in Nat : k <= 255 => k % 256 = k
        OBVIOUS
      <3>2. \A k \in Byte : k \in Nat /\ k <= 255 /\ (k < 128 => ~(k > 127))
        BY DEF Byte
      <3>3. mpd.ref % 256 = mpd.ref
        BY <2>1, <3>1, <3>2, Zenon
      <3>4. signed => ~(mpd.ref > 127)
        BY <2>1, <3>2, <3>3, Zenon
      <3>5. ~(signed /\ mpd.ref > 127)
        BY <3>4, Zenon
      <3> QED BY <3>5, NothingCovered
    <2>3. /\ narrow \in Seq(Byte)
          /\ narrow[1] = mpd.ref
          /\ narrow[2] = mpd.number_of_parts /\ narrow[3] = mpd.sequence_number
      BY <1>1, <2>1
    <2> HIDE DEF narrow
    <2>4. h \in Header
      BY <2>3 DEF Header, Byte, concatenated_sm_8bit_ref
    <2>5. /\ with(added, concatenated_sm_8bit_ref) # {}
          /\ added[Min(with(added, concatenated_sm_8bit_ref))] = h
      <3>1. h[1] = concatenated_sm_8bit_ref
        OBVIOUS
      <3> HIDE DEF h
      <3> QED BY <2>4, <3>1, OnlyOneAdded, ZenonT(30)
    <2>6. SetMultiPartData(hs, mpd) = added
      BY <1>3 DEF SetMultiPartData, narrow
    <2> HIDE DEF added
    <2>7. GetMultiPartData(added, signed)
            = MultiPart(Widened(narrow[1], signed), narrow[2], narrow[3])
      BY <2>5 DEF GetMultiPartData
    <2> QED BY <1>1, <2>2, <2>3, <2>6, <2>7
  <1> QED BY <1>2, <1>3
-----------------------------------------------------------------------------
(* The invariant: what every phase says of the message.                    *)

\* What the variables hold, whatever the phase.
MessagesTyped ==
  /\ headers \in Seq(Sound)
  /\ body \in Seq(Byte)
  /\ set \in Seq(MultiParts)
  /\ char_signed \in BOOLEAN
  /\ hops \in {0, 1}

\* A message on its way is what pack_short_message has made, or another peer's.
InTransit ==
  phase = "sent" =>
    /\ message \in Seq(Byte) /\ Len(message) <= 255
    /\ esm_class_val \in EsmValues
    /\ ~foreign => /\ CanPack(headers, body, data_coding)
                   /\ message = Packed(headers, body)
                   /\ esm_class_val = EsmFor(headers)

\* A message that has arrived is what unpack_short_message has returned.
Arrived ==
  /\ phase = "received" =>
       /\ UnpackedFrom(message, esm_class_val, data_coding, unpacked)
       /\ ~foreign => unpacked = [headers |-> headers, body |-> body]
  /\ phase = "rejected" => foreign

\* What a gateway has not touched fits.
Untouched ==
  hops = 1 /\ set = <<>> /\ ~converted =>
    /\ phase # "refused"
    /\ phase = "edit" => CanPack(headers, body, data_coding)

\* The headers of the application are the settings it has made.
OwnHeaders == hops = 0 => SettingsIn(headers, set)

\* The invariant.
MInv ==
  /\ MessagesTyped
  /\ InTransit
  /\ Arrived
  /\ Untouched
  /\ OwnHeaders
-----------------------------------------------------------------------------
\* It holds at the start.
LEMMA MInvInit == Init => MInv
<1> SUFFICES ASSUME Init PROVE MInv
  OBVIOUS
<1> USE DEF Init
<1>1. PICK none : none = <<>>
  OBVIOUS
<1>2. none \in Seq(Sound) /\ none \in Seq(MultiParts) /\ Len(none) = 0
  BY <1>1
<1>3. MessagesTyped
  <2>1. body \in Seq(Byte) /\ char_signed \in BOOLEAN
    BY MessagesAssumption DEF MessagesAssumption
  <2> QED BY <1>1, <1>2, <2>1 DEF MessagesTyped
<1>4. InTransit /\ Arrived /\ Untouched
  BY DEF InTransit, Arrived, Untouched
<1>5. OwnHeaders
  BY <1>1, <1>2 DEF OwnHeaders, SettingsIn
<1> QED BY <1>3, <1>4, <1>5 DEF MInv

\* Another setting at the end.
LEMMA OneMoreSetting ==
  ASSUME NEW hs, NEW s, SettingsIn(hs, s), NEW mpd \in MultiParts
  PROVE  SettingsIn(SetMultiPartData(hs, mpd), Append(s, mpd))
<1>1. PICK h \in Sound : h = PartHeader(mpd)
  BY PartHeaderIs
<1>2. PICK gs, t : gs = SetMultiPartData(hs, mpd) /\ t = Append(s, mpd)
  OBVIOUS
<1>3. gs = Append(hs, h)
  BY <1>1, <1>2 DEF SetMultiPartData, PartHeader
<1>4. PICK n \in Nat : /\ n = Len(s) /\ n = Len(hs)
                       /\ hs \in Seq(Sound) /\ s \in Seq(MultiParts)
                       /\ \A i \in 1..n : hs[i] = PartHeader(s[i])
  BY LenProperties DEF SettingsIn
<1>5. /\ gs \in Seq(Sound) /\ Len(gs) = n + 1
      /\ \A i \in 1..n : gs[i] = hs[i]
      /\ gs[n + 1] = h
  BY <1>3, <1>4, AppendProperties
<1>6. /\ t \in Seq(MultiParts) /\ Len(t) = n + 1
      /\ \A i \in 1..n : t[i] = s[i]
      /\ t[n + 1] = mpd
  <2>1. t = Append(s, mpd) /\ s \in Seq(MultiParts) /\ n = Len(s)
    BY <1>2, <1>4
  <2> QED BY <2>1, AppendProperties
<1>7. ASSUME NEW i \in 1..n + 1 PROVE gs[i] = PartHeader(t[i])
  <2>1. i \in 1..n \/ i = n + 1
    OBVIOUS
  <2> QED BY <1>1, <1>4, <1>5, <1>6, <2>1
<1> QED BY <1>2, <1>5, <1>6, <1>7 DEF SettingsIn

\* set_multi_part_data keeps headers that can be read back.
LEMMA SettingHeaders ==
  ASSUME NEW hs \in Seq(Sound), NEW mpd \in MultiParts
  PROVE  SetMultiPartData(hs, mpd) \in Seq(Sound)
<1>1. PICK h \in Sound : h = PartHeader(mpd)
  BY PartHeaderIs
<1>2. SetMultiPartData(hs, mpd) = Append(hs, h)
  BY <1>1 DEF SetMultiPartData, PartHeader
<1> QED BY <1>2, AppendProperties

\* What goes over the wire is of bytes and of a length that one byte says.
LEMMA PackedType ==
  ASSUME NEW hs \in Seq(Sound), NEW text \in Seq(Byte), NEW dc, CanPack(hs, text, dc)
  PROVE  /\ Packed(hs, text) \in Seq(Byte)
         /\ Len(Packed(hs, text)) <= 160
         /\ EsmFor(hs) \in EsmValues
<1>1. Packed(hs, text) \in Seq(Byte)
  BY PackedIs DEF InFrontOf
<1>2. PICK n \in {140, 160} : n = Limit(dc)
  BY LimitIs
<1>3. Len(Packed(hs, text)) <= n
  BY <1>2 DEF CanPack
<1>4. Len(Packed(hs, text)) <= 160
  BY <1>1, <1>2, <1>3, LenProperties
<1> QED BY <1>1, <1>4 DEF EsmFor, EsmValues

\* Every step keeps it.
LEMMA MInvStep == MInv /\ [Next]_vars => MInv'
<1> SUFFICES ASSUME MInv, [Next]_vars PROVE MInv'
  OBVIOUS
<1> USE DEF MInv
<1>t. /\ headers \in Seq(Sound) /\ body \in Seq(Byte) /\ set \in Seq(MultiParts)
      /\ char_signed \in BOOLEAN /\ hops \in {0, 1}
  BY DEF MessagesTyped
<1>1. ASSUME NEW mpd \in Parts, SetParts(mpd) PROVE MInv'
  <2> USE <1>1 DEF SetParts
  <2>1. mpd \in MultiParts
    <3>1. mpd \in [ref : U16s, number_of_parts : Byte, sequence_number : Byte]
      BY MessagesAssumption DEF MessagesAssumption
    <3>2. MultiParts = [ref : U16s, number_of_parts : Byte, sequence_number : Byte]
      BY DEF MultiParts
    <3> QED BY <3>1, <3>2
  <2>2. headers' \in Seq(Sound)
    BY <1>t, <2>1, SettingHeaders
  <2>3. PICK t : t = Append(set, mpd) /\ t = set'
    OBVIOUS
  <2>4. t \in Seq(MultiParts) /\ t # <<>>
    BY <1>t, <2>1, <2>3, AppendProperties, LenProperties, EmptySeq
  <2>5. MessagesTyped'
    BY <1>t, <2>2, <2>3, <2>4 DEF MessagesTyped
  <2>6. InTransit' /\ Arrived' /\ Untouched'
    BY <2>3, <2>4 DEF InTransit, Arrived, Untouched
  <2>7. OwnHeaders'
    BY <2>1, OneMoreSetting DEF OwnHeaders
  <2> QED BY <2>5, <2>6, <2>7
<1>2. ASSUME NEW ucs2 \in Seq(Byte), Converted(ucs2) PROVE MInv'
  <2> USE <1>2 DEF Converted
  <2>1. MessagesTyped'
    BY <1>t DEF MessagesTyped
  <2>2. InTransit' /\ Arrived' /\ Untouched' /\ OwnHeaders'
    BY DEF InTransit, Arrived, Untouched, OwnHeaders
  <2> QED BY <2>1, <2>2
<1>3. ASSUME Pack PROVE MInv'
  <2> USE <1>3 DEF Pack
  <2>1. MessagesTyped' /\ OwnHeaders'
    BY <1>t DEF MessagesTyped, OwnHeaders
  <2>2. CASE CanPack(headers, body, data_coding)
    <3>1. phase' = "sent" /\ message' = Packed(headers, body) /\ esm_class_val' = EsmFor(headers)
      BY <2>2 DEF EsmFor
    <3>2. message' \in Seq(Byte) /\ Len(message') <= 255 /\ esm_class_val' \in EsmValues
      <4>1. message' \in Seq(Byte) /\ Len(message') <= 160 /\ esm_class_val' \in EsmValues
        BY <1>t, <2>2, <3>1, PackedType
      <4>2. Len(message') \in Nat
        BY <4>1, LenProperties
      <4> QED BY <4>1, <4>2
    <3>3. InTransit'
      BY <2>2, <3>1, <3>2 DEF InTransit
    <3>4. Arrived' /\ Untouched'
      BY <3>1 DEF Arrived, Untouched
    <3> QED BY <2>1, <3>3, <3>4
  <2>3. CASE ~CanPack(headers, body, data_coding)
    <3>1. phase' = "refused"
      BY <2>3
    <3>2. InTransit' /\ Arrived'
      BY <3>1 DEF InTransit, Arrived
    <3>3. Untouched'
      BY <2>3 DEF Untouched
    <3> QED BY <2>1, <3>2, <3>3
  <2> QED BY <2>2, <2>3
<1>4. ASSUME NEW m \in Foreign, NEW gsm \in {0, 64, 128, 192}, PeerSends(m, <<0, 0, gsm>>)
      PROVE  MInv'
  <2> USE <1>4 DEF PeerSends
  <2>1. MessagesTyped' /\ OwnHeaders'
    BY <1>t DEF MessagesTyped, OwnHeaders
  <2>2. InTransit'
    <3>0. m \in Seq(Byte) /\ Len(m) <= 255
      BY MessagesAssumption DEF MessagesAssumption
    <3>1. message' \in Seq(Byte) /\ Len(message') <= 255
      BY <3>0
    <3>2. esm_class_val' \in EsmValues
      BY DEF EsmValues
    <3> QED BY <3>1, <3>2 DEF InTransit
  <2>3. Arrived' /\ Untouched'
    BY DEF Arrived, Untouched
  <2> QED BY <2>1, <2>2, <2>3
<1>5. ASSUME Receive PROVE MInv'
  <2>1. PICK e : e = DeserializeField(esm_class, Wire)
    OBVIOUS
  <2>2. PICK m : m = DeserializeField(u8_octet_str(254), e.rest)
    OBVIOUS
  <2>3. PICK u : u = UnpackShortMessage(e.val, data_coding, m.val)
    OBVIOUS
  <2>4. /\ phase = "sent"
        /\ IF m.ok /\ u.ok
           THEN phase' = "received" /\ unpacked' = [headers |-> u.headers, body |-> u.body]
           ELSE phase' = "rejected" /\ UNCHANGED unpacked
        /\ UNCHANGED <<char_signed, headers, set, body, converted, data_coding,
                       esm_class_val, message, foreign, hops>>
    BY <1>5, <2>1, <2>2, <2>3 DEF Receive
  <2>5. /\ message \in Seq(Byte) /\ Len(message) <= 255
        /\ esm_class_val \in EsmValues
        /\ ~foreign => /\ CanPack(headers, body, data_coding)
                       /\ message = Packed(headers, body)
                       /\ esm_class_val = EsmFor(headers)
    BY <2>4 DEF InTransit
  <2>6. /\ e.val = esm_class_val
        /\ m.ok => m.val = message
        /\ Len(message) <= 254 => m.ok
    BY <2>1, <2>2, <2>5, WireKeeps DEF OverTheWire, Wire
  <2>7. ~foreign => /\ m.ok
                    /\ u = [ok |-> TRUE, headers |-> headers, body |-> body]
    <3> SUFFICES ASSUME ~foreign
                 PROVE  m.ok /\ u = [ok |-> TRUE, headers |-> headers, body |-> body]
      OBVIOUS
    <3>1. Len(message) <= 160
      BY <1>t, <2>5, PackedType
    <3>2. m.ok
      <4>1. Len(message) <= 254
        BY <2>5, <3>1, LenProperties
      <4> QED BY <2>6, <4>1
    <3> QED BY <1>t, <2>3, <2>5, <2>6, <3>2, UnpackedBack
  <2>8. m.ok /\ u.ok => UnpackedFrom(message, esm_class_val, data_coding, u)
    BY <2>3, <2>5, <2>6, UnpackKeeps
  <2>9. MessagesTyped' /\ OwnHeaders' /\ InTransit'
    BY <1>t, <2>4 DEF MessagesTyped, OwnHeaders, InTransit
  <2>10. Untouched'
    BY <2>4 DEF Untouched
  <2>11. Arrived'
    <3>1. CASE m.ok /\ u.ok
      <4>1. PICK v : v = [headers |-> u.headers, body |-> u.body] /\ v = unpacked'
        BY <2>4, <3>1
      <4>2. v.headers = u.headers /\ v.body = u.body
        BY <4>1
      <4>3. UnpackedFrom(message, esm_class_val, data_coding, v)
        BY <2>8, <3>1, <4>2 DEF UnpackedFrom
      <4>4. ~foreign => v = [headers |-> headers, body |-> body]
        BY <2>7, <4>1
      <4>5. phase' = "received"
        BY <2>4, <3>1
      <4> QED BY <2>4, <4>1, <4>3, <4>4, <4>5 DEF Arrived
    <3>2. CASE ~(m.ok /\ u.ok)
      <4>1. phase' = "rejected" /\ foreign' = foreign
        BY <2>4, <3>2
      <4>2. foreign
        BY <2>7, <3>2
      <4> QED BY <4>1, <4>2 DEF Arrived
    <3> QED BY <3>1, <3>2
  <2> QED BY <2>9, <2>10, <2>11
<1>6. ASSUME Forward PROVE MInv'
  <2> USE <1>6 DEF Forward
  <2>1. UnpackedFrom(message, esm_class_val, data_coding, unpacked)
    BY DEF Arrived
  <2>2. /\ headers' \in Seq(Sound) /\ body' \in Seq(Byte)
        /\ CanPack(headers', body', data_coding')
    BY <2>1 DEF UnpackedFrom
  <2>0. <<>> \in Seq(MultiParts)
    OBVIOUS
  <2>3. PICK none \in Seq(MultiParts) : none = <<>>
    BY <2>0
  <2>4. MessagesTyped'
    BY <1>t, <2>2, <2>3 DEF MessagesTyped
  <2>5. InTransit' /\ Arrived' /\ OwnHeaders'
    BY DEF InTransit, Arrived, OwnHeaders
  <2>6. Untouched'
    BY <2>2 DEF Untouched
  <2> QED BY <2>4, <2>5, <2>6
<1>7. ASSUME UNCHANGED vars PROVE MInv'
  BY <1>7 DEF vars, MessagesTyped, InTransit, Arrived, Untouched, OwnHeaders
<1>8. ASSUME ConvertGsm \/ ConvertAscii PROVE MInv'
  BY <1>t, <1>2, <1>8, ConvertedType DEF ConvertGsm, ConvertAscii
<1> QED BY <1>1, <1>3, <1>4, <1>5, <1>6, <1>7, <1>8 DEF Next

\* It holds in every state.
LEMMA MInvAlways == Spec => []MInv
BY MInvInit, MInvStep, PTL DEF Spec
-----------------------------------------------------------------------------
(* The properties.                                                         *)

\* What pack_short_message accepts, unpack_short_message at the other end returns:
\* the same headers and the same text, and it never throws.
THEOREM MessagesKept == Spec => []MessageKept
<1>1. MInv => MessageKept
  BY DEF MInv, Arrived, MessageKept
<1> QED BY <1>1, MInvAlways, PTL

\* pack_short_message accepts whatever unpack_short_message has returned, as long
\* as the gateway leaves it as it is.
THEOREM GatewayFits == Spec => []ForwardedFits
<1>1. MInv => ForwardedFits
  BY DEF MInv, Untouched, ForwardedFits
<1> QED BY <1>1, MInvAlways, PTL

\* unpack_short_message drops nothing of a message that it accepts, but for one
\* byte that is too short to be a header, whoever has sent the message.
THEOREM NothingIsDropped == Spec => []NothingDropped
<1>1. MInv => NothingDropped
  BY DEF MInv, Arrived, UnpackedFrom, Kept, NothingDropped
<1> QED BY <1>1, MInvAlways, PTL

\* get_multi_part_data at the other end returns one of the multi_part_data that
\* set_multi_part_data was called with, and never a mixture of two.
THEOREM PartsAreKept == Spec => []PartsKept
<1>1. MInv => PartsKept
  <2> SUFFICES ASSUME MInv, OwnParts
               PROVE  \E i \in DOMAIN set : PartsOf(ReceivedParts, set[i], char_signed)
    BY DEF PartsKept, PartsOf
  <2>1. char_signed \in BOOLEAN /\ SettingsIn(headers, set) /\ set # <<>>
    BY DEF MInv, MessagesTyped, OwnHeaders, OwnParts
  <2>2. unpacked.headers = headers
    <3>1. PICK v : v = [headers |-> headers, body |-> body]
      OBVIOUS
    <3>2. unpacked = v
      BY <3>1 DEF MInv, Arrived, OwnParts
    <3> QED BY <3>1, <3>2
  <2> QED BY <2>1, <2>2, OneOfTheSettings DEF ReceivedParts
<1> QED BY <1>1, MInvAlways, PTL

\* A text in two parts.
CutAt(s, k, head, tail) ==
  /\ head \in Seq(Byte) /\ tail \in Seq(Byte)
  /\ s = head \o tail

\* substr at a position cuts a text in two.
LEMMA CutInTwo ==
  ASSUME NEW s \in Seq(Byte), NEW k \in 0..Len(s)
  PROVE  CutAt(s, k, SubSeq(s, 1, k), SubSeq(s, k + 1, Len(s)))
<1>1. Len(s) \in Nat
  BY LenProperties
<1>2. PICK a, b, n : a = SubSeq(s, 1, k) /\ b = SubSeq(s, k + 1, Len(s)) /\ n = Len(s)
  OBVIOUS
<1>3. /\ a \in Seq(Byte) /\ Len(a) = k /\ \A j \in 1..k : a[j] = s[j]
  <2>1. PICK i : i = 1
    OBVIOUS
  <2>2. i \in 1..Len(s) + 1 /\ k \in Int /\ i <= k + 1 /\ k <= Len(s) /\ k - i + 1 = k
    BY <1>1, <2>1
  <2>3. a = SubSeq(s, i, k)
    BY <1>2, <2>1
  <2>4. /\ a \in Seq(Byte) /\ Len(a) = k - i + 1
        /\ \A j \in 1..k - i + 1 : a[j] = s[i + j - 1]
    BY <2>2, <2>3, SubSeqBytes
  <2>5. \A j \in 1..k : i + j - 1 = j
    BY <2>1
  <2> QED BY <2>2, <2>4, <2>5
<1>4. /\ b \in Seq(Byte) /\ Len(b) = n - k
      /\ \A j \in 1..n - k : b[j] = s[k + j]
  <2>1. PICK i : i = k + 1
    OBVIOUS
  <2>2. i \in 1..Len(s) + 1 /\ n \in Int /\ i <= n + 1 /\ n <= Len(s) /\ n - i + 1 = n - k
    BY <1>1, <1>2, <2>1
  <2>3. b = SubSeq(s, i, n)
    BY <1>2, <2>1
  <2>4. /\ b \in Seq(Byte) /\ Len(b) = n - i + 1
        /\ \A j \in 1..n - i + 1 : b[j] = s[i + j - 1]
    BY <2>2, <2>3, SubSeqBytes
  <2>5. \A j \in 1..n - k : i + j - 1 = k + j
    BY <2>1
  <2> QED BY <2>2, <2>4, <2>5
<1>5. PICK c : c = a \o b
  OBVIOUS
<1>6. /\ c \in Seq(Byte) /\ Len(c) = n
      /\ \A j \in 1..n : c[j] = IF j <= k THEN a[j] ELSE b[j - k]
  <2>1. /\ c \in Seq(Byte) /\ Len(c) = Len(a) + Len(b)
        /\ \A j \in 1..Len(a) + Len(b) : c[j] = IF j <= Len(a) THEN a[j] ELSE b[j - Len(a)]
    BY <1>3, <1>4, <1>5, ConcatProperties
  <2>2. Len(a) + Len(b) = n
    <3>1. \A p, q \in Int : q + (p - q) = p
      OBVIOUS
    <3>2. n \in Int /\ k \in Int
      BY <1>1, <1>2
    <3>3. k + (n - k) = n
      BY <3>1, <3>2
    <3> QED BY <1>3, <1>4, <3>3, Zenon
  <2> QED BY <1>3, <2>1, <2>2
<1>7. ASSUME NEW j \in 1..Len(c) PROVE c[j] = s[j]
  <2>1. CASE j <= k
    <3>1. j \in 1..k /\ j \in 1..n
      BY <1>1, <1>2, <1>6, <2>1
    <3> QED BY <1>3, <1>6, <2>1, <3>1
  <2>2. CASE ~(j <= k)
    <3>1. PICK i : i = j - k
      OBVIOUS
    <3>2. i \in 1..n - k /\ j \in 1..n /\ k + i = j
      BY <1>1, <1>2, <1>6, <2>2, <3>1
    <3> QED BY <1>4, <1>6, <2>2, <3>1, <3>2
  <2> QED BY <2>1, <2>2
<1>8. s = c
  BY <1>2, <1>6, <1>7, SeqEqual
<1> QED BY <1>2, <1>3, <1>4, <1>5, <1>8 DEF CutAt

\* convert_gsm_to_ucs2 of a text is the conversion of its parts, one behind the
\* other, unless it is cut behind an escape; and skips what is no septet.
THEOREM TextsByParts == Spec => []ConvertedByParts
<1>1. MInv => ConvertedByParts
  <2> SUFFICES ASSUME MInv
               PROVE  /\ convert_gsm_to_ucs2(body) = convert_gsm_to_ucs2(Septets(body))
                      /\ \A k \in 0..Len(body) :
                           LET head == SubSeq(body, 1, k)
                               tail == SubSeq(body, k + 1, Len(body))
                           IN  Septets(head) = <<>> \/ Last(Septets(head)) # Escape =>
                                 convert_gsm_to_ucs2(body) =
                                   convert_gsm_to_ucs2(head) \o convert_gsm_to_ucs2(tail)
    BY DEF ConvertedByParts, Septets
  <2>1. body \in Seq(Byte)
    BY DEF MInv, MessagesTyped
  <2>2. convert_gsm_to_ucs2(body) = convert_gsm_to_ucs2(Septets(body))
    <3>1. PICK s \in Seq(Byte) : s = Septets(body)
      <4>1. 0 \in Byte
        BY DEF Byte
      <4> QED BY <2>1, <4>1, SeptetsCons
    <3>2. Gsm(s, FALSE) = Gsm(body, FALSE)
      BY <2>1, <3>1, OnlySeptets
    <3> QED BY <2>1, <3>1, <3>2, GsmIs
  <2>3. ASSUME NEW k \in 0..Len(body),
               NEW head, head = SubSeq(body, 1, k),
               NEW tail, tail = SubSeq(body, k + 1, Len(body)),
               Septets(head) = <<>> \/ Last(Septets(head)) # Escape
        PROVE  convert_gsm_to_ucs2(body) =
                 convert_gsm_to_ucs2(head) \o convert_gsm_to_ucs2(tail)
    <3>1. PICK h \in Seq(Byte), t \in Seq(Byte) : h = head /\ t = tail /\ body = h \o t
      BY <2>1, <2>3, CutInTwo DEF CutAt
    <3>2. Closed(h, FALSE)
      BY <2>3, <3>1 DEF Closed
    <3>3. Gsm(h \o t, FALSE) = Gsm(h, FALSE) \o Gsm(t, FALSE)
      BY <3>2, GsmParts
    <3>4. convert_gsm_to_ucs2(h) = Gsm(h, FALSE) /\ convert_gsm_to_ucs2(t) = Gsm(t, FALSE)
      BY GsmIs
    <3>5. convert_gsm_to_ucs2(body) = Gsm(body, FALSE)
      BY <2>1, GsmIs
    <3> QED BY <3>1, <3>3, <3>4, <3>5
  <2> QED BY <2>2, <2>3
<1> QED BY <1>1, MInvAlways, PTL
=============================================================================
