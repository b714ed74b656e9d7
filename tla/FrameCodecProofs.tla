-------------------------- MODULE FrameCodecProofs --------------------------
(***************************************************************************)
(* What two ends of a connection may rely on, for every PDU, every value   *)
(* of its members and every body: what was sent is delivered, what was     *)
(* cut is noticed, and what was received can be sent.                      *)
(***************************************************************************)
EXTENDS FrameCodec, SerializationProofs
-----------------------------------------------------------------------------
(* Fields: what the codec of a member writes and reads.                     *)

\* The codecs that the PDUs use.
Strings == {c_octet_str(n) : n \in 1..255} \cup {u8_octet_str(n) : n \in 0..255}
Flags   == {esm_class, registered_delivery}
Codecs  == Strings \cup Flags \cup {u8}

\* What a member can hold.
Holds(c, v) == IF c.kind = "oparam" THEN IsParams(v) ELSE IsValue(c, v)

\* No null character in a string that a null character ends.
NoNull(c, v) == c.kind = "c_octet_str" => \A i \in DOMAIN v : v[i] # 0

\* The operations of the strings.
LEMMA StringCodec ==
  ASSUME NEW c \in Strings, NEW v, NEW buf
  PROVE  \/ \E n \in 1..255 :
              /\ c.kind = "c_octet_str" /\ c.max = n
              /\ SerializeField(c, v) = SerializeCOctetStr(v)
              /\ DeserializeField(c, buf) = DeserializeCOctetStr(buf, n)
              /\ Holds(c, v) <=> v \in Seq(Byte)
              /\ Accepts(c, v) <=> Len(v) < n
         \/ \E n \in Byte :
              /\ c.kind = "u8_octet_str" /\ c.max = n
              /\ SerializeField(c, v) = SerializeU8OctetStr(v)
              /\ DeserializeField(c, buf) = DeserializeU8OctetStr(buf, n)
              /\ Holds(c, v) <=> v \in Seq(Byte)
              /\ Accepts(c, v) <=> Len(v) <= n
<1>1. CASE \E n \in 1..255 : c = c_octet_str(n)
  <2>1. PICK n \in 1..255 : c = c_octet_str(n)
    BY <1>1
  <2>2. c.kind = "c_octet_str" /\ c.max = n
    BY <2>1 DEF c_octet_str
  <2> QED BY <2>2 DEF SerializeField, DeserializeField, Holds, IsValue, Accepts
<1>2. CASE \E n \in 0..255 : c = u8_octet_str(n)
  <2>1. PICK n \in Byte : c = u8_octet_str(n)
    BY <1>2 DEF Byte
  <2>2. c.kind = "u8_octet_str" /\ c.max = n
    BY <2>1 DEF u8_octet_str
  <2> QED BY <2>2 DEF SerializeField, DeserializeField, Holds, IsValue, Accepts
<1> QED BY <1>1, <1>2 DEF Strings

\* The operations of the single bytes.
LEMMA ByteCodec ==
  ASSUME NEW c \in Flags \cup {u8}, NEW v, NEW buf
  PROVE  /\ c.kind # "oparam" /\ c.kind # "c_octet_str" /\ Accepts(c, v)
         /\ c = u8 => /\ SerializeField(c, v) = <<v>>
                      /\ DeserializeField(c, buf) = DeserializeU8(buf)
                      /\ Holds(c, v) <=> v \in Byte
         /\ c # u8 => /\ SerializeField(c, v) = <<FlagsToU8(v)>>
                      /\ DeserializeField(c, buf) = DeserializeFlags(c, buf)
                      /\ Holds(c, v) <=> \E b \in Byte : v = FromU8(c, b)
<1>1. CASE c = u8
  <2>1. c.kind = "u8"
    BY <1>1 DEF u8
  <2> QED BY <1>1, <2>1 DEF SerializeField, DeserializeField, Holds, IsValue, Accepts
<1>2. CASE c # u8
  <2>1. c.kind \in {"esm_class", "registered_delivery"}
    BY <1>2 DEF Flags, esm_class, registered_delivery
  <2> QED BY <1>2, <2>1 DEF SerializeField, DeserializeField, Holds, IsValue, Accepts
<1> QED BY <1>1, <1>2

\* registered_delivery keeps the bits of its members.
LEMMA RegisteredDeliveryRoundTrip ==
  ASSUME NEW b \in Byte
  PROVE  /\ FlagsToU8(RegisteredDeliveryFromU8(b)) \in Byte
         /\ RegisteredDeliveryFromU8(FlagsToU8(RegisteredDeliveryFromU8(b)))
              = RegisteredDeliveryFromU8(b)
BY DEF FlagsToU8, RegisteredDeliveryFromU8, Byte

\* Flags are read as they were written.
LEMMA FlagsRoundTrip ==
  ASSUME NEW c \in Flags, NEW b \in Byte, NEW v, v = FromU8(c, b)
  PROVE  FlagsToU8(v) \in Byte /\ FromU8(c, FlagsToU8(v)) = v
<1>1. CASE c = esm_class
  <2>1. v = EsmClassFromU8(b) /\ FromU8(c, FlagsToU8(v)) = EsmClassFromU8(FlagsToU8(v))
    BY <1>1 DEF FromU8, esm_class
  <2> QED BY <2>1, EsmClassRoundTrip
<1>2. CASE c = registered_delivery
  <2>1. /\ v = RegisteredDeliveryFromU8(b)
        /\ FromU8(c, FlagsToU8(v)) = RegisteredDeliveryFromU8(FlagsToU8(v))
    BY <1>2 DEF FromU8, registered_delivery
  <2> QED BY <2>1, RegisteredDeliveryRoundTrip
<1> QED BY <1>1, <1>2 DEF Flags

\* What is read of the beginning of what was written: the field and no more, or
\* nothing; and the field when it is there (x is missing behind it, t follows).
FieldKept(v, x, t, r) ==
  /\ r.ok => r.val = v /\ r.rest \in Seq(Byte) /\ r.rest \o x = t
  /\ x = <<>> => r.ok

\* serialize of a field writes bytes, and at least one.
LEMMA FieldBytes ==
  ASSUME NEW c \in Codecs, NEW v, Holds(c, v), Accepts(c, v)
  PROVE  SerializeField(c, v) \in Seq(Byte) /\ SerializeField(c, v) # <<>>
<1>1. CASE c \in Strings
  <2>1. v \in Seq(Byte)
    BY <1>1, StringCodec
  <2>2. Append(v, 0) \in Seq(Byte) /\ Append(v, 0) # <<>>
    <3>1. 0 \in Byte
      BY DEF Byte
    <3> QED BY <2>1, <3>1, AppendProperties
  <2>3. <<Len(v) % 256>> \o v \in Seq(Byte) /\ <<Len(v) % 256>> \o v # <<>>
    <3>1. PICK z \in Byte : z = Len(v) % 256
      BY <2>1, LenProperties, ModByte
    <3>2. <<z>> \in Seq(Byte) /\ <<z>> # <<>>
      OBVIOUS
    <3>3. <<z>> \o v \in Seq(Byte) /\ <<z>> \o v # <<>>
      BY <2>1, <3>2, ConcatProperties, ConcatEqualIffEmpty
    <3> QED BY <3>1, <3>3
  <2>4. SerializeField(c, v) \in {SerializeCOctetStr(v), SerializeU8OctetStr(v)}
    BY <1>1, StringCodec
  <2> QED BY <2>2, <2>3, <2>4 DEF SerializeCOctetStr, SerializeU8OctetStr
<1>2. CASE c = u8
  <2>1. v \in Byte /\ SerializeField(c, v) = <<v>>
    BY <1>2, ByteCodec
  <2> QED BY <2>1
<1>3. CASE c \in Flags /\ c # u8
  <2>1. PICK b \in Byte : v = FromU8(c, b)
    BY <1>3, ByteCodec
  <2>2. PICK z \in Byte : z = FlagsToU8(v)
    BY <1>3, <2>1, FlagsRoundTrip
  <2>3. SerializeField(c, v) = <<z>>
    BY <1>3, <2>2, ByteCodec
  <2> QED BY <2>3
<1> QED BY <1>1, <1>2, <1>3 DEF Codecs

\* A field that is there is read as it was written, and nothing of what is behind it.
LEMMA FieldRead ==
  ASSUME NEW c \in Codecs, NEW v, Holds(c, v), Accepts(c, v), NoNull(c, v),
         NEW y \in Seq(Byte), NEW buf, buf = SerializeField(c, v) \o y
  PROVE  DeserializeField(c, buf) = [ok |-> TRUE, val |-> v, rest |-> y]
<1>1. CASE c \in Strings
  <2>1. CASE c.kind = "c_octet_str"
    <3>1. PICK n \in 1..255 :
            /\ SerializeField(c, v) = SerializeCOctetStr(v)
            /\ DeserializeField(c, buf) = DeserializeCOctetStr(buf, n)
            /\ v \in Seq(Byte) /\ Len(v) < n
      BY <1>1, <2>1, StringCodec
    <3>2. \A i \in DOMAIN v : v[i] # 0
      BY <2>1 DEF NoNull
    <3>3. n \in Nat
      OBVIOUS
    <3> QED BY <3>1, <3>2, <3>3, COctetStrRoundTrip
  <2>2. CASE c.kind # "c_octet_str"
    <3>1. PICK n \in Byte :
            /\ SerializeField(c, v) = SerializeU8OctetStr(v)
            /\ DeserializeField(c, buf) = DeserializeU8OctetStr(buf, n)
            /\ v \in Seq(Byte) /\ Len(v) <= n
      BY <1>1, <2>2, StringCodec
    <3> QED BY <3>1, U8OctetStrRoundTrip
  <2> QED BY <2>1, <2>2
<1>2. CASE c = u8
  <2>1. v \in Byte /\ buf = <<v>> \o y /\ DeserializeField(c, buf) = DeserializeU8(buf)
    BY <1>2, ByteCodec
  <2> QED BY <2>1, U8RoundTrip
<1>3. CASE c \in Flags /\ c # u8
  <2>1. PICK b \in Byte : v = FromU8(c, b)
    BY <1>3, ByteCodec
  <2>2. PICK z \in Byte : z = FlagsToU8(v) /\ FromU8(c, z) = v
    BY <1>3, <2>1, FlagsRoundTrip
  <2>3. buf = <<z>> \o y /\ DeserializeField(c, buf) = DeserializeFlags(c, buf)
    BY <1>3, <2>2, ByteCodec
  <2>4. <<z>> \in Seq(Byte) /\ Len(<<z>>) = 1
    OBVIOUS
  <2>5. buf[1] = z /\ buf # <<>>
    <3>1. buf[1] = z /\ Len(buf) = 1 + Len(y) /\ Len(y) \in Nat
      BY <2>3, <2>4, ConcatProperties, LenProperties
    <3> QED BY <3>1
  <2>6. Taken(v, 1, buf) = [ok |-> TRUE, val |-> v, rest |-> y]
    BY <2>3, <2>4, TakenFromFront
  <2> QED BY <2>2, <2>3, <2>5, <2>6 DEF DeserializeFlags
<1> QED BY <1>1, <1>2, <1>3 DEF Codecs

\* A field that is cut is not read: deserialize throws.
LEMMA FieldMissing ==
  ASSUME NEW c \in Codecs, NEW v, Holds(c, v), Accepts(c, v), NoNull(c, v),
         NEW buf \in Seq(Byte), NEW y \in Seq(Byte), y # <<>>,
         SerializeField(c, v) = buf \o y
  PROVE  ~DeserializeField(c, buf).ok
<1>y. Len(buf) \in Nat /\ Len(y) \in Nat \ {0}
  BY LenProperties, EmptySeq
<1>1. CASE c \in Strings
  <2>1. CASE c.kind = "c_octet_str"
    <3>1. PICK n \in 1..255 :
            /\ SerializeField(c, v) = SerializeCOctetStr(v)
            /\ DeserializeField(c, buf) = DeserializeCOctetStr(buf, n)
            /\ v \in Seq(Byte) /\ Len(v) < n
      BY <1>1, <2>1, StringCodec
    <3>2. PICK w : w = Append(v, 0) /\ w = buf \o y
      BY <3>1 DEF SerializeCOctetStr
    <3>3. Len(w) = Len(v) + 1 /\ \A i \in 1..Len(v) : w[i] = v[i]
      <4>1. 0 \in Byte
        BY DEF Byte
      <4> QED BY <3>1, <3>2, <4>1, AppendProperties
    <3>4. Len(w) = Len(buf) + Len(y) /\ \A i \in 1..Len(buf) : w[i] = buf[i]
      <4>1. /\ Len(w) = Len(buf) + Len(y)
            /\ \A i \in 1..Len(buf) + Len(y) :
                 w[i] = IF i <= Len(buf) THEN buf[i] ELSE y[i - Len(buf)]
        BY <3>2, ConcatProperties
      <4> QED BY <1>y, <4>1
    <3>5. \A i \in 1..Len(buf) : i \in 1..Len(v)
      BY <1>y, <3>1, <3>3, <3>4, LenProperties
    <3>6. DOMAIN buf = 1..Len(buf) /\ DOMAIN v = 1..Len(v)
      BY <3>1, LenProperties
    <3>7. {i \in DOMAIN buf : buf[i] = 0} = {}
      BY <2>1, <3>3, <3>4, <3>5, <3>6 DEF NoNull
    <3> QED BY <3>1, <3>7 DEF DeserializeCOctetStr, Thrown
  <2>2. CASE c.kind # "c_octet_str"
    <3>1. PICK n \in Byte :
            /\ SerializeField(c, v) = SerializeU8OctetStr(v)
            /\ DeserializeField(c, buf) = DeserializeU8OctetStr(buf, n)
            /\ v \in Seq(Byte) /\ Len(v) <= n
      BY <1>1, <2>2, StringCodec
    <3>2. PICK m \in Nat : m = Len(v) /\ m <= 255 /\ m % 256 = m
      <4>1. \A k \in Byte : k \in Nat /\ k <= 255
        BY DEF Byte
      <4>2. n \in Nat /\ n <= 255 /\ Len(v) \in Nat
        BY <3>1, <4>1, LenProperties
      <4>3. Len(v) <= 255
        BY <3>1, <4>2
      <4> QED BY <4>2, <4>3, ModByte
    <3>3. PICK w : w = <<m>> \o v /\ w = buf \o y
      BY <3>1, <3>2 DEF SerializeU8OctetStr
    <3>4. Len(w) = m + 1 /\ w[1] = m
      <4>0. \A k \in Nat : k <= 255 => k \in 0..255
        OBVIOUS
      <4>1. m \in Byte
        BY <3>2, <4>0 DEF Byte
      <4>2. <<m>> \in Seq(Byte) /\ Len(<<m>>) = 1 /\ <<m>>[1] = m
        BY <4>1
      <4>3. /\ Len(w) = 1 + Len(v)
            /\ \A i \in 1..1 + Len(v) : w[i] = IF i <= 1 THEN <<m>>[i] ELSE v[i - 1]
        BY <3>1, <3>3, <4>2, ConcatProperties
      <4>4. 1 \in 1..1 + Len(v)
        BY <3>2
      <4> QED BY <3>2, <4>2, <4>3, <4>4
    <3>5. Len(w) = Len(buf) + Len(y) /\ \A i \in 1..Len(buf) : w[i] = buf[i]
      <4>1. /\ Len(w) = Len(buf) + Len(y)
            /\ \A i \in 1..Len(buf) + Len(y) :
                 w[i] = IF i <= Len(buf) THEN buf[i] ELSE y[i - Len(buf)]
        BY <3>3, ConcatProperties
      <4> QED BY <1>y, <4>1
    <3>6. buf = <<>> \/ Len(buf) <= buf[1]
      <4> SUFFICES ASSUME buf # <<>> PROVE Len(buf) <= buf[1]
        OBVIOUS
      <4>1. Len(buf) \in Nat \ {0}
        BY EmptySeq
      <4>2. buf[1] = m
        BY <3>4, <3>5, <4>1
      <4> QED BY <1>y, <3>2, <3>4, <3>5, <4>2
    <3> QED BY <3>1, <3>6 DEF DeserializeU8OctetStr, Thrown
  <2> QED BY <2>1, <2>2
<1>2. CASE c \in Flags \cup {u8}
  <2>1. \E z : SerializeField(c, v) = <<z>>
    BY <1>2, ByteCodec
  <2>2. Len(buf) + Len(y) = 1
    <3>1. Len(buf \o y) = Len(buf) + Len(y)
      BY ConcatProperties
    <3> QED BY <2>1, <3>1
  <2>3. buf = <<>>
    BY <1>y, <2>2, EmptySeq
  <2>4. DeserializeField(c, buf) = Thrown
    BY <1>2, <2>3, ByteCodec DEF DeserializeU8, DeserializeFlags
  <2> QED BY <2>4 DEF Thrown
<1> QED BY <1>1, <1>2 DEF Codecs

\* Both together: deserialize of the beginning of a serialized field, and of what
\* follows it.
LEMMA FieldCut ==
  ASSUME NEW c \in Codecs, NEW v, Holds(c, v), Accepts(c, v), NoNull(c, v),
         NEW buf \in Seq(Byte), NEW x \in Seq(Byte), NEW t \in Seq(Byte),
         buf \o x = SerializeField(c, v) \o t
  PROVE  FieldKept(v, x, t, DeserializeField(c, buf))
<1>1. PICK s \in Seq(Byte) : s = SerializeField(c, v)
  BY FieldBytes
<1>2. Len(s) \in Nat /\ Len(buf) \in Nat
  BY LenProperties
<1>3. CASE Len(s) <= Len(buf)
  <2>1. Overlaps(buf, x, s, t)
    BY <1>1, <1>3, Overlap
  <2>2. PICK y \in Seq(Byte) : buf = s \o y /\ y \o x = t
    BY <2>1 DEF Overlaps
  <2>0. PICK b \in Seq(Byte) : b = buf /\ b = SerializeField(c, v) \o y
    BY <1>1, <2>2
  <2>3. DeserializeField(c, b) = [ok |-> TRUE, val |-> v, rest |-> y]
    <3>1. y \in Seq(Byte) /\ b = SerializeField(c, v) \o y
      BY <2>0, <2>2
    <3>2. \A z \in Seq(Byte) : \A a : a = SerializeField(c, v) \o z
            => DeserializeField(c, a) = [ok |-> TRUE, val |-> v, rest |-> z]
      BY FieldRead
    <3> QED BY <3>1, <3>2, Zenon
  <2> QED BY <2>0, <2>2, <2>3 DEF FieldKept
<1>4. CASE ~(Len(s) <= Len(buf))
  <2>0. Len(buf) <= Len(s)
    BY <1>2, <1>4
  <2>6. PICK z : z = buf \o x /\ z = s \o t
    BY <1>1
  <2>1. Overlaps(s, t, buf, x)
    BY <2>0, <2>6, Overlap
  <2>2. PICK y \in Seq(Byte) : s = buf \o y /\ y \o t = x
    BY <2>1 DEF Overlaps
  <2>3. y # <<>>
    <3>1. buf \o <<>> = buf
      BY ConcatEmptySeq
    <3> QED BY <1>2, <1>4, <2>2, <3>1
  <2>4. ~DeserializeField(c, buf).ok
    BY <1>1, <2>2, <2>3, FieldMissing
  <2>5. x # <<>>
    BY <2>2, <2>3, ConcatEqualIffEmpty
  <2> QED BY <2>4, <2>5 DEF FieldKept
<1> QED BY <1>3, <1>4

\* What a deserializer returns of any buffer: a value that its member can hold and
\* that can be serialized, and bytes; or it throws.
FieldTyped(c, r) ==
  \/ r = Thrown
  \/ \E v : \E y \in Seq(Byte) :
       /\ r = [ok |-> TRUE, val |-> v, rest |-> y]
       /\ Holds(c, v) /\ Accepts(c, v)

\* What takes bytes off the front of a buffer returns the bytes behind them, as the
\* deserializers of serialization.hpp do.
LEMMA TakenType ==
  ASSUME NEW v, NEW buf \in Seq(Byte), NEW n \in 0..Len(buf)
  PROVE  \E y \in Seq(Byte) : Taken(v, n, buf) = [ok |-> TRUE, val |-> v, rest |-> y]
<1>1. n + 1 \in 1..Len(buf) + 1
  BY LenProperties
<1>2. PICK y : y = SubSeq(buf, n + 1, Len(buf))
  OBVIOUS
<1>3. y \in Seq(Byte)
  BY <1>1, <1>2, From
<1> QED BY <1>2, <1>3 DEF Taken

\* A c_octet_str that deserialize returns is shorter than the limit: serialize accepts it.
LEMMA COctetStrType ==
  ASSUME NEW buf \in Seq(Byte), NEW n \in Nat, NEW r, r = DeserializeCOctetStr(buf, n)
  PROVE  \/ r = Thrown
         \/ \E v, y \in Seq(Byte) :
              r = [ok |-> TRUE, val |-> v, rest |-> y] /\ Len(v) < n
<1> DEFINE nulls == {i \in DOMAIN buf : buf[i] = 0}
<1>1. CASE nulls = {}
  BY <1>1 DEF DeserializeCOctetStr
<1>2. CASE nulls # {}
  <2>1. DOMAIN buf = 1..Len(buf) /\ Len(buf) \in Nat
    BY LenProperties
  <2>2. PICK k : k = Min(nulls) /\ k \in 1..Len(buf)
    <3>1. nulls \in SUBSET Nat
      BY <2>1
    <3>2. Min(nulls) \in nulls
      BY <1>2, <3>1, MinExists
    <3> QED BY <2>1, <3>2
  <2>3. PICK m : m = k - 1
    OBVIOUS
  <2>4. /\ m \in 0..Len(buf) /\ m + 1 \in 0..Len(buf) /\ 1 \in 1..Len(buf) + 1
        /\ m \in Int /\ 1 <= m + 1 /\ m <= Len(buf) /\ (m - 1) + 1 = m
    BY <2>1, <2>2, <2>3
  <2>5. PICK v : v = SubSeq(buf, 1, m)
    OBVIOUS
  <2>6. v \in Seq(Byte) /\ Len(v) = m
    <3>1. v \in Seq(Byte) /\ Len(v) = m - 1 + 1
      BY <2>4, <2>5, SubSeqBytes
    <3> QED BY <2>4, <3>1
  <2>7. PICK y \in Seq(Byte) :
          Taken(v, m + 1, buf) = [ok |-> TRUE, val |-> v, rest |-> y]
    BY <2>4, TakenType
  <2>8. r = IF m >= n THEN Thrown ELSE Taken(v, m + 1, buf)
    BY <1>2, <2>2, <2>3, <2>5 DEF DeserializeCOctetStr
  <2>9. m >= n \/ m < n
    BY <2>4
  <2> QED BY <2>6, <2>7, <2>8, <2>9
<1> QED BY <1>1, <1>2

\* A u8_octet_str that deserialize returns is not longer than the limit: serialize
\* accepts it.
LEMMA U8OctetStrType ==
  ASSUME NEW buf \in Seq(Byte), NEW n \in Byte, NEW r, r = DeserializeU8OctetStr(buf, n)
  PROVE  \/ r = Thrown
         \/ \E v, y \in Seq(Byte) :
              r = [ok |-> TRUE, val |-> v, rest |-> y] /\ Len(v) <= n
<1>1. CASE buf = <<>> \/ Len(buf) <= buf[1] \/ buf[1] > n
  BY <1>1 DEF DeserializeU8OctetStr
<1>2. CASE ~(buf = <<>> \/ Len(buf) <= buf[1] \/ buf[1] > n)
  <2>1. Len(buf) \in Nat \ {0}
    BY <1>2, EmptySeq
  <2>2. PICK m \in Nat : m = buf[1] /\ m < Len(buf) /\ m <= n
    <3>1. 1 \in 1..Len(buf)
      BY <2>1
    <3>2. buf[1] \in Nat
      BY <3>1, ByteAt
    <3>3. n \in Nat
      BY DEF Byte
    <3> QED BY <1>2, <2>1, <3>2, <3>3
  <2>3. PICK a, b, v : a = 2 /\ b = m + 1 /\ v = SubSeq(buf, a, b)
    OBVIOUS
  <2>4. /\ a \in 1..Len(buf) + 1 /\ b \in Int /\ a <= b + 1 /\ b <= Len(buf)
        /\ b - a + 1 = m /\ b \in 0..Len(buf)
    BY <2>1, <2>2, <2>3
  <2>5. v \in Seq(Byte) /\ Len(v) = m
    BY <2>3, <2>4, SubSeqBytes
  <2>6. PICK y \in Seq(Byte) : Taken(v, b, buf) = [ok |-> TRUE, val |-> v, rest |-> y]
    BY <2>4, TakenType
  <2>7. r = Taken(v, b, buf)
    BY <1>2, <2>2, <2>3 DEF DeserializeU8OctetStr
  <2> QED BY <2>2, <2>5, <2>6, <2>7
<1> QED BY <1>1, <1>2

\* The first byte of a buffer that is not empty, as deserialize takes it for a u8 or
\* for flags.
LEMMA ByteTaken ==
  ASSUME NEW buf \in Seq(Byte), buf # <<>>, NEW v
  PROVE  /\ buf[1] \in Byte
         /\ \E y \in Seq(Byte) : Taken(v, 1, buf) = [ok |-> TRUE, val |-> v, rest |-> y]
<1>1. Len(buf) \in Nat \ {0}
  BY EmptySeq
<1>2. PICK n : n = 1
  OBVIOUS
<1>3. n \in 1..Len(buf) /\ n \in 0..Len(buf)
  BY <1>1, <1>2
<1>4. /\ buf[n] \in Byte
      /\ \E y \in Seq(Byte) : Taken(v, n, buf) = [ok |-> TRUE, val |-> v, rest |-> y]
  BY <1>3, TakenType, ByteAt
<1> QED BY <1>2, <1>4

\* serialize and deserialize of an oparam member are serialize() and the constructor
\* of oparam.
LEMMA OparamCodec ==
  ASSUME NEW v, NEW buf
  PROVE  /\ SerializeField(oparam, v) = SerializeOparam(v)
         /\ DeserializeField(oparam, buf) = DeserializeOparam(buf)
         /\ Holds(oparam, v) <=> IsParams(v)
         /\ Accepts(oparam, v)
BY DEF oparam, SerializeField, DeserializeField, Holds, Accepts

\* deserialize of a field returns a value that its member can hold and that serialize
\* accepts, or throws, whatever the buffer holds.
LEMMA FieldType ==
  ASSUME NEW c \in Codecs \cup {oparam}, NEW buf \in Seq(Byte)
  PROVE  FieldTyped(c, DeserializeField(c, buf))
<1>1. CASE c \in Strings
  <2>1. CASE c.kind = "c_octet_str"
    <3>1. PICK n \in 1..255 :
            /\ DeserializeField(c, buf) = DeserializeCOctetStr(buf, n)
            /\ \A v : Holds(c, v) <=> v \in Seq(Byte)
            /\ \A v : Accepts(c, v) <=> Len(v) < n
      <4>1. PICK n : n = c.max /\ n \in 1..255
        BY <1>1, <2>1, StringCodec
      <4>2. /\ DeserializeField(c, buf) = DeserializeCOctetStr(buf, n)
            /\ \A v : Holds(c, v) <=> v \in Seq(Byte)
        BY <1>1, <2>1, <4>1, StringCodec
      <4>3. \A v : Accepts(c, v) <=> Len(v) < n
        BY <1>1, <2>1, <4>1, StringCodec
      <4> QED BY <4>1, <4>2, <4>3
    <3>2. n \in Nat
      OBVIOUS
    <3> QED BY <3>1, <3>2, COctetStrType DEF FieldTyped
  <2>2. CASE c.kind # "c_octet_str"
    <3>1. PICK n \in Byte :
            /\ DeserializeField(c, buf) = DeserializeU8OctetStr(buf, n)
            /\ \A v : Holds(c, v) <=> v \in Seq(Byte)
            /\ \A v : Accepts(c, v) <=> Len(v) <= n
      <4>1. c.max \in Byte
        BY <1>1, <2>2, StringCodec
      <4> QED BY <1>1, <2>2, <4>1, StringCodec
    <3> QED BY <3>1, U8OctetStrType DEF FieldTyped
  <2> QED BY <2>1, <2>2
<1>2. CASE c = u8
  <2>1. CASE buf = <<>>
    BY <1>2, <2>1, ByteCodec DEF FieldTyped, DeserializeU8
  <2>2. CASE buf # <<>>
    <3>1. PICK v : v = buf[1]
      OBVIOUS
    <3>2. v \in Byte /\ DeserializeField(c, buf) = Taken(v, 1, buf)
      BY <1>2, <2>2, <3>1, ByteCodec, ByteTaken DEF DeserializeU8
    <3>3. Holds(c, v) /\ Accepts(c, v)
      BY <1>2, <3>2, ByteCodec
    <3> QED BY <2>2, <3>2, <3>3, ByteTaken DEF FieldTyped
  <2> QED BY <2>1, <2>2
<1>3. CASE c \in Flags /\ c # u8
  <2>1. CASE buf = <<>>
    BY <1>3, <2>1, ByteCodec DEF FieldTyped, DeserializeFlags
  <2>2. CASE buf # <<>>
    <3>1. PICK v : v = FromU8(c, buf[1])
      OBVIOUS
    <3>2. DeserializeField(c, buf) = Taken(v, 1, buf)
      BY <1>3, <2>2, <3>1, ByteCodec DEF DeserializeFlags
    <3>3. buf[1] \in Byte
      BY <2>2, ByteTaken
    <3>4. Holds(c, v) /\ Accepts(c, v)
      BY <1>3, <3>1, <3>3, ByteCodec
    <3> QED BY <2>2, <3>2, <3>4, ByteTaken DEF FieldTyped
  <2> QED BY <2>1, <2>2
<1>4. CASE c = oparam
  <2>1. PICK p : p = Parameters(buf)
    OBVIOUS
  <2>2. PICK v, y, d : /\ d = DeserializeOparam(buf)
                       /\ d = Thrown \/ d = [ok |-> TRUE, val |-> v, rest |-> y]
    BY DEF DeserializeOparam, Taken
  <2>3. CASE d = Thrown
    BY <1>4, <2>2, <2>3, OparamCodec DEF FieldTyped
  <2>4. CASE d = [ok |-> TRUE, val |-> v, rest |-> y]
    <3>1. d.ok /\ d.val = v /\ d.rest = y
      BY <2>4
    <3>2. IsParams(v) /\ y \in Seq(Byte)
      BY <2>2, <3>1, OparamType
    <3>3. Holds(c, v) /\ Accepts(c, v) /\ DeserializeField(c, buf) = d
      BY <1>4, <2>2, <3>2, OparamCodec
    <3> QED BY <2>4, <3>2, <3>3 DEF FieldTyped
  <2> QED BY <2>2, <2>3, <2>4
<1> QED BY <1>1, <1>2, <1>3, <1>4 DEF Codecs
-----------------------------------------------------------------------------
(* The PDUs: what their headers list.                                       *)

\* A member and its codec.
IsField(name, c) ==
  /\ IF name = "oparam" THEN c = oparam ELSE c \in Codecs
  /\ name \in {"interface_version", "message_state"} => c = u8

\* Members with codecs, in the same order; the optional parameters come last, and
\* not alone.
Listed(p, n) ==
  /\ Len(p.meta) = n
  /\ DOMAIN p.meta = 1..n
  /\ DOMAIN p.members = 1..n
  /\ \A i \in 1..n : p.meta[i][1] = p.members[i]
Distinct(p, n)   == \A i, j \in 1..n : p.members[i] = p.members[j] => i = j
OparamLast(p, n) == \A i \in 1..n : p.members[i] = "oparam" => i = n /\ n > 1
Coded(p, n)      == \A i \in 1..n : IsField(p.members[i], p.meta[i][2])

Formed(p, n) == Listed(p, n) /\ Distinct(p, n) /\ OparamLast(p, n) /\ Coded(p, n)

\* The codecs of the members.
LEMMA CodecsAre ==
  /\ \A n \in 1..255 : c_octet_str(n) \in Codecs
  /\ \A n \in 0..255 : u8_octet_str(n) \in Codecs
  /\ u8 \in Codecs /\ esm_class \in Codecs /\ registered_delivery \in Codecs
<1>1. \A n \in 1..255 : c_octet_str(n) \in Strings
  BY DEF Strings
<1>2. \A n \in 0..255 : u8_octet_str(n) \in Strings
  BY DEF Strings
<1> QED BY <1>1, <1>2 DEF Codecs, Flags

\* Any member may have one of these codecs, but for three.
LEMMA FieldsAre ==
  /\ \A name : name \notin {"oparam", "interface_version", "message_state"} =>
       /\ \A n \in 1..255 : IsField(name, c_octet_str(n))
       /\ \A n \in 0..255 : IsField(name, u8_octet_str(n))
       /\ IsField(name, esm_class)
       /\ IsField(name, registered_delivery)
  /\ \A name : name # "oparam" => IsField(name, u8)
  /\ IsField("oparam", oparam)
BY CodecsAre DEF IsField

\* meta() of alert_notification.hpp lists members with codecs, each once.
LEMMA AlertNotificationFormed ==
  ASSUME NEW p, p = alert_notification
  PROVE  Formed(p, 7)
<1>1. Listed(p, 7)
  BY DEF Listed, alert_notification, Pdu, Address
<1>2. Distinct(p, 7) /\ OparamLast(p, 7)
  BY DEF Distinct, OparamLast, alert_notification, Pdu, Address
<1>3. Coded(p, 7)
  BY FieldsAre DEF Coded, alert_notification, Pdu, Address
<1> QED BY <1>1, <1>2, <1>3 DEF Formed

\* meta() of bind_transmitter.hpp, bind_receiver.hpp and bind_transceiver.hpp lists
\* members with codecs, each once.
LEMMA BindFormed ==
  ASSUME NEW k, NEW p, p = Bind(k)
  PROVE  Formed(p, 7)
<1>1. Listed(p, 7)
  BY DEF Listed, Bind, Pdu, Address
<1>2. Distinct(p, 7) /\ OparamLast(p, 7)
  BY DEF Distinct, OparamLast, Bind, Pdu, Address
<1>3. Coded(p, 7)
  BY FieldsAre DEF Coded, Bind, Pdu, Address
<1> QED BY <1>1, <1>2, <1>3 DEF Formed

\* meta() of bind_transmitter_resp.hpp, bind_receiver_resp.hpp and
\* bind_transceiver_resp.hpp lists members with codecs, each once.
LEMMA BindRespFormed ==
  ASSUME NEW k, NEW p, p = BindResp(k)
  PROVE  Formed(p, 2)
<1>1. Listed(p, 2)
  BY DEF Listed, BindResp, Pdu
<1>2. Distinct(p, 2) /\ OparamLast(p, 2)
  BY DEF Distinct, OparamLast, BindResp, Pdu
<1>3. Coded(p, 2)
  BY FieldsAre DEF Coded, BindResp, Pdu
<1> QED BY <1>1, <1>2, <1>3 DEF Formed

\* meta() of cancel_sm.hpp lists members with codecs, each once.
LEMMA CancelSmFormed ==
  ASSUME NEW p, p = cancel_sm
  PROVE  Formed(p, 8)
<1>1. Listed(p, 8)
  BY DEF Listed, cancel_sm, Pdu, Address
<1>2. Distinct(p, 8) /\ OparamLast(p, 8)
  BY DEF Distinct, OparamLast, cancel_sm, Pdu, Address
<1>3. Coded(p, 8)
  BY FieldsAre DEF Coded, cancel_sm, Pdu, Address
<1> QED BY <1>1, <1>2, <1>3 DEF Formed

\* The PDUs without members: meta() of generic_nack.hpp, cancel_sm_resp.hpp and
\* replace_sm_resp.hpp is empty.
LEMMA BareFormed ==
  ASSUME NEW id, NEW p, p = Pdu(id, <<>>, <<>>)
  PROVE  Formed(p, 0)
<1>1. Listed(p, 0)
  BY DEF Listed, Pdu
<1>2. Distinct(p, 0) /\ OparamLast(p, 0)
  BY DEF Distinct, OparamLast, Pdu
<1>3. Coded(p, 0)
  BY FieldsAre DEF Coded, Pdu
<1> QED BY <1>1, <1>2, <1>3 DEF Formed

\* meta() of data_sm.hpp lists members with codecs, each once.
LEMMA DataSmFormed ==
  ASSUME NEW p, p = data_sm
  PROVE  Formed(p, 11)
<1>1. Listed(p, 11)
  BY DEF Listed, data_sm, Pdu, Address
<1>2. Distinct(p, 11) /\ OparamLast(p, 11)
  BY DEF Distinct, OparamLast, data_sm, Pdu, Address
<1>3. Coded(p, 11)
  BY FieldsAre DEF Coded, data_sm, Pdu, Address
<1> QED BY <1>1, <1>2, <1>3 DEF Formed

\* meta() of data_sm_resp.hpp lists members with codecs, each once.
LEMMA DataSmRespFormed ==
  ASSUME NEW p, p = data_sm_resp
  PROVE  Formed(p, 2)
<1>1. Listed(p, 2)
  BY DEF Listed, data_sm_resp, Pdu
<1>2. Distinct(p, 2) /\ OparamLast(p, 2)
  BY DEF Distinct, OparamLast, data_sm_resp, Pdu
<1>3. Coded(p, 2)
  BY FieldsAre DEF Coded, data_sm_resp, Pdu
<1> QED BY <1>1, <1>2, <1>3 DEF Formed

\* meta() of submit_sm.hpp and deliver_sm.hpp lists members with codecs, each once.
LEMMA SmFormed ==
  ASSUME NEW k, NEW times \in 1..255, NEW p, p = Sm(k, times)
  PROVE  Formed(p, 18)
<1>1. Listed(p, 18)
  BY DEF Listed, Sm, Pdu, Address
<1>2. Distinct(p, 18) /\ OparamLast(p, 18)
  BY DEF Distinct, OparamLast, Sm, Pdu, Address
<1>3. Coded(p, 18)
  <2>1. \A i \in 1..17 :
          p.members[i] \notin {"oparam", "interface_version", "message_state"}
    BY DEF Sm, Pdu, Address
  <2>2. \A i \in {2, 3, 5, 6, 9, 10, 14, 15, 16} : p.meta[i][2] = u8
    BY DEF Sm, Pdu, Address
  <2>3. /\ p.meta[1][2] = c_octet_str(6)
        /\ p.meta[4][2] = c_octet_str(21) /\ p.meta[7][2] = c_octet_str(21)
        /\ p.meta[11][2] = c_octet_str(times) /\ p.meta[12][2] = c_octet_str(times)
    BY DEF Sm, Pdu, Address
  <2>4. /\ p.meta[8][2] = esm_class /\ p.meta[13][2] = registered_delivery
        /\ p.meta[17][2] = u8_octet_str(254)
        /\ p.members[18] = "oparam" /\ p.meta[18][2] = oparam
    BY DEF Sm, Pdu, Address
  <2>5. \A i \in {2, 3, 5, 6, 9, 10, 14, 15, 16} : IsField(p.members[i], p.meta[i][2])
    BY <2>1, <2>2, FieldsAre
  <2>6. \A i \in {1, 4, 7, 11, 12} : IsField(p.members[i], p.meta[i][2])
    BY <2>1, <2>3, FieldsAre
  <2>7. \A i \in {8, 13, 17, 18} : IsField(p.members[i], p.meta[i][2])
    BY <2>1, <2>4, FieldsAre
  <2> QED BY <2>5, <2>6, <2>7 DEF Coded
<1> QED BY <1>1, <1>2, <1>3 DEF Formed

\* meta() of submit_sm_resp.hpp and deliver_sm_resp.hpp lists members with codecs,
\* each once.
LEMMA MessageIdRespFormed ==
  ASSUME NEW k, NEW max \in 1..255, NEW p, p = MessageIdResp(k, max)
  PROVE  Formed(p, 1)
<1>1. Listed(p, 1)
  BY DEF Listed, MessageIdResp, Pdu
<1>2. Distinct(p, 1) /\ OparamLast(p, 1)
  BY DEF Distinct, OparamLast, MessageIdResp, Pdu
<1>3. Coded(p, 1)
  BY FieldsAre DEF Coded, MessageIdResp, Pdu
<1> QED BY <1>1, <1>2, <1>3 DEF Formed

\* meta() of outbind.hpp lists members with codecs, each once.
LEMMA OutbindFormed ==
  ASSUME NEW p, p = outbind
  PROVE  Formed(p, 2)
<1>1. Listed(p, 2)
  BY DEF Listed, outbind, Pdu
<1>2. Distinct(p, 2) /\ OparamLast(p, 2)
  BY DEF Distinct, OparamLast, outbind, Pdu
<1>3. Coded(p, 2)
  BY FieldsAre DEF Coded, outbind, Pdu
<1> QED BY <1>1, <1>2, <1>3 DEF Formed

\* meta() of query_sm.hpp lists members with codecs, each once.
LEMMA QuerySmFormed ==
  ASSUME NEW p, p = query_sm
  PROVE  Formed(p, 4)
<1>1. Listed(p, 4)
  BY DEF Listed, query_sm, Pdu, Address
<1>2. Distinct(p, 4) /\ OparamLast(p, 4)
  BY DEF Distinct, OparamLast, query_sm, Pdu, Address
<1>3. Coded(p, 4)
  BY FieldsAre DEF Coded, query_sm, Pdu, Address
<1> QED BY <1>1, <1>2, <1>3 DEF Formed

\* meta() of query_sm_resp.hpp lists members with codecs, each once.
LEMMA QuerySmRespFormed ==
  ASSUME NEW p, p = query_sm_resp
  PROVE  Formed(p, 4)
<1>1. Listed(p, 4)
  BY DEF Listed, query_sm_resp, Pdu
<1>2. Distinct(p, 4) /\ OparamLast(p, 4)
  BY DEF Distinct, OparamLast, query_sm_resp, Pdu
<1>3. Coded(p, 4)
  BY FieldsAre DEF Coded, query_sm_resp, Pdu
<1> QED BY <1>1, <1>2, <1>3 DEF Formed

\* meta() of replace_sm.hpp lists members with codecs, each once.
LEMMA ReplaceSmFormed ==
  ASSUME NEW p, p = replace_sm
  PROVE  Formed(p, 9)
<1>1. Listed(p, 9)
  BY DEF Listed, replace_sm, Pdu, Address
<1>2. Distinct(p, 9) /\ OparamLast(p, 9)
  BY DEF Distinct, OparamLast, replace_sm, Pdu, Address
<1>3. Coded(p, 9)
  BY FieldsAre DEF Coded, replace_sm, Pdu, Address
<1> QED BY <1>1, <1>2, <1>3 DEF Formed

\* A PDU with an id, and members that are formed.
WellFormed(p) ==
  /\ p.command_id \in U16s \X U16s
  /\ \E n \in Nat : Formed(p, n)

\* The alternatives of pdu_variant, in their order.
LEMMA Alternatives ==
  /\ DOMAIN pdu_variant = 1..21
  /\ pdu_variant[1]  = alert_notification
  /\ pdu_variant[2]  = Bind(1)
  /\ pdu_variant[3]  = BindResp(1)
  /\ pdu_variant[4]  = Bind(9)
  /\ pdu_variant[5]  = BindResp(9)
  /\ pdu_variant[6]  = Bind(2)
  /\ pdu_variant[7]  = BindResp(2)
  /\ pdu_variant[8]  = cancel_sm
  /\ pdu_variant[9]  = Pdu(Response(8), <<>>, <<>>)
  /\ pdu_variant[10] = data_sm
  /\ pdu_variant[11] = data_sm_resp
  /\ pdu_variant[12] = Sm(5, 1)
  /\ pdu_variant[13] = MessageIdResp(5, 1)
  /\ pdu_variant[14] = Pdu(Response(0), <<>>, <<>>)
  /\ pdu_variant[15] = outbind
  /\ pdu_variant[16] = query_sm
  /\ pdu_variant[17] = query_sm_resp
  /\ pdu_variant[18] = replace_sm
  /\ pdu_variant[19] = Pdu(Response(7), <<>>, <<>>)
  /\ pdu_variant[20] = Sm(4, 17)
  /\ pdu_variant[21] = MessageIdResp(4, 65)
BY DEF pdu_variant, bind_receiver, bind_receiver_resp, bind_transceiver,
       bind_transceiver_resp, bind_transmitter, bind_transmitter_resp,
       cancel_sm_resp, deliver_sm, deliver_sm_resp, generic_nack,
       replace_sm_resp, submit_sm, submit_sm_resp

\* Their ids, as they are written.
Ids ==
  << <<0, 258>>, <<0, 1>>, <<32768, 1>>, <<0, 9>>, <<32768, 9>>, <<0, 2>>,
     <<32768, 2>>, <<0, 8>>, <<32768, 8>>, <<0, 259>>, <<32768, 259>>, <<0, 5>>,
     <<32768, 5>>, <<32768, 0>>, <<0, 11>>, <<0, 3>>, <<32768, 3>>, <<0, 7>>,
     <<32768, 7>>, <<0, 4>>, <<32768, 4>> >>

\* The command ids of the PDU headers.
LEMMA IdsAre == \A k \in 1..21 : pdu_variant[k].command_id = Ids[k]
<1>1. /\ \A m : Bind(m).command_id = <<0, m>> /\ BindResp(m).command_id = <<32768, m>>
      /\ \A m, t : Sm(m, t).command_id = <<0, m>>
      /\ \A m, t : MessageIdResp(m, t).command_id = <<32768, m>>
      /\ \A id : Pdu(id, <<>>, <<>>).command_id = id
      /\ \A m : Response(m) = <<32768, m>>
  BY DEF Bind, BindResp, Sm, MessageIdResp, Pdu, Request, Response
<1>2. /\ alert_notification.command_id = <<0, 258>>
      /\ cancel_sm.command_id = <<0, 8>>
      /\ data_sm.command_id = <<0, 259>>
      /\ data_sm_resp.command_id = <<32768, 259>>
      /\ outbind.command_id = <<0, 11>>
      /\ query_sm.command_id = <<0, 3>>
      /\ query_sm_resp.command_id = <<32768, 3>>
      /\ replace_sm.command_id = <<0, 7>>
  BY DEF alert_notification, cancel_sm, data_sm, data_sm_resp, outbind, query_sm,
         query_sm_resp, replace_sm, Pdu, Request, Response
<1>3. /\ pdu_variant[1].command_id = <<0, 258>>
      /\ pdu_variant[2].command_id = <<0, 1>>
      /\ pdu_variant[3].command_id = <<32768, 1>>
      /\ pdu_variant[4].command_id = <<0, 9>>
      /\ pdu_variant[5].command_id = <<32768, 9>>
      /\ pdu_variant[6].command_id = <<0, 2>>
      /\ pdu_variant[7].command_id = <<32768, 2>>
      /\ pdu_variant[8].command_id = <<0, 8>>
      /\ pdu_variant[9].command_id = <<32768, 8>>
      /\ pdu_variant[10].command_id = <<0, 259>>
      /\ pdu_variant[11].command_id = <<32768, 259>>
  BY <1>1, <1>2, Alternatives
<1>4. /\ pdu_variant[12].command_id = <<0, 5>>
      /\ pdu_variant[13].command_id = <<32768, 5>>
      /\ pdu_variant[14].command_id = <<32768, 0>>
      /\ pdu_variant[15].command_id = <<0, 11>>
      /\ pdu_variant[16].command_id = <<0, 3>>
      /\ pdu_variant[17].command_id = <<32768, 3>>
      /\ pdu_variant[18].command_id = <<0, 7>>
      /\ pdu_variant[19].command_id = <<32768, 7>>
      /\ pdu_variant[20].command_id = <<0, 4>>
      /\ pdu_variant[21].command_id = <<32768, 4>>
  BY <1>1, <1>2, Alternatives
<1>5. /\ Ids[1] = <<0, 258>>
      /\ Ids[2] = <<0, 1>>
      /\ Ids[3] = <<32768, 1>>
      /\ Ids[4] = <<0, 9>>
      /\ Ids[5] = <<32768, 9>>
      /\ Ids[6] = <<0, 2>>
      /\ Ids[7] = <<32768, 2>>
      /\ Ids[8] = <<0, 8>>
      /\ Ids[9] = <<32768, 8>>
      /\ Ids[10] = <<0, 259>>
      /\ Ids[11] = <<32768, 259>>
  BY DEF Ids
<1>6. /\ Ids[12] = <<0, 5>>
      /\ Ids[13] = <<32768, 5>>
      /\ Ids[14] = <<32768, 0>>
      /\ Ids[15] = <<0, 11>>
      /\ Ids[16] = <<0, 3>>
      /\ Ids[17] = <<32768, 3>>
      /\ Ids[18] = <<0, 7>>
      /\ Ids[19] = <<32768, 7>>
      /\ Ids[20] = <<0, 4>>
      /\ Ids[21] = <<32768, 4>>
  BY DEF Ids
<1> DEFINE Same(k) == pdu_variant[k].command_id = Ids[k]
<1>7. /\ Same(1) /\ Same(2) /\ Same(3) /\ Same(4) /\ Same(5) /\ Same(6)
      /\ Same(7) /\ Same(8) /\ Same(9) /\ Same(10) /\ Same(11)
  BY <1>3, <1>5
<1>8. /\ Same(12) /\ Same(13) /\ Same(14) /\ Same(15) /\ Same(16)
      /\ Same(17) /\ Same(18) /\ Same(19) /\ Same(20) /\ Same(21)
  BY <1>4, <1>6
<1> HIDE DEF Same
<1>9. \A k \in 1..21 : Same(k)
  BY <1>7, <1>8
<1> QED BY <1>9 DEF Same

\* No two alternatives of pdu_variant have the same command_id.
LEMMA IdsDistinct  == \A i, j \in 1..21 : Ids[i] = Ids[j] => i = j
BY DEF Ids

\* A command_id is a 32-bit number, in two halves.
LEMMA IdsType == \A i \in 1..21 : Ids[i] \in U16s \X U16s
BY DEF Ids, U16s

\* Every alternative of pdu_variant is well formed.
LEMMA AlternativesFormed == \A k \in DOMAIN pdu_variant : WellFormed(pdu_variant[k])
<1>1. \A k \in 1..21 : \E n \in Nat : Formed(pdu_variant[k], n)
  <2>1. \A k \in {1, 8, 10, 11, 15, 16, 17, 18} : \E n \in Nat : Formed(pdu_variant[k], n)
    BY Alternatives, AlertNotificationFormed, CancelSmFormed, DataSmFormed,
       DataSmRespFormed, OutbindFormed, QuerySmFormed, QuerySmRespFormed,
       ReplaceSmFormed
  <2>2. \A k \in {2, 3, 4, 5, 6, 7} : \E n \in Nat : Formed(pdu_variant[k], n)
    BY Alternatives, BindFormed, BindRespFormed
  <2>3. \A k \in {9, 14, 19} : \E n \in Nat : Formed(pdu_variant[k], n)
    BY Alternatives, BareFormed
  <2>4. \A k \in {12, 13, 20, 21} : \E n \in Nat : Formed(pdu_variant[k], n)
    <3>1. 1 \in 1..255 /\ 17 \in 1..255 /\ 65 \in 1..255
      OBVIOUS
    <3>2. Formed(Sm(5, 1), 18) /\ Formed(Sm(4, 17), 18)
      BY <3>1, SmFormed
    <3>3. Formed(MessageIdResp(5, 1), 1) /\ Formed(MessageIdResp(4, 65), 1)
      BY <3>1, MessageIdRespFormed
    <3> QED BY <3>2, <3>3, Alternatives
  <2> QED BY <2>1, <2>2, <2>3, <2>4
<1> QED BY <1>1, IdsAre, IdsType, Alternatives DEF WellFormed
-----------------------------------------------------------------------------
(* deserialize, field by field: what it returns of any body.                *)

\* One turn of deserialize, at field i, after what the fields before it returned.
FieldsTurn(p, acc, i) ==
  LET r == DeserializeField(p.meta[i][2], acc.rest)
  IN  IF ~acc.ok THEN acc ELSE [r EXCEPT !.val = Append(acc.val, @)]

FieldsLoop(p, buf, n, f) ==
  f = [i \in 0..n |-> IF i = 0 THEN Taken(<<>>, 0, buf) ELSE FieldsTurn(p, f[i - 1], i)]

\* There is such a function: deserialize ends, with the last field.
LEMMA FieldsLoopExists ==
  ASSUME NEW p, NEW buf, NEW n \in Nat
  PROVE  \E f : FieldsLoop(p, buf, n, f)
<1> DEFINE K == {k \in Nat : \E f : FieldsLoop(p, buf, k, f)}
<1>0. PICK first : first = Taken(<<>>, 0, buf)
  OBVIOUS
<1>1. 0 \in K
  <2> DEFINE f == [i \in 0..0 |-> first]
  <2>1. f = [i \in 0..0 |-> IF i = 0 THEN first ELSE FieldsTurn(p, f[i - 1], i)]
    OBVIOUS
  <2> HIDE DEF f
  <2>2. FieldsLoop(p, buf, 0, f)
    BY <1>0, <2>1 DEF FieldsLoop
  <2> QED BY <2>2
<1>2. ASSUME NEW k \in Nat, k \in K PROVE k + 1 \in K
  <2>1. PICK f : FieldsLoop(p, buf, k, f)
    BY <1>2
  <2>2. PICK last : last = FieldsTurn(p, f[k], k + 1)
    OBVIOUS
  <2> DEFINE g == [i \in 0..k + 1 |-> IF i = k + 1 THEN last ELSE f[i]]
  <2>3. \A i \in 0..k : f[i] = IF i = 0 THEN first ELSE FieldsTurn(p, f[i - 1], i)
    BY <1>0, <2>1 DEF FieldsLoop
  <2>4. /\ g[k + 1] = last
        /\ \A i \in 0..k : g[i] = f[i]
        /\ g = [i \in 0..k + 1 |-> g[i]]
    OBVIOUS
  <2> HIDE DEF g
  <2>5. ASSUME NEW i \in 0..k + 1
        PROVE  g[i] = IF i = 0 THEN first ELSE FieldsTurn(p, g[i - 1], i)
    <3>1. CASE i = k + 1
      <4>1. i # 0 /\ i - 1 = k /\ k \in 0..k
        BY <3>1
      <4> QED BY <2>2, <2>4, <3>1, <4>1
    <3>2. CASE i # k + 1
      <4>1. i \in 0..k /\ (i # 0 => i - 1 \in 0..k)
        BY <3>2
      <4> QED BY <2>3, <2>4, <4>1
    <3> QED BY <3>1, <3>2
  <2>6. g = [i \in 0..k + 1 |-> IF i = 0 THEN first ELSE FieldsTurn(p, g[i - 1], i)]
    BY <2>4, <2>5
  <2>7. FieldsLoop(p, buf, k + 1, g)
    BY <1>0, <2>6 DEF FieldsLoop
  <2> QED BY <2>7
<1> HIDE DEF K
<1>3. Nat \subseteq K
  BY <1>1, <1>2, NatSetInduction
<1> QED BY <1>3 DEF K

\* The object that values make.
Position(p, m) == CHOOSE i \in DOMAIN p.members : p.members[i] = m
ObjectOf(p, vs) == [m \in Members(p) |-> vs[Position(p, m)]]

\* deserialize returns what the last field leaves.
Made(p, all) == [all EXCEPT !.val = ObjectOf(p, all.val)]

\* deserialize runs that loop: an empty body leaves a default-constructed PDU.
LEMMA DeserializeIs ==
  ASSUME NEW p, NEW buf, NEW n \in Nat, n = Len(p.meta)
  PROVE  \E f : /\ FieldsLoop(p, buf, n, f)
                /\ Deserialize(p, buf) =
                     IF buf = <<>> THEN Taken(DefaultPdu(p), 0, buf)
                     ELSE IF ~f[n].ok THEN Thrown ELSE Made(p, f[n])
<1> DEFINE f == CHOOSE f : FieldsLoop(p, buf, n, f)
<1>1. FieldsLoop(p, buf, n, f)
  BY FieldsLoopExists
<1>2. Deserialize(p, buf) =
        IF buf = <<>> THEN Taken(DefaultPdu(p), 0, buf)
        ELSE IF ~f[n].ok THEN Thrown ELSE Made(p, f[n])
  BY DEF Deserialize, FieldsLoop, FieldsTurn, Made, ObjectOf, Position
<1> QED BY <1>1, <1>2

\* Another value.
WithVal(r, w) == [r EXCEPT !.val = w]

\* The other members of the record stay.
LEMMA WithValIs ==
  \A a, v, y, w : WithVal([ok |-> a, val |-> v, rest |-> y], w)
                    = [ok |-> a, val |-> w, rest |-> y]
BY DEF WithVal

\* A turn reads one field more, or fails for good.
Failed(r) == \E v, y : r = [ok |-> FALSE, val |-> v, rest |-> y]

TurnsTo(t, r, vs) ==
  /\ r = Thrown => Failed(t)
  /\ \A v, z : r = [ok |-> TRUE, val |-> v, rest |-> z]
       => t = [ok |-> TRUE, val |-> Append(vs, v), rest |-> z]

\* What a turn makes of r, which deserialize of its field has returned.
LEMMA TurnTaken ==
  ASSUME NEW r, NEW vs, NEW t, t = WithVal(r, Append(vs, r.val))
  PROVE  TurnsTo(t, r, vs)
<1>1. ASSUME r = Thrown PROVE Failed(t)
  <2>1. PICK w : w = Append(vs, r.val)
    OBVIOUS
  <2>2. WithVal(r, w) = [ok |-> FALSE, val |-> w, rest |-> <<>>]
    <3>1. r = [ok |-> FALSE, val |-> <<>>, rest |-> <<>>]
      BY <1>1 DEF Thrown
    <3> QED BY <3>1, WithValIs
  <2>3. t = [ok |-> FALSE, val |-> w, rest |-> <<>>]
    BY <2>1, <2>2
  <2> QED BY <2>3 DEF Failed
<1>2. ASSUME NEW v, NEW z, r = [ok |-> TRUE, val |-> v, rest |-> z]
      PROVE  t = [ok |-> TRUE, val |-> Append(vs, v), rest |-> z]
  <2>1. PICK w : w = Append(vs, v)
    OBVIOUS
  <2>2. WithVal(r, w) = [ok |-> TRUE, val |-> w, rest |-> z]
    <3>1. r = [ok |-> TRUE, val |-> v, rest |-> z]
      BY <1>2
    <3> QED BY <3>1, WithValIs
  <2>3. r.val = v
    BY <1>2
  <2>4. t = [ok |-> TRUE, val |-> w, rest |-> z]
    BY <2>1, <2>2, <2>3
  <2> QED BY <2>1, <2>4
<1> QED BY <1>1, <1>2 DEF TurnsTo

\* What a turn of deserialize does.
LEMMA TurnOn ==
  ASSUME NEW p, NEW i, NEW vs, NEW y, NEW r, r = DeserializeField(p.meta[i][2], y),
         NEW acc, acc = [ok |-> TRUE, val |-> vs, rest |-> y]
  PROVE  TurnsTo(FieldsTurn(p, acc, i), r, vs)
<1>1. FieldsTurn(p, acc, i) = WithVal(r, Append(vs, r.val))
  BY DEF FieldsTurn, WithVal
<1> QED BY <1>1, TurnTaken

\* Once a field has thrown, no other is read.
LEMMA TurnFails ==
  ASSUME NEW p, NEW i, NEW acc, Failed(acc)
  PROVE  Failed(FieldsTurn(p, acc, i))
<1>1. ~acc.ok
  BY DEF Failed
<1>2. FieldsTurn(p, acc, i) = acc
  BY <1>1 DEF FieldsTurn
<1> QED BY <1>2

\* The values of the fields so far, and one value more.
LEMMA OneMore ==
  ASSUME NEW S, NEW vs \in Seq(S), NEW v
  PROVE  \E T : /\ Append(vs, v) \in Seq(T) /\ Len(Append(vs, v)) = Len(vs) + 1
                /\ \A j \in 1..Len(vs) : Append(vs, v)[j] = vs[j]
                /\ Append(vs, v)[Len(vs) + 1] = v
<1>1. PICK T : T = S \cup {v}
  OBVIOUS
<1>2. vs \in Seq(T) /\ v \in T
  BY <1>1, SeqDef
<1> QED BY <1>2, AppendProperties

\* Each member of meta() has one position and one codec.
LEMMA PositionIs ==
  ASSUME NEW p, NEW n \in Nat, Formed(p, n)
  PROVE  /\ \A i \in 1..n : /\ p.members[i] \in Members(p)
                            /\ Position(p, p.members[i]) = i
                            /\ CodecOf(p, p.members[i]) = p.meta[i][2]
         /\ \A m \in Members(p) : \E i \in 1..n : m = p.members[i]
<1>1. /\ DOMAIN p.meta = 1..n /\ DOMAIN p.members = 1..n
      /\ \A i \in 1..n : p.meta[i][1] = p.members[i]
      /\ \A i, j \in 1..n : p.members[i] = p.members[j] => i = j
  BY DEF Formed, Listed, Distinct
<1>2. ASSUME NEW i \in 1..n
      PROVE  /\ Position(p, p.members[i]) = i
             /\ CodecOf(p, p.members[i]) = p.meta[i][2]
  <2>1. Position(p, p.members[i]) = i
    BY <1>1 DEF Position
  <2>2. (CHOOSE k \in DOMAIN p.meta : p.meta[k][1] = p.members[i]) = i
    BY <1>1
  <2> QED BY <2>1, <2>2 DEF CodecOf
<1> QED BY <1>1, <1>2 DEF Members

\* An object of a type.
Typed(p, o) ==
  /\ o = [m \in Members(p) |-> o[m]]
  /\ \A m \in Members(p) : Holds(CodecOf(p, m), o[m])

\* The types and limits of the members, by their positions.
LEMMA TypedIs ==
  ASSUME NEW p, NEW n \in Nat, Formed(p, n), NEW o
  PROVE  /\ Typed(p, o) <=>
              /\ o = [m \in Members(p) |-> o[m]]
              /\ \A i \in 1..n : Holds(p.meta[i][2], o[p.members[i]])
         /\ CanSerialize(p, o) <=>
              \A i \in 1..n : Accepts(p.meta[i][2], o[p.members[i]])
<1>1. /\ DOMAIN p.meta = 1..n
      /\ \A i \in 1..n : p.meta[i][1] = p.members[i]
  BY DEF Formed, Listed
<1>2. /\ \A i \in 1..n : /\ p.members[i] \in Members(p)
                         /\ CodecOf(p, p.members[i]) = p.meta[i][2]
      /\ \A m \in Members(p) : \E i \in 1..n : m = p.members[i]
  BY PositionIs
<1>3. Typed(p, o) <=>
        /\ o = [m \in Members(p) |-> o[m]]
        /\ \A i \in 1..n : Holds(p.meta[i][2], o[p.members[i]])
  <2>1. (\A m \in Members(p) : Holds(CodecOf(p, m), o[m]))
          <=> \A i \in 1..n : Holds(p.meta[i][2], o[p.members[i]])
    BY <1>2
  <2> QED BY <2>1 DEF Typed
<1>4. CanSerialize(p, o) <=> \A i \in 1..n : Accepts(p.meta[i][2], o[p.members[i]])
  BY <1>1 DEF CanSerialize
<1> QED BY <1>3, <1>4

\* The codec of a member is one of those that the PDUs use.
LEMMA FieldCodec ==
  ASSUME NEW p, NEW n \in Nat, Formed(p, n), NEW i \in 1..n
  PROVE  /\ IsField(p.members[i], p.meta[i][2])
         /\ p.meta[i][2] \in Codecs \cup {oparam}
BY DEF Formed, Coded, IsField

\* A member of a default-constructed PDU has a value that its type can hold and that
\* serialize accepts.
LEMMA InitialHolds ==
  ASSUME NEW name, NEW c, IsField(name, c)
  PROVE  Holds(c, Initial(name, c)) /\ Accepts(c, Initial(name, c))
<1>e. <<>> \in Seq(Byte) /\ Len(<<>>) = 0
  OBVIOUS
<1>1. CASE c \in Strings
  <2>1. c.kind \in {"c_octet_str", "u8_octet_str"}
    BY <1>1, StringCodec
  <2>2. name \notin {"interface_version", "message_state"}
    <3>1. u8.kind = "u8"
      BY DEF u8
    <3> QED BY <2>1, <3>1 DEF IsField
  <2>3. Initial(name, c) = <<>>
    BY <2>1, <2>2 DEF Initial
  <2>4. \/ \E n \in 1..255 : /\ Holds(c, <<>>) <=> <<>> \in Seq(Byte)
                           /\ Accepts(c, <<>>) <=> Len(<<>>) < n
        \/ \E n \in Byte : /\ Holds(c, <<>>) <=> <<>> \in Seq(Byte)
                          /\ Accepts(c, <<>>) <=> Len(<<>>) <= n
    BY <1>1, StringCodec
  <2>5. \A n \in Byte : 0 <= n
    BY DEF Byte
  <2>6. \A n \in 1..255 : 0 < n
    OBVIOUS
  <2> QED BY <1>e, <2>3, <2>4, <2>5, <2>6
<1>2. CASE c = u8
  <2>1. Initial(name, c) \in {52, 7, 0}
    BY <1>2 DEF Initial, u8
  <2>2. Initial(name, c) \in Byte
    BY <2>1 DEF Byte
  <2> QED BY <1>2, <2>2, ByteCodec
<1>3. CASE c \in Flags /\ c # u8
  <2>1. c.kind \in {"esm_class", "registered_delivery"}
    BY <1>3 DEF Flags, esm_class, registered_delivery
  <2>2. Initial(name, c) = <<0, 0, 0>>
    BY <1>3, <2>1 DEF Initial, IsField
  <2>3. 0 \in Byte
    BY DEF Byte
  <2>4. FromU8(c, 0) = <<0, 0, 0>>
    BY DEF FromU8, EsmClassFromU8, RegisteredDeliveryFromU8
  <2> QED BY <1>3, <2>2, <2>3, <2>4, ByteCodec
<1>4. CASE c = oparam
  <2>0. c.kind = "oparam" /\ c # u8
    BY <1>4 DEF oparam, u8
  <2>1. Initial(name, c) = <<>>
    BY <2>0 DEF Initial, IsField
  <2>2. IsParams(<<>>)
    <3>1. <<>> \in [{} -> Short] /\ {} \in SUBSET U16s
      OBVIOUS
    <3> QED BY <3>1 DEF IsParams
  <2> QED BY <1>4, <2>1, <2>2, OparamCodec
<1> QED BY <1>1, <1>2, <1>3, <1>4 DEF IsField, Codecs

\* A default-constructed PDU can be sent: serialize_to accepts it.
LEMMA DefaultType ==
  ASSUME NEW p, NEW n \in Nat, Formed(p, n)
  PROVE  Typed(p, DefaultPdu(p)) /\ CanSerialize(p, DefaultPdu(p))
<1> DEFINE o == DefaultPdu(p)
<1>1. \A m \in Members(p) : o[m] = Initial(m, CodecOf(p, m))
  BY DEF DefaultPdu
<1>2. o = [m \in Members(p) |-> o[m]]
  BY DEF DefaultPdu
<1>3. ASSUME NEW i \in 1..n
      PROVE  Holds(p.meta[i][2], o[p.members[i]]) /\ Accepts(p.meta[i][2], o[p.members[i]])
  <2>1. o[p.members[i]] = Initial(p.members[i], p.meta[i][2])
    BY <1>1, PositionIs
  <2>2. IsField(p.members[i], p.meta[i][2])
    BY FieldCodec
  <2> HIDE DEF o
  <2> QED BY <2>1, <2>2, InitialHolds
<1> HIDE DEF o
<1>4. Typed(p, o) /\ CanSerialize(p, o)
  BY <1>2, <1>3, TypedIs
<1> QED BY <1>4 DEF o

\* What the fields before a position leave, of any buffer.
FieldsRead(p, i, a) ==
  \/ Failed(a)
  \/ \E S : \E vs \in Seq(S), y \in Seq(Byte) :
       /\ a = [ok |-> TRUE, val |-> vs, rest |-> y]
       /\ Len(vs) = i
       /\ \A j \in 1..i : Holds(p.meta[j][2], vs[j]) /\ Accepts(p.meta[j][2], vs[j])

\* One turn keeps that.
LEMMA FieldsReadOn ==
  ASSUME NEW p, NEW n \in Nat, Formed(p, n), NEW i \in Nat, i + 1 \in 1..n,
         NEW acc, FieldsRead(p, i, acc)
  PROVE  FieldsRead(p, i + 1, FieldsTurn(p, acc, i + 1))
<1>1. CASE Failed(acc)
  BY <1>1, TurnFails DEF FieldsRead
<1>2. CASE ~Failed(acc)
  <2>1. PICK S : \E vs \in Seq(S), y \in Seq(Byte) :
          /\ acc = [ok |-> TRUE, val |-> vs, rest |-> y]
          /\ Len(vs) = i
          /\ \A j \in 1..i : Holds(p.meta[j][2], vs[j]) /\ Accepts(p.meta[j][2], vs[j])
    BY <1>2 DEF FieldsRead
  <2>2. PICK vs \in Seq(S), y \in Seq(Byte) :
          /\ acc = [ok |-> TRUE, val |-> vs, rest |-> y]
          /\ Len(vs) = i
          /\ \A j \in 1..i : Holds(p.meta[j][2], vs[j]) /\ Accepts(p.meta[j][2], vs[j])
    BY <2>1
  <2>3. PICK k, c, r : /\ k = i + 1 /\ c = p.meta[k][2]
                       /\ r = DeserializeField(c, y) /\ r = DeserializeField(p.meta[k][2], y)
    OBVIOUS
  <2>7. TurnsTo(FieldsTurn(p, acc, k), r, vs)
    <3>1. /\ acc = [ok |-> TRUE, val |-> vs, rest |-> y]
          /\ r = DeserializeField(p.meta[k][2], y)
      BY <2>2, <2>3
    <3> QED BY <3>1, TurnOn
  <2>4. FieldTyped(c, r)
    BY <2>3, FieldCodec, FieldType
  <2>5. CASE r = Thrown
    BY <2>3, <2>5, <2>7 DEF FieldsRead, TurnsTo
  <2>6. CASE r # Thrown
    <3>1. PICK v : \E z \in Seq(Byte) :
            r = [ok |-> TRUE, val |-> v, rest |-> z] /\ Holds(c, v) /\ Accepts(c, v)
      BY <2>4, <2>6 DEF FieldTyped
    <3>2. PICK z \in Seq(Byte) :
            r = [ok |-> TRUE, val |-> v, rest |-> z] /\ Holds(c, v) /\ Accepts(c, v)
      BY <3>1
    <3>3. PICK ws : ws = Append(vs, v)
      OBVIOUS
    <3>4. FieldsTurn(p, acc, i + 1) = [ok |-> TRUE, val |-> ws, rest |-> z]
      BY <2>3, <2>7, <3>2, <3>3 DEF TurnsTo
    <3>5. PICK T : /\ ws \in Seq(T) /\ Len(ws) = i + 1
                   /\ \A j \in 1..i : ws[j] = vs[j]
                   /\ ws[i + 1] = v
      BY <2>2, <3>3, OneMore
    <3>6. ASSUME NEW j \in 1..i + 1
          PROVE  Holds(p.meta[j][2], ws[j]) /\ Accepts(p.meta[j][2], ws[j])
      <4>1. CASE j = i + 1
        BY <2>3, <3>2, <3>5, <4>1
      <4>2. CASE j # i + 1
        <5>1. j \in 1..i
          BY <4>2
        <5> QED BY <2>2, <3>5, <5>1
      <4> QED BY <4>1, <4>2
    <3> QED BY <3>4, <3>5, <3>6 DEF FieldsRead
  <2> QED BY <2>5, <2>6
<1> QED BY <1>1, <1>2

\* What the loop of deserialize leaves, of any buffer.
LEMMA FieldsLoopType ==
  ASSUME NEW p, NEW n \in Nat, Formed(p, n), NEW buf \in Seq(Byte),
         NEW f, FieldsLoop(p, buf, n, f)
  PROVE  FieldsRead(p, n, f[n])
<1> DEFINE K == {k \in Nat : k <= n => FieldsRead(p, k, f[k])}
<1>1. \A i \in 0..n : f[i] = IF i = 0 THEN Taken(<<>>, 0, buf) ELSE FieldsTurn(p, f[i - 1], i)
  BY DEF FieldsLoop
<1>2. 0 \in K
  <2>1. 0 \in 0..n /\ 0 \in 0..Len(buf)
    BY LenProperties
  <2>2. PICK y \in Seq(Byte) : Taken(<<>>, 0, buf) = [ok |-> TRUE, val |-> <<>>, rest |-> y]
    BY <2>1, TakenType
  <2>3. f[0] = [ok |-> TRUE, val |-> <<>>, rest |-> y]
    BY <1>1, <2>1, <2>2
  <2>4. <<>> \in Seq({}) /\ Len(<<>>) = 0 /\ 1..0 = {}
    OBVIOUS
  <2>5. FieldsRead(p, 0, f[0])
    BY <2>3, <2>4 DEF FieldsRead
  <2> QED BY <2>5
<1>3. ASSUME NEW k \in Nat, k \in K PROVE k + 1 \in K
  <2> SUFFICES ASSUME k + 1 <= n PROVE FieldsRead(p, k + 1, f[k + 1])
    OBVIOUS
  <2>1. k + 1 \in 0..n /\ k + 1 # 0 /\ k + 1 - 1 = k /\ k + 1 \in 1..n /\ k <= n
    OBVIOUS
  <2>2. f[k + 1] = FieldsTurn(p, f[k], k + 1)
    BY <1>1, <2>1
  <2>3. FieldsRead(p, k, f[k])
    BY <1>3, <2>1
  <2> QED BY <2>1, <2>2, <2>3, FieldsReadOn
<1> HIDE DEF K
<1>4. n \in K
  BY <1>2, <1>3, NatSetInduction
<1> QED BY <1>4 DEF K

\* deserialize assigns each value to the member at its position.
LEMMA ObjectIs ==
  ASSUME NEW p, NEW n \in Nat, Formed(p, n), NEW vs
  PROVE  /\ ObjectOf(p, vs) = [m \in Members(p) |-> ObjectOf(p, vs)[m]]
         /\ \A i \in 1..n : ObjectOf(p, vs)[p.members[i]] = vs[i]
BY PositionIs DEF ObjectOf

\* The object that deserialize returns holds the values of its fields.
LEMMA MadeIs ==
  ASSUME NEW p, NEW vs, NEW y, NEW a, a = [ok |-> TRUE, val |-> vs, rest |-> y]
  PROVE  Made(p, a) = [ok |-> TRUE, val |-> ObjectOf(p, vs), rest |-> y]
<1>1. PICK o : o = ObjectOf(p, a.val)
  OBVIOUS
<1>2. Made(p, a) = WithVal(a, o)
  BY <1>1 DEF Made, WithVal
<1>3. WithVal(a, o) = [ok |-> TRUE, val |-> o, rest |-> y]
  BY WithValIs
<1>4. a.val = vs
  OBVIOUS
<1> QED BY <1>1, <1>2, <1>3, <1>4

\* Whatever the body, what deserialize returns is an object of its type, and one
\* that serialize_to accepts: the limits of the two are the same.
THEOREM DeserializeType ==
  ASSUME NEW p, NEW n \in Nat, Formed(p, n), NEW buf \in Seq(Byte),
         NEW r, r = Deserialize(p, buf), r.ok
  PROVE  Typed(p, r.val) /\ CanSerialize(p, r.val)
<1>0. n = Len(p.meta)
  BY DEF Formed, Listed
<1>1. PICK f : /\ FieldsLoop(p, buf, n, f)
               /\ r = IF buf = <<>> THEN Taken(DefaultPdu(p), 0, buf)
                      ELSE IF ~f[n].ok THEN Thrown ELSE Made(p, f[n])
  BY <1>0, DeserializeIs
<1>2. CASE buf = <<>>
  <2>1. r.val = DefaultPdu(p)
    BY <1>1, <1>2 DEF Taken
  <2> QED BY <2>1, DefaultType
<1>3. CASE buf # <<>>
  <2>1. f[n].ok /\ r = Made(p, f[n])
    BY <1>1, <1>3 DEF Thrown
  <2>2. FieldsRead(p, n, f[n])
    BY <1>1, FieldsLoopType
  <2>3. ~Failed(f[n])
    <3>1. PICK a : a = f[n]
      OBVIOUS
    <3>2. \A v, y : a # [ok |-> FALSE, val |-> v, rest |-> y]
      BY <2>1, <3>1
    <3> QED BY <3>1, <3>2 DEF Failed
  <2>4. PICK vs, y : /\ f[n] = [ok |-> TRUE, val |-> vs, rest |-> y]
                     /\ \A j \in 1..n : /\ Holds(p.meta[j][2], vs[j])
                                        /\ Accepts(p.meta[j][2], vs[j])
    BY <2>2, <2>3 DEF FieldsRead
  <2>5. r = [ok |-> TRUE, val |-> ObjectOf(p, vs), rest |-> y]
    BY <2>1, <2>4, MadeIs
  <2>6. PICK o : o = ObjectOf(p, vs)
    OBVIOUS
  <2>7. r.val = o
    BY <2>5, <2>6
  <2>8. /\ o = [m \in Members(p) |-> o[m]]
        /\ \A i \in 1..n : o[p.members[i]] = vs[i]
    BY <2>6, ObjectIs
  <2> QED BY <2>4, <2>7, <2>8, TypedIs
<1> QED BY <1>2, <1>3
-----------------------------------------------------------------------------
(* What it returns of what serialize_to wrote, and of the beginning of that. *)

\* No other codec is that of the optional parameters.
LEMMA CodecKinds == oparam \notin Codecs
<1>1. \A c \in Strings : c.kind # "oparam"
  BY DEF Strings, c_octet_str, u8_octet_str
<1>2. \A c \in Flags \cup {u8} : c.kind # "oparam"
  BY DEF Flags, esm_class, registered_delivery, u8
<1>3. oparam.kind = "oparam"
  BY DEF oparam
<1> QED BY <1>1, <1>2, <1>3 DEF Codecs

\* oparam::serialize writes bytes.
LEMMA OparamBytes ==
  ASSUME NEW m, IsParams(m)
  PROVE  SerializeOparam(m) \in Seq(Byte)
<1>1. PICK ps \in Seq(Param) : SerializeOparam(m) = ParamsBytes(ps)
  BY SerializeOparamIs
<1>2. [tag |-> 0, val |-> <<>>] \in Param
  BY DEF Param, U16s, Short
<1> QED BY <1>1, <1>2, ParamsCons

\* The bytes of the fields of an object, and of those behind a position.
Parts(p, o) == [i \in DOMAIN p.meta |-> SerializeField(p.meta[i][2], o[p.meta[i][1]])]
Remaining(ss, i) == FlattenSeq(SubSeq(ss, i + 1, Len(ss)))

\* serialize_to writes the bytes of each field, one behind the other.
LEMMA PartsAre ==
  ASSUME NEW p, NEW n \in Nat, Formed(p, n), NEW o, Typed(p, o), CanSerialize(p, o)
  PROVE  /\ Parts(p, o) \in Seq(Seq(Byte))
         /\ Len(Parts(p, o)) = n
         /\ \A i \in 1..n : Parts(p, o)[i] = SerializeField(p.meta[i][2], o[p.members[i]])
         /\ SerializeTo(p, o) = FlattenSeq(Parts(p, o))
<1>1. DOMAIN p.meta = 1..n /\ \A i \in 1..n : p.meta[i][1] = p.members[i]
  BY DEF Formed, Listed
<1>2. \A i \in 1..n : Parts(p, o)[i] = SerializeField(p.meta[i][2], o[p.members[i]])
  BY <1>1 DEF Parts
<1>3. ASSUME NEW i \in 1..n
      PROVE  SerializeField(p.meta[i][2], o[p.members[i]]) \in Seq(Byte)
  <2>1. PICK c, v : c = p.meta[i][2] /\ v = o[p.members[i]]
    OBVIOUS
  <2>2. c \in Codecs \cup {oparam} /\ Holds(c, v) /\ Accepts(c, v)
    BY <2>1, FieldCodec, TypedIs
  <2>3. SerializeField(c, v) \in Seq(Byte)
    BY <2>2, FieldBytes, OparamBytes, OparamCodec
  <2> QED BY <2>1, <2>3
<1>4. Parts(p, o) = [i \in 1..n |-> Parts(p, o)[i]]
  BY <1>1 DEF Parts
<1>5. Parts(p, o) \in Seq(Seq(Byte)) /\ Len(Parts(p, o)) = n
  <2>1. PICK s : s = Parts(p, o)
    OBVIOUS
  <2>2. s = [i \in 1..n |-> s[i]] /\ \A i \in 1..n : s[i] \in Seq(Byte)
    BY <1>2, <1>3, <1>4, <2>1
  <2>3. s \in [1..n -> Seq(Byte)]
    BY <2>2
  <2>4. s \in Seq(Seq(Byte)) /\ Len(s) = n
    BY <2>3, SeqDef, LenProperties
  <2> QED BY <2>1, <2>4
<1>6. SerializeTo(p, o) = FlattenSeq(Parts(p, o))
  BY DEF SerializeTo, Parts
<1> QED BY <1>2, <1>5, <1>6

\* What is behind a position begins with the field at it.
LEMMA RemainingFirst ==
  ASSUME NEW ss \in Seq(Seq(Byte)), NEW k \in 1..Len(ss)
  PROVE  /\ Remaining(ss, k) \in Seq(Byte)
         /\ Remaining(ss, k - 1) = ss[k] \o Remaining(ss, k)
<1>1. Len(ss) \in Nat /\ k + 1 \in 1..Len(ss) + 1 /\ k - 1 + 1 = k /\ Len(ss) \in k..Len(ss)
  BY LenProperties
<1>2. PICK u : u = SubSeq(ss, k + 1, Len(ss))
  OBVIOUS
<1>3. u \in Seq(Seq(Byte))
  BY <1>1, <1>2, From
<1>4. SubSeq(ss, k, Len(ss)) = <<ss[k]>> \o u
  BY <1>1, <1>2, SubSeqRecursiveFirst
<1>5. PICK x \in Seq(Byte) : x = ss[k]
  BY ElementOfSeq
<1>6. FlattenSeq(<<x>> \o u) = x \o FlattenSeq(u)
  BY <1>3, FlattenCons
<1>7. FlattenSeq(u) \in Seq(Byte)
  BY <1>3, FlattenType
<1> QED BY <1>1, <1>2, <1>4, <1>5, <1>6, <1>7 DEF Remaining

\* At the start all fields remain, at the end none.
LEMMA RemainingEnds ==
  ASSUME NEW ss \in Seq(Seq(Byte))
  PROVE  Remaining(ss, 0) = FlattenSeq(ss) /\ Remaining(ss, Len(ss)) = <<>>
<1>1. SubSeq(ss, 1, Len(ss)) = ss
  BY SubSeqFull
<1>2. PICK n \in Nat : n = Len(ss)
  BY LenProperties
<1>3. SubSeq(ss, n + 1, n) = <<>>
  BY SubSeqEmpty
<1>4. Remaining(ss, n) = <<>>
  BY <1>2, <1>3, FlattenEmpty DEF Remaining
<1>5. Remaining(ss, 0) = FlattenSeq(SubSeq(ss, 1, Len(ss)))
  BY DEF Remaining
<1> QED BY <1>1, <1>2, <1>4, <1>5

\* A member of what is read of the beginning (x is missing) of what was written.
ValueKept(c, v, x, w) ==
  IF c = oparam THEN PartOf(w, v) /\ (x = <<>> => w = v) ELSE w = v

FieldsKept(p, n, o, x, i, a) ==
  \/ Failed(a) /\ x # <<>>
  \/ \E S : \E vs \in Seq(S) : \E y :
       /\ a = [ok |-> TRUE, val |-> vs, rest |-> y]
       /\ Len(vs) = i
       /\ \A j \in 1..i : ValueKept(p.meta[j][2], o[p.members[j]], x, vs[j])
       /\ i < n => y \in Seq(Byte) /\ y \o x = Remaining(Parts(p, o), i)

\* No null character in a string that a null character ends.
NoNulls(p, n, o) == \A i \in 1..n : NoNull(p.meta[i][2], o[p.members[i]])

\* One field.
GoesOn(p, n, o, x, k, r) ==
  \/ r = Thrown /\ x # <<>>
  \/ \E v, z : /\ r = [ok |-> TRUE, val |-> v, rest |-> z]
               /\ ValueKept(p.meta[k][2], o[p.members[k]], x, v)
               /\ k < n => z \in Seq(Byte) /\ z \o x = Remaining(Parts(p, o), k)

\* deserialize reads one field of the beginning of what serialize_to wrote.
LEMMA OneKept ==
  ASSUME NEW p, NEW n \in Nat, Formed(p, n), NEW o, Typed(p, o), CanSerialize(p, o),
         NoNulls(p, n, o), NEW x \in Seq(Byte), NEW k \in 1..n, NEW y \in Seq(Byte),
         y \o x = Remaining(Parts(p, o), k - 1),
         NEW c, c = p.meta[k][2], NEW r, r = DeserializeField(c, y)
  PROVE  GoesOn(p, n, o, x, k, r)
<1>1. PICK v, t : v = o[p.members[k]] /\ t = Remaining(Parts(p, o), k)
  OBVIOUS
<1>2. c \in Codecs \cup {oparam} /\ Holds(c, v) /\ Accepts(c, v) /\ NoNull(c, v)
  BY <1>1, FieldCodec, TypedIs DEF NoNulls
<1>3. t \in Seq(Byte) /\ y \o x = SerializeField(c, v) \o t
  <2>1. PICK ss \in Seq(Seq(Byte)) : ss = Parts(p, o) /\ Len(ss) = n
    BY PartsAre
  <2>2. ss[k] = SerializeField(c, v)
    BY <1>1, <2>1, PartsAre
  <2>3. Remaining(ss, k) \in Seq(Byte) /\ Remaining(ss, k - 1) = ss[k] \o Remaining(ss, k)
    BY <2>1, RemainingFirst
  <2> QED BY <1>1, <2>1, <2>2, <2>3
<1>4. FieldTyped(c, r)
  BY <1>2, FieldType
<1>5. CASE c \in Codecs /\ c # oparam
  <2>1. FieldKept(v, x, t, r)
    BY <1>2, <1>3, <1>5, FieldCut
  <2>2. CASE r = Thrown
    <3>1. ~r.ok
      BY <2>2 DEF Thrown
    <3> QED BY <2>1, <2>2, <3>1 DEF FieldKept, GoesOn
  <2>3. CASE r # Thrown
    <3>1. PICK w, z : r = [ok |-> TRUE, val |-> w, rest |-> z]
      BY <1>4, <2>3 DEF FieldTyped
    <3>2. r.ok /\ r.val = w /\ r.rest = z
      BY <3>1
    <3>3. w = v /\ z \in Seq(Byte) /\ z \o x = t
      BY <2>1, <3>2 DEF FieldKept
    <3> QED BY <1>1, <1>5, <3>1, <3>3 DEF ValueKept, GoesOn
  <2> QED BY <2>2, <2>3
<1>6. CASE c = oparam
  <2>1. k = n
    <3>1. p.members[k] = "oparam"
      <4>1. IsField(p.members[k], c)
        BY FieldCodec
      <4>2. oparam \notin Codecs
        BY CodecKinds
      <4> QED BY <1>6, <4>1, <4>2 DEF IsField
    <3> QED BY <3>1 DEF Formed, OparamLast
  <2>2. t = <<>>
    BY <1>1, <2>1, PartsAre, RemainingEnds
  <2>3. PICK b \in Seq(Byte) : b = SerializeOparam(v)
    BY <1>2, <1>6, OparamCodec, OparamBytes
  <2>4. y \o x = b
    <3>1. y \o x = b \o <<>>
      BY <1>3, <1>6, <2>2, <2>3, OparamCodec
    <3>2. b \o <<>> = b
      BY ConcatEmptySeq
    <3> QED BY <3>1, <3>2
  <2>5. OparamKept(v, x, r)
    <3>1. IsParams(v) /\ r = DeserializeOparam(y)
      BY <1>2, <1>6, OparamCodec
    <3> QED BY <2>3, <2>4, <3>1, OparamCut
  <2>6. CASE r = Thrown
    <3>1. \A w, z : r # [ok |-> TRUE, val |-> w, rest |-> z]
      BY <2>6 DEF Thrown
    <3> QED BY <2>5, <2>6, <3>1 DEF OparamKept, GoesOn
  <2>7. CASE r # Thrown
    <3>1. PICK w, z : r = [ok |-> TRUE, val |-> w, rest |-> z]
      BY <1>4, <2>7 DEF FieldTyped
    <3>2. r.ok /\ r.val = w
      BY <3>1
    <3>3. PartOf(w, v)
      BY <2>5, <3>2 DEF OparamKept
    <3>4. ASSUME x = <<>> PROVE w = v
      <4>1. r = [ok |-> TRUE, val |-> v, rest |-> <<>>]
        BY <2>5, <3>4 DEF OparamKept
      <4>2. r.val = v
        BY <4>1
      <4> QED BY <3>2, <4>2
    <3> QED BY <1>1, <1>6, <2>1, <3>1, <3>3, <3>4 DEF ValueKept, GoesOn
  <2> QED BY <2>6, <2>7
<1> QED BY <1>2, <1>5, <1>6

\* One turn of deserialize keeps what it has read so far.
LEMMA FieldsKeptOn ==
  ASSUME NEW p, NEW n \in Nat, Formed(p, n), NEW o, Typed(p, o), CanSerialize(p, o),
         NoNulls(p, n, o), NEW x \in Seq(Byte), NEW i \in Nat, i + 1 \in 1..n,
         NEW acc, FieldsKept(p, n, o, x, i, acc)
  PROVE  FieldsKept(p, n, o, x, i + 1, FieldsTurn(p, acc, i + 1))
<1>1. CASE Failed(acc) /\ x # <<>>
  BY <1>1, TurnFails DEF FieldsKept
<1>2. CASE ~(Failed(acc) /\ x # <<>>)
  <2>1. PICK S : \E vs \in Seq(S) : \E y :
          /\ acc = [ok |-> TRUE, val |-> vs, rest |-> y]
          /\ Len(vs) = i
          /\ \A j \in 1..i : ValueKept(p.meta[j][2], o[p.members[j]], x, vs[j])
          /\ i < n => y \in Seq(Byte) /\ y \o x = Remaining(Parts(p, o), i)
    BY <1>2 DEF FieldsKept
  <2>0. i < n
    OBVIOUS
  <2>2. PICK vs \in Seq(S) : \E y :
          /\ acc = [ok |-> TRUE, val |-> vs, rest |-> y]
          /\ Len(vs) = i
          /\ \A j \in 1..i : ValueKept(p.meta[j][2], o[p.members[j]], x, vs[j])
          /\ i < n => y \in Seq(Byte) /\ y \o x = Remaining(Parts(p, o), i)
    BY <2>1
  <2>3. PICK y \in Seq(Byte) :
          /\ acc = [ok |-> TRUE, val |-> vs, rest |-> y]
          /\ y \o x = Remaining(Parts(p, o), i)
    BY <2>0, <2>2
  <2>10. Len(vs) = i
    BY <2>2
  <2>4. PICK k \in 1..n : k = i + 1 /\ k - 1 = i
    OBVIOUS
  <2>5. PICK c, r : /\ c = p.meta[k][2]
                    /\ r = DeserializeField(c, y) /\ r = DeserializeField(p.meta[k][2], y)
    OBVIOUS
  <2>6. TurnsTo(FieldsTurn(p, acc, k), r, vs)
    <3>1. /\ acc = [ok |-> TRUE, val |-> vs, rest |-> y]
          /\ r = DeserializeField(p.meta[k][2], y)
      BY <2>3, <2>5
    <3> QED BY <3>1, TurnOn
  <2>7. GoesOn(p, n, o, x, k, r)
    <3>1. y \o x = Remaining(Parts(p, o), k - 1)
      BY <2>3, <2>4
    <3>2. c = p.meta[k][2] /\ r = DeserializeField(c, y)
      BY <2>5
    <3> QED BY <3>1, <3>2, OneKept
  <2>8. CASE r = Thrown /\ x # <<>>
    BY <2>4, <2>6, <2>8 DEF FieldsKept, TurnsTo
  <2>9. CASE ~(r = Thrown /\ x # <<>>)
    <3>1. PICK v, z : /\ r = [ok |-> TRUE, val |-> v, rest |-> z]
                      /\ ValueKept(p.meta[k][2], o[p.members[k]], x, v)
                      /\ k < n => z \in Seq(Byte) /\ z \o x = Remaining(Parts(p, o), k)
      BY <2>7, <2>9 DEF GoesOn
    <3>3. PICK ws : ws = Append(vs, v)
      OBVIOUS
    <3>4. FieldsTurn(p, acc, i + 1) = [ok |-> TRUE, val |-> ws, rest |-> z]
      BY <2>4, <2>6, <3>1, <3>3 DEF TurnsTo
    <3>5. PICK T : /\ ws \in Seq(T) /\ Len(ws) = i + 1
                   /\ \A j \in 1..i : ws[j] = vs[j]
                   /\ ws[i + 1] = v
      BY <2>10, <3>3, OneMore
    <3>6. ASSUME NEW j \in 1..i + 1
          PROVE  ValueKept(p.meta[j][2], o[p.members[j]], x, ws[j])
      <4>1. CASE j = i + 1
        BY <2>4, <2>5, <3>1, <3>5, <4>1
      <4>2. CASE j # i + 1
        <5>1. j \in 1..i
          BY <4>2
        <5> QED BY <2>2, <3>5, <5>1
      <4> QED BY <4>1, <4>2
    <3>7. i + 1 < n => z \in Seq(Byte) /\ z \o x = Remaining(Parts(p, o), i + 1)
      BY <2>4, <3>1
    <3> QED BY <3>4, <3>5, <3>6, <3>7 DEF FieldsKept
  <2> QED BY <2>8, <2>9
<1> QED BY <1>1, <1>2

\* What the loop of deserialize leaves, of the beginning of what serialize_to wrote.
LEMMA FieldsLoopKept ==
  ASSUME NEW p, NEW n \in Nat, Formed(p, n), NEW o, Typed(p, o), CanSerialize(p, o),
         NoNulls(p, n, o), NEW x \in Seq(Byte), NEW buf \in Seq(Byte),
         buf \o x = SerializeTo(p, o),
         NEW f, FieldsLoop(p, buf, n, f)
  PROVE  FieldsKept(p, n, o, x, n, f[n])
<1> DEFINE K == {k \in Nat : k <= n => FieldsKept(p, n, o, x, k, f[k])}
<1>1. \A i \in 0..n : f[i] = IF i = 0 THEN Taken(<<>>, 0, buf) ELSE FieldsTurn(p, f[i - 1], i)
  BY DEF FieldsLoop
<1>2. 0 \in K
  <2>1. 0 \in 0..n
    OBVIOUS
  <2>2. Taken(<<>>, 0, buf) = [ok |-> TRUE, val |-> <<>>, rest |-> buf]
    <3>1. 0 + 1 = 1 /\ SubSeq(buf, 1, Len(buf)) = buf
      BY SubSeqFull
    <3> QED BY <3>1 DEF Taken
  <2>3. f[0] = [ok |-> TRUE, val |-> <<>>, rest |-> buf]
    BY <1>1, <2>1, <2>2
  <2>4. <<>> \in Seq({}) /\ Len(<<>>) = 0 /\ 1..0 = {}
    OBVIOUS
  <2>5. buf \o x = Remaining(Parts(p, o), 0)
    BY PartsAre, RemainingEnds
  <2>6. FieldsKept(p, n, o, x, 0, f[0])
    BY <2>3, <2>4, <2>5 DEF FieldsKept
  <2> QED BY <2>6
<1>3. ASSUME NEW k \in Nat, k \in K PROVE k + 1 \in K
  <2> SUFFICES ASSUME k + 1 <= n PROVE FieldsKept(p, n, o, x, k + 1, f[k + 1])
    OBVIOUS
  <2>1. k + 1 \in 0..n /\ k + 1 # 0 /\ k + 1 - 1 = k /\ k + 1 \in 1..n /\ k <= n
    OBVIOUS
  <2>2. f[k + 1] = FieldsTurn(p, f[k], k + 1)
    BY <1>1, <2>1
  <2>3. FieldsKept(p, n, o, x, k, f[k])
    BY <1>3, <2>1
  <2> QED BY <2>1, <2>2, <2>3, FieldsKeptOn
<1> HIDE DEF K
<1>4. n \in K
  BY <1>2, <1>3, NatSetInduction
<1> QED BY <1>4 DEF K

\* serialize_to writes nothing only of a PDU without members.
LEMMA SomeBytes ==
  ASSUME NEW p, NEW n \in Nat, Formed(p, n), NEW o, Typed(p, o), CanSerialize(p, o),
         SerializeTo(p, o) = <<>>
  PROVE  o = DefaultPdu(p)
<1>1. n = 0
  <2> SUFFICES ASSUME n # 0 PROVE FALSE
    OBVIOUS
  <2>1. PICK k \in 1..n : k = 1
    OBVIOUS
  <2>2. PICK ss \in Seq(Seq(Byte)) : ss = Parts(p, o) /\ Len(ss) = n
    BY PartsAre
  <2>3. PICK c, v : c = p.meta[k][2] /\ v = o[p.members[k]]
    OBVIOUS
  <2>4. c \in Codecs /\ Holds(c, v) /\ Accepts(c, v)
    <3>1. p.members[k] # "oparam"
      BY <2>1 DEF Formed, OparamLast
    <3> QED BY <2>3, <3>1, FieldCodec, TypedIs DEF IsField
  <2>5. PICK b \in Seq(Byte) : b = SerializeField(c, v) /\ b # <<>>
    BY <2>4, FieldBytes
  <2>6. ss[k] = b
    BY <2>2, <2>3, <2>5, PartsAre
  <2>7. PICK t \in Seq(Byte) : Remaining(ss, k - 1) = b \o t
    BY <2>2, <2>6, RemainingFirst
  <2>8. Remaining(ss, k - 1) = <<>>
    <3>1. k - 1 = 0
      BY <2>1
    <3> QED BY <2>2, <3>1, PartsAre, RemainingEnds
  <2> QED BY <2>5, <2>7, <2>8, ConcatEqualIffEmpty
<1>2. Members(p) = {}
  BY <1>1 DEF Formed, Listed, Members
<1>3. o = [m \in Members(p) |-> o[m]]
  BY DEF Typed
<1> QED BY <1>2, <1>3 DEF DefaultPdu

\* Members that are kept.
Kept(p, o, g) ==
  \A m \in Members(p) : IF m = "oparam" THEN PartOf(g[m], o[m]) ELSE g[m] = o[m]

\* What deserialize returns of the beginning (x is missing) of what serialize_to wrote.
ReadBack(p, o, x, buf, r) ==
  /\ buf # <<>> /\ r.ok => Kept(p, o, r.val)
  /\ x = <<>> => r.ok /\ r.val = o

\* Whatever the PDU and its members, if only no c_octet_str has a null character in
\* it: deserialize of what serialize_to wrote returns the same object, and of the
\* beginning of it, when that is not empty, either throws or returns an object that
\* has lost optional parameters and nothing else.
THEOREM DeserializeCut ==
  ASSUME NEW p, NEW n \in Nat, Formed(p, n), NEW o, Typed(p, o), CanSerialize(p, o),
         NoNulls(p, n, o), NEW x \in Seq(Byte), NEW buf \in Seq(Byte),
         buf \o x = SerializeTo(p, o), NEW r, r = Deserialize(p, buf)
  PROVE  ReadBack(p, o, x, buf, r)
<1>0. n = Len(p.meta)
  BY DEF Formed, Listed
<1>1. PICK f : /\ FieldsLoop(p, buf, n, f)
               /\ r = IF buf = <<>> THEN Taken(DefaultPdu(p), 0, buf)
                      ELSE IF ~f[n].ok THEN Thrown ELSE Made(p, f[n])
  BY <1>0, DeserializeIs
<1>2. CASE buf = <<>>
  <2>1. r.ok /\ r.val = DefaultPdu(p)
    BY <1>1, <1>2 DEF Taken
  <2>2. x = <<>> => SerializeTo(p, o) = <<>>
    BY <1>2
  <2> QED BY <1>2, <2>1, <2>2, SomeBytes DEF ReadBack
<1>3. CASE buf # <<>>
  <2>1. FieldsKept(p, n, o, x, n, f[n])
    BY <1>1, FieldsLoopKept
  <2>2. CASE Failed(f[n]) /\ x # <<>>
    <3>1. PICK a : a = f[n]
      OBVIOUS
    <3>2. ~a.ok
      BY <2>2, <3>1 DEF Failed
    <3>3. r = Thrown
      BY <1>1, <1>3, <3>1, <3>2
    <3> QED BY <2>2, <3>3 DEF Thrown, ReadBack
  <2>3. CASE ~(Failed(f[n]) /\ x # <<>>)
    <3>1. PICK vs, y :
            /\ f[n] = [ok |-> TRUE, val |-> vs, rest |-> y]
            /\ \A j \in 1..n : ValueKept(p.meta[j][2], o[p.members[j]], x, vs[j])
      BY <2>1, <2>3 DEF FieldsKept
    <3>2. PICK a : a = f[n]
      OBVIOUS
    <3>3. a.ok
      BY <3>1, <3>2
    <3>4. r = [ok |-> TRUE, val |-> ObjectOf(p, vs), rest |-> y]
      BY <1>1, <1>3, <3>1, <3>2, <3>3, MadeIs
    <3>5. PICK g : g = ObjectOf(p, vs)
      OBVIOUS
    <3>6. r.val = g /\ r.ok
      BY <3>4, <3>5
    <3>7. /\ g = [m \in Members(p) |-> g[m]]
          /\ \A i \in 1..n : g[p.members[i]] = vs[i]
      BY <3>5, ObjectIs
    <3>8. ASSUME NEW m \in Members(p)
          PROVE  /\ IF m = "oparam" THEN PartOf(g[m], o[m]) ELSE g[m] = o[m]
                 /\ x = <<>> => g[m] = o[m]
      <4>1. PICK i \in 1..n : m = p.members[i]
        BY PositionIs
      <4>2. ValueKept(p.meta[i][2], o[m], x, g[m])
        BY <3>1, <3>7, <4>1
      <4>3. m = "oparam" <=> p.meta[i][2] = oparam
        BY <4>1, FieldCodec, CodecKinds DEF IsField
      <4> QED BY <4>2, <4>3 DEF ValueKept
    <3>9. Kept(p, o, g)
      BY <3>8 DEF Kept
    <3>10. ASSUME x = <<>> PROVE g = o
      <4>1. o = [m \in Members(p) |-> o[m]]
        BY DEF Typed
      <4>2. \A m \in Members(p) : g[m] = o[m]
        BY <3>8, <3>10
      <4> QED BY <3>7, <4>1, <4>2
    <3> QED BY <3>6, <3>9, <3>10 DEF ReadBack
  <2> QED BY <2>2, <2>3
<1> QED BY <1>2, <1>3
-----------------------------------------------------------------------------
(* The header, and how receive_op finds the type.                           *)

\* 32-bit numbers, and what they say.
Words == U16s \X U16s
Number(w) == w[1] * 65536 + w[2]
Fits32(n) == n < 65536 * 65536

\* The bytes of a number: those of its last 16 bits.
LEMMA U16Wraps ==
  ASSUME NEW k \in Nat
  PROVE  \E j \in U16s : U16(j) = U16(k) /\ j <= k /\ (k < 65536 => j = k)
<1>1. PICK a, b : a = k \div 256 % 256 /\ b = k % 256
  OBVIOUS
<1>2. a \in 0..255 /\ b \in 0..255
  BY <1>1
<1>3. PICK j : j = a * 256 + b
  OBVIOUS
<1>4. j \in U16s
  BY <1>2, <1>3, TwoBytes DEF Byte
<1>5. j \div 256 % 256 = a /\ j % 256 = b
  <2>1. \A c, d \in 0..255 :
          (c * 256 + d) \div 256 = c /\ (c * 256 + d) % 256 = d /\ c % 256 = c
    OBVIOUS
  <2> QED BY <1>2, <1>3, <2>1
<1>6. U16(j) = U16(k)
  BY <1>1, <1>5 DEF U16
<1>7. j <= k
  <2>1. PICK q \in Nat : q = k \div 256 /\ k = q * 256 + (k % 256)
    OBVIOUS
  <2>2. \A r \in Nat : r % 256 <= r
    OBVIOUS
  <2>3. a <= q
    BY <1>1, <2>1, <2>2
  <2> QED BY <1>1, <1>2, <1>3, <2>1, <2>3
<1>8. k < 65536 => j = k
  <2>1. ASSUME k < 65536 PROVE j = k
    <3>1. k \in U16s
      BY <2>1 DEF U16s
    <3> QED BY <1>1, <1>3, <3>1, U16Bytes
  <2> QED BY <2>1
<1> QED BY <1>4, <1>6, <1>7, <1>8

\* command_length says how long the frame is, or less when 32 bits do not suffice.
LEMMA LengthWraps ==
  ASSUME NEW n \in Nat
  PROVE  \E w \in Words : /\ SerializeU32(U32(n)) = SerializeU32(w)
                          /\ Number(w) \in Nat /\ Number(w) <= n
                          /\ Fits32(n) => w = U32(n) /\ Number(w) = n
<1>1. PICK k, l : k = n \div 65536 /\ l = n % 65536
  OBVIOUS
<1>2. k \in Nat /\ l \in Nat /\ l < 65536 /\ n = k * 65536 + l
  BY <1>1
<1>3. PICK j \in U16s : U16(j) = U16(k) /\ j <= k /\ (k < 65536 => j = k)
  BY <1>2, U16Wraps
<1>4. PICK w : w = <<j, l>>
  OBVIOUS
<1>5. w \in Words /\ w[1] = j /\ w[2] = l
  BY <1>2, <1>4 DEF Words, U16s
<1>6. U32(n) = <<k, l>>
  BY <1>1 DEF U32
<1>7. SerializeU32(U32(n)) = SerializeU32(w)
  BY <1>3, <1>5, <1>6 DEF SerializeU32
<1>8. Number(w) \in Nat /\ Number(w) <= n
  <2>1. j \in Nat
    BY DEF U16s
  <2> QED BY <1>2, <1>3, <1>5, <2>1 DEF Number
<1>9. Fits32(n) => k < 65536
  BY <1>2 DEF Fits32
<1>10. ASSUME Fits32(n) PROVE w = U32(n) /\ Number(w) = n
  BY <1>2, <1>3, <1>4, <1>5, <1>6, <1>9, <1>10 DEF Number
<1> QED BY <1>5, <1>7, <1>8, <1>10

\* A header.
HeaderOf(w, id, status, n) ==
  [command_length |-> w, command_id |-> id, command_status |-> status,
   sequence_number |-> n]

\* The header of a body that has been changed: the length changes, and nothing else.
Relengthed(buf, v, id, status, n) ==
  SerializeU32(v) \o SubSeq(buf, 5, 16) = SerializeHeader(HeaderOf(v, id, status, n))

\* A header whose command_length is written anew, as for a body that has changed.
LEMMA HeaderChanged ==
  ASSUME NEW w \in Words, NEW v \in Words, NEW id \in Words, NEW status \in Words,
         NEW n \in Words, NEW buf, buf = SerializeHeader(HeaderOf(w, id, status, n))
  PROVE  Relengthed(buf, v, id, status, n)
<1>1. PICK a \in Seq(Byte), b \in Seq(Byte), c \in Seq(Byte), d \in Seq(Byte), e \in Seq(Byte) :
        /\ a = SerializeU32(w) /\ b = SerializeU32(id) /\ c = SerializeU32(status)
        /\ d = SerializeU32(n) /\ e = SerializeU32(v)
        /\ Len(a) = 4 /\ Len(b) = 4 /\ Len(c) = 4 /\ Len(d) = 4
  BY U32Bytes DEF Words
<1>2. PICK x \in Seq(Byte), y \in Seq(Byte) : x = b \o c /\ y = x \o d /\ Len(y) = 12
  <2>1. PICK x, y : x = b \o c /\ y = x \o d
    OBVIOUS
  <2>2. x \in Seq(Byte) /\ Len(x) = Len(b) + 4
    BY <1>1, <2>1, ConcatFour, Zenon
  <2>3. y \in Seq(Byte) /\ Len(y) = Len(x) + 4
    BY <1>1, <2>1, <2>2, ConcatFour, Zenon
  <2>4. Len(y) = 12
    BY <1>1, <2>2, <2>3
  <2> QED BY <2>1, <2>2, <2>3, <2>4, Zenon
<1>3. ASSUME NEW f \in Seq(Byte) PROVE ((f \o b) \o c) \o d = f \o y
  <2>1. (f \o b) \o c = f \o x
    <3>1. Associates(f, b, c)
      BY Associative
    <3> QED BY <1>2, <3>1, Zenon DEF Associates
  <2>2. (f \o x) \o d = f \o y
    <3>1. Associates(f, x, d)
      BY Associative
    <3> QED BY <1>2, <3>1, Zenon DEF Associates
  <2> QED BY <2>1, <2>2
<1>4. SerializeHeader(HeaderOf(w, id, status, n)) = a \o y
  BY <1>1, <1>3 DEF SerializeHeader, HeaderOf
<1>5. SerializeHeader(HeaderOf(v, id, status, n)) = e \o y
  BY <1>1, <1>3 DEF SerializeHeader, HeaderOf
<1>6. SubSeq(a \o y, Len(a) + 1, Len(a \o y)) = y
  BY ConcatParts
<1>7. Len(a \o y) = 16
  <2>1. Len(a \o y) = Len(a) + Len(y)
    BY ConcatProperties
  <2> QED BY <1>1, <1>2, <2>1
<1>8. SubSeq(buf, 5, 16) = y
  <2>1. buf = a \o y
    BY <1>4
  <2>2. Len(a) + 1 = 5
    BY <1>1
  <2> QED BY <1>6, <1>7, <2>1, <2>2, Zenon
<1> QED BY <1>1, <1>5, <1>8 DEF Relengthed

\* deserialize_header reads what serialize_header wrote.
LEMMA HeaderRead ==
  ASSUME NEW w \in Words, NEW id \in Words, NEW status \in Words, NEW n \in Words,
         NEW h, h = DeserializeHeader(SerializeHeader(HeaderOf(w, id, status, n)))
  PROVE  h = HeaderOf(w, id, status, n) /\ h.command_length = w /\ h.command_id = id
<1>1. PICK k : k = HeaderOf(w, id, status, n)
  OBVIOUS
<1>2. k \in [command_length : U16s \X U16s, command_id : U16s \X U16s,
             command_status : U16s \X U16s, sequence_number : U16s \X U16s]
  BY <1>1 DEF HeaderOf, Words
<1>3. h = k
  BY <1>1, <1>2, HeaderRoundTrip
<1> QED BY <1>1, <1>3 DEF HeaderOf

\* receive_op finds the type of a PDU by its command_id.
LEMMA TypeOfIs ==
  ASSUME NEW k \in DOMAIN pdu_variant, NEW p, p = pdu_variant[k]
  PROVE  TypeOf(p.command_id) = p
<1> DEFINE S == {i \in DOMAIN pdu_variant : pdu_variant[i].command_id = p.command_id}
<1>1. DOMAIN pdu_variant = 1..21
  BY Alternatives
<1>2. S \in SUBSET Nat /\ k \in S
  BY <1>1
<1>3. \A i \in S : i = k
  BY <1>1, IdsAre, IdsDistinct
<1> HIDE DEF S
<1>4. Min(S) = k
  <2>1. Min(S) \in S
    BY <1>2, MinExists
  <2> QED BY <1>3, <2>1
<1> QED BY <1>4 DEF TypeOf, S
-----------------------------------------------------------------------------
(* The invariant, and what follows from it.                                 *)

\* The length of the frame is a 32-bit number.
Fits(b) == Fits32(16 + Len(b))

OnTheWay == {"sent", "received", "invalid_pdu"}

Types ==
  /\ pdu \in Pdus
  /\ Typed(pdu, obj)
  /\ body \in Seq(Byte)
  /\ phase \in OnTheWay \cup {"edit", "serialization_failed"}
  /\ hops \in {0, 1}
  /\ phase = "edit" => damage = "none"

\* What has been received can be sent, and is not changed before.
Forwards ==
  hops = 1 => /\ edits = Edits
              /\ CanSerialize(pdu, obj)
              /\ phase # "serialization_failed"

\* The header tells the length of the body, and its other members stay.
HeaderSent(p, o, b, hd, s) ==
  \E status \in Words, n \in Words, w \in Words :
    /\ s = [header |-> HeaderOf(U32(16 + Len(SerializeTo(p, o))),
                                   p.command_id, status, n),
            obj |-> o]
    /\ hd = SerializeHeader(HeaderOf(w, p.command_id, status, n))
    /\ Number(w) \in Nat /\ Number(w) <= 16 + Len(b)
    /\ Fits(b) => w = U32(16 + Len(b)) /\ Number(w) = 16 + Len(b)

BodySent(p, o, b, how) ==
  /\ how = "none" => b = SerializeTo(p, o)
  /\ how = "cut" => \E x \in Seq(Byte) : b \o x = SerializeTo(p, o)

Sends ==
  phase \in OnTheWay =>
    /\ CanSerialize(pdu, obj)
    /\ HeaderSent(pdu, obj, body, header, sent)
    /\ BodySent(pdu, obj, body, damage)

\* What is delivered is what deserialize returns of the body.
Delivered(p, b, s, how, g) ==
  LET r == Deserialize(p, b)
  IN  /\ r.ok /\ g.obj = r.val
      /\ how = "none" => g = [header |-> s.header, obj |-> r.val]

Receives ==
  /\ phase = "received" =>
       /\ Typed(pdu, got.obj) /\ CanSerialize(pdu, got.obj)
       /\ Fits(body) => Delivered(pdu, body, sent, damage, got)
  /\ phase = "invalid_pdu" => (Fits(body) => ~Deserialize(pdu, body).ok)

\* The invariant.
CInv == Types /\ Forwards /\ Sends /\ Receives

\* Every PDU that the application may send is well formed, and found by its id.
LEMMA PduFormed ==
  ASSUME NEW p \in Pdus
  PROVE  /\ p.command_id \in Words
         /\ \E n \in Nat : Formed(p, n)
         /\ TypeOf(p.command_id) = p
<1>1. PICK k \in DOMAIN pdu_variant : p = pdu_variant[k]
  BY FrameCodecAssumption
<1>2. WellFormed(p)
  BY <1>1, AlternativesFormed
<1>3. TypeOf(p.command_id) = p
  BY <1>1, TypeOfIs
<1> QED BY <1>2, <1>3 DEF WellFormed, Words

\* It holds at the start.
LEMMA CInvInit == Init => CInv
<1> SUFFICES ASSUME Init PROVE CInv
  OBVIOUS
<1>1. Typed(pdu, obj)
  <2>1. PICK n \in Nat : Formed(pdu, n)
    BY PduFormed DEF Init
  <2> QED BY <2>1, DefaultType DEF Init
<1> QED BY <1>1 DEF Init, CInv, Types, Forwards, Sends, Receives, OnTheWay

\* A step that does not send.
Edited ==
  /\ phase = "edit" /\ phase' = phase
  /\ edits < Edits
  /\ pdu' = pdu /\ body' = body /\ hops' = hops /\ damage' = damage

\* An application that changes the PDU keeps it.
LEMMA CInvEdited ==
  ASSUME CInv, Edited, Typed(pdu, obj') PROVE CInv'
<1>1. hops = 0
  <2>1. ~(edits < Edits) \/ edits # Edits
    BY FrameCodecAssumption
  <2> QED BY <2>1 DEF CInv, Types, Forwards, Edited
<1> QED BY <1>1 DEF CInv, Types, Forwards, Sends, Receives, Edited, OnTheWay

\* Edit is such a step.
LEMMA EditIs ==
  ASSUME NEW new, Edit(new) PROVE Edited /\ obj' = new
BY DEF Edit, Edited

\* A member that changes leaves the others and their types alone.
LEMMA Changed ==
  ASSUME NEW p \in Pdus, NEW o, Typed(p, o), NEW m \in Members(p), NEW v,
         Holds(CodecOf(p, m), v)
  PROVE  Typed(p, [o EXCEPT ![m] = v])
<1> DEFINE g == [o EXCEPT ![m] = v]
<1>1. DOMAIN o = Members(p)
  BY DEF Typed
<1>2. g = [k \in Members(p) |-> g[k]]
  BY <1>1
<1>3. \A k \in Members(p) : g[k] = IF k = m THEN v ELSE o[k]
  BY <1>1
<1> HIDE DEF g
<1>4. Typed(p, g)
  BY <1>2, <1>3 DEF Typed
<1> QED BY <1>4 DEF g

\* The member oparam is serialized as optional parameters.
LEMMA OparamMember ==
  ASSUME NEW p \in Pdus, "oparam" \in Members(p)
  PROVE  CodecOf(p, "oparam") = oparam
<1>1. PICK n \in Nat : Formed(p, n)
  BY PduFormed
<1>2. PICK i \in 1..n : p.members[i] = "oparam" /\ CodecOf(p, "oparam") = p.meta[i][2]
  BY <1>1, PositionIs
<1> QED BY <1>1, <1>2, FieldCodec DEF IsField

\* Assigning a member keeps it.
LEMMA CInvAssign ==
  ASSUME CInv, NEW m \in Members(pdu), Assign(m) PROVE CInv'
<1>1. PICK v \in Values(CodecOf(pdu, m)) : Edit([obj EXCEPT ![m] = v])
  BY DEF Assign
<1>2. Holds(CodecOf(pdu, m), v)
  <2>1. CodecOf(pdu, m).kind # "oparam" /\ pdu \in Pdus
    BY DEF Assign, CInv, Types
  <2>2. IsValue(CodecOf(pdu, m), v)
    BY <2>1, FrameCodecAssumption
  <2> QED BY <2>1, <2>2 DEF Holds
<1>3. Typed(pdu, [obj EXCEPT ![m] = v])
  BY <1>2, Changed DEF CInv, Types
<1>4. PICK new : new = [obj EXCEPT ![m] = v]
  OBVIOUS
<1>5. Edited /\ obj' = new
  BY <1>1, <1>4, EditIs
<1> QED BY <1>3, <1>4, <1>5, CInvEdited

\* oparam::set_as_string and set_as_enum_u8 keep it.
LEMMA CInvSetParam ==
  ASSUME CInv, NEW q \in Params, SetParam(q[1], q[2]) PROVE CInv'
<1>1. PICK tag, val, m : tag = q[1] /\ val = q[2] /\ m = WithParam(obj.oparam, tag, val)
  OBVIOUS
<1>2. tag \in U16s /\ val \in Short
  BY <1>1, FrameCodecAssumption DEF SetParam, Short
<1>3. "oparam" \in Members(pdu) /\ pdu \in Pdus /\ Typed(pdu, obj)
  BY DEF SetParam, CInv, Types
<1>4. IsParams(obj.oparam)
  <2>1. Holds(oparam, obj.oparam)
    BY <1>3, OparamMember DEF Typed
  <2> QED BY <2>1, OparamCodec
<1>5. IsParams(m)
  <2>1. PICK T \in SUBSET U16s : obj.oparam \in [T -> Short]
    BY <1>4 DEF IsParams
  <2>2. m \in [T \cup {tag} -> Short] /\ T \cup {tag} \in SUBSET U16s
    BY <1>1, <1>2, <2>1 DEF WithParam
  <2> QED BY <2>2 DEF IsParams
<1>6. Typed(pdu, [obj EXCEPT !["oparam"] = m])
  <2>1. Holds(CodecOf(pdu, "oparam"), m)
    BY <1>3, <1>5, OparamMember, OparamCodec
  <2> QED BY <1>3, <2>1, Changed
<1>7. Edit([obj EXCEPT !["oparam"] = m])
  BY <1>1 DEF SetParam
<1>8. PICK new : new = [obj EXCEPT !["oparam"] = m]
  OBVIOUS
<1>9. Edited /\ obj' = new
  BY <1>7, <1>8, EditIs
<1> QED BY <1>6, <1>8, <1>9, CInvEdited

\* oparam::erase keeps it.
LEMMA CInvErase ==
  ASSUME CInv, NEW tag, Erase(tag) PROVE CInv'
<1>1. PICK m : m = [t \in DOMAIN obj.oparam \ {tag} |-> obj.oparam[t]]
  OBVIOUS
<1>3. "oparam" \in Members(pdu) /\ pdu \in Pdus /\ Typed(pdu, obj)
  BY DEF Erase, CInv, Types
<1>4. IsParams(obj.oparam)
  <2>1. Holds(oparam, obj.oparam)
    BY <1>3, OparamMember DEF Typed
  <2> QED BY <2>1, OparamCodec
<1>5. IsParams(m)
  <2>1. PICK T \in SUBSET U16s : obj.oparam \in [T -> Short]
    BY <1>4 DEF IsParams
  <2>2. m \in [T \ {tag} -> Short] /\ T \ {tag} \in SUBSET U16s
    BY <1>1, <2>1
  <2> QED BY <2>2 DEF IsParams
<1>6. Typed(pdu, [obj EXCEPT !["oparam"] = m])
  <2>1. Holds(CodecOf(pdu, "oparam"), m)
    BY <1>3, <1>5, OparamMember, OparamCodec
  <2> QED BY <1>3, <2>1, Changed
<1>7. Edit([obj EXCEPT !["oparam"] = m])
  BY <1>1 DEF Erase
<1>8. PICK new : new = [obj EXCEPT !["oparam"] = m]
  OBVIOUS
<1>9. Edited /\ obj' = new
  BY <1>7, <1>8, EditIs
<1> QED BY <1>6, <1>8, <1>9, CInvEdited

\* serialize_header writes as much of command_length as its bytes say.
LEMMA HeaderLength ==
  ASSUME NEW a, NEW b, SerializeU32(a) = SerializeU32(b), NEW id, NEW status, NEW n
  PROVE  SerializeHeader(HeaderOf(a, id, status, n))
           = SerializeHeader(HeaderOf(b, id, status, n))
<1>1. PICK c, d, e : /\ c = SerializeU32(id) /\ d = SerializeU32(status)
                     /\ e = SerializeU32(n)
  OBVIOUS
<1>2. /\ SerializeHeader(HeaderOf(a, id, status, n)) = SerializeU32(a) \o c \o d \o e
      /\ SerializeHeader(HeaderOf(b, id, status, n)) = SerializeU32(b) \o c \o d \o e
  BY <1>1 DEF SerializeHeader, HeaderOf
<1> QED BY <1>2

\* serialize_to writes bytes.
LEMMA SerializedBytes ==
  ASSUME NEW p \in Pdus, NEW o, Typed(p, o), CanSerialize(p, o)
  PROVE  SerializeTo(p, o) \in Seq(Byte)
<1>1. PICK n \in Nat : Formed(p, n)
  BY PduFormed
<1>2. Parts(p, o) \in Seq(Seq(Byte)) /\ SerializeTo(p, o) = FlattenSeq(Parts(p, o))
  BY <1>1, PartsAre
<1> QED BY <1>2, FlattenType

\* async_send keeps it: the header tells the length of what serialize_to wrote, and a
\* PDU that has been received is not refused.
LEMMA CInvAsyncSend ==
  ASSUME CInv, NEW num \in Numbers, NEW status \in Statuses, AsyncSend(num, status)
  PROVE  CInv'
<1>1. /\ phase = "edit" /\ damage = "none" /\ pdu \in Pdus /\ Typed(pdu, obj)
      /\ pdu' = pdu /\ obj' = obj /\ edits' = edits /\ got' = got
      /\ damage' = damage /\ hops' = hops /\ hops \in {0, 1} /\ body \in Seq(Byte)
  BY DEF AsyncSend, CInv, Types
<1>2. num \in Words /\ status \in Words
  BY FrameCodecAssumption DEF Words
<1>3. CASE CanSerialize(pdu, obj)
  <2>1. /\ phase' = "sent"
        /\ header' = SerializeHeader(Header(num, status))
        /\ body' = SerializeTo(pdu, obj)
        /\ sent' = [header |-> Header(num, status), obj |-> obj]
    BY <1>3 DEF AsyncSend
  <2>2. PICK b \in Seq(Byte) : b = SerializeTo(pdu, obj)
    BY <1>1, <1>3, SerializedBytes
  <2>3. PICK w \in Words : /\ SerializeU32(U32(16 + Len(b))) = SerializeU32(w)
                           /\ Number(w) \in Nat /\ Number(w) <= 16 + Len(b)
                           /\ Fits(b) => w = U32(16 + Len(b)) /\ Number(w) = 16 + Len(b)
    <3>1. 16 + Len(b) \in Nat
      BY LenProperties
    <3> QED BY <3>1, LengthWraps DEF Fits
  <2>4. Header(num, status) = HeaderOf(U32(16 + Len(b)), pdu.command_id, status, num)
    BY <2>2 DEF Header, HeaderOf
  <2>5. SerializeHeader(Header(num, status))
          = SerializeHeader(HeaderOf(w, pdu.command_id, status, num))
    BY <2>3, <2>4, HeaderLength
  <2>6. HeaderSent(pdu, obj, b, header', sent')
    BY <1>2, <2>1, <2>2, <2>3, <2>4, <2>5 DEF HeaderSent
  <2>7. BodySent(pdu, obj, b, "none")
    BY <2>2 DEF BodySent
  <2>8. Types'
    BY <1>1, <2>1, <2>2 DEF Types, OnTheWay
  <2>9. Forwards'
    BY <1>1, <1>3, <2>1 DEF CInv, Forwards
  <2>10. Sends'
    BY <1>1, <1>3, <2>1, <2>2, <2>6, <2>7 DEF Sends
  <2>11. Receives'
    BY <2>1 DEF Receives
  <2> QED BY <2>8, <2>9, <2>10, <2>11 DEF CInv
<1>4. CASE ~CanSerialize(pdu, obj)
  <2>1. /\ phase' = "serialization_failed"
        /\ header' = header /\ body' = body /\ sent' = sent
    BY <1>4 DEF AsyncSend
  <2>2. hops = 0
    BY <1>1, <1>4 DEF CInv, Forwards
  <2> QED BY <1>1, <2>1, <2>2 DEF CInv, Types, Forwards, Sends, Receives, OnTheWay
<1> QED BY <1>3, <1>4

\* Whatever the body that arrives instead, it keeps it.
LEMMA CInvArrives ==
  ASSUME CInv, NEW b \in Seq(Byte), NEW how, Arrives(b, how),
         how = "cut" => \E x \in Seq(Byte) : b \o x = body
  PROVE  CInv'
<1>1. /\ phase = "sent" /\ phase' = "sent" /\ damage = "none" /\ damage' = how
      /\ hops = 0 /\ hops' = 0 /\ how \in {"cut", "alter", "extend"}
      /\ pdu' = pdu /\ obj' = obj /\ edits' = edits /\ sent' = sent
      /\ pdu \in Pdus /\ Typed(pdu, obj)
      /\ body' = b
      /\ header' = SerializeU32(U32(16 + Len(b))) \o SubSeq(header, 5, 16)
  BY FrameCodecAssumption DEF Arrives, CInv, Types
<1>2. /\ CanSerialize(pdu, obj) /\ HeaderSent(pdu, obj, body, header, sent)
      /\ body = SerializeTo(pdu, obj)
  BY <1>1 DEF CInv, Sends, OnTheWay, BodySent
<1>3. PICK status \in Words, n \in Words, w \in Words :
        /\ sent = [header |-> HeaderOf(U32(16 + Len(SerializeTo(pdu, obj))),
                                       pdu.command_id, status, n),
                   obj |-> obj]
        /\ header = SerializeHeader(HeaderOf(w, pdu.command_id, status, n))
  BY <1>2 DEF HeaderSent
<1>4. PICK v \in Words : /\ SerializeU32(U32(16 + Len(b))) = SerializeU32(v)
                         /\ Number(v) \in Nat /\ Number(v) <= 16 + Len(b)
                         /\ Fits(b) => v = U32(16 + Len(b)) /\ Number(v) = 16 + Len(b)
  <2>1. 16 + Len(b) \in Nat
    BY LenProperties
  <2> QED BY <2>1, LengthWraps DEF Fits
<1>5. pdu.command_id \in Words
  BY <1>1, PduFormed
<1>6. header' = SerializeHeader(HeaderOf(v, pdu.command_id, status, n))
  <2>1. SerializeU32(v) \o SubSeq(header, 5, 16)
          = SerializeHeader(HeaderOf(v, pdu.command_id, status, n))
    <3>1. PICK id \in Words : \E buf : /\ buf = header /\ id = pdu.command_id
                                   /\ buf = SerializeHeader(HeaderOf(w, id, status, n))
      BY <1>3, <1>5
    <3>3. PICK buf : /\ buf = header /\ id = pdu.command_id
                     /\ buf = SerializeHeader(HeaderOf(w, id, status, n))
      BY <3>1
    <3>2. Relengthed(buf, v, id, status, n)
      BY <3>3, HeaderChanged
    <3> QED BY <3>2, <3>3 DEF Relengthed
  <2> QED BY <1>1, <1>4, <2>1
<1>7. HeaderSent(pdu, obj, b, header', sent')
  BY <1>1, <1>3, <1>4, <1>6 DEF HeaderSent
<1>8. BodySent(pdu, obj, b, how)
  BY <1>1, <1>2 DEF BodySent
<1>9. Types'
  BY <1>1 DEF Types, OnTheWay
<1>10. Forwards'
  BY <1>1 DEF Forwards
<1>11. Sends'
  BY <1>1, <1>2, <1>7, <1>8 DEF Sends
<1>12. Receives'
  BY <1>1 DEF Receives
<1> QED BY <1>9, <1>10, <1>11, <1>12 DEF CInv

\* A body that ends too early keeps it.
LEMMA CInvCut ==
  ASSUME CInv, Cut PROVE CInv'
<1>1. PICK n \in 0..Len(body) - 1 : Arrives(SubSeq(body, 1, n), "cut")
  BY DEF Cut
<1>2. body \in Seq(Byte) /\ Len(body) \in Nat
  BY LenProperties DEF CInv, Types
<1>3. PICK b, x : b = SubSeq(body, 1, n) /\ x = SubSeq(body, n + 1, Len(body))
  OBVIOUS
<1>4. /\ n \in Int /\ 1 \in 1..Len(body) + 1 /\ 1 <= n + 1 /\ n <= Len(body)
      /\ n + 1 \in 1..Len(body) + 1
      /\ n \in 1 - 1..Len(body) /\ Len(body) \in n..Len(body)
  BY <1>2
<1>5. b \in Seq(Byte) /\ x \in Seq(Byte)
  BY <1>2, <1>3, <1>4, SubSeqBytes, From
<1>6. b \o x = body
  <2>1. b \o x = SubSeq(body, 1, Len(body))
    BY <1>2, <1>3, <1>4, ConcatAdjacentSubSeq
  <2> QED BY <1>2, <2>1, SubSeqFull
<1>7. Arrives(b, "cut")
  BY <1>1, <1>3
<1> QED BY <1>5, <1>6, <1>7, CInvArrives

\* A body with another byte keeps it.
LEMMA CInvAlter ==
  ASSUME CInv, Alter PROVE CInv'
<1>1. PICK i \in DOMAIN body, o \in Octets : Arrives([body EXCEPT ![i] = o], "alter")
  BY DEF Alter
<1>2. PICK b : b = [body EXCEPT ![i] = o]
  OBVIOUS
<1>3. b \in Seq(Byte)
  <2>1. body \in Seq(Byte) /\ o \in Byte
    BY FrameCodecAssumption DEF CInv, Types
  <2> QED BY <1>2, <2>1, ExceptSeq
<1>4. Arrives(b, "alter")
  BY <1>1, <1>2
<1> QED BY <1>3, <1>4, CInvArrives

\* A longer body keeps it.
LEMMA CInvExtend ==
  ASSUME CInv, Extend PROVE CInv'
<1>1. PICK t \in Tails : Arrives(body \o t, "extend")
  BY DEF Extend
<1>2. PICK b : b = body \o t
  OBVIOUS
<1>3. b \in Seq(Byte)
  <2>1. body \in Seq(Byte) /\ t \in Seq(Byte)
    BY FrameCodecAssumption DEF CInv, Types
  <2> QED BY <1>2, <2>1, ConcatProperties
<1>4. Arrives(b, "extend")
  BY <1>1, <1>2
<1> QED BY <1>3, <1>4, CInvArrives

\* receive_op keeps it: it finds the type by the command_id and deserializes the bytes
\* that command_length delimits.
LEMMA CInvReceive ==
  ASSUME CInv, Receive PROVE CInv'
<1>1. /\ phase = "sent" /\ pdu \in Pdus /\ Typed(pdu, obj) /\ body \in Seq(Byte)
      /\ CanSerialize(pdu, obj) /\ HeaderSent(pdu, obj, body, header, sent)
      /\ BodySent(pdu, obj, body, damage) /\ hops \in {0, 1}
  BY DEF Receive, CInv, Types, Sends, OnTheWay
<1>2. PICK status \in Words, n \in Words, w \in Words :
        /\ sent = [header |-> HeaderOf(U32(16 + Len(SerializeTo(pdu, obj))),
                                       pdu.command_id, status, n),
                   obj |-> obj]
        /\ header = SerializeHeader(HeaderOf(w, pdu.command_id, status, n))
        /\ Number(w) \in Nat /\ Number(w) <= 16 + Len(body)
        /\ Fits(body) => w = U32(16 + Len(body)) /\ Number(w) = 16 + Len(body)
  BY <1>1 DEF HeaderSent
<1>3. pdu.command_id \in Words /\ TypeOf(pdu.command_id) = pdu
  BY <1>1, PduFormed
<1>4. PICK h, length : h = DeserializeHeader(header) /\ length = Number(w)
  OBVIOUS
<1>5. /\ h = HeaderOf(w, pdu.command_id, status, n)
      /\ h.command_length = w /\ h.command_id = pdu.command_id
  BY <1>2, <1>3, <1>4, HeaderRead
<1>6. PICK b, r : b = SubSeq(body, 1, length - 16) /\ r = Deserialize(pdu, b)
  OBVIOUS
<1>7. /\ IF r.ok
         THEN phase' = "received" /\ got' = [header |-> h, obj |-> r.val] /\ pdu' = pdu
         ELSE phase' = "invalid_pdu" /\ got' = [header |-> h, obj |-> <<>>] /\ pdu' = pdu
      /\ obj' = obj /\ edits' = edits /\ body' = body /\ header' = header
      /\ sent' = sent /\ damage' = damage /\ hops' = hops
  <2>1. length = h.command_length[1] * 65536 + h.command_length[2]
    BY <1>4, <1>5 DEF Number
  <2>2. TypeOf(h.command_id) = pdu
    BY <1>3, <1>5
  <2> QED BY <1>4, <1>6, <2>1, <2>2 DEF Receive
<1>8. b \in Seq(Byte)
  <2>1. Len(body) \in Nat
    BY <1>1, LenProperties
  <2>2. CASE length - 16 >= 0
    <3>1. PICK l \in Nat : l = length - 16 /\ l <= Len(body)
      BY <1>2, <1>4, <2>1, <2>2
    <3>2. l \in Int /\ 1 \in 1..Len(body) + 1 /\ 1 <= l + 1
      BY <2>1
    <3>3. b = SubSeq(body, 1, l)
      BY <1>6, <3>1
    <3> QED BY <1>1, <3>1, <3>2, <3>3, SubSeqBytes
  <2>3. CASE ~(length - 16 >= 0)
    <3>1. PICK l \in Int : l = length - 16 /\ l < 0
      BY <1>2, <1>4, <2>3
    <3>2. b = <<>>
      BY <1>6, <3>1, SubSeqEmpty
    <3> QED BY <3>2
  <2> QED BY <2>2, <2>3
<1>9. ASSUME Fits(body)
      PROVE  b = body /\ h = HeaderOf(U32(16 + Len(body)), pdu.command_id, status, n)
  <2>1. length - 16 = Len(body)
    BY <1>1, <1>2, <1>4, <1>9, LenProperties
  <2> QED BY <1>1, <1>2, <1>5, <1>6, <1>9, <2>1, SubSeqFull
<1>10. Types' /\ Forwards' /\ Sends'
  BY <1>1, <1>7 DEF CInv, Types, Forwards, Sends, OnTheWay
<1>11. CASE r.ok
  <2>1. phase' = "received" /\ got' = [header |-> h, obj |-> r.val]
    BY <1>7, <1>11
  <2>2. PICK k \in Nat : Formed(pdu, k)
    BY <1>1, PduFormed
  <2>3. Typed(pdu, r.val) /\ CanSerialize(pdu, r.val)
    BY <1>6, <1>8, <1>11, <2>2, DeserializeType
  <2>4. PICK g, v : g = got' /\ v = r.val
    OBVIOUS
  <2>5. g = [header |-> h, obj |-> v] /\ g.obj = v
    BY <2>1, <2>4
  <2>6. ASSUME Fits(body) PROVE Delivered(pdu, body, sent, damage, g)
    <3>1. r = Deserialize(pdu, body)
      BY <1>6, <1>9, <2>6
    <3>2. damage = "none" => h = sent.header
      <4>1. sent.header = HeaderOf(U32(16 + Len(SerializeTo(pdu, obj))),
                                   pdu.command_id, status, n)
        BY <1>2
      <4> QED BY <1>1, <1>9, <2>6, <4>1 DEF BodySent
    <3> QED BY <1>11, <2>4, <2>5, <3>1, <3>2 DEF Delivered
  <2>7. Receives'
    BY <1>7, <1>11, <2>1, <2>3, <2>4, <2>5, <2>6 DEF Receives
  <2> QED BY <1>10, <2>7 DEF CInv
<1>12. CASE ~r.ok
  <2>1. phase' = "invalid_pdu" /\ pdu' = pdu /\ body' = body
    BY <1>7, <1>12
  <2>2. Fits(body) => ~Deserialize(pdu, body).ok
    BY <1>6, <1>9, <1>12
  <2>3. Receives'
    BY <2>1, <2>2 DEF Receives
  <2> QED BY <1>10, <2>3 DEF CInv
<1> QED BY <1>11, <1>12

\* A gateway that sends what it has received keeps it.
LEMMA CInvForward ==
  ASSUME CInv, Forward PROVE CInv'
BY DEF CInv, Types, Forwards, Sends, Receives, OnTheWay, Forward

\* Every step keeps it.
LEMMA CInvNext == CInv /\ [Next]_vars => CInv'
<1> SUFFICES ASSUME CInv, [Next]_vars PROVE CInv'
  OBVIOUS
<1>1. CASE UNCHANGED vars
  BY <1>1 DEF vars, CInv, Types, Forwards, Sends, Receives
<1>2. ASSUME NEW m \in Members(pdu), Assign(m) PROVE CInv'
  BY <1>2, CInvAssign
<1>3. ASSUME NEW q \in Params, SetParam(q[1], q[2]) \/ Erase(q[1]) PROVE CInv'
  BY <1>3, CInvSetParam, CInvErase
<1>4. ASSUME NEW n \in Numbers, NEW status \in Statuses, AsyncSend(n, status) PROVE CInv'
  BY <1>4, CInvAsyncSend
<1> QED BY <1>1, <1>2, <1>3, <1>4, CInvCut, CInvAlter, CInvExtend, CInvReceive,
           CInvForward DEF Next

\* The invariant of async_send and receive_op: the header tells the length of the body,
\* the body is what serialize_to wrote unless it was changed on the way, and what is
\* delivered is what deserialize returns of it, an object that can be sent.
THEOREM CInvHolds == Spec => []CInv
BY CInvInit, CInvNext, PTL DEF Spec

\* NullFree, by the positions of the members.
LEMMA NullsAre ==
  ASSUME NEW p, NEW n \in Nat, Formed(p, n), NEW o, NullFree(p, o)
  PROVE  NoNulls(p, n, o)
BY PositionIs DEF NullFree, NoNulls, NoNull

\* What async_send accepts, receive_op of the other end delivers: the same header and
\* the same members, for every PDU, every value of its members and any set of optional
\* parameters, as long as the length of the frame is a number of 32 bits.
THEOREM RoundTripHolds == Spec => [](Fits(body) => RoundTrip)
<1>1. CInv => (Fits(body) => RoundTrip)
  <2> SUFFICES ASSUME CInv, Fits(body), phase \in {"received", "invalid_pdu"},
                      damage = "none", NullFree(pdu, sent.obj)
               PROVE  phase = "received" /\ got = sent
    BY DEF RoundTrip
  <2>1. /\ pdu \in Pdus /\ Typed(pdu, obj) /\ body \in Seq(Byte)
        /\ CanSerialize(pdu, obj) /\ body = SerializeTo(pdu, obj)
        /\ HeaderSent(pdu, obj, body, header, sent)
    BY DEF CInv, Types, Sends, OnTheWay, BodySent
  <2>2. PICK hd : sent = [header |-> hd, obj |-> obj] /\ sent.header = hd /\ sent.obj = obj
    BY <2>1 DEF HeaderSent
  <2>3. PICK n \in Nat : Formed(pdu, n)
    BY <2>1, PduFormed
  <2>4. NoNulls(pdu, n, obj)
    BY <2>2, <2>3, NullsAre
  <2>5. PICK r : r = Deserialize(pdu, body)
    OBVIOUS
  <2>6. r.ok /\ r.val = obj
    <3>0. <<>> \in Seq(Byte)
      OBVIOUS
    <3>1. PICK x \in Seq(Byte) : x = <<>>
      BY <3>0
    <3>2. body \o x = SerializeTo(pdu, obj)
      BY <2>1, <3>1, ConcatEmptySeq
    <3>3. ReadBack(pdu, obj, x, body, r)
      BY <2>1, <2>3, <2>4, <2>5, <3>2, DeserializeCut
    <3> QED BY <3>1, <3>3 DEF ReadBack
  <2>7. phase = "received"
    BY <2>5, <2>6 DEF CInv, Receives
  <2>8. Delivered(pdu, body, sent, "none", got)
    BY <2>7 DEF CInv, Receives
  <2> QED BY <2>2, <2>5, <2>6, <2>7, <2>8 DEF Delivered
<1> QED BY <1>1, CInvHolds, PTL

\* receive_op does not deliver a body that ends too early, unless it is empty or all
\* it has lost are optional parameters: deserialize fills no member from beyond it.
THEOREM TruncationDetectedHolds == Spec => [](Fits(body) => TruncationDetected)
<1>1. CInv => (Fits(body) => TruncationDetected)
  <2> SUFFICES ASSUME CInv, Fits(body), phase = "received", damage = "cut",
                      body # <<>>, NullFree(pdu, sent.obj)
               PROVE  Kept(pdu, sent.obj, got.obj)
    BY DEF TruncationDetected, Kept, PartOf
  <2>1. /\ pdu \in Pdus /\ Typed(pdu, obj) /\ body \in Seq(Byte)
        /\ CanSerialize(pdu, obj)
        /\ HeaderSent(pdu, obj, body, header, sent)
    BY DEF CInv, Types, Sends, OnTheWay
  <2>2. sent.obj = obj
    BY <2>1 DEF HeaderSent
  <2>3. PICK n \in Nat : Formed(pdu, n)
    BY <2>1, PduFormed
  <2>4. NoNulls(pdu, n, obj)
    BY <2>2, <2>3, NullsAre
  <2>5. PICK r : r = Deserialize(pdu, body)
    OBVIOUS
  <2>6. PICK x \in Seq(Byte) : body \o x = SerializeTo(pdu, obj)
    BY DEF CInv, Sends, OnTheWay, BodySent
  <2>7. r.ok /\ got.obj = r.val
    BY <2>5 DEF CInv, Receives, Delivered
  <2>8. Kept(pdu, obj, r.val)
    <3>1. ReadBack(pdu, obj, x, body, r)
      BY <2>1, <2>3, <2>4, <2>5, <2>6, DeserializeCut
    <3> QED BY <2>7, <3>1 DEF ReadBack
  <2> QED BY <2>2, <2>7, <2>8
<1> QED BY <1>1, CInvHolds, PTL

\* async_send does not refuse what receive_op has delivered, whatever the body was:
\* deserialize has no wider limits than serialize_to.
THEOREM ReceivedIsSendableHolds == Spec => []ReceivedIsSendable
<1>1. CInv => ReceivedIsSendable
  BY DEF CInv, Forwards, ReceivedIsSendable
<1> QED BY <1>1, CInvHolds, PTL
=============================================================================
