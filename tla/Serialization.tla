---------------------------- MODULE Serialization ----------------------------
(***************************************************************************)
(* The field codecs of PDUs (common/serialization.hpp, param/oparam.hpp,   *)
(* param/esm_class.hpp, param/registered_delivery.hpp) and the frame       *)
(* header (net/detail/header_serialization.hpp), as functions between      *)
(* values and sequences of bytes.                                          *)
(*                                                                         *)
(* A deserializer takes what it needs from the front of the buffer, which  *)
(* it is given by pointer, or throws.                                      *)
(***************************************************************************)
EXTENDS Integers, Sequences, SequencesExt

Byte == 0..255
U16s == {n \in Nat : n < 65536}
U16(n) == <<n \div 256 % 256, n % 256>>

\* The codecs.  max is MAXLEN.
c_octet_str(n)      == [kind |-> "c_octet_str", max |-> n]
u8_octet_str(n)     == [kind |-> "u8_octet_str", max |-> n]
u8                  == [kind |-> "u8", max |-> 1]     \* also enum_u8
esm_class           == [kind |-> "esm_class", max |-> 1]
registered_delivery == [kind |-> "registered_delivery", max |-> 1]
oparam              == [kind |-> "oparam", max |-> 0]

\* What a deserializer returns and leaves of its buffer.
Thrown == [ok |-> FALSE, val |-> <<>>, rest |-> <<>>]
Taken(val, n, buf) ==
  [ok |-> TRUE, val |-> val, rest |-> SubSeq(buf, n + 1, Len(buf))]
-----------------------------------------------------------------------------
(* Single bytes. *)

DeserializeU8(buf) == IF buf = <<>> THEN Thrown ELSE Taken(buf[1], 1, buf)

\* from_u8: the bits that three masks select, as the three members.
EsmClassFromU8(v) == <<v % 4, (v \div 4 % 16) * 4, (v \div 64) * 64>>
RegisteredDeliveryFromU8(v) == <<v % 4, (v \div 4 % 4) * 4, (v \div 16 % 2) * 16>>

\* operator uint8_t: the members share no bit, so that "or" adds them.
FlagsToU8(v) == v[1] + v[2] + v[3]

FromU8(c, b) ==
  IF c.kind = "esm_class" THEN EsmClassFromU8(b) ELSE RegisteredDeliveryFromU8(b)
DeserializeFlags(c, buf) ==
  IF buf = <<>> THEN Thrown ELSE Taken(FromU8(c, buf[1]), 1, buf)
-----------------------------------------------------------------------------
(* Strings. *)

SerializeCOctetStr(v) == Append(v, 0)

\* The bytes before the first null character, which must be fewer than max.
DeserializeCOctetStrTooLong(buf, max) ==
  LET nulls == {i \in DOMAIN buf : buf[i] = 0}
  IN  IF nulls = {} THEN Thrown
      ELSE LET n == Min(nulls) - 1
           IN  IF n > max THEN Thrown
               ELSE Taken(SubSeq(buf, 1, n), n + 1, buf)
DeserializeCOctetStr(buf, max) ==
  LET nulls == {i \in DOMAIN buf : buf[i] = 0}
  IN  IF nulls = {} THEN Thrown
      ELSE LET n == Min(nulls) - 1
           IN  IF n >= max THEN Thrown
               ELSE Taken(SubSeq(buf, 1, n), n + 1, buf)

SerializeU8OctetStr(v) == <<Len(v) % 256>> \o v

\* As many bytes as the first one says.
DeserializeU8OctetStrUnchecked(buf, max) ==
  IF buf = <<>> THEN Thrown
  ELSE LET n == Min({buf[1], Len(buf) - 1})
       IN  Taken(SubSeq(buf, 2, n + 1), n + 1, buf)
DeserializeU8OctetStr(buf, max) ==
  IF buf = <<>> \/ Len(buf) <= buf[1] \/ buf[1] > max THEN Thrown
  ELSE Taken(SubSeq(buf, 2, buf[1] + 1), buf[1] + 1, buf)
-----------------------------------------------------------------------------
(* Optional parameters: a map from tags to strings. *)

\* std::map keeps its keys in ascending order.
Ascending(S) ==
  CHOOSE s \in [1..Cardinality(S) -> S] :
    \A i, j \in DOMAIN s : i < j => s[i] < s[j]

\* serialize(): in the order of the tags.
SerializeOparam(m) ==
  LET tags == Ascending(DOMAIN m)
  IN  FlattenSeq([i \in DOMAIN tags |->
                    U16(tags[i]) \o U16(Len(m[tags[i]])) \o m[tags[i]]])

\* The loop of the constructor, from position i of buf on: the parameters it
\* meets, whether all of them fit, and where it stops, with less than a tag and
\* a length left.
Parameters(buf) ==
  LET loop[i \in 1..Len(buf) + 1] ==
        IF Len(buf) - i + 1 < 4
        THEN [ok |-> TRUE, params |-> <<>>, stop |-> i]
        ELSE LET tag    == buf[i] * 256 + buf[i + 1]
                 length == buf[i + 2] * 256 + buf[i + 3]
                 next   == i + 4 + length
             IN  IF next > Len(buf) + 1
                 THEN [ok |-> FALSE, params |-> <<>>, stop |-> i]
                 ELSE [loop[next] EXCEPT !.params =
                         <<[tag |-> tag, val |-> SubSeq(buf, i + 4, next - 1)]>>
                           \o @]
  IN  loop[1]

\* emplace keeps the first parameter with a tag.
DeserializeOparam(buf) ==
  LET p == Parameters(buf)
      tags == {p.params[i].tag : i \in DOMAIN p.params}
      first(t) == Min({i \in DOMAIN p.params : p.params[i].tag = t})
  IN  IF ~p.ok THEN Thrown
      ELSE Taken([t \in tags |-> p.params[first(t)].val], p.stop - 1, buf)
-----------------------------------------------------------------------------
(* Any field. *)

\* The lengths that serialize_to accepts.
AcceptsAnyOctetStr(c, v) == c.kind = "c_octet_str" => Len(v) < c.max
Accepts(c, v) ==
  /\ c.kind = "c_octet_str" => Len(v) < c.max
  /\ c.kind = "u8_octet_str" => Len(v) <= c.max

SerializeField(c, v) ==
  CASE c.kind = "c_octet_str"  -> SerializeCOctetStr(v)
    [] c.kind = "u8_octet_str" -> SerializeU8OctetStr(v)
    [] c.kind = "u8"           -> <<v>>
    [] c.kind = "oparam"       -> SerializeOparam(v)
    [] OTHER                   -> <<FlagsToU8(v)>>

DeserializeField(c, buf) ==
  CASE c.kind = "c_octet_str"  -> DeserializeCOctetStr(buf, c.max)
    [] c.kind = "u8_octet_str" -> DeserializeU8OctetStr(buf, c.max)
    [] c.kind = "u8"           -> DeserializeU8(buf)
    [] c.kind = "oparam"       -> DeserializeOparam(buf)
    [] OTHER                   -> DeserializeFlags(c, buf)
-----------------------------------------------------------------------------
(* The header.  A 32-bit number is a pair of 16-bit numbers. *)

U32(n) == <<n \div 65536, n % 65536>>
SerializeU32(p) == U16(p[1]) \o U16(p[2])
DeserializeU32(b) == <<b[1] * 256 + b[2], b[3] * 256 + b[4]>>

\* serialize_header, in the order of its calls of serialize_u32.
SerializeHeader(h) ==
  SerializeU32(h.command_length) \o SerializeU32(h.command_id)
    \o SerializeU32(h.command_status) \o SerializeU32(h.sequence_number)

DeserializeHeader(buf) ==
  [command_length  |-> DeserializeU32(SubSeq(buf, 1, 4)),
   command_id      |-> DeserializeU32(SubSeq(buf, 5, 8)),
   command_status  |-> DeserializeU32(SubSeq(buf, 9, 12)),
   sequence_number |-> DeserializeU32(SubSeq(buf, 13, 16))]
=============================================================================
