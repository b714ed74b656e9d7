------------------------------ MODULE Messages ------------------------------
(***************************************************************************)
(* The way of a short message: the application builds a user data header   *)
(* and a text, converts the text where the alphabet asks for it, packs both *)
(* into the short_message of a submit_sm or deliver_sm, and the other end  *)
(* unpacks them.  A gateway packs again what it has unpacked.  Other peers *)
(* send short messages that this library has not packed.                   *)
(*                                                                         *)
(* The application says in esm_class that there is a header exactly when   *)
(* there is one.                                                           *)
(***************************************************************************)
EXTENDS ShortMessages

CONSTANTS
  Builds,       \* what char is in the builds considered: signed or not
  Bodies,       \* the texts that the application sends
  Codings,      \* their data codings
  Parts,        \* the multi_part_data that it sets
  Sets,         \* how often it sets them
  Foreign       \* the short messages of other peers

ASSUME MessagesAssumption ==
  /\ Builds \subseteq BOOLEAN
  /\ \A text \in Bodies : text \in Seq(Byte)
  /\ Codings \subseteq Byte
  /\ Parts \subseteq [ref : U16s, number_of_parts : Byte, sequence_number : Byte]
  /\ Sets \in Nat
  /\ \A m \in Foreign : m \in Seq(Byte) /\ Len(m) <= 255

VARIABLES
  phase,          \* what happens to the message next
  char_signed,    \* char is a signed type
  headers,        \* headers_ of the application's user_data_header
  set,            \* the multi_part_data that the application has set in it
  body,           \* the text
  converted,      \* the text has been converted
  data_coding,
  esm_class_val,  \* esm_class of the PDU
  message,        \* short_message of the PDU
  unpacked,       \* what unpack_short_message has returned
  foreign,        \* the message is another peer's
  hops            \* how often it has been passed on

vars == <<phase, char_signed, headers, set, body, converted, data_coding,
          esm_class_val, message, unpacked, foreign, hops>>

Nothing == [headers |-> <<>>, body |-> <<>>]

Init ==
  /\ phase = "edit"
  /\ char_signed \in Builds
  /\ headers = <<>>
  /\ set = <<>>
  /\ body \in Bodies
  /\ converted = FALSE
  /\ data_coding \in Codings
  /\ esm_class_val = <<0, 0, 0>>
  /\ message = <<>>
  /\ unpacked = Nothing
  /\ foreign = FALSE
  /\ hops = 0
-----------------------------------------------------------------------------
(* The application. *)

SetParts(mpd) ==
  /\ phase = "edit"
  /\ Len(set) < Sets
  /\ headers' = SetMultiPartData(headers, mpd)
  /\ set' = Append(set, mpd)
  /\ UNCHANGED <<phase, char_signed, body, converted, data_coding,
                 esm_class_val, message, unpacked, foreign, hops>>

\* The body becomes UCS-2, in general data coding and once.
Converted(ucs2) ==
  /\ phase = "edit"
  /\ extract_unicode(data_coding) \notin {"ucs2", "binary"}
  /\ body' = ucs2
  /\ converted' = TRUE
  /\ data_coding' = 8
  /\ UNCHANGED <<phase, char_signed, headers, set, esm_class_val, message,
                 unpacked, foreign, hops>>
ConvertGsm   == Converted(convert_gsm_to_ucs2(body))
ConvertAscii == Converted(convert_ascii_to_ucs2(body))

Pack ==
  /\ phase = "edit"
  /\ IF CanPack(headers, body, data_coding)
     THEN /\ phase' = "sent"
          /\ message' = Packed(headers, body)
          /\ esm_class_val' = IF headers = <<>> THEN <<0, 0, 0>> ELSE <<0, 0, 64>>
     ELSE /\ phase' = "refused"
          /\ UNCHANGED <<message, esm_class_val>>
  /\ UNCHANGED <<char_signed, headers, set, body, converted, data_coding, unpacked,
                 foreign, hops>>

PeerSends(m, esm) ==
  /\ phase = "edit"
  /\ hops = 0 /\ set = <<>>
  /\ phase' = "sent"
  /\ message' = m
  /\ esm_class_val' = esm
  /\ foreign' = TRUE
  /\ UNCHANGED <<char_signed, headers, set, body, converted, data_coding, unpacked,
                 hops>>
-----------------------------------------------------------------------------
(* The other end. *)

\* The members of the PDU that have a part in it, over the wire.
Wire ==
  SerializeField(esm_class, esm_class_val)
    \o SerializeField(u8_octet_str(254), message)

Receive ==
  /\ phase = "sent"
  /\ LET e == DeserializeField(esm_class, Wire)
         m == DeserializeField(u8_octet_str(254), e.rest)
         u == UnpackShortMessage(e.val, data_coding, m.val)
     IN  IF m.ok /\ u.ok
         THEN /\ phase' = "received"
              /\ unpacked' = [headers |-> u.headers, body |-> u.body]
         ELSE /\ phase' = "rejected"
              /\ UNCHANGED unpacked
  /\ UNCHANGED <<char_signed, headers, set, body, converted, data_coding,
                 esm_class_val, message, foreign, hops>>

\* A gateway has the header and the body that it has received.
Forward ==
  /\ phase = "received"
  /\ hops = 0
  /\ phase' = "edit"
  /\ headers' = unpacked.headers
  /\ set' = <<>>
  /\ body' = unpacked.body
  /\ converted' = FALSE
  /\ foreign' = FALSE
  /\ hops' = 1
  /\ UNCHANGED <<char_signed, data_coding, esm_class_val, message, unpacked>>

Next ==
  \/ \E mpd \in Parts : SetParts(mpd)
  \/ ConvertGsm
  \/ ConvertAscii
  \/ Pack
  \/ \E m \in Foreign, gsm \in {0, 64, 128, 192} : PeerSends(m, <<0, 0, gsm>>)
  \/ Receive
  \/ Forward

Spec == Init /\ [][Next]_vars
-----------------------------------------------------------------------------
(* Properties. *)

\* What pack_short_message accepts, the other end unpacks: the same headers in
\* the same order and the same text.  The limits of both ends and of the PDU's
\* field agree, and no length is narrowed on the way.
MessageKept ==
  phase \in {"received", "rejected"} /\ ~foreign
  => phase = "received" /\ unpacked = [headers |-> headers, body |-> body]

\* get_multi_part_data at the other end returns the parts that were set; when they
\* were set more than once one of the settings, and never a mixture of two: all
\* of it, but the reference number only in builds where char is unsigned, or when
\* the low byte of the number is ASCII (set_multi_part_data, get_multi_part_data).
ReceivedParts == GetMultiPartData(unpacked.headers, char_signed)
OwnParts == phase = "received" /\ ~foreign /\ hops = 0 /\ set # <<>>
PartsKept ==
  OwnParts =>
    \E i \in DOMAIN set :
      /\ ReceivedParts.number_of_parts = set[i].number_of_parts
      /\ ReceivedParts.sequence_number = set[i].sequence_number
      /\ ~char_signed \/ set[i].ref % 256 < 128 => ReceivedParts.ref = set[i].ref

\* What multi_part_data says of concat_sm_ref_num_ (short_message.hpp:25, the
\* "Concatenated short message reference number"): the number that was set is
\* the number that is read.
ReferenceKept == OwnParts /\ Len(set) = 1 => ReceivedParts.ref = set[1].ref

\* Nothing of a message that is accepted gets lost, whoever has sent it: the
\* headers and the text make up the message, but for one byte at the end of the
\* header which is too short to be one.
NothingDropped ==
  phase = "received" /\ Uhdi(esm_class_val) =>
    LET udh  == SerializeUdh(unpacked.headers)
        kept == udh \o unpacked.body
    IN  /\ Len(message) - Len(kept) \in {1, 2}
        /\ SubSeq(message, 2, Len(udh) + 1) = udh
        /\ SubSeq(message, Len(message) - Len(unpacked.body) + 1, Len(message))
             = unpacked.body

\* A gateway can pack what it has unpacked, unless it adds to it or converts it:
\* no limit of unpack_short_message is wider than that of pack_short_message.
ForwardedFits ==
  hops = 1 /\ set = <<>> /\ ~converted => phase # "refused"

\* A text may be converted part by part, as it arrives: the loop carries nothing
\* from one part to the next unless a part ends in an escape.  And bytes that are
\* no septets make no difference, even between an escape and what it applies to.
ConvertedByParts ==
  phase = "edit" /\ ~converted /\ set = <<>> =>
    /\ convert_gsm_to_ucs2(body) = convert_gsm_to_ucs2(Septets(body))
    /\ \A k \in 0..Len(body) :
         LET head == SubSeq(body, 1, k)
             tail == SubSeq(body, k + 1, Len(body))
         IN  Septets(head) = <<>> \/ Last(Septets(head)) # Escape =>
               convert_gsm_to_ucs2(body) =
                 convert_gsm_to_ucs2(head) \o convert_gsm_to_ucs2(tail)
=============================================================================
