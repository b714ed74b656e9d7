---------------------------- MODULE ShortMessages ----------------------------
(***************************************************************************)
(* utility/short_message.hpp: the user data header, a list of tagged       *)
(* values in front of the text of a short message, and packing the two     *)
(* into the short_message of a PDU.                                        *)
(*                                                                         *)
(* A header is the sequence headers_ of pairs <<tag, val>>.  Chars are     *)
(* bytes; where the code widens a char, the sign that the build gives to   *)
(* char is a parameter.                                                    *)
(***************************************************************************)
EXTENDS Unicode

concatenated_sm_8bit_ref  == 0
concatenated_sm_16bit_ref == 8

\* multi_part_data
MultiPart(ref, parts, number) ==
  [ref |-> ref, number_of_parts |-> parts, sequence_number |-> number]

\* The constructor from a string: the headers that its loop meets, or thrown.
\* One last byte that is no whole header is left behind.
ParseUdhSkewed(buf) ==
  LET loop[i \in 1..Len(buf) + 1] ==
        IF Len(buf) - i + 1 < 2 THEN [ok |-> TRUE, headers |-> <<>>]
        ELSE LET val_length == buf[i + 1]
                 next       == i + 1 + val_length
             IN  IF val_length > Len(buf) - i - 1
                 THEN [ok |-> FALSE, headers |-> <<>>]
                 ELSE [loop[next] EXCEPT !.headers =
                         << <<buf[i], SubSeq(buf, i + 2, next)>> >> \o @]
  IN  loop[1]
ParseUdh(buf) ==
  LET loop[i \in 1..Len(buf) + 1] ==
        IF Len(buf) - i + 1 < 2 THEN [ok |-> TRUE, headers |-> <<>>]
        ELSE LET tag        == buf[i]
                 val_length == buf[i + 1]
                 next       == i + 2 + val_length
             IN  IF \/ val_length > Len(buf) - i - 1
                    \/ tag = concatenated_sm_8bit_ref /\ val_length # 3
                    \/ tag = concatenated_sm_16bit_ref /\ val_length # 4
                 THEN [ok |-> FALSE, headers |-> <<>>]
                 ELSE [loop[next] EXCEPT !.headers =
                         << <<tag, SubSeq(buf, i + 2, next - 1)>> >> \o @]
  IN  loop[1]

\* serialize(), which narrows the length of a value to a char.
SerializeUdh(headers) ==
  FlattenSeq([i \in DOMAIN headers |->
                <<headers[i][1], Len(headers[i][2]) % 256>> \o headers[i][2]])

\* set_multi_part_data adds a header; it does not look for one.
SetMultiPartDataSwapped(headers, mpd) ==
  Append(headers, <<concatenated_sm_8bit_ref,
                    <<mpd.ref % 256, mpd.sequence_number, mpd.number_of_parts>>>>)
SetMultiPartData(headers, mpd) ==
  Append(headers,
         IF mpd.ref > 255
         THEN <<concatenated_sm_16bit_ref,
                U16(mpd.ref) \o <<mpd.number_of_parts, mpd.sequence_number>>>>
         ELSE <<concatenated_sm_8bit_ref,
                <<mpd.ref, mpd.number_of_parts, mpd.sequence_number>>>>)

\* static_cast<uint16_t> of a char.
Widened(b, signed) == IF signed /\ b > 127 THEN 65280 + b ELSE b

\* The "or" of a high byte and a widened low byte, whose sign bits cover it.
Combined(hi, lo, signed) ==
  IF signed /\ lo > 127 THEN 65280 + lo ELSE hi * 256 + lo

\* get_multi_part_data: the first header with an 8-bit reference, else the first
\* with a 16-bit one, else a message of one part.
GetMultiPartData(headers, signed) ==
  LET with(tag) == {i \in DOMAIN headers : headers[i][1] = tag}
      first(tag) == headers[Min(with(tag))][2]
      b == first(concatenated_sm_8bit_ref)
      w == first(concatenated_sm_16bit_ref)
  IN  IF with(concatenated_sm_8bit_ref) # {}
      THEN MultiPart(Widened(b[1], signed), b[2], b[3])
      ELSE IF with(concatenated_sm_16bit_ref) # {}
      THEN MultiPart(Combined(w[1], w[2], signed), w[3], w[4])
      ELSE MultiPart(0, 1, 1)
-----------------------------------------------------------------------------
(* Packing. *)

Limit(data_coding) ==
  IF extract_unicode(data_coding) = "ascii_8_bit" THEN 160 ELSE 140

PackedAlways(headers, body) ==
  LET udh == SerializeUdh(headers)
  IN  <<Len(udh) % 256>> \o udh \o body
Packed(headers, body) ==
  LET udh == SerializeUdh(headers)
  IN  IF udh = <<>> THEN body ELSE <<Len(udh) % 256>> \o udh \o body

\* pack_short_message returns Packed or throws.
CanPackStrict(headers, body, data_coding) ==
  Len(Packed(headers, body)) < Limit(data_coding)
CanPack(headers, body, data_coding) ==
  Len(Packed(headers, body)) <= Limit(data_coding)

\* gsm_network_features == uhdi or both.
Uhdi(esm_class_value) == esm_class_value[3] \in {64, 192}

\* unpack_short_message.  short_message[0] of an empty string is 0.
UnpackShortMessage(esm_class_value, data_coding, short_message) ==
  LET udh_length == IF short_message = <<>> THEN 0 ELSE short_message[1]
      udh == ParseUdh(SubSeq(short_message, 2, udh_length + 1))
      rest == SubSeq(short_message, udh_length + 2, Len(short_message))
      thrown == [ok |-> FALSE, headers |-> <<>>, body |-> <<>>]
  IN  IF Len(short_message) > Limit(data_coding) THEN thrown
      ELSE IF ~Uhdi(esm_class_value)
      THEN [ok |-> TRUE, headers |-> <<>>, body |-> short_message]
      ELSE IF udh_length >= Len(short_message) \/ ~udh.ok THEN thrown
      ELSE [ok |-> TRUE, headers |-> udh.headers, body |-> rest]
=============================================================================
