-------------------------------- MODULE Pdus --------------------------------
(***************************************************************************)
(* The PDUs (include/smpp/pdu/): the members of each aggregate in the order *)
(* of their declaration, which is the order in which deserialize           *)
(* initializes them, and pdu_meta, the codecs of the members in the order  *)
(* of the wire.  serialize_to finds a member through its pointer, that is, *)
(* by its name.                                                            *)
(***************************************************************************)
EXTENDS Serialization

Request(n)  == <<0, n>>
Response(n) == <<32768, n>>

Pdu(command_id, members, meta) ==
  [command_id |-> command_id, members |-> members, meta |-> meta]

\* Three members that most PDUs have for an address.
Address(ton, npi, addr, max) ==
  << <<ton, u8>>, <<npi, u8>>, <<addr, c_octet_str(max)>> >>

alert_notification ==
  Pdu(Request(258),
      <<"source_addr_ton", "source_addr_npi", "source_addr",
        "esme_addr_ton", "esme_addr_npi", "esme_addr", "oparam">>,
      Address("source_addr_ton", "source_addr_npi", "source_addr", 65)
        \o Address("esme_addr_ton", "esme_addr_npi", "esme_addr", 65)
        \o << <<"oparam", oparam>> >>)

\* The three binds have the same members.
Bind(n) ==
  Pdu(Request(n),
      <<"system_id", "password", "system_type", "interface_version",
        "addr_ton", "addr_npi", "address_range">>,
      << <<"system_id", c_octet_str(16)>>, <<"password", c_octet_str(9)>>,
         <<"system_type", c_octet_str(13)>>, <<"interface_version", u8>> >>
        \o Address("addr_ton", "addr_npi", "address_range", 41))
bind_receiver    == Bind(1)
bind_transmitter == Bind(2)
bind_transceiver == Bind(9)

BindResp(n) ==
  Pdu(Response(n), <<"system_id", "oparam">>,
      << <<"system_id", c_octet_str(16)>>, <<"oparam", oparam>> >>)
bind_receiver_resp    == BindResp(1)
bind_transmitter_resp == BindResp(2)
bind_transceiver_resp == BindResp(9)

cancel_sm ==
  Pdu(Request(8),
      <<"service_type", "message_id", "source_addr_ton", "source_addr_npi",
        "source_addr", "dest_addr_ton", "dest_addr_npi", "dest_addr">>,
      << <<"service_type", c_octet_str(6)>>, <<"message_id", c_octet_str(65)>> >>
        \o Address("source_addr_ton", "source_addr_npi", "source_addr", 21)
        \o Address("dest_addr_ton", "dest_addr_npi", "dest_addr", 21))
cancel_sm_resp == Pdu(Response(8), <<>>, <<>>)

data_sm ==
  Pdu(Request(259),
      <<"service_type", "source_addr_ton", "source_addr_npi", "source_addr",
        "dest_addr_ton", "dest_addr_npi", "dest_addr", "esm_class",
        "registered_delivery", "data_coding", "oparam">>,
      << <<"service_type", c_octet_str(6)>> >>
        \o Address("source_addr_ton", "source_addr_npi", "source_addr", 65)
        \o Address("dest_addr_ton", "dest_addr_npi", "dest_addr", 65)
        \o << <<"esm_class", esm_class>>,
              <<"registered_delivery", registered_delivery>>,
              <<"data_coding", u8>>, <<"oparam", oparam>> >>)
data_sm_resp ==
  Pdu(Response(259), <<"message_id", "oparam">>,
      << <<"message_id", c_octet_str(65)>>, <<"oparam", oparam>> >>)

\* submit_sm and deliver_sm differ in the length of their times only.
Sm(n, times) ==
  Pdu(Request(n),
      <<"service_type", "source_addr_ton", "source_addr_npi", "source_addr",
        "dest_addr_ton", "dest_addr_npi", "dest_addr", "esm_class",
        "protocol_id", "priority_flag", "schedule_delivery_time",
        "validity_period", "registered_delivery", "replace_if_present_flag",
        "data_coding", "sm_default_msg_id", "short_message", "oparam">>,
      << <<"service_type", c_octet_str(6)>> >>
        \o Address("source_addr_ton", "source_addr_npi", "source_addr", 21)
        \o Address("dest_addr_ton", "dest_addr_npi", "dest_addr", 21)
        \o << <<"esm_class", esm_class>>, <<"protocol_id", u8>>,
              <<"priority_flag", u8>>,
              <<"schedule_delivery_time", c_octet_str(times)>>,
              <<"validity_period", c_octet_str(times)>>,
              <<"registered_delivery", registered_delivery>>,
              <<"replace_if_present_flag", u8>>, <<"data_coding", u8>>,
              <<"sm_default_msg_id", u8>>,
              <<"short_message", u8_octet_str(254)>>, <<"oparam", oparam>> >>)
submit_sm  == Sm(4, 17)
deliver_sm == Sm(5, 1)

MessageIdResp(n, max) ==
  Pdu(Response(n), <<"message_id">>, << <<"message_id", c_octet_str(max)>> >>)
submit_sm_resp  == MessageIdResp(4, 65)
deliver_sm_resp == MessageIdResp(5, 1)

generic_nack == Pdu(Response(0), <<>>, <<>>)

outbind ==
  Pdu(Request(11), <<"system_id", "password">>,
      << <<"system_id", c_octet_str(16)>>, <<"password", c_octet_str(9)>> >>)

query_sm ==
  Pdu(Request(3),
      <<"message_id", "source_addr_ton", "source_addr_npi", "source_addr">>,
      << <<"message_id", c_octet_str(65)>> >>
        \o Address("source_addr_ton", "source_addr_npi", "source_addr", 21))
query_sm_resp ==
  Pdu(Response(3),
      <<"message_id", "final_date", "message_state", "error_code">>,
      << <<"message_id", c_octet_str(65)>>, <<"final_date", c_octet_str(17)>>,
         <<"message_state", u8>>, <<"error_code", u8>> >>)

replace_sm ==
  Pdu(Request(7),
      <<"message_id", "source_addr_ton", "source_addr_npi", "source_addr",
        "schedule_delivery_time", "validity_period", "registered_delivery",
        "sm_default_msg_id", "short_message">>,
      << <<"message_id", c_octet_str(65)>> >>
        \o Address("source_addr_ton", "source_addr_npi", "source_addr", 21)
        \o << <<"schedule_delivery_time", c_octet_str(17)>>,
              <<"validity_period", c_octet_str(17)>>,
              <<"registered_delivery", registered_delivery>>,
              <<"sm_default_msg_id", u8>>,
              <<"short_message", u8_octet_str(254)>> >>)
replace_sm_resp == Pdu(Response(7), <<>>, <<>>)

\* pdu_variant: the alternatives, in the order in which receive_op tries them.
pdu_variant ==
  << alert_notification, bind_receiver, bind_receiver_resp, bind_transceiver,
     bind_transceiver_resp, bind_transmitter, bind_transmitter_resp, cancel_sm,
     cancel_sm_resp, data_sm, data_sm_resp, deliver_sm, deliver_sm_resp,
     generic_nack, outbind, query_sm, query_sm_resp, replace_sm, replace_sm_resp,
     submit_sm, submit_sm_resp >>
-----------------------------------------------------------------------------
\* The value of a member of a default-constructed PDU.
Initial(member, codec) ==
  IF member = "interface_version" THEN 52
  ELSE IF member = "message_state" THEN 7
  ELSE CASE codec.kind = "u8" -> 0
         [] codec.kind \in {"esm_class", "registered_delivery"} -> <<0, 0, 0>>
         [] OTHER -> <<>>    \* "" and no parameter

CodecOf(p, member) ==
  LET i == CHOOSE i \in DOMAIN p.meta : p.meta[i][1] = member
  IN  p.meta[i][2]

Members(p) == {p.members[i] : i \in DOMAIN p.members}

DefaultPdu(p) == [m \in Members(p) |-> Initial(m, CodecOf(p, m))]

\* serialize_to: field by field, unless a field throws.
CanSerialize(p, obj) ==
  \A i \in DOMAIN p.meta : Accepts(p.meta[i][2], obj[p.meta[i][1]])

SerializeTo(p, obj) ==
  FlattenSeq([i \in DOMAIN p.meta |->
                SerializeField(p.meta[i][2], obj[p.meta[i][1]])])

\* deserialize: a body that is empty stands for a default-constructed PDU; the
\* values of the fields initialize the members one after another.
Deserialize(p, buf) ==
  LET fields[i \in 0..Len(p.meta)] ==
        IF i = 0 THEN Taken(<<>>, 0, buf)
        ELSE LET acc == fields[i - 1]
                 r   == DeserializeField(p.meta[i][2], acc.rest)
             IN  IF ~acc.ok THEN acc ELSE [r EXCEPT !.val = Append(acc.val, @)]
      all == fields[Len(p.meta)]
      position(m) == CHOOSE i \in DOMAIN p.members : p.members[i] = m
  IN  IF buf = <<>> THEN Taken(DefaultPdu(p), 0, buf)
      ELSE IF ~all.ok THEN Thrown
      ELSE [all EXCEPT !.val = [m \in Members(p) |-> all.val[position(m)]]]
=============================================================================
