----------------------------- MODULE FrameCodec -----------------------------
(***************************************************************************)
(* The way of a PDU from one session to another: the application builds it, *)
(* async_send serializes it behind a header, and receive_op of the other   *)
(* end finds its type, deserializes it and delivers it, or an invalid_pdu. *)
(* An application that passes messages on (a gateway) may send what it has *)
(* received again.                                                         *)
(*                                                                         *)
(* Peers are written by others: the body that arrives need not be one that *)
(* this library has serialized.  Cut, Alter and Extend derive such bodies; *)
(* the header keeps telling the length of the body.                        *)
(***************************************************************************)
EXTENDS Pdus

CONSTANTS
  Pdus,         \* the PDUs that the application sends
  Values(_),    \* the values that it assigns to a member with a codec
  Params,       \* the optional parameters that it sets, <<tag, value>>
  Edits,        \* how often it changes the PDU
  Numbers,      \* sequence numbers, as pairs of 16-bit numbers
  Statuses,     \* statuses of responses
  Damages,      \* "cut", "alter", "extend": what other peers' bodies look like
  Octets,       \* the bytes that Alter writes
  Tails         \* what Extend appends

\* What the type of a member with a codec can hold.
IsValue(c, v) ==
  CASE c.kind \in {"c_octet_str", "u8_octet_str"} -> v \in Seq(Byte)
    [] c.kind = "u8" -> v \in Byte
    [] OTHER         -> \E b \in Byte : v = FromU8(c, b)

ASSUME FrameCodecAssumption ==
  /\ \A p \in Pdus : \E i \in DOMAIN pdu_variant : pdu_variant[i] = p
  /\ \A p \in Pdus : \A m \in Members(p) :
       LET c == CodecOf(p, m)
       IN  c.kind # "oparam" => \A v \in Values(c) : IsValue(c, v)
  /\ \A q \in Params : q[1] \in U16s /\ q[2] \in Seq(Byte)
  /\ Edits \in Nat
  /\ Numbers \subseteq U16s \X U16s
  /\ Statuses \subseteq U16s \X U16s
  /\ Damages \subseteq {"cut", "alter", "extend"}
  /\ Octets \subseteq Byte
  /\ \A t \in Tails : t \in Seq(Byte)

VARIABLES
  phase,     \* what happens to the PDU next
  pdu,       \* its type
  obj,       \* the application's object
  edits,     \* how often it has been changed
  body,      \* the body as it arrives
  header,    \* the bytes of the header
  sent,      \* the header's contents and the object that async_send was given
  got,       \* what async_receive has delivered
  damage,    \* what the body is to the one that was sent
  hops       \* how often the PDU has been passed on

vars == <<phase, pdu, obj, edits, body, header, sent, got, damage, hops>>

Nothing == [header |-> <<>>, obj |-> <<>>]

Init ==
  /\ phase = "edit"
  /\ pdu \in Pdus
  /\ obj = DefaultPdu(pdu)
  /\ edits = 0
  /\ body = <<>>
  /\ header = <<>>
  /\ sent = Nothing
  /\ got = Nothing
  /\ damage = "none"
  /\ hops = 0
-----------------------------------------------------------------------------
(* The application. *)

Edit(new) ==
  /\ phase = "edit"
  /\ edits < Edits
  /\ edits' = edits + 1
  /\ obj' = new
  /\ UNCHANGED <<phase, pdu, body, header, sent, got, damage, hops>>

Assign(m) ==
  /\ CodecOf(pdu, m).kind # "oparam"
  /\ \E v \in Values(CodecOf(pdu, m)) : Edit([obj EXCEPT ![m] = v])

WithParam(m, tag, val) ==
  [t \in DOMAIN m \cup {tag} |-> IF t = tag THEN val ELSE m[t]]

\* set_as_string, which throws when val has more than 65535 bytes, and
\* set_as_enum_u8, which sets a string of one byte.
SetParam(tag, val) ==
  /\ "oparam" \in Members(pdu)
  /\ Len(val) <= 65535
  /\ Edit([obj EXCEPT !.oparam = WithParam(@, tag, val)])

Erase(tag) ==
  /\ "oparam" \in Members(pdu)
  /\ tag \in DOMAIN obj.oparam
  /\ Edit([obj EXCEPT !.oparam = [t \in DOMAIN @ \ {tag} |-> @[t]]])
-----------------------------------------------------------------------------
(* async_send. *)

IsResponse(p) == p.command_id[1] >= 32768

Header(n, status) ==
  [command_length  |-> U32(16 + Len(SerializeTo(pdu, obj))),
   command_id      |-> pdu.command_id,
   command_status  |-> status,
   sequence_number |-> n]

\* A request has the status rok; the status of a response is given.
AsyncSend(n, status) ==
  /\ phase = "edit"
  /\ IsResponse(pdu) \/ status = <<0, 0>>
  /\ IF CanSerialize(pdu, obj)
     THEN /\ phase' = "sent"
          /\ header' = SerializeHeader(Header(n, status))
          /\ body' = SerializeTo(pdu, obj)
          /\ sent' = [header |-> Header(n, status), obj |-> obj]
     ELSE /\ phase' = "serialization_failed"
          /\ UNCHANGED <<header, body, sent>>
  /\ UNCHANGED <<pdu, obj, edits, got, damage, hops>>
-----------------------------------------------------------------------------
(* Bodies of other peers. *)

Arrives(b, how) ==
  /\ how \in Damages
  /\ phase = "sent" /\ damage = "none" /\ hops = 0
  /\ body' = b
  /\ header' = SerializeU32(U32(16 + Len(b))) \o SubSeq(header, 5, 16)
  /\ damage' = how
  /\ UNCHANGED <<phase, pdu, obj, edits, sent, got, hops>>

Cut == \E n \in 0..Len(body) - 1 : Arrives(SubSeq(body, 1, n), "cut")
Alter ==
  \E i \in DOMAIN body, b \in Octets : Arrives([body EXCEPT ![i] = b], "alter")
Extend == \E t \in Tails : Arrives(body \o t, "extend")
-----------------------------------------------------------------------------
(* receive_op, once the whole frame is in its buffer. *)

\* The alternative with the command_id of the header.
TypeOf(id) ==
  LET candidates == {i \in DOMAIN pdu_variant : pdu_variant[i].command_id = id}
  IN  pdu_variant[Min(candidates)]

Receive ==
  /\ phase = "sent"
  /\ LET h == DeserializeHeader(header)
         p == TypeOf(h.command_id)
         length == h.command_length[1] * 65536 + h.command_length[2]
         r == Deserialize(p, SubSeq(body, 1, length - 16))
     IN  IF r.ok
         THEN /\ phase' = "received"
              /\ got' = [header |-> h, obj |-> r.val]
              /\ pdu' = p
         ELSE /\ phase' = "invalid_pdu"
              /\ got' = [header |-> h, obj |-> <<>>]
              /\ UNCHANGED pdu
  /\ UNCHANGED <<obj, edits, body, header, sent, damage, hops>>

\* The application sends the object that it has received.
Forward ==
  /\ phase = "received" /\ hops = 0
  /\ phase' = "edit"
  /\ obj' = got.obj
  /\ edits' = Edits
  /\ damage' = "none"
  /\ hops' = 1
  /\ UNCHANGED <<pdu, body, header, sent, got>>

Next ==
  \/ \E m \in Members(pdu) : Assign(m)
  \/ \E q \in Params : SetParam(q[1], q[2]) \/ Erase(q[1])
  \/ \E n \in Numbers, status \in Statuses : AsyncSend(n, status)
  \/ Cut
  \/ Alter
  \/ Extend
  \/ Receive
  \/ Forward

Spec == Init /\ [][Next]_vars
-----------------------------------------------------------------------------
(* Properties. *)

\* A null character inside a string that is sent as a c_octet_str ends it early.
NullFree(p, o) ==
  \A m \in Members(p) :
    CodecOf(p, m).kind = "c_octet_str" => \A i \in DOMAIN o[m] : o[m][i] # 0

\* What async_send accepts the other end receives: the same type, number, status
\* and members, whichever members are set, up to the limits of their codecs.
\* Only null characters inside a c_octet_str are not preserved.
RoundTrip ==
  phase \in {"received", "invalid_pdu"} /\ damage = "none"
    /\ NullFree(pdu, sent.obj)
  => phase = "received" /\ got = sent

\* A body that ends too early is either rejected, or empty and taken for a
\* default-constructed PDU, or has lost optional parameters and nothing else: no
\* member is filled from beyond the body or from bytes of another member.
TruncationDetected ==
  phase = "received" /\ damage = "cut" /\ body # <<>> /\ NullFree(pdu, sent.obj)
  => \A m \in Members(pdu) :
       IF m = "oparam"
       THEN \A t \in DOMAIN got.obj.oparam :
              t \in DOMAIN sent.obj.oparam
                /\ got.obj.oparam[t] = sent.obj.oparam[t]
       ELSE got.obj[m] = sent.obj[m]

\* What has been received, from whichever peer, can be sent on: the limits of
\* deserialize are not wider than those of serialize_to.
ReceivedIsSendable == hops = 1 => phase # "serialization_failed"
=============================================================================
