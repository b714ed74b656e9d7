---------------------------- MODULE MCFrameCodec ----------------------------
(* Instances of FrameCodec for TLC. *)
EXTENDS FrameCodec

Filled(n) == [i \in 1..n |-> 65]

\* Strings shorter than, at and beyond the limits, and with a null character.
MCValues(c) ==
  CASE c.kind = "c_octet_str"  -> {Filled(n) : n \in {c.max - 1, c.max} \ {0}}
                                    \cup {<<66, 0>>}
    [] c.kind = "u8_octet_str" -> {<<0, 67>>, Filled(254), Filled(256)}
    [] c.kind = "u8"           -> {255}
    [] c.kind = "esm_class"    -> {<<3, 60, 192>>}
    [] OTHER                   -> {<<2, 12, 16>>}

AllPdus == {pdu_variant[i] : i \in DOMAIN pdu_variant}
MCParams == {<<5, <<>>>>, <<5, <<7>>>>, <<1060, Filled(257)>>}
MCTails == {<<0, 5, 0>>, <<0, 5, 0, 1, 8>>, <<0, 5, 0, 9, 1>>}
MCNumbers == {<<32767, 65535>>}
MCStatuses == {<<0, 0>>, <<0, 258>>}
=============================================================================
