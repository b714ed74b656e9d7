------------------------------- MODULE Unicode -------------------------------
(***************************************************************************)
(* The alphabets of short messages: what a data coding says about a text   *)
(* (utility/data_coding_unicode.hpp) and the conversions to UCS-2          *)
(* (utility/unicode_converter.hpp), whose characters are two bytes.        *)
(***************************************************************************)
EXTENDS Serialization

extract_unicode(data_coding) ==
  LET group    == data_coding \div 16
      alphabet == (data_coding % 16) \div 4    \* the bits of alphabet_mask
  IN  CASE group = 0 ->
             CASE data_coding \in {2, 4, 9, 10} -> "binary"
               [] data_coding = 8               -> "ucs2"
               [] OTHER                         -> "ascii_8_bit"
        [] group \in 1..7 /\ alphabet = 1          -> "binary"
        [] group \in 1..7 /\ alphabet = 2          -> "ucs2"
        [] group = 14                              -> "ucs2"
        [] group = 15 /\ alphabet % 2 = 1          -> "binary"
        [] OTHER                                   -> "ascii_7_bit"
-----------------------------------------------------------------------------
(* The conversion of septets. *)

Escape == 27

\* gsm_03_38_to_ucs2: mostly ASCII, with other characters at either end.
gsm_03_38_to_ucs2(septet) ==
  IF septet < 32
  THEN << 64, 163, 36, 165, 232, 233, 249, 236, 242, 231, 10, 216, 248, 13,
          197, 229, 916, 95, 934, 915, 923, 937, 928, 936, 931, 920, 926,
          160, 198, 230, 223, 201 >>[septet + 1]
  ELSE CASE septet = 36 -> 164
         [] septet = 64 -> 161
         [] septet \in 91..96   -> <<196, 214, 209, 220, 167, 191>>[septet - 90]
         [] septet \in 123..127 -> <<228, 246, 241, 252, 224>>[septet - 122]
         [] OTHER -> septet

\* extended_gsm_03_38_to_ucs2: a space where nothing is defined.
extended_gsm_03_38_to_ucs2(septet) ==
  LET defined == {<<10, 12>>, <<20, 94>>, <<40, 123>>, <<41, 125>>, <<47, 92>>,
                  <<60, 91>>, <<61, 126>>, <<62, 93>>, <<64, 124>>, <<101, 8364>>}
  IN  IF \E d \in defined : d[1] = septet
      THEN (CHOOSE d \in defined : d[1] = septet)[2] ELSE 32

\* One turn of the loop: bytes that are no septets are skipped, an escape marks
\* the septet that comes next.
ConvertSeptetForgetful(septet, extended) ==
  IF septet > 127 THEN [ucs2 |-> <<>>, extended |-> FALSE]
  ELSE IF ~extended /\ septet = Escape THEN [ucs2 |-> <<>>, extended |-> TRUE]
  ELSE [ucs2     |-> U16(IF extended THEN extended_gsm_03_38_to_ucs2(septet)
                                     ELSE gsm_03_38_to_ucs2(septet)),
        extended |-> FALSE]
ConvertSeptet(septet, extended) ==
  IF septet > 127 THEN [ucs2 |-> <<>>, extended |-> extended]
  ELSE IF ~extended /\ septet = Escape THEN [ucs2 |-> <<>>, extended |-> TRUE]
  ELSE [ucs2     |-> U16(IF extended THEN extended_gsm_03_38_to_ucs2(septet)
                                     ELSE gsm_03_38_to_ucs2(septet)),
        extended |-> FALSE]

\* What the loop does not skip.
Septets(s) == FlattenSeq([i \in DOMAIN s |-> IF s[i] <= 127 THEN <<s[i]>> ELSE <<>>])

\* What the loop appends from a byte of the body on, when an escape came before
\* it or not.
convert_gsm_to_ucs2(body) ==
  LET from[at \in (1..Len(body) + 1) \X BOOLEAN] ==
        IF at[1] > Len(body) THEN <<>>
        ELSE LET turn == ConvertSeptet(body[at[1]], at[2])
             IN  turn.ucs2 \o from[<<at[1] + 1, turn.extended>>]
  IN  from[<<1, FALSE>>]

convert_ascii_to_ucs2(body) ==
  [i \in 1..2 * Len(body) |-> IF i % 2 = 1 THEN 0 ELSE body[i \div 2]]
=============================================================================
