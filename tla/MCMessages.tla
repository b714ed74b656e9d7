----------------------------- MODULE MCMessages -----------------------------
(* Instances of Messages for TLC. *)
EXTENDS Messages

Letters(n) == [i \in 1..n |-> 65]

\* Lengths around both limits, with room for no header, a header of 5 or 6 bytes
\* behind its length, or two of them; and texts with escapes and bytes that are
\* no septets, among them a text that looks like a header.
MCBodies ==
  {Letters(n) : n \in {0, 1, 70, 71, 128, 133, 134, 135, 140, 141, 147, 148, 153,
                       154, 155, 160, 161}}
    \cup {<<Escape, 40>>, <<65, Escape, 200, 101, 0>>, <<Escape, Escape, 60>>,
          <<5, 0, 3, 1, 2, 1>>}

\* One data coding for every answer of extract_unicode.
MCCodings == {0, 4, 8, 16}

\* References of one and of two bytes, each byte below and above 127.
MCParts == {MultiPart(7, 2, 1), MultiPart(255, 255, 128), MultiPart(256, 2, 2),
            MultiPart(32775, 3, 2), MultiPart(33023, 3, 2)}

\* The longest header is all of its message, and fits one coding of 8 bits only.
MCForeign ==
  {<<>>, <<0>>, <<0, 66>>, <<1, 9>>, <<1, 9, 66>>, <<2, 9, 0>>, <<2, 9, 0, 66>>,
   <<2, 9, 1, 66>>, <<2, 0, 0, 66>>, <<5, 0, 3, 200, 2, 1>>, <<6, 0, 3, 7, 2, 1, 9>>,
   <<6, 8, 4, 1, 200, 2, 1, 66>>, <<5, 0, 4, 7, 2, 1>>, <<5, 8, 3, 7, 2, 1>>,
   <<200, 66>>,
   <<149, 9, 147>> \o Letters(147)} \cup {Letters(n) : n \in {140, 141, 160, 161, 254}}
=============================================================================
