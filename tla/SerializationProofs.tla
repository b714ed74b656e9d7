------------------------- MODULE SerializationProofs -------------------------
(***************************************************************************)
(* What the field codecs promise, for every value and every limit: a       *)
(* deserializer finds the value that the serializer wrote and leaves the   *)
(* bytes behind it, whatever these are.                                    *)
(***************************************************************************)
EXTENDS Serialization, SequenceTheorems, FiniteSetTheorems, WellFoundedInduction,
        TLAPS

(* Induction over numbers and sequences, and what FlattenSeq returns.       *)

\* Induction over numbers.
LEMMA NatSetInduction ==
  ASSUME NEW S, 0 \in S, \A n \in Nat : n \in S => n + 1 \in S
  PROVE  Nat \subseteq S
<1> SUFFICES ASSUME Nat \ S # {} PROVE FALSE
  OBVIOUS
<1> DEFINE R == {ss \in Nat \X Nat : ss[1] < ss[2]}
           T == Nat \ S
<1>1. IsWellFoundedOn(R, Nat)
  BY NatLessThanWellFounded DEF OpToRel
<1>2. T \subseteq Nat /\ T # {}
  OBVIOUS
<1> HIDE DEF R, T
<1>3. PICK m \in T : \A y \in T : ~(<<y, m>> \in R)
  BY <1>1, <1>2, WFMin
<1>4. m \in Nat /\ m # 0 /\ m \notin S
  BY <1>3 DEF T
<1>5. m - 1 \in Nat /\ (m - 1) + 1 = m
  BY <1>4
<1>6. m - 1 \in T
  BY <1>4, <1>5 DEF T
<1>7. <<m - 1, m>> \in R
  BY <1>4, <1>5 DEF R
<1> QED
  BY <1>3, <1>6, <1>7

\* The loop of FlattenSeq over the first n parts.
Flattens(f, s, n) ==
  f = [i \in 1..n |-> IF i = 1 THEN s[i] ELSE f[i - 1] \o s[i]]

\* There is such a function.
LEMMA FlattensExists ==
  ASSUME NEW s, NEW n \in Nat
  PROVE  \E f : Flattens(f, s, n)
<1> DEFINE K == {k \in Nat : \E f : Flattens(f, s, k)}
<1>1. 0 \in K
  <2>1. Flattens([i \in 1..0 |-> 0], s, 0)
    BY DEF Flattens
  <2> QED BY <2>1
<1>2. ASSUME NEW k \in Nat, k \in K PROVE k + 1 \in K
  <2>1. PICK f : Flattens(f, s, k)
    BY <1>2
  <2> DEFINE last == IF k + 1 = 1 THEN s[k + 1] ELSE f[k] \o s[k + 1]
             g == [i \in 1..k + 1 |-> IF i = k + 1 THEN last ELSE f[i]]
  <2>2. \A i \in 1..k : f[i] = IF i = 1 THEN s[i] ELSE f[i - 1] \o s[i]
    BY <2>1 DEF Flattens
  <2>3. \A i \in 1..k + 1 : g[i] = IF i = 1 THEN s[i] ELSE g[i - 1] \o s[i]
    <3> SUFFICES ASSUME NEW i \in 1..k + 1
                 PROVE  g[i] = IF i = 1 THEN s[i] ELSE g[i - 1] \o s[i]
      OBVIOUS
    <3>1. CASE i = k + 1
      <4>1. g[i] = last
        BY <3>1
      <4>2. k # 0 => g[k] = f[k]
        OBVIOUS
      <4>3. i = 1 <=> k = 0
        BY <3>1
      <4>4. i - 1 = k
        BY <3>1
      <4> HIDE DEF g
      <4> QED BY <3>1, <4>1, <4>2, <4>3, <4>4
    <3>2. CASE i # k + 1
      <4>1. i \in 1..k
        BY <3>2
      <4>2. g[i] = f[i] /\ (i # 1 => g[i - 1] = f[i - 1])
        BY <4>1
      <4> HIDE DEF g
      <4> QED BY <2>2, <4>1, <4>2
    <3> QED BY <3>1, <3>2
  <2>4. g = [i \in 1..k + 1 |-> g[i]]
    OBVIOUS
  <2> HIDE DEF g
  <2>5. Flattens(g, s, k + 1)
    BY <2>3, <2>4 DEF Flattens
  <2> QED BY <2>5
<1> HIDE DEF K
<1>3. Nat \subseteq K
  BY <1>1, <1>2, NatSetInduction
<1> QED BY <1>3 DEF K

\* Its last value is that of its last turn.
LEMMA FlattensLast ==
  ASSUME NEW f, NEW s, NEW n \in Nat, n # 0, Flattens(f, s, n)
  PROVE  f[n] = IF n = 1 THEN s[n] ELSE f[n - 1] \o s[n]
<1>1. \A i \in 1..n : f[i] = IF i = 1 THEN s[i] ELSE f[i - 1] \o s[i]
  BY DEF Flattens
<1>2. n \in 1..n
  OBVIOUS
<1> QED BY <1>1, <1>2

\* FlattenSeq returns the last value of one.
LEMMA FlattenSeqIs ==
  ASSUME NEW S, NEW s \in Seq(S), s # <<>>
  PROVE  \E f : Flattens(f, s, Len(s)) /\ FlattenSeq(s) = f[Len(s)]
<1> DEFINE f == CHOOSE f : Flattens(f, s, Len(s))
<1>1. Len(s) \in Nat /\ Len(s) # 0
  BY EmptySeq
<1>2. Flattens(f, s, Len(s))
  BY <1>1, FlattensExists
<1>3. FlattenSeq(s) = f[Len(s)]
  BY <1>1 DEF FlattenSeq, Flattens
<1> QED BY <1>2, <1>3

\* The loop reaches for its parts only: two runs agree as long as the parts do.
LEMMA FlattensAgree ==
  ASSUME NEW s, NEW t, NEW f, NEW g, NEW m \in Nat, NEW n \in Nat, m <= n,
         Flattens(f, s, m), Flattens(g, t, n), \A i \in 1..m : s[i] = t[i]
  PROVE  \A i \in 1..m : f[i] = g[i]
<1> DEFINE K == {k \in Nat : k \in 1..m => f[k] = g[k]}
<1>1. 0 \in K
  OBVIOUS
<1>2. /\ \A i \in 1..m : f[i] = IF i = 1 THEN s[i] ELSE f[i - 1] \o s[i]
      /\ \A i \in 1..m : g[i] = IF i = 1 THEN s[i] ELSE g[i - 1] \o s[i]
  <2>1. 1..m \subseteq 1..n
    OBVIOUS
  <2> QED BY <2>1 DEF Flattens
<1>3. ASSUME NEW k \in Nat, k \in K PROVE k + 1 \in K
  <2> SUFFICES ASSUME k + 1 \in 1..m PROVE f[k + 1] = g[k + 1]
    OBVIOUS
  <2>1. CASE k = 0
    BY <1>2, <2>1
  <2>2. CASE k # 0
    <3>1. k \in 1..m /\ k + 1 - 1 = k /\ k + 1 # 1
      BY <2>2
    <3>2. f[k] = g[k]
      BY <1>3, <3>1
    <3> QED BY <1>2, <3>1, <3>2
  <2> QED BY <2>1, <2>2
<1> HIDE DEF K
<1>4. Nat \subseteq K
  BY <1>1, <1>3, NatSetInduction
<1> QED BY <1>4 DEF K

\* Nothing is made of no parts.
LEMMA FlattenEmpty == FlattenSeq(<<>>) = <<>>
BY DEF FlattenSeq

\* Another part at the end is put behind the others.
LEMMA FlattenAppend ==
  ASSUME NEW T, NEW s \in Seq(T), NEW x \in T
  PROVE  FlattenSeq(Append(s, x)) = IF s = <<>> THEN x ELSE FlattenSeq(s) \o x
<1> DEFINE t == Append(s, x)
           n == Len(s)
<1>1. /\ t \in Seq(T) /\ t # <<>> /\ Len(t) = n + 1 /\ n \in Nat
      /\ \A i \in 1..n : t[i] = s[i]
      /\ t[n + 1] = x
  BY AppendProperties, LenProperties
<1> HIDE DEF t
<1>2. PICK g : Flattens(g, t, n + 1) /\ FlattenSeq(t) = g[n + 1]
  BY <1>1, FlattenSeqIs
<1>3. g[n + 1] = IF n + 1 = 1 THEN t[n + 1] ELSE g[n + 1 - 1] \o t[n + 1]
  <2>1. n + 1 \in Nat /\ n + 1 # 0
    BY <1>1
  <2> QED BY <1>2, <2>1, FlattensLast
<1>4. CASE s = <<>>
  <2>1. n = 0
    BY <1>4
  <2> QED BY <1>1, <1>2, <1>3, <1>4, <2>1 DEF t
<1>5. CASE s # <<>>
  <2>1. n # 0 /\ n + 1 # 1 /\ n + 1 - 1 = n /\ n \in 1..n /\ n <= n + 1
    BY <1>1, <1>5, EmptySeq
  <2>2. PICK f : Flattens(f, s, n) /\ FlattenSeq(s) = f[n]
    BY <1>5, FlattenSeqIs
  <2>3. f[n] = g[n]
    <3>1. \A i \in 1..n : s[i] = t[i]
      BY <1>1
    <3> HIDE DEF n
    <3>2. n + 1 \in Nat
      BY <1>1
    <3>3. \A i \in 1..n : f[i] = g[i]
      BY <1>1, <1>2, <2>1, <2>2, <3>1, <3>2, FlattensAgree
    <3> QED BY <2>1, <3>3
  <2> QED BY <1>1, <1>2, <1>3, <1>5, <2>1, <2>2, <2>3 DEF t
<1> QED BY <1>4, <1>5

\* Induction over sequences, by their length.
LEMMA SeqSetInduction ==
  ASSUME NEW T, NEW P, <<>> \in P,
         \A s \in Seq(T), x \in T : s \in P => Append(s, x) \in P
  PROVE  Seq(T) \subseteq P
<1> DEFINE K == {k \in Nat : \A s \in Seq(T) : Len(s) = k => s \in P}
<1>1. 0 \in K
  BY EmptySeq
<1>2. ASSUME NEW k \in Nat, k \in K PROVE k + 1 \in K
  <2> SUFFICES ASSUME NEW s \in Seq(T), Len(s) = k + 1 PROVE s \in P
    OBVIOUS
  <2>1. s # <<>>
    BY EmptySeq
  <2>2. PICK t \in Seq(T), x \in T : s = Append(t, x)
    BY <2>1, SequenceEmptyOrAppend
  <2>3. Len(t) = k
    BY <2>2, AppendProperties, LenProperties
  <2>4. t \in P
    BY <1>2, <2>2, <2>3
  <2> QED BY <2>2, <2>4
<1> HIDE DEF K
<1>3. Nat \subseteq K
  BY <1>1, <1>2, NatSetInduction
<1> QED BY <1>3, LenProperties DEF K

\* Parts of elements of a set make up a sequence of these.
LEMMA FlattenType ==
  ASSUME NEW S, NEW s \in Seq(Seq(S))
  PROVE  FlattenSeq(s) \in Seq(S)
<1> DEFINE P == {t \in Seq(Seq(S)) : FlattenSeq(t) \in Seq(S)}
<1>1. <<>> \in P
  BY FlattenEmpty, EmptySeq
<1>2. ASSUME NEW t \in Seq(Seq(S)), NEW x \in Seq(S), t \in P
      PROVE  Append(t, x) \in P
  BY <1>2, FlattenAppend, ConcatProperties, AppendProperties
<1> HIDE DEF P
<1>3. Seq(Seq(S)) \subseteq P
  BY <1>1, <1>2, SeqSetInduction
<1> QED BY <1>3 DEF P

\* FlattenSeq appends to what it has; the code's loops do the same.  Seen from
\* the other end, the first part comes first.
LEMMA FlattenCons ==
  ASSUME NEW S, NEW s \in Seq(Seq(S)), NEW x \in Seq(S)
  PROVE  FlattenSeq(<<x>> \o s) = x \o FlattenSeq(s)
<1> DEFINE P == {t \in Seq(Seq(S)) : FlattenSeq(<<x>> \o t) = x \o FlattenSeq(t)}
<1>1. <<>> \in P
  <2>1. <<x>> \o <<>> = Append(<<>>, x) /\ <<>> \in Seq(Seq(S))
    OBVIOUS
  <2>2. FlattenSeq(Append(<<>>, x)) = x
    BY <2>1, FlattenAppend
  <2>3. x \o <<>> = x
    BY ConcatEmptySeq
  <2> QED BY <2>1, <2>2, <2>3, FlattenEmpty
<1>2. ASSUME NEW t \in Seq(Seq(S)), NEW y \in Seq(S), t \in P
      PROVE  Append(t, y) \in P
  <2> DEFINE u == <<x>> \o t
  <2>1. /\ u \in Seq(Seq(S)) /\ u # <<>>
        /\ <<x>> \o Append(t, y) = Append(u, y)
        /\ Append(t, y) \in Seq(Seq(S))
    <3>1. <<x>> \in Seq(Seq(S)) /\ <<x>> # <<>> /\ <<y>> \in Seq(Seq(S))
      OBVIOUS
    <3>2. u \in Seq(Seq(S)) /\ u # <<>>
      BY <3>1, ConcatProperties, ConcatEqualIffEmpty
    <3>3. Append(t, y) = t \o <<y>> /\ Append(u, y) = u \o <<y>>
      BY <3>2, AppendIsConcat
    <3>4. (<<x>> \o t) \o <<y>> = <<x>> \o (t \o <<y>>)
      BY <3>1, ConcatAssociative
    <3> QED BY <3>2, <3>3, <3>4, AppendProperties
  <2>2. FlattenSeq(u) = x \o FlattenSeq(t)
    BY <1>2
  <2> HIDE DEF u
  <2>3. FlattenSeq(Append(u, y)) = (x \o FlattenSeq(t)) \o y
    <3>1. FlattenSeq(Append(u, y)) = FlattenSeq(u) \o y
      BY <2>1, FlattenAppend
    <3> QED BY <2>2, <3>1, Zenon
  <2>4. FlattenSeq(t) \in Seq(S)
    BY FlattenType
  <2>5. (x \o FlattenSeq(t)) \o y = x \o (FlattenSeq(t) \o y)
    BY <2>4, ConcatAssociative
  <2>6. FlattenSeq(Append(t, y)) = FlattenSeq(t) \o y
    <3>1. FlattenSeq(Append(t, y)) = IF t = <<>> THEN y ELSE FlattenSeq(t) \o y
      BY FlattenAppend
    <3>2. CASE t = <<>>
      BY <3>1, <3>2, FlattenEmpty, ConcatEmptySeq
    <3> QED BY <3>1, <3>2
  <2> QED BY <2>1, <2>3, <2>5, <2>6
<1> HIDE DEF P
<1>3. Seq(Seq(S)) \subseteq P
  BY <1>1, <1>2, SeqSetInduction
<1> QED BY <1>3 DEF P
-----------------------------------------------------------------------------
\* The parts of a concatenation.
LEMMA ConcatParts ==
  ASSUME NEW S, NEW s \in Seq(S), NEW t \in Seq(S)
  PROVE  /\ SubSeq(s \o t, 1, Len(s)) = s
         /\ SubSeq(s \o t, Len(s) + 1, Len(s \o t)) = t
  <1>1. /\ s \o t \in Seq(S)
        /\ Len(s \o t) = Len(s) + Len(t)
        /\ \A i \in 1..Len(s) : (s \o t)[i] = s[i]
        /\ \A i \in 1..Len(t) : (s \o t)[Len(s) + i] = t[i]
    OBVIOUS
  <1>2. SubSeq(s \o t, 1, Len(s)) = s
    <2>1. /\ SubSeq(s \o t, 1, Len(s)) \in Seq(S)
          /\ Len(SubSeq(s \o t, 1, Len(s))) = Len(s)
          /\ \A i \in 1..Len(s) : SubSeq(s \o t, 1, Len(s))[i] = s[i]
      BY <1>1
    <2> QED BY <2>1, SeqEqual
  <1>3. SubSeq(s \o t, Len(s) + 1, Len(s \o t)) = t
    <2> DEFINE u == SubSeq(s \o t, Len(s) + 1, Len(s \o t))
    <2>1. /\ u \in Seq(S)
          /\ Len(u) = Len(t)
          /\ \A i \in 1..Len(t) : u[i] = (s \o t)[Len(s) + i]
      BY <1>1
    <2>2. \A i \in 1..Len(t) : u[i] = t[i]
      BY <1>1, <2>1
    <2> HIDE DEF u
    <2> QED BY <2>1, <2>2, SeqEqual
  <1> QED BY <1>2, <1>3

\* Taking the bytes of s from the front of s \o t leaves t.
LEMMA TakenFromFront ==
  ASSUME NEW S, NEW s \in Seq(S), NEW t \in Seq(S), NEW val
  PROVE  Taken(val, Len(s), s \o t) = [ok |-> TRUE, val |-> val, rest |-> t]
  BY ConcatParts DEF Taken

\* A byte as serialize_to writes it and enum_u8 or u8 reads it back.
THEOREM U8RoundTrip ==
  ASSUME NEW v \in Byte, NEW rest \in Seq(Byte)
  PROVE  DeserializeU8(<<v>> \o rest) = [ok |-> TRUE, val |-> v, rest |-> rest]
  <1> DEFINE buf == <<v>> \o rest
  <1>1. buf[1] = v /\ buf # <<>>
    OBVIOUS
  <1>2. <<v>> \in Seq(Byte) /\ Len(<<v>>) = 1
    OBVIOUS
  <1>3. Taken(v, 1, buf) = [ok |-> TRUE, val |-> v, rest |-> rest]
    BY <1>2, TakenFromFront
  <1> HIDE DEF buf
  <1>4. DeserializeU8(buf) = Taken(v, 1, buf)
    BY <1>1 DEF DeserializeU8
  <1> QED BY <1>3, <1>4 DEF buf

\* The least element of a set of numbers, when one is known.
LEMMA MinIs ==
  ASSUME NEW T \in SUBSET Int, NEW m \in T, \A x \in T : m <= x
  PROVE  Min(T) = m
  <1>1. \E x \in T : \A y \in T : x <= y
    OBVIOUS
  <1> DEFINE c == CHOOSE x \in T : \A y \in T : x <= y
  <1>2. c \in T /\ \A y \in T : c <= y
    BY <1>1
  <1>3. c <= m /\ m <= c /\ c \in Int /\ m \in Int
    BY <1>2
  <1> HIDE DEF c
  <1>4. c = m
    BY <1>3
  <1> QED BY <1>4 DEF Min, c

\* A null-terminated string below the limit of its field
\* (c_octet_str<MAXLEN>, serialize_to and deserialize) is read back, and the
\* terminator is consumed with it.
THEOREM COctetStrRoundTrip ==
  ASSUME NEW v \in Seq(Byte), \A i \in DOMAIN v : v[i] # 0,
         NEW max \in Nat, Len(v) < max,
         NEW rest \in Seq(Byte)
  PROVE  DeserializeCOctetStr(SerializeCOctetStr(v) \o rest, max)
           = [ok |-> TRUE, val |-> v, rest |-> rest]
  <1> DEFINE w     == Append(v, 0)
             buf   == w \o rest
             nulls == {i \in DOMAIN buf : buf[i] = 0}
  <1>1. /\ w \in Seq(Byte)
        /\ Len(w) = Len(v) + 1
        /\ \A i \in 1..Len(v) : w[i] = v[i]
        /\ w[Len(v) + 1] = 0
    <2>1. 0 \in Byte
      BY DEF Byte
    <2> QED BY <2>1, AppendProperties
  <1> HIDE DEF w
  <1>2. /\ buf \in Seq(Byte)
        /\ Len(buf) = Len(v) + 1 + Len(rest)
        /\ \A i \in 1..Len(w) : buf[i] = w[i]
    BY <1>1
  <1>3. nulls \in SUBSET Int /\ Len(v) + 1 \in nulls
    BY <1>1, <1>2
  <1>4. \A x \in nulls : Len(v) + 1 <= x
    BY <1>1, <1>2
  <1>5. Min(nulls) = Len(v) + 1
    <2> HIDE DEF nulls
    <2> QED BY <1>3, <1>4, MinIs
  <1>6. SubSeq(buf, 1, Len(v)) = v
    <2>1. /\ SubSeq(buf, 1, Len(v)) \in Seq(Byte)
          /\ Len(SubSeq(buf, 1, Len(v))) = Len(v)
          /\ \A i \in 1..Len(v) : SubSeq(buf, 1, Len(v))[i] = buf[i]
      BY <1>2
    <2>2. \A i \in 1..Len(v) : SubSeq(buf, 1, Len(v))[i] = v[i]
      BY <1>1, <1>2, <2>1
    <2> HIDE DEF buf
    <2> QED BY <1>1, <2>1, <2>2, SeqEqual
  <1>7. Taken(v, Len(v) + 1, buf) = [ok |-> TRUE, val |-> v, rest |-> rest]
    <2>1. Taken(v, Len(w), w \o rest) = [ok |-> TRUE, val |-> v, rest |-> rest]
      BY <1>1, TakenFromFront
    <2> QED BY <1>1, <2>1
  <1> HIDE DEF buf
  <1>8. DeserializeCOctetStr(buf, max)
          = Taken(SubSeq(buf, 1, Len(v)), Len(v) + 1, buf)
    <2>1. nulls # {} /\ Min(nulls) - 1 = Len(v) /\ ~(Len(v) >= max)
      BY <1>3, <1>5
    <2> QED BY <2>1 DEF DeserializeCOctetStr
  <1>9. SerializeCOctetStr(v) \o rest = buf
    BY DEF SerializeCOctetStr, buf, w
  <1> QED BY <1>6, <1>7, <1>8, <1>9

\* A string with a length byte, up to the limit of its field
\* (u8_octet_str<MAXLEN>, serialize_to and deserialize), is read back: no limit
\* that fits one byte loses part of the length.
THEOREM U8OctetStrRoundTrip ==
  ASSUME NEW max \in Byte, NEW v \in Seq(Byte), Len(v) <= max,
         NEW rest \in Seq(Byte)
  PROVE  DeserializeU8OctetStr(SerializeU8OctetStr(v) \o rest, max)
           = [ok |-> TRUE, val |-> v, rest |-> rest]
  <1> DEFINE w   == <<Len(v)>> \o v
             buf == w \o rest
  <1>1. Len(v) \in Byte /\ Len(v) % 256 = Len(v)
    <2>1. Len(v) \in Nat /\ Len(v) <= 255
      BY LenProperties DEF Byte
    <2>2. \A n \in Nat : n <= 255 => n \in 0..255 /\ n % 256 = n
      OBVIOUS
    <2> QED BY <2>1, <2>2 DEF Byte
  <1>2. /\ w \in Seq(Byte)
        /\ Len(w) = Len(v) + 1
        /\ w[1] = Len(v)
        /\ \A i \in 1..Len(v) : w[i + 1] = v[i]
    BY <1>1
  <1> HIDE DEF w
  <1>3. /\ buf \in Seq(Byte)
        /\ Len(buf) = Len(v) + 1 + Len(rest)
        /\ \A i \in 1..Len(w) : buf[i] = w[i]
    BY <1>2, SMTT(20)
  <1>4. buf # <<>> /\ buf[1] = Len(v)
    BY <1>2, <1>3
  <1>5. SubSeq(buf, 2, Len(v) + 1) = v
    <2> DEFINE u == SubSeq(buf, 2, Len(v) + 1)
    <2> HIDE DEF buf
    <2>1. /\ u \in Seq(Byte)
          /\ Len(u) = Len(v)
          /\ \A i \in 1..Len(v) : u[i] = buf[i + 1]
      BY <1>3
    <2>2. \A i \in 1..Len(v) : u[i] = v[i]
      BY <1>2, <1>3, <2>1
    <2> HIDE DEF u
    <2> QED BY <2>1, <2>2, SeqEqual
  <1>6. Taken(v, Len(v) + 1, buf) = [ok |-> TRUE, val |-> v, rest |-> rest]
    <2>1. Taken(v, Len(w), w \o rest) = [ok |-> TRUE, val |-> v, rest |-> rest]
      BY <1>2, TakenFromFront
    <2> QED BY <1>2, <2>1
  <1> HIDE DEF buf
  <1>7. DeserializeU8OctetStr(buf, max)
          = Taken(SubSeq(buf, 2, Len(v) + 1), Len(v) + 1, buf)
    BY <1>3, <1>4, <1>1, SMTT(20) DEF DeserializeU8OctetStr, Byte
  <1>8. SerializeU8OctetStr(v) \o rest = buf
    BY <1>1 DEF SerializeU8OctetStr, buf, w
  <1> QED BY <1>5, <1>6, <1>7, <1>8

\* The bits that the masks of esm_class select are disjoint and cover the byte:
\* what from_u8 reads, operator uint8_t writes back.
THEOREM EsmClassRoundTrip ==
  ASSUME NEW b \in Byte
  PROVE  FlagsToU8(EsmClassFromU8(b)) = b
  BY DEF FlagsToU8, EsmClassFromU8, Byte
LEMMA U16Bytes ==
  ASSUME NEW n \in U16s
  PROVE  /\ n \div 256 % 256 \in Byte
         /\ n % 256 \in Byte
         /\ (n \div 256 % 256) * 256 + (n % 256) = n
  <1>1. n \in Nat /\ n <= 65535
    BY DEF U16s
  <1>2. \A k \in Nat : k <= 65535 => k \div 256 <= 255 /\ k \div 256 >= 0
    OBVIOUS
  <1>3. \A k \in Nat : /\ k \div 256 \in Int
                       /\ (k \div 256) * 256 + (k % 256) = k
                       /\ k % 256 \in 0..255
    OBVIOUS
  <1>4. \A k \in Nat : k <= 255 => k % 256 = k
    OBVIOUS
  <1>5. n \div 256 \in 0..255 /\ n \div 256 \in Nat
    BY <1>1, <1>2, <1>3
  <1>6. n \div 256 % 256 = n \div 256
    BY <1>4, <1>5
  <1> QED BY <1>1, <1>3, <1>5, <1>6 DEF Byte

\* The four bytes of a 32-bit number, the highest first, say which it is.
LEMMA U32Bytes ==
  ASSUME NEW p \in U16s \X U16s
  PROVE  /\ SerializeU32(p) \in Seq(Byte)
         /\ Len(SerializeU32(p)) = 4
         /\ DeserializeU32(SerializeU32(p)) = p
  <1> DEFINE s == U16(p[1])
             t == U16(p[2])
             b == s \o t
  <1>1. p[1] \in U16s /\ p[2] \in U16s /\ p = <<p[1], p[2]>>
    OBVIOUS
  <1>2. \A n \in U16s : /\ n \div 256 % 256 \in Byte
                        /\ n % 256 \in Byte
                        /\ (n \div 256 % 256) * 256 + (n % 256) = n
    BY U16Bytes
  <1>3. \A n \in U16s : /\ U16(n) \in Seq(Byte)
                        /\ Len(U16(n)) = 2
                        /\ U16(n)[1] * 256 + U16(n)[2] = n
    BY <1>2 DEF U16
  <1>4. /\ s \in Seq(Byte) /\ Len(s) = 2 /\ s[1] * 256 + s[2] = p[1]
        /\ t \in Seq(Byte) /\ Len(t) = 2 /\ t[1] * 256 + t[2] = p[2]
    BY <1>1, <1>3
  <1> HIDE DEF s, t
  <1>5. /\ b \in Seq(Byte) /\ Len(b) = 4
        /\ b[1] = s[1] /\ b[2] = s[2] /\ b[3] = t[1] /\ b[4] = t[2]
    <2>1. /\ b \in Seq(Byte) /\ Len(b) = 4
          /\ \A i \in 1..4 : b[i] = IF i <= 2 THEN s[i] ELSE t[i - 2]
      BY <1>4, ConcatProperties
    <2> QED BY <2>1
  <1> HIDE DEF b
  <1>6. DeserializeU32(b) = p
    BY <1>1, <1>4, <1>5 DEF DeserializeU32
  <1>7. SerializeU32(p) = b
    BY DEF SerializeU32, s, t, b
  <1> QED BY <1>5, <1>6, <1>7

\* Four more bytes.
LEMMA ConcatFour ==
  ASSUME NEW s \in Seq(Byte), NEW t \in Seq(Byte), Len(t) = 4
  PROVE  /\ s \o t \in Seq(Byte)
         /\ Len(s \o t) = Len(s) + 4
         /\ \A k \in 1..Len(s) : (s \o t)[k] = s[k]
         /\ \A k \in 1..4 : (s \o t)[k + Len(s)] = t[k]
  <1>1. /\ Len(s) \in Nat
        /\ s \o t \in Seq(Byte) /\ Len(s \o t) = Len(s) + Len(t)
        /\ \A k \in 1..Len(s) + Len(t) :
             (s \o t)[k] = IF k <= Len(s) THEN s[k] ELSE t[k - Len(s)]
    BY ConcatProperties, LenProperties
  <1>2. ASSUME NEW k \in 1..4 PROVE (s \o t)[k + Len(s)] = t[k]
    <2>1. /\ k + Len(s) \in 1..Len(s) + Len(t) /\ ~(k + Len(s) <= Len(s))
          /\ k + Len(s) - Len(s) = k
      BY <1>1
    <2> QED BY <1>1, <2>1
  <1> QED BY <1>1, <1>2

\* The header that serialize_header writes is the one that deserialize_header
\* reads, for every 32-bit value of its members: both go through them in the
\* same order and agree on the order of the bytes.
THEOREM HeaderRoundTrip ==
  ASSUME NEW h \in [command_length : U16s \X U16s, command_id : U16s \X U16s,
                    command_status : U16s \X U16s,
                    sequence_number : U16s \X U16s]
  PROVE  /\ Len(SerializeHeader(h)) = 16
         /\ DeserializeHeader(SerializeHeader(h)) = h
  <1> DEFINE l == SerializeU32(h.command_length)
             d == SerializeU32(h.command_id)
             t == SerializeU32(h.command_status)
             n == SerializeU32(h.sequence_number)
             buf == l \o d \o t \o n
  <1>1. /\ h.command_length \in U16s \X U16s
        /\ h.command_id \in U16s \X U16s
        /\ h.command_status \in U16s \X U16s
        /\ h.sequence_number \in U16s \X U16s
        /\ h = [command_length |-> h.command_length,
                command_id |-> h.command_id,
                command_status |-> h.command_status,
                sequence_number |-> h.sequence_number]
    OBVIOUS
  <1>2. /\ l \in Seq(Byte) /\ Len(l) = 4
        /\ d \in Seq(Byte) /\ Len(d) = 4
        /\ t \in Seq(Byte) /\ Len(t) = 4
        /\ n \in Seq(Byte) /\ Len(n) = 4
    BY <1>1, U32Bytes
  <1>3. /\ DeserializeU32(l) = h.command_length
        /\ DeserializeU32(d) = h.command_id
        /\ DeserializeU32(t) = h.command_status
        /\ DeserializeU32(n) = h.sequence_number
    BY <1>1, U32Bytes
  <1>4. SerializeHeader(h) = buf
    BY DEF SerializeHeader
  <1> HIDE DEF l, d, t, n
  <1>5. /\ buf \in Seq(Byte) /\ Len(buf) = 16
        /\ \A k \in 1..4 : /\ buf[k] = l[k] /\ buf[k + 4] = d[k]
                           /\ buf[k + 8] = t[k] /\ buf[k + 12] = n[k]
    <2> DEFINE x == l \o d
               y == x \o t
               z == y \o n
    <2>1. /\ x \in Seq(Byte) /\ Len(x) = 8
          /\ \A k \in 1..4 : x[k] = l[k] /\ x[k + 4] = d[k]
      <3>1. /\ x \in Seq(Byte) /\ Len(x) = Len(l) + 4
            /\ \A k \in 1..Len(l) : x[k] = l[k]
            /\ \A k \in 1..4 : x[k + Len(l)] = d[k]
        BY <1>2, ConcatFour, Zenon
      <3> HIDE DEF x
      <3> QED BY <1>2, <3>1
    <2> HIDE DEF x
    <2>2. /\ y \in Seq(Byte) /\ Len(y) = 12
          /\ \A k \in 1..8 : y[k] = x[k]
          /\ \A k \in 1..4 : y[k + 8] = t[k]
      <3>1. /\ y \in Seq(Byte) /\ Len(y) = Len(x) + 4
            /\ \A k \in 1..Len(x) : y[k] = x[k]
            /\ \A k \in 1..4 : y[k + Len(x)] = t[k]
        BY <1>2, <2>1, ConcatFour, Zenon
      <3> HIDE DEF y
      <3> QED BY <1>2, <2>1, <3>1
    <2> HIDE DEF y
    <2>3. /\ z \in Seq(Byte) /\ Len(z) = 16
          /\ \A k \in 1..12 : z[k] = y[k]
          /\ \A k \in 1..4 : z[k + 12] = n[k]
      <3>1. /\ z \in Seq(Byte) /\ Len(z) = Len(y) + 4
            /\ \A k \in 1..Len(y) : z[k] = y[k]
            /\ \A k \in 1..4 : z[k + Len(y)] = n[k]
        BY <1>2, <2>2, ConcatFour, Zenon
      <3> HIDE DEF z
      <3> QED BY <1>2, <2>2, <3>1
    <2>4. buf = z
      BY DEF x, y, z, buf
    <2> HIDE DEF z, buf
    <2>5. ASSUME NEW k \in 1..4
          PROVE  /\ buf[k] = l[k] /\ buf[k + 4] = d[k]
                 /\ buf[k + 8] = t[k] /\ buf[k + 12] = n[k]
      <3>1. k \in 1..12 /\ k + 4 \in 1..12 /\ k + 8 \in 1..12
            /\ k \in 1..8 /\ k + 4 \in 1..8
        OBVIOUS
      <3> QED BY <2>1, <2>2, <2>3, <2>4, <3>1, SMTT(20)
    <2> QED BY <2>3, <2>4, <2>5
  <1> HIDE DEF buf
  <1>6. /\ SubSeq(buf, 1, 4) = l /\ SubSeq(buf, 5, 8) = d
        /\ SubSeq(buf, 9, 12) = t /\ SubSeq(buf, 13, 16) = n
    <2>1. ASSUME NEW s \in Seq(Byte), Len(s) = 4, NEW m \in {0, 4, 8, 12},
                 \A k \in 1..4 : buf[k + m] = s[k]
          PROVE  SubSeq(buf, m + 1, m + 4) = s
      <3> DEFINE u == SubSeq(buf, m + 1, m + 4)
      <3>1. /\ u \in Seq(Byte) /\ Len(u) = 4
            /\ \A k \in 1..4 : u[k] = buf[m + k]
        <4>1. \A k \in 1..16 : buf[k] \in Byte
          BY <1>5, ElementOfSeq
        <4>2. /\ \A k \in m + 1..m + 4 : buf[k] \in Byte
              /\ m + 1 \in Int /\ m + 4 \in Int /\ m + 1 <= m + 4
              /\ m + 4 - (m + 1) + 1 = 4
          BY <4>1, SMTT(20)
        <4>3. \A k \in 1..4 : m + 1 + k - 1 = m + k
          OBVIOUS
        <4> QED BY <4>2, <4>3, SubSeqProperties
      <3> HIDE DEF u
      <3>2. \A k \in 1..4 : u[k] = s[k]
        BY <2>1, <3>1
      <3>3. u = s
        BY <2>1, <3>1, <3>2, SeqEqual
      <3> QED BY <3>3 DEF u
    <2>2. /\ SubSeq(buf, 0 + 1, 0 + 4) = l /\ SubSeq(buf, 4 + 1, 4 + 4) = d
          /\ SubSeq(buf, 8 + 1, 8 + 4) = t /\ SubSeq(buf, 12 + 1, 12 + 4) = n
      BY <1>2, <1>5, <2>1
    <2> QED BY <2>2
  <1>7. DeserializeHeader(buf) = h
    BY <1>1, <1>3, <1>6 DEF DeserializeHeader
  <1> QED BY <1>4, <1>5, <1>7

\* An element of a string is a byte, and a small number.
LEMMA ByteAt ==
  ASSUME NEW buf \in Seq(Byte), NEW i \in 1..Len(buf)
  PROVE  buf[i] \in Byte /\ buf[i] \in Nat /\ buf[i] <= 255
<1>1. buf[i] \in Byte
  BY ElementOfSeq
<1>2. \A b \in Byte : b \in Nat /\ b <= 255
  BY DEF Byte
<1> QED BY <1>1, <1>2

\* static_cast<char> of a length.
LEMMA ModByte == \A n \in Nat : n % 256 \in Byte /\ (n <= 255 => n % 256 = n)
BY DEF Byte

\* What is left of a buffer from position i on.
LEMMA From ==
  ASSUME NEW T, NEW buf \in Seq(T), NEW i \in 1..Len(buf) + 1,
         NEW r, r = SubSeq(buf, i, Len(buf))
  PROVE  /\ r \in Seq(T)
         /\ Len(r) = Len(buf) - i + 1
         /\ \A j \in 1..Len(buf) - i + 1 : r[j] = buf[i + j - 1]
<1>1. Len(buf) \in Nat /\ i \in Int /\ Len(buf) \in Int
      /\ i >= 1 /\ i <= Len(buf) + 1
  BY LenProperties
<1>2. \A k \in i..Len(buf) : buf[k] \in T
  BY <1>1, ElementOfSeq
<1>3. PICK n : n = Len(buf)
  OBVIOUS
<1>4. /\ SubSeq(buf, i, n) \in Seq(T)
      /\ Len(SubSeq(buf, i, n)) = IF i <= n THEN n - i + 1 ELSE 0
      /\ \A j \in 1..n - i + 1 : SubSeq(buf, i, n)[j] = buf[i + j - 1]
  BY <1>1, <1>2, <1>3, SubSeqProperties
<1>5. r = SubSeq(buf, i, n)
  BY <1>3
<1>6. /\ r \in Seq(T)
      /\ Len(r) = IF i <= n THEN n - i + 1 ELSE 0
      /\ \A j \in 1..n - i + 1 : r[j] = buf[i + j - 1]
  BY <1>4, <1>5, Zenon
<1> QED BY <1>1, <1>3, <1>6

\* A sequence that is not empty has a first element and a rest.
LEMMA FirstAndRest ==
  ASSUME NEW T, NEW s \in Seq(T), s # <<>>
  PROVE  \E x \in T, t \in Seq(T) : s = <<x>> \o t /\ Len(s) = Len(t) + 1
<1>1. Len(s) \in Nat \ {0}
  BY EmptySeq
<1>2. PICK x, t : x = s[1] /\ t = SubSeq(s, 2, Len(s))
  OBVIOUS
<1>3. 1 \in 1..Len(s) /\ Len(s) \in 1..Len(s)
  BY <1>1
<1>4. SubSeq(s, 1, Len(s)) = <<x>> \o t
  BY <1>2, <1>3, SubSeqRecursiveFirst
<1>5. SubSeq(s, 1, Len(s)) = s
  BY SubSeqFull
<1>6. x \in T
  BY <1>2, <1>3, ElementOfSeq
<1>7. t \in Seq(T) /\ Len(t) = Len(s) - 2 + 1
  <2>1. PICK i : i = 2
    OBVIOUS
  <2>2. i \in 1..Len(s) + 1
    BY <1>1, <2>1
  <2>3. t = SubSeq(s, i, Len(s))
    BY <1>2, <2>1
  <2>4. t \in Seq(T) /\ Len(t) = Len(s) - i + 1
    BY <2>2, <2>3, From
  <2> QED BY <2>1, <2>4
<1>8. s = <<x>> \o t
  BY <1>4, <1>5, Zenon
<1>9. Len(s) = Len(t) + 1
  BY <1>1, <1>7
<1> QED BY <1>6, <1>7, <1>8, <1>9, Zenon

\* The bytes from a position to the end.
Rest(buf, i) == SubSeq(buf, i, Len(buf))

\* Two parts of a buffer, from i to its end.
PartedAt(buf, i, w, u) ==
  /\ i + Len(w) \in 1..Len(buf) + 1
  /\ Len(w) + Len(u) = Len(buf) - i + 1
  /\ \A j \in 1..Len(w) : buf[i + j - 1] = w[j]
  /\ Rest(buf, i + Len(w)) = u

\* What is left of a buffer is in two parts when each is at its place.
LEMMA PartsFrom ==
  ASSUME NEW T, NEW buf \in Seq(T), NEW i \in 1..Len(buf) + 1,
         NEW w \in Seq(T), NEW u \in Seq(T),
         Rest(buf, i) = w \o u
  PROVE  PartedAt(buf, i, w, u)
<1>1. Len(buf) \in Nat /\ i \in Nat /\ i >= 1 /\ i <= Len(buf) + 1
      /\ Len(w) \in Nat /\ Len(u) \in Nat
  BY LenProperties
<1>2. \A k \in i..Len(buf) : buf[k] \in T
  BY <1>1, ElementOfSeq
<1>3. PICK r : r = w \o u /\ r = SubSeq(buf, i, Len(buf))
  BY DEF Rest
<1>4. /\ r \in Seq(T) /\ Len(r) = Len(w) + Len(u)
      /\ \A j \in 1..Len(w) + Len(u) :
           r[j] = IF j <= Len(w) THEN w[j] ELSE u[j - Len(w)]
  <2>1. r = w \o u
    BY <1>3
  <2> QED BY <2>1, ConcatProperties
<1>5. /\ Len(r) = Len(buf) - i + 1
      /\ \A j \in 1..Len(buf) - i + 1 : r[j] = buf[i + j - 1]
  BY <1>3, From
<1>6. Len(w) + Len(u) = Len(buf) - i + 1
  BY <1>1, <1>4, <1>5
<1>7. ASSUME NEW j \in 1..Len(w) PROVE buf[i + j - 1] = w[j]
  <2>1. j \in 1..Len(w) + Len(u) /\ j <= Len(w) /\ j \in 1..Len(buf) - i + 1
    BY <1>1, <1>6
  <2> QED BY <1>4, <1>5, <2>1
<1>8. Rest(buf, i + Len(w)) = u
  <2>1. PICK v : v = SubSeq(buf, i + Len(w), Len(buf))
    OBVIOUS
  <2>2. PICK m : m = i + Len(w)
    OBVIOUS
  <2>3. m \in 1..Len(buf) + 1
    BY <1>1, <1>6, <2>2
  <2>4. /\ v \in Seq(T)
        /\ Len(v) = Len(buf) - m + 1
        /\ \A k \in 1..Len(buf) - m + 1 : v[k] = buf[m + k - 1]
    BY <2>1, <2>2, <2>3, From
  <2>5. Len(v) = Len(u)
    BY <1>1, <1>6, <2>2, <2>4
  <2>6. ASSUME NEW k \in 1..Len(v) PROVE v[k] = u[k]
    <3>1. PICK j : j = Len(w) + k
      OBVIOUS
    <3>2. /\ j \in 1..Len(w) + Len(u) /\ ~(j <= Len(w)) /\ j - Len(w) = k
          /\ j \in 1..Len(buf) - i + 1 /\ i + j - 1 = m + k - 1
          /\ k \in 1..Len(buf) - m + 1
      BY <1>1, <1>6, <2>2, <2>5, <3>1
    <3> QED BY <1>4, <1>5, <2>4, <3>2
  <2>7. v = u
    BY <2>4, <2>5, <2>6, SeqEqual
  <2> QED BY <2>1, <2>7 DEF Rest
<1>9. i + Len(w) \in 1..Len(buf) + 1
  BY <1>1, <1>6
<1> QED BY <1>6, <1>7, <1>8, <1>9 DEF PartedAt

\* Concatenation in whichever order.
Associates(a, b, c) == a \o (b \o c) = (a \o b) \o c

\* Strings are concatenated in whichever order.
LEMMA Associative ==
  ASSUME NEW a \in Seq(Byte), NEW b \in Seq(Byte), NEW c \in Seq(Byte)
  PROVE  Associates(a, b, c)
BY ConcatAssociative DEF Associates

\* A sequence is what is left of a buffer.
RestIs(T, buf, i, r) ==
  /\ r \in Seq(T)
  /\ Len(r) = Len(buf) - i + 1
  /\ \A j \in 1..Len(buf) - i + 1 : r[j] = buf[i + j - 1]

\* Rest is.
LEMMA RestOf ==
  ASSUME NEW T, NEW buf \in Seq(T), NEW i \in 1..Len(buf) + 1
  PROVE  RestIs(T, buf, i, Rest(buf, i))
BY From DEF RestIs, Rest

\* substr of a string of bytes.
LEMMA SubSeqBytes ==
  ASSUME NEW buf \in Seq(Byte), NEW a \in 1..Len(buf) + 1, NEW b \in Int,
         a <= b + 1, b <= Len(buf), NEW v, v = SubSeq(buf, a, b)
  PROVE  /\ v \in Seq(Byte)
         /\ Len(v) = b - a + 1
         /\ \A j \in 1..b - a + 1 : v[j] = buf[a + j - 1]
<1>1. a \in Int /\ \A j \in a..b : buf[j] \in Byte
  BY LenProperties, ElementOfSeq
<1>2. /\ v \in Seq(Byte)
      /\ Len(v) = IF a <= b THEN b - a + 1 ELSE 0
      /\ \A j \in 1..b - a + 1 : v[j] = buf[a + j - 1]
  BY <1>1, SubSeqProperties
<1> QED BY <1>1, <1>2

\* Some number of a set is the smallest: what find_if over headers_ finds.
LEMMA MinExists ==
  ASSUME NEW S \in SUBSET Nat, S # {}
  PROVE  Min(S) \in S
<1> DEFINE R == {ss \in Nat \X Nat : ss[1] < ss[2]}
<1>1. IsWellFoundedOn(R, Nat)
  BY NatLessThanWellFounded DEF OpToRel
<1>2. PICK m \in S : \A y \in S : ~(<<y, m>> \in R)
  <2> HIDE DEF R
  <2> QED BY <1>1, WFMin
<1>3. \A y \in S : m <= y
  <2> SUFFICES ASSUME NEW y \in S PROVE m <= y
    OBVIOUS
  <2>1. ~(y < m)
    BY <1>2
  <2> QED BY <2>1
<1>4. S \in SUBSET Int
  OBVIOUS
<1> QED BY <1>2, <1>3, <1>4, MinIs
-----------------------------------------------------------------------------
(* Optional parameters: what oparam::serialize writes, and what the constructor *)
(* reads of it, of the beginning of it, and of any other bytes.                 *)

\* A set in ascending order, each element once.
Enumerates(s, n, S) ==
  /\ s \in [1..n -> S]
  /\ \A i, j \in 1..n : i < j => s[i] < s[j]
  /\ \A x \in S : \E i \in 1..n : s[i] = x

\* A set of numbers below a bound can be put in ascending order.
LEMMA EnumerationExists ==
  ASSUME NEW b \in Nat, NEW S, S \subseteq 0..b - 1
  PROVE  \E n \in Nat : \E s : Enumerates(s, n, S)
<1> DEFINE K == {k \in Nat : \A T : T \subseteq 0..k - 1
                               => \E n \in Nat : \E s : Enumerates(s, n, T)}
<1>1. 0 \in K
  <2> SUFFICES ASSUME NEW T, T \subseteq 0..0 - 1
               PROVE  \E n \in Nat : \E s : Enumerates(s, n, T)
    OBVIOUS
  <2>1. T = {}
    OBVIOUS
  <2>2. Enumerates([i \in 1..0 |-> 0], 0, T)
    BY <2>1 DEF Enumerates
  <2> QED BY <2>2
<1>2. ASSUME NEW k \in Nat, k \in K PROVE k + 1 \in K
  <2> SUFFICES ASSUME NEW T, T \subseteq 0..(k + 1) - 1
               PROVE  \E n \in Nat : \E s : Enumerates(s, n, T)
    OBVIOUS
  <2> DEFINE U == T \ {k}
  <2>1. U \subseteq 0..k - 1
    OBVIOUS
  <2>2. PICK n \in Nat : \E s : Enumerates(s, n, U)
    BY <1>2, <2>1
  <2>3. PICK s : Enumerates(s, n, U)
    BY <2>2
  <2>4. CASE k \notin T
    <3>1. U = T
      BY <2>4
    <3> QED BY <2>2, <3>1
  <2>5. CASE k \in T
    <3> DEFINE t == [i \in 1..n + 1 |-> IF i = n + 1 THEN k ELSE s[i]]
    <3>1. \A i \in 1..n : s[i] \in U /\ s[i] \in Nat /\ s[i] < k /\ s[i] \in T
      <4>1. \A i \in 1..n : s[i] \in U
        BY <2>3 DEF Enumerates
      <4>2. \A x \in U : x \in Nat /\ x < k /\ x \in T
        BY <2>1
      <4> HIDE DEF U
      <4> QED BY <4>1, <4>2
    <3>2. t[n + 1] = k /\ \A i \in 1..n : t[i] = s[i]
      OBVIOUS
    <3>3. t \in [1..n + 1 -> T]
      <4>1. \A i \in 1..n + 1 : i = n + 1 \/ i \in 1..n
        OBVIOUS
      <4> QED BY <2>5, <3>1, <4>1
    <3> HIDE DEF t
    <3>4. ASSUME NEW i \in 1..n + 1, NEW j \in 1..n + 1, i < j
          PROVE  t[i] < t[j]
      <4>1. i \in 1..n /\ (j = n + 1 \/ j \in 1..n)
        BY <3>4
      <4>2. \A h, m \in 1..n : h < m => s[h] < s[m]
        BY <2>3 DEF Enumerates
      <4> QED BY <3>1, <3>2, <3>4, <4>1, <4>2
    <3>5. ASSUME NEW x \in T PROVE \E i \in 1..n + 1 : t[i] = x
      <4>1. CASE x = k
        BY <3>2, <4>1
      <4>2. CASE x # k
        <5>1. PICK i \in 1..n : s[i] = x
          BY <2>3, <4>2 DEF Enumerates
        <5>2. i \in 1..n + 1
          OBVIOUS
        <5> QED BY <3>2, <5>1, <5>2
      <4> QED BY <4>1, <4>2
    <3>6. Enumerates(t, n + 1, T)
      BY <3>3, <3>4, <3>5 DEF Enumerates
    <3> QED BY <3>6
  <2> QED BY <2>4, <2>5
<1> HIDE DEF K
<1>3. b \in K
  BY <1>1, <1>2, NatSetInduction
<1> QED BY <1>3 DEF K

\* The tags of a map: each of them, and nothing else.
LEMMA AscendingIs ==
  ASSUME NEW S \in SUBSET U16s
  PROVE  \E n \in Nat : /\ Ascending(S) \in [1..n -> S]
                        /\ \A x \in S : \E i \in 1..n : Ascending(S)[i] = x
<1> DEFINE InOrder(s) == \A i, j \in DOMAIN s : i < j => s[i] < s[j]
           n == Cardinality(S)
<1>1. S \subseteq Nat /\ \E b \in Nat : S \subseteq 0..b - 1
  <2>1. \A b \in Nat : {x \in Nat : x < b} \subseteq 0..b - 1
    OBVIOUS
  <2>2. PICK b \in Nat : b = 65536
    OBVIOUS
  <2>3. U16s = {x \in Nat : x < b}
    BY <2>2 DEF U16s
  <2> QED BY <2>1, <2>3
<1>2. PICK m \in Nat : \E s : Enumerates(s, m, S)
  BY <1>1, EnumerationExists
<1>s. PICK s : Enumerates(s, m, S)
  BY <1>2
<1>3. ASSUME NEW k \in Nat, NEW t \in [1..k -> S], InOrder(t)
      PROVE  t \in Injection(1..k, S)
  <2>1. \A i, j \in 1..k : i < j => t[i] < t[j]
    BY <1>3
  <2>2. \A i \in 1..k : t[i] \in S /\ t[i] \in Nat
    <3>1. \A i \in 1..k : t[i] \in S
      OBVIOUS
    <3> QED BY <1>1, <3>1
  <2>3. \A i, j \in 1..k : t[i] = t[j] => i = j
    BY <2>1, <2>2
  <2> QED BY <2>3 DEF Injection, IsInjective
<1>4. s \in [1..m -> S] /\ InOrder(s)
  BY <1>s DEF Enumerates
<1>5. s \in Bijection(1..m, S)
  BY <1>s, <1>3, <1>4 DEF Bijection, Surjection, Enumerates
<1>6. ExistsBijection(1..m, S)
  BY <1>5 DEF ExistsBijection
<1>7. n = m
  BY <1>6, FS_CountingElements
<1>8. \E t \in [1..n -> S] : InOrder(t)
  BY <1>4, <1>7
<1> DEFINE a == Ascending(S)
<1>9. a \in [1..n -> S] /\ InOrder(a)
  BY <1>8 DEF Ascending
<1> HIDE DEF a
<1>10. a \in Injection(1..n, S)
  BY <1>3, <1>7, <1>9
<1>11. IsFiniteSet(1..n) /\ Cardinality(1..n) = n
  BY <1>7, FS_Interval
<1>12. a \in Surjection(1..n, S)
  <2>1. IsFiniteSet(S)
    BY <1>6, <1>7, <1>11, FS_Bijection
  <2> QED BY <1>10, <1>11, <2>1, FS_Injection
<1> QED BY <1>7, <1>9, <1>12 DEF Surjection, a

\* An optional parameter: a tag, and a value whose length two bytes can say.
Short == {s \in Seq(Byte) : Len(s) <= 65535}
Param == [tag : U16s, val : Short]

\* The bytes of one, and of several.
ParamBytes(q) == U16(q.tag) \o U16(Len(q.val)) \o q.val
ParamsBytes(ps) == FlattenSeq([i \in DOMAIN ps |-> ParamBytes(ps[i])])

\* A length of a value is a 16-bit number.
LEMMA ShortIs ==
  ASSUME NEW s \in Short
  PROVE  s \in Seq(Byte) /\ Len(s) \in Nat /\ Len(s) \in U16s
<1>1. s \in Seq(Byte) /\ Len(s) <= 65535
  BY DEF Short
<1>2. \A n \in Nat : n <= 65535 => n < 65536
  OBVIOUS
<1>3. Len(s) \in Nat
  BY <1>1, LenProperties
<1> QED BY <1>1, <1>2, <1>3 DEF U16s

\* Two bytes, two bytes, and a string.
LEMMA TwoAndTwo ==
  ASSUME NEW a \in Byte, NEW b \in Byte, NEW c \in Byte, NEW d \in Byte,
         NEW s \in Seq(Byte), NEW w, w = <<a, b>> \o <<c, d>> \o s
  PROVE  /\ w \in Seq(Byte) /\ Len(w) = Len(s) + 4
         /\ w[1] = a /\ w[2] = b /\ w[3] = c /\ w[4] = d
         /\ \A i \in 1..Len(s) : w[i + 4] = s[i]
<1>1. PICK x, y, z : x = <<a, b>> /\ y = <<c, d>> /\ z = x \o y
  OBVIOUS
<1>2. x \in Seq(Byte) /\ y \in Seq(Byte)
  BY <1>1
<1>3. /\ z \in Seq(Byte) /\ Len(z) = 4
      /\ z[1] = a /\ z[2] = b /\ z[3] = c /\ z[4] = d
  BY <1>1
<1>4. w = z \o s
  BY <1>1
<1>5. /\ w \in Seq(Byte) /\ Len(w) = 4 + Len(s) /\ Len(s) \in Nat
      /\ \A i \in 1..4 + Len(s) : w[i] = IF i <= 4 THEN z[i] ELSE s[i - 4]
  <2>1. /\ w \in Seq(Byte) /\ Len(w) = Len(z) + Len(s)
        /\ \A i \in 1..Len(z) + Len(s) :
             w[i] = IF i <= Len(z) THEN z[i] ELSE s[i - Len(z)]
    BY <1>3, <1>4, ConcatProperties
  <2> QED BY <1>3, <2>1, LenProperties
<1>6. ASSUME NEW i \in 1..Len(s) PROVE w[i + 4] = s[i]
  <2>1. i + 4 \in 1..4 + Len(s) /\ ~(i + 4 <= 4) /\ (i + 4) - 4 = i
    BY <1>5
  <2> QED BY <1>5, <2>1
<1>7. w[1] = a /\ w[2] = b /\ w[3] = c /\ w[4] = d /\ Len(w) = Len(s) + 4
  BY <1>3, <1>5
<1> QED BY <1>5, <1>6, <1>7

\* The bytes of a parameter.
LEMMA ParamBytesAre ==
  ASSUME NEW q \in Param, NEW w, w = ParamBytes(q)
  PROVE  /\ w \in Seq(Byte) /\ Len(w) = Len(q.val) + 4
         /\ w[1] * 256 + w[2] = q.tag
         /\ w[3] * 256 + w[4] = Len(q.val)
         /\ \A i \in 1..Len(q.val) : w[i + 4] = q.val[i]
<1>1. PICK tag, val : tag = q.tag /\ val = q.val
  OBVIOUS
<1>2. tag \in U16s /\ val \in Seq(Byte) /\ Len(val) \in U16s
  BY <1>1, ShortIs DEF Param
<1>3. PICK n \in U16s : n = Len(val)
  BY <1>2
<1>4. PICK a \in Byte, b \in Byte : U16(tag) = <<a, b>> /\ a * 256 + b = tag
  BY <1>2, U16Bytes DEF U16
<1>5. PICK c \in Byte, d \in Byte : U16(n) = <<c, d>> /\ c * 256 + d = n
  BY U16Bytes DEF U16
<1>6. w = <<a, b>> \o <<c, d>> \o val
  BY <1>1, <1>3, <1>4, <1>5 DEF ParamBytes
<1>7. /\ w \in Seq(Byte) /\ Len(w) = Len(val) + 4
      /\ w[1] = a /\ w[2] = b /\ w[3] = c /\ w[4] = d
      /\ \A i \in 1..Len(val) : w[i + 4] = val[i]
  BY <1>2, <1>6, TwoAndTwo
<1> QED BY <1>1, <1>3, <1>4, <1>5, <1>7

\* They are written one behind the other.
LEMMA ParamsCons ==
  ASSUME NEW q \in Param, NEW t \in Seq(Param)
  PROVE  /\ ParamsBytes(t) \in Seq(Byte)
         /\ ParamsBytes(<<q>> \o t) = ParamBytes(q) \o ParamsBytes(t)
<1> DEFINE bytes(s) == [i \in DOMAIN s |-> ParamBytes(s[i])]
           u == <<q>> \o t
<1>1. ASSUME NEW s \in Seq(Param)
      PROVE  /\ bytes(s) \in Seq(Seq(Byte))
             /\ Len(bytes(s)) = Len(s)
             /\ \A i \in 1..Len(s) : bytes(s)[i] = ParamBytes(s[i])
             /\ ParamsBytes(s) = FlattenSeq(bytes(s))
  <2>1. DOMAIN s = 1..Len(s) /\ Len(s) \in Nat
    BY LenProperties
  <2>2. \A i \in 1..Len(s) : ParamBytes(s[i]) \in Seq(Byte)
    BY ElementOfSeq, ParamBytesAre
  <2>3. ParamsBytes(s) = FlattenSeq(bytes(s))
    BY DEF ParamsBytes
  <2> QED BY <2>1, <2>2, <2>3
<1> HIDE DEF bytes
<1>2. ParamsBytes(t) \in Seq(Byte)
  BY <1>1, FlattenType
<1>3. /\ u \in Seq(Param) /\ Len(u) = 1 + Len(t) /\ Len(t) \in Nat
      /\ u[1] = q
      /\ \A i \in 1..Len(t) : u[i + 1] = t[i]
  <2>1. <<q>> \in Seq(Param) /\ Len(<<q>>) = 1 /\ <<q>>[1] = q
    OBVIOUS
  <2>2. /\ u \in Seq(Param) /\ Len(u) = 1 + Len(t)
        /\ \A i \in 1..1 + Len(t) : u[i] = IF i <= 1 THEN <<q>>[i] ELSE t[i - 1]
    BY <2>1, ConcatProperties
  <2> HIDE DEF u
  <2>3. Len(t) \in Nat
    BY LenProperties
  <2>4. ASSUME NEW i \in 1..Len(t) PROVE u[i + 1] = t[i]
    <3>1. i + 1 \in 1..1 + Len(t) /\ ~(i + 1 <= 1) /\ i + 1 - 1 = i
      BY <2>3
    <3> QED BY <2>2, <3>1
  <2>5. 1 \in 1..1 + Len(t)
    BY <2>3
  <2> QED BY <2>1, <2>2, <2>3, <2>4, <2>5
<1> HIDE DEF u
<1>x. PICK x \in Seq(Byte) : x = ParamBytes(q)
  BY ParamBytesAre
<1>4. bytes(u) = <<x>> \o bytes(t)
  <2> DEFINE v == <<x>> \o bytes(t)
  <2>2. <<x>> \in Seq(Seq(Byte)) /\ Len(<<x>>) = 1 /\ <<x>>[1] = x
    OBVIOUS
  <2>3. /\ v \in Seq(Seq(Byte)) /\ Len(v) = 1 + Len(t)
        /\ \A i \in 1..1 + Len(t) : v[i] = IF i <= 1 THEN <<x>>[i] ELSE bytes(t)[i - 1]
    BY <1>1, <2>2, ConcatProperties
  <2> HIDE DEF v
  <2>4. bytes(u) \in Seq(Seq(Byte)) /\ Len(bytes(u)) = 1 + Len(t)
    BY <1>1, <1>3
  <2>5. ASSUME NEW i \in 1..1 + Len(t) PROVE bytes(u)[i] = v[i]
    <3>1. CASE i = 1
      BY <1>1, <1>3, <1>x, <2>2, <2>3, <3>1
    <3>2. CASE i # 1
      <4>1. /\ i - 1 \in 1..Len(t) /\ ~(i <= 1) /\ i - 1 + 1 = i
            /\ i \in 1..Len(u)
        BY <1>3, <3>2
      <4>2. bytes(u)[i] = ParamBytes(u[i]) /\ u[i] = t[i - 1]
        BY <1>1, <1>3, <4>1
      <4>3. bytes(t)[i - 1] = ParamBytes(t[i - 1])
        BY <1>1, <4>1
      <4> QED BY <2>3, <4>1, <4>2, <4>3
    <3> QED BY <3>1, <3>2
  <2>6. bytes(u) = v
    BY <2>3, <2>4, <2>5, SeqEqual
  <2> QED BY <2>6 DEF v
<1>5. FlattenSeq(<<x>> \o bytes(t)) = x \o FlattenSeq(bytes(t))
  BY <1>1, FlattenCons
<1>6. ParamsBytes(u) = x \o ParamsBytes(t)
  BY <1>1, <1>3, <1>4, <1>5
<1> QED BY <1>2, <1>6, <1>x DEF u

\* No parameter, no bytes.
LEMMA NoParams == ParamsBytes(<<>>) = <<>>
BY FlattenEmpty DEF ParamsBytes

\* One turn of the loop of the constructor, at position i of buf, when g says what
\* the turns behind it return.
ParamsTurn(buf, g, i) ==
  IF Len(buf) - i + 1 < 4 THEN [ok |-> TRUE, params |-> <<>>, stop |-> i]
  ELSE LET tag    == buf[i] * 256 + buf[i + 1]
           length == buf[i + 2] * 256 + buf[i + 3]
           next   == i + 4 + length
       IN  IF next > Len(buf) + 1
           THEN [ok |-> FALSE, params |-> <<>>, stop |-> i]
           ELSE [g[next] EXCEPT !.params =
                   <<[tag |-> tag, val |-> SubSeq(buf, i + 4, next - 1)]>> \o @]

ParamsLoop(buf, g) == g = [i \in 1..Len(buf) + 1 |-> ParamsTurn(buf, g, i)]

\* Two bytes make a 16-bit number.
LEMMA TwoBytes ==
  ASSUME NEW a \in Byte, NEW b \in Byte
  PROVE  a * 256 + b \in U16s
<1>1. a \in Nat /\ a <= 255 /\ b \in Nat /\ b <= 255
  BY DEF Byte
<1>2. a * 256 \in Nat /\ a * 256 <= 65280
  BY <1>1
<1>3. PICK m \in Nat : m = a * 256 /\ m <= 65280
  BY <1>2
<1>4. m + b \in Nat /\ m + b < 65536
  BY <1>1, <1>3
<1> QED BY <1>3, <1>4 DEF U16s

\* What is read of a parameter at position i: its tag and where the next one is.
LEMMA ParamRead ==
  ASSUME NEW buf \in Seq(Byte), NEW i \in 1..Len(buf) + 1,
         ~(Len(buf) - i + 1 < 4)
  PROVE  /\ buf[i] * 256 + buf[i + 1] \in U16s
         /\ buf[i + 2] * 256 + buf[i + 3] \in U16s
<1>1. /\ Len(buf) \in Nat
      /\ i \in 1..Len(buf) /\ i + 1 \in 1..Len(buf)
      /\ i + 2 \in 1..Len(buf) /\ i + 3 \in 1..Len(buf)
  BY LenProperties
<1>2. PICK a \in Byte, b \in Byte, c \in Byte, d \in Byte :
        a = buf[i] /\ b = buf[i + 1] /\ c = buf[i + 2] /\ d = buf[i + 3]
  BY <1>1, ElementOfSeq
<1>3. a * 256 + b \in U16s /\ c * 256 + d \in U16s
  BY TwoBytes
<1> QED BY <1>2, <1>3

\* A turn looks at turns behind it only.
LEMMA ParamsTurnLooksAhead ==
  ASSUME NEW buf \in Seq(Byte), NEW f, NEW g, NEW i \in 1..Len(buf) + 1,
         \A j \in i + 1..Len(buf) + 1 : f[j] = g[j]
  PROVE  ParamsTurn(buf, f, i) = ParamsTurn(buf, g, i)
<1> DEFINE length == buf[i + 2] * 256 + buf[i + 3]
           next == i + 4 + length
<1>1. Len(buf) \in Nat /\ i \in Nat
  BY LenProperties
<1>2. CASE Len(buf) - i + 1 < 4
  BY <1>2 DEF ParamsTurn
<1>3. CASE ~(Len(buf) - i + 1 < 4)
  <2>1. length \in Nat
    BY <1>3, ParamRead DEF U16s
  <2>2. \A l \in Nat : ~(i + 4 + l > Len(buf) + 1) => i + 4 + l \in i + 1..Len(buf) + 1
    BY <1>1
  <2>3. ~(next > Len(buf) + 1) => next \in i + 1..Len(buf) + 1
    BY <2>1, <2>2
  <2>4. ~(next > Len(buf) + 1) => f[next] = g[next]
    BY <2>3
  <2> QED BY <1>3, <2>4 DEF ParamsTurn
<1> QED BY <1>2, <1>3

\* There is such a function: the loop ends, since it moves on at each turn.
LEMMA ParamsLoopExists ==
  ASSUME NEW buf \in Seq(Byte)
  PROVE  \E g : ParamsLoop(buf, g)
<1> DEFINE n == Len(buf) + 1
           Behind(g, k) == /\ g = [i \in 1..n |-> g[i]]
                         /\ \A i \in 1..n : i > n - k => g[i] = ParamsTurn(buf, g, i)
           K == {k \in Nat : \E g : Behind(g, k)}
<1>1. n \in Nat
  BY LenProperties
<1>2. 0 \in K
  <2> DEFINE g == [i \in 1..n |-> 0]
  <2>1. g = [i \in 1..n |-> g[i]]
    OBVIOUS
  <2>2. \A i \in 1..n : ~(i > n - 0)
    BY <1>1
  <2> HIDE DEF g, n
  <2>3. Behind(g, 0)
    BY <2>1, <2>2
  <2> QED BY <2>3
<1>3. ASSUME NEW k \in Nat, k \in K PROVE k + 1 \in K
  <2>1. PICK f : Behind(f, k)
    BY <1>3
  <2> DEFINE g == [i \in 1..n |-> IF i = n - k THEN ParamsTurn(buf, f, i) ELSE f[i]]
  <2>2. g = [i \in 1..n |-> g[i]]
    OBVIOUS
  <2>3. \A j \in 1..n : j # n - k => g[j] = f[j]
    OBVIOUS
  <2>4. n - k \in 1..n => g[n - k] = ParamsTurn(buf, f, n - k)
    OBVIOUS
  <2> HIDE DEF g
  <2>5. ASSUME NEW i \in 1..n, i > n - (k + 1)
        PROVE  g[i] = ParamsTurn(buf, g, i)
    <3>1. i = n - k \/ i > n - k
      BY <1>1, <2>5
    <3>2. \A j \in i + 1..n : j \in 1..n /\ j # n - k
      BY <1>1, <3>1
    <3>3. \A j \in i + 1..n : f[j] = g[j]
      BY <2>3, <3>2
    <3>4. ParamsTurn(buf, f, i) = ParamsTurn(buf, g, i)
      BY <3>3, ParamsTurnLooksAhead
    <3>5. CASE i = n - k
      BY <2>4, <3>4, <3>5
    <3>6. CASE i > n - k
      <4>1. i # n - k
        BY <1>1, <3>6
      <4>2. f[i] = ParamsTurn(buf, f, i)
        BY <2>1, <3>6
      <4> QED BY <2>3, <3>4, <4>1, <4>2
    <3> QED BY <3>1, <3>5, <3>6
  <2>6. Behind(g, k + 1)
    BY <2>2, <2>5
  <2> HIDE DEF Behind
  <2> QED BY <2>6
<1>4. n \in K
  <2> HIDE DEF K
  <2>1. Nat \subseteq K
    BY <1>2, <1>3, NatSetInduction
  <2> QED BY <1>1, <2>1
<1>5. PICK g : Behind(g, n)
  BY <1>4
<1>6. \A i \in 1..n : i > n - n
  BY <1>1
<1>7. g = [i \in 1..n |-> ParamsTurn(buf, g, i)]
  <2>1. \A i \in 1..n : g[i] = ParamsTurn(buf, g, i)
    BY <1>5, <1>6
  <2>2. g = [i \in 1..n |-> g[i]]
    BY <1>5
  <2> QED BY <2>1, <2>2
<1> QED BY <1>7 DEF ParamsLoop

\* The constructor returns what such a function says of the first position.
LEMMA ParametersIs ==
  ASSUME NEW buf \in Seq(Byte)
  PROVE  \E g : ParamsLoop(buf, g) /\ Parameters(buf) = g[1]
<1> DEFINE g == CHOOSE g : ParamsLoop(buf, g)
<1>1. ParamsLoop(buf, g)
  BY ParamsLoopExists
<1>2. Parameters(buf) = g[1]
  BY DEF Parameters, ParamsLoop, ParamsTurn
<1> QED BY <1>1, <1>2

\* A sequence begins with another one, and what is left begins what is left there.
Overlaps(a, b, c, d) == \E y \in Seq(Byte) : a = c \o y /\ y \o b = d

\* What two readings of the same bytes have in common.
LEMMA Overlap ==
  ASSUME NEW a \in Seq(Byte), NEW b \in Seq(Byte),
         NEW c \in Seq(Byte), NEW d \in Seq(Byte),
         a \o b = c \o d, Len(c) <= Len(a)
  PROVE  Overlaps(a, b, c, d)
<1> DEFINE w == a \o b
           n == Len(a)
           k == Len(c)
           l == Len(w)
           y == SubSeq(w, k + 1, n)
<1>1. /\ SubSeq(w, 1, n) = a /\ SubSeq(w, n + 1, l) = b
      /\ w \in Seq(Byte) /\ l = n + Len(b)
  BY ConcatParts, ConcatProperties
<1>2. SubSeq(w, 1, k) = c /\ SubSeq(w, k + 1, l) = d
  <2>1. /\ SubSeq(c \o d, 1, Len(c)) = c
        /\ SubSeq(c \o d, Len(c) + 1, Len(c \o d)) = d
    BY ConcatParts
  <2> QED BY <2>1
<1>3. n \in Nat /\ k \in Nat /\ l \in Nat /\ k <= n /\ n <= l
  BY <1>1, LenProperties
<1> HIDE DEF w, n, k, l
<1>4. SubSeq(w, 1, k) \o y = SubSeq(w, 1, n)
  <2>1. 1 \in 1..l + 1 /\ k \in 1 - 1..l /\ n \in k..l
    BY <1>3
  <2> QED BY <1>1, <2>1, ConcatAdjacentSubSeq DEF l
<1>5. y \o SubSeq(w, n + 1, l) = SubSeq(w, k + 1, l)
  <2>1. k + 1 \in 1..l + 1 /\ n \in (k + 1) - 1..l /\ l \in n..l
    BY <1>3
  <2> QED BY <1>1, <2>1, ConcatAdjacentSubSeq DEF l
<1>6. y \in Seq(Byte)
  <2>1. /\ k + 1 \in 1..Len(w) + 1 /\ n \in Int /\ k + 1 <= n + 1
        /\ n <= Len(w)
    BY <1>3 DEF l
  <2> QED BY <1>1, <2>1, SubSeqBytes
<1> QED BY <1>1, <1>2, <1>4, <1>5, <1>6 DEF Overlaps

\* Parameters in front of others.
Prepended(x, r) == [r EXCEPT !.params = x \o @]

\* A parameter in front of those that the rest of the loop returns.
LEMMA ExtendedParams ==
  ASSUME NEW a, NEW t, NEW s, NEW x, NEW r,
         r = [ok |-> a, params |-> t, stop |-> s]
  PROVE  Prepended(x, r) = [ok |-> a, params |-> x \o t, stop |-> s]
<1>1. PICK y : y = x \o t
  OBVIOUS
<1>2. [r EXCEPT !.params = y] = [ok |-> a, params |-> y, stop |-> s]
  OBVIOUS
<1>3. r.params = t
  OBVIOUS
<1> QED BY <1>1, <1>2, <1>3 DEF Prepended

\* What the loop returns of a buffer that ends where it wants: parameters that were
\* written, from the first one on, and all of them when nothing is missing (x).
PrefixRead(buf, ps, x, r) ==
  \E ok \in BOOLEAN, rs \in Seq(Param), stop \in 1..Len(buf) + 1 :
    /\ r = [ok |-> ok, params |-> rs, stop |-> stop]
    /\ ok => \E left \in Seq(Param) : ps = rs \o left
    /\ x = <<>> => ok /\ rs = ps /\ stop = Len(buf) + 1

\* A turn that takes a parameter, and leaves y.
TakesParam(buf, g, i, q, y) ==
  \E next \in i + 1..Len(buf) + 1 :
    /\ Rest(buf, next) = y
    /\ ParamsTurn(buf, g, i) = Prepended(<<q>>, g[next])

\* The turn at a parameter that is in the buffer completely.
LEMMA WholeParam ==
  ASSUME NEW buf \in Seq(Byte), NEW g, NEW i \in 1..Len(buf) + 1,
         NEW q \in Param, NEW y \in Seq(Byte),
         Rest(buf, i) = ParamBytes(q) \o y
  PROVE  TakesParam(buf, g, i, q, y)
<1> DEFINE n == Len(buf)
<1>1. PICK w, val, len : w = ParamBytes(q) /\ val = q.val /\ len = Len(q.val)
  OBVIOUS
<1>2. /\ w \in Seq(Byte) /\ Len(w) = len + 4
      /\ w[1] * 256 + w[2] = q.tag
      /\ w[3] * 256 + w[4] = len
      /\ \A j \in 1..len : w[j + 4] = val[j]
  BY <1>1, ParamBytesAre
<1>3. val \in Seq(Byte) /\ len = Len(val) /\ len \in Nat /\ n \in Nat /\ i \in Nat /\ i >= 1
  BY <1>1, ShortIs, LenProperties DEF Param
<1>4. /\ i + Len(w) \in 1..n + 1
      /\ Len(w) + Len(y) = n - i + 1
      /\ \A j \in 1..Len(w) : buf[i + j - 1] = w[j]
      /\ Rest(buf, i + Len(w)) = y
  <2>1. PartedAt(buf, i, w, y)
    BY <1>1, <1>2, PartsFrom
  <2> QED BY <2>1 DEF PartedAt
<1>5. PICK next : next = i + 4 + len
  OBVIOUS
<1>6. next \in i + 1..n + 1 /\ Rest(buf, next) = y /\ next \in Nat
  <2>1. next = i + Len(w)
    BY <1>2, <1>3, <1>5
  <2>2. \A m, l, j \in Nat : j + 4 + l \in 1..m + 1
          => j + 4 + l \in j + 1..m + 1 /\ j + 4 + l \in Nat
    OBVIOUS
  <2>3. next \in 1..n + 1 /\ Rest(buf, next) = y
    BY <1>4, <2>1
  <2>4. i + 4 + len \in 1..n + 1
    BY <1>5, <2>3
  <2> HIDE DEF n
  <2>5. i + 4 + len \in i + 1..n + 1 /\ i + 4 + len \in Nat
    BY <1>3, <2>2, <2>4
  <2> QED BY <1>5, <2>3, <2>5
<1>7. /\ buf[i] = w[1] /\ buf[i + 1] = w[2]
      /\ buf[i + 2] = w[3] /\ buf[i + 3] = w[4]
  <2>1. /\ 1 \in 1..Len(w) /\ 2 \in 1..Len(w) /\ 3 \in 1..Len(w) /\ 4 \in 1..Len(w)
        /\ i + 1 - 1 = i /\ i + 2 - 1 = i + 1 /\ i + 3 - 1 = i + 2 /\ i + 4 - 1 = i + 3
    BY <1>2, <1>3
  <2> QED BY <1>4, <2>1
<1>8. SubSeq(buf, i + 4, next - 1) = val
  <2>1. PICK a, b, v : a = i + 4 /\ b = next - 1 /\ v = SubSeq(buf, a, b)
    OBVIOUS
  <2>2. a \in 1..n + 1 /\ b \in Int /\ a <= b + 1 /\ b <= n /\ b - a + 1 = len
    <3>1. \A m, l, j \in Nat : j + 4 + l \in j + 1..m + 1
            => /\ j + 4 \in 1..m + 1 /\ (j + 4 + l) - 1 \in Int
               /\ j + 4 <= (j + 4 + l) - 1 + 1 /\ (j + 4 + l) - 1 <= m
               /\ (j + 4 + l) - 1 - (j + 4) + 1 = l
      OBVIOUS
    <3> HIDE DEF n
    <3> QED BY <1>3, <1>5, <1>6, <2>1, <3>1
  <2>3. /\ v \in Seq(Byte) /\ Len(v) = b - a + 1
        /\ \A j \in 1..b - a + 1 : v[j] = buf[a + j - 1]
    BY <2>1, <2>2, SubSeqBytes
  <2>4. v \in Seq(Byte) /\ Len(v) = len /\ \A j \in 1..len : v[j] = buf[a + j - 1]
    BY <2>2, <2>3
  <2>5. ASSUME NEW j \in 1..Len(v) PROVE v[j] = val[j]
    <3>1. /\ j \in 1..len /\ j + 4 \in 1..Len(w)
          /\ i + (j + 4) - 1 = a + j - 1
      <4>1. Len(w) = len + 4 /\ j \in 1..len /\ a = i + 4
        BY <1>2, <2>1, <2>4
      <4>2. \A l, m \in Nat : \A h \in 1..l :
              h + 4 \in 1..l + 4 /\ m + (h + 4) - 1 = m + 4 + h - 1
        OBVIOUS
      <4>3. j + 4 \in 1..len + 4 /\ i + (j + 4) - 1 = i + 4 + j - 1
        BY <1>3, <4>1, <4>2
      <4> QED BY <4>1, <4>3
    <3>2. v[j] = buf[a + j - 1] /\ w[j + 4] = val[j]
      BY <1>2, <2>4, <3>1
    <3> QED BY <1>4, <3>1, <3>2
  <2>6. v = val
    BY <1>3, <2>4, <2>5, SeqEqual
  <2> QED BY <2>1, <2>6
<1>9. ~(n - i + 1 < 4) /\ ~(next > n + 1)
  BY <1>2, <1>3, <1>4, <1>6, LenProperties
<1>10. q = [tag |-> q.tag, val |-> val]
  BY <1>1 DEF Param
<1>11. ParamsTurn(buf, g, i)
         = Prepended(<<[tag |-> q.tag, val |-> val]>>, g[next])
  <2>1. PICK tag, length :
          tag = buf[i] * 256 + buf[i + 1] /\ length = buf[i + 2] * 256 + buf[i + 3]
    OBVIOUS
  <2>2. tag = q.tag /\ length = len
    BY <1>2, <1>7, <2>1
  <2>3. ~(n - i + 1 < 4) /\ ~(i + 4 + length > n + 1)
    BY <1>5, <1>9, <2>2
  <2>4. ParamsTurn(buf, g, i) =
          Prepended(<<[tag |-> tag, val |-> SubSeq(buf, i + 4, (i + 4 + length) - 1)]>>,
                    g[i + 4 + length])
    BY <2>1, <2>3 DEF ParamsTurn, Prepended
  <2>5. i + 4 + length = next
    BY <1>5, <2>2
  <2>6. ParamsTurn(buf, g, i) =
          Prepended(<<[tag |-> tag, val |-> SubSeq(buf, i + 4, next - 1)]>>, g[next])
    BY <2>4, <2>5
  <2> QED BY <1>8, <2>2, <2>6
<1> QED BY <1>6, <1>10, <1>11 DEF TakesParam

\* A turn that takes nothing.
TakesNothing(buf, g, i) ==
  \E ok \in BOOLEAN :
    ParamsTurn(buf, g, i) = [ok |-> ok, params |-> <<>>, stop |-> i]

\* The turn at a parameter that is cut.
LEMMA CutParam ==
  ASSUME NEW buf \in Seq(Byte), NEW g, NEW i \in 1..Len(buf) + 1,
         NEW q \in Param, NEW y \in Seq(Byte),
         Rest(buf, i) \o y = ParamBytes(q), y # <<>>
  PROVE  TakesNothing(buf, g, i)
<1> DEFINE n == Len(buf)
<1>1. PICK w, len, r : w = ParamBytes(q) /\ len = Len(q.val) /\ r = Rest(buf, i)
  OBVIOUS
<1>2. /\ w \in Seq(Byte) /\ Len(w) = len + 4
      /\ w[3] * 256 + w[4] = len
  BY <1>1, ParamBytesAre
<1>3. len \in Nat /\ n \in Nat /\ i \in Nat /\ i >= 1 /\ Len(y) \in Nat /\ Len(y) # 0
  BY <1>1, ShortIs, LenProperties, EmptySeq DEF Param
<1>4. /\ r \in Seq(Byte) /\ Len(r) = n - i + 1
      /\ \A j \in 1..n - i + 1 : r[j] = buf[i + j - 1]
  BY <1>1, From DEF Rest
<1>5. /\ Len(w) = Len(r) + Len(y)
      /\ \A j \in 1..Len(r) + Len(y) : w[j] = IF j <= Len(r) THEN r[j] ELSE y[j - Len(r)]
  <2>1. w = r \o y
    BY <1>1
  <2> QED BY <1>4, <2>1, ConcatProperties
<1>6. CASE n - i + 1 < 4
  BY <1>6 DEF ParamsTurn, TakesNothing
<1>7. CASE ~(n - i + 1 < 4)
  <2>1. buf[i + 2] = w[3] /\ buf[i + 3] = w[4]
    <3>1. /\ 3 \in 1..n - i + 1 /\ 4 \in 1..n - i + 1
          /\ 3 \in 1..Len(r) + Len(y) /\ 4 \in 1..Len(r) + Len(y)
          /\ 3 <= Len(r) /\ 4 <= Len(r)
          /\ i + 3 - 1 = i + 2 /\ i + 4 - 1 = i + 3
      BY <1>3, <1>4, <1>7
    <3> QED BY <1>4, <1>5, <3>1
  <2>2. PICK length : length = buf[i + 2] * 256 + buf[i + 3]
    OBVIOUS
  <2>3. length = len
    BY <1>2, <2>1, <2>2
  <2>4. i + 4 + length > n + 1
    <3>1. \A m, l, j, c \in Nat :
            l + 4 = m - j + 1 + c /\ c # 0 => j + 4 + l > m + 1
      OBVIOUS
    <3>2. len + 4 = n - i + 1 + Len(y)
      BY <1>2, <1>4, <1>5
    <3> HIDE DEF n
    <3> QED BY <1>3, <2>3, <3>1, <3>2
  <2> QED BY <1>7, <2>2, <2>4 DEF ParamsTurn, TakesNothing
<1> QED BY <1>6, <1>7

\* Parameters are put together in whichever order.
LEMMA AssociativeParams ==
  ASSUME NEW a \in Seq(Param), NEW b \in Seq(Param), NEW c \in Seq(Param)
  PROVE  Associates(a, b, c)
BY ConcatAssociative DEF Associates

\* The loop over a buffer that is the beginning of what serialize() writes.
LEMMA ParamsReadBack ==
  ASSUME NEW buf \in Seq(Byte), NEW g, ParamsLoop(buf, g)
  PROVE  \A ps \in Seq(Param), i \in 1..Len(buf) + 1, x \in Seq(Byte) :
           Rest(buf, i) \o x = ParamsBytes(ps) => PrefixRead(buf, ps, x, g[i])
<1> DEFINE n == Len(buf)
           Back(ps) == \A i \in 1..n + 1, x \in Seq(Byte) :
             Rest(buf, i) \o x = ParamsBytes(ps) => PrefixRead(buf, ps, x, g[i])
           K == {k \in Nat : \A ps \in Seq(Param) : Len(ps) = k => Back(ps)}
<1>1. n \in Nat /\ <<>> \in Seq(Param)
  BY LenProperties
<1>2. \A i \in 1..n + 1 : g[i] = ParamsTurn(buf, g, i)
  BY DEF ParamsLoop
<1>r. \A i \in 1..n + 1 : Rest(buf, i) \in Seq(Byte) /\ Len(Rest(buf, i)) = n - i + 1
  BY From DEF Rest
<1>3. 0 \in K
  <2> SUFFICES ASSUME NEW ps \in Seq(Param), Len(ps) = 0,
                      NEW i \in 1..n + 1, NEW x \in Seq(Byte),
                      Rest(buf, i) \o x = ParamsBytes(ps)
               PROVE  PrefixRead(buf, ps, x, g[i])
    OBVIOUS
  <2>1. ps = <<>>
    BY EmptySeq
  <2>2. Rest(buf, i) = <<>>
    BY <1>r, <2>1, NoParams, ConcatEqualIffEmpty
  <2>3. n - i + 1 = 0
    BY <1>r, <2>2
  <2>4. n - i + 1 < 4 /\ i = n + 1
    BY <1>1, <2>3
  <2>5. ParamsTurn(buf, g, i) = [ok |-> TRUE, params |-> <<>>, stop |-> i]
    BY <2>4 DEF ParamsTurn
  <2>6. ps = <<>> \o <<>>
    BY <1>1, <2>1, ConcatEmptySeq
  <2> QED BY <1>1, <1>2, <2>1, <2>4, <2>5, <2>6 DEF PrefixRead
<1>4. ASSUME NEW k \in Nat, k \in K PROVE k + 1 \in K
  <2> SUFFICES ASSUME NEW ps \in Seq(Param), Len(ps) = k + 1,
                      NEW i \in 1..n + 1, NEW x \in Seq(Byte),
                      Rest(buf, i) \o x = ParamsBytes(ps)
               PROVE  PrefixRead(buf, ps, x, g[i])
    OBVIOUS
  <2>1. PICK q \in Param, t \in Seq(Param) : ps = <<q>> \o t /\ Len(ps) = Len(t) + 1
    <3>1. ps # <<>>
      BY EmptySeq
    <3> QED BY <3>1, FirstAndRest
  <2>2. PICK w \in Seq(Byte), u \in Seq(Byte) :
          w = ParamBytes(q) /\ u = ParamsBytes(t)
    BY ParamBytesAre, ParamsCons
  <2>3. PICK r \in Seq(Byte) : r = Rest(buf, i)
    BY <1>r
  <2>4. r \o x = w \o u
    BY <2>1, <2>2, <2>3, ParamsCons
  <2>5. Len(r) \in Nat /\ Len(w) \in Nat /\ Len(u) \in Nat /\ Len(t) \in Nat
    BY LenProperties
  <2>6. CASE Len(w) <= Len(r)
    <3>0. Overlaps(r, x, w, u)
      BY <2>4, <2>6, Overlap
    <3>1. PICK y \in Seq(Byte) : r = w \o y /\ y \o x = u
      BY <3>0 DEF Overlaps
    <3>2. PICK next \in i + 1..n + 1 :
            /\ Rest(buf, next) = y
            /\ ParamsTurn(buf, g, i) = Prepended(<<q>>, g[next])
      <4>1. TakesParam(buf, g, i, q, y)
        BY <2>2, <2>3, <3>1, WholeParam
      <4> QED BY <4>1 DEF TakesParam
    <3>3. next \in 1..n + 1
      BY <1>1
    <3>4. Len(t) = k
      BY <2>1, <2>5
    <3>5. PrefixRead(buf, t, x, g[next])
      BY <1>4, <2>2, <3>1, <3>2, <3>3, <3>4
    <3>6. PICK ok \in BOOLEAN, rs \in Seq(Param), stop \in 1..n + 1 :
            /\ g[next] = [ok |-> ok, params |-> rs, stop |-> stop]
            /\ ok => \E left \in Seq(Param) : t = rs \o left
            /\ x = <<>> => ok /\ rs = t /\ stop = n + 1
      BY <3>5 DEF PrefixRead
    <3>7. g[i] = [ok |-> ok, params |-> <<q>> \o rs, stop |-> stop]
      <4>1. PICK h, z : h = g[next] /\ z = <<q>>
        OBVIOUS
      <4>2. h = [ok |-> ok, params |-> rs, stop |-> stop]
        BY <3>6, <4>1
      <4>3. Prepended(z, h) = [ok |-> ok, params |-> z \o rs, stop |-> stop]
        BY <4>2, ExtendedParams
      <4>4. g[i] = Prepended(z, h)
        BY <1>2, <3>2, <4>1
      <4> QED BY <4>1, <4>3, <4>4
    <3>8. <<q>> \in Seq(Param) /\ <<q>> \o rs \in Seq(Param)
      <4>1. <<q>> \in Seq(Param)
        OBVIOUS
      <4> QED BY <4>1, ConcatProperties
    <3>9. ok => \E left \in Seq(Param) : ps = (<<q>> \o rs) \o left
      <4> SUFFICES ASSUME ok PROVE \E left \in Seq(Param) : ps = (<<q>> \o rs) \o left
        OBVIOUS
      <4>1. PICK left \in Seq(Param) : t = rs \o left
        BY <3>6
      <4>2. PICK z \in Seq(Param) : z = <<q>>
        BY <3>8
      <4>3. Associates(z, rs, left)
        BY AssociativeParams
      <4> QED BY <2>1, <4>1, <4>2, <4>3 DEF Associates
    <3>10. x = <<>> => ok /\ <<q>> \o rs = ps /\ stop = n + 1
      BY <2>1, <3>6
    <3> QED BY <3>7, <3>8, <3>9, <3>10 DEF PrefixRead
  <2>7. CASE ~(Len(w) <= Len(r))
    <3>1. PICK y \in Seq(Byte) : w = r \o y /\ y \o u = x
      <4>1. w \o u = r \o x /\ Len(r) <= Len(w)
        BY <2>4, <2>5, <2>7
      <4>2. Overlaps(w, u, r, x)
        BY <4>1, Overlap
      <4> QED BY <4>2 DEF Overlaps
    <3>2. y # <<>>
      <4>1. r \o <<>> = r
        BY ConcatEmptySeq
      <4> QED BY <2>5, <2>7, <3>1, <4>1
    <3>3. PICK ok \in BOOLEAN :
            ParamsTurn(buf, g, i) = [ok |-> ok, params |-> <<>>, stop |-> i]
      <4>1. TakesNothing(buf, g, i)
        BY <2>2, <2>3, <3>1, <3>2, CutParam
      <4> QED BY <4>1 DEF TakesNothing
    <3>4. ps = <<>> \o ps
      BY ConcatEmptySeq
    <3>5. x # <<>>
      BY <3>1, <3>2, ConcatEqualIffEmpty
    <3> QED BY <1>1, <1>2, <3>3, <3>4, <3>5 DEF PrefixRead
  <2> QED BY <2>6, <2>7
<1> HIDE DEF K
<1>5. Nat \subseteq K
  BY <1>3, <1>4, NatSetInduction
<1> QED BY <1>5, LenProperties DEF K

\* What the loop returns of any buffer.
ParamsTyped(buf, r) ==
  \E ok \in BOOLEAN, rs \in Seq(Param), stop \in 1..Len(buf) + 1 :
    r = [ok |-> ok, params |-> rs, stop |-> stop]

\* A turn returns parameters when the turns behind it do.
LEMMA ParamsTurnType ==
  ASSUME NEW buf \in Seq(Byte), NEW g, NEW i \in 1..Len(buf) + 1,
         \A j \in i + 1..Len(buf) + 1 : ParamsTyped(buf, g[j])
  PROVE  ParamsTyped(buf, ParamsTurn(buf, g, i))
<1> DEFINE n == Len(buf)
<1>1. n \in Nat /\ i \in Nat /\ i >= 1 /\ <<>> \in Seq(Param)
  BY LenProperties
<1>2. CASE n - i + 1 < 4
  BY <1>1, <1>2 DEF ParamsTurn, ParamsTyped
<1>3. CASE ~(n - i + 1 < 4)
  <2>1. PICK tag \in U16s, length \in U16s :
          /\ tag = buf[i] * 256 + buf[i + 1]
          /\ length = buf[i + 2] * 256 + buf[i + 3]
    BY <1>3, ParamRead
  <2>2. length \in Nat /\ length <= 65535
    BY DEF U16s
  <2>3. CASE i + 4 + length > n + 1
    BY <1>1, <1>3, <2>1, <2>3 DEF ParamsTurn, ParamsTyped
  <2>4. CASE ~(i + 4 + length > n + 1)
    <3>1. PICK next : next = i + 4 + length
      OBVIOUS
    <3>2. PICK a, b, v : a = i + 4 /\ b = next - 1 /\ v = SubSeq(buf, a, b)
      OBVIOUS
    <3>3. /\ a \in 1..n + 1 /\ b \in Int /\ a <= b + 1 /\ b <= n
          /\ b - a + 1 = length
          /\ next \in i + 1..n + 1
      <4>1. \A m, l, j \in Nat : j >= 1 /\ ~(j + 4 + l > m + 1)
              => /\ j + 4 \in 1..m + 1 /\ (j + 4 + l) - 1 \in Int
                 /\ j + 4 <= (j + 4 + l) - 1 + 1 /\ (j + 4 + l) - 1 <= m
                 /\ (j + 4 + l) - 1 - (j + 4) + 1 = l
                 /\ j + 4 + l \in j + 1..m + 1
        OBVIOUS
      <4> HIDE DEF n
      <4> QED BY <1>1, <2>2, <2>4, <3>1, <3>2, <4>1
    <3>4. v \in Seq(Byte) /\ Len(v) = length
      <4>1. v \in Seq(Byte) /\ Len(v) = b - a + 1
        BY <3>2, <3>3, SubSeqBytes
      <4> QED BY <3>3, <4>1
    <3>5. PICK q \in Param : q = [tag |-> tag, val |-> v]
      <4>1. v \in Short
        BY <2>2, <3>4 DEF Short
      <4>2. [tag |-> tag, val |-> v] \in Param
        BY <4>1 DEF Param
      <4> QED BY <4>2
    <3>6. ParamsTurn(buf, g, i) = Prepended(<<q>>, g[next])
      BY <1>3, <2>1, <2>4, <3>1, <3>2, <3>5 DEF ParamsTurn, Prepended
    <3>7. PICK ok \in BOOLEAN, rs \in Seq(Param), stop \in 1..n + 1 :
            g[next] = [ok |-> ok, params |-> rs, stop |-> stop]
      BY <3>3 DEF ParamsTyped
    <3>8. PICK h, z : h = g[next] /\ z = <<q>>
      OBVIOUS
    <3>9. h = [ok |-> ok, params |-> rs, stop |-> stop]
      BY <3>7, <3>8
    <3>10. Prepended(z, h) = [ok |-> ok, params |-> z \o rs, stop |-> stop]
      BY <3>9, ExtendedParams
    <3>11. z \in Seq(Param)
      BY <3>8
    <3>12. z \o rs \in Seq(Param)
      BY <3>11, ConcatProperties
    <3> QED BY <3>6, <3>8, <3>10, <3>12 DEF ParamsTyped
  <2> QED BY <2>3, <2>4
<1> QED BY <1>2, <1>3

\* At every position.
LEMMA ParamsLoopType ==
  ASSUME NEW buf \in Seq(Byte), NEW g, ParamsLoop(buf, g)
  PROVE  \A i \in 1..Len(buf) + 1 : ParamsTyped(buf, g[i])
<1> DEFINE n == Len(buf) + 1
           K == {k \in Nat : \A i \in 1..n : i > n - k => ParamsTyped(buf, g[i])}
<1>1. n \in Nat
  BY LenProperties
<1>2. \A i \in 1..n : g[i] = ParamsTurn(buf, g, i)
  BY DEF ParamsLoop
<1>3. 0 \in K
  BY <1>1
<1>4. ASSUME NEW k \in Nat, k \in K PROVE k + 1 \in K
  <2> SUFFICES ASSUME NEW i \in 1..n, i > n - (k + 1)
               PROVE  ParamsTyped(buf, g[i])
    OBVIOUS
  <2>1. \A j \in i + 1..n : j \in 1..n /\ j > n - k
    BY <1>1
  <2>2. \A j \in i + 1..n : ParamsTyped(buf, g[j])
    BY <1>4, <2>1
  <2>3. ParamsTyped(buf, ParamsTurn(buf, g, i))
    BY <2>2, ParamsTurnType
  <2> QED BY <1>2, <2>3
<1> HIDE DEF K
<1>5. n \in K
  BY <1>1, <1>3, <1>4, NatSetInduction
<1>6. \A i \in 1..n : i > n - n
  BY <1>1
<1> QED BY <1>5, <1>6 DEF K

\* The map that emplace makes of parameters: the first of each tag.
MapOf(rs) ==
  [t \in {rs[i].tag : i \in DOMAIN rs} |->
     rs[Min({i \in DOMAIN rs : rs[i].tag = t})].val]

\* What it holds is a parameter.
LEMMA MapOfIs ==
  ASSUME NEW rs \in Seq(Param)
  PROVE  /\ \A t \in DOMAIN MapOf(rs) :
              \E i \in 1..Len(rs) : rs[i].tag = t /\ MapOf(rs)[t] = rs[i].val
         /\ \A i \in 1..Len(rs) : rs[i].tag \in DOMAIN MapOf(rs)
         /\ MapOf(rs) = [t \in DOMAIN MapOf(rs) |-> MapOf(rs)[t]]
<1>1. DOMAIN rs = 1..Len(rs) /\ Len(rs) \in Nat
  BY LenProperties
<1>2. DOMAIN MapOf(rs) = {rs[i].tag : i \in DOMAIN rs}
  BY DEF MapOf
<1>3. ASSUME NEW t \in DOMAIN MapOf(rs)
      PROVE  \E i \in 1..Len(rs) : rs[i].tag = t /\ MapOf(rs)[t] = rs[i].val
  <2> DEFINE S == {i \in DOMAIN rs : rs[i].tag = t}
  <2>1. S \in SUBSET Nat /\ S # {}
    BY <1>1, <1>2
  <2> HIDE DEF S
  <2>2. Min(S) \in S
    BY <2>1, MinExists
  <2>3. MapOf(rs)[t] = rs[Min(S)].val
    BY <1>2 DEF MapOf, S
  <2>4. PICK i : i = Min(S)
    OBVIOUS
  <2>5. i \in 1..Len(rs) /\ rs[i].tag = t
    BY <1>1, <2>2, <2>4 DEF S
  <2> QED BY <2>3, <2>4, <2>5
<1>4. \A i \in 1..Len(rs) : rs[i].tag \in DOMAIN MapOf(rs)
  BY <1>1, <1>2
<1>5. MapOf(rs) = [t \in DOMAIN MapOf(rs) |-> MapOf(rs)[t]]
  BY DEF MapOf
<1> QED BY <1>3, <1>4, <1>5

\* The optional parameters that an object can hold.
IsParams(m) == \E T \in SUBSET U16s : m \in [T -> Short]

\* What deserialize returns of a buffer that the loop reads in a way.
LEMMA DeserializeOparamIs ==
  ASSUME NEW buf \in Seq(Byte), NEW ok \in BOOLEAN, NEW rs \in Seq(Param),
         NEW stop \in 1..Len(buf) + 1,
         Parameters(buf) = [ok |-> ok, params |-> rs, stop |-> stop]
  PROVE  DeserializeOparam(buf) =
           IF ~ok THEN Thrown
           ELSE [ok |-> TRUE, val |-> MapOf(rs), rest |-> Rest(buf, stop)]
<1>1. (stop - 1) + 1 = stop
  BY LenProperties
<1>2. Taken(MapOf(rs), stop - 1, buf)
        = [ok |-> TRUE, val |-> MapOf(rs), rest |-> Rest(buf, stop)]
  BY <1>1 DEF Taken, Rest
<1>3. PICK p : p = Parameters(buf)
  OBVIOUS
<1>4. p.ok = ok /\ p.params = rs /\ p.stop = stop
  BY <1>3
<1>5. DeserializeOparam(buf) =
        IF ~p.ok THEN Thrown ELSE Taken(MapOf(p.params), p.stop - 1, buf)
  BY <1>3 DEF DeserializeOparam, MapOf
<1> QED BY <1>2, <1>4, <1>5

\* It returns parameters, and leaves bytes.
LEMMA OparamType ==
  ASSUME NEW buf \in Seq(Byte), DeserializeOparam(buf).ok
  PROVE  /\ IsParams(DeserializeOparam(buf).val)
         /\ DeserializeOparam(buf).rest \in Seq(Byte)
<1>1. PICK g : ParamsLoop(buf, g) /\ Parameters(buf) = g[1]
  BY ParametersIs
<1>2. 1 \in 1..Len(buf) + 1
  BY LenProperties
<1>3. PICK ok \in BOOLEAN, rs \in Seq(Param), stop \in 1..Len(buf) + 1 :
        Parameters(buf) = [ok |-> ok, params |-> rs, stop |-> stop]
  <2>1. ParamsTyped(buf, g[1])
    BY <1>1, <1>2, ParamsLoopType
  <2> QED BY <1>1, <2>1 DEF ParamsTyped
<1>4. PICK m, d : m = MapOf(rs) /\ d = DeserializeOparam(buf)
  OBVIOUS
<1>5. d = IF ~ok THEN Thrown
          ELSE [ok |-> TRUE, val |-> m, rest |-> Rest(buf, stop)]
  BY <1>3, <1>4, DeserializeOparamIs
<1>6. d.val = m /\ d.rest = Rest(buf, stop)
  BY <1>4, <1>5 DEF Thrown
<1>7. Rest(buf, stop) \in Seq(Byte)
  BY From DEF Rest
<1>8. IsParams(m)
  <2>1. /\ \A t \in DOMAIN m : \E i \in 1..Len(rs) : rs[i].tag = t /\ m[t] = rs[i].val
        /\ m = [t \in DOMAIN m |-> m[t]]
    BY <1>4, MapOfIs
  <2>2. \A i \in 1..Len(rs) : rs[i].tag \in U16s /\ rs[i].val \in Short
    <3>1. \A i \in 1..Len(rs) : rs[i] \in Param
      BY ElementOfSeq
    <3> QED BY <3>1 DEF Param
  <2>3. \A t \in DOMAIN m : t \in U16s /\ m[t] \in Short
    BY <2>1, <2>2
  <2>4. m \in [DOMAIN m -> Short] /\ DOMAIN m \in SUBSET U16s
    BY <2>1, <2>3
  <2> QED BY <2>4 DEF IsParams
<1> QED BY <1>4, <1>6, <1>7, <1>8

\* serialize() writes each of the parameters.
LEMMA SerializeOparamIs ==
  ASSUME NEW m, IsParams(m)
  PROVE  \E ps \in Seq(Param) :
           /\ SerializeOparam(m) = ParamsBytes(ps)
           /\ \A i \in 1..Len(ps) : ps[i].tag \in DOMAIN m /\ m[ps[i].tag] = ps[i].val
           /\ \A t \in DOMAIN m : \E i \in 1..Len(ps) : ps[i].tag = t
<1>1. PICK T \in SUBSET U16s : m \in [T -> Short]
  BY DEF IsParams
<1>2. PICK n \in Nat : /\ Ascending(T) \in [1..n -> T]
                       /\ \A x \in T : \E i \in 1..n : Ascending(T)[i] = x
  BY AscendingIs
<1>3. PICK tags : tags = Ascending(DOMAIN m)
  OBVIOUS
<1>4. /\ DOMAIN m = T /\ DOMAIN tags = 1..n
      /\ \A i \in 1..n : tags[i] \in T /\ tags[i] \in U16s
      /\ \A x \in T : \E i \in 1..n : tags[i] = x
  BY <1>1, <1>2, <1>3
<1> DEFINE ps == [i \in 1..n |-> [tag |-> tags[i], val |-> m[tags[i]]]]
<1>5. \A i \in 1..n : [tag |-> tags[i], val |-> m[tags[i]]] \in Param
  BY <1>1, <1>4 DEF Param
<1>6. ps \in Seq(Param) /\ Len(ps) = n /\ DOMAIN ps = 1..n
  BY <1>5
<1>7. \A i \in 1..n : ps[i].tag = tags[i] /\ ps[i].val = m[tags[i]]
  OBVIOUS
<1> HIDE DEF ps
<1>8. SerializeOparam(m) = ParamsBytes(ps)
  <2>1. SerializeOparam(m) =
          FlattenSeq([i \in DOMAIN tags |->
                        U16(tags[i]) \o U16(Len(m[tags[i]])) \o m[tags[i]]])
    BY <1>3 DEF SerializeOparam
  <2>2. [i \in DOMAIN tags |-> U16(tags[i]) \o U16(Len(m[tags[i]])) \o m[tags[i]]]
          = [i \in DOMAIN ps |-> ParamBytes(ps[i])]
    BY <1>4, <1>6, <1>7 DEF ParamBytes
  <2> QED BY <2>1, <2>2 DEF ParamsBytes
<1>9. \A i \in 1..n : ps[i].tag \in DOMAIN m /\ m[ps[i].tag] = ps[i].val
  BY <1>4, <1>7
<1>10. \A t \in DOMAIN m : \E i \in 1..n : ps[i].tag = t
  BY <1>4, <1>7
<1> QED BY <1>6, <1>8, <1>9, <1>10

\* Some of the parameters of a map, and nothing else.
PartOf(v, m) ==
  \A t \in DOMAIN v : t \in DOMAIN m /\ v[t] = m[t]

\* The optional parameters of a body that is cut (x is missing): some of them, and
\* all when nothing is missing.
OparamKept(m, x, r) ==
  /\ r.ok => PartOf(r.val, m)
  /\ x = <<>> => r = [ok |-> TRUE, val |-> m, rest |-> <<>>]

\* The constructor of oparam reads what serialize() wrote: the same tags and values,
\* however many; and of the beginning of it, when it reads it at all, some of them
\* unchanged.
THEOREM OparamCut ==
  ASSUME NEW m, IsParams(m), NEW buf \in Seq(Byte), NEW x \in Seq(Byte),
         buf \o x = SerializeOparam(m)
  PROVE  OparamKept(m, x, DeserializeOparam(buf))
<1>1. PICK ps \in Seq(Param) :
        /\ SerializeOparam(m) = ParamsBytes(ps)
        /\ \A i \in 1..Len(ps) : ps[i].tag \in DOMAIN m /\ m[ps[i].tag] = ps[i].val
        /\ \A t \in DOMAIN m : \E i \in 1..Len(ps) : ps[i].tag = t
  BY SerializeOparamIs
<1>2. PICK g : ParamsLoop(buf, g) /\ Parameters(buf) = g[1]
  BY ParametersIs
<1>3. 1 \in 1..Len(buf) + 1 /\ Rest(buf, 1) = buf
  BY LenProperties, SubSeqFull DEF Rest
<1>4. PrefixRead(buf, ps, x, g[1])
  BY <1>1, <1>2, <1>3, ParamsReadBack
<1>5. PICK ok \in BOOLEAN, rs \in Seq(Param), stop \in 1..Len(buf) + 1 :
        /\ g[1] = [ok |-> ok, params |-> rs, stop |-> stop]
        /\ ok => \E left \in Seq(Param) : ps = rs \o left
        /\ x = <<>> => ok /\ rs = ps /\ stop = Len(buf) + 1
  BY <1>4 DEF PrefixRead
<1>6. PICK v, d : v = MapOf(rs) /\ d = DeserializeOparam(buf)
  OBVIOUS
<1>7. d = IF ~ok THEN Thrown
          ELSE [ok |-> TRUE, val |-> v, rest |-> Rest(buf, stop)]
  <2>1. Parameters(buf) = [ok |-> ok, params |-> rs, stop |-> stop]
    BY <1>2, <1>5
  <2> QED BY <1>6, <2>1, DeserializeOparamIs
<1>8. /\ \A t \in DOMAIN v : \E i \in 1..Len(rs) : rs[i].tag = t /\ v[t] = rs[i].val
      /\ \A i \in 1..Len(rs) : rs[i].tag \in DOMAIN v
      /\ v = [t \in DOMAIN v |-> v[t]]
  BY <1>6, MapOfIs
<1>9. ASSUME ok PROVE PartOf(v, m)
  <2>1. PICK left \in Seq(Param) : ps = rs \o left
    BY <1>5, <1>9
  <2>2. \A i \in 1..Len(rs) : i \in 1..Len(ps) /\ ps[i] = rs[i]
    <3>1. /\ Len(rs) \in Nat /\ Len(left) \in Nat
          /\ Len(ps) = Len(rs) + Len(left)
          /\ \A i \in 1..Len(rs) + Len(left) :
               ps[i] = IF i <= Len(rs) THEN rs[i] ELSE left[i - Len(rs)]
      BY <2>1, ConcatProperties, LenProperties
    <3> QED BY <3>1
  <2>3. ASSUME NEW t \in DOMAIN v PROVE t \in DOMAIN m /\ v[t] = m[t]
    <3>1. PICK i \in 1..Len(rs) : rs[i].tag = t /\ v[t] = rs[i].val
      BY <1>8
    <3>2. PICK q : q = rs[i]
      OBVIOUS
    <3>3. i \in 1..Len(ps) /\ ps[i] = q /\ q.tag = t /\ v[t] = q.val
      BY <2>2, <3>1, <3>2
    <3>4. q.tag \in DOMAIN m /\ m[q.tag] = q.val
      BY <1>1, <3>3
    <3> QED BY <3>3, <3>4
  <2> QED BY <2>3 DEF PartOf
<1>10. ASSUME x = <<>> PROVE d = [ok |-> TRUE, val |-> m, rest |-> <<>>]
  <2>1. ok /\ rs = ps /\ stop = Len(buf) + 1
    BY <1>5, <1>10
  <2>2. Rest(buf, stop) = <<>>
    <3>1. PICK n \in Nat : n = Len(buf)
      BY LenProperties
    <3>2. SubSeq(buf, n + 1, n) = <<>>
      BY SubSeqEmpty
    <3> QED BY <2>1, <3>1, <3>2 DEF Rest
  <2>3. DOMAIN v = DOMAIN m
    <3>1. DOMAIN v \subseteq DOMAIN m
      BY <1>9, <2>1 DEF PartOf
    <3>2. ASSUME NEW t \in DOMAIN m PROVE t \in DOMAIN v
      <4>1. PICK i \in 1..Len(ps) : ps[i].tag = t
        BY <1>1
      <4> QED BY <1>8, <2>1, <4>1
    <3> QED BY <3>1, <3>2
  <2>4. \A t \in DOMAIN m : v[t] = m[t]
    BY <1>9, <2>1, <2>3 DEF PartOf
  <2>5. m = [t \in DOMAIN m |-> m[t]]
    BY DEF IsParams
  <2>6. v = m
    BY <1>8, <2>3, <2>4, <2>5
  <2> QED BY <1>7, <2>1, <2>2, <2>6
<1>11. d.ok => ok /\ d.val = v
  BY <1>7 DEF Thrown
<1> QED BY <1>6, <1>9, <1>10, <1>11 DEF OparamKept
=============================================================================
