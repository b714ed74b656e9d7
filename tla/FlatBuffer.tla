----------------------------- MODULE FlatBuffer -----------------------------
(***************************************************************************)
(* smpp::detail::static_flat_buffer (net/detail/static_flat_buffer.hpp), as *)
(* session::receive_op uses it: prepare, a read into the prepared memory,  *)
(* commit of what was read, and consume between two reads.                 *)
(*                                                                         *)
(* in_, out_ and last_ are pointers into the array that the object itself  *)
(* holds.  They are modelled as offsets together with the object whose     *)
(* array they point into, because the class has the copy and move          *)
(* operations that the compiler generates, and these copy the pointers.    *)
(***************************************************************************)
EXTENDS Integers, Sequences, FiniteSetsExt

CONSTANTS
  Bytes,     \* the values of a byte
  Zero,      \* the value of a byte that has not been written
  Cap,       \* N, the size of the array
  Objects,   \* places where the buffer object may live
  Movable    \* TRUE when the owner of the buffer may be moved

ASSUME FlatBufferAssumption ==
  /\ Cap \in Nat \ {0}
  /\ Zero \in Bytes
  /\ Movable \in BOOLEAN

VARIABLES
  self,      \* the object
  target,    \* the object whose array in_, out_ and last_ point into
  buf,       \* the contents of that array, buf_
  in,        \* in_   - buf_.begin()
  out,       \* out_  - buf_.begin()
  last,      \* last_ - buf_.begin()
  received   \* bytes that a read has stored and commit is to add; -1: no read

vars == <<self, target, buf, in, out, last, received>>

size == out - in    \* size()

Init ==
  /\ self \in Objects
  /\ target = self
  /\ buf = [i \in 0..Cap - 1 |-> Zero]
  /\ in = 0
  /\ out = 0
  /\ last = 0
  /\ received = -1

\* The array after memmove of the contents to its beginning.
MovedToFrontForgotten == buf
MovedToFront ==
  [i \in 0..Cap - 1 |-> IF i < size THEN buf[in + i] ELSE buf[i]]

\* prepare(n), which throws when n bytes do not fit behind the contents.
Prepare(n) ==
  /\ self = target
  /\ received = -1
  /\ n <= Cap - size
  /\ IF n <= Cap - out
     THEN /\ last' = out + n
          /\ UNCHANGED <<buf, in, out>>
     ELSE /\ buf' = MovedToFront
          /\ in' = 0
          /\ out' = size
          /\ last' = size + n
  /\ received' = 0
  /\ UNCHANGED <<self, target>>

\* The socket stores the bytes of s in the prepared memory.
ReadSome(s) ==
  /\ self = target
  /\ received = 0
  /\ Len(s) <= last - out
  /\ buf' = [i \in 0..Cap - 1 |->
               IF i \in out..out + Len(s) - 1 THEN s[i - out + 1] ELSE buf[i]]
  /\ received' = Len(s)
  /\ UNCHANGED <<self, target, in, out, last>>

\* The handler of the read: commit(n), or nothing when the read failed.
Commit(n) ==
  /\ self = target
  /\ received = n
  /\ out' = out + Min({n, last - out})
  /\ received' = -1
  /\ UNCHANGED <<self, target, buf, in, last>>

\* consume(n), which leaves last_ alone.
ConsumeWithoutReset(n) ==
  /\ self = target
  /\ received = -1
  /\ in' = in + n
  /\ UNCHANGED <<self, target, buf, out, last, received>>
Consume(n) ==
  /\ self = target
  /\ received = -1
  /\ IF n >= size
     THEN in' = 0 /\ out' = 0
     ELSE in' = in + n /\ UNCHANGED out
  /\ UNCHANGED <<self, target, buf, last, received>>

\* clear(), which the session does not use: it also brings the pointers home.
Clear ==
  /\ received = -1
  /\ target' = self
  /\ in' = 0 /\ out' = 0 /\ last' = 0
  /\ UNCHANGED <<self, buf, received>>

\* The owner is moved before the buffer is in use.  The generated constructor
\* copies the array and the pointers, which still refer to the old object; what
\* the operations do from then on is undefined and not modelled.
Move ==
  /\ Movable
  /\ received = -1
  /\ self' \in Objects \ {self}
  /\ UNCHANGED <<target, buf, in, out, last, received>>

Next ==
  \/ \E n \in 0..Cap : Prepare(n) \/ Commit(n) \/ Consume(n)
  \/ \E n \in 1..Cap : \E s \in [1..n -> Bytes] : ReadSome(s)
  \/ Clear
  \/ Move

Spec == Init /\ [][Next]_vars
-----------------------------------------------------------------------------
\* The contents [in_, out_) lie in the array, and so does the memory that a
\* read in progress is given: memmove, read and the spans that receive_op takes
\* of the contents never leave buf_, though consume resets in_ and out_ but not
\* last_ and commit trusts last_.
InBounds ==
  /\ self \in Objects
  /\ buf \in [0..Cap - 1 -> Bytes]
  /\ in \in 0..Cap
  /\ out \in in..Cap
  /\ last \in 0..Cap
  /\ received \in -1..Cap
  /\ received # -1 => out + received <= last

\* The bytes that the session sees, begin() to end().
Contents == [i \in 1..size |-> buf[in + i - 1]]

\* Whatever prepare moves and wherever the contents lie in the array, the
\* session sees a queue: it gets the bytes that were read, once and in order.
Queue == INSTANCE ByteQueue WITH queue <- Contents
IsByteQueue == Queue!Spec

\* The pointers point into the object's own array.
PointersIntoSelf == self = target
=============================================================================
