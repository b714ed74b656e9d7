----------------------------- MODULE ByteQueue -----------------------------
(* What session::receive_op needs of its receive buffer: a bounded queue of  *)
(* bytes.  The bytes that a read delivered are appended, whole prefixes are  *)
(* dropped, and nothing else ever changes the contents.                      *)
EXTENDS Naturals, Sequences

CONSTANTS
  Bytes,    \* what may be received
  Cap       \* the most bytes that the queue holds

VARIABLE queue

Init == queue = <<>>

Put ==
  \E n \in 1..Cap - Len(queue) : \E s \in [1..n -> Bytes] : queue' = queue \o s

Drop ==
  \E n \in 1..Len(queue) : queue' = SubSeq(queue, n + 1, Len(queue))

Next == Put \/ Drop

Spec == Init /\ [][Next]_queue
=============================================================================
