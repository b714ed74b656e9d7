----------------------------- MODULE MCSendPath -----------------------------
(* Instances of SendPath for TLC. *)
EXTENDS SendPath, TLC

CONSTANTS c1, c2, c3

AllCallers == {c1, c2, c3}
\* Callers differ only in whether they send again.
Symmetry == Permutations(AllCallers)
=============================================================================
