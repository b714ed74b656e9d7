------------------------------- MODULE MCPair -------------------------------
(* Instances of Pair for TLC. *)
EXTENDS Pair

CONSTANTS c1, c2
=============================================================================
