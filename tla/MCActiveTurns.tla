--------------------------- MODULE MCActiveTurns ---------------------------
(* Instances of ActiveTurns for TLC. *)
EXTENDS ActiveTurns

CONSTANTS a1, a2, m1, c1

\* Every attempt is at the same turn, under the same request id.
SameRequest == [a \in Attempts |-> "request"]
SameTurn == [a \in Attempts |-> "turn"]
=============================================================================
