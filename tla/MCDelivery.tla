----------------------------- MODULE MCDelivery -----------------------------
(* Delivery, for TLC: results and callers are interchangeable. *)
EXTENDS Delivery, TLC

Symmetric == Permutations(Callers) \cup Permutations(Sources)
=============================================================================
