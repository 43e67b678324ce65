------------------------------ MODULE MCDevices ------------------------------
(* Devices, for TLC: the callers are interchangeable. *)
EXTENDS Devices, TLC

Symmetric == Permutations(Callers)
=============================================================================
