---------------------------- MODULE MCWorkItems ----------------------------
(* Work items on small instances: symmetry of what they tell apart only by *)
(* name.                                                                   *)
EXTENDS WorkItems, TLC

Symmetry == Permutations(Items) \cup Permutations(Stops)
=============================================================================
