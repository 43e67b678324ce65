----------------------------- MODULE MCTurnLoop -----------------------------
(***************************************************************************)
(* Instances of TurnLoop for TLC.                                          *)
(***************************************************************************)
EXTENDS TurnLoop, SequencesExt

CONSTANTS w1, w2, r1, r2, m1, m2

MCSymmetry ==
  Permutations({w1, w2}) \cup Permutations({r1, r2}) \cup Permutations({m1, m2})

\* Concatenates is the library's concatenation of a sequence of sequences, on
\* all short ones.
ASSUME ConcatenatesIsFlattenSeq ==
  \A parts \in BoundedSeq(BoundedSeq({1, 2}, 2), 3) :
    \A items \in BoundedSeq({1, 2}, 6) :
      Concatenates(items, parts) <=> items = FlattenSeq(parts)
=============================================================================
