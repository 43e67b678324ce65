\* Two callers that report one result, its digests, and a restart or a store
\* error.
CONSTANTS
  Sources = {r1}
  Callers = {k1, k2}
  MaxAttempts = 2
  MaxOutcomes = 3
  MaxWindows = 2
  MaxFaults = 1
SPECIFICATION Spec
SYMMETRY Symmetric
INVARIANTS
  FinishedTruthfully
  SentOnce
CHECK_DEADLOCK FALSE
