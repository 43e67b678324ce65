\* Two attempts at one turn, a message and a cancel.
CONSTANTS
  a1 = a1  a2 = a2  m1 = m1  c1 = c1
  Nobody = Nobody
  Attempts = {a1, a2}
  RequestId <- SameRequest
  TurnKey <- SameTurn
  Messages = {m1}
  Cancellers = {c1}
  MaxPending = 1
SPECIFICATION FairSpec
CHECK_DEADLOCK FALSE
INVARIANTS
  TypeOK ClaimsExclusive ReachesItsTurn AcceptedRead KillReaches
PROPERTIES KilledTurnEnds KeepsPromise
