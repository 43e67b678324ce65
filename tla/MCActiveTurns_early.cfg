\* A cancel while the turn is being set up.
CONSTANTS
  a1 = a1  a2 = a2  m1 = m1  c1 = c1
  Nobody = Nobody
  Attempts = {a1}
  RequestId <- SameRequest
  TurnKey <- SameTurn
  Messages = {}
  Cancellers = {c1}
  MaxPending = 1
SPECIFICATION Spec
CHECK_DEADLOCK FALSE
INVARIANT CancelStops
