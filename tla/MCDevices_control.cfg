\* Two callers, two dials, two sessions asked for and one action.
CONSTANTS
  MaxConns = 2
  MaxSessions = 2
  MaxActions = 1
  Outbox = 2
  Callers = {k1, k2}
SPECIFICATION Spec
SYMMETRY Symmetric
INVARIANTS
  TypeOK
  ToldTheTruth
  ControlConsented
  WaitersReachable
  ServedIsLive
  KillHolds
\* The device may stop dialling and everyone may be done.
CHECK_DEADLOCK FALSE
