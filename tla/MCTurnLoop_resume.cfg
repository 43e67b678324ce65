\* Two side-effecting calls, two reads, two messages, two faults, three attempts.
CONSTANTS
  w1 = w1  w2 = w2  r1 = r1  r2 = r2  m1 = m1  m2 = m2
  NoRecord = NoRecord
  Calls = {w1, w2, r1, r2}
  Safe = {r1, r2}
  Messages = {m1, m2}
  MaxToolRounds = 3
  ToolMaxParallel = 2
  MaxPending = 1
  DeleteMayFail = FALSE
  MaxCalls = 2
  MaxAttempts = 3
  MaxFaults = 2
SYMMETRY MCSymmetry
SPECIFICATION Spec
CHECK_DEADLOCK FALSE
INVARIANTS
  TypeOK UnsafeAtMostOnce PlannedNeverRan SideEffectsAlone AcceptedShown RecordIsCurrent HistoryIsCheckpoint
