\* Up to two rounds of one call each and a message, interrupted while replayed.
CONSTANTS
  w1 = w1  w2 = w2  r1 = r1  r2 = r2  m1 = m1  m2 = m2
  NoRecord = NoRecord
  Calls = {w1, r1}
  Safe = {r1}
  Messages = {m1}
  MaxToolRounds = 3
  ToolMaxParallel = 1
  MaxPending = 1
  DeleteMayFail = FALSE
  MaxCalls = 1
  MaxAttempts = 3
  MaxFaults = 2
SPECIFICATION Spec
CHECK_DEADLOCK FALSE
INVARIANT RecordRemembers
