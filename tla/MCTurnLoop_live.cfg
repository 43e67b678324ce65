\* Serial calls (toolMaxParallel 0), two messages, one inbox place.
CONSTANTS
  w1 = w1  w2 = w2  r1 = r1  r2 = r2  m1 = m1  m2 = m2
  NoRecord = NoRecord
  Calls = {w1, r1}
  Safe = {r1}
  Messages = {m1, m2}
  MaxToolRounds = 3
  ToolMaxParallel = 0
  MaxPending = 1
  DeleteMayFail = FALSE
  MaxCalls = 2
  MaxAttempts = 2
  MaxFaults = 1
SPECIFICATION FairSpec
CHECK_DEADLOCK FALSE
PROPERTIES AttemptEnds
