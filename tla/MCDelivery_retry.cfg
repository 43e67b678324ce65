\* One result, no faults, the default of three attempts.
CONSTANTS
  Sources = {r1}
  Callers = {k1}
  MaxAttempts = 3
  MaxOutcomes = 1
  MaxWindows = 1
  MaxFaults = 0
SPECIFICATION FairSpec
PROPERTY DeliveredOrFailed
CHECK_DEADLOCK FALSE
