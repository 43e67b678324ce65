\* One item, its first-round thread, the connector loop and a stop.
CONSTANTS
  i1 = i1  i2 = i2  s1 = s1  a1 = a1  a2 = a2  p1 = p1  p2 = p2
  Loop = Loop  Nobody = Nobody
  Items = {i1}
  Sources = {s1}
  Authors = {a1}
  Stops = {p1}
  Reports = {"waiting", "ready", "blocked"}
  MaxOpenItems = 0
  MaxRoundsPerHour = 2
  MaxMessages = 3
  MaxOthers = 1
  MaxFaults = 0
SPECIFICATION FairSpec
CHECK_DEADLOCK FALSE
INVARIANTS TypeOK OneRoundAtATime HoldsReleased WakeNotLost
PROPERTIES FinalEnds InputRead
