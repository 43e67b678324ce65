\* Three items, one conversation, two places among the open items.
CONSTANTS
  i1 = i1  i2 = i2  i3 = i3  s1 = s1  a1 = a1  a2 = a2  p1 = p1  p2 = p2
  Loop = Loop  Nobody = Nobody
  Items = {i1, i2, i3}
  Sources = {s1}
  Authors = {a1, a2}
  Stops = {}
  Reports = {"ready", "blocked"}
  MaxOpenItems = 2
  MaxRoundsPerHour = 2
  MaxMessages = 2
  MaxOthers = 0
  MaxFaults = 1
SPECIFICATION Spec
CHECK_DEADLOCK FALSE
SYMMETRY Symmetry
INVARIANTS OneOwner CapRespected
