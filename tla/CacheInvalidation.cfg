SPECIFICATION LiveSpec
CONSTANTS
  p1 = p1
  p2 = p2
  p3 = p3
  Process = {p1, p2, p3}
  Connected = {p2}
  MaxWrites = 2
  MaxFaults = 2
  None = None
INVARIANTS
  MissRemembered
PROPERTIES
  InvalidationLands
  RelaysEnd
CHECK_DEADLOCK FALSE
