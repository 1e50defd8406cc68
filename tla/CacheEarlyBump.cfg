SPECIFICATION Spec
CONSTANTS
  p1 = p1
  p2 = p2
  p3 = p3
  Process = {p1, p2}
  Connected = {p1, p2}
  MaxWrites = 1
  MaxFaults = 0
  None = None
INVARIANTS
  InvalidatedIsCurrent
CHECK_DEADLOCK FALSE
