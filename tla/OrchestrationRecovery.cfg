SPECIFICATION LiveSpec
CONSTANTS
  s = s
  k = k
  c = c
  a = a
  i = i
  u1 = u1
  u2 = u2
  v = v
  f = f
  Task <- UnitTask
  Kind <- UnitKind
  Deps <- UnitDeps
  Preserved = {u2}
  Scopes <- UnitScopes
  StartRun = "executing"
  MaxAttempts <- FirstUnitTwice
  MaxEpoch = 4
  TransientEpochLimit = 1
  RewriteLimit = 1
  ReopenLimit = 1
INVARIANTS
  PaidCallIsCharged
  HoldsAreOwned
  SweepCanSettle
PROPERTIES
  FreshRowIdentity
  StopIsFinal
  HoldsSettle
  StoppedRunDrains
  IdleRunStops
CHECK_DEADLOCK FALSE
