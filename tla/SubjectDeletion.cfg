SPECIFICATION LiveSpec
CONSTANTS
  w1 = w1
  w2 = w2
  Worker <- TwoWorkers
  Kind = {"course", "block", "user"}
  N = 4
  Row = {1, 3}
  Feedback = {3}
  Prefixed = {2, 4}
  Foreign = {2}
  PageSize = 1
  MaxAttempts = 2
  MayStall = TRUE
  MaxFaults = 2
  MaxRetries = 1
  MaxCopies = 1
INVARIANTS
  TypeOK
  NothingForgotten
  NoDanglingRow
  SucceededIsPurged
PROPERTY
  DeletionEnds
CHECK_DEADLOCK FALSE
