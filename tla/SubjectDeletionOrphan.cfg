SPECIFICATION Spec
CONSTANTS
  w1 = w1
  w2 = w2
  Worker <- OneWorker
  Kind = {"course"}
  N = 4
  Row = {1, 3}
  Feedback = {3}
  Prefixed = {2, 4}
  Foreign = {2}
  PageSize = 1
  MaxAttempts = 2
  MayStall = FALSE
  MaxFaults = 1
  MaxRetries = 1
  MaxCopies = 1
INVARIANTS
  SucceededIsRemoved
CHECK_DEADLOCK FALSE
