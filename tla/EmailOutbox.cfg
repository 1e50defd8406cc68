SPECIFICATION Spec
CONSTANTS
  w1 = w1
  w2 = w2
  None = None
  Worker <- TwoWorkers
  N = 2
  Deletable = {2}
  MayDelete = TRUE
  PageSize = 1
  ClaimLimit = 2
  MaxAttempts = 2
  Threshold = 1
  MaxFaults = 1
INVARIANTS
  TypeOK
  FanoutIsExact
  PurgedIsSilent
  LateMailIsInFlight
  CopiesNeedFaults
  FailedIsSpent
SYMMETRY Symmetric
CHECK_DEADLOCK FALSE
