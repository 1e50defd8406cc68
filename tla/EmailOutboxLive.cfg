SPECIFICATION LiveSpec
CONSTANTS
  w1 = w1
  w2 = w2
  None = None
  Worker <- TwoWorkers
  N = 1
  Deletable = {1}
  MayDelete = FALSE
  PageSize = 1
  ClaimLimit = 2
  MaxAttempts = 2
  Threshold = 1
  MaxFaults = 2
PROPERTIES
  FanoutEnds
  MailResolves
CHECK_DEADLOCK FALSE
