SPECIFICATION Spec
CONSTANTS
  w1 = w1
  w2 = w2
  Worker <- TwoWorkers
  N = 3
  BatchSize = 1
  MaxBatches = 2
  MaxRetries = 1
  MayStall = FALSE
  MaxRequests = 2
  MaxFaults = 2
  MaxCopies = 2
INVARIANT
  SucceededIsFresh
