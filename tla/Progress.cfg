SPECIFICATION LiveSpec
CONSTANTS
  w1 = w1
  w2 = w2
  Worker <- TwoWorkers
  N = 3
  BatchSize = 2
  MaxBatches = 1
  MaxRetries = 1
  MayStall = TRUE
  MaxRequests = 2
  MaxFaults = 2
  MaxCopies = 2
INVARIANTS
  NoneSkipped
PROPERTY
  JobResolves
