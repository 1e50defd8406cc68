SPECIFICATION Spec
CONSTANTS
  s = s
  k = k
  c = c
  a = a
  i = i
  u1 = u1
  u2 = u2
  v = v
  f = f
  Task <- PipelineTask
  Kind <- PipelineKind
  Deps <- PipelineDeps
  Preserved = {}
  Scopes <- PipelineScopes
  StartRun = "planning"
  MaxAttempts <- UnitsTwice
  MaxEpoch = 5
  TransientEpochLimit = 2
  RewriteLimit = 1
  ReopenLimit = 1
INVARIANTS
  QueuedIsDispatchable
  EpochWithinRange
  OneCallPerGeneration
  ReadyMeansComplete
  DrainedBeforeNeedsAction
CHECK_DEADLOCK FALSE
