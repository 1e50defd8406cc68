SPECIFICATION LiveSpec
CONSTANTS
  d1 = d1
  d2 = d2
  Row = {r1}
  Dispatcher = {d1, d2}
  MaxAttempts <- EqualLimits
  MaxCopies = 3
  None = None
INVARIANTS
  PublishedIsDeliverable
PROPERTIES
  LeaseFences
  ImplementsOutboxDelivery
  WaitingRowIsResolved
