SPECIFICATION LargeSpec
CONSTANTS
  c1 = c1
  c2 = c2
  c3 = c3
  p1 = p1
  small = small
  large = large
  free = free
  None = None
  Unlimited = Unlimited
  Call = {c1, c2, c3}
  Kind <- ChatKind
  Least <- CallLeast
  Most <- CallMost
  Charge = {0, 3}
  Process = {p1}
  Plan = {small, large, free}
  Rate = {1, 2}
  Worth <- PlanWorth
  LastMonth = 2
  MaxChanges = 1
INVARIANTS
  TypeOK
  WithinBudget
  BooksBalance
PROPERTIES
  RefusedWhenSpent
  ChatHoldsEnd
CHECK_DEADLOCK FALSE
