\* Does using up the protection leave value reserved for nothing?
CONSTANTS
  Purchase = {1, 2, 3}
  Bought <- Purchases
  PositionId = {1, 2}
  Opening <- Volumes
  Terms <- Pinned
  Denominator = 2
  Funded = 17
  opening = 0
  MaxAttempts = 2
SPECIFICATION Spec
INVARIANT NothingStranded
CHECK_DEADLOCK FALSE
