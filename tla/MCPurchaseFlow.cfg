\* Three purchases, every interleaving of the five engines and repeated deliveries.
CONSTANTS
  Purchase = {1, 2, 3}
  Bought <- Purchases
  PositionId = {1, 2}
  Opening <- Volumes
  Terms <- Pinned
  Denominator = 2
  Funded = 17
  opening = 0
  MaxAttempts = 2
SPECIFICATION Spec
INVARIANTS EnginesReconcile SettledFromClearing
PROPERTY ImplementsFunds
CHECK_DEADLOCK FALSE
