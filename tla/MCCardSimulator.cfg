\* One usable card and a frozen one: every order of authorization, clearing, partial
\* clearing, break and reversal, and retries under new keys and ids.
CONSTANTS
  c1 = c1  c2 = c2  usd = usd  gbp = gbp  fuel = fuel  other = other
  Card = {c1, c2}
  Profile <- TwoCards
  AuthId = {a1, a2}
  ClearingId = {p1, p2}
  ReversalId = {r1, r2}
  Key = {k1, k2, k3}
  Amount = {1, 3}
  Value = {3, 6}
  Currency = {usd, gbp}
  Category = {fuel, other}
  Day = {1, 2}
SPECIFICATION Spec
SYMMETRY Ids
INVARIANTS HoldConserved InstructionsMatchHold RetryActsOnce DailyLimitHeld
PROPERTY HoldsOnlyShrink
CHECK_DEADLOCK FALSE
