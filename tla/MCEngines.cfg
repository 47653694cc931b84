\* Three purchases against seven positions; three of four allocations settled at every pump
\* price; three reconciliation runs over two scopes with every order of clearing;
\* every sequence of three journals, corrections of corrections included.
CONSTANTS
  PositionId = {1, 2, 3, 4, 5, 6, 7}
  Position <- Positions
  Opening <- Opened
  AllocationId = {x1, x2, x3}
  PurchaseId = {b1, b2, b3}
  AllocationKey = {k1, k2, k3}
  Facts <- Purchases
  Denominator = 8
  SettlementId = {x1, x2, x3}
  SettlementKey = {k1, k2, k3}
  Evidence <- Allocated
  reserved = reserved  available = available  claim = claim  station = station
  Terms <- PinnedTerms
  PumpPrice = {1, 2, 3, 4, 5, 6, 7, 8, 9, 10, 11}
  us = us  gb = gb
  RunId = {x1, x2, x3}
  RunKey = {k1, k2, k3}
  Input <- Inputs
  Principal = {m1, m2}
  Missing = Missing
  avail = avail  resv = resv  refund = refund  cash = cash  euro = euro
  foreign = foreign  pos = pos  otherPos = otherPos
  Account <- Chart
  Definition <- MyWallet
  Entry <- Entries
  JournalId = {x1, x2, x3}
  JournalKey = {k1, k2, k3}
  Corrector = {m1, m2}
  NoJournal = NoJournal
SPECIFICATION Spec
SYMMETRY Ids
INVARIANTS VolumeConserved SettlementsBalance BreaksBlock ReversalsUndoMoney ActivityExplainsBalance
PROPERTY SoonestExpiryFirst
CHECK_DEADLOCK FALSE
