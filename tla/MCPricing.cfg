\* The pricing and finance packages, one at a time: see MCPricing for what each instance holds.
CONSTANTS
  Envelope <- Envelopes
  Providers <- ProviderData  Products <- ProductData  Stations <- StationData
  NoStation = NoStation
  MaximumAge = 2  FutureTolerance = 1
  BenchmarkId = {"b1"}
  BenchmarkPolicy <- BenchmarkPolicies
  ProposalId = {"p1"}  DecisionId = {"d0", "d1"}  QuoteId = {"q1"}
  Principal = {"m1", "m2"}
  Time = {1, 2}
  MaximumWithdrawals = 2
  SpreadPolicy <- SpreadPolicies
  Adjustment <- Adjustments
  Subsidy = {TRUE, FALSE}
  Cohort <- Cohorts
  Seeded <- SeededDecision
  QuoteRequest <- Requests
  Catalogue <- SaleCatalogue
  Benchmark <- Benchmarks
  FxObservation <- FxObservations
  FxTime = {1, 2, 3}  FxPrincipal = {"m1", "m2"}
  RateId = {"r1"}  AdjustmentId = {"a1"}  ConversionId = {"c1"}
  ApprovedPivots = {"GBP"}
  FxComponents <- FxParts
  MaximumAdjustment = {2, 3}
  MaximumRateAge = 1  RateScale = 10  Whole = 4
  Amount = {7, 15}
  RuleSet <- RuleSets  FactTypes <- Schema  Facts <- AllFacts  Scenario <- Scenarios
  RuleTime = {0, 2}  RulePrincipal = {"m1", "m2"}
  Series <- BasisSeries  Candidate <- Candidates
  Holdout = {1, 2}
  BasisPolicy <- BasisPolicies
  BasisDecisionId = {"o1"}  BasisPrincipal = {"m1", "m2"}  BasisTime = {0, 1}  Digest = {"x", "y"}
  Workbook <- Workbooks  NoWorkbook = NoWorkbook
  Country = {"AT", "BE"}  Series4 = {1, 2, 3, 4}
  EuPrincipal = {"m1", "m2"}  EuDigest = {"x"}
  Day = {8, 18}
  MaximumReleases = 3
  Command <- Commands  Body <- Bodies  PaymentCall = {"c1", "c2"}  ObjectId = {"o1", "o2"}
  ObjectStatus = {"PROCESSING"}  Tolerance = 1  ReceiveTime = {0, 2}  NoCommand = NoCommand
  CatalogueItem <- Items  ComponentRate <- Rates
  BillTime = {0, 1, 3}  Quantity = {1, 2}  PriceLevel = {3, 5}  Instalment = {0, 1, 3}
  CreditDays = 1  ChargeScale = 10
  BillingStaff = {"m1", "m2"}  MappingMaker = "m1"  MaxAttempts = 3  NoInvoice = NoInvoice  NoOne = NoOne
  Position <- HedgePositions  Reserve = {3}
  LimitPolicy <- Limits  StressKind = {"BOUNDARY_BREACH", "COUNTERPARTY_FAILURE"}  StressSuite <- Suites
  Notional = {2, 4}  Trader = {"m1", "m2"}  AssuranceAge = {0, 2}  FreshAssurance = 1
  HedgeCandidate <- HedgeCandidates  HedgePolicy <- HedgePolicies
  BasisWhole = 10  PriceUnit = 2  MaxSnapshots = 2  MaxVersions = 2  MaxRecommendations = 2  MaxExecutions = 2  NoHedge = NoHedge
  Movement <- Movements  OpeningBalance = {1, 3}  LedgerClosing = {3, 6}  ScenarioChange <- ScenarioChanges
  CashFlow <- CashFlows  LiquidityPolicy <- LiquidityPolicies  ExpectedClaims = 2  Horizon = 3
  RiskProgramme <- Programmes  GrossLoss = {0, 3, 9}  CollateralCoverage = 10
  RiskSignal <- Signals  RuleOutcome <- Outcomes  Officer = {"m1", "m2"}  BasisUnit = 10  NoRecord = NoRecord
  Pump = {"p1", "p2", "p3"}  ChainOf <- PumpChains  SeedPrice <- FirstPrices  PumpPrice = {1, 4}
  SeedSnapshot = 2  SnapshotDiscount = 2  LockCall = {"a"}  LockUser = {"u"}
  OfferWindow = 0  LastTick = 1  MaxRows = 1  MaxBought = 2  Suspendable = {"p2", "A"}  NotCalling = NotCalling
  ControlSnapshot <- ControlSnapshots  ControlTime = {0, 1}  Draft <- Drafts
  MaxControlAge = 2  MinCoverage = 8  MaxDispersion = 3  NoDispersion = NoDispersion
  AbstainBelow = 6  VerifyBelow = 9  NoAssessment = NoAssessment  NoRecommendation = NoRecommendation
  Vehicle <- Vehicles  FleetPolicy <- FleetPolicies  FleetSeed <- FleetSeeds  FleetRequest <- FleetRequests
  SpreadUser <- SpreadUsers  SpreadEnvironment = "demo"  SpreadOrganisation = {"org-fuelcap-global", "org-fleet"}
  TypedBps <- TypedValues  ChangeReason = {"r", "other", NoReason}  NoReason = NoReason  NoLifecycle = NoLifecycle
  LastFleetTime = 2  MaxPolicies = 3  MaxFleetDecisions = 2
SPECIFICATION Spec
INVARIANTS BenchmarkRepresentative PublishedAsApproved ReservationCovers ConversionSound PublishedSound HedgedAsApproved MoneyAddsUp LocksCostWhatIsShown
PROPERTY WithdrawalStopsQuotes
CHECK_DEADLOCK FALSE
