\* Does the record of a session keep every advance that was posted?
CONSTANTS
  Machines = {"signup"}
  s1 = s1  s2 = s2
  Run = {r1, r2}  Station = {s1, s2}  Snapshot <- Snapshots
  ObservationAge = 1  RunAge = 0  Skew = 0  MaxTime = 2  MaxSuspensions = 1
  None = None
  Caller = {r1, r2}  PriceList <- PriceLists  ForecourtBrand <- Brands  ProviderId <- ProviderIds
  PageSize = 2  MaximumBatches = 2  Margin = 2  Floor = 3  TokenTimeout = 1  Lifetime = {1, 3}
  LastMoment = 4  MaxSourceChanges = 1  NoBrand = "none"  NoToken = NoToken
  Markets = {"US", "GB"}  Home = "US"  Feeds <- PriceFeeds  Brand <- OneBrand
  ControlAnswers <- Controls  Baseline = 34200  CloudPrice <- CloudPrices
  FundAmount = 10000  FillSizes = {3}  LockSizes = {5}  Loads = {1}
  MaxLocks = 2  MaxFills = 2  MaxTopUps = 1
  SignUp = {r1, r2}  Plans = {"STANDARD"}  MaxRestarts = 1  MaxAfter = 1
  Backends = {"supabase"}  Tab = {1, 2}  STEP_ORDER <- FewSteps  Answers <- Values
  States <- StatesOf  Postal <- PostalOf
  LandingMarket = "uk"  PageMarkets = {"uk"}  MaxPosts <- MorePosts  MaxMessages = 2
  Task = {"t1", "t2", "t3"}  RowOf <- Rows  Visitor = {"v"}  SessionDays = 1  LastDate = 1
  MaxCuts = 1  NoView = NoView  NoSession = NoSession
SPECIFICATION Spec
INVARIANT AdvancesKept
CHECK_DEADLOCK FALSE
