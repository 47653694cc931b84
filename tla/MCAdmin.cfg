\* The administration application: see MCAdmin for what each instance holds.
CONSTANTS
  User = {"pa", "nu"}  SeededStaff <- Seed  SeededFactor <- SeedFactor
  InviteRoles = {{"PA"}, {"AU", "PA"}}
  Browser = {"b1"}  SessionId = {s1, s2}  FactorId = {"f1", "f2"}  CallId = {"c1"}
  IdleTimeout = 1  StepUpWindow = 1
  Environment = "production"  None = None
  Viewers <- RoomViewers  RoomEnvironment = "demo"
  Organisations = {"global", "fleet", "other"}
  Scenarios <- ScenarioData  MarketDefaults <- DefaultScenarios
  RequestId = {s1, s2}  NoFlow = NoFlow  RoomPages = {"control-room", "platform-integrations-audit"}
  Maker = "maker"  Staff = {"maker", "platform", "operator"}  RoleOf <- RequestRoles
  Deadline = 1  MaxRequestVersion = 3
  Agents <- DeskAgents  DeskEnvironment = "demo"
  Cases <- CaseDomains  Representative = "platform"  AlertCases <- LinkedCases
  MaxNotes = 1
  Presenters <- PriceStaff  Keys = {k1, k2}  ControlEnvironment = "demo"  AuditKept = 2  MaxSequence = 3
  Commit = {"new", "other"}  Expected = "new"  Grace = 1  Stabilization = 1  DeployTimeout = 3
  MaxDeploys = 3  Drift = {"name", "nodeVersion"}  NoDeploy = NoDeploy
  Control <- PilotControls  RoomControl = "pen"  Deliverables = {"scope", "report"}  Evidence <- Proofs  Appointment <- Appointments
  SubmissionId = {"i1", "i2"}  Package <- Packages  Findings <- FindingSets  Person = {"z", "m", "l", "r"}  ScopedBy = "m"  ApprovedBy = "l"
  AssessTime = {1, 2}  DueAt = 1  MaxSubmissions = 2  Nobody = Nobody
  Requirement <- Needs  Approval <- Filings  Partner <- Listed  PartnerControls = {"contract", "webhook"}
  Event <- PartnerEvents  Message <- Messages  Preferences <- Wishes  LastDay = 2  MaxFiled = 2
  MaxInstructions = 2  MaxChanges = 1  NoGate = NoGate
  SupportKind = {"SUPPORT", "COMPLAINT", "DATA_CORRECTION"}  SupportAgent <- Supporters  SupportDue = 1  MaxCaseEvents = 7
  Reviewer = {"a", "b"}  DefinitionOwner = "a"  Dimension = {"BIAS", "COST"}  Evaluation <- Evaluations
  Answer <- Answers  Capability = "SEARCH"  Abstains = 2  Verifies = 3  FinanceRecord <- Booking  LedgerByCategory <- LedgerSums
  AuthoritativeSource = {"ledger"}  Freshness = 1  ReportTime = {2, 3, 4}  MaxRecords = 4
  NoAnswer = NoAnswer  NoReport = NoReport
  BrandPerson = {"a", "b"}  Brand <- Brands  Scope = {"pricing", "fleets"}  Granted = {"pricing"}
  Tenant = {"mine", "yours"}  OwnTenant = "mine"  CredentialEnd = 2  CallTime = {1, 2}
  DeliveryKey = {"k", "l"}  Subscribed = {"fleet"}  EnterpriseEvent = {"fleet", "price"}  MaxDeliveries = 3
  StaffPerson = {"pa", "rt", "nu"}  FirstStaff <- StaffSeed  RoleChoices = {{"PA", "RT"}, {"AU", "RT"}}
  Writer = {s1, s2}  StaffEnvironment = "production"  LogPage = 1  MaxStaffChanges = 2
  NothingShown = NothingShown  Free = Free
SPECIFICATION Spec
SYMMETRY Interchangeable
INVARIANTS PrivilegedUnderStepUp ApprovedWasAllowed ExecutedAsApproved HistoriesExplain ReleaseProven ReleasedAsApproved
CHECK_DEADLOCK FALSE
