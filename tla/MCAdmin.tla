------------------------------ MODULE MCAdmin ------------------------------
(* The administration application, the release and the governance packages  *)
(* for TLC: the sign-in with its protected routes, the control room, its    *)
(* workspaces, a governed request, the case desk, the staff table and its   *)
(* log; the control of the customer price, the demonstrator's scenarios and *)
(* its audit timeline; a deployment and the evidence before a pilot; the    *)
(* launch gate with the adapters behind it, support cases, assisted         *)
(* answers, finance reports and the enterprise interface.  They keep no     *)
(* state in common, so the one that moves is chosen at the start.           *)
EXTENDS AdminAuth, ControlRoom, CaseDesk, DemoControl, ProductionReadiness,
        Adapters, PlatformServices, TLC

Seed == "pa" :> {"PA", "RT"}
SeedFactor == "pa" :> "f1"
Interchangeable == Permutations(SessionId)

\* A treasurer, who may hedge, a presenter, who may reset, in the workspaces an operator, a
\* compliance officer who is an administrator and an auditor too; scenarios of two markets.
WorkspaceViewers ==
  {[id |-> "op", roles |-> {"OP"}, organisations |-> {"global", "fleet"}],
   [id |-> "cf", roles |-> {"CF", "PA"}, organisations |-> {"global", "other"}],
   [id |-> "au", roles |-> {"AU"}, organisations |-> {"global"}]}
RoomViewers ==
  WorkspaceViewers \cup
  {[id |-> "rt", roles |-> {"RT"}, organisations |-> {"global", "fleet"}],
   [id |-> "dp", roles |-> {"DP"}, organisations |-> {"global"}]}
ScenarioData ==
  "us" :> [market |-> "US", flow |-> {"quote", "shared"}] @@ "uk" :> [market |-> "UK", flow |-> {"shared"}]
DefaultScenarios == "US" :> "us" @@ "UK" :> "uk"

RequestRoles == "maker" :> "DI" @@ "platform" :> "PA" @@ "operator" :> "OP"

\* The maker, a checker, an operator and a presenter.
Agent(id, roles) == [id |-> id, roles |-> roles, organisations |-> {"org-fuelcap-global"}]
DeskAgents ==
  {Agent("maker", {"DI"}), Agent("platform", {"PA"}), Agent("operator", {"OP", "CF"}), Agent("auditor", {"AU"})}
CaseDomains == "platform" :> "PLATFORM_INTEGRATIONS" @@ "fraud" :> "FRAUD" @@ "data" :> "DATA"
LinkedCases == "a1" :> "fraud" @@ "a2" :> "data"

\* A presenter and an operator, who may not publish.
PriceStaff == {[id |-> "dp", roles |-> {"DP", "RT"}], [id |-> "op", roles |-> {"OP"}]}

\* One control an outsider attests with two kinds of evidence, one the company attests itself,
\* and two that do not block, one of them for an outsider; evidence that expires, that failed,
\* or that its maker checked.
PilotControls ==
  "pen" :> [external |-> TRUE, blocks |-> TRUE, kinds |-> {"scope", "report"}]
  @@ "keys" :> [external |-> FALSE, blocks |-> TRUE, kinds |-> {"rotation"}]
  @@ "drill" :> [external |-> TRUE, blocks |-> FALSE, kinds |-> {"report"}]
  @@ "rota" :> [external |-> FALSE, blocks |-> FALSE, kinds |-> {"rehearsal"}]
Proof(control, kind, source) ==
  [control |-> control, kind |-> kind, source |-> source, status |-> "PASS", expires |-> 2,
   maker |-> "a", checker |-> "b"]
Failed(proof) == [proof EXCEPT !.status = "FAIL"]
Proofs ==
  {Proof("pen", "scope", "INDEPENDENT"), Proof("pen", "report", "INDEPENDENT"),
   Failed(Proof("pen", "report", "INDEPENDENT")), Proof("pen", "report", "INTERNAL"),
   Proof("keys", "rotation", "INTERNAL"), [Proof("keys", "rotation", "INTERNAL") EXCEPT !.checker = "a"],
   Proof("drill", "report", "INDEPENDENT")}
Appointments ==
  {[assessor |-> "z", independent |-> i, terms |-> TRUE, appointedBy |-> "m", approvedBy |-> p] :
     i \in BOOLEAN, p \in {"l", "m"}}
Packages ==
  {{Proof("pen", "scope", "INDEPENDENT"), Proof("pen", "report", "INDEPENDENT")},
   {Proof("pen", "scope", "INDEPENDENT"), Failed(Proof("pen", "report", "INDEPENDENT"))},
   {Proof("pen", "scope", "INDEPENDENT"), Proof("drill", "report", "INDEPENDENT")},
   {Proof("pen", "scope", "INDEPENDENT"), Proof("pen", "report", "INTERNAL")}}
Finding(severity, status, proven) == [severity |-> severity, status |-> status, evidence |-> proven]
FindingSets ==
  {{}, {Finding("CRITICAL", "REMEDIATED", TRUE)}, {Finding("LOW", "REMEDIATED", FALSE)},
   {Finding("HIGH", "ACCEPTED_RISK", FALSE), Finding("LOW", "OPEN", FALSE)}}

\* One control; evidence that expires early, or that one person filed and checked; a partner
\* that lacks a control.
Needs == "kyc" :> [market |-> "UK", partner |-> "KYC_PROVIDER"]
Item(maker, checker, expires) ==
  [control |-> "kyc", status |-> "APPROVED", market |-> "UK", maker |-> maker, checker |-> checker, expires |-> expires]
Filings == {Item("a", "b", 1), Item("a", "a", 2), Item("a", "b", 2)}
Listed ==
  {[kind |-> "KYC_PROVIDER", environment |-> "PRODUCTION", controls |-> c] : c \in {{"contract", "webhook"}, {"contract"}}}

\* Fuel prices with and without a licence, one payment in either environment, checks that
\* are clear, incomplete or match; a receipt for a message.
Arrived(id, from, environment) ==
  [id |-> id, from |-> from, environment |-> environment, authentic |-> TRUE, tokenized |-> TRUE]
PartnerEvents ==
  {Arrived("f", "fuel", "PRODUCTION") @@ [licence |-> l] : l \in {"APPROVED", "OPEN"}}
  \cup {Arrived("p", "payments", e) @@ [amount |-> 3] : e \in {"SANDBOX", "PRODUCTION"}}
  \cup {Arrived("v", "verification", "PRODUCTION") @@ [requested |-> {"PEP", "SANCTIONS"}, checks |-> c] :
          c \in {"PEP" :> "CLEAR" @@ "SANCTIONS" :> "CLEAR", "PEP" :> "CLEAR",
                 "PEP" :> "CLEAR" @@ "SANCTIONS" :> "POSSIBLE_MATCH"}}
  \cup {Arrived("r", "messaging", "SANDBOX") @@ [message |-> "m"]}
Messages ==
  {[id |-> "m", key |-> "k", class |-> c, channel |-> "EMAIL", environment |-> "SANDBOX", ready |-> TRUE] :
     c \in {"MARKETING", "SERVICE"}}
Wishes == {[marketing |-> m, channels |-> {"EMAIL"}] : m \in BOOLEAN}

Supporters == "s" :> "CS" @@ "c" :> "CF"

\* Evaluations that cover all, leave one out, or take a failure back and the reverse;
\* answers that cite what they may and what they may not.
Result(d, passed) == [dimension |-> d, passed |-> passed]
Evaluations ==
  {<<Result("BIAS", TRUE), Result("COST", TRUE)>>, <<Result("BIAS", TRUE)>>,
   <<Result("BIAS", FALSE), Result("COST", TRUE), Result("BIAS", TRUE)>>,
   <<Result("BIAS", TRUE), Result("COST", TRUE), Result("COST", FALSE)>>}
Mine == [id |-> "e1", allowed |-> TRUE]
Answers ==
  {[capability |-> k, action |-> a, injected |-> i, evidence |-> e, cited |-> c, confidence |-> n] :
     k \in {"FORECAST", "SEARCH"}, a \in {"READ", "APPROVE"}, i \in BOOLEAN, e \in {{Mine}, {Mine, [id |-> "e2", allowed |-> FALSE]}},
     c \in {{}, {"e1"}, {"e2"}}, n \in {1, 2, 3}}
Booked(id, category, amount, actual, processed, from) ==
  [id |-> id, category |-> category, amount |-> amount, actual |-> actual, processed |-> processed, source |-> from]
Booking ==
  {Booked(1, "POOL_COST_FUNDING", 5, TRUE, 1, "ledger"), Booked(2, "MARGIN_REVENUE", 2, TRUE, 1, "ledger"),
   Booked(3, "MARGIN_REVENUE", 2, FALSE, 3, "model"), Booked(4, "HEDGE_COST", 1, TRUE, 2, "broker"),
   Booked(5, "HEDGE_RECOVERY", 4, FALSE, 3, "model"), Booked(6, "PROTECTION_CLAIM", 3, TRUE, 2, "ledger")}
LedgerSums == "POOL_COST_FUNDING" :> 5 @@ "MARGIN_REVENUE" :> 2

StaffSeed == "pa" :> {"PA"} @@ "rt" :> {"RT"}

Brands == {[id |-> "b", problems |-> {}], [id |-> "w", problems |-> {"HTTPS_URL_REQUIRED"}]}

-----------------------------------------------------------------------------
VARIABLE machine   \* the one that moves

adminVars == <<authVars, roomVars, floorVars, requestVars, deskVars, staffVars>>
demoVars == <<controlVars, scenarioVars, trailVars, inboxVars>>
releaseVars == <<deployVars, assuranceVars>>
governanceVars == <<adapterVars, supportVars, aiVars, reportVars, enterpriseVars>>

Init ==
  /\ machine \in {"auth", "room", "request", "desk", "control", "release", "assurance", "readiness",
                  "staff", "floor", "scenarios", "trail", "inbox", "adapters", "support", "assistant", "reports", "enterprise"}
  /\ AuthInit /\ RoomInit /\ RequestInit /\ DeskInit /\ ControlInit /\ DeploymentInit /\ AssuranceInit
  /\ AdaptersInit /\ SupportInit /\ OversightInit /\ EnterpriseInit /\ StaffInit
  /\ FloorInit /\ ScenarioInit /\ TrailInit /\ InboxInit
  /\ machine # "desk" => agent.id = "maker"
  /\ machine # "room" => page.scenario = "us" /\ page.organisation = "global"
  /\ machine = "room" => viewer \notin WorkspaceViewers
  /\ machine \notin {"room", "floor"} => viewer.id = "rt"
  /\ machine # "scenarios" => stage.environment = "demo" /\ stage.clock = scenarioManifests.flat.start
  /\ machine # "adapters" => preference.allows.marketing
  /\ machine # "support" => supportCase.kind = "SUPPORT" /\ supportCase.events[1].by = "s"
  /\ machine # "release" => deploys[1].commit = Expected

AdminNext ==
  \/ machine = "auth" /\ AuthNext /\ UNCHANGED <<roomVars, floorVars, requestVars, deskVars, staffVars>>
  \/ machine = "room" /\ RoomNext /\ UNCHANGED <<authVars, floorVars, requestVars, deskVars, staffVars>>
  \/ machine = "floor" /\ FloorNext /\ UNCHANGED <<authVars, roomVars, requestVars, deskVars, staffVars>>
  \/ machine = "request" /\ RequestNext /\ UNCHANGED <<authVars, roomVars, floorVars, deskVars, staffVars>>
  \/ machine = "desk" /\ DeskNext /\ UNCHANGED <<authVars, roomVars, floorVars, requestVars, staffVars>>
  \/ machine = "staff" /\ StaffNext /\ UNCHANGED <<authVars, roomVars, floorVars, requestVars, deskVars>>

DemoNext ==
  \/ machine = "control" /\ ControlNext /\ UNCHANGED <<scenarioVars, trailVars, inboxVars>>
  \/ machine = "scenarios" /\ ScenarioNext /\ UNCHANGED <<controlVars, trailVars, inboxVars>>
  \/ machine = "trail" /\ TrailNext /\ UNCHANGED <<controlVars, scenarioVars, inboxVars>>
  \/ machine = "inbox" /\ InboxNext /\ UNCHANGED <<controlVars, scenarioVars, trailVars>>

ReleaseNext ==
  \/ machine = "release" /\ DeploymentNext /\ UNCHANGED assuranceVars
  \/ machine = "assurance" /\ EvidenceRoomNext /\ UNCHANGED deployVars
  \/ machine = "readiness" /\ ReadinessNext /\ UNCHANGED deployVars

GovernanceNext ==
  \/ machine = "adapters" /\ AdaptersNext /\ UNCHANGED <<supportVars, aiVars, reportVars, enterpriseVars>>
  \/ machine = "support" /\ SupportNext /\ UNCHANGED <<adapterVars, aiVars, reportVars, enterpriseVars>>
  \/ machine = "assistant" /\ AiNext /\ UNCHANGED <<adapterVars, supportVars, reportVars, enterpriseVars>>
  \/ machine = "reports" /\ ReportNext /\ UNCHANGED <<adapterVars, supportVars, aiVars, enterpriseVars>>
  \/ machine = "enterprise" /\ EnterpriseNext /\ UNCHANGED <<adapterVars, supportVars, aiVars, reportVars>>

Next ==
  \/ AdminNext /\ UNCHANGED <<machine, demoVars, releaseVars, governanceVars>>
  \/ DemoNext /\ UNCHANGED <<machine, adminVars, releaseVars, governanceVars>>
  \/ ReleaseNext /\ UNCHANGED <<machine, adminVars, demoVars, governanceVars>>
  \/ GovernanceNext /\ UNCHANGED <<machine, adminVars, demoVars, releaseVars>>

Spec == Init /\ [][Next]_<<machine, adminVars, demoVars, releaseVars, governanceVars>>

\* What the case desk, the price control, the scenarios, the audit timeline and the inboxes,
\* the evidence room, the support cases and the staff log show for themselves is what happened, and only
\* those see it who may.
HistoriesExplain ==
  /\ DeskHistoriesExplain /\ ControlExplained /\ CustodyExplains /\ SupportHistoriesExplain
  /\ StaffTablesSound /\ SummariesAreProven /\ RepeatsCountOnce
  /\ machine = "scenarios" => ScenariosReproduce

\* Partners are live, answers and reports shown and webhooks delivered only as approved.
ReleasedAsApproved == ProvenBeforeLive /\ DefinitionsGovern /\ DeliveredOnce
=============================================================================
