---------------------------- MODULE ControlRoom ----------------------------
(***************************************************************************)
(* apps/admin/components/control-room.tsx: the page of one member of staff. *)
(* Governed actions and the scenario reset are asked of the server and the  *)
(* answers come back after whatever was clicked meanwhile.                  *)
(* Then the workspaces it opens: a request, the approval that follows it,   *)
(* the export of the audit and the fleet that a tenant may read.            *)
(***************************************************************************)
EXTENDS Authz, Maps

CONSTANTS
  Viewers,         \* the principals who may be signed in
  RoomEnvironment,
  Organisations,   \* demoOrganisations
  Scenarios,       \* scenario -> [market, flow]
  MarketDefaults,  \* market -> scenario
  RequestId,       \* bound: requests under way at once
  RoomPages,       \* bound: the workspaces visited
  NoFlow

VARIABLES
  viewer,
  page,      \* [scenario, organisation, workspace, ready, reset, approval, security, flow]
  requests,  \* under way: [kind, about], the scenario or the organisation it was sent for
  permitted, \* the organisations for which the server has allowed the hedge
  floor      \* the workspace that is open: [organisation, workspace, action, export, awaiting, served]

roomVars == <<viewer, page, requests, permitted>>
floorVars == <<floor>>

Memberships == Organisations \cap viewer.organisations
RoomWorkspaces == visibleWorkspaces(viewer, RoomEnvironment, page.organisation, RoomPages)
canInitiateHedge ==
  authorize(viewer, RoomEnvironment, page.organisation, "risk-hedging", "initiate", "nobody")

RoomInit ==
  /\ viewer \in Viewers
  /\ \E scenario \in DOMAIN Scenarios, organisation \in Memberships :
       page = [scenario |-> scenario, organisation |-> organisation, workspace |-> "control-room",
               ready |-> scenario, reset |-> "idle", approval |-> "idle", security |-> "none", flow |-> NoFlow]
  /\ requests = EmptyMap /\ permitted = {}

-----------------------------------------------------------------------------
Sends(kind, about) ==
  \E r \in RequestId :
    /\ NewKey(requests, r)
    /\ requests' = Put(requests, r, [kind |-> kind, about |-> about])

openEvidence(key) ==
  /\ key \in Scenarios[page.scenario].flow
  /\ page' = [page EXCEPT !.flow = key]
  /\ UNCHANGED <<requests, permitted>>

closeEvidence ==
  /\ page.flow # NoFlow
  /\ page' = [page EXCEPT !.flow = NoFlow]
  /\ UNCHANGED <<requests, permitted>>

requestGovernedAction ==
  /\ page.approval = "idle"
  /\ page' = IF canInitiateHedge
             THEN [page EXCEPT !.approval = "reviewing", !.security = "step-up-required"]
             ELSE [page EXCEPT !.security = "permission-denied"]
  /\ UNCHANGED <<requests, permitted>>

CancelReview ==
  /\ page.approval = "reviewing"
  /\ page' = [page EXCEPT !.approval = "idle"]
  /\ UNCHANGED <<requests, permitted>>

\* The three governed buttons of the page.
AskServer ==
  /\ \/ page.approval = "reviewing" /\ Sends("initiate-hedge", page.organisation)
     \/ Sends("validate-price", page.organisation)
     \/ Sends("emergency-access", page.organisation)
  /\ UNCHANGED <<page, permitted>>

\* A new scenario starts over; what the security banner says stays.
Started(p, scenario) ==
  [p EXCEPT !.scenario = scenario, !.ready = scenario, !.reset = "idle", !.approval = "idle", !.flow = NoFlow]

changeScenario(scenario) ==
  /\ page' = Started(page, scenario)
  /\ UNCHANGED <<requests, permitted>>

changeMarket(market) == changeScenario(MarketDefaults[market])

resetScenario ==
  /\ page.reset # "resetting" /\ Sends("reset", page.scenario)
  /\ page' = [page EXCEPT !.reset = "resetting"]
  /\ UNCHANGED permitted

\* Navigation among the workspaces the roles show, and to another organisation.
Navigate ==
  /\ \/ \E w \in RoomWorkspaces : page' = [page EXCEPT !.workspace = w]
     \/ \E o \in Memberships : page' = [page EXCEPT !.organisation = o]
  /\ UNCHANGED <<requests, permitted>>

-----------------------------------------------------------------------------
\* Mutant of Shown: whatever the server answers to the hedge, it is approved.
ShownApproved(p, kind, answer) ==
  IF kind = "initiate-hedge" THEN [p EXCEPT !.approval = "approved", !.security = "step-up-complete"]
  ELSE IF answer = "cancelled" THEN [p EXCEPT !.security = "step-up-cancelled"]
  ELSE [p EXCEPT !.security = "emergency-denied"]

\* What the page shows when an answer comes back.
Shown(p, kind, answer) ==
  IF answer = "cancelled" THEN [p EXCEPT !.security = "step-up-cancelled"]
  ELSE IF kind = "initiate-hedge"
  THEN IF answer = "allowed" THEN [p EXCEPT !.approval = "approved", !.security = "step-up-complete"]
       ELSE [p EXCEPT !.approval = "idle", !.security = "permission-denied"]
  ELSE IF kind = "validate-price" THEN [p EXCEPT !.security = "break-glass-denied"]
  ELSE [p EXCEPT !.security = IF answer = "allowed" THEN "emergency-granted" ELSE "emergency-denied"]

\* The server decides by the roles it holds, for the organisation the request was sent for.
Allowed(kind, organisation) ==
  CASE kind = "initiate-hedge" ->
         authorize(viewer, RoomEnvironment, organisation, "risk-hedging", "initiate", "nobody")
    [] kind = "emergency-access" -> evaluateBreakGlass(viewer, "temporary-support-access", TRUE)
    [] kind = "validate-price" -> FALSE

\* After the code, or the dialog was cancelled; an answer that is an error reads as denied.
GovernedAnswer(r) ==
  /\ r \in DOMAIN requests /\ requests[r].kind # "reset"
  /\ requests' = [x \in DOMAIN requests \ {r} |-> requests[x]]
  /\ \E answer \in {"cancelled", "denied"}
                   \cup (IF Allowed(requests[r].kind, requests[r].about) THEN {"allowed"} ELSE {}) :
       /\ page' = Shown(page, requests[r].kind, answer)
       /\ permitted' = IF requests[r].kind = "initiate-hedge" /\ answer = "allowed"
                       THEN permitted \cup {requests[r].about} ELSE permitted

\* The evidence of the scenario that was reset replaces what is on show, whichever scenario
\* that is by now.
ResetAnswer(r) ==
  /\ r \in DOMAIN requests /\ requests[r].kind = "reset"
  /\ requests' = [x \in DOMAIN requests \ {r} |-> requests[x]]
  /\ \/ /\ "DP" \in viewer.roles /\ RoomEnvironment # "production"
        /\ page' = [page EXCEPT !.ready = requests[r].about, !.approval = "idle", !.reset = "ready"]
     \/ page' = [page EXCEPT !.reset = "failed"]
  /\ UNCHANGED permitted

RoomNext ==
  /\ UNCHANGED viewer
  /\ \/ \E key \in UNION {Scenarios[s].flow : s \in DOMAIN Scenarios} : openEvidence(key)
     \/ closeEvidence \/ requestGovernedAction \/ CancelReview \/ AskServer \/ Navigate
     \/ resetScenario
     \/ \E s \in DOMAIN Scenarios : changeScenario(s)
     \/ \E m \in DOMAIN MarketDefaults : changeMarket(m)
     \/ \E r \in RequestId : GovernedAnswer(r) \/ ResetAnswer(r)

-----------------------------------------------------------------------------
(* The workspaces.  One is mounted at a time, for one organisation.        *)

GlobalOrganisation == "global"   \* org-fuelcap-global
FleetOrganisation == "fleet"     \* org-fleet-northstar

\* A proposal is drafted; what the others request waits for an approval.
Proposing == {"fleets-vehicles", "pricing-data"}
Approving == {"rules-automation", "communications", "transactions-ledger", "billing-reconciliation",
              "fraud-cases", "platform-integrations-audit", "risk-hedging"}

fleetForOrganisation(organisation) == organisation = FleetOrganisation

\* The other organisations are shown an empty workspace.
HasContent(f) ==
  IF f.workspace = "fleets-vehicles" THEN fleetForOrganisation(f.organisation)
  ELSE f.organisation = GlobalOrganisation

\* Mutant of Mounted: the component keeps its state when the organisation changes.
KeptAcrossTenants(f, organisation, workspace) ==
  [f EXCEPT !.organisation = organisation, !.workspace = workspace]

\* The component is mounted anew.
Mounted(f, organisation, workspace) ==
  [organisation |-> organisation, workspace |-> workspace, action |-> "idle", export |-> "idle",
   awaiting |-> FALSE, served |-> f.served]

FloorInit ==
  floor = [organisation |-> GlobalOrganisation, workspace |-> "transactions-ledger", action |-> "idle",
           export |-> "idle", awaiting |-> FALSE, served |-> {}]

OpenWorkspace(organisation, workspace) ==
  /\ organisation \in Memberships /\ <<organisation, workspace>> # <<floor.organisation, floor.workspace>>
  /\ workspace \in visibleWorkspaces(viewer, RoomEnvironment, organisation, Workspace)
  /\ floor' = Mounted(floor, organisation, workspace)

MayIn(f, verb, owner) == authorize(viewer, RoomEnvironment, f.organisation, f.workspace, verb, owner)

RequestApproval ==
  /\ HasContent(floor) /\ floor.workspace \in Proposing \cup Approving
  /\ floor' = [floor EXCEPT !.action = IF ~MayIn(floor, "initiate", "nobody") THEN "denied"
                                      ELSE IF floor.workspace \in Proposing THEN "submitted" ELSE "pending"]

\* What the functions behind the approval buttons check, and the people the buttons name.
Signed(maker, checker, role, evidence) ==
  [maker |-> maker, checker |-> checker, role |-> role, stepUp |-> TRUE, evidence |-> evidence]
ByTwo(a) == a.maker # a.checker /\ a.evidence # {}

approveRulePublication(a) == ByTwo(a) /\ a.role = "CF" /\ a.stepUp /\ a.evidence = {"validation", "regression"}
approveRequiredTemplate(a) == ByTwo(a) /\ a.role = "CF" /\ a.stepUp
createCorrectionJournal(a) == ByTwo(a)
approveBillingCorrection(a) == ByTwo(a)
approveMaterialRestriction(a) == ByTwo(a)
approveIntegrationConfiguration(a) == ByTwo(a) /\ a.role \in {"DI", "PA"} /\ a.stepUp

ButtonApproves ==
  LET cf == Signed("principal-cf-maker", "principal-cf-checker", "CF", {"validation", "regression"})
      fr == Signed("principal-fr-maker", "principal-fr-checker", "FR", {"match"})
      pa == Signed("principal-data-maker", "principal-platform-checker", "PA", {"rollback"})
  IN CASE floor.workspace = "rules-automation"            -> approveRulePublication(cf)
       [] floor.workspace = "communications"              -> approveRequiredTemplate(cf)
       [] floor.workspace = "transactions-ledger"         -> createCorrectionJournal(fr)
       [] floor.workspace = "billing-reconciliation"      -> approveBillingCorrection(fr)
       [] floor.workspace = "fraud-cases"                 -> approveMaterialRestriction(cf)
       [] floor.workspace = "platform-integrations-audit" -> approveIntegrationConfiguration(pa)

Approve ==
  /\ floor.action = "pending" /\ floor.workspace # "risk-hedging" /\ ButtonApproves
  /\ floor' = [floor EXCEPT !.action = "approved"]

\* The hedge is approved by the server, which knows the maker by another name than the page.
approveSimulation ==
  /\ floor.action = "pending" /\ floor.workspace = "risk-hedging" /\ ~floor.awaiting
  /\ floor' = [floor EXCEPT !.awaiting = TRUE]

createSimulatedHedgeExecution == viewer.id # "principal-rt-maker"

HedgeAnswer ==
  /\ floor.awaiting
  /\ \/ floor' = [floor EXCEPT !.awaiting = FALSE]
     \/ floor' = [floor EXCEPT !.awaiting = FALSE, !.action = "denied"]
     \/ /\ MayIn(floor, "approve", "principal-risk-maker") /\ createSimulatedHedgeExecution
        /\ floor' = [floor EXCEPT !.awaiting = FALSE, !.action = "approved"]

requestAuditExport ==
  /\ floor.workspace = "platform-integrations-audit" /\ HasContent(floor)
  /\ floor' = [floor EXCEPT !.export = IF MayIn(floor, "export", "nobody") THEN "exported" ELSE "denied"]

\* GET /api/demo/organisations/[organisationId]/fleet: the active organisation is a header.
ReadFleet(active, organisation) ==
  /\ authorizeTenantResource(viewer, RoomEnvironment, active, organisation, "fleets-vehicles")
  /\ fleetForOrganisation(organisation)
  /\ floor' = [floor EXCEPT !.served = @ \cup {organisation}]

FloorNext ==
  \/ \E o \in Organisations, w \in Proposing \cup Approving : OpenWorkspace(o, w)
  \/ RequestApproval \/ Approve \/ approveSimulation \/ HedgeAnswer \/ requestAuditExport
  \/ \E active, o \in Organisations : ReadFleet(active, o)

\* The page and the workspace it has open share nothing but who is signed in.
RoomOrFloor ==
  \/ RoomNext /\ UNCHANGED floorVars
  \/ FloorNext /\ UNCHANGED roomVars

RoomSpec == RoomInit /\ FloorInit /\ [][RoomOrFloor]_<<roomVars, floorVars>>

-----------------------------------------------------------------------------
\* What a workspace shows as requested, approved or exported was asked for by somebody who
\* may do it there, for the organisation on the page, whatever was open before; a hedge is
\* approved by somebody who may approve; a fleet is read by its members.
WorkspacesGoverned ==
  /\ floor.action \in {"submitted", "pending", "approved"} => HasContent(floor) /\ MayIn(floor, "initiate", "nobody")
  /\ floor.action = "approved" /\ floor.workspace = "risk-hedging" => MayIn(floor, "approve", "principal-risk-maker")
  /\ floor.export = "exported" => HasContent(floor) /\ MayIn(floor, "export", "nobody")
  /\ floor.served \subseteq viewer.organisations

\* However the answers and the clicks interleave, "Simulated action approved" is shown only
\* after the server allowed the hedge to this person, for an organisation of theirs, and the
\* drawer shows a node of the scenario on the page; in the workspaces likewise.
ApprovedWasAllowed ==
  /\ page.approval = "approved" => permitted # {}
  /\ permitted \subseteq viewer.organisations
  /\ page.flow # NoFlow => page.flow \in Scenarios[page.scenario].flow
  /\ WorkspacesGoverned
=============================================================================
