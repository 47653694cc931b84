------------------------------ MODULE CaseDesk ------------------------------
(***************************************************************************)
(* Governed requests, then the desk of cases and alerts that drives them.  *)
(*                                                                         *)
(* packages/demo-data maker-checker.ts and exception-controls.ts: one       *)
(* governed request and the people who work on it.  Each acts on the        *)
(* request as it is, naming the version and the evidence they looked at.    *)
(***************************************************************************)
EXTENDS Naturals, Sequences, Authz, Maps

CONSTANTS
  Maker,            \* makerId of the draft
  Staff,            \* principals, the maker among them
  RoleOf,           \* principal -> role
  Deadline,         \* hours until expiresAt
  MaxRequestVersion \* bound: versions of the request

VARIABLES
  request,  \* [version, state, approval, rejection, executed, health, trail]
  looked,   \* principal -> the [version, digest] they last looked at
  clock     \* hours since the draft

requestVars == <<request, looked, clock>>

Nothing == [by |-> "nobody"]
Digest == "evidence-v1"    \* evidenceDigest: no function of the package computes another

draftConfigurationRequest ==
  [version |-> 1, state |-> "DRAFT", approval |-> Nothing, rejection |-> Nothing,
   executed |-> FALSE, health |-> FALSE, expiresAt |-> Deadline, trail |-> <<"DRAFT">>]

\* next: every transition appends its id to the trail.
Step(r, state) == [r EXCEPT !.state = state, !.trail = Append(@, state)]

Decision(p, seen) ==
  [by |-> p, role |-> RoleOf[p], version |-> seen.version, digest |-> seen.digest]

\* Mutant of MayDecide: whichever version the checker looked at, this one is decided.
MayDecideUnseen(r, decision, roles) ==
  r.state = "PENDING_APPROVAL" /\ decision.by # Maker /\ decision.role \in roles

\* What a checker needs: not the maker, a role that may check, and the request they looked at.
MayDecide(r, decision, roles) ==
  /\ r.state = "PENDING_APPROVAL"
  /\ decision.by # Maker /\ decision.role \in roles
  /\ decision.version = r.version /\ decision.digest = Digest

Approved(r, decision) == [Step(r, "APPROVED") EXCEPT !.approval = decision]
Rejected(r, decision) == [Step(r, "REJECTED") EXCEPT !.rejection = decision]

\* The executor wants the very approval of this version.
Bound(r, seen) ==
  /\ r.state = "APPROVED" /\ r.approval # Nothing
  /\ r.approval.version = seen.version /\ r.version = seen.version
  /\ r.approval.digest = seen.digest /\ Digest = seen.digest

Executed(r) == [Step(Step(r, "EXECUTING"), "EXECUTED") EXCEPT !.executed = TRUE]
Verified(r) == [Step(r, "VERIFIED") EXCEPT !.health = TRUE]

Replaced(r) ==
  [Step(r, "DRAFT") EXCEPT !.version = @ + 1, !.approval = Nothing, !.rejection = Nothing,
                           !.expiresAt = Deadline + 2]

-----------------------------------------------------------------------------
RequestInit ==
  /\ request = draftConfigurationRequest
  /\ looked = [p \in Staff |-> [version |-> 1, digest |-> Digest]]
  /\ clock = 0

Look(p) ==
  /\ looked' = [looked EXCEPT ![p] = [version |-> request.version, digest |-> Digest]]
  /\ UNCHANGED <<request, clock>>

Hour ==
  /\ clock < Deadline + 2 /\ clock' = clock + 1
  /\ UNCHANGED <<request, looked>>

\* validateGovernedAction, simulateGovernedAction and requestGovernedApproval: the content of
\* the draft is complete and harmless, so that the state alone decides.
Prepare ==
  /\ request' = CASE request.state = "DRAFT" -> Step(request, "VALIDATED")
                  [] request.state = "VALIDATED" -> Step(request, "SIMULATED")
                  [] request.state = "SIMULATED" -> Step(request, "PENDING_APPROVAL")
                  [] OTHER -> request
  /\ UNCHANGED <<looked, clock>>

approveGovernedAction(p, assurance) ==
  /\ assurance = "step-up" /\ MayDecide(request, Decision(p, looked[p]), {"DI", "PA"})
  /\ request' = Approved(request, Decision(p, looked[p]))
  /\ UNCHANGED <<looked, clock>>

rejectGovernedAction(p) ==
  /\ MayDecide(request, Decision(p, looked[p]), {"DI", "PA"})
  /\ request' = Rejected(request, Decision(p, looked[p]))
  /\ UNCHANGED <<looked, clock>>

\* Only a pending request expires: an approved one may wait for its execution for ever.
expireGovernedAction ==
  /\ request.state = "PENDING_APPROVAL" /\ clock >= request.expiresAt
  /\ request' = Step(request, "EXPIRED")
  /\ UNCHANGED <<looked, clock>>

replaceTerminalRequest ==
  /\ request.state \in {"REJECTED", "EXPIRED"} /\ request.version < MaxRequestVersion
  /\ request' = Replaced(request)
  /\ UNCHANGED <<looked, clock>>

\* beginGovernedExecution and completeGovernedExecution run back to back.
Execute(p) ==
  /\ Bound(request, looked[p])
  /\ request' = Executed(request)
  /\ UNCHANGED <<looked, clock>>

verifyGovernedExecution ==
  /\ request.state = "EXECUTED"
  /\ request' = Verified(request)
  /\ UNCHANGED <<looked, clock>>

RequestNext ==
  \/ Hour \/ Prepare \/ expireGovernedAction \/ replaceTerminalRequest \/ verifyGovernedExecution
  \/ \E p \in Staff : \/ Look(p) \/ rejectGovernedAction(p) \/ Execute(p)
                      \/ \E a \in {"standard", "step-up"} : approveGovernedAction(p, a)

RequestSpec == RequestInit /\ [][RequestNext]_requestVars

-----------------------------------------------------------------------------
\* What a change passes, in this order.
Gates == <<"DRAFT", "VALIDATED", "SIMULATED", "PENDING_APPROVAL", "APPROVED", "EXECUTING", "EXECUTED">>

\* However many versions were rejected or expired before, an approval stands only on the version
\* and evidence that somebody other than the maker looked at, and a change is made only on such
\* an approval, every gate passed in order since that version was drafted.
ExecutedAsApproved ==
  /\ request.approval # Nothing =>
       /\ request.approval.by # Maker /\ request.approval.role \in {"DI", "PA"}
       /\ request.approval.version = request.version
  /\ request.executed =>
       /\ request.approval # Nothing
       /\ \E i \in DOMAIN request.trail : \A k \in DOMAIN Gates :
            i + k - 1 \in DOMAIN request.trail /\ request.trail[i + k - 1] = Gates[k]

-----------------------------------------------------------------------------
(***************************************************************************)
(* apps/admin/components/platform-integrations-audit-workspace.tsx with the *)
(* case and alert lifecycles of packages/demo-data it drives: the page of   *)
(* one member of staff, whose state nobody shares.                          *)
(***************************************************************************)
CONSTANTS
  Agents,        \* the principals who may open the page
  DeskEnvironment,
  Cases,         \* case -> domain; the first open is Representative
  Representative,
  AlertCases,    \* alert -> the seeded case it is linked to
  MaxNotes       \* bound: notes on a case

\* "nobody" is no principal: it stands for an owner there is not.
ASSUME DeskAssumption == \A a \in Agents : a.id # "nobody"

VARIABLES
  agent,         \* who is signed in
  sharedRequest, exceptionRequest,  \* requests as in MakerChecker
  reviewing,     \* sharedApprovalState = "stepup"
  case,          \* [id, version, state, owner, assignments, resolution, recovered]
  timeline,      \* of the case: sequence of entries
  alerts, alertEvents,
  copilotOff, growthExported

deskVars == <<agent, sharedRequest, exceptionRequest, reviewing, case, timeline, alerts, alertEvents,
              copilotOff, growthExported>>

DeskOrganisation == "org-fuelcap-global"
May(workspace, verb, owner) ==
  authorize(agent, DeskEnvironment, DeskOrganisation, workspace, verb, owner)

-----------------------------------------------------------------------------
\* shared-case.ts

OpenCase(id) ==
  [id |-> id, version |-> 1, state |-> "OPEN", owner |-> "nobody", assignments |-> 0,
   resolution |-> FALSE, recovered |-> FALSE]
Entry(c, type, by) == [case |-> c.id, version |-> c.version, type |-> type, by |-> by]
openCaseTimeline(c) == << Entry(c, "CASE_OPENED", "case-orchestrator") >>

allowedTransitions ==
  [OPEN |-> {"TRIAGED"}, TRIAGED |-> {"INVESTIGATING"}, INVESTIGATING |-> {"PENDING_ACTION", "RESOLVED"},
   PENDING_ACTION |-> {"RESOLVED"}, RESOLVED |-> {"CLOSED", "INVESTIGATING"}, CLOSED |-> {"INVESTIGATING"}]

\* Evidence and a reason to resolve, a verified recovery to close.
MayTransition(c, target) ==
  /\ target \in allowedTransitions[c.state]
  /\ target = "RESOLVED" => c.resolution
  /\ target = "CLOSED" => c.recovered

transitionCase(c, target) == [c EXCEPT !.version = @ + 1, !.state = target]
assignCase(c, owner) == [c EXCEPT !.owner = owner, !.assignments = @ + 1]
prepareResolution(c) == [c EXCEPT !.resolution = TRUE, !.recovered = TRUE]

CaseWorkspace(domain) ==
  CASE domain = "OPERATIONS" -> "billing-reconciliation"
    [] domain \in {"FRAUD", "COMPLIANCE"} -> "fraud-cases"
    [] domain = "DATA" -> "pricing-data"
    [] domain = "PLATFORM_INTEGRATIONS" -> "platform-integrations-audit"

-----------------------------------------------------------------------------
\* alert-lifecycle.ts and escalateAlert of exception-controls.ts

OpenAlert == [version |-> 1, state |-> "OPEN", owner |-> "nobody", assignments |-> 0, level |-> 0]
AlertEvent(a, by) == [version |-> a.version, type |-> a.state, by |-> by]

Acknowledged(a) == [a EXCEPT !.version = @ + 1, !.state = "ACKNOWLEDGED"]
Assigned(a, owner) ==
  [a EXCEPT !.version = @ + 1, !.state = "ASSIGNED", !.owner = owner, !.assignments = @ + 1]
Resolved(a) == [a EXCEPT !.version = @ + 1, !.state = "RESOLVED"]
Escalated(a) ==
  [a EXCEPT !.version = @ + 1, !.state = "ESCALATED", !.level = @ + 1, !.assignments = @ + 1,
            !.owner = IF a.level = 0 THEN "TEAM-LEAD" ELSE "INCIDENT-COMMAND"]

\* Mutant of Advanced: an acknowledged alert is resolved before anybody owns it.
AdvancedUnowned(a, owner) ==
  CASE a.state = "OPEN" -> Acknowledged(a)
    [] a.state \in {"ACKNOWLEDGED", "ASSIGNED", "ESCALATED"} -> Resolved(a)

\* The step the button offers: each lifecycle function admits exactly these states.
Advanced(a, owner) ==
  CASE a.state = "OPEN" -> Acknowledged(a)
    [] a.state = "ACKNOWLEDGED" -> Assigned(a, owner)
    [] a.state \in {"ASSIGNED", "ESCALATED"} /\ a.owner # "nobody" -> Resolved(a)

MayEscalate(a) == a.state \in {"ACKNOWLEDGED", "ASSIGNED", "ESCALATED"} /\ a.level < 2

-----------------------------------------------------------------------------
DeskInit ==
  /\ agent \in Agents
  /\ sharedRequest = [draftConfigurationRequest EXCEPT !.state = "SIMULATED",
                        !.trail = <<"DRAFT", "VALIDATED", "SIMULATED">>]
  /\ exceptionRequest = Step(sharedRequest, "PENDING_APPROVAL")
  /\ reviewing = FALSE
  /\ case = OpenCase(Representative) /\ timeline = openCaseTimeline(case)
  /\ alerts = [a \in DOMAIN AlertCases |-> OpenAlert]
  /\ alertEvents = [a \in DOMAIN AlertCases |-> << AlertEvent(OpenAlert, "alert-orchestrator") >>]
  /\ copilotOff = FALSE /\ growthExported = FALSE

requestDeskVars == <<sharedRequest, exceptionRequest, reviewing>>
caseVars == <<case, timeline>>
alertVars == <<alerts, alertEvents>>
otherDeskVars == <<agent, copilotOff, growthExported>>

\* The role a checker acts in: PA before DI.
CheckerRole == IF "PA" \in agent.roles THEN "PA" ELSE IF "DI" \in agent.roles THEN "DI" ELSE "none"
CheckerDecision(r) == [by |-> agent.id, role |-> CheckerRole, version |-> r.version, digest |-> Digest]

\* Only the maker submits the request ...
submitSharedRequest ==
  /\ sharedRequest.state = "SIMULATED"
  /\ May("platform-integrations-audit", "initiate", "nobody") /\ agent.id = Maker
  /\ sharedRequest' = Step(sharedRequest, "PENDING_APPROVAL")
  /\ UNCHANGED <<exceptionRequest, reviewing, caseVars, alertVars, otherDeskVars>>

\* ... and only another principal reviews and approves it: with a page of their own, in which
\* the request is not submitted yet.  The button is never offered to anyone who may use it.
attemptSharedApproval ==
  /\ sharedRequest.state = "PENDING_APPROVAL" /\ ~reviewing
  /\ reviewing' = May("platform-integrations-audit", "approve", Maker)
  /\ UNCHANGED <<sharedRequest, exceptionRequest, caseVars, alertVars, otherDeskVars>>

rejectExceptionRequest ==
  /\ May("platform-integrations-audit", "approve", Maker)
  /\ MayDecide(exceptionRequest, CheckerDecision(exceptionRequest), {"DI", "PA"})
  /\ exceptionRequest' = Rejected(exceptionRequest, CheckerDecision(exceptionRequest))
  /\ UNCHANGED <<sharedRequest, reviewing, caseVars, alertVars, otherDeskVars>>

\* The page expires the request at its own deadline, whatever the time is.
expireExceptionRequest ==
  /\ exceptionRequest.state = "PENDING_APPROVAL"
  /\ exceptionRequest' = Step(exceptionRequest, "EXPIRED")
  /\ UNCHANGED <<sharedRequest, reviewing, caseVars, alertVars, otherDeskVars>>

\* The draft that replaces it has no button that validates it.
replaceExceptionRequest ==
  /\ exceptionRequest.state \in {"REJECTED", "EXPIRED"}
  /\ exceptionRequest' = Replaced(exceptionRequest)
  /\ UNCHANGED <<sharedRequest, reviewing, caseVars, alertVars, otherDeskVars>>

-----------------------------------------------------------------------------
CanManageCase == May(CaseWorkspace(Cases[case.id]), "initiate", "nobody")

\* The one case button: the next step of the life of the case.
advanceCase ==
  /\ CanManageCase
  /\ \E target \in {"TRIAGED", "INVESTIGATING", "PENDING_ACTION", "RESOLVED", "CLOSED"} :
       LET assigned == assignCase(case, agent.id)
           ready == CASE case.state = "OPEN" -> assigned
                      [] case.state = "PENDING_ACTION" -> prepareResolution(case)
                      [] OTHER -> case
           entries == IF case.state = "OPEN" THEN Append(timeline, Entry(assigned, "ASSIGNED", agent.id))
                      ELSE timeline
       IN /\ target = (CASE case.state = "OPEN" -> "TRIAGED" [] case.state = "TRIAGED" -> "INVESTIGATING"
                         [] case.state = "INVESTIGATING" -> "PENDING_ACTION"
                         [] case.state = "PENDING_ACTION" -> "RESOLVED"
                         [] case.state = "RESOLVED" -> "CLOSED" [] OTHER -> "none")
          /\ case.state = "OPEN" => agent.roles \cap {"OP", "DI", "CF"} # {}
          /\ MayTransition(ready, target)
          /\ case' = transitionCase(ready, target)
          /\ timeline' = Append(entries, Entry(case', target, agent.id))
  /\ UNCHANGED <<requestDeskVars, alertVars, otherDeskVars>>

recordCaseNote ==
  /\ case.state \in {"INVESTIGATING", "PENDING_ACTION"}
  /\ "DI" \in agent.roles /\ CanManageCase
  /\ Len(SelectSeq(timeline, LAMBDA e : e.type = "NOTE_ADDED")) < MaxNotes
  /\ timeline' = Append(timeline, Entry(case, "NOTE_ADDED", agent.id))
  /\ UNCHANGED <<case, requestDeskVars, alertVars, otherDeskVars>>

\* Opening a case, from the catalogue or from an alert, starts it from its seed: what was done
\* to the case that was open is gone.
openSeededCase(id) ==
  /\ id # Representative
  /\ case' = OpenCase(id) /\ timeline' = openCaseTimeline(case')
  /\ UNCHANGED <<requestDeskVars, alertVars, otherDeskVars>>

MayHandle(a) ==
  /\ May(IF Cases[AlertCases[a]] \in {"OPERATIONS", "FRAUD", "COMPLIANCE"}
         THEN CaseWorkspace(Cases[AlertCases[a]]) ELSE "pricing-data", "initiate", "nobody")
  /\ agent.roles \cap {"OP", "CF", "DI"} # {}

Handled(a, next) ==
  /\ MayHandle(a)
  /\ alerts' = [alerts EXCEPT ![a] = next]
  /\ alertEvents' = [alertEvents EXCEPT ![a] = Append(@, AlertEvent(next, agent.id))]
  /\ UNCHANGED <<requestDeskVars, caseVars, otherDeskVars>>

advanceAlert(a) == alerts[a].state # "RESOLVED" /\ Handled(a, Advanced(alerts[a], agent.id))

\* The page passes a time long past both thresholds.
escalateSelectedAlert(a) == MayEscalate(alerts[a]) /\ Handled(a, Escalated(alerts[a]))

toggleCopilotKillSwitch ==
  /\ May("ai-control-centre", "initiate", "nobody") /\ copilotOff' = ~copilotOff
  /\ UNCHANGED <<requestDeskVars, caseVars, alertVars, agent, growthExported>>

exportGrowth ==
  /\ growthExported' = May("platform-integrations-audit", "export", "nobody")
  /\ UNCHANGED <<requestDeskVars, caseVars, alertVars, agent, copilotOff>>

DeskNext ==
  \/ submitSharedRequest \/ attemptSharedApproval
  \/ rejectExceptionRequest \/ expireExceptionRequest
  \/ exceptionRequest.version < MaxRequestVersion /\ replaceExceptionRequest
  \/ advanceCase \/ recordCaseNote \/ (\E id \in DOMAIN Cases : openSeededCase(id))
  \/ (\E a \in DOMAIN AlertCases : advanceAlert(a) \/ escalateSelectedAlert(a))
  \/ toggleCopilotKillSwitch \/ exportGrowth

-----------------------------------------------------------------------------
\* The histories explain what they are the history of: one event per version of an alert, the
\* last one its state, nothing resolved before it was acknowledged and somebody owned it; no
\* case entry of another case, a case closed only after it was owned, investigated and its
\* recovery verified.
DeskHistoriesExplain ==
  /\ \A a \in DOMAIN alerts : LET events == alertEvents[a] IN
       /\ Len(events) = alerts[a].version /\ events[Len(events)].type = alerts[a].state
       /\ alerts[a].state = "RESOLVED" =>
            /\ events[2].type = "ACKNOWLEDGED" /\ alerts[a].owner # "nobody"
            /\ \E i \in DOMAIN events : events[i].type \in {"ASSIGNED", "ESCALATED"}
  /\ \A i \in DOMAIN timeline : timeline[i].case = case.id /\ timeline[i].version \in 1..case.version
  /\ case.state = "CLOSED" =>
       /\ case.owner # "nobody" /\ case.recovered
       /\ \E i \in DOMAIN timeline : timeline[i].type = "INVESTIGATING"
=============================================================================
