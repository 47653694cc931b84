----------------------------- MODULE AdminProofs -----------------------------
(***************************************************************************)
(* Proofs about the administration application, the release and the        *)
(* governance packages: what the control room shows as approved, how a     *)
(* governed request is executed, under which step-up a protected call is   *)
(* taken up, which deployment goes live, that partners, answers, reports   *)
(* and webhooks go out only as approved, and that the histories they all   *)
(* keep are what happened.                                                 *)
(***************************************************************************)
EXTENDS MCAdmin, BasicLemmas, SequenceTheorems

(***************************************************************************)
(* The control room and its workspaces.                                    *)
(***************************************************************************)
\* The fields of the page, whatever they hold.
IsPage(p) ==
  p = [scenario |-> p.scenario, organisation |-> p.organisation, workspace |-> p.workspace,
       ready |-> p.ready, reset |-> p.reset, approval |-> p.approval, security |-> p.security,
       flow |-> p.flow]

IsFloor(f) ==
  f = [organisation |-> f.organisation, workspace |-> f.workspace, action |-> f.action,
       export |-> f.export, awaiting |-> f.awaiting, served |-> f.served]

Asked == {"initiate-hedge", "validate-price", "emergency-access"}

\* The page by itself: an approval on show stands on a permission, the drawer on the scenario.
PageSound ==
  /\ IsPage(page)
  /\ \A r \in DOMAIN requests : requests[r].kind \in Asked \cup {"reset"}
  /\ page.approval = "approved" => permitted # {}
  /\ permitted \subseteq viewer.organisations
  /\ page.flow # NoFlow => page.flow \in Scenarios[page.scenario].flow

\* The workspace: the answer that is awaited is to a request that was allowed, too.
FloorSound ==
  /\ IsFloor(floor)
  /\ WorkspacesGoverned
  /\ floor.awaiting => HasContent(floor) /\ MayIn(floor, "initiate", "nobody")

RoomInv == PageSound /\ FloorSound

\* Whoever may do anything for an organisation is a member of it.
LEMMA AllowedInOwn ==
  ASSUME NEW principal, NEW environment, NEW organisation, NEW workspace, NEW verb, NEW owner,
         authorize(principal, environment, organisation, workspace, verb, owner)
  PROVE  organisation \in principal.organisations
BY DEF authorize

\* The page keeps its fields and its promise when anything is clicked or answered.
LEMMA PageStep ==
  ASSUME PageSound, RoomNext
  PROVE  PageSound'
<1> USE DEF PageSound, Asked
<1>1. ASSUME NEW key, openEvidence(key) PROVE PageSound'
  BY <1>1 DEF openEvidence, IsPage, RoomNext
<1>2. CASE closeEvidence
  BY <1>2 DEF closeEvidence, IsPage, RoomNext
<1>3. CASE requestGovernedAction
  BY <1>3 DEF requestGovernedAction, IsPage, RoomNext
<1>4. CASE CancelReview
  BY <1>4 DEF CancelReview, IsPage, RoomNext
<1>5. CASE AskServer
  <2>1. \E kind \in Asked : Sends(kind, page.organisation)
    BY <1>5 DEF AskServer
  <2>2. \A r \in DOMAIN requests' : requests'[r].kind \in Asked \cup {"reset"}
    BY <2>1 DEF Sends, Put
  <2> QED
    BY <1>5, <2>2 DEF AskServer, IsPage, RoomNext
<1>6. CASE Navigate
  BY <1>6 DEF Navigate, IsPage, RoomNext
<1>7. CASE resetScenario
  BY <1>7 DEF resetScenario, Sends, Put, IsPage, RoomNext
<1>8. ASSUME NEW s, changeScenario(s) PROVE PageSound'
  BY <1>8 DEF changeScenario, Started, IsPage, RoomNext
<1>9. ASSUME NEW r, GovernedAnswer(r) PROVE PageSound'
  <2> DEFINE kind == requests[r].kind
             about == requests[r].about
  <2>1. PICK replied :
           /\ replied = "allowed" => Allowed(kind, about)
           /\ page' = Shown(page, kind, replied)
           /\ permitted' = IF kind = "initiate-hedge" /\ replied = "allowed"
                           THEN permitted \cup {about} ELSE permitted
    BY <1>9 DEF GovernedAnswer
  <2>2. kind = "initiate-hedge" /\ replied = "allowed" => about \in viewer.organisations
    BY <2>1, AllowedInOwn DEF Allowed
  <2>3. /\ kind \in Asked
        /\ \A x \in DOMAIN requests' : requests'[x].kind \in Asked \cup {"reset"}
    BY <1>9 DEF GovernedAnswer
  <2>4. /\ IsPage(page') /\ page'.scenario = page.scenario /\ page'.flow = page.flow
        /\ page'.approval = "approved" =>
             page.approval = "approved" \/ (kind = "initiate-hedge" /\ replied = "allowed")
    BY <2>1, <2>3 DEF Shown, IsPage
  <2> QED
    BY <2>1, <2>2, <2>3, <2>4 DEF RoomNext
<1>10. ASSUME NEW r, ResetAnswer(r) PROVE PageSound'
  BY <1>10 DEF ResetAnswer, IsPage, RoomNext
<1> QED
  BY <1>1, <1>2, <1>3, <1>4, <1>5, <1>6, <1>7, <1>8, <1>9, <1>10 DEF RoomNext, changeMarket

\* What may be seen and done in a workspace depends on nothing but who is there and where.
LEMMA SamePlace ==
  ASSUME UNCHANGED viewer, UNCHANGED floor.organisation, UNCHANGED floor.workspace
  PROVE  /\ HasContent(floor)' <=> HasContent(floor)
         /\ \A verb, owner : MayIn(floor, verb, owner)' <=> MayIn(floor, verb, owner)
BY Zenon DEF HasContent, MayIn

\* The workspace keeps its promise whatever is opened, asked, answered or read.
LEMMA FloorStep ==
  ASSUME FloorSound, FloorNext, UNCHANGED viewer
  PROVE  FloorSound'
<1> USE DEF FloorSound, IsFloor
<1>1. ASSUME NEW o, NEW w, OpenWorkspace(o, w) PROVE FloorSound'
  BY <1>1 DEF OpenWorkspace, Mounted, WorkspacesGoverned
<1>2. CASE RequestApproval
  BY <1>2, SamePlace DEF RequestApproval, WorkspacesGoverned
<1>3. CASE Approve
  BY <1>3, SamePlace DEF Approve, WorkspacesGoverned
<1>4. CASE approveSimulation
  BY <1>4, SamePlace DEF approveSimulation, WorkspacesGoverned
<1>5. CASE HedgeAnswer
  BY <1>5, SamePlace DEF HedgeAnswer, WorkspacesGoverned
<1>6. CASE requestAuditExport
  BY <1>6, SamePlace DEF requestAuditExport, WorkspacesGoverned
<1>7. ASSUME NEW active, NEW o, ReadFleet(active, o) PROVE FloorSound'
  <2>1. o \in viewer.organisations
    BY <1>7, AllowedInOwn DEF ReadFleet, authorizeTenantResource, SameTenant
  <2> QED
    BY <1>7, <2>1, SamePlace DEF ReadFleet, WorkspacesGoverned
<1> QED
  BY <1>1, <1>2, <1>3, <1>4, <1>5, <1>6, <1>7 DEF FloorNext

\* "Simulated action approved" is shown only after the server allowed it, and what the workspaces
\* show was asked for by somebody who may (control-room.tsx and the workspaces it opens).
THEOREM ApprovalsAllowed == RoomSpec => []ApprovedWasAllowed
<1>1. RoomInit /\ FloorInit => RoomInv
  BY DEF RoomInit, FloorInit, RoomInv, PageSound, FloorSound, IsPage, IsFloor, WorkspacesGoverned,
         EmptyMap
<1>2. RoomInv /\ [RoomOrFloor]_<<roomVars, floorVars>> => RoomInv'
  <2> SUFFICES ASSUME RoomInv,
                      [RoomOrFloor]_<<roomVars, floorVars>>
               PROVE  RoomInv'
    OBVIOUS
  <2>1. UNCHANGED roomVars => PageSound'
    BY DEF RoomInv, PageSound, roomVars, IsPage
  <2>2. UNCHANGED floorVars /\ UNCHANGED viewer => FloorSound'
    BY SamePlace DEF RoomInv, FloorSound, floorVars, IsFloor, WorkspacesGoverned
  <2> QED
    BY <2>1, <2>2, PageStep, FloorStep DEF RoomOrFloor, RoomInv, roomVars, floorVars, RoomNext
<1>3. RoomInv => ApprovedWasAllowed
  BY DEF RoomInv, PageSound, FloorSound, ApprovedWasAllowed
<1> QED
  BY <1>1, <1>2, <1>3, PTL DEF RoomSpec

(***************************************************************************)
(* A governed request, from its draft to its execution.                    *)
(***************************************************************************)
\* What a trail is made of.
RequestState ==
  {"DRAFT", "VALIDATED", "SIMULATED", "PENDING_APPROVAL", "APPROVED", "EXECUTING", "EXECUTED",
   "VERIFIED", "REJECTED", "EXPIRED"}

\* The fields of a request, whatever they hold.
IsRequest(r) ==
  r = [version |-> r.version, state |-> r.state, approval |-> r.approval, rejection |-> r.rejection,
       executed |-> r.executed, health |-> r.health, expiresAt |-> r.expiresAt, trail |-> r.trail]

\* How many gates a request in this state has just passed.
Through ==
  [DRAFT |-> 1, VALIDATED |-> 2, SIMULATED |-> 3, PENDING_APPROVAL |-> 4, APPROVED |-> 5, EXECUTED |-> 7]

\* The trail ends with the first n gates.
EndsWith(stages, n) ==
  /\ n <= Len(stages)
  /\ \A k \in 1 .. n : stages[Len(stages) - n + k] = Gates[k]

\* All the gates are somewhere in the trail.
Complete(stages) ==
  \E i \in DOMAIN stages : \A k \in DOMAIN Gates :
    i + k - 1 \in DOMAIN stages /\ stages[i + k - 1] = Gates[k]

RequestInv ==
  /\ IsRequest(request) /\ request.trail \in Seq(RequestState)
  /\ request.state \in DOMAIN Through => EndsWith(request.trail, Through[request.state])
  /\ request.approval # Nothing =>
       /\ request.approval.by # Maker /\ request.approval.role \in {"DI", "PA"}
       /\ request.approval.version = request.version
  /\ request.executed =>
       /\ request.state \in {"EXECUTED", "VERIFIED"}
       /\ request.approval # Nothing /\ Complete(request.trail)

\* One more gate at the end of the trail.
LEMMA OneGateMore ==
  ASSUME NEW stages \in Seq(RequestState), NEW n \in 0 .. 6, EndsWith(stages, n),
         NEW entered \in RequestState, entered = Gates[n + 1]
  PROVE  EndsWith(Append(stages, entered), n + 1)
<1> DEFINE longer == Append(stages, entered)
<1>1. /\ Len(stages) \in Nat /\ Len(longer) = Len(stages) + 1 /\ longer[Len(stages) + 1] = entered
      /\ \A i \in 1 .. Len(stages) : longer[i] = stages[i]
  OBVIOUS
<1>2. n <= Len(stages) /\ \A k \in 1 .. n : stages[Len(stages) - n + k] = Gates[k]
  BY DEF EndsWith
<1> HIDE DEF longer
<1>3. ASSUME NEW k \in 1 .. n + 1 PROVE longer[Len(longer) - (n + 1) + k] = Gates[k]
  <2>1. Len(longer) - (n + 1) + k = Len(stages) - n + k
    BY <1>1
  <2>2. CASE k = n + 1
    BY <1>1, <1>2, <2>1, <2>2
  <2>3. CASE k \in 1 .. n
    <3>1. Len(stages) - n + k \in 1 .. Len(stages)
      BY <1>1, <1>2, <2>3
    <3> QED
      BY <1>1, <1>2, <2>1, <2>3, <3>1
  <2> QED
    BY <2>2, <2>3
<1> QED
  BY <1>1, <1>2, <1>3 DEF EndsWith, longer

\* What ends with all gates has them, and keeps them when more is written.
LEMMA AllGates ==
  ASSUME NEW stages \in Seq(RequestState)
  PROVE  /\ EndsWith(stages, 7) => Complete(stages)
         /\ \A s \in RequestState : Complete(stages) => Complete(Append(stages, s))
<1>1. DOMAIN Gates = 1 .. 7
  BY DEF Gates
<1>2. ASSUME EndsWith(stages, 7) PROVE Complete(stages)
  <2> DEFINE i == Len(stages) - 6
  <2>1. i \in DOMAIN stages
    BY <1>2 DEF EndsWith
  <2>2. \A k \in 1 .. 7 : i + k - 1 \in DOMAIN stages /\ stages[i + k - 1] = Gates[k]
    BY <1>2 DEF EndsWith
  <2> QED BY <1>1, <2>1, <2>2 DEF Complete
<1>3. ASSUME NEW s \in RequestState, Complete(stages) PROVE Complete(Append(stages, s))
  <2>1. PICK i \in DOMAIN stages : \A k \in 1 .. 7 :
          i + k - 1 \in DOMAIN stages /\ stages[i + k - 1] = Gates[k]
    BY <1>1, <1>3 DEF Complete
  <2>2. /\ DOMAIN stages = 1 .. Len(stages) /\ Len(stages) \in Nat
        /\ DOMAIN Append(stages, s) = 1 .. (Len(stages) + 1)
        /\ \A j \in 1 .. Len(stages) : Append(stages, s)[j] = stages[j]
    OBVIOUS
  <2>3. i \in DOMAIN Append(stages, s)
    BY <2>2
  <2>4. ASSUME NEW k \in 1 .. 7
        PROVE  i + k - 1 \in DOMAIN Append(stages, s) /\ Append(stages, s)[i + k - 1] = Gates[k]
    <3> DEFINE j == i + k - 1
    <3>1. j \in 1 .. Len(stages) /\ stages[j] = Gates[k]
      BY <2>1, <2>2
    <3> HIDE DEF j
    <3> QED BY <3>1, <2>2 DEF j
  <2> QED BY <1>1, <2>3, <2>4 DEF Complete
<1> QED BY <1>2, <1>3

\* What a step does to a request.
LEMMA StepFields ==
  ASSUME NEW r, NEW state, IsRequest(r), NEW s, s = Step(r, state)
  PROVE  /\ IsRequest(s) /\ s.state = state /\ s.trail = Append(r.trail, state)
         /\ s.version = r.version /\ s.approval = r.approval /\ s.executed = r.executed
<1>1. IsRequest(s)
  BY DEF IsRequest, Step
<1>2. s.state = state /\ s.trail = Append(r.trail, state)
  BY DEF IsRequest, Step
<1>3. s.version = r.version /\ s.approval = r.approval /\ s.executed = r.executed
  BY DEF IsRequest, Step
<1> QED BY <1>1, <1>2, <1>3

\* The gates and the states, one by one.
LEMMA GateFacts ==
  /\ DOMAIN Through = {"DRAFT", "VALIDATED", "SIMULATED", "PENDING_APPROVAL", "APPROVED", "EXECUTED"}
  /\ Through["DRAFT"] = 1 /\ Gates[1] = "DRAFT"
  /\ Through["VALIDATED"] = 2 /\ Gates[2] = "VALIDATED"
  /\ Through["SIMULATED"] = 3 /\ Gates[3] = "SIMULATED"
  /\ Through["PENDING_APPROVAL"] = 4 /\ Gates[4] = "PENDING_APPROVAL"
  /\ Through["APPROVED"] = 5 /\ Gates[5] = "APPROVED"
  /\ Through["EXECUTED"] = 7 /\ Gates[6] = "EXECUTING" /\ Gates[7] = "EXECUTED"
BY DEF Through, Gates

\* A step that is no execution keeps the invariant when it is the next gate, or leads to a
\* state from which nothing is executed.
LEMMA GateStep ==
  ASSUME RequestInv, NEW entered \in RequestState, request' = Step(request, entered), ~request.executed,
         entered \in DOMAIN Through =>
           /\ request.state \in DOMAIN Through
           /\ Through[entered] = Through[request.state] + 1 /\ Through[request.state] \in 0 .. 6
           /\ entered = Gates[Through[entered]]
  PROVE  RequestInv'
<1> DEFINE r == request
<1>1. /\ IsRequest(r') /\ r'.state = entered /\ r'.trail = Append(r.trail, entered)
      /\ r'.version = r.version /\ r'.approval = r.approval /\ r'.executed = r.executed
  BY StepFields DEF RequestInv
<1>2. entered \in DOMAIN Through => EndsWith(r'.trail, Through[entered])
  BY <1>1, OneGateMore DEF RequestInv
<1> QED BY <1>1, <1>2 DEF RequestInv

\* Every step keeps the invariant.
LEMMA RequestStep ==
  ASSUME RequestInv, [RequestNext]_requestVars
  PROVE  RequestInv'
<1>2. CASE Prepare
  <2>1. CASE request.state = "DRAFT"
    <3>1. request' = Step(request, "VALIDATED") /\ ~request.executed
      BY <1>2, <2>1 DEF Prepare, RequestInv
    <3>2. /\ request.state \in DOMAIN Through
          /\ Through["VALIDATED"] = Through[request.state] + 1 /\ Through[request.state] \in 0 .. 6
          /\ "VALIDATED" = Gates[Through["VALIDATED"]] /\ "VALIDATED" \in RequestState
      BY <2>1, GateFacts DEF RequestState
    <3> QED BY <3>1, <3>2, GateStep, Zenon
  <2>2. CASE request.state = "VALIDATED"
    <3>1. request' = Step(request, "SIMULATED") /\ ~request.executed
      BY <1>2, <2>2 DEF Prepare, RequestInv
    <3>2. /\ request.state \in DOMAIN Through
          /\ Through["SIMULATED"] = Through[request.state] + 1 /\ Through[request.state] \in 0 .. 6
          /\ "SIMULATED" = Gates[Through["SIMULATED"]] /\ "SIMULATED" \in RequestState
      BY <2>2, GateFacts DEF RequestState
    <3> QED BY <3>1, <3>2, GateStep, Zenon
  <2>3. CASE request.state = "SIMULATED"
    <3>1. request' = Step(request, "PENDING_APPROVAL") /\ ~request.executed
      BY <1>2, <2>3 DEF Prepare, RequestInv
    <3>2. /\ request.state \in DOMAIN Through
          /\ Through["PENDING_APPROVAL"] = Through[request.state] + 1 /\ Through[request.state] \in 0 .. 6
          /\ "PENDING_APPROVAL" = Gates[Through["PENDING_APPROVAL"]] /\ "PENDING_APPROVAL" \in RequestState
      BY <2>3, GateFacts DEF RequestState
    <3> QED BY <3>1, <3>2, GateStep, Zenon
  <2>4. CASE request.state \notin {"DRAFT", "VALIDATED", "SIMULATED"}
    BY <1>2, <2>4 DEF Prepare, RequestInv
  <2> QED BY <2>1, <2>2, <2>3, <2>4
<1>3. CASE expireGovernedAction
  <2>1. request' = Step(request, "EXPIRED") /\ ~request.executed
    BY <1>3 DEF expireGovernedAction, RequestInv
  <2>2. "EXPIRED" \in RequestState /\ "EXPIRED" \notin DOMAIN Through
    BY GateFacts DEF RequestState
  <2> QED BY <2>1, <2>2, GateStep, Zenon
<1>4. CASE verifyGovernedExecution
  <2> DEFINE s == Step(request, "VERIFIED")
  <2>1. /\ IsRequest(s) /\ s.state = "VERIFIED" /\ s.trail = Append(request.trail, "VERIFIED")
        /\ s.version = request.version /\ s.approval = request.approval /\ s.executed = request.executed
    BY StepFields DEF RequestInv
  <2> HIDE DEF s
  <2>2. request' = [s EXCEPT !.health = TRUE]
    BY <1>4 DEF verifyGovernedExecution, Verified, s
  <2>3. /\ IsRequest(request') /\ request'.state = "VERIFIED" /\ request'.trail = s.trail
        /\ request'.version = s.version /\ request'.approval = s.approval
        /\ request'.executed = s.executed
    BY <2>1, <2>2 DEF IsRequest
  <2>4. request'.trail \in Seq(RequestState)
        /\ (request.executed => Complete(request'.trail))
    BY <2>1, <2>3, AllGates DEF RequestInv, RequestState
  <2> QED BY <2>1, <2>3, <2>4, GateFacts DEF RequestInv
<1>5. CASE replaceTerminalRequest
  <2> DEFINE s == Step(request, "DRAFT")
  <2>1. /\ IsRequest(s) /\ s.state = "DRAFT" /\ s.trail = Append(request.trail, "DRAFT")
        /\ s.executed = request.executed
    BY StepFields DEF RequestInv
  <2> HIDE DEF s
  <2>2. /\ request' = [s EXCEPT !.version = @ + 1, !.approval = Nothing, !.rejection = Nothing,
                                !.expiresAt = Deadline + 2]
        /\ ~request.executed
    BY <1>5 DEF replaceTerminalRequest, Replaced, s, RequestInv
  <2>3. /\ IsRequest(request') /\ request'.state = "DRAFT" /\ request'.trail = s.trail
        /\ request'.approval = Nothing /\ request'.executed = s.executed
    BY <2>1, <2>2 DEF IsRequest
  <2>4. request'.trail \in Seq(RequestState) /\ EndsWith(request'.trail, 1)
    BY <2>1, <2>3, GateFacts DEF RequestInv, RequestState, EndsWith
  <2> QED BY <2>1, <2>2, <2>3, <2>4, GateFacts DEF RequestInv
<1>6. ASSUME NEW p, rejectGovernedAction(p) PROVE RequestInv'
  <2> DEFINE s == Step(request, "REJECTED")
             d == Decision(p, looked[p])
  <2>1. /\ IsRequest(s) /\ s.state = "REJECTED" /\ s.trail = Append(request.trail, "REJECTED")
        /\ s.version = request.version /\ s.approval = request.approval /\ s.executed = request.executed
    BY StepFields DEF RequestInv
  <2> HIDE DEF s, d
  <2>2. request' = [s EXCEPT !.rejection = d] /\ ~request.executed
    BY <1>6 DEF rejectGovernedAction, Rejected, MayDecide, s, d, RequestInv
  <2>3. /\ IsRequest(request') /\ request'.state = "REJECTED" /\ request'.trail = s.trail
        /\ request'.version = s.version /\ request'.approval = s.approval
        /\ request'.executed = s.executed
    BY <2>1, <2>2 DEF IsRequest
  <2>4. request'.trail \in Seq(RequestState)
    BY <2>1, <2>3 DEF RequestInv, RequestState
  <2> QED BY <2>1, <2>2, <2>3, <2>4, GateFacts DEF RequestInv
<1>7. ASSUME NEW p, NEW a, approveGovernedAction(p, a) PROVE RequestInv'
  <2> DEFINE s == Step(request, "APPROVED")
             d == Decision(p, looked[p])
  <2>1. /\ IsRequest(s) /\ s.state = "APPROVED" /\ s.trail = Append(request.trail, "APPROVED")
        /\ s.version = request.version /\ s.executed = request.executed
    BY StepFields DEF RequestInv
  <2> HIDE DEF s, d
  <2>2. /\ request' = [s EXCEPT !.approval = d]
        /\ request.state = "PENDING_APPROVAL" /\ ~request.executed
        /\ d.by # Maker /\ d.role \in {"DI", "PA"} /\ d.version = request.version
    BY <1>7 DEF approveGovernedAction, Approved, MayDecide, s, d, RequestInv
  <2>3. /\ IsRequest(request') /\ request'.state = "APPROVED" /\ request'.trail = s.trail
        /\ request'.version = s.version /\ request'.approval = d /\ request'.executed = s.executed
    BY <2>1, <2>2 DEF IsRequest
  <2>4. EndsWith(request.trail, 4) /\ "APPROVED" \in RequestState
    BY <2>2, GateFacts DEF RequestInv, RequestState
  <2>5. request'.trail \in Seq(RequestState) /\ EndsWith(request'.trail, 5)
    BY <2>1, <2>3, <2>4, GateFacts, OneGateMore DEF RequestInv
  <2> QED BY <2>1, <2>2, <2>3, <2>5, GateFacts DEF RequestInv
<1>8. ASSUME NEW p, Execute(p) PROVE RequestInv'
  <2> DEFINE s == Step(request, "EXECUTING")
             t == Step(s, "EXECUTED")
  <2>1. /\ IsRequest(s) /\ s.trail = Append(request.trail, "EXECUTING")
        /\ s.version = request.version /\ s.approval = request.approval
    BY StepFields DEF RequestInv
  <2>2. /\ IsRequest(t) /\ t.state = "EXECUTED" /\ t.trail = Append(s.trail, "EXECUTED")
        /\ t.version = s.version /\ t.approval = s.approval
    BY <2>1, StepFields
  <2> HIDE DEF s, t
  <2>3. /\ request' = [t EXCEPT !.executed = TRUE]
        /\ request.state = "APPROVED" /\ request.approval # Nothing
    BY <1>8 DEF Execute, Executed, Bound, s, t
  <2>4. /\ IsRequest(request') /\ request'.state = "EXECUTED" /\ request'.trail = t.trail
        /\ request'.version = t.version /\ request'.approval = t.approval
    BY <2>2, <2>3 DEF IsRequest
  <2>5. EndsWith(request.trail, 5) /\ {"EXECUTING", "EXECUTED"} \subseteq RequestState
    BY <2>3, GateFacts DEF RequestInv, RequestState
  <2>6. s.trail \in Seq(RequestState) /\ EndsWith(s.trail, 6)
    BY <2>1, <2>5, GateFacts, OneGateMore DEF RequestInv
  <2>7. t.trail \in Seq(RequestState) /\ EndsWith(t.trail, 7)
    BY <2>2, <2>5, <2>6, GateFacts, OneGateMore
  <2>8. Complete(t.trail)
    BY <2>7, AllGates
  <2>9. request'.version = request.version /\ request'.approval = request.approval
    BY <2>1, <2>2, <2>4
  <2>10. /\ request'.approval # Nothing
         /\ request'.approval.by # Maker /\ request'.approval.role \in {"DI", "PA"}
         /\ request'.approval.version = request'.version
    BY <2>3, <2>9 DEF RequestInv
  <2>11. /\ request'.trail \in Seq(RequestState) /\ EndsWith(request'.trail, Through["EXECUTED"])
         /\ Complete(request'.trail)
    BY <2>4, <2>7, <2>8, GateFacts
  <2> QED BY <2>4, <2>10, <2>11 DEF RequestInv
<1>9. CASE UNCHANGED request
  BY <1>9 DEF RequestInv
<1> QED
  BY <1>2, <1>3, <1>4, <1>5, <1>6, <1>7, <1>8, <1>9 DEF RequestNext, requestVars, Hour, Look

\* A change is made only as somebody other than its maker approved it, all gates passed since
\* that version was drafted (maker-checker.ts).
THEOREM ExecutionsApproved == RequestSpec => []ExecutedAsApproved
<1>1. RequestInit => RequestInv
  BY GateFacts DEF RequestInit, draftConfigurationRequest, RequestInv, IsRequest, EndsWith, RequestState
<1>2. RequestInv => ExecutedAsApproved
  BY DEF RequestInv, ExecutedAsApproved, Complete
<1> QED
  BY <1>1, <1>2, RequestStep, PTL DEF RequestSpec

(***************************************************************************)
(* Sign-in and step-up.                                                    *)
(***************************************************************************)
\* The fields of a session, of a browser's cookies, of a grant and of a call.
IsSession(s) ==
  s = [user |-> s.user, aal2 |-> s.aal2, fromLink |-> s.fromLink, code |-> s.code, stepUp |-> s.stepUp]
IsJar(j) == j = [session |-> j.session, idle |-> j.idle, grant |-> j.grant]
IsGrant(g) == g = [sub |-> g.sub, sid |-> g.sid, age |-> g.age]
IsCall(c) ==
  c = [browser |-> c.browser, by |-> c.by, sid |-> c.sid, kind |-> c.kind, target |-> c.target,
       phase |-> c.phase, stepUp |-> c.stepUp]

SessionsOk ==
  \A s \in DOMAIN sessions : IsSession(sessions[s]) /\ sessions[s].stepUp \in Nat

\* A grant is never younger than the last step-up of its session: the cookie may be older
\* than that, when another browser of the session stepped up since, but never vouches for more.
GrantOk(g) ==
  /\ IsGrant(g) /\ g.age \in Nat
  /\ g.sid \in DOMAIN sessions /\ sessions[g.sid].stepUp <= g.age

OnBrowsers(j) == j = [b \in Browser |-> j[b]]

JarsOk ==
  /\ OnBrowsers(jars)
  /\ \A b \in Browser :
       /\ IsJar(jars[b])
       /\ jars[b].session # None => jars[b].session \in DOMAIN sessions
       /\ jars[b].grant # None => GrantOk(jars[b].grant)

\* What holds of a call that is taken up.
Judged(call) ==
  /\ call.sid \in DOMAIN sessions
  /\ sessions[call.sid].user = call.by /\ sessions[call.sid].aal2
  /\ call.stepUp <= StepUpWindow
  /\ call.kind \in OnOthers => call.target # call.by

CallsOk ==
  \A c \in DOMAIN calls :
    /\ IsCall(calls[c]) /\ calls[c].browser \in Browser
    /\ calls[c].phase = "taken" => Judged(calls[c])

AuthInv == SessionsOk /\ JarsOk /\ CallsOk

\* A session stays the same person's and never loses its authenticator.
SessionsExtend ==
  \A s \in DOMAIN sessions :
    /\ s \in DOMAIN sessions' /\ sessions'[s].user = sessions[s].user
    /\ sessions[s].aal2 => sessions'[s].aal2

\* Calls that stay as they were stay justified.
LEMMA CallsKept ==
  ASSUME CallsOk, SessionsExtend,
         \A c \in DOMAIN calls' : c \in DOMAIN calls /\ calls'[c] = calls[c]
  PROVE  CallsOk'
BY DEF CallsOk, SessionsExtend, Judged

\* The cookies stay sound when grants stay or go and no session steps up.
LEMMA JarsKept ==
  ASSUME JarsOk, OnBrowsers(jars'),
         \A s \in DOMAIN sessions : s \in DOMAIN sessions' /\ sessions'[s].stepUp = sessions[s].stepUp,
         \A b \in Browser :
           /\ IsJar(jars'[b]) /\ jars'[b].grant \in {None, jars[b].grant}
           /\ jars'[b].session \in {None, jars[b].session} \cup DOMAIN sessions'
  PROVE  JarsOk'
BY DEF JarsOk, GrantOk

\* What touching the idle clock does to the cookies.
LEMMA Touched ==
  ASSUME JarsOk, NEW b \in Browser, NEW sid, NEW j, j = touchIdleClock(b, sid)
  PROVE  /\ OnBrowsers(j)
         /\ \A x \in Browser : /\ IsJar(j[x]) /\ j[x].grant = jars[x].grant
                               /\ j[x].session = IF x = b THEN sid ELSE jars[x].session
<1>1. OnBrowsers(j)
  BY DEF touchIdleClock, JarsOk, OnBrowsers
<1>2. ASSUME NEW x \in Browser
      PROVE  /\ IsJar(j[x]) /\ j[x].grant = jars[x].grant
             /\ j[x].session = IF x = b THEN sid ELSE jars[x].session
  <2> DEFINE idle == [sid |-> sid, age |-> 0]
             k == [jars EXCEPT ![b].session = sid]
  <2>1. OnBrowsers(k) /\ IsJar(k[x]) /\ k[x].grant = jars[x].grant
        /\ k[x].session = IF x = b THEN sid ELSE jars[x].session
    BY DEF JarsOk, IsJar, OnBrowsers
  <2>2. j = [k EXCEPT ![b].idle = idle]
    BY DEF touchIdleClock
  <2> HIDE DEF k, idle
  <2> QED BY <2>1, <2>2 DEF IsJar, OnBrowsers
<1> QED BY <1>1, <1>2

\* Cookies that are cleared or lose their session.
LEMMA Cleared ==
  ASSUME JarsOk, NEW b \in Browser, NEW j,
         j = clearAdminCookies(b) \/ j = [jars EXCEPT ![b].session = None]
  PROVE  /\ OnBrowsers(j)
         /\ \A x \in Browser : /\ IsJar(j[x]) /\ j[x].grant \in {None, jars[x].grant}
                               /\ j[x].session \in {None, jars[x].session}
<1>1. OnBrowsers(j)
  BY DEF clearAdminCookies, JarsOk, OnBrowsers
<1>2. ASSUME NEW x \in Browser
      PROVE  /\ IsJar(j[x]) /\ j[x].grant \in {None, jars[x].grant}
             /\ j[x].session \in {None, jars[x].session}
  BY DEF clearAdminCookies, JarsOk, IsJar, OnBrowsers
<1> QED BY <1>1, <1>2

\* So the cookies stay sound when a live session's clock is touched, and when they are cleared.
LEMMA TouchKeeps ==
  ASSUME JarsOk, NEW b \in Browser, NEW sid \in DOMAIN sessions', jars' = touchIdleClock(b, sid),
         \A s \in DOMAIN sessions : s \in DOMAIN sessions' /\ sessions'[s].stepUp = sessions[s].stepUp
  PROVE  JarsOk'
<1>1. /\ OnBrowsers(jars')
      /\ \A x \in Browser : /\ IsJar(jars'[x]) /\ jars'[x].grant = jars[x].grant
                            /\ jars'[x].session = IF x = b THEN sid ELSE jars[x].session
  BY Touched
<1>2. \A x \in Browser : /\ jars'[x].grant \in {None, jars[x].grant}
                         /\ jars'[x].session \in {None, jars[x].session} \cup DOMAIN sessions'
  BY <1>1
<1> QED BY <1>1, <1>2, JarsKept

LEMMA ClearKeeps ==
  ASSUME JarsOk, NEW b \in Browser,
         jars' = clearAdminCookies(b) \/ jars' = [jars EXCEPT ![b].session = None],
         \A s \in DOMAIN sessions : s \in DOMAIN sessions' /\ sessions'[s].stepUp = sessions[s].stepUp
  PROVE  JarsOk'
<1>1. /\ OnBrowsers(jars')
      /\ \A x \in Browser : /\ IsJar(jars'[x]) /\ jars'[x].grant \in {None, jars[x].grant}
                            /\ jars'[x].session \in {None, jars[x].session}
  BY Cleared
<1> QED BY <1>1, JarsKept

\* A session that is opened leaves the others alone.
LEMMA OpenedExtends ==
  ASSUME SessionsOk, NEW sid, NEW u, NEW fromLink, NewKey(sessions, sid), sessions' = Opened(sid, u, fromLink)
  PROVE  /\ SessionsOk' /\ SessionsExtend /\ sid \in DOMAIN sessions'
         /\ \A s \in DOMAIN sessions : s \in DOMAIN sessions' /\ sessions'[s].stepUp = sessions[s].stepUp
<1>1. /\ DOMAIN sessions' = DOMAIN sessions \cup {sid} /\ sid \notin DOMAIN sessions
      /\ \A s \in DOMAIN sessions : sessions'[s] = sessions[s]
      /\ sessions'[sid] = [user |-> u, aal2 |-> FALSE, fromLink |-> fromLink, code |-> Forever, stepUp |-> Forever]
  BY DEF Opened, Put, NewKey
<1>2. Forever \in Nat
  BY AuthAssumption DEF Forever
<1>3. IsSession(sessions'[sid]) /\ sessions'[sid].stepUp \in Nat
  BY <1>1, <1>2 DEF IsSession
<1>4. SessionsOk'
  BY <1>1, <1>3 DEF SessionsOk
<1> QED BY <1>1, <1>4 DEF SessionsExtend

\* Opening a session, whoever does it and by whatever way.
LEMMA SignsIn ==
  ASSUME AuthInv, NEW b \in Browser, NEW u, NEW sid \in SessionId,
         SignIn(b, u, sid) \/ Confirm(b, u, sid)
  PROVE  AuthInv'
<1>1. /\ SessionsOk' /\ SessionsExtend /\ sid \in DOMAIN sessions'
      /\ \A s \in DOMAIN sessions : s \in DOMAIN sessions' /\ sessions'[s].stepUp = sessions[s].stepUp
  BY OpenedExtends DEF AuthInv, SignIn, Confirm
<1>2. ASSUME jars' = touchIdleClock(b, sid) PROVE JarsOk'
  BY <1>1, <1>2, TouchKeeps DEF AuthInv
<1>3. ASSUME jars' = [jars EXCEPT ![b].session = None] PROVE JarsOk'
  BY <1>1, <1>3, ClearKeeps DEF AuthInv
<1>4. JarsOk'
  <2>1. jars' = touchIdleClock(b, sid) \/ jars' = [jars EXCEPT ![b].session = None]
    BY DEF SignIn, Confirm
  <2> QED BY <1>2, <1>3, <2>1
<1>5. CallsOk'
  BY <1>1, CallsKept DEF AuthInv, SignIn, Confirm
<1> QED BY <1>1, <1>4, <1>5 DEF AuthInv

\* What moves neither a session nor a call: the cookies are touched or cleared.
LEMMA CookiesOnly ==
  ASSUME AuthInv, NEW b \in Browser, UNCHANGED sessions,
         \/ SignedIn(b) /\ jars' = touchIdleClock(b, jars[b].session)
         \/ jars' = clearAdminCookies(b)
         \/ UNCHANGED jars,
         \A c \in DOMAIN calls' : c \in DOMAIN calls /\ calls'[c] = calls[c]
  PROVE  AuthInv'
<1>1. /\ SessionsOk' /\ SessionsExtend
      /\ \A s \in DOMAIN sessions : s \in DOMAIN sessions' /\ sessions'[s].stepUp = sessions[s].stepUp
  BY DEF AuthInv, SessionsOk, SessionsExtend
<1>2. ASSUME SignedIn(b), jars' = touchIdleClock(b, jars[b].session) PROVE JarsOk'
  <2>1. jars[b].session \in DOMAIN sessions'
    BY <1>1, <1>2 DEF AuthInv, JarsOk, SignedIn
  <2> QED BY <1>1, <1>2, <2>1, TouchKeeps DEF AuthInv
<1>3. ASSUME jars' = clearAdminCookies(b) PROVE JarsOk'
  BY <1>1, <1>3, ClearKeeps DEF AuthInv
<1>4. ASSUME UNCHANGED jars PROVE JarsOk'
  <2>1. \A g : GrantOk(g)' <=> GrantOk(g)
    BY DEF GrantOk
  <2> QED BY <1>4, <2>1 DEF AuthInv, JarsOk
<1>5. CallsOk'
  BY <1>1, CallsKept DEF AuthInv
<1> QED BY <1>1, <1>2, <1>3, <1>4, <1>5 DEF AuthInv

\* A call that has an answer, or is given up, is gone and changes none of the others.
LEMMA EndedCalls ==
  ASSUME NEW c, calls' = Ended(c)
  PROVE  \A x \in DOMAIN calls' : x \in DOMAIN calls /\ calls'[x] = calls[x]
BY DEF Ended

\* A right code raises the session, and grants nothing.
LEMMA FactorVerified ==
  ASSUME AuthInv, NEW b \in Browser, NEW f, VerifyAuthenticator(b, f)
  PROVE  AuthInv'
<1> DEFINE sid == jars[b].session
<1>1. sid \in DOMAIN sessions
  BY DEF AuthInv, JarsOk, VerifyAuthenticator, proxy, SignedIn
<1>2. /\ DOMAIN sessions' = DOMAIN sessions
      /\ \A s \in DOMAIN sessions :
           /\ IsSession(sessions'[s]) /\ sessions'[s].stepUp = sessions[s].stepUp
           /\ sessions'[s].user = sessions[s].user
           /\ sessions[s].aal2 => sessions'[s].aal2
  <2> DEFINE k == [sessions EXCEPT ![sid].aal2 = TRUE]
  <2>1. sessions' = [k EXCEPT ![sid].code = 0]
    BY DEF VerifyAuthenticator
  <2>2. /\ DOMAIN k = DOMAIN sessions
        /\ \A s \in DOMAIN sessions :
             /\ IsSession(k[s]) /\ k[s].stepUp = sessions[s].stepUp
             /\ k[s].user = sessions[s].user /\ (sessions[s].aal2 => k[s].aal2)
    <3>1. DOMAIN k = DOMAIN sessions
      OBVIOUS
    <3>2. ASSUME NEW s \in DOMAIN sessions
          PROVE  /\ IsSession(k[s]) /\ k[s].stepUp = sessions[s].stepUp
                 /\ k[s].user = sessions[s].user /\ (sessions[s].aal2 => k[s].aal2)
      <4>1. k[s] = IF s = sid THEN [sessions[s] EXCEPT !.aal2 = TRUE] ELSE sessions[s]
        OBVIOUS
      <4>2. IsSession(sessions[s])
        BY DEF AuthInv, SessionsOk
      <4> HIDE DEF k, sid
      <4> QED BY <4>1, <4>2 DEF IsSession
    <3> QED BY <3>1, <3>2
  <2> HIDE DEF k, sid
  <2>3. DOMAIN sessions' = DOMAIN k
    BY <2>1
  <2>4. ASSUME NEW s \in DOMAIN k
        PROVE  /\ IsSession(sessions'[s]) /\ sessions'[s].stepUp = k[s].stepUp
               /\ sessions'[s].user = k[s].user /\ sessions'[s].aal2 = k[s].aal2
    BY <2>1, <2>2 DEF IsSession
  <2> QED BY <2>2, <2>3, <2>4
<1>3. SessionsOk' /\ SessionsExtend
  BY <1>2 DEF AuthInv, SessionsOk, SessionsExtend
<1>4. JarsOk'
  <2>1. jars' = touchIdleClock(b, sid)
    BY DEF VerifyAuthenticator
  <2> QED BY <1>1, <1>2, <2>1, TouchKeeps DEF AuthInv
<1>5. CallsOk'
  BY <1>3, CallsKept DEF AuthInv, VerifyAuthenticator
<1> QED BY <1>3, <1>4, <1>5 DEF AuthInv

\* What is older stays in order.
LEMMA OlderMonotone ==
  ASSUME NEW m \in Nat, NEW n \in Nat, m <= n
  PROVE  Older(m) \in Nat /\ Older(m) <= Older(n)
BY AuthAssumption DEF Older, Smaller, Forever

\* Time makes a session and its grants older together.
LEMMA Ticks ==
  ASSUME AuthInv, Tick
  PROVE  AuthInv'
<1>1. /\ DOMAIN sessions' = DOMAIN sessions
      /\ \A s \in DOMAIN sessions :
           /\ IsSession(sessions'[s]) /\ sessions'[s].stepUp = Older(sessions[s].stepUp)
           /\ sessions'[s].user = sessions[s].user /\ sessions'[s].aal2 = sessions[s].aal2
  <2>1. /\ DOMAIN sessions' = DOMAIN sessions
        /\ \A s \in DOMAIN sessions : sessions'[s] = [sessions[s] EXCEPT !.code = Older(@), !.stepUp = Older(@)]
    BY DEF Tick
  <2>2. ASSUME NEW r, IsSession(r), NEW t, t = [r EXCEPT !.code = Older(@), !.stepUp = Older(@)]
        PROVE  /\ IsSession(t) /\ t.stepUp = Older(r.stepUp) /\ t.user = r.user /\ t.aal2 = r.aal2
    BY <2>2 DEF IsSession
  <2> QED BY <2>1, <2>2 DEF AuthInv, SessionsOk
<1>2. SessionsOk' /\ SessionsExtend
  BY <1>1, OlderMonotone DEF AuthInv, SessionsOk, SessionsExtend
<1>3. JarsOk'
  <2>1. /\ OnBrowsers(jars')
        /\ \A b \in Browser : jars'[b] = [jars[b] EXCEPT !.idle = OlderCookie(@), !.grant = OlderCookie(@)]
    BY DEF Tick, OnBrowsers
  <2>2. ASSUME NEW r, IsJar(r), NEW t, t = [r EXCEPT !.idle = OlderCookie(@), !.grant = OlderCookie(@)]
        PROVE  IsJar(t) /\ t.session = r.session /\ t.grant = OlderCookie(r.grant)
    BY <2>2 DEF IsJar
  <2>3. ASSUME NEW b \in Browser
        PROVE  /\ IsJar(jars'[b]) /\ jars'[b].session = jars[b].session
               /\ jars'[b].grant = OlderCookie(jars[b].grant)
    <3>1. IsJar(jars[b])
      BY DEF AuthInv, JarsOk
    <3> QED BY <2>1, <2>2, <3>1
  <2>4. ASSUME NEW g, GrantOk(g), g # None, NEW h, h = OlderCookie(g)
        PROVE  GrantOk(h)'
    <3>1. IsGrant(h) /\ h.sid = g.sid /\ h.age = Older(g.age)
      BY <2>4 DEF GrantOk, IsGrant, OlderCookie
    <3>2. /\ g.sid \in DOMAIN sessions /\ sessions[g.sid].stepUp \in Nat /\ g.age \in Nat
          /\ sessions[g.sid].stepUp <= g.age
      BY <2>4 DEF GrantOk, AuthInv, SessionsOk
    <3>3. Older(g.age) \in Nat /\ Older(sessions[g.sid].stepUp) <= Older(g.age)
      BY <3>2, OlderMonotone
    <3> QED BY <1>1, <3>1, <3>2, <3>3 DEF GrantOk
  <2>5. OlderCookie(None) = None
    BY DEF OlderCookie
  <2> QED BY <1>1, <2>1, <2>3, <2>4, <2>5 DEF AuthInv, JarsOk
<1>4. CallsOk'
  BY <1>2, CallsKept DEF AuthInv, Tick
<1> QED BY <1>2, <1>3, <1>4 DEF AuthInv

\* A call is taken up only from a browser whose grant is of its session: the last step-up of
\* that session is no older than the grant, which is at most five minutes old.
LEMMA FreshlyJudged ==
  ASSUME AuthInv, NEW b \in Browser, NEW kind, NEW target,
         resolveStaff(b), MayAsk(Claims(b).user, kind, target), hasFreshStepUp(b)
  PROVE  Judged(Sent(b, kind, target, "taken"))
<1> DEFINE call == Sent(b, kind, target, "taken")
           sid == jars[b].session
           g == jars[b].grant
<1>1. /\ call.sid = sid /\ call.by = sessions[sid].user /\ call.stepUp = sessions[sid].stepUp
      /\ call.kind = kind /\ call.target = target
  BY DEF Sent, Claims
<1>2. sid \in DOMAIN sessions /\ sessions[sid].aal2 /\ sessions[sid].stepUp \in Nat
  BY DEF resolveStaff, proxy, SignedIn, Claims, AuthInv, JarsOk, SessionsOk
<1>3. /\ g # None /\ g.sid = sid /\ g.age <= StepUpWindow
  BY DEF hasFreshStepUp
<1>4. sessions[sid].stepUp <= g.age /\ g.age \in Nat
  BY <1>3 DEF AuthInv, JarsOk, GrantOk
<1>5. sessions[sid].stepUp <= StepUpWindow
  BY <1>2, <1>3, <1>4, AuthAssumption
<1>6. kind \in OnOthers => target # sessions[sid].user
  BY DEF MayAsk, OnOthers, requirePlatformAdminAction, Claims
<1> HIDE DEF call, sid, g
<1> QED BY <1>1, <1>2, <1>5, <1>6 DEF Judged, call

\* The button and the resend.
LEMMA CallSent ==
  ASSUME AuthInv, NEW b \in Browser, NEW c, NEW kind, NEW target, Send(c, b, kind, target)
  PROVE  AuthInv'
<1>1. /\ SessionsOk' /\ SessionsExtend
      /\ \A s \in DOMAIN sessions : s \in DOMAIN sessions' /\ sessions'[s].stepUp = sessions[s].stepUp
  BY DEF AuthInv, SessionsOk, SessionsExtend, Send
<1>2. JarsOk'
  <2>1. jars[b].session \in DOMAIN sessions'
    BY <1>1 DEF AuthInv, JarsOk, Send, resolveStaff, proxy, SignedIn
  <2>2. jars' = touchIdleClock(b, jars[b].session)
    BY DEF Send
  <2> QED BY <1>1, <2>1, <2>2, TouchKeeps DEF AuthInv
<1>3. CallsOk'
  <2>1. PICK reached : /\ calls' = Put(calls, c, Sent(b, kind, target, reached))
                       /\ reached = "taken" => hasFreshStepUp(b)
    <3>1. CASE hasFreshStepUp(b)
      BY <3>1 DEF Send
    <3>2. CASE ~hasFreshStepUp(b)
      BY <3>2 DEF Send
    <3> QED BY <3>1, <3>2
  <2> DEFINE call == Sent(b, kind, target, reached)
  <2>2. IsCall(call) /\ call.phase = reached /\ call.browser = b
    BY DEF Sent, IsCall
  <2>3. reached = "taken" => Judged(call)
    <3>1. resolveStaff(b) /\ MayAsk(Claims(b).user, kind, target)
      BY DEF Send
    <3>2. reached = "taken" => Judged(Sent(b, kind, target, "taken"))
      BY <2>1, <3>1, FreshlyJudged
    <3> QED BY <3>2
  <2> HIDE DEF call
  <2>4. \A x \in DOMAIN calls' : calls'[x] = call \/ (x \in DOMAIN calls /\ calls'[x] = calls[x])
    BY <2>1 DEF Put, call
  <2>5. \A x : Judged(x) => Judged(x)'
    BY <1>1 DEF Judged, SessionsExtend
  <2> QED BY <2>2, <2>3, <2>4, <2>5 DEF AuthInv, CallsOk
<1> QED BY <1>1, <1>2, <1>3 DEF AuthInv

\* The code that was asked for: the session and the grant start over together.
LEMMA StepsUp ==
  ASSUME AuthInv, NEW b \in Browser, StepUp(b)
  PROVE  AuthInv'
<1> DEFINE sid == jars[b].session
           g == [sub |-> Claims(b).user, sid |-> sid, age |-> 0]
           k == touchIdleClock(b, sid)
<1>1. sid \in DOMAIN sessions
  BY DEF AuthInv, JarsOk, StepUp, resolveStaff, proxy, SignedIn
<1>2. /\ DOMAIN sessions' = DOMAIN sessions
      /\ \A s \in DOMAIN sessions :
           /\ IsSession(sessions'[s]) /\ sessions'[s].stepUp = IF s = sid THEN 0 ELSE sessions[s].stepUp
           /\ sessions'[s].user = sessions[s].user
           /\ sessions[s].aal2 => sessions'[s].aal2
  <2> DEFINE m == [sessions EXCEPT ![sid].code = 0]
  <2>1. sessions' = [m EXCEPT ![sid].stepUp = 0]
    BY DEF StepUp
  <2> HIDE DEF sid
  <2>2. DOMAIN m = DOMAIN sessions
    OBVIOUS
  <2>3. ASSUME NEW s \in DOMAIN sessions
        PROVE  /\ IsSession(m[s]) /\ m[s].stepUp = sessions[s].stepUp
               /\ m[s].user = sessions[s].user /\ (sessions[s].aal2 => m[s].aal2)
    <3>1. m[s] = IF s = sid THEN [sessions[s] EXCEPT !.code = 0] ELSE sessions[s]
      OBVIOUS
    <3>2. IsSession(sessions[s])
      BY DEF AuthInv, SessionsOk
    <3> HIDE DEF m
    <3> QED BY <3>1, <3>2 DEF IsSession
  <2> HIDE DEF m
  <2>4. DOMAIN sessions' = DOMAIN m
    BY <2>1
  <2>5. ASSUME NEW s \in DOMAIN m
        PROVE  /\ IsSession(sessions'[s]) /\ sessions'[s].stepUp = IF s = sid THEN 0 ELSE m[s].stepUp
               /\ sessions'[s].user = m[s].user /\ sessions'[s].aal2 = m[s].aal2
    BY <2>1, <2>2, <2>3 DEF IsSession
  <2> QED BY <2>2, <2>3, <2>4, <2>5
<1>3. SessionsOk' /\ SessionsExtend
  BY <1>2 DEF AuthInv, SessionsOk, SessionsExtend
<1>4. JarsOk'
  <2>1. /\ OnBrowsers(k)
        /\ \A x \in Browser : /\ IsJar(k[x]) /\ k[x].grant = jars[x].grant
                              /\ k[x].session = IF x = b THEN sid ELSE jars[x].session
    BY Touched DEF AuthInv
  <2>2. jars' = [k EXCEPT ![b].grant = g]
    BY DEF StepUp
  <2>3. IsGrant(g) /\ g.sid = sid /\ g.age = 0
    BY DEF IsGrant
  <2> HIDE DEF k, g, sid
  <2>4. OnBrowsers(jars')
    BY <2>1, <2>2 DEF OnBrowsers
  <2>5. ASSUME NEW x \in Browser
        PROVE  /\ IsJar(jars'[x]) /\ jars'[x].session = k[x].session
               /\ jars'[x].grant = IF x = b THEN g ELSE jars[x].grant
    BY <2>1, <2>2 DEF IsJar, OnBrowsers
  <2>6. ASSUME NEW h, h = g PROVE GrantOk(h)'
    BY <1>1, <1>2, <2>3, <2>6 DEF GrantOk
  <2>7. ASSUME NEW h, GrantOk(h) PROVE GrantOk(h)'
    BY <1>2, <2>7 DEF GrantOk
  <2>8. \A x \in Browser : jars'[x].session # None => jars'[x].session \in DOMAIN sessions'
    BY <1>1, <1>2, <2>1, <2>5 DEF AuthInv, JarsOk
  <2> QED BY <2>4, <2>5, <2>6, <2>7, <2>8 DEF AuthInv, JarsOk
<1>5. CallsOk'
  <2>1. ASSUME NEW r, IsCall(r), NEW t, t = [r EXCEPT !.phase = "confirmed"]
        PROVE  IsCall(t) /\ t.phase = "confirmed" /\ t.browser = r.browser
    BY <2>1 DEF IsCall
  <2>2. /\ DOMAIN calls' = DOMAIN calls
        /\ \A c \in DOMAIN calls : calls'[c] = IF c = dialogs[b] THEN [calls[c] EXCEPT !.phase = "confirmed"]
                                               ELSE calls[c]
    BY DEF StepUp
  <2>3. \A x : Judged(x) => Judged(x)'
    BY <1>3 DEF Judged, SessionsExtend
  <2> QED BY <2>1, <2>2, <2>3 DEF AuthInv, CallsOk
<1> QED BY <1>3, <1>4, <1>5 DEF AuthInv

\* Every step of the administration application keeps the invariant.
LEMMA AuthStep ==
  ASSUME AuthInv, [AuthNext]_authVars
  PROVE  AuthInv'
<1>1. ASSUME NEW b \in Browser,
             SetPassword(b) \/ SignOut(b) \/ ExpireSession(b) \/ Activity(b)
               \/ \E f \in FactorId : EnrolAuthenticator(b, f)
      PROVE  AuthInv'
  <2>1. /\ UNCHANGED <<sessions, calls>>
        /\ \/ SignedIn(b) /\ jars' = touchIdleClock(b, jars[b].session)
           \/ jars' = clearAdminCookies(b)
    BY <1>1 DEF SetPassword, SignOut, ExpireSession, Activity, EnrolAuthenticator, proxy
  <2> QED BY <2>1, CookiesOnly
<1>2. ASSUME NEW c,
             Cancel(c) \/ setStaffActive(c) \/ ResetMfa(c) \/ PasswordReset(c) \/ RemoveFactor(c)
               \/ Governed(c) \/ \E roles \in InviteRoles : Invite(c, roles)
      PROVE  AuthInv'
  <2>1. calls' = Ended(c) /\ UNCHANGED <<sessions, jars>>
    BY <1>2 DEF Cancel, setStaffActive, ResetMfa, PasswordReset, RemoveFactor, Governed, Invite, Answered
  <2>2. SessionsOk' /\ SessionsExtend
    BY <2>1 DEF AuthInv, SessionsOk, SessionsExtend
  <2>3. JarsOk'
    <3>1. \A g : GrantOk(g)' <=> GrantOk(g)
      BY <2>1 DEF GrantOk
    <3> QED BY <2>1, <3>1 DEF AuthInv, JarsOk, OnBrowsers
  <2> QED BY <2>1, <2>2, <2>3, EndedCalls, CallsKept DEF AuthInv
<1>3. ASSUME NEW b \in Browser, NEW c, Click(c, b) PROVE AuthInv'
  BY <1>3, CallSent DEF Click
<1>4. ASSUME NEW c, Resend(c) PROVE AuthInv'
  BY <1>4, CallSent DEF Resend, AuthInv, CallsOk
<1>5. CASE UNCHANGED authVars
  BY <1>5 DEF authVars, AuthInv, SessionsOk, JarsOk, GrantOk, CallsOk, Judged, OnBrowsers
<1> QED
  BY <1>1, <1>2, <1>3, <1>4, <1>5, SignsIn, FactorVerified, Ticks, StepsUp DEF AuthNext

\* Whatever a protected route takes up was asked for under a step-up of that person in that
\* session within the last five minutes, and never on their own account.
THEOREM PrivilegedOnlyUnderStepUp == AuthSpec => []PrivilegedUnderStepUp
<1>1. AuthInit => AuthInv
  BY DEF AuthInit, AuthInv, SessionsOk, JarsOk, CallsOk, OnBrowsers, IsJar, EmptyMap
<1>2. AuthInv => PrivilegedUnderStepUp
  BY DEF AuthInv, CallsOk, Judged, PrivilegedUnderStepUp
<1> QED
  BY <1>1, <1>2, AuthStep, PTL DEF AuthSpec

(***************************************************************************)
(* The deployment of a release.                                            *)
(***************************************************************************)

Deployment ==
  [commit : Commit, status : activeStatuses \cup terminalFailures \cup {"live", "deactivated"},
   cleared : BOOLEAN]

\* The deployments with a cleared cache: none before the script has asked for one.
CacheCleared == {d \in DOMAIN deploys : deploys[d].cleared}

DeploysSound ==
  /\ deploys \in Seq(Deployment) /\ head \in Commit
  /\ cacheClearId = NoDeploy \/ cacheClearId \in DOMAIN deploys
  /\ phase = "posting" \/ (phase = "polling" /\ cacheClearId = NoDeploy) => CacheCleared = {}
  /\ \A d, e \in CacheCleared : d = e

\* What the script saw last under way was before its wait, and before the stretch it counts.
ClockSound ==
  /\ now \in Int /\ wakeAt \in Int
  /\ lastActive = NoDeploy \/ (lastActive \in Int /\ lastActive < wakeAt)
  /\ stableSince = NoDeploy \/ /\ stableSince \in Int /\ stableSince <= now
                               /\ lastActive = NoDeploy \/ lastActive < stableSince

\* What is smoked is the deployment it follows, after a stretch that is long enough.
ReleaseSound ==
  /\ did = advised
  /\ phase \in {"smoking", "passed"} =>
       /\ cacheClearId \in DOMAIN deploys /\ deploys[cacheClearId].commit = Expected
       /\ stableSince # NoDeploy /\ now - stableSince >= Stabilization
  /\ phase = "passed" => served = Expected

ReleaseInv == DeploysSound /\ ClockSound /\ ReleaseSound

\* Nothing that is deployed gets another commit or cache.
OnlyGrew ==
  /\ deploys' \in Seq(Deployment) /\ head' \in Commit /\ DOMAIN deploys \subseteq DOMAIN deploys'
  /\ \A d \in DOMAIN deploys : /\ deploys'[d].commit = deploys[d].commit
                               /\ deploys'[d].cleared = deploys[d].cleared
  /\ \A d \in DOMAIN deploys' \ DOMAIN deploys : ~deploys'[d].cleared

\* A deployment more, or one that moves on, leaves every commit and every cache as it was.
LEMMA DeploysGrow ==
  ASSUME DeploysSound, OnlyGrew,
         UNCHANGED <<phase, cacheClearId>>
  PROVE  /\ DeploysSound'
         /\ cacheClearId \in DOMAIN deploys => deploys'[cacheClearId].commit = deploys[cacheClearId].commit
<1>1. CacheCleared' = CacheCleared
  BY DEF CacheCleared, OnlyGrew
<1> QED
  BY <1>1 DEF DeploysSound, OnlyGrew

\* Appending a deployment.
LEMMA Appended ==
  ASSUME deploys \in Seq(Deployment), NEW commit \in Commit, NEW cleared \in BOOLEAN,
         Deployed(commit, cleared)
  PROVE  /\ deploys' \in Seq(Deployment) /\ DOMAIN deploys' = DOMAIN deploys \cup {Len(deploys) + 1}
         /\ Len(deploys) + 1 \notin DOMAIN deploys
         /\ deploys'[Len(deploys) + 1].cleared = cleared
         /\ \A d \in DOMAIN deploys : deploys'[d] = deploys[d]
<1> DEFINE new == [commit |-> commit, status |-> "queued", cleared |-> cleared]
<1>1. new \in Deployment /\ deploys' = Append(deploys, new) /\ new.cleared = cleared
  BY DEF Deployment, Deployed, activeStatuses
<1> HIDE DEF new
<1>2. /\ deploys' \in Seq(Deployment) /\ Len(deploys') = Len(deploys) + 1 /\ Len(deploys) \in Nat
      /\ DOMAIN deploys = 1..Len(deploys) /\ DOMAIN deploys' = 1..Len(deploys')
      /\ \A d \in 1..Len(deploys) : deploys'[d] = deploys[d] /\ deploys'[Len(deploys) + 1] = new
  BY <1>1
<1>3. deploys'[Len(deploys) + 1] = new
  BY <1>1
<1> QED
  BY <1>1, <1>2, <1>3

\* The platform's steps.
LEMMA PlatformStep ==
  ASSUME ReleaseInv,
         \/ \E c \in Commit : push(c)
         \/ \E d \in DOMAIN deploys : advance(d)
  PROVE  ReleaseInv'
<1>1. deploys \in Seq(Deployment) /\ head \in Commit
  BY DEF ReleaseInv, DeploysSound
<1>2. OnlyGrew
  <2>1. ASSUME NEW c \in Commit, push(c) PROVE OnlyGrew
    BY <1>1, <2>1, Appended DEF push, OnlyGrew
  <2>2. ASSUME NEW d \in DOMAIN deploys, advance(d) PROVE OnlyGrew
    <3>1. DOMAIN deploys = 1..Len(deploys) /\ \A e \in DOMAIN deploys : deploys[e] \in Deployment
      BY <1>1
    <3>2. /\ DOMAIN deploys' = DOMAIN deploys /\ head' = head
          /\ \A e \in DOMAIN deploys :
               deploys'[e] = deploys[e] \/ \E s \in {"build_in_progress", "live", "deactivated", "build_failed"} :
                 deploys'[e] = [deploys[e] EXCEPT !.status = s]
      BY <2>2 DEF advance
    <3>3. ASSUME NEW e \in DOMAIN deploys
          PROVE  /\ deploys'[e] \in Deployment /\ deploys'[e].commit = deploys[e].commit
                 /\ deploys'[e].cleared = deploys[e].cleared
      BY <3>1, <3>2, <3>3 DEF Deployment, activeStatuses, terminalFailures
    <3>4. deploys' \in Seq(Deployment)
      <4>1. deploys' = [e \in 1..Len(deploys) |-> deploys'[e]]
        BY <2>2, <3>1, <3>2 DEF advance
      <4>2. Len(deploys) \in Nat /\ \A e \in 1..Len(deploys) : deploys'[e] \in Deployment
        BY <1>1, <3>1, <3>3
      <4> QED
        BY <4>1, <4>2, IsASeq
    <3> QED
      BY <1>1, <3>2, <3>3, <3>4 DEF OnlyGrew
  <2> QED
    BY <2>1, <2>2
<1>3. UNCHANGED <<now, scriptVars>>
  BY DEF push, advance
<1>4. /\ DeploysSound'
      /\ cacheClearId \in DOMAIN deploys => deploys'[cacheClearId].commit = deploys[cacheClearId].commit
  BY <1>2, <1>3, DeploysGrow DEF ReleaseInv, scriptVars
<1>5. ClockSound'
  BY <1>3 DEF ReleaseInv, ClockSound, scriptVars
<1>6. ReleaseSound'
  BY <1>2, <1>3, <1>4 DEF ReleaseInv, ReleaseSound, scriptVars, OnlyGrew
<1> QED
  BY <1>4, <1>5, <1>6 DEF ReleaseInv

\* The decision function, state by state.
LEMMA Decisions ==
  ASSUME NEW id, NEW expired
  PROVE  LET replied == decideSingleFlightDeployment(id, expired) IN
         /\ Active # {} => replied = "WAIT"
         /\ Active = {} /\ id # NoDeploy =>
              replied = IF deploys[id].commit = Expected /\ deploys[id].status = "live"
                       THEN "SMOKE" ELSE "REVIEW_FAILURE"
         /\ Active = {} /\ id = NoDeploy =>
              replied = IF ExpectedLive \/ expired THEN "TRIGGER_CACHE_CLEAR" ELSE "WAIT"
BY DEF decideSingleFlightDeployment

\* No step breaks the invariant.
LEMMA ReleaseStep == ReleaseInv /\ [DeploymentNext]_deployVars => ReleaseInv'
<1> SUFFICES ASSUME ReleaseInv, [DeploymentNext]_deployVars PROVE ReleaseInv'
  OBVIOUS
<1>1. CASE \/ \E c \in Commit : push(c)
           \/ \E d \in DOMAIN deploys : advance(d)
  BY <1>1, PlatformStep
<1>2. ASSUME UNCHANGED <<deploys, head, cacheClearId>>, phase' = phase \/ phase' \notin {"posting", "polling"}
                                                         \/ (phase' = "posting" /\ phase = "polling" /\ cacheClearId = NoDeploy)
      PROVE  DeploysSound'
  BY <1>2 DEF ReleaseInv, DeploysSound, CacheCleared
<1>3. CASE tick
  <2>1. ClockSound'
    BY <1>3 DEF tick, scriptVars, ReleaseInv, ClockSound
  <2>2. ReleaseSound'
    <3>1. phase \in {"smoking", "passed"} => stableSince \in Int /\ now \in Int
      BY DEF ReleaseInv, ClockSound, ReleaseSound
    <3> QED
      BY <1>3, <3>1, DeploymentAssumption DEF tick, scriptVars, ReleaseInv, ReleaseSound
  <2> QED
    BY <1>2, <1>3, <2>1, <2>2 DEF tick, scriptVars, ReleaseInv
<1>4. CASE waitForActive
  <2>1. ClockSound'
    BY <1>4, DeploymentAssumption DEF waitForActive, Polling, Wait, Unstable, Unmoved, ReleaseInv, ClockSound
  <2>2. ReleaseSound'
    BY <1>4, Decisions DEF waitForActive, Polling, Wait, Advise, Unmoved, ReleaseInv, ReleaseSound
  <2> QED
    BY <1>2, <1>4, <2>1, <2>2 DEF waitForActive, Unmoved, Wait, ReleaseInv
<1>5. CASE waitForAutomatic
  <2>1. ClockSound'
    BY <1>5 DEF waitForAutomatic, Polling, Wait, Unmoved, ReleaseInv, ClockSound
  <2>2. ~(now >= Grace)
    BY <1>5, DeploymentAssumption DEF waitForAutomatic, ReleaseInv, ClockSound
  <2>3. ReleaseSound'
    BY <1>5, <2>2, Decisions DEF waitForAutomatic, Polling, Wait, Advise, Unmoved, ReleaseInv, ReleaseSound
  <2> QED
    BY <1>2, <1>5, <2>1, <2>3 DEF waitForAutomatic, Unmoved, Wait, ReleaseInv
<1>6. CASE triggerCacheClear
  <2>1. ClockSound'
    BY <1>6 DEF triggerCacheClear, Unmoved, ReleaseInv, ClockSound
  <2>2. ReleaseSound'
    BY <1>6, Decisions DEF triggerCacheClear, Polling, Advise, Unmoved, ReleaseInv, ReleaseSound
  <2> QED
    BY <1>2, <1>6, <2>1, <2>2 DEF triggerCacheClear, Polling, Unmoved, ReleaseInv
<1>7. CASE postCacheClear
  <2>1. /\ deploys \in Seq(Deployment) /\ head \in Commit /\ CacheCleared = {} /\ Deployed(head, TRUE)
        /\ phase' = "finding" /\ UNCHANGED <<head, cacheClearId, now, wakeAt, stableSince, lastActive, advised, did>>
    BY <1>7 DEF postCacheClear, ReleaseInv, DeploysSound
  <2>2. /\ deploys' \in Seq(Deployment) /\ DOMAIN deploys' = DOMAIN deploys \cup {Len(deploys) + 1}
        /\ \A d \in DOMAIN deploys : deploys'[d] = deploys[d]
    BY <2>1, Appended
  <2>3. CacheCleared' \subseteq {Len(deploys) + 1}
    BY <2>1, <2>2 DEF CacheCleared
  <2>4. DeploysSound'
    BY <2>1, <2>2, <2>3 DEF ReleaseInv, DeploysSound
  <2> QED
    BY <2>1, <2>4 DEF ReleaseInv, ClockSound, ReleaseSound
<1>8. CASE discoverCandidate
  <2>1. /\ UNCHANGED <<deploys, head, now, wakeAt, stableSince, lastActive, advised, did>>
        /\ phase' \in {"failed", "polling"}
        /\ IF Candidates = {} THEN phase' = "failed" /\ cacheClearId' = cacheClearId
           ELSE phase' = "polling" /\ cacheClearId' = Max(Candidates)
    BY <1>8 DEF discoverCandidate
  <2>2. Candidates # {} => Max(Candidates) \in DOMAIN deploys
    <3>1. /\ Candidates \subseteq DOMAIN deploys /\ DOMAIN deploys = 1..Len(deploys) /\ Len(deploys) \in Nat
      BY DEF Candidates, ReleaseInv, DeploysSound
    <3>2. Candidates \in SUBSET (0..Len(deploys))
      BY <3>1
    <3>3. Candidates # {} => \E n \in Candidates : \A y \in Candidates : n >= y
      BY <3>1, <3>2, GreatestNumber
    <3> QED
      BY <3>1, <3>3 DEF Max
  <2>3. DOMAIN deploys \subseteq Int
    BY DEF ReleaseInv, DeploysSound
  <2>4. DeploysSound'
    BY <2>1, <2>2, <2>3, DeploymentAssumption DEF ReleaseInv, DeploysSound, CacheCleared
  <2> QED
    BY <2>1, <2>4 DEF ReleaseInv, ClockSound, ReleaseSound
<1>9. CASE reviewFailure
  <2>1. did' = advised'
    BY <1>9, Decisions DEF reviewFailure, Advise, Own, terminalFailures
  <2>2. phase' = "failed" /\ UNCHANGED <<wakeAt, stableSince, lastActive, deploys, head, now, cacheClearId>>
    BY <1>9 DEF reviewFailure, Unmoved
  <2> QED
    BY <1>2, <2>1, <2>2 DEF ReleaseInv, ClockSound, ReleaseSound
<1>10. CASE stabilize
  <2>1. did' = advised'
    BY <1>10, Decisions DEF stabilize, Advise, Own
  <2>2. /\ UNCHANGED <<lastActive, deploys, head, now, cacheClearId, served>> /\ phase = "polling"
        /\ stableSince' = IF stableSince = NoDeploy THEN now ELSE stableSince
        /\ now >= wakeAt /\ cacheClearId # NoDeploy /\ deploys[cacheClearId].commit = Expected
        /\ \/ now - stableSince' < Stabilization /\ wakeAt' = now + 1 /\ phase' = phase
           \/ ~(now - stableSince' < Stabilization) /\ wakeAt' = wakeAt /\ phase' = "smoking"
    BY <1>10 DEF stabilize, Unmoved, Polling, Own, Wait
  <2>3. ClockSound' /\ stableSince' \in Int
    BY <2>2, DeploymentAssumption DEF ReleaseInv, ClockSound
  <2>4. ReleaseSound'
    <3>1. now - stableSince' \in Int /\ Stabilization \in Int
      BY <2>3, DeploymentAssumption DEF ReleaseInv, ClockSound
    <3>2. phase' = "smoking" => now' - stableSince' >= Stabilization
      BY <2>2, <3>1
    <3> QED
      BY <2>1, <2>2, <2>3, <3>2, DeploymentAssumption DEF ReleaseInv, ReleaseSound, DeploysSound
  <2> QED
    BY <1>2, <2>2, <2>3, <2>4 DEF ReleaseInv
<1>11. CASE smoke
  <2>1. /\ UNCHANGED <<deploys, head, now, wakeAt, cacheClearId, stableSince, lastActive, advised, did>>
        /\ phase = "smoking" /\ phase' \in {"passed", "failed"} /\ (phase' = "passed" => served' = Expected)
    BY <1>11 DEF smoke
  <2> QED
    BY <1>2, <2>1 DEF ReleaseInv, ClockSound, ReleaseSound
<1>12. CASE throws
  BY <1>2, <1>12 DEF throws, ReleaseInv, ClockSound, ReleaseSound
<1>13. CASE (\E drift \in SUBSET Drift : checkTopology(drift)) \/ UNCHANGED deployVars
  <2>1. UNCHANGED <<deploys, head, phase, now, wakeAt, cacheClearId, stableSince, lastActive, advised, did, served>>
    BY <1>13 DEF checkTopology, deployVars
  <2> QED
    BY <1>2, <2>1 DEF ReleaseInv, ClockSound, ReleaseSound
<1> QED
  BY <1>1, <1>3, <1>4, <1>5, <1>6, <1>7, <1>8, <1>9, <1>10, <1>11, <1>12, <1>13 DEF DeploymentNext

\* Whatever is pushed and however long deployments take: the script decides as the decision
\* function does, asks for one cleared deployment, and passes only the expected commit after
\* a stretch in which nothing else was under way (deploy-render-single-flight.mjs).
THEOREM ReleasesProven == DeploymentSpec => []ReleaseProven
<1>1. DeploymentInit => ReleaseInv
  <2> SUFFICES ASSUME DeploymentInit PROVE ReleaseInv
    OBVIOUS
  <2>1. PICK c \in Commit : deploys = <<[commit |-> c, status |-> "live", cleared |-> FALSE]>>
    BY DEF DeploymentInit
  <2>2. deploys \in Seq(Deployment)
    BY <2>1 DEF Deployment
  <2>3. DOMAIN deploys = {1} /\ ~deploys[1].cleared
    BY <2>1
  <2> QED
    BY <2>2, <2>3, DeploymentAssumption
    DEF DeploymentInit, ReleaseInv, DeploysSound, ClockSound, ReleaseSound, CacheCleared
<1>2. ReleaseInv => ReleaseProven
  <2> SUFFICES ASSUME ReleaseInv PROVE ReleaseProven
    OBVIOUS
  <2>1. Cardinality(CacheCleared) <= 1
    <3>1. CASE CacheCleared = {}
      <4>1. Cardinality(CacheCleared) = 0
        BY <3>1, FS_EmptySet
      <4> QED
        BY <4>1
    <3>2. CASE CacheCleared # {}
      <4>1. PICK d \in CacheCleared : \A e \in CacheCleared : e = d
        BY <3>2 DEF ReleaseInv, DeploysSound
      <4>2. CacheCleared = {d}
        BY <4>1
      <4>3. Cardinality(CacheCleared) = 1
        BY <4>2, FS_Singleton
      <4> QED
        BY <4>3
    <3> QED
      BY <3>1, <3>2
  <2> QED
    BY <2>1 DEF ReleaseInv, ReleaseSound, ClockSound, ReleaseProven, CacheCleared
<1> QED
  BY <1>1, <1>2, ReleaseStep, PTL DEF DeploymentSpec

-----------------------------------------------------------------------------
(***************************************************************************)
(* The boundary to live partners.                                          *)
(***************************************************************************)
\* A result of the launch gate that says READY cites, for every control, evidence of two
\* people that had not expired when the gate was evaluated.
ReadyProven(g) ==
  g.decision = "READY" =>
    \A control \in DOMAIN Requirement : \E e \in g.audit :
      /\ e.control = control /\ e.status = "APPROVED" /\ e.maker # e.checker
      /\ e.expires > g.at

\* What was taken came through a gate that said READY with proof, and its id or key is among those
\* seen.
AdaptersInv ==
  /\ filed \in Seq(Approval)
  /\ gate # NoGate => ReadyProven(gate)
  /\ \A i \in instructions :
       IF i.content = "message" THEN i.source.key \in seen ELSE i.source.id \in seen
  /\ LiveOnlyWithProof /\ TakenOnce /\ PassedIsClear

\* The evidence that is cited for a control proves it.
LEMMA CitedProves ==
  ASSUME filed \in Seq(Approval), NEW control, \E i \in DOMAIN filed : Proves(filed[i], control)
  PROVE  Proves(Cited(control), control)
<1> DEFINE proving == {i \in DOMAIN filed : Proves(filed[i], control)}
<1>1. DOMAIN filed = 1 .. Len(filed) /\ Len(filed) \in Nat
  OBVIOUS
<1>2. proving \in SUBSET Nat /\ proving # {}
  BY <1>1
<1>3. PICK n \in proving : \A y \in proving : n <= y
  BY <1>2, LeastNumber
<1>4. n \in DOMAIN filed /\ Proves(filed[n], control) /\ \A j \in 1 .. n - 1 : ~Proves(filed[j], control)
  <2>1. ASSUME NEW j \in 1 .. n - 1, Proves(filed[j], control) PROVE FALSE
    <3>1. n \in 1 .. Len(filed) /\ j \in 1 .. Len(filed) /\ j < n
      BY <1>1, <2>1
    <3>2. j \in proving
      BY <1>1, <2>1, <3>1
    <3> QED
      BY <1>1, <1>3, <3>1, <3>2
  <2> QED
    BY <2>1
<1> DEFINE least(i) == Proves(filed[i], control) /\ \A j \in 1 .. i - 1 : ~Proves(filed[j], control)
<1>5. Cited(control) = filed[CHOOSE i \in DOMAIN filed : least(i)]
  BY DEF Cited, First
<1>6. least(CHOOSE i \in DOMAIN filed : least(i))
  BY <1>4, Zenon
<1> QED
  BY <1>5, <1>6

\* The gate keeps its promise when it is evaluated.
LEMMA GateEvaluated ==
  ASSUME AdaptersInv, evaluatePhase6Launch
  PROVE  ReadyProven(gate')
<1>1. ASSUME gate'.decision = "READY", NEW control \in DOMAIN Requirement
      PROVE  \E e \in gate'.audit : /\ e.control = control /\ e.status = "APPROVED" /\ e.maker # e.checker
                                    /\ e.expires > gate'.at
  <2>1. Passed(control) /\ gate'.at = today /\ Cited(control) \in gate'.audit
    BY <1>1 DEF evaluatePhase6Launch
  <2>2. Proves(Cited(control), control)
    BY <2>1, CitedProves DEF Passed, AdaptersInv
  <2> QED
    BY <2>1, <2>2 DEF Proves
<1> QED
  BY <1>1 DEF ReadyProven

\* What is made of an event or of a message: its source was not seen before, came through
\* a gate that is sound, and passes only when it is clear.
LEMMA Instructed ==
  ASSUME AdaptersInv, NEW x, NEW content, authorizeEnvironment(x), Instruct(x, content),
         NEW name, name \notin seen, seen' = seen \cup {name},
         name = IF content = "message" THEN x.key ELSE x.id,
         content = "PASS" => \A c \in x.requested : c \in DOMAIN x.checks /\ x.checks[c] = "CLEAR"
  PROVE  AdaptersInv'
<1> DEFINE new == [source |-> x, content |-> content, gate |-> gate]
<1>1. /\ instructions' = instructions \cup {new}
      /\ new.source = x /\ new.content = content /\ new.gate = gate
      /\ filed' = filed /\ gate' = gate
  BY DEF Instruct
<1> HIDE DEF new
<1>2. \A i \in instructions' : IF i.content = "message" THEN i.source.key \in seen' ELSE i.source.id \in seen'
  BY <1>1 DEF AdaptersInv
<1>3. LiveOnlyWithProof'
  BY <1>1 DEF AdaptersInv, LiveOnlyWithProof, authorizeEnvironment, ReadyProven
<1>4. TakenOnce'
  <2> SUFFICES ASSUME NEW i \in instructions', NEW j \in instructions'
               PROVE  /\ i.content # "message" /\ j.content # "message" /\ i.source.id = j.source.id => i = j
                      /\ i.content = "message" /\ j.content = "message" /\ i.source.key = j.source.key => i = j
    BY DEF TakenOnce
  <2>1. CASE i \in instructions /\ j \in instructions
    BY <2>1 DEF AdaptersInv, TakenOnce
  <2>2. CASE i = new /\ j = new
    BY <2>2
  <2>3. CASE i = new /\ j \in instructions
    BY <1>1, <2>3 DEF AdaptersInv
  <2>4. CASE i \in instructions /\ j = new
    BY <1>1, <2>4 DEF AdaptersInv
  <2> QED
    BY <1>1, <2>1, <2>2, <2>3, <2>4
<1>5. PassedIsClear'
  BY <1>1 DEF AdaptersInv, PassedIsClear
<1> QED
  BY <1>1, <1>2, <1>3, <1>4, <1>5 DEF AdaptersInv

\* A check that passes a customer was clear, of everything asked for.
LEMMA PassIsClear ==
  ASSUME NEW e \in Event, e.from = "verification", Recommendation(e) = "PASS"
  PROVE  \A c \in e.requested : c \in DOMAIN e.checks /\ e.checks[c] = "CLEAR"
<1> DEFINE outcomes == {e.checks[c] : c \in DOMAIN e.checks}
<1>1. /\ outcomes \cap {"POSSIBLE_MATCH", "CONFIRMED_MATCH"} = {}
      /\ "INCONCLUSIVE" \notin outcomes /\ DOMAIN e.checks = e.requested
  BY DEF Recommendation
<1>2. \A c \in DOMAIN e.checks : e.checks[c] \in Outcome /\ e.checks[c] \in outcomes
  BY AdaptersAssumption
<1> QED
  BY <1>1, <1>2 DEF Outcome

\* Filing, listing, a day that passes, an evaluation and each arrival keep it.
LEMMA AdaptersStep ==
  ASSUME AdaptersInv, [AdaptersNext]_adapterVars
  PROVE  AdaptersInv'
<1>1. CASE UNCHANGED adapterVars
  BY <1>1 DEF adapterVars, AdaptersInv, LiveOnlyWithProof, TakenOnce, PassedIsClear
<1>2. ASSUME NEW e \in Approval, File(e) PROVE AdaptersInv'
  BY <1>2 DEF File, AdaptersInv, LiveOnlyWithProof, TakenOnce, PassedIsClear
<1>3. ASSUME NEW p \in Partner, List(p) PROVE AdaptersInv'
  BY <1>3 DEF List, AdaptersInv, LiveOnlyWithProof, TakenOnce, PassedIsClear
<1>4. CASE evaluatePhase6Launch
  <2>1. ReadyProven(gate') /\ UNCHANGED <<today, filed, partners, seen, instructions, preference>>
    BY <1>4, GateEvaluated DEF evaluatePhase6Launch
  <2> QED
    BY <2>1 DEF AdaptersInv, LiveOnlyWithProof, TakenOnce, PassedIsClear
<1>5. CASE NextDay
  BY <1>5 DEF NextDay, AdaptersInv, LiveOnlyWithProof, TakenOnce, PassedIsClear
<1>6. ASSUME NEW allows \in Preferences, Prefer(allows) PROVE AdaptersInv'
  BY <1>6 DEF Prefer, AdaptersInv, LiveOnlyWithProof, TakenOnce, PassedIsClear
<1>7. ASSUME NEW m \in Message, createMessageDispatchInstruction(m) PROVE AdaptersInv'
  BY <1>7, Instructed DEF createMessageDispatchInstruction
<1>8. ASSUME NEW e \in Event, NEW content, Take(e, content), content # "message", content # "PASS"
      PROVE  AdaptersInv'
  BY <1>8, Instructed DEF Take
<1>9. ASSUME NEW e \in Event, normalizeVerificationResult(e) PROVE AdaptersInv'
  <2>1. e.from = "verification" /\ Take(e, Recommendation(e))
    BY <1>9 DEF normalizeVerificationResult
  <2>2. Recommendation(e) # "message"
    BY DEF Recommendation
  <2>3. CASE Recommendation(e) = "PASS"
    BY <2>1, <2>2, <2>3, PassIsClear, Instructed DEF Take
  <2> QED
    BY <1>8, <2>1, <2>2, <2>3
<1>10. ASSUME NEW e \in Event,
              \/ createFuelIngestionEnvelope(e) \/ normalizeExternalInstruction(e)
              \/ \E m \in Message : normalizeDeliveryReceipt(e, m.id)
       PROVE  AdaptersInv'
  BY <1>8, <1>10 DEF createFuelIngestionEnvelope, normalizeExternalInstruction, normalizeDeliveryReceipt
<1> QED
  BY <1>1, <1>2, <1>3, <1>4, <1>5, <1>6, <1>7, <1>9, <1>10 DEF AdaptersNext

LEMMA AdaptersStart == AdaptersInit => AdaptersInv
BY DEF AdaptersInit, AdaptersInv, LiveOnlyWithProof, TakenOnce, PassedIsClear

\* Whatever evidence expires or is filed while the result of the gate is in use, what came
\* from production came through a gate with proof for every control, every event and every
\* message is taken once, and a customer passes on clear checks only (packages/compliance,
\* payments-adapters, integration-adapters, identity).
THEOREM LiveAsProven == AdaptersSpec => []ProvenBeforeLive
<1>1. AdaptersInit => AdaptersInv
  BY AdaptersStart
<1>2. AdaptersInv /\ [AdaptersNext]_adapterVars => AdaptersInv'
  BY AdaptersStep
<1>3. AdaptersInv => ProvenBeforeLive
  BY DEF AdaptersInv, ProvenBeforeLive
<1> QED
  BY <1>1, <1>2, <1>3, PTL DEF AdaptersSpec

-----------------------------------------------------------------------------
(***************************************************************************)
(* Assisted answers and finance reports.                                   *)
(***************************************************************************)
\* Whatever is no draft was approved by another person, on an evaluation of every dimension.
ConfigurationSound ==
  /\ configuration = [status |-> configuration.status, checker |-> configuration.checker,
                      killSwitch |-> configuration.killSwitch, results |-> configuration.results]
  /\ configuration.status # "DRAFT" =>
       /\ configuration.checker # DefinitionOwner
       /\ Len(configuration.results) \in Nat
       /\ DOMAIN configuration.results = 1 .. Len(configuration.results)
       /\ \A d \in Dimension : PassedLast(configuration.results, d)

\* A published configuration had every dimension pass last, and so had the one of the answer shown.
AssistanceInv == ConfigurationSound /\ ShownWasGoverned

\* Of the results for a dimension the last is the one with the greatest place.
LEMMA LastPassed ==
  ASSUME NEW results, Len(results) \in Nat, DOMAIN results = 1 .. Len(results),
         NEW d, PassedLast(results, d)
  PROVE  LET of == {i \in DOMAIN results : results[i].dimension = d}
         IN of # {} /\ results[Max(of)].passed
<1> DEFINE of == {i \in DOMAIN results : results[i].dimension = d}
<1>1. PICK i \in of : /\ results[i].passed
                      /\ \A j \in i + 1 .. Len(results) : results[j].dimension # d
  BY DEF PassedLast
<1>2. of \subseteq Int /\ \A y \in of : i >= y
  <2>1. ASSUME NEW y \in of PROVE i >= y
    BY <1>1, <2>1
  <2> QED
    BY <2>1
<1>3. Max(of) = i
  <2> DEFINE m == Max(of)
  <2>1. m \in of /\ \A y \in of : m >= y
    BY <1>1, <1>2, Zenon DEF Max
  <2>2. m \in Int /\ i \in Int /\ m >= i /\ i >= m
    BY <1>1, <1>2, <2>1
  <2> HIDE DEF m
  <2>3. m = i
    BY <2>2
  <2> QED
    BY <2>3 DEF m
<1> QED
  BY <1>1, <1>3

LEMMA AssistanceStep ==
  ASSUME AssistanceInv, [AiNext]_aiVars
  PROVE  AssistanceInv'
<1>1. CASE UNCHANGED aiVars
  BY <1>1 DEF aiVars, AssistanceInv, ConfigurationSound, ShownWasGoverned, PassedLast
<1>2. ASSUME NEW c \in Reviewer, NEW results \in Evaluation, approveConfiguration(c, results)
      PROVE  AssistanceInv'
  <2>1. /\ configuration' = [status |-> "APPROVED", checker |-> c,
                             killSwitch |-> configuration.killSwitch, results |-> results]
        /\ c # DefinitionOwner /\ \A d \in Dimension : PassedLast(results, d)
        /\ answer' = answer
    BY <1>2 DEF approveConfiguration, AssistanceInv, ConfigurationSound
  <2>2. ConfigurationSound'
    BY <2>1, OversightAssumption DEF ConfigurationSound
  <2> QED
    BY <2>1, <2>2 DEF AssistanceInv, ShownWasGoverned
<1>3. CASE publishConfiguration
  <2>1. /\ configuration' = [status |-> "PUBLISHED", checker |-> configuration.checker,
                             killSwitch |-> configuration.killSwitch, results |-> configuration.results]
        /\ configuration.status = "APPROVED" /\ answer' = answer
    BY <1>3 DEF publishConfiguration, AssistanceInv, ConfigurationSound
  <2> QED
    BY <2>1 DEF AssistanceInv, ConfigurationSound, ShownWasGoverned
<1>4. CASE Stop
  <2>1. PICK yes : yes = TRUE
    OBVIOUS
  <2>2. configuration' = [configuration EXCEPT !.killSwitch = yes] /\ answer' = answer
    BY <1>4, <2>1 DEF Stop
  <2>3. configuration' = [status |-> configuration.status, checker |-> configuration.checker,
                          killSwitch |-> yes, results |-> configuration.results]
    BY <2>2 DEF AssistanceInv, ConfigurationSound
  <2> QED
    BY <2>2, <2>3 DEF AssistanceInv, ConfigurationSound, ShownWasGoverned
<1>5. ASSUME NEW a \in Answer, governAiInteraction(a) PROVE AssistanceInv'
  <2>1. PICK shown : shown <=> PolicyDecision(a) \in {"ALLOW", "VERIFY"}
    OBVIOUS
  <2>2. /\ configuration' = configuration /\ answer'.asked = a /\ answer'.under = configuration
        /\ answer'.shown <=> PolicyDecision(a) \in {"ALLOW", "VERIFY"}
    BY <1>5 DEF governAiInteraction
  <2>3. ASSUME answer'.shown
        PROVE  /\ configuration.status = "PUBLISHED"
               /\ a.cited \subseteq {e.id : e \in {x \in a.evidence : x.allowed}}
    <3>1. /\ configuration.status = "PUBLISHED"
          /\ \A e \in a.evidence : e.allowed
          /\ a.cited \subseteq {e.id : e \in a.evidence}
      <4> DEFINE live == configuration.status = "PUBLISHED"
                 foreign == \E e \in a.evidence : ~e.allowed
                 uncited == a.cited = {} \/ ~(a.cited \subseteq {e.id : e \in a.evidence})
      <4>1. live /\ ~foreign /\ ~uncited
        <5>1. PolicyDecision(a) \in {"ALLOW", "VERIFY"}
          BY <2>2, <2>3, Zenon
        <5> QED
          BY <5>1 DEF PolicyDecision
      <4> QED
        BY <4>1
    <3> QED
      BY <3>1
  <2>4. ASSUME answer'.shown, NEW d \in Dimension
        PROVE  LET of == {i \in DOMAIN configuration.results : configuration.results[i].dimension = d}
               IN of # {} /\ configuration.results[Max(of)].passed
    BY <2>3, <2>4, LastPassed DEF AssistanceInv, ConfigurationSound
  <2>5. ShownWasGoverned'
    BY <2>2, <2>3, <2>4 DEF ShownWasGoverned, AssistanceInv, ConfigurationSound
  <2> QED
    BY <2>2, <2>5 DEF AssistanceInv, ConfigurationSound
<1> QED
  BY <1>1, <1>2, <1>3, <1>4, <1>5 DEF AiNext

\* The records of the report, with amounts that can be summed.
ReportInv == IsFiniteSet(records) /\ records \subseteq FinanceRecord /\ CurrentIsActual

\* The sum of a category is a number.
LEMMA SumIsNumber ==
  ASSUME NEW of, IsFiniteSet(of), of \subseteq FinanceRecord, NEW category
  PROVE  Sum(of, category) \in Int
<1> DEFINE S == {x \in of : x.category = category}
           amounts == [r \in S |-> r.amount]
<1>1. IsFiniteSet(S)
  BY FS_Subset
<1>2. \A x \in DOMAIN amounts : amounts[x] \in Int
  BY OversightAssumption
<1>3. DOMAIN amounts = S
  OBVIOUS
<1> HIDE DEF amounts
<1>4. Total(amounts) \in Int
  BY <1>1, <1>2, <1>3, TotalTakes
<1> QED
  BY <1>4 DEF Sum, amounts

LEMMA ReportStep ==
  ASSUME ReportInv, [ReportNext]_reportVars
  PROVE  ReportInv'
<1>1. CASE UNCHANGED <<records, report>>
  BY <1>1 DEF ReportInv, CurrentIsActual
<1>2. ASSUME NEW r \in FinanceRecord, Record(r) PROVE ReportInv'
  <2>1. records' = records \cup {r} /\ report' = report
    BY <1>2 DEF Record
  <2>2. IsFiniteSet(records')
    BY <2>1, FS_AddElement DEF ReportInv
  <2> QED
    BY <2>1, <2>2 DEF ReportInv, CurrentIsActual
<1>3. ASSUME NEW at \in ReportTime, createFinanceReport(at) PROVE ReportInv'
  <2> DEFINE earned == Actual(records)
  <2>1. /\ records' = records /\ report'.of = records /\ report'.quality = Quality(at)
        /\ report'.pool = PoolResult(earned) /\ report'.net = NetEconomics(earned)
    BY <1>3 DEF createFinanceReport
  <2>2. IsFiniteSet(earned) /\ earned \subseteq FinanceRecord
    BY FS_Subset DEF ReportInv, Actual
  <2>3. \A c : Sum(earned, c) \in Int
    BY <2>2, SumIsNumber
  <2>4. NetEconomics(earned) = PoolResult(earned) + Sum(earned, "MARGIN_REVENUE")
    <3> HIDE DEF earned
    <3> QED
      BY <2>3 DEF NetEconomics, PoolResult, Charge
  <2>5. Quality(at) = "CURRENT" => \A c \in DOMAIN LedgerByCategory : Sum(earned, c) = LedgerByCategory[c]
    BY DEF Quality
  <2>6. earned = {r \in report'.of : r.actual}
    BY <2>1 DEF Actual
  <2>7. CurrentIsActual'
    BY <2>1, <2>4, <2>5, <2>6 DEF CurrentIsActual, Sum
  <2> QED
    BY <2>1, <2>7 DEF ReportInv
<1> QED
  BY <1>1, <1>2, <1>3 DEF ReportNext, reportVars, approveMetric, publishMetric

-----------------------------------------------------------------------------
(***************************************************************************)
(* The delivery of webhooks.                                               *)
(***************************************************************************)
\* The keys used up are those of the deliveries that went out.
DeliveryInv ==
  /\ IsList(deliveries)
  /\ delivered = {deliveries[j].key : j \in {i \in DOMAIN deliveries : deliveries[i].status = "SIMULATED"}}
  /\ DeliveredOnce

LEMMA DeliveryStep ==
  ASSUME DeliveryInv, [EnterpriseNext]_enterpriseVars
  PROVE  DeliveryInv'
<1>1. CASE UNCHANGED <<deliveries, delivered>>
  BY <1>1 DEF DeliveryInv, DeliveredOnce, IsList
<1>2. ASSUME NEW event \in EnterpriseEvent, NEW key \in DeliveryKey, simulateWebhookDelivery(event, key)
      PROVE  DeliveryInv'
  <2> DEFINE status == Status(event, key)
             new == [event |-> event, key |-> key, status |-> status]
             n == Len(deliveries) + 1
             out(i) == {j \in 1 .. i - 1 : deliveries[j].key = deliveries[i].key /\ deliveries[j].status = "SIMULATED"}
             before == {j \in 1 .. n - 1 : deliveries[j].key = key /\ deliveries[j].status = "SIMULATED"}
  <2>1. /\ deliveries' = Append(deliveries, new)
        /\ delivered' = IF status = "SIMULATED" THEN delivered \cup {key} ELSE delivered
        /\ status = "SIMULATED" => key \notin delivered
        /\ status = "DUPLICATE_SUPPRESSED" => key \in delivered
    BY <1>2 DEF simulateWebhookDelivery, Status
  <2>2. new.key = key /\ new.status = status
    OBVIOUS
  <2> HIDE DEF new, status
  <2>3. /\ IsList(deliveries') /\ DOMAIN deliveries' = DOMAIN deliveries \cup {n}
        /\ \A i \in DOMAIN deliveries : deliveries'[i] = deliveries[i]
        /\ deliveries'[n] = new /\ n \notin DOMAIN deliveries
    BY <2>1, AppendIsList DEF DeliveryInv
  <2>4. DOMAIN deliveries = 1 .. n - 1 /\ n - 1 \in Nat
    BY DEF DeliveryInv, IsList
  <2>5. delivered' = {deliveries'[j].key : j \in {i \in DOMAIN deliveries' : deliveries'[i].status = "SIMULATED"}}
    BY <2>1, <2>2, <2>3 DEF DeliveryInv
  <2>6. \A i, j \in before : i = j
    <3>1. ASSUME NEW i \in before, NEW j \in before, i < j PROVE FALSE
      <4>1. i \in out(j) /\ deliveries[j].status = "SIMULATED" /\ j \in DOMAIN deliveries
        BY <2>4, <3>1
      <4> QED
        BY <4>1 DEF DeliveryInv, DeliveredOnce
    <3>2. before \subseteq Int
      BY <2>4
    <3> QED
      BY <3>1, <3>2
  <2>7. /\ status = "SIMULATED" => before = {}
        /\ status = "DUPLICATE_SUPPRESSED" => before # {}
    BY <2>1, <2>4 DEF DeliveryInv
  <2>8. status = "DUPLICATE_SUPPRESSED" => Cardinality(before) = 1
    <3>1. ASSUME before # {} PROVE Cardinality(before) = 1
      <4>1. PICK i \in before : TRUE
        BY <3>1
      <4>2. before = {i}
        BY <2>6, <4>1
      <4> HIDE DEF before
      <4> QED
        BY <4>2, FS_Singleton
    <3> QED
      BY <2>7, <3>1
  <2>9. DeliveredOnce'
    <3> DEFINE earlier(i) == {j \in 1 .. i - 1 : deliveries'[j].key = deliveries'[i].key
                                                  /\ deliveries'[j].status = "SIMULATED"}
    <3>1. earlier(n) = before
      BY <2>2, <2>3, <2>4
    <3>2. \A i \in DOMAIN deliveries : earlier(i) = out(i)
      <4>1. ASSUME NEW i \in DOMAIN deliveries PROVE earlier(i) = out(i)
        <5>1. i \in Int /\ i <= n - 1 /\ 1 .. i - 1 \subseteq DOMAIN deliveries
          BY <2>4, <4>1
        <5> QED
          BY <2>3, <4>1, <5>1
      <4> QED
        BY <4>1
    <3> SUFFICES ASSUME NEW i \in DOMAIN deliveries'
                 PROVE  /\ deliveries'[i].status = "SIMULATED" => earlier(i) = {}
                        /\ deliveries'[i].status = "DUPLICATE_SUPPRESSED" => Cardinality(earlier(i)) = 1
      BY DEF DeliveredOnce
    <3> HIDE DEF earlier, before
    <3>3. CASE i = n
      BY <2>2, <2>3, <2>7, <2>8, <3>1, <3>3
    <3>4. CASE i \in DOMAIN deliveries
      <4>1. /\ deliveries[i].status = "SIMULATED" => out(i) = {}
            /\ deliveries[i].status = "DUPLICATE_SUPPRESSED" => Cardinality(out(i)) = 1
        BY <3>4 DEF DeliveryInv, DeliveredOnce
      <4> HIDE DEF out
      <4> QED
        BY <2>3, <3>2, <3>4, <4>1
    <3> QED
      BY <2>3, <3>3, <3>4
  <2> QED
    BY <2>3, <2>5, <2>9 DEF DeliveryInv
<1>3. CASE \E b \in Brand, m \in BrandPerson, c \in BrandPerson : publishBrandConfiguration(b, m, c)
  BY <1>1, <1>3 DEF publishBrandConfiguration
<1>4. CASE \E t \in Tenant, s \in Scope, at \in CallTime : authoriseEnterpriseApi(t, s, at)
  BY <1>1, <1>4 DEF authoriseEnterpriseApi
<1>5. CASE Revoke \/ \E state \in {"ACTIVE", "SUSPENDED"} : Suspend(state)
  BY <1>1, <1>5 DEF Revoke, Suspend
<1> QED
  BY <1>1, <1>2, <1>3, <1>4, <1>5 DEF EnterpriseNext, enterpriseVars

-----------------------------------------------------------------------------
\* The four parts keep no state in common; each is inductive by itself.
GovernanceInv == AdaptersInv /\ AssistanceInv /\ ReportInv /\ DeliveryInv

LEMMA GovernanceStart == Init => GovernanceInv
<1> SUFFICES ASSUME Init PROVE GovernanceInv
  OBVIOUS
<1>1. AdaptersInit /\ OversightInit /\ EnterpriseInit
  BY DEF Init
<1>2. AdaptersInv
  BY <1>1, AdaptersStart
<1>3. AssistanceInv
  BY <1>1 DEF OversightInit, AssistanceInv, ConfigurationSound, ShownWasGoverned
<1>4. ReportInv
  BY <1>1, FS_EmptySet DEF OversightInit, ReportInv, CurrentIsActual
<1>5. DeliveryInv
  BY <1>1 DEF EnterpriseInit, DeliveryInv, DeliveredOnce, IsList
<1> QED
  BY <1>2, <1>3, <1>4, <1>5 DEF GovernanceInv

LEMMA GovernanceStep ==
  GovernanceInv /\ [Next]_<<machine, adminVars, demoVars, releaseVars, governanceVars>> => GovernanceInv'
<1>1. [Next]_<<machine, adminVars, demoVars, releaseVars, governanceVars>> =>
        /\ [AdaptersNext]_adapterVars /\ [AiNext]_aiVars /\ [ReportNext]_reportVars
        /\ [EnterpriseNext]_enterpriseVars
  BY DEF Next, AdminNext, DemoNext, ReleaseNext, GovernanceNext, governanceVars
<1> QED
  BY <1>1, AdaptersStep, AssistanceStep, ReportStep, DeliveryStep DEF GovernanceInv

\* Partners are live only with proof (packages/compliance, payments-adapters,
\* integration-adapters, identity); what the assistant shows cites allowed evidence only, under a
\* configuration that somebody but its owner approved with every dimension's last evaluation
\* passed (packages/ai); a report called CURRENT has the ledger's sums, whatever was simulated
\* besides (packages/analytics); of the deliveries under one key at most one went out
\* (packages/enterprise-platform).
THEOREM AlwaysReleasedAsApproved == Spec => []ReleasedAsApproved
<1>1. GovernanceInv => ReleasedAsApproved
  BY DEF GovernanceInv, AdaptersInv, AssistanceInv, ReportInv, DeliveryInv, ReleasedAsApproved,
         ProvenBeforeLive, DefinitionsGovern
<1> QED
  BY <1>1, GovernanceStart, GovernanceStep, PTL DEF Spec

-----------------------------------------------------------------------------
(***************************************************************************)
(* The support cases.                                                      *)
(***************************************************************************)
\* A copy of a case by itself, in anybody's hands: its events are numbered, and whatever its
\* state says was done is among them.
CaseSound(c) ==
  /\ c = [kind |-> c.kind, state |-> c.state, owner |-> c.owner, resolvedBy |-> c.resolvedBy,
          outcomeSent |-> c.outcomeSent, version |-> c.version, events |-> c.events]
  /\ IsList(c.events) /\ c.version = Len(c.events)
  /\ \A i \in DOMAIN c.events : c.events[i].version = i
  /\ c.state = "INVESTIGATING" => \E i \in DOMAIN c.events : c.events[i].action = "INVESTIGATION_STARTED"
  /\ c.state \in {"RESOLVED", "CLOSED"} =>
       /\ \E i, j \in DOMAIN c.events :
            /\ c.events[i].action = "INVESTIGATION_STARTED" /\ c.events[j].action = "RESOLVED"
            /\ i < j /\ c.events[j].by = c.resolvedBy
       /\ c.kind \in {"COMPLAINT", "DATA_CORRECTION"} => SupportAgent[c.resolvedBy] = "CF"
  /\ c.outcomeSent => \E i \in DOMAIN c.events : c.events[i].action = "OUTCOME_SENT"
  /\ c.kind = "COMPLAINT" /\ c.state = "CLOSED" =>
       \E i, j \in DOMAIN c.events :
         c.events[i].action = "OUTCOME_SENT" /\ c.events[j].action = "CLOSED" /\ i < j

\* The stored case and every copy an agent works on are sound: whoever writes writes a whole history.
SupportInv ==
  /\ CaseSound(supportCase)
  /\ working = [a \in DOMAIN SupportAgent |-> working[a]]
  /\ \A a \in DOMAIN SupportAgent : CaseSound(working[a])

\* A step of c leads to d: one event more after all the others.
StepAdds(c, d, state, action, p) ==
  /\ d = [kind |-> c.kind, state |-> state, owner |-> c.owner, resolvedBy |-> c.resolvedBy,
          outcomeSent |-> c.outcomeSent, version |-> d.version, events |-> d.events]
  /\ IsList(d.events) /\ d.version = Len(d.events)
  /\ \A i \in DOMAIN d.events : d.events[i].version = i
  /\ \A i \in DOMAIN c.events : i \in DOMAIN d.events /\ d.events[i] = c.events[i]
  /\ \E n \in DOMAIN d.events :
       /\ d.events[n].action = action /\ d.events[n].by = p
       /\ \A i \in DOMAIN c.events : i < n

\* A copy that is taken one step on has one event more, of that step.
LEMMA CaseStepped ==
  ASSUME NEW c, CaseSound(c), NEW state, NEW action, NEW p
  PROVE  StepAdds(c, Stepped(c, state, action, p), state, action, p)
<1> DEFINE d == Stepped(c, state, action, p)
           new == [action |-> action, by |-> p, version |-> c.version + 1]
<1>1. d = [kind |-> c.kind, state |-> state, owner |-> c.owner, resolvedBy |-> c.resolvedBy,
           outcomeSent |-> c.outcomeSent, version |-> c.version + 1, events |-> Append(c.events, new)]
  <2>1. c = [kind |-> c.kind, state |-> c.state, owner |-> c.owner, resolvedBy |-> c.resolvedBy,
             outcomeSent |-> c.outcomeSent, version |-> c.version, events |-> c.events]
    BY DEF CaseSound
  <2>2. d = [c EXCEPT !.state = state, !.version = @ + 1, !.events = Append(@, new)]
    BY Zenon DEF Stepped
  <2> HIDE DEF d, new
  <2> QED
    BY ONLY <2>1, <2>2
<1>2. d.version = c.version + 1 /\ d.events = Append(c.events, new)
  BY <1>1
<1>3. new.action = action /\ new.by = p /\ new.version = Len(c.events) + 1
  BY DEF CaseSound
<1>4. d = [kind |-> c.kind, state |-> state, owner |-> c.owner, resolvedBy |-> c.resolvedBy,
           outcomeSent |-> c.outcomeSent, version |-> d.version, events |-> d.events]
  BY <1>1, <1>2
<1>5. DOMAIN c.events = 1 .. Len(c.events) /\ Len(c.events) \in Nat
  BY DEF CaseSound, IsList
<1> HIDE DEF new, d
<1>6. /\ IsList(d.events) /\ DOMAIN d.events = DOMAIN c.events \cup {Len(c.events) + 1}
      /\ \A i \in DOMAIN c.events : d.events[i] = c.events[i]
      /\ d.events[Len(c.events) + 1] = new
  BY <1>2, AppendIsList DEF CaseSound
<1>7. Len(d.events) = Len(c.events) + 1
  BY <1>2, <1>6 DEF CaseSound, IsList
<1>8. d.version = Len(d.events) /\ \A i \in DOMAIN d.events : d.events[i].version = i
  BY <1>2, <1>3, <1>6, <1>7 DEF CaseSound
<1>9. \E n \in DOMAIN d.events :
        /\ d.events[n].action = action /\ d.events[n].by = p
        /\ \A i \in DOMAIN c.events : i < n
  BY <1>3, <1>5, <1>6
<1>10. StepAdds(c, d, state, action, p)
  BY <1>4, <1>6, <1>8, <1>9 DEF StepAdds
<1> QED
  BY <1>10 DEF d

\* Whoever steps a copy stores a case that is sound.
LEMMA CaseAdvanced ==
  ASSUME NEW c, CaseSound(c), NEW p \in DOMAIN SupportAgent
  PROVE  /\ c.state = "OPEN" => \A owner : CaseSound([Stepped(c, "ASSIGNED", "ASSIGNED", p) EXCEPT !.owner = owner])
         /\ CaseSound(Stepped(c, "INVESTIGATING", "INVESTIGATION_STARTED", p))
         /\ c.state = "INVESTIGATING" /\ MayResolve(c.kind, p) =>
              CaseSound([Stepped(c, "RESOLVED", "RESOLVED", p) EXCEPT !.resolvedBy = p])
         /\ c.state = "RESOLVED" =>
              CaseSound([Stepped(c, "RESOLVED", "OUTCOME_SENT", p) EXCEPT !.outcomeSent = TRUE])
         /\ c.state = "RESOLVED" /\ (c.kind = "COMPLAINT" => c.outcomeSent) =>
              CaseSound(Stepped(c, "CLOSED", "CLOSED", p))
<1>1. ASSUME c.state = "OPEN", NEW owner
      PROVE  CaseSound([Stepped(c, "ASSIGNED", "ASSIGNED", p) EXCEPT !.owner = owner])
  <2> DEFINE d == Stepped(c, "ASSIGNED", "ASSIGNED", p)
             e == [d EXCEPT !.owner = owner]
  <2>1. StepAdds(c, d, "ASSIGNED", "ASSIGNED", p)
    BY CaseStepped
  <2> HIDE DEF d
  <2>2. e = [kind |-> c.kind, state |-> "ASSIGNED", owner |-> owner, resolvedBy |-> c.resolvedBy,
             outcomeSent |-> c.outcomeSent, version |-> d.version, events |-> d.events]
    BY <2>1 DEF StepAdds
  <2> HIDE DEF e
  <2>3. CaseSound(e)
    BY <2>1, <2>2 DEF CaseSound, StepAdds
  <2> QED
    BY <2>3 DEF d, e
<1>2. CaseSound(Stepped(c, "INVESTIGATING", "INVESTIGATION_STARTED", p))
  <2> DEFINE d == Stepped(c, "INVESTIGATING", "INVESTIGATION_STARTED", p)
  <2>1. StepAdds(c, d, "INVESTIGATING", "INVESTIGATION_STARTED", p)
    BY CaseStepped
  <2> HIDE DEF d
  <2>2. CaseSound(d)
    BY <2>1 DEF CaseSound, StepAdds
  <2> QED
    BY <2>2 DEF d
<1>3. ASSUME c.state = "INVESTIGATING", MayResolve(c.kind, p)
      PROVE  CaseSound([Stepped(c, "RESOLVED", "RESOLVED", p) EXCEPT !.resolvedBy = p])
  <2> DEFINE d == Stepped(c, "RESOLVED", "RESOLVED", p)
             e == [d EXCEPT !.resolvedBy = p]
  <2>1. StepAdds(c, d, "RESOLVED", "RESOLVED", p)
    BY CaseStepped
  <2> HIDE DEF d
  <2>2. e = [kind |-> c.kind, state |-> "RESOLVED", owner |-> c.owner, resolvedBy |-> p,
             outcomeSent |-> c.outcomeSent, version |-> d.version, events |-> d.events]
    BY <2>1 DEF StepAdds
  <2>3. \E i, j \in DOMAIN d.events :
          /\ d.events[i].action = "INVESTIGATION_STARTED" /\ d.events[j].action = "RESOLVED"
          /\ i < j /\ d.events[j].by = p
    BY <1>3, <2>1 DEF CaseSound, StepAdds
  <2> HIDE DEF e
  <2>4. CaseSound(e)
    BY <1>3, <2>1, <2>2, <2>3 DEF CaseSound, StepAdds, MayResolve
  <2> QED
    BY <2>4 DEF d, e
<1>4. ASSUME c.state = "RESOLVED"
      PROVE  CaseSound([Stepped(c, "RESOLVED", "OUTCOME_SENT", p) EXCEPT !.outcomeSent = TRUE])
  <2> DEFINE d == Stepped(c, "RESOLVED", "OUTCOME_SENT", p)
  <2>1. PICK yes : yes = TRUE
    OBVIOUS
  <2> DEFINE e == [d EXCEPT !.outcomeSent = yes]
  <2>2. StepAdds(c, d, "RESOLVED", "OUTCOME_SENT", p)
    BY CaseStepped
  <2> HIDE DEF d
  <2>3. e = [kind |-> c.kind, state |-> "RESOLVED", owner |-> c.owner, resolvedBy |-> c.resolvedBy,
             outcomeSent |-> yes, version |-> d.version, events |-> d.events]
    BY <2>2 DEF StepAdds
  <2>4. \E i, j \in DOMAIN d.events :
          /\ d.events[i].action = "INVESTIGATION_STARTED" /\ d.events[j].action = "RESOLVED"
          /\ i < j /\ d.events[j].by = c.resolvedBy
    BY <1>4, <2>2 DEF CaseSound, StepAdds
  <2> HIDE DEF e
  <2>5. CaseSound(e)
    BY <1>4, <2>2, <2>3, <2>4 DEF CaseSound, StepAdds
  <2> QED
    BY <2>1, <2>5, Zenon DEF d, e
<1>5. ASSUME c.state = "RESOLVED", c.kind = "COMPLAINT" => c.outcomeSent
      PROVE  CaseSound(Stepped(c, "CLOSED", "CLOSED", p))
  <2> DEFINE d == Stepped(c, "CLOSED", "CLOSED", p)
  <2>1. StepAdds(c, d, "CLOSED", "CLOSED", p)
    BY CaseStepped
  <2> HIDE DEF d
  <2>2. \E i, j \in DOMAIN d.events :
          /\ d.events[i].action = "INVESTIGATION_STARTED" /\ d.events[j].action = "RESOLVED"
          /\ i < j /\ d.events[j].by = c.resolvedBy
    BY <1>5, <2>1 DEF CaseSound, StepAdds
  <2>3. c.kind = "COMPLAINT" =>
          \E i, j \in DOMAIN d.events :
            d.events[i].action = "OUTCOME_SENT" /\ d.events[j].action = "CLOSED" /\ i < j
    BY <1>5, <2>1 DEF CaseSound, StepAdds
  <2>4. CaseSound(d)
    BY <1>5, <2>1, <2>2, <2>3 DEF CaseSound, StepAdds
  <2> QED
    BY <2>4 DEF d
<1> QED
  BY <1>1, <1>2, <1>3, <1>4, <1>5

LEMMA SupportStart == SupportInit => SupportInv
<1> SUFFICES ASSUME SupportInit PROVE SupportInv
  OBVIOUS
<1>1. PICK kind \in SupportKind, a \in DOMAIN SupportAgent : supportCase = openSupportCase(kind, a)
  BY DEF SupportInit
<1>2. CaseSound(supportCase)
  BY <1>1 DEF CaseSound, openSupportCase, IsList
<1> QED
  BY <1>2 DEF SupportInit, SupportInv

LEMMA SupportStep ==
  ASSUME SupportInv, [SupportNext]_supportVars
  PROVE  SupportInv'
<1>1. CASE UNCHANGED <<supportCase, working>>
  BY <1>1 DEF SupportInv
<1>2. ASSUME NEW a \in DOMAIN SupportAgent, NEW c, CaseSound(c), supportCase' = c,
             working' = [working EXCEPT ![a] = c]
      PROVE  SupportInv'
  BY <1>2 DEF SupportInv
<1>3. ASSUME NEW a \in DOMAIN SupportAgent, Read(a) PROVE SupportInv'
  BY <1>2, <1>3 DEF Read, SupportInv
<1>4. ASSUME NEW a \in DOMAIN SupportAgent, closeSupportCase(a) PROVE SupportInv'
  BY <1>2, <1>4, CaseAdvanced DEF closeSupportCase, Store, SupportInv
<1>5. ASSUME NEW a \in DOMAIN SupportAgent, NEW o \in DOMAIN SupportAgent, assignSupportCase(a, o)
      PROVE  SupportInv'
  BY <1>2, <1>5, CaseAdvanced DEF assignSupportCase, Store, SupportInv
<1>6. ASSUME NEW a \in DOMAIN SupportAgent, NEW e \in BOOLEAN, startInvestigation(a, e) PROVE SupportInv'
  BY <1>2, <1>6, CaseAdvanced DEF startInvestigation, Store, SupportInv
<1>7. ASSUME NEW a \in DOMAIN SupportAgent, NEW e \in BOOLEAN, resolveSupportCase(a, e) PROVE SupportInv'
  BY <1>2, <1>7, CaseAdvanced DEF resolveSupportCase, Store, SupportInv
<1>8. ASSUME NEW a \in DOMAIN SupportAgent, NEW e \in BOOLEAN, recordComplaintOutcome(a, e)
      PROVE  SupportInv'
  <2> DEFINE c == [Stepped(working[a], "RESOLVED", "OUTCOME_SENT", a) EXCEPT !.outcomeSent = TRUE]
  <2>1. supportCase' = c /\ working' = [working EXCEPT ![a] = c] /\ working[a].state = "RESOLVED"
    BY <1>8, Zenon DEF recordComplaintOutcome, Store
  <2>2. CaseSound(c)
    BY <2>1, CaseAdvanced, Zenon DEF SupportInv
  <2> HIDE DEF c
  <2> QED
    BY <1>2, <2>1, <2>2
<1> QED
  BY <1>1, <1>3, <1>4, <1>5, <1>6, <1>7, <1>8 DEF SupportNext, SupportTick, supportVars

LEMMA SupportExplains == SupportInv => SupportHistoriesExplain
<1> SUFFICES ASSUME SupportInv PROVE SupportHistoriesExplain
  OBVIOUS
<1>1. CaseSound(supportCase)
  BY DEF SupportInv
<1>2. supportTime > SupportDue => supportCaseSla(supportCase) \in {"BREACHED", "COMPLETE"}
  BY DEF supportCaseSla
<1> QED
  BY <1>1, <1>2 DEF CaseSound, SupportHistoriesExplain, Did

-----------------------------------------------------------------------------
(***************************************************************************)
(* The audit timeline and the inboxes.                                     *)
(***************************************************************************)
\* The trail holds events of the change and the foreign one only.
TrailInv ==
  /\ trail = [events |-> trail.events, twice |-> trail.twice]
  /\ trail.events \subseteq auditTimeline \cup {ForeignEvent}

\* What each event of the change stands on.
LEMMA TimelineFacts ==
  \A e \in auditTimeline \cup {ForeignEvent} :
    /\ e.outcome = "VERIFIED" => e.causation = "04"
    /\ e.id = "04" => e.outcome = "EXECUTED" /\ e.causation = "03"
    /\ e.id = "03" => /\ e.outcome = "APPROVED" /\ e.assurance = "step-up" /\ e.causation = "02"
                      /\ e.actor = "principal-platform-checker"
    /\ e.id = "02" => e.outcome = "ALLOWED" /\ e.causation = "01"
    /\ e.id = "01" => e.outcome = "REQUESTED" /\ e.actor = "principal-data"
BY DEF auditTimeline, governedActionAuditChain, exceptionalAuditEvents, ForeignEvent, Recorded

LEMMA TrailStep ==
  ASSUME TrailInv, [TrailNext]_trailVars
  PROVE  TrailInv'
<1>1. CASE UNCHANGED trailVars
  BY <1>1 DEF trailVars, TrailInv
<1>2. CASE TrailNext
  <2>1. PICK e \in auditTimeline \cup {ForeignEvent} :
          trail' = [events |-> trail.events \cup {e}, twice |-> trail.twice \/ e \in trail.events]
    BY <1>2 DEF TrailNext
  <2>2. PICK again : again = (trail.twice \/ e \in trail.events)
    OBVIOUS
  <2>3. trail' = [events |-> trail.events \cup {e}, twice |-> again]
    BY <2>1, <2>2, Zenon
  <2> QED
    BY <2>3 DEF TrailInv
<1> QED
  BY <1>1, <1>2

LEMMA TrailProven == TrailInv => SummariesAreProven
<1> SUFFICES ASSUME TrailInv, validateAuditTimeline(trail.events, trail.twice)
             PROVE  /\ summariseAuditChain(trail.events) = "SUPPORTED" =>
                         /\ {"REQUESTED", "ALLOWED", "EXECUTED"} \subseteq Outcomes(trail.events)
                         /\ \E a, r \in trail.events :
                              /\ a.outcome = "APPROVED" /\ a.assurance = "step-up"
                              /\ r.outcome = "REQUESTED" /\ a.actor # r.actor
                    /\ createSimulatedAuditExport(trail.events, "org-fuelcap-global") \in {trail.events, {}}
  BY DEF SummariesAreProven
<1> DEFINE events == trail.events
<1>1. /\ \A e, f \in events : e.organisation = f.organisation
      /\ \A e \in events : e.causation = "none" \/ \E c \in events : c.id = e.causation
  BY DEF validateAuditTimeline, Caused
<1>2. createSimulatedAuditExport(events, "org-fuelcap-global") \in {events, {}}
  BY <1>1 DEF createSimulatedAuditExport, eventsForOrganisation
<1>3. ASSUME summariseAuditChain(events) = "SUPPORTED"
      PROVE  /\ {"REQUESTED", "ALLOWED", "EXECUTED"} \subseteq Outcomes(events)
             /\ \E a, r \in events :
                  /\ a.outcome = "APPROVED" /\ a.assurance = "step-up"
                  /\ r.outcome = "REQUESTED" /\ a.actor # r.actor
  <2>1. PICK e5 \in events : e5.outcome = "VERIFIED"
    BY <1>3 DEF summariseAuditChain, Outcomes
  <2>2. PICK e4 \in events : e4.id = "04"
    BY <1>1, <2>1, TimelineFacts DEF TrailInv
  <2>3. e4.outcome = "EXECUTED" /\ \E c \in events : c.id = "03"
    BY <1>1, <2>2, TimelineFacts DEF TrailInv
  <2>4. PICK e3 \in events : e3.id = "03"
    BY <2>3
  <2>5. /\ e3.outcome = "APPROVED" /\ e3.assurance = "step-up" /\ e3.actor = "principal-platform-checker"
        /\ \E c \in events : c.id = "02"
    BY <1>1, <2>4, TimelineFacts DEF TrailInv
  <2>6. PICK e2 \in events : e2.id = "02"
    BY <2>5
  <2>7. e2.outcome = "ALLOWED" /\ \E c \in events : c.id = "01"
    BY <1>1, <2>6, TimelineFacts DEF TrailInv
  <2>8. PICK e1 \in events : e1.id = "01"
    BY <2>7
  <2>9. e1.outcome = "REQUESTED" /\ e1.actor = "principal-data"
    BY <2>8, TimelineFacts DEF TrailInv
  <2> QED
    BY <2>3, <2>5, <2>7, <2>9 DEF Outcomes
<1> QED
  BY <1>2, <1>3

\* Counters count what the inboxes and the outbox hold, and the replayed journal is one.
InboxInv ==
  /\ inbox = [seen |-> inbox.seen, journals |-> inbox.journals, postings |-> inbox.postings,
              queue |-> inbox.queue, queued |-> inbox.queued, keys |-> inbox.keys, processed |-> inbox.processed]
  /\ inbox.journals \subseteq {"replay"}
  /\ IsFiniteSet(inbox.queue) /\ IsFiniteSet(inbox.keys)
  /\ inbox.postings = Cardinality(inbox.journals)
  /\ inbox.queued = Cardinality(inbox.queue) /\ inbox.processed = Cardinality(inbox.keys)

LEMMA InboxStep ==
  ASSUME InboxInv, [InboxNext]_inboxVars
  PROVE  InboxInv'
<1>1. CASE UNCHANGED inboxVars
  BY <1>1 DEF inboxVars, InboxInv
<1>2. ASSUME NEW name, replayEvent(name) PROVE InboxInv'
  <2>1. CASE inbox.journals = {}
    <3>1. inbox' = [seen |-> inbox.seen \cup {name}, journals |-> {"replay"}, postings |-> inbox.postings + 1,
                    queue |-> inbox.queue, queued |-> inbox.queued, keys |-> inbox.keys,
                    processed |-> inbox.processed]
      BY <1>2, <2>1 DEF replayEvent, Unposted, InboxInv
    <3>2. Cardinality({"replay"}) = 1 /\ inbox.postings = 0
      BY <2>1, FS_EmptySet, FS_Singleton DEF InboxInv
    <3> QED
      BY <3>1, <3>2 DEF InboxInv
  <2>2. CASE inbox.journals = {"replay"}
    BY <1>2, <2>2 DEF replayEvent, Unposted, InboxInv
  <2> QED
    BY <2>1, <2>2 DEF InboxInv
<1>3. ASSUME NEW key, enqueueCommunication(key) PROVE InboxInv'
  <2>1. /\ IsFiniteSet(inbox.queue \cup {key})
        /\ Cardinality(inbox.queue \cup {key}) = Cardinality(inbox.queue) + 1
    BY <1>3, FS_AddElement DEF enqueueCommunication, InboxInv
  <2> QED
    BY <1>3, <2>1 DEF enqueueCommunication, InboxInv
<1>4. ASSUME NEW event, processProviderEvent(event) PROVE InboxInv'
  <2>1. /\ IsFiniteSet(inbox.keys \cup {event.key})
        /\ Cardinality(inbox.keys \cup {event.key}) = Cardinality(inbox.keys) + 1
    BY <1>4, FS_AddElement DEF processProviderEvent, InboxInv
  <2> QED
    BY <1>4, <2>1 DEF processProviderEvent, InboxInv
<1> QED
  BY <1>1, <1>2, <1>3, <1>4 DEF InboxNext

LEMMA InboxCounts == InboxInv => RepeatsCountOnce
<1> SUFFICES ASSUME InboxInv PROVE RepeatsCountOnce
  OBVIOUS
<1>1. inbox.journals = {} \/ inbox.journals = {"replay"}
  BY DEF InboxInv
<1>2. Cardinality({}) = 0 /\ Cardinality({"replay"}) = 1
  BY FS_EmptySet, FS_Singleton
<1>3. Cardinality(inbox.journals) \in {0, 1}
  BY <1>1, <1>2, Zenon
<1> QED
  BY <1>3 DEF InboxInv, RepeatsCountOnce

LEMMA TrailAndInboxStart == TrailInit /\ InboxInit => TrailInv /\ InboxInv
<1>1. Cardinality({}) = 0 /\ IsFiniteSet({})
  BY FS_EmptySet
<1>2. TrailInit => TrailInv
  <2> SUFFICES ASSUME TrailInit PROVE TrailInv
    OBVIOUS
  <2>1. PICK no : no = FALSE
    OBVIOUS
  <2>2. trail = [events |-> {}, twice |-> no]
    BY <2>1, Zenon DEF TrailInit
  <2> QED
    BY <2>2 DEF TrailInv
<1> QED
  BY <1>1, <1>2 DEF InboxInit, InboxInv

-----------------------------------------------------------------------------
(***************************************************************************)
(* The control of the customer price.                                      *)
(***************************************************************************)
\* The fields of a snapshot and of the bridge, whatever they hold.
IsSnapshot(s) ==
  s = [sequence |-> s.sequence, state |-> s.state, displayUnitPrice |-> s.displayUnitPrice,
       quoteAvailability |-> s.quoteAvailability, audit |-> s.audit]

IsBridge(b) ==
  b = [shown |-> b.shown, busy |-> b.busy, answer |-> b.answer, first |-> b.first, firstAnswer |-> b.firstAnswer]

\* The command under way is one of the presenter's.
BusySound(busy) ==
  /\ busy = [command |-> busy.command, key |-> busy.key, presenter |-> busy.presenter, answered |-> busy.answered]
  /\ busy # NoCommand => busy.command \in Commands

\* The state a command leads to.
Stated(command) ==
  IF command = "RESET_BASELINE" THEN "BASELINE"
  ELSE IF command = "PUBLISH_PRICE_RISE" THEN "PRICE_RISE_PUBLISHED" ELSE "NEW_QUOTES_WITHDRAWN"

\* The events of a list are numbered up to sequence, without a gap, and are of presenters and
\* risk managers, each with a key of its own.
AuditSound(list, sequence) ==
  /\ IsList(list) /\ sequence \in Nat
  /\ sequence = 0 <=> list = <<>>
  /\ \A i \in DOMAIN list :
       /\ list[i].sequence = sequence - Len(list) + i
       /\ list[i].role \in {"DP", "RT"}
       /\ \A j \in DOMAIN list : list[j].eventId = list[i].eventId => i = j

\* The last event that set a price set the price shown.
PriceSound(list, price) ==
  \A i \in DOMAIN list :
    /\ list[i].command # "WITHDRAW_NEW_QUOTES"
    /\ \A j \in DOMAIN list : list[j].command # "WITHDRAW_NEW_QUOTES" => j <= i
    => (price = 367 <=> list[i].command = "PUBLISH_PRICE_RISE")

\* A snapshot is what the last of its events made it, though the audit keeps only the last few.
SnapshotSound(s) ==
  /\ IsSnapshot(s)
  /\ AuditSound(s.audit, s.sequence)
  /\ Len(s.audit) > 0 => s.state = Stated(s.audit[Len(s.audit)].command)
  /\ s.quoteAvailability = "PAUSED" <=> s.state = "NEW_QUOTES_WITHDRAWN"
  /\ PriceSound(s.audit, s.displayUnitPrice)

\* The server's snapshot is sound, and a command under way is one there is.
ControlInv == SnapshotSound(snapshot) /\ IsBridge(bridge) /\ BusySound(bridge.busy)

\* kept is the end of list.
EndOf(kept, list) ==
  /\ IsList(kept) /\ Len(kept) \in 1 .. Len(list) /\ DOMAIN kept = 1 .. Len(kept)
  /\ \A i \in 1 .. Len(kept) : kept[i] = list[Len(list) - Len(kept) + i]

\* What is kept of a list is its end.
LEMMA KeptEnd ==
  ASSUME NEW list, IsList(list), Len(list) > 0
  PROVE  EndOf(LastEvents(list), list)
<1> DEFINE from == Len(list) - AuditKept + 1
           tail == SubSeq(list, from, Len(list))
           Elements == {list[i] : i \in DOMAIN list}
<1>1. Len(list) \in Nat /\ list \in Seq(Elements) /\ AuditKept \in Nat \ {0}
  BY DemoAssumption DEF IsList
<1>2. CASE Len(list) <= AuditKept
  <2>1. LastEvents(list) = list
    BY <1>2 DEF LastEvents
  <2>2. EndOf(list, list)
    <3>1. DOMAIN list = 1 .. Len(list) /\ Len(list) \in 1 .. Len(list)
      BY <1>1
    <3>2. \A i \in 1 .. Len(list) : Len(list) - Len(list) + i = i
      BY <1>1
    <3> QED
      BY <3>1, <3>2 DEF EndOf
  <2> QED
    BY <2>1, <2>2
<1>3. CASE ~(Len(list) <= AuditKept)
  <2>1. from \in 1 .. Len(list) /\ Len(list) - from + 1 = AuditKept /\ from \in Int /\ Len(list) \in Int
    BY <1>1, <1>3
  <2>2. LastEvents(list) = tail
    BY <1>3 DEF LastEvents
  <2>3. \A i \in from .. Len(list) : list[i] \in Elements
    BY <1>1, <2>1
  <2> HIDE DEF from, Elements
  <2>4. /\ tail \in Seq(Elements)
        /\ Len(tail) = IF from <= Len(list) THEN Len(list) - from + 1 ELSE 0
        /\ \A i \in 1 .. Len(list) - from + 1 : tail[i] = list[from + i - 1]
    BY <2>1, <2>3, SubSeqProperties
  <2>5. Len(tail) = AuditKept
    BY <2>1, <2>4
  <2> HIDE DEF tail
  <2>6. DOMAIN tail = 1 .. AuditKept
    BY <2>4, <2>5
  <2>7. \A i \in 1 .. AuditKept : from + i - 1 = Len(list) - AuditKept + i
    BY <1>1, <2>1 DEF from
  <2>8. tail \in Seq({tail[i] : i \in DOMAIN tail})
    BY <2>4, <2>6, <1>1
  <2>9. IsList(tail)
    BY <1>1, <2>5, <2>8 DEF IsList
  <2>10. \A i \in 1 .. AuditKept : tail[i] = list[Len(list) - AuditKept + i]
    BY <2>1, <2>4, <2>7
  <2>11. AuditKept \in 1 .. Len(list)
    BY <1>1, <1>3
  <2>12. EndOf(tail, list)
    BY <2>5, <2>6, <2>9, <2>10, <2>11 DEF EndOf
  <2> QED
    BY <2>2, <2>12
<1> QED
  BY <1>2, <1>3

\* A command that is taken up for the first time leaves the snapshot sound.
LEMMA CommandApplied ==
  ASSUME SnapshotSound(snapshot), NEW command \in Commands, NEW key, ~Duplicate(key), NEW actor,
         NEW role \in {"DP", "RT"}
  PROVE  SnapshotSound(applyDemoControlCommand(command, key, actor, role))
<1> DEFINE s == snapshot
           audit0 == s.audit
           n == Len(audit0)
           event == [eventId |-> key, command |-> command, actorId |-> actor, role |-> role,
                     sequence |-> s.sequence + 1]
           t == Append(audit0, event)
           kept == LastEvents(t)
           m == Len(kept)
           price == IF command = "RESET_BASELINE" THEN 342
                    ELSE IF command = "PUBLISH_PRICE_RISE" THEN 367 ELSE s.displayUnitPrice
           quote == IF command = "WITHDRAW_NEW_QUOTES" THEN "PAUSED" ELSE "AVAILABLE"
           new == applyDemoControlCommand(command, key, actor, role)
<1>1. new = [sequence |-> s.sequence + 1, state |-> Stated(command), displayUnitPrice |-> price,
             quoteAvailability |-> quote, audit |-> kept]
  <2>1. projection(s, command) =
          [sequence |-> s.sequence, state |-> Stated(command), displayUnitPrice |-> price,
           quoteAvailability |-> quote, audit |-> s.audit]
    <3>1. s = [sequence |-> s.sequence, state |-> s.state, displayUnitPrice |-> s.displayUnitPrice,
               quoteAvailability |-> s.quoteAvailability, audit |-> s.audit]
      BY DEF SnapshotSound, IsSnapshot
    <3> HIDE DEF s
    <3> QED
      BY <3>1 DEF projection, Stated, Commands
  <2>2. new = [projection(s, command) EXCEPT !.sequence = @ + 1, !.audit = LastEvents(Append(@, event))]
    BY Zenon DEF applyDemoControlCommand
  <2> DEFINE before == projection(s, command)
             after == LastEvents(Append(audit0, event))
  <2>3. before.sequence = s.sequence /\ before.audit = audit0
    BY <2>1
  <2>4. new = [before EXCEPT !.sequence = s.sequence + 1, !.audit = after]
    BY <2>2, <2>3, Zenon
  <2>5. after = kept
    OBVIOUS
  <2> HIDE DEF new, event, price, quote, s, before, after, audit0, t, kept
  <2>6. before = [sequence |-> s.sequence, state |-> Stated(command), displayUnitPrice |-> price,
                  quoteAvailability |-> quote, audit |-> s.audit]
    BY <2>1 DEF before
  <2> QED
    BY ONLY <2>4, <2>5, <2>6
<1>2. /\ event.eventId = key /\ event.command = command /\ event.role = role /\ event.sequence = s.sequence + 1
  OBVIOUS
<1>3. n \in Nat /\ IsList(audit0) /\ DOMAIN audit0 = 1 .. n /\ s.sequence \in Nat
  BY DEF SnapshotSound, AuditSound, IsList
<1>4. /\ price = 342 <=> (command = "RESET_BASELINE" \/ (command = "WITHDRAW_NEW_QUOTES" /\ s.displayUnitPrice = 342))
      /\ command = "PUBLISH_PRICE_RISE" => price = 367
      /\ command = "RESET_BASELINE" => price # 367
      /\ command = "WITHDRAW_NEW_QUOTES" => price = s.displayUnitPrice
      /\ quote = "PAUSED" <=> Stated(command) = "NEW_QUOTES_WITHDRAWN"
  BY DEF Stated, Commands
<1> HIDE DEF event, price, quote
<1>5. /\ IsList(t) /\ DOMAIN t = 1 .. n + 1 /\ Len(t) = n + 1
      /\ \A i \in 1 .. n : t[i] = audit0[i]
      /\ t[n + 1] = event
  <2>1. /\ IsList(t) /\ DOMAIN t = DOMAIN audit0 \cup {n + 1}
        /\ \A i \in DOMAIN audit0 : t[i] = audit0[i]
        /\ t[n + 1] = event
    BY <1>3, AppendIsList
  <2>2. Len(t) = n + 1
    BY <1>3 DEF IsList
  <2> QED
    BY <1>3, <2>1, <2>2
<1> HIDE DEF t
<1>6. /\ IsList(kept) /\ m \in 1 .. n + 1
      /\ \A i \in 1 .. m : kept[i] = t[n + 1 - m + i]
  <2>1. Len(t) > 0
    BY <1>3, <1>5
  <2>2. EndOf(kept, t)
    BY <1>5, <2>1, KeptEnd
  <2> QED
    BY <1>5, <2>2 DEF EndOf
<1>7. DOMAIN kept = 1 .. m
  BY <1>6 DEF IsList
<1> HIDE DEF kept, m, new, n
<1>8. new.audit = kept /\ new.sequence = s.sequence + 1 /\ new.state = Stated(command)
      /\ new.displayUnitPrice = price /\ new.quoteAvailability = quote /\ IsSnapshot(new)
  BY <1>1 DEF IsSnapshot
<1>9. \A i \in 1 .. n + 1 :
        /\ t[i].sequence = s.sequence - n + i /\ t[i].role \in {"DP", "RT"}
        /\ \A j \in 1 .. n + 1 : t[j].eventId = t[i].eventId => i = j
  <2>1. \A i \in 1 .. n :
          /\ audit0[i].sequence = s.sequence - n + i /\ audit0[i].role \in {"DP", "RT"}
          /\ \A j \in 1 .. n : audit0[j].eventId = audit0[i].eventId => i = j
          /\ audit0[i].eventId # key
    BY <1>3 DEF SnapshotSound, AuditSound, Duplicate, n
  <2>2. \A i \in 1 .. n + 1 : i \in 1 .. n \/ i = n + 1
    BY <1>3
  <2>3. t[n + 1].sequence = s.sequence - n + (n + 1) /\ t[n + 1].role \in {"DP", "RT"} /\ t[n + 1].eventId = key
    BY <1>2, <1>3, <1>5
  <2> QED
    BY <1>5, <2>1, <2>2, <2>3
<1>10. AuditSound(kept, s.sequence + 1)
  <2>1. kept # <<>> /\ s.sequence + 1 # 0 /\ s.sequence + 1 \in Nat
    BY <1>3, <1>6, <1>7
  <2>2. ASSUME NEW i \in 1 .. m
        PROVE  /\ kept[i].sequence = s.sequence + 1 - m + i
               /\ kept[i].role \in {"DP", "RT"}
               /\ \A j \in 1 .. m : kept[j].eventId = kept[i].eventId => i = j
    <3>1. \A k \in 1 .. m : n + 1 - m + k \in 1 .. n + 1
      BY <1>3, <1>6
    <3>2. kept[i].sequence = s.sequence - n + (n + 1 - m + i)
      BY <1>6, <1>9, <3>1
    <3>3. s.sequence - n + (n + 1 - m + i) = s.sequence + 1 - m + i
      BY <1>3, <1>6
    <3>4. ASSUME NEW j \in 1 .. m, kept[j].eventId = kept[i].eventId PROVE i = j
      <4>1. n + 1 - m + i = n + 1 - m + j
        BY <1>6, <1>9, <3>1, <3>4
      <4> QED
        BY <1>3, <1>6, <4>1
    <3> QED
      BY <1>6, <1>9, <3>1, <3>2, <3>3, <3>4
  <2>3. Len(kept) = m
    BY DEF m
  <2> DEFINE q == s.sequence + 1
  <2>4. q # 0 /\ q \in Nat /\ kept # <<>>
    BY <2>1
  <2>5. \A i \in DOMAIN kept :
          /\ kept[i].sequence = q - Len(kept) + i /\ kept[i].role \in {"DP", "RT"}
          /\ \A j \in DOMAIN kept : kept[j].eventId = kept[i].eventId => i = j
    <3>1. \A i \in 1 .. m : s.sequence + 1 - m + i = q - m + i
      BY <1>3, <1>6
    <3> HIDE DEF q
    <3> QED
      BY <1>7, <2>2, <2>3, <3>1
  <2> HIDE DEF q
  <2>6. AuditSound(kept, q)
    BY ONLY <1>6, <2>4, <2>5 DEF AuditSound
  <2> QED
    BY <2>6 DEF q
<1>11. kept[m] = event /\ m \in 1 .. m
  <2>1. n + 1 - m + m = n + 1 /\ m \in 1 .. m
    BY <1>3, <1>6
  <2> QED
    BY <1>5, <1>6, <2>1
<1>12. PriceSound(kept, price)
  <2> SUFFICES ASSUME NEW i \in 1 .. m, kept[i].command # "WITHDRAW_NEW_QUOTES",
                      \A j \in 1 .. m : kept[j].command # "WITHDRAW_NEW_QUOTES" => j <= i
               PROVE  price = 367 <=> kept[i].command = "PUBLISH_PRICE_RISE"
    BY <1>7 DEF PriceSound
  <2>1. CASE command # "WITHDRAW_NEW_QUOTES"
    <3>1. m <= i
      BY <1>2, <1>11, <2>1
    <3>2. i = m
      BY <1>6, <3>1
    <3> QED
      BY <1>2, <1>4, <1>11, <2>1, <3>2 DEF Commands
  <2>2. CASE command = "WITHDRAW_NEW_QUOTES"
    <3> DEFINE k == n + 1 - m + i
    <3>1. i # m /\ i < m
      BY <1>2, <1>6, <1>11, <2>2
    <3>2. k \in 1 .. n /\ kept[i] = audit0[k]
      <4>1. k \in 1 .. n
        BY <1>3, <1>6, <3>1
      <4> QED
        BY <1>5, <1>6, <4>1
    <3>3. ASSUME NEW j \in 1 .. n, audit0[j].command # "WITHDRAW_NEW_QUOTES" PROVE j <= k
      <4>1. CASE j <= n + 1 - m
        BY <1>3, <1>6, <4>1
      <4>2. CASE j > n + 1 - m
        <5> DEFINE l == j - (n + 1 - m)
        <5>1. l \in 1 .. m /\ n + 1 - m + l = j
          BY <1>3, <1>6, <4>2
        <5>2. kept[l] = audit0[j]
          BY <1>5, <1>6, <5>1
        <5>3. l <= i
          BY <3>3, <5>1, <5>2
        <5> QED
          BY <1>3, <1>6, <5>3
      <4> QED
        BY <1>3, <1>6, <4>1, <4>2
    <3>4. s.displayUnitPrice = 367 <=> audit0[k].command = "PUBLISH_PRICE_RISE"
      BY <1>3, <3>2, <3>3 DEF SnapshotSound, PriceSound
    <3> QED
      BY <1>4, <2>2, <3>2, <3>4
  <2> QED
    BY <2>1, <2>2
<1>13. new.state = Stated(kept[m].command)
  BY <1>2, <1>8, <1>11
<1> HIDE DEF s
<1>14. SnapshotSound(new)
  BY <1>4, <1>8, <1>10, <1>12, <1>13 DEF SnapshotSound, m
<1> QED
  BY <1>14 DEF new

LEMMA InitialSound == SnapshotSound(initialDemoControlSnapshot)
BY DEF SnapshotSound, initialDemoControlSnapshot, IsSnapshot, AuditSound, PriceSound, IsList

LEMMA ControlStart == ControlInit => ControlInv
<1> SUFFICES ASSUME ControlInit PROVE ControlInv
  OBVIOUS
<1>1. SnapshotSound(snapshot)
  BY InitialSound DEF ControlInit
<1>2. BusySound(NoCommand)
  BY Zenon DEF BusySound, NoCommand
<1>3. IsBridge(bridge) /\ bridge.busy = NoCommand
  BY DEF ControlInit, IsBridge
<1> QED
  BY <1>1, <1>2, <1>3 DEF ControlInv

LEMMA ControlStep ==
  ASSUME ControlInv, [ControlNext]_controlVars
  PROVE  ControlInv'
<1>1. CASE UNCHANGED controlVars
  BY <1>1 DEF controlVars, ControlInv, SnapshotSound, IsSnapshot, AuditSound, PriceSound, IsBridge, BusySound
<1>2. ASSUME snapshot' = snapshot, IsBridge(bridge'), BusySound(bridge'.busy) PROVE ControlInv'
  BY <1>2 DEF ControlInv
<1>3. ASSUME NEW presenter \in Presenters, PostCommand(presenter) PROVE ControlInv'
  <2> DEFINE busy == bridge.busy
             done == [busy EXCEPT !.answered = TRUE]
  <2>1. PICK yes, number : yes = TRUE /\ bridge' = [bridge EXCEPT !.busy.answered = yes, !.answer = number]
    BY <1>3, Zenon DEF PostCommand
  <2>2. /\ busy # NoCommand /\ busy.command \in Commands
        /\ busy = [command |-> busy.command, key |-> busy.key, presenter |-> busy.presenter, answered |-> busy.answered]
    BY <1>3 DEF PostCommand, ControlInv, BusySound
  <2>3. bridge = [shown |-> bridge.shown, busy |-> bridge.busy, answer |-> bridge.answer,
                  first |-> bridge.first, firstAnswer |-> bridge.firstAnswer]
    BY DEF ControlInv, IsBridge
  <2>4. /\ bridge' = [shown |-> bridge.shown, busy |-> bridge'.busy, answer |-> number,
                      first |-> bridge.first, firstAnswer |-> bridge.firstAnswer]
        /\ bridge'.busy = [command |-> busy.command, key |-> busy.key, presenter |-> busy.presenter,
                           answered |-> yes]
    BY ONLY <2>1, <2>2, <2>3
  <2>5. bridge'.busy.command = busy.command
    BY <2>4
  <2>6. IsBridge(bridge') /\ BusySound(bridge'.busy)
    BY <2>2, <2>4, <2>5 DEF IsBridge, BusySound
  <2>7. \/ snapshot' = snapshot
        \/ /\ ~Duplicate(busy.key) /\ roleOf(presenter) \in {"DP", "RT"}
           /\ snapshot' = applyDemoControlCommand(busy.command, busy.key, presenter.id, roleOf(presenter))
    BY <1>3 DEF PostCommand, roleOf
  <2>8. SnapshotSound(snapshot')
    BY <2>2, <2>7, CommandApplied DEF ControlInv
  <2> QED
    BY <2>6, <2>8 DEF ControlInv
<1>4. ASSUME NEW presenter \in Presenters, NEW command \in Commands, NEW key \in Keys,
             Press(presenter, command, key)
      PROVE  ControlInv'
  <2>1. PICK no : no = FALSE
    OBVIOUS
  <2> DEFINE busy == [command |-> command, key |-> key, presenter |-> presenter.id, answered |-> no]
  <2>2. snapshot' = snapshot /\ bridge' = [bridge EXCEPT !.busy = busy]
    BY <1>4, <2>1, Zenon DEF Press
  <2>3. bridge' = [shown |-> bridge.shown, busy |-> busy, answer |-> bridge.answer,
                   first |-> bridge.first, firstAnswer |-> bridge.firstAnswer]
    BY <2>2 DEF ControlInv, IsBridge
  <2>4. BusySound(busy)
    BY DEF BusySound
  <2> HIDE DEF busy
  <2>5. IsBridge(bridge') /\ bridge'.busy = busy
    BY <2>3 DEF IsBridge
  <2> QED
    BY <1>2, <2>2, <2>4, <2>5
<1>5. CASE CommandAnswer
  <2>1. BusySound(NoCommand)
    BY Zenon DEF BusySound, NoCommand
  <2>2. PICK shown, number : bridge' = [bridge EXCEPT !.shown = shown, !.busy = NoCommand, !.answer = number]
    <3>1. bridge = [shown |-> bridge.shown, busy |-> bridge.busy, answer |-> bridge.answer,
                    first |-> bridge.first, firstAnswer |-> bridge.firstAnswer]
      BY DEF ControlInv, IsBridge
    <3>2. CASE bridge' = [bridge EXCEPT !.shown = bridge.answer, !.busy = NoCommand]
      <4>1. bridge' = [bridge EXCEPT !.shown = bridge.answer, !.busy = NoCommand, !.answer = bridge.answer]
        BY <3>1, <3>2
      <4> QED
        BY <4>1
    <3>3. CASE bridge' = [bridge EXCEPT !.busy = NoCommand, !.answer = 0]
      <4>1. bridge' = [bridge EXCEPT !.shown = bridge.shown, !.busy = NoCommand, !.answer = 0]
        BY <3>1, <3>3
      <4> QED
        BY <4>1
    <3> QED
      BY <1>5, <3>2, <3>3 DEF CommandAnswer
  <2>3. IsBridge(bridge') /\ bridge'.busy = NoCommand /\ snapshot' = snapshot
    BY <1>5, <2>2 DEF IsBridge, ControlInv, CommandAnswer
  <2> QED
    BY <1>2, <2>1, <2>3
<1>6. CASE ServeFirst \/ ApplyFirst
  <2>1. IsBridge(bridge') /\ bridge'.busy = bridge.busy /\ snapshot' = snapshot
    BY <1>6 DEF ServeFirst, ApplyFirst, IsBridge, ControlInv
  <2> QED
    BY <1>2, <2>1 DEF ControlInv
<1>7. CASE RestartControl
  BY <1>7, InitialSound DEF RestartControl, ControlInv, IsBridge, BusySound
<1> QED
  BY <1>1, <1>3, <1>4, <1>5, <1>6, <1>7 DEF ControlNext

LEMMA ControlIsExplained == ControlInv => ControlExplained
<1> SUFFICES ASSUME ControlInv PROVE ControlExplained
  OBVIOUS
<1> DEFINE audit0 == snapshot.audit
<1>1. /\ AuditSound(audit0, snapshot.sequence) /\ PriceSound(audit0, snapshot.displayUnitPrice)
      /\ Len(audit0) > 0 => snapshot.state = Stated(audit0[Len(audit0)].command)
      /\ snapshot.quoteAvailability = "PAUSED" <=> snapshot.state = "NEW_QUOTES_WITHDRAWN"
  BY DEF ControlInv, SnapshotSound
<1>2. (snapshot.sequence = 0) = (audit0 = <<>>)
  BY <1>1 DEF AuditSound
<1>3. (snapshot.quoteAvailability = "PAUSED") = (snapshot.state = "NEW_QUOTES_WITHDRAWN")
  BY <1>1
<1>4. Len(audit0) > 0 => snapshot.state =
        CASE audit0[Len(audit0)].command = "RESET_BASELINE"     -> "BASELINE"
          [] audit0[Len(audit0)].command = "PUBLISH_PRICE_RISE" -> "PRICE_RISE_PUBLISHED"
          [] OTHER                                              -> "NEW_QUOTES_WITHDRAWN"
  BY <1>1 DEF Stated
<1>5. ASSUME NEW i \in {k \in DOMAIN audit0 : audit0[k].command # "WITHDRAW_NEW_QUOTES"},
             \A j \in {k \in DOMAIN audit0 : audit0[k].command # "WITHDRAW_NEW_QUOTES"} : j <= i
      PROVE  (snapshot.displayUnitPrice = 367) = (audit0[i].command = "PUBLISH_PRICE_RISE")
  BY <1>1, <1>5 DEF PriceSound
<1> QED
  BY <1>1, <1>2, <1>3, <1>4, <1>5 DEF ControlExplained, AuditSound

-----------------------------------------------------------------------------
(***************************************************************************)
(* The case desk.                                                          *)
(***************************************************************************)
\* An alert and its events: one for each version, the last of its state; it was acknowledged
\* first, and is assigned, escalated or resolved only with an owner.
AlertSound(a, events) ==
  /\ a = [version |-> a.version, state |-> a.state, owner |-> a.owner, assignments |-> a.assignments,
          level |-> a.level]
  /\ IsList(events) /\ Len(events) = a.version /\ a.version \in Nat \ {0}
  /\ events[a.version].type = a.state
  /\ a.state \in {"OPEN", "ACKNOWLEDGED", "ASSIGNED", "ESCALATED", "RESOLVED"}
  /\ a.state = "OPEN" => a.version = 1
  /\ a.state # "OPEN" => a.version > 1 /\ events[2].type = "ACKNOWLEDGED"
  /\ a.state \in {"ASSIGNED", "ESCALATED", "RESOLVED"} =>
       a.owner # "nobody" /\ \E i \in DOMAIN events : events[i].type \in {"ASSIGNED", "ESCALATED"}

\* What may become of an alert.
AlertStepped(a, b) ==
  /\ b = [version |-> a.version + 1, state |-> b.state, owner |-> b.owner, assignments |-> b.assignments,
          level |-> b.level]
  /\ \/ a.state = "OPEN" /\ b.state = "ACKNOWLEDGED"
     \/ a.state # "OPEN" /\ b.state \in {"ASSIGNED", "ESCALATED"} /\ b.owner # "nobody"
     \/ a.state \in {"ASSIGNED", "ESCALATED"} /\ b.state = "RESOLVED" /\ b.owner = a.owner

\* A case and its timeline: its own entries, of versions there have been; it has an owner once
\* triaged, was investigated before anything else, and is closed only when recovered.
CaseWell(c, entries) ==
  /\ c = [id |-> c.id, version |-> c.version, state |-> c.state, owner |-> c.owner,
          assignments |-> c.assignments, resolution |-> c.resolution, recovered |-> c.recovered]
  /\ IsList(entries) /\ c.version \in Nat \ {0}
  /\ \A i \in DOMAIN entries : entries[i].case = c.id /\ entries[i].version \in 1 .. c.version
  /\ c.state # "OPEN" => c.owner # "nobody"
  /\ c.state \in {"INVESTIGATING", "PENDING_ACTION", "RESOLVED", "CLOSED"} =>
       \E i \in DOMAIN entries : entries[i].type = "INVESTIGATING"
  /\ c.state = "CLOSED" => c.recovered

\* Each alert and the case are what their histories say.
DeskInv ==
  /\ agent \in Agents
  /\ DOMAIN alerts = DOMAIN AlertCases /\ DOMAIN alertEvents = DOMAIN AlertCases
  /\ alerts = [a \in DOMAIN AlertCases |-> alerts[a]]
  /\ alertEvents = [a \in DOMAIN AlertCases |-> alertEvents[a]]
  /\ \A a \in DOMAIN AlertCases : AlertSound(alerts[a], alertEvents[a])
  /\ CaseWell(case, timeline)

\* A list of one element.
LEMMA OneIsList ==
  ASSUME NEW e
  PROVE  IsList(<<e>>) /\ DOMAIN <<e>> = {1} /\ <<e>>[1] = e /\ Len(<<e>>) = 1
BY DEF IsList

\* An alert that is taken one step on and recorded stays sound.
LEMMA AlertRecorded ==
  ASSUME NEW a, NEW events, AlertSound(a, events), NEW b, AlertStepped(a, b), NEW by
  PROVE  AlertSound(b, Append(events, AlertEvent(b, by)))
<1> DEFINE event == AlertEvent(b, by)
           longer == Append(events, event)
           n == a.version
<1>1. event.type = b.state
  BY DEF AlertEvent
<1>2. IsList(events) /\ n \in Nat \ {0} /\ Len(events) = n /\ DOMAIN events = 1 .. n
  BY DEF AlertSound, IsList
<1> HIDE DEF event
<1>3. /\ IsList(longer) /\ DOMAIN longer = DOMAIN events \cup {n + 1}
      /\ \A i \in DOMAIN events : longer[i] = events[i]
      /\ longer[n + 1] = event
  BY <1>2, AppendIsList
<1>4. Len(longer) = n + 1 /\ DOMAIN longer = 1 .. n + 1
  BY <1>2, <1>3 DEF IsList
<1> HIDE DEF longer
<1>5. /\ b = [version |-> b.version, state |-> b.state, owner |-> b.owner, assignments |-> b.assignments,
              level |-> b.level]
      /\ b.version = n + 1
  BY DEF AlertStepped
<1>6. longer[n + 1].type = b.state
  BY <1>1, <1>3
<1>7. b.state # "OPEN" /\ b.state \in {"OPEN", "ACKNOWLEDGED", "ASSIGNED", "ESCALATED", "RESOLVED"}
      /\ n + 1 > 1 /\ n + 1 \in Nat \ {0}
  BY <1>2 DEF AlertStepped
<1>8. longer[2].type = "ACKNOWLEDGED"
  <2>1. CASE a.state = "OPEN"
    BY <1>2, <1>6, <2>1 DEF AlertSound, AlertStepped
  <2>2. CASE a.state # "OPEN"
    <3>1. events[2].type = "ACKNOWLEDGED" /\ 2 \in 1 .. n
      BY <1>2, <2>2 DEF AlertSound
    <3> QED
      BY <1>2, <1>3, <3>1
  <2> QED
    BY <2>1, <2>2
<1>9. ASSUME b.state \in {"ASSIGNED", "ESCALATED", "RESOLVED"}
      PROVE  b.owner # "nobody" /\ \E i \in DOMAIN longer : longer[i].type \in {"ASSIGNED", "ESCALATED"}
  <2>1. CASE b.state \in {"ASSIGNED", "ESCALATED"}
    <3>1. b.owner # "nobody"
      BY <2>1 DEF AlertStepped
    <3> QED
      BY <1>3, <1>6, <2>1, <3>1
  <2>2. CASE b.state = "RESOLVED"
    <3>1. a.state \in {"ASSIGNED", "ESCALATED"} /\ b.owner = a.owner
      BY <2>2 DEF AlertStepped
    <3>2. a.owner # "nobody" /\ \E i \in DOMAIN events : events[i].type \in {"ASSIGNED", "ESCALATED"}
      BY <3>1 DEF AlertSound
    <3> QED
      BY <1>3, <3>1, <3>2
  <2> QED
    BY <1>9, <2>1, <2>2
<1>10. AlertSound(b, longer)
  BY <1>3, <1>4, <1>5, <1>6, <1>7, <1>8, <1>9 DEF AlertSound
<1> QED
  BY <1>10 DEF longer, event

\* Acknowledging, assigning and resolving are such steps.
LEMMA AlertAdvances ==
  ASSUME NEW a, NEW events, AlertSound(a, events), NEW owner, owner # "nobody",
         a.state \in {"OPEN", "ACKNOWLEDGED", "ASSIGNED", "ESCALATED"}
  PROVE  AlertStepped(a, Advanced(a, owner))
<1> DEFINE form == [version |-> a.version, state |-> a.state, owner |-> a.owner, assignments |-> a.assignments,
                    level |-> a.level]
<1>1. a = form
  BY DEF AlertSound
<1>2. CASE a.state = "OPEN"
  <2>1. Advanced(a, owner) = Acknowledged(a)
    BY <1>2 DEF Advanced
  <2>2. Acknowledged(a) = [a EXCEPT !.version = @ + 1, !.state = "ACKNOWLEDGED"]
    BY DEF Acknowledged
  <2>3. Acknowledged(a) = [version |-> a.version + 1, state |-> "ACKNOWLEDGED", owner |-> a.owner,
                           assignments |-> a.assignments, level |-> a.level]
    BY <1>1, <2>2
  <2> QED
    BY <1>2, <2>1, <2>3 DEF AlertStepped
<1>3. CASE a.state = "ACKNOWLEDGED"
  <2>1. Advanced(a, owner) = Assigned(a, owner)
    BY <1>3 DEF Advanced
  <2>2. Assigned(a, owner) = [a EXCEPT !.version = @ + 1, !.state = "ASSIGNED", !.owner = owner, !.assignments = @ + 1]
    BY DEF Assigned
  <2>3. Assigned(a, owner) = [version |-> a.version + 1, state |-> "ASSIGNED", owner |-> owner,
                              assignments |-> a.assignments + 1, level |-> a.level]
    BY <1>1, <2>2
  <2> QED
    BY <1>3, <2>1, <2>3 DEF AlertStepped
<1>4. CASE a.state \in {"ASSIGNED", "ESCALATED"}
  <2>0. a.owner # "nobody"
    BY <1>4 DEF AlertSound
  <2>1. Advanced(a, owner) = Resolved(a)
    BY <1>4, <2>0 DEF Advanced
  <2>2. Resolved(a) = [a EXCEPT !.version = @ + 1, !.state = "RESOLVED"]
    BY DEF Resolved
  <2>3. Resolved(a) = [version |-> a.version + 1, state |-> "RESOLVED", owner |-> a.owner,
                       assignments |-> a.assignments, level |-> a.level]
    BY <1>1, <2>2
  <2> QED
    BY <1>4, <2>1, <2>3 DEF AlertStepped
<1> QED
  BY <1>2, <1>3, <1>4

\* So is the escalation.
LEMMA AlertEscalates ==
  ASSUME NEW a, NEW events, AlertSound(a, events), MayEscalate(a)
  PROVE  AlertStepped(a, Escalated(a))
<1>1. a = [version |-> a.version, state |-> a.state, owner |-> a.owner, assignments |-> a.assignments,
           level |-> a.level]
  BY DEF AlertSound
<1> DEFINE owner == IF a.level = 0 THEN "TEAM-LEAD" ELSE "INCIDENT-COMMAND"
<1>2. owner # "nobody"
  OBVIOUS
<1>3. Escalated(a) = [a EXCEPT !.version = @ + 1, !.state = "ESCALATED", !.level = @ + 1,
                               !.assignments = @ + 1, !.owner = owner]
  BY DEF Escalated
<1> HIDE DEF owner
<1>4. Escalated(a) = [version |-> a.version + 1, state |-> "ESCALATED", owner |-> owner,
                      assignments |-> a.assignments + 1, level |-> a.level + 1]
  BY <1>1, <1>3
<1> QED
  BY <1>2, <1>4 DEF AlertStepped, MayEscalate

\* One entry more.
LEMMA EntryAdded ==
  ASSUME NEW c, NEW entries, CaseWell(c, entries), NEW d, NEW entry, d.version \in Nat, d.version >= c.version,
         d = [id |-> c.id, version |-> d.version, state |-> d.state, owner |-> d.owner,
              assignments |-> d.assignments, resolution |-> d.resolution, recovered |-> d.recovered],
         entry.case = c.id, entry.version \in 1 .. d.version,
         d.state # "OPEN" => d.owner # "nobody",
         d.state \in {"INVESTIGATING", "PENDING_ACTION", "RESOLVED", "CLOSED"} =>
           \/ c.state \in {"INVESTIGATING", "PENDING_ACTION", "RESOLVED", "CLOSED"}
           \/ entry.type = "INVESTIGATING",
         d.state = "CLOSED" => d.recovered
  PROVE  CaseWell(d, Append(entries, entry))
<1> DEFINE longer == Append(entries, entry)
           n == Len(entries)
<1>1. IsList(entries) /\ c.version \in Nat \ {0}
  BY DEF CaseWell
<1>2. /\ IsList(longer) /\ DOMAIN longer = DOMAIN entries \cup {n + 1}
      /\ \A i \in DOMAIN entries : longer[i] = entries[i]
      /\ longer[n + 1] = entry
  BY <1>1, AppendIsList
<1> HIDE DEF longer, n
<1>3. \A i \in DOMAIN longer : longer[i].case = d.id /\ longer[i].version \in 1 .. d.version
  BY <1>1, <1>2 DEF CaseWell
<1>4. ASSUME d.state \in {"INVESTIGATING", "PENDING_ACTION", "RESOLVED", "CLOSED"}
      PROVE  \E i \in DOMAIN longer : longer[i].type = "INVESTIGATING"
  BY <1>2, <1>4 DEF CaseWell
<1>5. d.version \in Nat \ {0}
  BY <1>1
<1>6. CaseWell(d, longer)
  BY <1>2, <1>3, <1>4, <1>5 DEF CaseWell
<1> QED
  BY <1>6 DEF longer

LEMMA DeskStart == DeskInit => DeskInv
<1> SUFFICES ASSUME DeskInit PROVE DeskInv
  OBVIOUS
<1>1. AlertSound(OpenAlert, << AlertEvent(OpenAlert, "alert-orchestrator") >>)
  BY OneIsList DEF AlertSound, OpenAlert, AlertEvent
<1>2. CaseWell(OpenCase(Representative), openCaseTimeline(OpenCase(Representative)))
  BY OneIsList DEF CaseWell, OpenCase, openCaseTimeline, Entry
<1> QED
  BY <1>1, <1>2 DEF DeskInit, DeskInv

LEMMA DeskStep ==
  ASSUME DeskInv, [DeskNext]_deskVars
  PROVE  DeskInv'
<1>1. CASE UNCHANGED <<agent, alerts, alertEvents, case, timeline>>
  BY <1>1 DEF DeskInv, AlertSound, CaseWell
<1>2. agent' = agent
  BY DEF DeskNext, deskVars, submitSharedRequest, attemptSharedApproval, rejectExceptionRequest,
         expireExceptionRequest, replaceExceptionRequest, advanceCase, recordCaseNote, openSeededCase,
         advanceAlert, escalateSelectedAlert, Handled, toggleCopilotKillSwitch, exportGrowth, otherDeskVars
<1>3. agent.id # "nobody"
  BY DeskAssumption DEF DeskInv
<1>4. ASSUME CaseWell(case', timeline'), UNCHANGED alertVars PROVE DeskInv'
  BY <1>2, <1>4 DEF DeskInv, alertVars
<1>5. ASSUME NEW a \in DOMAIN AlertCases, NEW next, Handled(a, next), AlertStepped(alerts[a], next)
      PROVE  DeskInv'
  <2>1. /\ alerts' = [alerts EXCEPT ![a] = next]
        /\ alertEvents' = [alertEvents EXCEPT ![a] = Append(alertEvents[a], AlertEvent(next, agent.id))]
        /\ case' = case /\ timeline' = timeline
    BY <1>5 DEF Handled, caseVars
  <2>2. AlertSound(next, Append(alertEvents[a], AlertEvent(next, agent.id)))
    BY <1>5, AlertRecorded DEF DeskInv
  <2> DEFINE longer == Append(alertEvents[a], AlertEvent(next, agent.id))
  <2> HIDE DEF longer
  <2>3. \A x \in DOMAIN AlertCases : /\ alerts'[x] = IF x = a THEN next ELSE alerts[x]
                                     /\ alertEvents'[x] = IF x = a THEN longer ELSE alertEvents[x]
    BY <2>1 DEF DeskInv, longer
  <2>4. /\ DOMAIN alerts' = DOMAIN AlertCases /\ DOMAIN alertEvents' = DOMAIN AlertCases
        /\ alerts' = [x \in DOMAIN AlertCases |-> alerts'[x]]
        /\ alertEvents' = [x \in DOMAIN AlertCases |-> alertEvents'[x]]
    BY <2>1 DEF DeskInv
  <2>5. \A x \in DOMAIN AlertCases : AlertSound(alerts'[x], alertEvents'[x])
    BY <2>2, <2>3 DEF DeskInv, longer
  <2>6. CaseWell(case', timeline')
    BY <2>1 DEF DeskInv
  <2> QED
    BY <1>2, <2>4, <2>5, <2>6 DEF DeskInv
<1>6. ASSUME NEW a \in DOMAIN AlertCases, advanceAlert(a) \/ escalateSelectedAlert(a) PROVE DeskInv'
  <2>1. AlertSound(alerts[a], alertEvents[a])
    BY DEF DeskInv
  <2>2. CASE advanceAlert(a)
    <3>1. alerts[a].state # "RESOLVED" /\ Handled(a, Advanced(alerts[a], agent.id))
      BY <2>2 DEF advanceAlert
    <3>2. alerts[a].state \in {"OPEN", "ACKNOWLEDGED", "ASSIGNED", "ESCALATED"}
      BY <2>1, <3>1 DEF AlertSound
    <3> QED
      BY <1>3, <1>5, <2>1, <3>1, <3>2, AlertAdvances
  <2>3. CASE escalateSelectedAlert(a)
    BY <1>5, <2>1, <2>3, AlertEscalates DEF escalateSelectedAlert
  <2> QED
    BY <1>6, <2>2, <2>3
<1>7. CASE recordCaseNote
  <2> DEFINE entry == Entry(case, "NOTE_ADDED", agent.id)
  <2>1. /\ timeline' = Append(timeline, entry) /\ case' = case /\ UNCHANGED alertVars
        /\ case.state \in {"INVESTIGATING", "PENDING_ACTION"}
    BY <1>7 DEF recordCaseNote, requestDeskVars, otherDeskVars
  <2>2. entry.case = case.id /\ entry.version = case.version /\ entry.type = "NOTE_ADDED"
    BY DEF Entry
  <2> HIDE DEF entry
  <2>3. CaseWell(case, timeline)
    BY DEF DeskInv
  <2>4. case.version \in Nat \ {0} /\ case.version \in 1 .. case.version
    BY <2>3 DEF CaseWell
  <2>5. case = [id |-> case.id, version |-> case.version, state |-> case.state, owner |-> case.owner,
                assignments |-> case.assignments, resolution |-> case.resolution, recovered |-> case.recovered]
    BY <2>3 DEF CaseWell
  <2>6. CaseWell(case, Append(timeline, entry))
    BY <2>1, <2>2, <2>3, <2>4, <2>5, EntryAdded DEF CaseWell
  <2> QED
    BY <1>4, <2>1, <2>6
<1>8. ASSUME NEW id \in DOMAIN Cases, openSeededCase(id) PROVE DeskInv'
  <2>1. CaseWell(OpenCase(id), openCaseTimeline(OpenCase(id)))
    BY OneIsList DEF CaseWell, OpenCase, openCaseTimeline, Entry
  <2>2. case' = OpenCase(id) /\ timeline' = openCaseTimeline(OpenCase(id)) /\ UNCHANGED alertVars
    BY <1>8, Zenon DEF openSeededCase
  <2> QED
    BY <1>4, <2>1, <2>2
<1>9. CASE advanceCase
  <2> DEFINE assigned == assignCase(case, agent.id)
             ready == IF case.state = "OPEN" THEN assigned
                      ELSE IF case.state = "PENDING_ACTION" THEN prepareResolution(case) ELSE case
             entries == IF case.state = "OPEN" THEN Append(timeline, Entry(assigned, "ASSIGNED", agent.id))
                        ELSE timeline
  <2>1. PICK target :
          /\ \/ case.state = "OPEN" /\ target = "TRIAGED"
             \/ case.state = "TRIAGED" /\ target = "INVESTIGATING"
             \/ case.state = "INVESTIGATING" /\ target = "PENDING_ACTION"
             \/ case.state = "PENDING_ACTION" /\ target = "RESOLVED"
             \/ case.state = "RESOLVED" /\ target = "CLOSED"
          /\ MayTransition(ready, target)
          /\ case' = transitionCase(ready, target)
          /\ timeline' = Append(entries, Entry(case', target, agent.id))
    <3> HIDE DEF assigned
    <3> QED
      BY <1>9 DEF advanceCase, assigned
  <2>2. UNCHANGED alertVars
    BY <1>9 DEF advanceCase
  <2> DEFINE d == case'
             entry == Entry(d, target, agent.id)
  <2>3. case = [id |-> case.id, version |-> case.version, state |-> case.state, owner |-> case.owner,
                assignments |-> case.assignments, resolution |-> case.resolution, recovered |-> case.recovered]
    BY DEF DeskInv, CaseWell
  <2>4. /\ ready = [id |-> case.id, version |-> case.version, state |-> case.state, owner |-> ready.owner,
                    assignments |-> ready.assignments, resolution |-> ready.resolution,
                    recovered |-> ready.recovered]
        /\ case.state = "OPEN" => ready = assigned /\ ready.owner = agent.id
        /\ case.state # "OPEN" => ready.owner = case.owner
    <3>1. assigned = [id |-> case.id, version |-> case.version, state |-> case.state, owner |-> agent.id,
                      assignments |-> case.assignments + 1, resolution |-> case.resolution,
                      recovered |-> case.recovered]
      <4>1. assigned = [case EXCEPT !.owner = agent.id, !.assignments = @ + 1]
        BY Zenon DEF assignCase
      <4> HIDE DEF assigned
      <4> QED
        BY <2>3, <4>1
    <3>2. \E yes : prepareResolution(case) =
                     [id |-> case.id, version |-> case.version, state |-> case.state, owner |-> case.owner,
                      assignments |-> case.assignments, resolution |-> yes, recovered |-> yes]
      <4>1. PICK yes : yes = TRUE
        OBVIOUS
      <4>2. prepareResolution(case) = [case EXCEPT !.resolution = yes, !.recovered = yes]
        BY <4>1, Zenon DEF prepareResolution
      <4>3. prepareResolution(case) =
              [id |-> case.id, version |-> case.version, state |-> case.state, owner |-> case.owner,
               assignments |-> case.assignments, resolution |-> yes, recovered |-> yes]
        BY <2>3, <4>2
      <4> QED
        BY <4>3
    <3> HIDE DEF assigned
    <3>3. CASE case.state = "OPEN"
      BY <3>1, <3>3
    <3>4. CASE case.state = "PENDING_ACTION"
      BY <3>2, <3>4
    <3>5. CASE case.state # "OPEN" /\ case.state # "PENDING_ACTION"
      BY <2>3, <3>5
    <3> QED
      BY <3>3, <3>4, <3>5
  <2>5. d = [id |-> case.id, version |-> case.version + 1, state |-> target, owner |-> ready.owner,
             assignments |-> ready.assignments, resolution |-> ready.resolution, recovered |-> ready.recovered]
    <3>1. case' = [ready EXCEPT !.version = @ + 1, !.state = target]
      BY <2>1, Zenon DEF transitionCase
    <3>2. ready = [id |-> case.id, version |-> case.version, state |-> case.state, owner |-> ready.owner,
                   assignments |-> ready.assignments, resolution |-> ready.resolution,
                   recovered |-> ready.recovered]
      BY <2>4
    <3> DEFINE owner == ready.owner
               assignments == ready.assignments
               resolution == ready.resolution
               recovered == ready.recovered
               next == case.version + 1
    <3>3. ready = [id |-> case.id, version |-> case.version, state |-> case.state, owner |-> owner,
                   assignments |-> assignments, resolution |-> resolution, recovered |-> recovered]
      BY <3>2
    <3> HIDE DEF ready, owner, assignments, resolution, recovered
    <3>4. ready.version + 1 = next
      BY <3>3
    <3>5. case' = [ready EXCEPT !.version = next, !.state = target]
      BY <3>1, <3>4
    <3> HIDE DEF next
    <3>6. case' = [id |-> case.id, version |-> next, state |-> target, owner |-> owner,
                   assignments |-> assignments, resolution |-> resolution, recovered |-> recovered]
      BY ONLY <3>3, <3>5
    <3> QED
      BY <3>6 DEF owner, assignments, resolution, recovered, next
  <2>6. /\ entry.case = case.id /\ entry.version = case.version + 1 /\ entry.type = target
    BY <2>5 DEF Entry
  <2>7. CaseWell(case, timeline) /\ case.version \in Nat \ {0} /\ ready.owner # "nobody"
    BY <1>3, <2>4 DEF DeskInv, CaseWell
  <2>8. target = "CLOSED" => ready.recovered
    BY <2>1 DEF MayTransition
  <2>9. CASE case.state # "OPEN"
    <3>1. timeline' = Append(timeline, entry)
      BY <2>1, <2>9
    <3> HIDE DEF ready, entry, assigned, entries
    <3>2. /\ d.version \in Nat /\ d.version >= case.version /\ entry.version \in 1 .. d.version
          /\ d.owner # "nobody" /\ d.state = target
          /\ d.state = "CLOSED" => d.recovered
      BY <2>5, <2>6, <2>7, <2>8
    <3>3. d.state \in {"INVESTIGATING", "PENDING_ACTION", "RESOLVED", "CLOSED"} =>
            \/ case.state \in {"INVESTIGATING", "PENDING_ACTION", "RESOLVED", "CLOSED"}
            \/ entry.type = "INVESTIGATING"
      BY <2>1, <2>6, <2>9, <3>2
    <3>4. d = [id |-> case.id, version |-> d.version, state |-> d.state, owner |-> d.owner,
               assignments |-> d.assignments, resolution |-> d.resolution, recovered |-> d.recovered]
      BY <2>5
    <3> HIDE DEF d
    <3>5. CaseWell(d, Append(timeline, entry))
      BY <2>6, <2>7, <3>2, <3>3, <3>4, EntryAdded
    <3> QED
      BY <1>4, <2>2, <3>1, <3>5 DEF d
  <2>10. CASE case.state = "OPEN"
    <3> DEFINE first == Entry(assigned, "ASSIGNED", agent.id)
    <3>1. timeline' = Append(Append(timeline, first), entry)
      BY <2>1, <2>10
    <3>2. first.case = case.id /\ first.version = case.version
      BY <2>4, <2>10 DEF Entry
    <3>3. target = "TRIAGED"
      BY <2>1, <2>10
    <3> HIDE DEF first, ready, entry, assigned, entries
    <3>4. CaseWell(case, Append(timeline, first))
      <4>1. case.version \in Nat /\ case.version >= case.version /\ first.version \in 1 .. case.version
        BY <2>7, <3>2
      <4> QED
        BY <2>3, <2>7, <2>10, <3>2, <4>1, EntryAdded
    <3>5. /\ d.version \in Nat /\ d.version >= case.version /\ entry.version \in 1 .. d.version
          /\ d.owner # "nobody" /\ d.state = "TRIAGED"
      BY <2>5, <2>6, <2>7, <3>3
    <3>6. d = [id |-> case.id, version |-> d.version, state |-> d.state, owner |-> d.owner,
               assignments |-> d.assignments, resolution |-> d.resolution, recovered |-> d.recovered]
      BY <2>5
    <3> HIDE DEF d
    <3>7. CaseWell(d, Append(Append(timeline, first), entry))
      BY <2>6, <3>4, <3>5, <3>6, EntryAdded
    <3> QED
      BY <1>4, <2>2, <3>1, <3>7 DEF d
  <2> QED
    BY <2>9, <2>10
<1> QED
  BY <1>1, <1>6, <1>7, <1>8, <1>9
     DEF DeskNext, deskVars, submitSharedRequest, attemptSharedApproval, rejectExceptionRequest,
         expireExceptionRequest, replaceExceptionRequest, toggleCopilotKillSwitch, exportGrowth,
         caseVars, alertVars, otherDeskVars

LEMMA DeskExplains == DeskInv => DeskHistoriesExplain
<1> SUFFICES ASSUME DeskInv PROVE DeskHistoriesExplain
  OBVIOUS
<1>1. \A a \in DOMAIN alerts : AlertSound(alerts[a], alertEvents[a])
  BY DEF DeskInv
<1>2. CaseWell(case, timeline)
  BY DEF DeskInv
<1>3. ASSUME NEW a \in DOMAIN alerts
      PROVE  LET events == alertEvents[a] IN
               /\ Len(events) = alerts[a].version /\ events[Len(events)].type = alerts[a].state
               /\ alerts[a].state = "RESOLVED" =>
                    /\ events[2].type = "ACKNOWLEDGED" /\ alerts[a].owner # "nobody"
                    /\ \E i \in DOMAIN events : events[i].type \in {"ASSIGNED", "ESCALATED"}
  BY <1>1 DEF AlertSound
<1> QED
  BY <1>2, <1>3 DEF DeskHistoriesExplain, CaseWell

-----------------------------------------------------------------------------
(***************************************************************************)
(* The evidence room.                                                      *)
(***************************************************************************)
\* The records of custody there are after n submissions: one for issuing, one for accepting.
Custody(state, n) == (IF state = "PREPARED" THEN 0 ELSE 1) + n + (IF state = "ACCEPTED" THEN 1 ELSE 0)

\* The record of a submission.
HandedIn(s, assessor) ==
  [action |-> "EVIDENCE_SUBMITTED", subject |-> s.id, by |-> assessor, content |-> s.content]

\* What may stand at the end of the chain of custody of an accepted room.
Concludes(last) ==
  /\ last.action = "SUBMISSION_ACCEPTED" /\ IndependentlyPassed(last.content.evidence, last.by)
  /\ \A f \in last.content.findings : f.severity \in {"HIGH", "CRITICAL"} => f.evidence

\* Nothing is handed in before the room is issued, and nothing after it is accepted; the chain
\* of custody has the one record of each.
RoomSound ==
  /\ room = [state |-> room.state, assessor |-> room.assessor, issuer |-> room.issuer, accepted |-> room.accepted]
  /\ IsList(submitted) /\ IsList(custody)
  /\ room.state \in {"PREPARED", "ISSUED", "UNDER_REVIEW", "ACCEPTED"}
  /\ room.state = "PREPARED" => Len(submitted) = 0
  /\ \A i \in DOMAIN submitted : i > 1 => submitted[i].supersedes = submitted[i - 1].id
  /\ Len(custody) = Custody(room.state, Len(submitted))
  /\ \A i \in DOMAIN submitted : custody[i + 1] = HandedIn(submitted[i], room.assessor)
  /\ room.state = "ACCEPTED" =>
       /\ room.accepted = submitted[Len(submitted)].id /\ custody[Len(custody)].subject = room.accepted
       /\ Concludes(custody[Len(custody)])

\* An accepted engagement was accepted by somebody independent, on a pass of each deliverable.
EngagementSound ==
  /\ engagement.state = "ACCEPTED" => IndependentlyPassed(engagement.accepted, engagement.reviewer)
  /\ portfolio # Nobody /\ portfolio.status = "ON_TRACK" => engagement.state = "ACCEPTED"

\* Room, engagement and assessment do not touch one another.
AssuranceInv == RoomSound /\ EngagementSound /\ PilotProven

LEMMA LastOf == ASSUME NEW s PROVE Last(s) = s[Len(s)]
BY DEF Last

LEMMA AssuranceStart == AssuranceInit => AssuranceInv
<1> SUFFICES ASSUME AssuranceInit PROVE AssuranceInv
  OBVIOUS
<1>1. RoomSound
  BY DEF AssuranceInit, RoomSound, Custody, IsList
<1>2. EngagementSound
  BY DEF AssuranceInit, EngagementSound
<1>3. PilotProven
  BY DEF AssuranceInit, PilotProven
<1> QED
  BY <1>1, <1>2, <1>3 DEF AssuranceInv

\* What a reviewer may accept was passed independently.
LEMMA AcceptableIsPassed ==
  ASSUME NEW evidence, NEW reviewer, Acceptable(evidence, reviewer)
  PROVE  IndependentlyPassed(Matching(evidence), reviewer) /\ IndependentlyPassed(evidence, reviewer)
<1>1. reviewer \notin {ScopedBy, ApprovedBy}
  BY DEF Acceptable
<1>2. ASSUME NEW kind \in Deliverables
      PROVE  \E e \in Matching(evidence) : e.kind = kind
  BY <1>2 DEF Acceptable
<1>3. \A e \in Matching(evidence) :
        e \in evidence /\ e.control = RoomControl /\ e.source = "INDEPENDENT" /\ e.status = "PASS"
  BY DEF Matching
<1> QED
  BY <1>1, <1>2, <1>3 DEF IndependentlyPassed

LEMMA RoomIssued ==
  ASSUME RoomSound, NEW a \in Appointment, NEW actor \in Person, issueAssuranceEvidenceRoom(a, actor)
  PROVE  RoomSound'
<1> DEFINE record == [action |-> "PACK_ISSUED", subject |-> Nobody, by |-> actor, content |-> Nobody]
<1>1. /\ room.state = "PREPARED" /\ room' = [room EXCEPT !.state = "ISSUED", !.assessor = a.assessor, !.issuer = actor]
      /\ custody' = Append(custody, record) /\ UNCHANGED submitted
  BY DEF issueAssuranceEvidenceRoom
<1>2. room' = [state |-> "ISSUED", assessor |-> a.assessor, issuer |-> actor, accepted |-> room.accepted]
  BY <1>1 DEF RoomSound
<1>3. Len(submitted) = 0 /\ Len(custody) = 0 /\ IsList(submitted) /\ IsList(custody)
  BY <1>1 DEF RoomSound, Custody
<1> HIDE DEF record
<1>4. IsList(custody') /\ DOMAIN custody' = DOMAIN custody \cup {1}
  <2>1. custody' = Append(custody, record)
    BY <1>1
  <2>2. IsList(custody') /\ DOMAIN custody' = DOMAIN custody \cup {Len(custody) + 1}
    BY ONLY <1>3, <2>1, AppendIsList
  <2> QED
    BY <1>3, <2>2
<1>5. Len(custody') = 1 /\ DOMAIN submitted = {}
  BY <1>3, <1>4 DEF IsList
<1>6. Len(custody') = Custody("ISSUED", Len(submitted'))
  BY <1>1, <1>3, <1>5 DEF Custody
<1> QED
  BY <1>1, <1>2, <1>3, <1>4, <1>5, <1>6 DEF RoomSound

LEMMA RoomHandedIn ==
  ASSUME RoomSound, NEW id \in SubmissionId, NEW by \in Person, NEW old, NEW content,
         submitAssuranceEvidence(id, by, old, content)
  PROVE  RoomSound'
<1> DEFINE n == Len(submitted)
           m == Len(custody)
           handed == [id |-> id, supersedes |-> old, content |-> content]
           record == [action |-> "EVIDENCE_SUBMITTED", subject |-> id, by |-> by, content |-> content]
<1>0. /\ IsList(submitted) /\ IsList(custody) /\ n \in Nat /\ m \in Nat
      /\ DOMAIN submitted = 1 .. n /\ DOMAIN custody = 1 .. m
  BY DEF RoomSound, IsList
<1>1. /\ room.state \in {"ISSUED", "UNDER_REVIEW"} /\ by = room.assessor /\ Supersedes(id, old)
      /\ submitted' = Append(submitted, handed) /\ custody' = Append(custody, record)
      /\ room' = [room EXCEPT !.state = "UNDER_REVIEW"]
  BY DEF submitAssuranceEvidence
<1>2. room' = [state |-> "UNDER_REVIEW", assessor |-> room.assessor, issuer |-> room.issuer, accepted |-> room.accepted]
  BY <1>1 DEF RoomSound
<1>3. handed.id = id /\ handed.supersedes = old /\ record = HandedIn(handed, room.assessor)
  BY <1>1 DEF HandedIn
<1>7. m = n + 1
  <2>1. m = Custody(room.state, n)
    BY DEF RoomSound
  <2> HIDE DEF n, m
  <2> QED
    BY <1>0, <1>1, <2>1 DEF Custody
<1> HIDE DEF handed, record, n, m
<1>4. /\ IsList(submitted') /\ DOMAIN submitted' = DOMAIN submitted \cup {n + 1}
      /\ \A i \in DOMAIN submitted : submitted'[i] = submitted[i]
      /\ submitted'[n + 1] = handed
  BY <1>0, <1>1, AppendIsList DEF n
<1>5. /\ IsList(custody') /\ DOMAIN custody' = DOMAIN custody \cup {m + 1}
      /\ \A i \in DOMAIN custody : custody'[i] = custody[i]
      /\ custody'[m + 1] = record
  <2>1. custody' = Append(custody, record) /\ IsList(custody)
    BY <1>0, <1>1
  <2> QED
    BY ONLY <2>1, AppendIsList DEF m
<1>6. Len(submitted') = n + 1 /\ Len(custody') = m + 1
  BY <1>0, <1>4, <1>5 DEF IsList
<1>8. \A i \in DOMAIN submitted' : i > 1 => submitted'[i].supersedes = submitted'[i - 1].id
  <2>1. ASSUME NEW i \in 1 .. n, i > 1 PROVE submitted'[i].supersedes = submitted'[i - 1].id
    <3>1. i - 1 \in 1 .. n
      BY <1>0, <2>1
    <3> QED
      BY <1>0, <1>4, <2>1, <3>1 DEF RoomSound
  <2>2. ASSUME n + 1 > 1 PROVE submitted'[n + 1].supersedes = submitted'[n].id
    <3>1. n \in 1 .. n /\ submitted # <<>>
      BY <1>0, <2>2
    <3>2. old = submitted[n].id
      BY <1>1, <3>1, LastOf DEF Supersedes, n
    <3> QED
      BY <1>0, <1>3, <1>4, <3>1, <3>2
  <2>3. n + 1 - 1 = n
    BY <1>0
  <2> QED
    BY <1>0, <1>4, <2>1, <2>2, <2>3
<1>9. \A i \in DOMAIN submitted' : custody'[i + 1] = HandedIn(submitted'[i], room.assessor)
  <2>1. ASSUME NEW i \in 1 .. n PROVE custody'[i + 1] = HandedIn(submitted'[i], room.assessor)
    <3>1. i + 1 \in 1 .. m
      BY <1>0, <1>7
    <3>2. custody[i + 1] = HandedIn(submitted[i], room.assessor)
      BY <1>0 DEF RoomSound
    <3> QED
      BY <1>0, <1>4, <1>5, <3>1, <3>2
  <2>2. custody'[n + 1 + 1] = HandedIn(submitted'[n + 1], room.assessor)
    BY <1>3, <1>4, <1>5, <1>7
  <2> QED
    BY <1>0, <1>4, <2>1, <2>2
<1>10. Len(custody') = Custody("UNDER_REVIEW", Len(submitted'))
  BY <1>0, <1>6, <1>7 DEF Custody
<1> QED
  BY <1>1, <1>2, <1>4, <1>5, <1>8, <1>9, <1>10 DEF RoomSound

LEMMA RoomAccepted ==
  ASSUME RoomSound, NEW id \in SubmissionId, NEW content, NEW reviewer \in Person,
         acceptEvidenceRoomSubmission(id, content, reviewer)
  PROVE  RoomSound'
<1> DEFINE n == Len(submitted)
           m == Len(custody)
           record == [action |-> "SUBMISSION_ACCEPTED", subject |-> id, by |-> reviewer, content |-> content]
<1>0. /\ IsList(submitted) /\ IsList(custody) /\ n \in Nat /\ m \in Nat
      /\ DOMAIN submitted = 1 .. n /\ DOMAIN custody = 1 .. m
  BY DEF RoomSound, IsList
<1>1. /\ room.state = "UNDER_REVIEW" /\ id = submitted[n].id
      /\ Settled(content.findings) /\ Acceptable(content.evidence, reviewer)
      /\ room' = [room EXCEPT !.state = "ACCEPTED", !.accepted = id]
      /\ custody' = Append(custody, record) /\ UNCHANGED submitted
  BY LastOf DEF acceptEvidenceRoomSubmission
<1>2. room' = [state |-> "ACCEPTED", assessor |-> room.assessor, issuer |-> room.issuer, accepted |-> id]
  BY <1>1 DEF RoomSound
<1>3. m = n + 1
  <2>1. m = Custody(room.state, n)
    BY DEF RoomSound
  <2> HIDE DEF n, m
  <2> QED
    BY <1>0, <1>1, <2>1 DEF Custody
<1>4. Concludes(record) /\ record.subject = id
  <2>1. \A f \in content.findings : f.severity \in {"HIGH", "CRITICAL"} => f.evidence
    BY <1>1 DEF Settled
  <2> QED
    BY <1>1, <2>1, AcceptableIsPassed DEF Concludes
<1> HIDE DEF n, m, record
<1>5. /\ IsList(custody') /\ DOMAIN custody' = DOMAIN custody \cup {m + 1}
      /\ \A k \in DOMAIN custody : custody'[k] = custody[k]
      /\ custody'[m + 1] = record
  <2>1. custody' = Append(custody, record) /\ IsList(custody)
    BY <1>0, <1>1
  <2> QED
    BY ONLY <2>1, AppendIsList DEF m
<1>6. Len(custody') = m + 1
  BY <1>0, <1>5 DEF IsList
<1>7. \A k \in DOMAIN submitted : custody'[k + 1] = HandedIn(submitted[k], room.assessor)
  <2> SUFFICES ASSUME NEW k \in 1 .. n PROVE custody'[k + 1] = HandedIn(submitted[k], room.assessor)
    BY <1>0
  <2>1. k + 1 \in 1 .. m
    BY <1>0, <1>3
  <2>2. custody[k + 1] = HandedIn(submitted[k], room.assessor)
    BY <1>0 DEF RoomSound
  <2> QED
    BY <1>0, <1>5, <2>1, <2>2
<1>8. Len(custody') = Custody("ACCEPTED", n)
  BY <1>0, <1>3, <1>6 DEF Custody
<1>9. Len(submitted') = n /\ submitted' = submitted
  BY <1>1 DEF n
<1>10. \A i \in DOMAIN submitted : i > 1 => submitted[i].supersedes = submitted[i - 1].id
  BY DEF RoomSound
<1> QED
  BY <1>0, <1>1, <1>2, <1>4, <1>5, <1>6, <1>7, <1>8, <1>9, <1>10 DEF RoomSound

LEMMA EngagementAccepted ==
  ASSUME EngagementSound, NEW evidence, NEW reviewer, acceptAssuranceEvidence(evidence, reviewer)
  PROVE  EngagementSound'
<1>1. /\ engagement' = [state |-> "ACCEPTED", accepted |-> Matching(evidence), reviewer |-> reviewer]
      /\ Acceptable(evidence, reviewer) /\ UNCHANGED portfolio
  BY DEF acceptAssuranceEvidence
<1>2. IndependentlyPassed(Matching(evidence), reviewer)
  BY <1>1, AcceptableIsPassed
<1>3. engagement'.state = "ACCEPTED" /\ engagement'.accepted = Matching(evidence) /\ engagement'.reviewer = reviewer
  BY <1>1
<1> QED
  BY <1>1, <1>2, <1>3 DEF EngagementSound, IndependentlyPassed

LEMMA PilotAssessed ==
  ASSUME NEW es, NEW ok \in BOOLEAN, NEW at, evaluateProductionReadiness(es, ok, at)
  PROVE  PilotProven'
<1> DEFINE passed == passedControls(es, at)
           blocked == ~ok \/ \E c \in DOMAIN Control \ passed : Control[c].blocks
           certified == \A c \in DOMAIN Control : Control[c].external => c \in passed
           verdict == IF blocked THEN "BLOCKED" ELSE "READY_FOR_PILOT"
           starts == ~blocked /\ certified
<1>1. readiness' = [decision |-> verdict, pilotMayStart |-> starts, at |-> at, evidence |-> es]
  BY Zenon DEF evaluateProductionReadiness
<1>2. readiness'.pilotMayStart = starts /\ readiness'.at = at /\ readiness'.evidence = es
  <2> HIDE DEF starts, verdict
  <2> QED
    BY <1>1
<1>3. ASSUME starts, NEW c \in DOMAIN Control, Control[c].blocks \/ Control[c].external
      PROVE  c \in passed
  BY <1>3
<1>4. ASSUME NEW c \in passed, NEW k \in Control[c].kinds
      PROVE  \E e \in es : /\ e.control = c /\ e.kind = k /\ e.status = "PASS" /\ e.expires > at /\ e.maker # e.checker
                           /\ Control[c].external => e.source = "INDEPENDENT"
  <2>1. PICK e \in currentEvidence(c, es, at) : e.kind = k
    BY <1>4 DEF passedControls
  <2> QED
    BY <2>1 DEF currentEvidence
<1> HIDE DEF starts, passed
<1> SUFFICES ASSUME starts, NEW c \in DOMAIN Control, Control[c].blocks \/ Control[c].external, NEW k \in Control[c].kinds
             PROVE  \E e \in es : /\ e.control = c /\ e.kind = k /\ e.status = "PASS" /\ e.expires > at /\ e.maker # e.checker
                                  /\ Control[c].external => e.source = "INDEPENDENT"
  BY <1>2 DEF PilotProven
<1> QED
  BY <1>3, <1>4

LEMMA AssuranceStep ==
  ASSUME AssuranceInv, [EvidenceRoomNext \/ ReadinessNext]_assuranceVars
  PROVE  AssuranceInv'
<1>0. RoomSound /\ EngagementSound /\ PilotProven
  BY DEF AssuranceInv
<1>1. ASSUME UNCHANGED <<room, submitted, custody>> PROVE RoomSound'
  BY <1>0, <1>1 DEF RoomSound
<1>2. ASSUME UNCHANGED <<engagement, portfolio>> PROVE EngagementSound'
  BY <1>0, <1>2 DEF EngagementSound, IndependentlyPassed
<1>3. ASSUME UNCHANGED readiness PROVE PilotProven'
  BY <1>0, <1>3 DEF PilotProven
<1>4. CASE UNCHANGED assuranceVars
  BY <1>1, <1>2, <1>3, <1>4 DEF assuranceVars, AssuranceInv
<1>5. ASSUME NEW a \in Appointment, NEW actor \in Person, issueAssuranceEvidenceRoom(a, actor) PROVE AssuranceInv'
  <2>1. UNCHANGED <<engagement, portfolio, readiness>>
    BY <1>5 DEF issueAssuranceEvidenceRoom
  <2> QED
    BY <1>0, <1>2, <1>3, <1>5, <2>1, RoomIssued DEF AssuranceInv
<1>6. ASSUME NEW id \in SubmissionId, NEW by \in Person, NEW old, NEW content, submitAssuranceEvidence(id, by, old, content)
      PROVE  AssuranceInv'
  <2>1. UNCHANGED <<engagement, portfolio, readiness>>
    BY <1>6 DEF submitAssuranceEvidence
  <2> QED
    BY <1>0, <1>2, <1>3, <1>6, <2>1, RoomHandedIn DEF AssuranceInv
<1>7. ASSUME NEW id \in SubmissionId, NEW content, NEW reviewer \in Person,
             acceptEvidenceRoomSubmission(id, content, reviewer)
      PROVE  AssuranceInv'
  <2>1. UNCHANGED <<engagement, portfolio, readiness>>
    BY <1>7 DEF acceptEvidenceRoomSubmission
  <2> QED
    BY <1>0, <1>2, <1>3, <1>7, <2>1, RoomAccepted DEF AssuranceInv
<1>8. ASSUME NEW state \in {"COMMISSIONED", "EVIDENCE_SUBMITTED", "REJECTED"}, carryEngagement(state) PROVE AssuranceInv'
  <2>1. /\ engagement.state # "ACCEPTED" /\ engagement' = [engagement EXCEPT !.state = state]
        /\ UNCHANGED <<room, submitted, custody, readiness, portfolio>>
    BY <1>8 DEF carryEngagement
  <2>2. ~(portfolio # Nobody /\ portfolio.status = "ON_TRACK")
    BY <1>0, <2>1 DEF EngagementSound
  <2>3. engagement'.state # "ACCEPTED"
    <3>1. engagement' = [engagement EXCEPT !.state = state] /\ state # "ACCEPTED"
      BY <1>8, <2>1
    <3> QED
      BY <1>0, <2>1, <3>1
  <2>4. EngagementSound'
    BY <2>1, <2>2, <2>3 DEF EngagementSound
  <2> QED
    BY <1>1, <1>3, <2>1, <2>4 DEF AssuranceInv
<1>9. ASSUME NEW evidence, NEW reviewer, acceptAssuranceEvidence(evidence, reviewer) PROVE AssuranceInv'
  <2>1. UNCHANGED <<room, submitted, custody, readiness>>
    BY <1>9 DEF acceptAssuranceEvidence
  <2> QED
    BY <1>0, <1>1, <1>3, <1>9, <2>1, EngagementAccepted DEF AssuranceInv
<1>10. ASSUME NEW at \in AssessTime, evaluateAssurancePortfolio(at) PROVE AssuranceInv'
  <2>1. UNCHANGED <<room, submitted, custody, engagement, readiness>>
    BY <1>10 DEF evaluateAssurancePortfolio
  <2>2. portfolio'.status = "ON_TRACK" => engagement.state = "ACCEPTED"
    BY <1>10 DEF evaluateAssurancePortfolio
  <2>3. EngagementSound'
    BY <1>0, <2>1, <2>2 DEF EngagementSound, IndependentlyPassed
  <2> QED
    BY <1>1, <1>3, <2>1, <2>3 DEF AssuranceInv
<1>11. ASSUME NEW es \in SUBSET Evidence, NEW ok \in BOOLEAN, NEW at \in AssessTime,
              evaluateProductionReadiness(es, ok, at)
       PROVE  AssuranceInv'
  <2>1. UNCHANGED <<room, submitted, custody, engagement, portfolio>>
    BY <1>11 DEF evaluateProductionReadiness
  <2> QED
    BY <1>1, <1>2, <1>11, <2>1, PilotAssessed DEF AssuranceInv
<1>12. CASE EvidenceRoomNext
  BY <1>12, <1>5, <1>6, <1>7, <1>8, <1>9, <1>10 DEF EvidenceRoomNext
<1>13. CASE ReadinessNext
  BY <1>13, <1>11 DEF ReadinessNext
<1> QED
  BY <1>4, <1>12, <1>13

LEMMA CustodyExplained == AssuranceInv => CustodyExplains
<1> SUFFICES ASSUME AssuranceInv PROVE CustodyExplains
  OBVIOUS
<1>1. RoomSound /\ EngagementSound /\ PilotProven
  BY DEF AssuranceInv
<1>2. RoomExplained
  BY <1>1 DEF RoomSound, RoomExplained, Custody, HandedIn, Concludes
<1>3. PortfolioExplained
  BY <1>1 DEF EngagementSound, PortfolioExplained
<1> QED
  BY <1>1, <1>2, <1>3 DEF CustodyExplains

-----------------------------------------------------------------------------
(***************************************************************************)
(* The staff table and its log.                                            *)
(***************************************************************************)
\* One if it holds.
One(b) == IF b THEN 1 ELSE 0

\* The progress p is that of a request that has yet to record this change.
Owes(p, change) == p # Free /\ p.pc = "done" /\ p.change = change
Pending(change) == {w \in Writer : Owes(writing[w], change)}

\* What a request is about stays as it was checked.
ProgressSound(p) ==
  /\ p.pc \in {"checked", "invited"} =>
       /\ p = [pc |-> p.pc, user |-> p.user, roles |-> p.roles]
       /\ p.user \in StaffPerson /\ admin_staff_exclusive_roles(p.roles)
  /\ p.pc = "patching" => p.user \in StaffPerson

\* Every change made is in the log once, dropped, or still owed.
Balanced(change) ==
  Times(made, change) = Times(admin_audit_log, change) + Times(dropped, change) + Cardinality(Pending(change))

\* Table and requests are sound, and the books of changes balance for every change there could be.
StaffInv ==
  /\ IsList(made) /\ IsList(admin_audit_log) /\ IsList(dropped)
  /\ writing = [w \in Writer |-> writing[w]]
  /\ \A w \in Writer : writing[w] # Free => ProgressSound(writing[w])
  /\ admin_staff = [u \in DOMAIN admin_staff |->
                      [roles |-> admin_staff[u].roles, active |-> admin_staff[u].active]]
  /\ \A u \in DOMAIN admin_staff : admin_staff_exclusive_roles(admin_staff[u].roles)
  /\ \A change : Balanced(change)

\* An occurrence more when a list is extended by it.
LEMMA TimesNat == ASSUME NEW list, IsList(list), NEW change PROVE Times(list, change) \in Nat
<1>1. DOMAIN list = 1 .. Len(list) /\ Len(list) \in Nat
  BY DEF IsList
<1>2. IsFiniteSet(1 .. Len(list))
  BY <1>1, FS_Interval
<1>3. IsFiniteSet({i \in DOMAIN list : list[i] = change})
  BY <1>1, <1>2, FS_Subset
<1> QED
  BY <1>3, FS_CardinalityType DEF Times

LEMMA TimesAppend ==
  ASSUME NEW list, IsList(list), NEW e, NEW change
  PROVE  Times(Append(list, e), change) = Times(list, change) + One(e = change)
<1> DEFINE longer == Append(list, e)
           n == Len(list) + 1
           before == {i \in DOMAIN list : list[i] = change}
           after == {i \in DOMAIN longer : longer[i] = change}
<1>1. /\ DOMAIN longer = DOMAIN list \cup {n}
      /\ \A i \in DOMAIN list : longer[i] = list[i]
      /\ longer[n] = e /\ n \notin DOMAIN list
  BY AppendIsList
<1>2. IsFiniteSet(before)
  <2>1. DOMAIN list = 1 .. Len(list) /\ Len(list) \in Nat
    BY DEF IsList
  <2>2. IsFiniteSet(1 .. Len(list))
    BY <2>1, FS_Interval
  <2> QED
    BY <2>1, <2>2, FS_Subset
<1>3. n \notin before /\ Cardinality(before) \in Nat
  BY <1>1, <1>2, FS_CardinalityType
<1> HIDE DEF longer, n
<1>4. CASE e = change
  <2>1. after = before \cup {n}
    BY <1>1, <1>4
  <2> HIDE DEF after, before
  <2>2. Cardinality(after) = Cardinality(before) + 1
    BY <1>2, <1>3, <2>1, FS_AddElement
  <2> QED
    BY <1>4, <2>2 DEF Times, One, after, before, longer
<1>5. CASE e # change
  <2>1. after = before
    BY <1>1, <1>5
  <2>2. Cardinality(after) = Cardinality(before)
    BY <2>1
  <2> HIDE DEF after, before
  <2>3. Cardinality(after) = Cardinality(before) + One(e = change)
    BY <1>3, <1>5, <2>2 DEF One
  <2> QED
    BY <2>3 DEF Times, after, before, longer
<1> QED
  BY <1>4, <1>5

\* A request moves on: it owes what its new progress says, and the others what they owed.
LEMMA OwedMoves ==
  ASSUME NEW w \in Writer, NEW p, writing = [v \in Writer |-> writing[v]], MoveOn(w, p), NEW change
  PROVE  /\ Cardinality(Pending(change)) \in Nat /\ Cardinality(Pending(change)') \in Nat
         /\ Cardinality(Pending(change)') + One(Owes(writing[w], change))
              = Cardinality(Pending(change)) + One(Owes(p, change))
<1> DEFINE before == Pending(change)
           after == Pending(change)'
           others == before \ {w}
<1>1. writing'[w] = p /\ \A v \in Writer : v # w => writing'[v] = writing[v]
  BY DEF MoveOn
<1>2. before \in SUBSET Writer /\ after \in SUBSET Writer
  BY DEF Pending
<1>3. IsFiniteSet(before) /\ IsFiniteSet(after) /\ IsFiniteSet(others)
  BY <1>2, StaffAccessAssumption, FS_Subset, FS_RemoveElement
<1>4. w \in before <=> Owes(writing[w], change)
  BY DEF Pending
<1>5. w \in after <=> Owes(p, change)
  BY <1>1 DEF Pending, Owes
<1>6. after \ {w} = others
  BY <1>1 DEF Pending, Owes
<1>7. Cardinality(before) \in Nat /\ Cardinality(after) \in Nat
  BY <1>3, FS_CardinalityType
<1> HIDE DEF before, after, others
<1>8. Cardinality(others) = IF w \in before THEN Cardinality(before) - 1 ELSE Cardinality(before)
  BY <1>3, FS_RemoveElement DEF others
<1>9. Cardinality(others) = IF w \in after THEN Cardinality(after) - 1 ELSE Cardinality(after)
  BY <1>3, <1>6, FS_RemoveElement
<1>10. Cardinality(after) + One(Owes(writing[w], change)) = Cardinality(before) + One(Owes(p, change))
  BY <1>4, <1>5, <1>7, <1>8, <1>9 DEF One
<1> QED
  BY <1>7, <1>10 DEF before, after

\* Nothing is recorded, dropped or made, and nothing owed.
LEMMA BalanceStays ==
  ASSUME StaffInv, NEW w \in Writer, NEW p, MoveOn(w, p), UNCHANGED <<made, admin_audit_log, dropped>>,
         \A change : ~Owes(writing[w], change) /\ ~Owes(p, change)
  PROVE  \A change : Balanced(change)'
<1> SUFFICES ASSUME NEW change PROVE Balanced(change)'
  OBVIOUS
<1>1. /\ Cardinality(Pending(change)) \in Nat /\ Cardinality(Pending(change)') \in Nat
      /\ Cardinality(Pending(change)') + One(Owes(writing[w], change))
           = Cardinality(Pending(change)) + One(Owes(p, change))
  BY OwedMoves DEF StaffInv
<1>2. Cardinality(Pending(change)') = Cardinality(Pending(change))
  BY <1>1 DEF One
<1>3. Balanced(change)
  BY DEF StaffInv
<1> QED
  BY <1>2, <1>3 DEF Balanced, Times

\* A change is made, and owed from then on.
LEMMA BalanceMade ==
  ASSUME StaffInv, NEW w \in Writer, NEW event \in StaffEvent, NEW u \in StaffPerson,
         MoveOn(w, [pc |-> "done", change |-> [event |-> event, about |-> u]]),
         made' = Append(made, [event |-> event, about |-> u]), UNCHANGED <<admin_audit_log, dropped>>,
         \A change : ~Owes(writing[w], change)
  PROVE  \A change : Balanced(change)'
<1> SUFFICES ASSUME NEW change PROVE Balanced(change)'
  OBVIOUS
<1> DEFINE new == [event |-> event, about |-> u]
           p == [pc |-> "done", change |-> new]
<1>1. p # Free
  BY StaffAccessAssumption
<1>2. p.pc = "done" /\ p.change = new
  OBVIOUS
<1> HIDE DEF p, new
<1>3. Owes(p, change) <=> new = change
  BY <1>1, <1>2 DEF Owes
<1>4. /\ Cardinality(Pending(change)) \in Nat /\ Cardinality(Pending(change)') \in Nat
      /\ Cardinality(Pending(change)') + One(Owes(writing[w], change))
           = Cardinality(Pending(change)) + One(Owes(p, change))
  BY OwedMoves DEF StaffInv, p, new
<1>5. Cardinality(Pending(change)') = Cardinality(Pending(change)) + One(new = change)
  BY <1>3, <1>4 DEF One
<1>6. Times(made', change) = Times(made, change) + One(new = change)
  BY TimesAppend DEF StaffInv, new
<1>7. Balanced(change) /\ Times(made, change) \in Nat /\ Times(admin_audit_log, change) \in Nat
      /\ Times(dropped, change) \in Nat
  BY TimesNat DEF StaffInv
<1>8. One(new = change) \in Nat
  BY DEF One
<1>9. admin_audit_log' = admin_audit_log /\ dropped' = dropped
  OBVIOUS
<1>10. Times(made', change) = Times(admin_audit_log, change) + Times(dropped, change) + Cardinality(Pending(change)')
  BY <1>4, <1>5, <1>6, <1>7, <1>8 DEF Balanced
<1> QED
  BY <1>9, <1>10 DEF Balanced, Times

\* What was owed goes to the log, or is dropped.
LEMMA BalancePaid ==
  ASSUME StaffInv, NEW w \in Writer, writing[w] # Free, writing[w].pc = "done", MoveOn(w, Free),
         UNCHANGED made,
         \/ admin_audit_log' = Append(admin_audit_log, writing[w].change) /\ UNCHANGED dropped
         \/ dropped' = Append(dropped, writing[w].change) /\ UNCHANGED admin_audit_log
  PROVE  \A change : Balanced(change)'
<1> SUFFICES ASSUME NEW change PROVE Balanced(change)'
  OBVIOUS
<1> DEFINE paid == writing[w].change
<1>1. Owes(writing[w], change) <=> paid = change
  BY DEF Owes
<1>2. ~Owes(Free, change)
  BY DEF Owes
<1>3. /\ Cardinality(Pending(change)) \in Nat /\ Cardinality(Pending(change)') \in Nat
      /\ Cardinality(Pending(change)') + One(Owes(writing[w], change))
           = Cardinality(Pending(change)) + One(Owes(Free, change))
  BY OwedMoves DEF StaffInv
<1>4. Cardinality(Pending(change)') + One(paid = change) = Cardinality(Pending(change))
  BY <1>1, <1>2, <1>3 DEF One
<1>5. /\ Balanced(change) /\ Times(made, change) \in Nat /\ Times(admin_audit_log, change) \in Nat
      /\ Times(dropped, change) \in Nat
  BY TimesNat DEF StaffInv
<1>6. One(paid = change) \in Nat
  BY DEF One
<1>7. Times(made', change) = Times(made, change)
  OBVIOUS
<1> DEFINE logged == Times(admin_audit_log', change)
           lost == Times(dropped', change)
<1>8. \/ logged = Times(admin_audit_log, change) + One(paid = change) /\ lost = Times(dropped, change)
      \/ lost = Times(dropped, change) + One(paid = change) /\ logged = Times(admin_audit_log, change)
  <2>1. IsList(admin_audit_log) /\ IsList(dropped)
    BY DEF StaffInv
  <2>2. CASE admin_audit_log' = Append(admin_audit_log, paid) /\ UNCHANGED dropped
    BY <2>1, <2>2, TimesAppend
  <2>3. CASE dropped' = Append(dropped, paid) /\ UNCHANGED admin_audit_log
    BY <2>1, <2>3, TimesAppend
  <2> QED
    BY <2>2, <2>3
<1> HIDE DEF logged, lost, paid
<1>9. Times(made', change) = logged + lost + Cardinality(Pending(change)')
  BY <1>3, <1>4, <1>5, <1>6, <1>7, <1>8 DEF Balanced
<1> QED
  BY <1>9 DEF Balanced, logged, lost, Times

\* A request moves on to a sound progress.
LEMMA ProgressMoves ==
  ASSUME StaffInv, NEW w \in Writer, NEW p, MoveOn(w, p), p # Free => ProgressSound(p)
  PROVE  /\ writing' = [v \in Writer |-> writing'[v]]
         /\ \A v \in Writer : writing'[v] # Free => ProgressSound(writing'[v])
<1>1. /\ writing' = [v \in Writer |-> writing'[v]]
      /\ writing'[w] = p /\ \A v \in Writer : v # w => writing'[v] = writing[v]
  BY DEF MoveOn, StaffInv
<1> QED
  BY <1>1 DEF StaffInv

LEMMA StaffStart == StaffInit => StaffInv
<1> SUFFICES ASSUME StaffInit PROVE StaffInv
  OBVIOUS
<1>1. IsList(<<>>)
  BY DEF IsList
<1>2. \A change : Times(<<>>, change) = 0
  <2> SUFFICES ASSUME NEW change PROVE Times(<<>>, change) = 0
    OBVIOUS
  <2>1. {i \in DOMAIN <<>> : <<>>[i] = change} = {}
    OBVIOUS
  <2> QED
    BY <2>1, FS_EmptySet DEF Times
<1>3. \A change : Cardinality(Pending(change)) = 0
  <2> SUFFICES ASSUME NEW change PROVE Cardinality(Pending(change)) = 0
    OBVIOUS
  <2>1. Pending(change) = {}
    BY DEF Pending, Owes, StaffInit
  <2> QED
    BY <2>1, FS_EmptySet
<1>4. \A change : Balanced(change)
  BY <1>2, <1>3 DEF Balanced, StaffInit
<1>5. /\ admin_staff = [u \in DOMAIN admin_staff |-> [roles |-> admin_staff[u].roles, active |-> admin_staff[u].active]]
      /\ \A u \in DOMAIN admin_staff : admin_staff_exclusive_roles(admin_staff[u].roles)
  BY FirstStaffAllowed DEF StaffInit
<1> QED
  BY <1>1, <1>4, <1>5 DEF StaffInv, StaffInit

LEMMA StaffStep ==
  ASSUME StaffInv, [StaffNext]_staffVars
  PROVE  StaffInv'
<1> DEFINE Rows == /\ admin_staff = [u \in DOMAIN admin_staff |->
                                       [roles |-> admin_staff[u].roles, active |-> admin_staff[u].active]]
                   /\ \A u \in DOMAIN admin_staff : admin_staff_exclusive_roles(admin_staff[u].roles)
<1>0. Rows /\ IsList(made) /\ IsList(admin_audit_log) /\ IsList(dropped)
  BY DEF StaffInv
<1>1. CASE UNCHANGED <<admin_staff, admin_audit_log, writing, made, dropped>>
  BY <1>1 DEF StaffInv, Balanced, Times, Pending, Owes
\* A step of a request, on the way to p.
<1>2. ASSUME NEW w \in Writer, NEW p, MoveOn(w, p), p # Free => ProgressSound(p), Rows',
             IsList(made'), IsList(admin_audit_log'), IsList(dropped'), \A change : Balanced(change)'
      PROVE  StaffInv'
  BY <1>2, ProgressMoves DEF StaffInv
<1>3. ASSUME NEW w \in Writer, NEW p, MoveOn(w, p), p # Free => ProgressSound(p),
             UNCHANGED <<admin_staff, made, admin_audit_log, dropped>>,
             writing[w] # Free => writing[w].pc # "done", p # Free => p.pc # "done"
      PROVE  StaffInv'
  <2>1. \A change : Balanced(change)'
    BY <1>3, BalanceStays DEF Owes
  <2> QED
    BY <1>0, <1>2, <1>3, <2>1
<1>4. ASSUME NEW w \in Writer, NEW event \in StaffEvent, NEW u \in StaffPerson,
             MoveOn(w, [pc |-> "done", change |-> [event |-> event, about |-> u]]),
             made' = Append(made, [event |-> event, about |-> u]), UNCHANGED <<admin_audit_log, dropped>>,
             writing[w] # Free => writing[w].pc # "done", Rows'
      PROVE  StaffInv'
  <2>1. \A change : Balanced(change)'
    BY <1>4, BalanceMade DEF Owes
  <2>2. IsList(made') /\ IsList(admin_audit_log') /\ IsList(dropped')
    BY <1>0, <1>4, AppendIsList
  <2>3. ProgressSound([pc |-> "done", change |-> [event |-> event, about |-> u]])
    BY DEF ProgressSound
  <2> QED
    BY <1>2, <1>4, <2>1, <2>2, <2>3
<1>5. ASSUME NEW w \in Writer, inviteUserByEmail(w) PROVE StaffInv'
  <2> DEFINE q == writing[w]
             u == q.user
  <2>1. /\ q # Free /\ q.pc = "checked" /\ u \in StaffPerson /\ admin_staff_exclusive_roles(q.roles)
        /\ q = [pc |-> q.pc, user |-> q.user, roles |-> q.roles]
        /\ UNCHANGED <<admin_staff, admin_audit_log, dropped>>
    BY <1>5 DEF inviteUserByEmail, StaffInv, ProgressSound
  <2>2. CASE u \in accounts
    <3>1. /\ MoveOn(w, [pc |-> "done", change |-> [event |-> "STAFF_INVITE_FAILED", about |-> u]])
          /\ made' = Append(made, [event |-> "STAFF_INVITE_FAILED", about |-> u])
      BY <1>5, <2>2 DEF inviteUserByEmail
    <3>2. "STAFF_INVITE_FAILED" \in StaffEvent
      BY DEF StaffEvent
    <3> QED
      BY <1>0, <1>4, <2>1, <3>1, <3>2
  <2>3. CASE u \notin accounts
    <3> DEFINE p == [q EXCEPT !.pc = "invited"]
    <3>1. MoveOn(w, p) /\ UNCHANGED made
      BY <1>5, <2>3 DEF inviteUserByEmail
    <3>2. p.pc = "invited" /\ ProgressSound(p)
      BY <2>1 DEF ProgressSound
    <3> HIDE DEF p
    <3> QED
      BY <1>3, <2>1, <3>1, <3>2
  <2> QED
    BY <2>2, <2>3
<1>6. ASSUME NEW w \in Writer, insertStaff(w) PROVE StaffInv'
  <2> DEFINE q == writing[w]
             u == q.user
  <2>1. /\ q # Free /\ q.pc = "invited" /\ u \in StaffPerson /\ admin_staff_exclusive_roles(q.roles)
        /\ UNCHANGED <<admin_audit_log, dropped>>
    BY <1>6 DEF insertStaff, StaffInv, ProgressSound
  <2>2. CASE u \in accounts /\ admin_staff_exclusive_roles(q.roles)
    <3>1. PICK yes : /\ yes = TRUE
                     /\ admin_staff' = Put(admin_staff, u, [roles |-> q.roles, active |-> yes])
                     /\ Done(w, "STAFF_INVITED", u)
      BY <1>6, <2>2, Zenon DEF insertStaff
    <3>2. Rows'
      <4>1. /\ DOMAIN admin_staff' = DOMAIN admin_staff \cup {u}
            /\ admin_staff' = [s \in DOMAIN admin_staff' |->
                                 IF s = u THEN [roles |-> q.roles, active |-> yes] ELSE admin_staff[s]]
        BY <3>1 DEF Put
      <4>2. \A s \in DOMAIN admin_staff' :
              /\ admin_staff'[s] = [roles |-> admin_staff'[s].roles, active |-> admin_staff'[s].active]
              /\ admin_staff_exclusive_roles(admin_staff'[s].roles)
        BY <1>0, <2>1, <4>1
      <4> QED
        BY <4>1, <4>2
    <3>3. "STAFF_INVITED" \in StaffEvent
      BY DEF StaffEvent
    <3> QED
      BY <1>4, <2>1, <3>1, <3>2, <3>3 DEF Done
  <2>3. CASE ~(u \in accounts /\ admin_staff_exclusive_roles(q.roles))
    <3>1. MoveOn(w, Free) /\ UNCHANGED <<admin_staff, made>>
      BY <1>6, <2>3 DEF insertStaff
    <3> QED
      BY <1>3, <2>1, <3>1
  <2> QED
    BY <2>2, <2>3
<1>7. ASSUME NEW w \in Writer, updateActive(w) PROVE StaffInv'
  <2> DEFINE q == writing[w]
             u == q.user
             event == IF q.active THEN "STAFF_ENABLED" ELSE "STAFF_DISABLED"
  <2>1. /\ q # Free /\ q.pc = "patching" /\ u \in StaffPerson /\ UNCHANGED <<admin_audit_log, dropped>>
    BY <1>7 DEF updateActive, StaffInv, ProgressSound
  <2>2. CASE u \in DOMAIN admin_staff
    <3>1. /\ admin_staff' = [admin_staff EXCEPT ![u].active = q.active] /\ Done(w, event, u)
      BY <1>7, <2>2 DEF updateActive
    <3>2. Rows'
      <4> DEFINE row == admin_staff[u]
                 on == q.active
                 new == [row EXCEPT !.active = on]
      <4>0. admin_staff' = [admin_staff EXCEPT ![u] = new]
        BY <3>1
      <4> HIDE DEF on
      <4>9. row = [roles |-> row.roles, active |-> row.active]
        BY <1>0, <2>2
      <4>8. new = [roles |-> row.roles, active |-> on]
        <5> HIDE DEF row
        <5> QED
          BY <4>9
      <4> HIDE DEF new
      <4>7. admin_staff = [s \in DOMAIN admin_staff |-> admin_staff[s]]
        BY <1>0
      <4>1. /\ DOMAIN admin_staff' = DOMAIN admin_staff
            /\ admin_staff' = [s \in DOMAIN admin_staff |-> admin_staff'[s]]
            /\ admin_staff'[u] = [roles |-> admin_staff[u].roles, active |-> on]
            /\ \A s \in DOMAIN admin_staff : s # u => admin_staff'[s] = admin_staff[s]
        BY ONLY <2>2, <4>0, <4>7, <4>8
      <4>2. \A s \in DOMAIN admin_staff' :
              /\ admin_staff'[s] = [roles |-> admin_staff'[s].roles, active |-> admin_staff'[s].active]
              /\ admin_staff_exclusive_roles(admin_staff'[s].roles)
        BY <1>0, <2>2, <4>1
      <4> QED
        BY <4>1, <4>2
    <3>3. event \in StaffEvent
      BY DEF StaffEvent
    <3> HIDE DEF event
    <3> QED
      BY <1>4, <2>1, <3>1, <3>2, <3>3 DEF Done
  <2>3. CASE u \notin DOMAIN admin_staff
    <3>1. MoveOn(w, Free) /\ UNCHANGED <<admin_staff, made>>
      BY <1>7, <2>3 DEF updateActive
    <3> QED
      BY <1>3, <2>1, <3>1
  <2> QED
    BY <2>2, <2>3
<1>8. ASSUME NEW w \in Writer, appendAudit(w) \/ Drop(w), writing[w].pc = "done" PROVE StaffInv'
  <2>1. /\ writing[w] # Free /\ MoveOn(w, Free) /\ UNCHANGED <<made, admin_staff>>
        /\ \/ admin_audit_log' = Append(admin_audit_log, writing[w].change) /\ UNCHANGED dropped
           \/ dropped' = Append(dropped, writing[w].change) /\ UNCHANGED admin_audit_log
    BY <1>8 DEF appendAudit, Drop
  <2>2. \A change : Balanced(change)'
    BY <1>8, <2>1, BalancePaid
  <2>3. IsList(made') /\ IsList(admin_audit_log') /\ IsList(dropped')
    <3>1. IsList(made') /\ Rows'
      BY <1>0, <2>1
    <3>2. CASE admin_audit_log' = Append(admin_audit_log, writing[w].change) /\ UNCHANGED dropped
      BY <1>0, <3>1, <3>2, AppendIsList
    <3>3. CASE dropped' = Append(dropped, writing[w].change) /\ UNCHANGED admin_audit_log
      BY <1>0, <3>1, <3>3, AppendIsList
    <3> QED
      BY <2>1, <3>2, <3>3
  <2> QED
    BY <1>0, <1>2, <2>1, <2>2, <2>3
<1>9. ASSUME NEW w \in Writer, Drop(w), writing[w].pc # "done" PROVE StaffInv'
  <2>1. MoveOn(w, Free) /\ UNCHANGED <<made, admin_staff, admin_audit_log, dropped>>
    BY <1>9 DEF Drop
  <2> QED
    BY <1>3, <1>9, <2>1
<1>10. ASSUME NEW w \in Writer, NEW u \in StaffPerson, NEW roles, admin_staff_exclusive_roles(roles), Start(w),
              MoveOn(w, [pc |-> "checked", user |-> u, roles |-> roles]),
              UNCHANGED <<admin_staff, made, admin_audit_log, dropped>>
       PROVE  StaffInv'
  <2> DEFINE p == [pc |-> "checked", user |-> u, roles |-> roles]
  <2>1. p.pc = "checked" /\ ProgressSound(p)
    BY <1>10 DEF ProgressSound
  <2> HIDE DEF p
  <2> QED
    BY <1>3, <1>10, <2>1 DEF Start, p
<1>11. ASSUME NEW w \in Writer, NEW u \in StaffPerson, NEW by \in StaffPerson, NEW roles \in RoleChoices,
              InviteStaff(w, by, u, roles)
       PROVE  StaffInv'
  <2>1. admin_staff_exclusive_roles(roles)
    BY <1>11 DEF InviteStaff, admin_staff_exclusive_roles, assignmentConflict
  <2> QED
    BY <1>10, <1>11, <2>1 DEF InviteStaff
<1>12. ASSUME NEW w \in Writer, NEW u \in StaffPerson, NEW roles \in RoleChoices, LookForAdministrator(w, u, roles)
       PROVE  StaffInv'
  <2>1. admin_staff_exclusive_roles(roles)
    BY <1>12 DEF LookForAdministrator, admin_staff_exclusive_roles
  <2> QED
    BY <1>10, <1>12, <2>1 DEF LookForAdministrator
<1>13. ASSUME NEW w \in Writer, NEW u \in StaffPerson, NEW by \in StaffPerson, NEW active \in BOOLEAN,
              PatchStaff(w, by, u, active)
       PROVE  StaffInv'
  <2> DEFINE p == [pc |-> "patching", user |-> u, active |-> active]
  <2>1. p.pc = "patching" /\ ProgressSound(p)
    BY DEF ProgressSound
  <2>2. MoveOn(w, p) /\ Start(w) /\ UNCHANGED <<admin_staff, made, admin_audit_log, dropped>>
    BY <1>13, Zenon DEF PatchStaff
  <2> HIDE DEF p
  <2> QED
    BY <1>3, <2>1, <2>2 DEF Start
<1>14. ASSUME NEW u \in StaffPerson, DeleteAccount(u) PROVE StaffInv'
  <2>1. /\ admin_staff' = [s \in DOMAIN admin_staff \ {u} |-> admin_staff[s]]
        /\ UNCHANGED <<admin_audit_log, writing, made, dropped>>
    BY <1>14 DEF DeleteAccount
  <2>2. Rows'
    BY <1>0, <2>1
  <2> HIDE DEF Rows
  <2>3. \A change : Balanced(change)'
    BY <2>1 DEF StaffInv, Balanced, Times, Pending, Owes
  <2> QED
    BY <2>1, <2>2, <2>3 DEF StaffInv, Rows
<1>15. ASSUME NEW u \in StaffPerson, NEW aal2 \in BOOLEAN, SelectOwn(u, aal2) \/ StaffPage(u, aal2) PROVE StaffInv'
  BY <1>1, <1>15 DEF SelectOwn, StaffPage, Show
<1> QED
  BY <1>1, <1>5, <1>6, <1>7, <1>8, <1>9, <1>11, <1>12, <1>13, <1>14, <1>15 DEF StaffNext, staffVars, appendAudit

\* What a step shows, it shows to whom the rules let see it.
LEMMA ReadsStayGuarded ==
  ASSUME ReadsGuarded, [StaffNext]_staffVars
  PROVE  ReadsGuarded'
<1>1. CASE UNCHANGED staffVars
  BY <1>1 DEF staffVars, ReadsGuarded
<1>2. CASE ShowsNothing
  BY <1>2 DEF ShowsNothing, ReadsGuarded
<1>3. ASSUME NEW u, NEW aal2, NEW rows, NEW log, Show(u, aal2, rows, log),
             rows # {} \/ log # <<>> => aal2,
             rows \subseteq {u} \/ admin_has_role(u, {"PA", "AU"}),
             log = <<>> \/ admin_has_role(u, {"PA", "AU"})
      PROVE  ReadsGuarded'
  <2> DEFINE as == Standing(u)
  <2>1. /\ shownRows'.to = u /\ shownRows'.as = as /\ shownRows'.aal2 = aal2 /\ shownRows'.staff = rows
        /\ shownRows'.log = log
    <3>1. shownRows' = [to |-> u, as |-> as, aal2 |-> aal2, staff |-> rows, log |-> log]
      BY <1>3, Zenon DEF Show
    <3> HIDE DEF as
    <3> QED
      BY <3>1
  <2>2. admin_has_role(u, {"PA", "AU"}) => as.active /\ as.roles \cap {"PA", "AU"} # {}
    BY DEF admin_has_role, Standing
  <2> HIDE DEF as
  <2> QED
    BY <1>3, <2>1, <2>2 DEF ReadsGuarded
<1>4. ASSUME NEW u \in StaffPerson, NEW aal2 \in BOOLEAN, SelectOwn(u, aal2) PROVE ReadsGuarded'
  <2>1. /\ StaffVisible(u, aal2) # {} \/ LogVisible(u, aal2) # <<>> => aal2
        /\ StaffVisible(u, aal2) \subseteq {u} \/ admin_has_role(u, {"PA", "AU"})
        /\ LogVisible(u, aal2) = <<>> \/ admin_has_role(u, {"PA", "AU"})
    BY DEF StaffVisible, LogVisible
  <2> QED
    BY <1>3, <1>4, <2>1 DEF SelectOwn
<1>5. ASSUME NEW u \in StaffPerson, NEW aal2 \in BOOLEAN, StaffPage(u, aal2) PROVE ReadsGuarded'
  <2>1. aal2 /\ admin_has_role(u, {"PA", "AU"})
    BY <1>5 DEF StaffPage, StaffVisible, admin_has_role
  <2> QED
    BY <1>3, <1>5, <2>1 DEF StaffPage
<1> QED
  BY <1>1, <1>2, <1>4, <1>5
     DEF StaffNext, inviteUserByEmail, insertStaff, updateActive, appendAudit, Drop, LookForAdministrator,
         InviteStaff, PatchStaff, DeleteAccount

LEMMA StaffIsSound == StaffInv /\ ReadsGuarded => StaffTablesSound
<1> SUFFICES ASSUME StaffInv, ReadsGuarded PROVE StaffTablesSound
  OBVIOUS
<1>1. \A change : Pending(change) = {w \in Busy : writing[w].pc = "done" /\ writing[w].change = change}
  BY DEF Pending, Owes, Busy
<1>2. LogTruthful
  BY <1>1 DEF StaffInv, Balanced, LogTruthful
<1>3. \A roles : admin_staff_exclusive_roles(roles) => ~assignmentConflict(roles, "demo")
  BY DEF admin_staff_exclusive_roles, assignmentConflict
<1>4. InvitesFit
  BY <1>3 DEF InvitesFit, StaffInv, ProgressSound, Busy
<1> QED
  BY <1>2, <1>4 DEF StaffTablesSound

-----------------------------------------------------------------------------
(***************************************************************************)
(* The scenarios.                                                          *)
(***************************************************************************)
\* Every record on the stage, ready or reset, starts when its scenario's manifest says.
ScenarioInv ==
  /\ stage = [environment |-> stage.environment, clock |-> stage.clock, ready |-> stage.ready,
              reset |-> stage.reset]
  /\ stage.ready # NoAnswerYet =>
       stage.ready.time = scenarioManifests[stage.ready.scenario].start /\ stage.environment # "production"
  /\ stage.reset # NoAnswerYet =>
       /\ stage.environment # "production"
       /\ stage.reset.scenario \in ScenarioId /\ stage.reset.ready.scenario = stage.reset.scenario
       /\ stage.reset.ready.time = scenarioManifests[stage.reset.scenario].start
       /\ stage.reset.observations = collectMockObservations(stage.reset.scenario)

LEMMA ScenarioStart == ScenarioInit => ScenarioInv
BY DEF ScenarioInit, ScenarioInv

LEMMA ScenarioStep ==
  ASSUME ScenarioInv, [ScenarioNext]_scenarioVars
  PROVE  ScenarioInv'
<1>1. CASE UNCHANGED scenarioVars
  BY <1>1 DEF scenarioVars, ScenarioInv
<1>2. ASSUME NEW id \in ScenarioId, RuntimeReset(id) PROVE ScenarioInv'
  <2> DEFINE start == scenarioManifests[id].start
             ready == Ready(id, start)
  <2>1. stage.environment # "production" /\ stage' = [stage EXCEPT !.clock = start, !.ready = ready]
    BY <1>2 DEF RuntimeReset, ResetClock
  <2>2. ready.scenario = id /\ ready.time = start
    BY DEF Ready
  <2> HIDE DEF ready
  <2>3. stage' = [environment |-> stage.environment, clock |-> start, ready |-> ready, reset |-> stage.reset]
    BY <2>1 DEF ScenarioInv
  <2> QED
    BY <2>1, <2>2, <2>3 DEF ScenarioInv
<1>3. ASSUME NEW id \in ScenarioId, NEW person \in Presenters, NEW key, resetDemonstratorScenario(person, id, key)
      PROVE  ScenarioInv'
  <2> DEFINE ready == Ready(id, scenarioManifests[id].start)
             full == [scenario |-> id, by |-> person.id, key |-> key, ready |-> ready,
                      observations |-> collectMockObservations(id)]
  <2>1. \/ stage' = [stage EXCEPT !.reset = NoAnswerYet]
        \/ stage.environment # "production" /\ stage' = [stage EXCEPT !.reset = full]
    BY <1>3 DEF resetDemonstratorScenario
  <2>2. ready.scenario = id /\ ready.time = scenarioManifests[id].start
    BY DEF Ready
  <2> HIDE DEF ready
  <2>3. full.scenario = id /\ full.ready = ready /\ full.observations = collectMockObservations(id)
    OBVIOUS
  <2> HIDE DEF full
  <2>4. \/ stage' = [environment |-> stage.environment, clock |-> stage.clock, ready |-> stage.ready,
                     reset |-> NoAnswerYet]
        \/ /\ stage.environment # "production"
           /\ stage' = [environment |-> stage.environment, clock |-> stage.clock, ready |-> stage.ready,
                        reset |-> full]
    BY <2>1 DEF ScenarioInv
  <2> QED
    BY <2>2, <2>3, <2>4 DEF ScenarioInv
<1> QED
  BY <1>1, <1>2, <1>3 DEF ScenarioNext

\* The sums of the engine are those of its operator Total.
LEMMA EngineTotals == ASSUME NEW f PROVE Engine!Total(f) = Total(f)
BY Zenon DEF Engine!Total, Total, Engine!MapThenSumSet, MapThenSumSet, Engine!MapThenFoldSet, MapThenFoldSet

\* The sum over two elements.
LEMMA TotalTwo ==
  ASSUME NEW f, NEW a, NEW b, a # b, DOMAIN f = {a, b}, f[a] \in Int, f[b] \in Int
  PROVE  Total(f) = f[a] + f[b]
<1>1. IsFiniteSet({a}) /\ IsFiniteSet({a, b})
  <2>1. IsFiniteSet({a}) /\ {a, b} = {a} \cup {b}
    BY FS_Singleton
  <2> QED
    BY <2>1, FS_AddElement
<1>2. Total(f) = f[a] + Total(Others(f, a))
  BY <1>1, TotalTakes
<1> DEFINE g == Others(f, a)
<1>3. DOMAIN g = {b} /\ g[b] = f[b]
  BY DEF Others, Restrict
<1> HIDE DEF g
<1>4. IsFiniteSet(DOMAIN g)
  BY <1>3, FS_Singleton
<1>5. Total(g) = g[b] + Total(Others(g, b))
  BY <1>3, <1>4, TotalTakes
<1>6. DOMAIN Others(g, b) = {}
  BY <1>3 DEF Others, Restrict
<1>7. Total(Others(g, b)) = 0
  BY <1>6, TotalEmpty
<1> QED
  BY <1>2, <1>3, <1>5, <1>7 DEF g

\* Twenty gallons at a price: what the engine multiplies, and what it makes of it.
LEMMA TwentySums ==
  ASSUME NEW pump \in Nat
  PROVE  /\ Engine!StationExact(pump, TwentyGallons, 0) = pump * 20
         /\ Engine!CustomerExact(pump, TwentyGallons, 0)
              = (pump - Engine!ContributionPrice(pump, TwentyGallons[1])) * 20
         /\ Engine!LowerPriceExact(pump, TwentyGallons) = Engine!Larger(0, 3675 - pump) * 20
         /\ Engine!StrikeExact(TwentyGallons) = 73500
<1> DEFINE line == [quantity |-> 20, strike |-> 3675, boundary |-> 4025]
<1>1. DOMAIN TwentyGallons = {1} /\ TwentyGallons[1] = line
  BY DEF TwentyGallons
<1>2. line.quantity = 20 /\ line.strike = 3675 /\ line.boundary = 4025
  OBVIOUS
<1> HIDE DEF line
<1>3. Engine!ContributionPrice(pump, TwentyGallons[1]) \in Int /\ Engine!Larger(0, 3675 - pump) \in Int
  BY <1>1, <1>2 DEF Engine!ContributionPrice, Engine!Larger, Engine!Smaller
<1> DEFINE paid == Engine!ContributionPrice(pump, TwentyGallons[1])
           fall == Engine!Larger(0, 3675 - pump)
           station == [i \in DOMAIN TwentyGallons |-> pump * TwentyGallons[i].quantity]
           customer == [i \in DOMAIN TwentyGallons |->
                          (pump - Engine!ContributionPrice(pump, TwentyGallons[i])) * TwentyGallons[i].quantity]
           lower == [i \in DOMAIN TwentyGallons |->
                       Engine!Larger(0, TwentyGallons[i].strike - pump) * TwentyGallons[i].quantity]
           strike == [i \in DOMAIN TwentyGallons |-> TwentyGallons[i].strike * TwentyGallons[i].quantity]
<1>4. /\ DOMAIN station = {1} /\ station[1] = pump * 20
      /\ DOMAIN customer = {1} /\ customer[1] = (pump - paid) * 20
      /\ DOMAIN lower = {1} /\ lower[1] = fall * 20
      /\ DOMAIN strike = {1} /\ strike[1] = 3675 * 20
  BY <1>1, <1>2
<1>5. /\ Engine!StationExact(pump, TwentyGallons, 0) = Total(station) + pump * 0
      /\ Engine!CustomerExact(pump, TwentyGallons, 0) = Total(customer) + pump * 0
      /\ Engine!LowerPriceExact(pump, TwentyGallons) = Total(lower)
      /\ Engine!StrikeExact(TwentyGallons) = Total(strike)
  BY EngineTotals, Zenon
     DEF Engine!StationExact, Engine!CustomerExact, Engine!LowerPriceExact, Engine!StrikeExact
<1> HIDE DEF station, customer, lower, strike, paid, fall
<1>6. paid \in Int /\ fall \in Int
  BY <1>3 DEF paid, fall
<1>7. Total(station) = pump * 20 /\ Total(customer) = (pump - paid) * 20 /\ Total(lower) = fall * 20
      /\ Total(strike) = 73500
  BY <1>4, <1>6, TotalOne
<1>8. pump * 0 = 0
  OBVIOUS
<1> QED
  BY <1>5, <1>6, <1>7, <1>8 DEF paid, fall

\* The amounts of the scenarios, rounded as the engine rounds them.
LEMMA Divided ==
  /\ Engine!halfUpMinor(78000) = 7800 /\ Engine!halfUpMinor(84000) = 8400 /\ Engine!halfUpMinor(68000) = 6800
  /\ Engine!floorMinor(73500) = 7350 /\ Engine!floorMinor(77000) = 7700 /\ Engine!floorMinor(68000) = 6800
  /\ Engine!ceilMinor(0) = 0 /\ Engine!ceilMinor(5500) = 550
BY DEF Engine!halfUpMinor, Engine!floorMinor, Engine!ceilMinor

\* What the manifests assert is what the engine computes.
LEMMA AmountsComputed ==
  \A id \in DOMAIN AssertedAmounts :
    LET money == Engine!Figures(PumpPrice[id], TwentyGallons, 0) IN
    /\ \A figure \in DOMAIN AssertedAmounts[id] : AssertedAmounts[id][figure] = money[figure]
    /\ Engine!Balances(money)
<1> DEFINE line == TwentyGallons[1]
<1>1. line.strike = 3675 /\ line.boundary = 4025
  BY DEF TwentyGallons
<1> DEFINE Owed(pump) == Engine!Figures(pump, TwentyGallons, 0)
<1>2. Owed(3900) = Engine!Money(78000, 73500, 0, 73500)
  <2>1. Engine!ContributionPrice(3900, line) = 225 /\ Engine!Larger(0, 3675 - 3900) = 0
    BY <1>1 DEF Engine!ContributionPrice, Engine!Larger, Engine!Smaller
  <2>2. /\ Engine!StationExact(3900, TwentyGallons, 0) = 78000 /\ Engine!CustomerExact(3900, TwentyGallons, 0) = 73500
        /\ Engine!LowerPriceExact(3900, TwentyGallons) = 0 /\ Engine!StrikeExact(TwentyGallons) = 73500
    BY <2>1, TwentySums
  <2> QED
    BY <2>2 DEF Engine!Figures
<1>3. Owed(4200) = Engine!Money(84000, 77000, 0, 73500)
  <2>1. Engine!ContributionPrice(4200, line) = 350 /\ Engine!Larger(0, 3675 - 4200) = 0
    BY <1>1 DEF Engine!ContributionPrice, Engine!Larger, Engine!Smaller
  <2>2. /\ Engine!StationExact(4200, TwentyGallons, 0) = 84000 /\ Engine!CustomerExact(4200, TwentyGallons, 0) = 77000
        /\ Engine!LowerPriceExact(4200, TwentyGallons) = 0 /\ Engine!StrikeExact(TwentyGallons) = 73500
    BY <2>1, TwentySums
  <2> QED
    BY <2>2 DEF Engine!Figures
<1>4. Owed(3400) = Engine!Money(68000, 68000, 5500, 73500)
  <2>1. Engine!ContributionPrice(3400, line) = 0 /\ Engine!Larger(0, 3675 - 3400) = 275
    BY <1>1 DEF Engine!ContributionPrice, Engine!Larger, Engine!Smaller
  <2>2. /\ Engine!StationExact(3400, TwentyGallons, 0) = 68000 /\ Engine!CustomerExact(3400, TwentyGallons, 0) = 68000
        /\ Engine!LowerPriceExact(3400, TwentyGallons) = 5500 /\ Engine!StrikeExact(TwentyGallons) = 73500
    BY <2>1, TwentySums
  <2> QED
    BY <2>2 DEF Engine!Figures
<1>5. Engine!Money(78000, 73500, 0, 73500)
        = [station |-> 7800, customer |-> 7350, pool |-> 450, lower |-> 0, reserved |-> 7350, available |-> 0]
  BY Divided DEF Engine!Money, Engine!Larger
<1>6. Engine!Money(84000, 77000, 0, 73500)
        = [station |-> 8400, customer |-> 7700, pool |-> 700, lower |-> 0, reserved |-> 7350, available |-> 350]
  BY Divided DEF Engine!Money, Engine!Larger
<1>7. Engine!Money(68000, 68000, 5500, 73500)
        = [station |-> 6800, customer |-> 6800, pool |-> 0, lower |-> 550, reserved |-> 7350, available |-> 0]
  BY Divided DEF Engine!Money, Engine!Larger
<1>8. Engine!Balances(Owed(3900)) /\ Engine!Balances(Owed(4200)) /\ Engine!Balances(Owed(3400))
  <2> HIDE DEF Owed
  <2> QED
    BY <1>2, <1>3, <1>4, <1>5, <1>6, <1>7 DEF Engine!Balances, Engine!Debits, Engine!Credits, Engine!Larger
<1>9. /\ DOMAIN AssertedAmounts = {"rise", "breach", "falling"}
      /\ PumpPrice["rise"] = 3900 /\ PumpPrice["breach"] = 4200 /\ PumpPrice["falling"] = 3400
      /\ AssertedAmounts["rise"] = [station |-> 7800, customer |-> 7350, pool |-> 450]
      /\ AssertedAmounts["breach"] = [station |-> 8400, customer |-> 7700, pool |-> 700]
      /\ AssertedAmounts["falling"] = [station |-> 6800, pool |-> 0, lower |-> 550]
  BY DEF AssertedAmounts, PumpPrice
<1> HIDE DEF Owed
<1>10. \A id \in DOMAIN AssertedAmounts :
         /\ \A figure \in DOMAIN AssertedAmounts[id] : AssertedAmounts[id][figure] = Owed(PumpPrice[id])[figure]
         /\ Engine!Balances(Owed(PumpPrice[id]))
  BY <1>2, <1>3, <1>4, <1>5, <1>6, <1>7, <1>8, <1>9
<1> QED
  BY <1>10 DEF Owed

\* The settlement journal credits what it debits, and the station what the scenario asserts.
LEMMA JournalsBalance ==
  journalBalance(settlementJournal) /\ SideTotal(settlementJournal, "CREDIT") = AssertedAmounts.breach.station
<1> DEFINE liability == Line("customer-protected-liability", "DEBIT", 7700)
           claims == Line("fuelcap-claims-expense", "DEBIT", 700)
           payable == Line("station-payable", "CREDIT", 8400)
           debits == [l \in {x \in settlementJournal : x.side = "DEBIT"} |-> l.amount]
           credits == [l \in {x \in settlementJournal : x.side = "CREDIT"} |-> l.amount]
<1>1. /\ liability.side = "DEBIT" /\ liability.amount = 7700 /\ claims.side = "DEBIT" /\ claims.amount = 700
      /\ payable.side = "CREDIT" /\ payable.amount = 8400
      /\ settlementJournal = {liability, claims, payable}
  BY DEF Line, settlementJournal
<1> HIDE DEF liability, claims, payable
<1>2. /\ DOMAIN debits = {liability, claims} /\ debits[liability] = 7700 /\ debits[claims] = 700
      /\ DOMAIN credits = {payable} /\ credits[payable] = 8400 /\ liability # claims
  BY <1>1
<1> HIDE DEF debits, credits
<1>3. Total(debits) = 8400
  BY <1>2, TotalTwo
<1>4. Total(credits) = 8400
  <2>1. IsFiniteSet(DOMAIN credits) /\ \A x \in DOMAIN credits : credits[x] \in Int
    <3>1. IsFiniteSet({payable})
      BY FS_Singleton
    <3>2. DOMAIN credits = {payable} /\ credits[payable] \in Int
      BY <1>2
    <3> QED
      BY <3>1, <3>2
  <2>2. Total(credits) = credits[payable] + Total(Others(credits, payable))
    BY <1>2, <2>1, TotalTakes
  <2>3. DOMAIN Others(credits, payable) = {}
    BY <1>2 DEF Others, Restrict
  <2>4. Total(Others(credits, payable)) = 0
    BY <2>3, TotalEmpty
  <2> QED
    BY <1>2, <2>2, <2>4
<1>5. AssertedAmounts.breach.station = 8400
  BY DEF AssertedAmounts
<1> QED
  BY <1>3, <1>4, <1>5 DEF journalBalance, SideTotal, debits, credits

LEMMA ScenariosAreReproduced == ScenarioInv => ScenariosReproduce
<1> SUFFICES ASSUME ScenarioInv PROVE ScenariosReproduce
  OBVIOUS
<1>1. \A id \in ScenarioId : generatedScenarioRecord(id).time = scenarioManifests[id].start
  BY DEF generatedScenarioRecord
<1>2. safeguardingHolds
  BY DEF safeguardingHolds, safeguardingProjection
<1>3. ASSUME NEW id PROVE \A o \in collectMockObservations(id) : o.scenario = id /\ o.at = scenarioManifests[id].start
  BY DEF collectMockObservations, observation
<1>4. ASSUME NEW answered \in {stage.ready, IF stage.reset = NoAnswerYet THEN NoAnswerYet ELSE stage.reset.ready}
                             \ {NoAnswerYet}
      PROVE  answered.time = generatedScenarioRecord(answered.scenario).time /\ stage.environment # "production"
  BY <1>4 DEF ScenarioInv, generatedScenarioRecord
<1>5. ASSUME stage.reset # NoAnswerYet
      PROVE  /\ \A o \in stage.reset.observations : o.scenario = stage.reset.scenario /\ o.at = stage.reset.ready.time
             /\ \A other \in ScenarioId \ {stage.reset.scenario} :
                  collectMockObservations(other) \cap stage.reset.observations = {}
  BY <1>3, <1>5 DEF ScenarioInv
<1> QED
  BY <1>2, <1>4, <1>5, AmountsComputed, JournalsBalance DEF ScenariosReproduce

-----------------------------------------------------------------------------
(***************************************************************************)
(* The histories together.                                                 *)
(***************************************************************************)
\* All of them; a step is of one and leaves the others alone (HistoriesMove).
HistoriesInv ==
  /\ DeskInv /\ ControlInv /\ AssuranceInv /\ SupportInv
  /\ StaffInv /\ ReadsGuarded
  /\ TrailInv /\ InboxInv /\ ScenarioInv

\* One of them moves at a time: what a step is to each of them.
LEMMA HistoriesMove ==
  [Next]_<<machine, adminVars, demoVars, releaseVars, governanceVars>> =>
    /\ [DeskNext]_deskVars /\ [StaffNext]_staffVars
    /\ [ControlNext]_controlVars /\ [ScenarioNext]_scenarioVars
    /\ [TrailNext]_trailVars /\ [InboxNext]_inboxVars
    /\ [EvidenceRoomNext \/ ReadinessNext]_assuranceVars
    /\ [SupportNext]_supportVars
<1> SUFFICES ASSUME [Next]_<<machine, adminVars, demoVars, releaseVars, governanceVars>>
             PROVE  /\ [DeskNext]_deskVars /\ [StaffNext]_staffVars
                    /\ [ControlNext]_controlVars /\ [ScenarioNext]_scenarioVars
                    /\ [TrailNext]_trailVars /\ [InboxNext]_inboxVars
                    /\ [EvidenceRoomNext \/ ReadinessNext]_assuranceVars
                    /\ [SupportNext]_supportVars
  OBVIOUS
<1>1. [DeskNext]_deskVars /\ [StaffNext]_staffVars
  BY DEF Next, AdminNext, adminVars
<1>2. /\ [ControlNext]_controlVars /\ [ScenarioNext]_scenarioVars
      /\ [TrailNext]_trailVars /\ [InboxNext]_inboxVars
  BY DEF Next, DemoNext, demoVars
<1>3. [EvidenceRoomNext \/ ReadinessNext]_assuranceVars
  BY DEF Next, ReleaseNext, releaseVars
<1>4. [SupportNext]_supportVars
  BY DEF Next, GovernanceNext, governanceVars
<1> QED
  BY <1>1, <1>2, <1>3, <1>4

LEMMA HistoriesStart == Init => HistoriesInv
<1> SUFFICES ASSUME Init PROVE HistoriesInv
  OBVIOUS
<1>1. /\ DeskInit /\ ControlInit /\ AssuranceInit /\ SupportInit /\ StaffInit
      /\ ScenarioInit /\ TrailInit /\ InboxInit
  BY DEF Init
<1>2. ReadsGuarded
  BY <1>1 DEF StaffInit, ReadsGuarded
<1> QED
  BY <1>1, <1>2, DeskStart, ControlStart, AssuranceStart, SupportStart, StaffStart, ScenarioStart,
     TrailAndInboxStart DEF HistoriesInv

LEMMA HistoriesStep ==
  HistoriesInv /\ [Next]_<<machine, adminVars, demoVars, releaseVars, governanceVars>> => HistoriesInv'
<1> SUFFICES ASSUME HistoriesInv, [Next]_<<machine, adminVars, demoVars, releaseVars, governanceVars>>
             PROVE  HistoriesInv'
  OBVIOUS
<1>1. DeskInv' /\ StaffInv' /\ ReadsGuarded'
  BY HistoriesMove, DeskStep, StaffStep, ReadsStayGuarded DEF HistoriesInv
<1>2. ControlInv' /\ ScenarioInv' /\ TrailInv' /\ InboxInv'
  BY HistoriesMove, ControlStep, ScenarioStep, TrailStep, InboxStep DEF HistoriesInv
<1>3. AssuranceInv' /\ SupportInv'
  BY HistoriesMove, AssuranceStep, SupportStep DEF HistoriesInv
<1> QED
  BY <1>1, <1>2, <1>3 DEF HistoriesInv

\* Every history the administration application, the demonstrator and the release show for
\* themselves is what happened, and only those read the staff table and its log who may: the
\* alerts and the case of the desk (packages/alerts, packages/cases), the price control, the
\* chain of custody of the evidence room, support cases, the staff log, the summary of the
\* audit timeline, events replayed into the inboxes, the scenarios' records.
THEOREM HistoriesAlwaysExplain == Spec => []HistoriesExplain
<1>1. HistoriesInv => HistoriesExplain
  BY DeskExplains, ControlIsExplained, CustodyExplained, SupportExplains, StaffIsSound, TrailProven,
     InboxCounts, ScenariosAreReproduced DEF HistoriesInv, HistoriesExplain
<1> QED
  BY <1>1, HistoriesStart, HistoriesStep, PTL DEF Spec

(***************************************************************************)
(* The four specifications the application is put together from.           *)
(***************************************************************************)
\* What each of the four promises alone it promises beside the others too: nobody acts beyond a
\* step-up, a permission, an approval or a clearance, whichever part of the administration
\* application (apps/admin) or the release script moves.
THEOREM AdministrationHolds ==
  Spec => [](PrivilegedUnderStepUp /\ ApprovedWasAllowed /\ ExecutedAsApproved /\ ReleaseProven)
<1>1. Init => /\ AuthInit /\ RoomInit /\ FloorInit
              /\ RequestInit /\ DeploymentInit
  BY DEF Init
<1>2. [Next]_<<machine, adminVars, demoVars, releaseVars, governanceVars>> =>
        /\ [AuthNext]_authVars /\ [RoomOrFloor]_<<roomVars, floorVars>>
        /\ [RequestNext]_requestVars /\ [DeploymentNext]_deployVars
  BY DEF Next, AdminNext, ReleaseNext, RoomOrFloor, adminVars, releaseVars
<1>3. Spec => AuthSpec /\ RoomSpec /\ RequestSpec /\ DeploymentSpec
  BY <1>1, <1>2, PTL DEF Spec, AuthSpec, RoomSpec, RequestSpec, DeploymentSpec
<1> QED
  BY <1>3, PrivilegedOnlyUnderStepUp, ApprovalsAllowed, ExecutionsApproved, ReleasesProven, PTL
=============================================================================
