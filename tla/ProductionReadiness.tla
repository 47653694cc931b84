------------------------ MODULE ProductionReadiness ------------------------
(***************************************************************************)
(* Release: first the deployment, then the evidence that a pilot may start. *)
(*                                                                         *)
(* scripts/deploy-render-single-flight.mjs and packages/production-        *)
(* readiness: one release.  The script polls the deployments of a service, *)
(* waits while any is active, asks for one with a cleared cache, and       *)
(* smokes the service once that has been live for a while.  Meanwhile      *)
(* pushes start deployments of their own, and the platform moves them on.  *)
(* decideSingleFlightDeployment states the same decisions as a function.   *)
(*                                                                         *)
(* The platform is external: what it may do between two requests.          *)
(***************************************************************************)
EXTENDS Integers, Sequences, FiniteSets, FiniteSetsExt, SequencesExt

CONSTANTS
  Commit, Expected,          \* commits there are, and the one to release
  Grace, Stabilization,      \* waits, in ticks
  DeployTimeout,
  MaxDeploys,                \* bound
  Drift,                     \* fields of the service that may differ from its contract
  NoDeploy

ASSUME DeploymentAssumption ==
  /\ Expected \in Commit /\ NoDeploy \notin Int
  /\ Grace \in Nat /\ Stabilization \in Nat /\ DeployTimeout \in Nat

VARIABLES
  deploys,         \* deployments, oldest first: [commit, status, cleared]
  head,            \* the branch's last commit
  phase,           \* where the script is
  now, wakeAt,     \* the clock, and when the script's wait is over
  cacheClearId,    \* the deployment it takes for its own
  stableSince,
  lastActive,      \* history: when the script last saw a deployment under way
  advised, did,    \* history: the decision function's answer at the last poll, and the script's
  served,          \* history: the commit that passed the smoke test
  topology         \* the last topology check

deployVars ==
  <<deploys, head, phase, now, wakeAt, cacheClearId, stableSince, lastActive, advised, did, served, topology>>

activeStatuses == {"queued", "build_in_progress", "update_in_progress"}
terminalFailures == {"build_failed", "update_failed", "canceled"}

DeploymentInit ==
  /\ \E c \in Commit : deploys = <<[commit |-> c, status |-> "live", cleared |-> FALSE]>>
  /\ head = Expected /\ phase = "polling" /\ now = 0 /\ wakeAt = 0
  /\ cacheClearId = NoDeploy /\ stableSince = NoDeploy /\ lastActive = NoDeploy
  /\ advised = "WAIT" /\ did = "WAIT" /\ served = NoDeploy /\ topology = "UNKNOWN"

-----------------------------------------------------------------------------
\* The platform.
Deployed(commit, cleared) ==
  deploys' = Append(deploys, [commit |-> commit, status |-> "queued", cleared |-> cleared])

scriptVars == <<phase, wakeAt, cacheClearId, stableSince, lastActive, advised, did, served, topology>>

push(c) ==
  /\ Len(deploys) < MaxDeploys /\ head' = c /\ Deployed(c, FALSE)
  /\ UNCHANGED <<now, scriptVars>>

\* A deployment that goes live takes the place of the live one.
advance(d) ==
  /\ deploys[d].status \in activeStatuses
  /\ \/ deploys[d].status = "queued" /\ deploys' = [deploys EXCEPT ![d].status = "build_in_progress"]
     \/ deploys[d].status = "build_in_progress"
        /\ deploys' = [e \in DOMAIN deploys |->
             IF e = d THEN [deploys[e] EXCEPT !.status = "live"]
             ELSE IF deploys[e].status = "live" THEN [deploys[e] EXCEPT !.status = "deactivated"]
             ELSE deploys[e]]
     \/ deploys' = [deploys EXCEPT ![d].status = "build_failed"]
  /\ UNCHANGED <<head, now, scriptVars>>

tick == now <= DeployTimeout /\ now' = now + 1 /\ UNCHANGED <<deploys, head, scriptVars>>

-----------------------------------------------------------------------------
Active == {d \in DOMAIN deploys : deploys[d].status \in activeStatuses}
ExpectedLive == \E d \in DOMAIN deploys : deploys[d].commit = Expected /\ deploys[d].status = "live"

decideSingleFlightDeployment(id, graceExpired) ==
  IF Active # {} THEN "WAIT"
  ELSE IF id # NoDeploy
       THEN IF deploys[id].commit = Expected /\ deploys[id].status = "live" THEN "SMOKE" ELSE "REVIEW_FAILURE"
       ELSE IF ExpectedLive \/ graceExpired THEN "TRIGGER_CACHE_CLEAR" ELSE "WAIT"

Polling == phase = "polling" /\ now >= wakeAt /\ now < DeployTimeout
Advise == advised' = decideSingleFlightDeployment(cacheClearId, now >= Grace)
Wait == wakeAt' = now + 1 /\ phase' = phase
Unmoved == UNCHANGED <<deploys, head, now, cacheClearId, served, topology>>

\* Mutant of Unstable: the time it was stable goes on counting.
StillStable == stableSince' = stableSince

Unstable == stableSince' = NoDeploy

waitForActive ==
  /\ Polling /\ Active # {} /\ Advise /\ did' = "WAIT" /\ Wait /\ Unstable
  /\ lastActive' = now /\ Unmoved

\* The deployment a push starts may still come, until the grace is over.
waitForAutomatic ==
  /\ Polling /\ Active = {} /\ cacheClearId = NoDeploy /\ ~ExpectedLive /\ now < Grace
  /\ Advise /\ did' = "WAIT" /\ Wait
  /\ UNCHANGED <<stableSince, lastActive>> /\ Unmoved

triggerCacheClear ==
  /\ Polling /\ Active = {} /\ cacheClearId = NoDeploy /\ (ExpectedLive \/ now >= Grace)
  /\ Advise /\ did' = "TRIGGER_CACHE_CLEAR" /\ phase' = "posting"
  /\ UNCHANGED <<wakeAt, stableSince, lastActive>> /\ Unmoved

\* The platform deploys what the branch holds by then.
postCacheClear ==
  /\ phase = "posting" /\ Len(deploys) < MaxDeploys /\ Deployed(head, TRUE) /\ phase' = "finding"
  /\ UNCHANGED <<head, now, wakeAt, cacheClearId, stableSince, lastActive, advised, did, served, topology>>

\* The newest deployment of the expected commit that is under way or live, whoever asked for it.
Candidates == {d \in DOMAIN deploys : deploys[d].commit = Expected /\ deploys[d].status \in activeStatuses \cup {"live"}}

discoverCandidate ==
  /\ phase = "finding"
  /\ IF Candidates = {} THEN phase' = "failed" /\ cacheClearId' = cacheClearId
     ELSE phase' = "polling" /\ cacheClearId' = Max(Candidates)
  /\ UNCHANGED <<deploys, head, now, wakeAt, stableSince, lastActive, advised, did, served, topology>>

Own == deploys[cacheClearId]

reviewFailure ==
  /\ Polling /\ Active = {} /\ cacheClearId # NoDeploy
  /\ Own.commit # Expected \/ Own.status \in terminalFailures \/ Own.status # "live"
  /\ Advise /\ did' = "REVIEW_FAILURE" /\ phase' = "failed"
  /\ UNCHANGED <<wakeAt, stableSince, lastActive>> /\ Unmoved

\* Live, but for how long: it is smoked after Stabilization.
stabilize ==
  /\ Polling /\ Active = {} /\ cacheClearId # NoDeploy /\ Own.commit = Expected /\ Own.status = "live"
  /\ Advise /\ did' = "SMOKE"
  /\ stableSince' = IF stableSince = NoDeploy THEN now ELSE stableSince
  /\ IF now - stableSince' < Stabilization THEN Wait ELSE phase' = "smoking" /\ UNCHANGED wakeAt
  /\ UNCHANGED lastActive /\ Unmoved

\* The health route tells which commit answers.
smoke ==
  /\ phase = "smoking"
  /\ \E d \in DOMAIN deploys :
       /\ deploys[d].status = "live" /\ served' = deploys[d].commit
       /\ phase' = IF deploys[d].commit = Expected THEN "passed" ELSE "failed"
  /\ UNCHANGED <<deploys, head, now, wakeAt, cacheClearId, stableSince, lastActive, advised, did, topology>>

\* An API error, or the time is over.
throws ==
  /\ phase \in {"polling", "posting", "finding", "smoking"}
  /\ phase' = "failed"
  /\ UNCHANGED <<deploys, head, now, wakeAt, cacheClearId, stableSince, lastActive, advised, did, served, topology>>

-----------------------------------------------------------------------------
\* verify-render-topology and evaluateServiceTopology: the contract holds, and the newest
\* deployment is the live one.
evaluateServiceTopology(drift) ==
  IF drift = {} /\ deploys[Len(deploys)].status = "live" THEN "ALIGNED" ELSE "BLOCKED"

checkTopology(drift) ==
  /\ topology' = evaluateServiceTopology(drift)
  /\ UNCHANGED <<deploys, head, phase, now, wakeAt, cacheClearId, stableSince, lastActive, advised, did, served>>

DeploymentNext ==
  \/ \E c \in Commit : push(c)
  \/ \E d \in DOMAIN deploys : advance(d)
  \/ tick
  \/ waitForActive \/ waitForAutomatic \/ triggerCacheClear \/ postCacheClear \/ discoverCandidate
  \/ reviewFailure \/ stabilize \/ smoke \/ throws
  \/ \E drift \in SUBSET Drift : checkTopology(drift)

DeploymentSpec == DeploymentInit /\ [][DeploymentNext]_deployVars

-----------------------------------------------------------------------------
\* Whatever is pushed meanwhile: the script decides as decideSingleFlightDeployment does, asks
\* for one cleared deployment at most, and passes only a commit the service answered with, of
\* the deployment it follows, after a stretch without any other under way.  (That this is the
\* deployment with the cleared cache does not hold: see the hazards.)
ReleaseProven ==
  /\ did = advised
  /\ Cardinality({d \in DOMAIN deploys : deploys[d].cleared}) <= 1
  /\ phase \in {"smoking", "passed"} =>
       /\ deploys[cacheClearId].commit = Expected
       /\ stableSince # NoDeploy /\ now - stableSince >= Stabilization
       /\ lastActive = NoDeploy \/ lastActive < stableSince
  /\ phase = "passed" => served = Expected

-----------------------------------------------------------------------------
(***************************************************************************)
(* packages/production-readiness: what must be proven before a pilot.  An  *)
(* assessor is appointed, the evidence room issued to him, submissions     *)
(* follow one another and one is accepted.  Beside the room the engagement *)
(* has a state of its own, which the portfolio reads: accepting in the     *)
(* room leaves it alone.  The readiness assessment weighs the evidence     *)
(* that is current.                                                        *)
(***************************************************************************)
CONSTANTS
  Control,         \* control -> [external, blocks, kinds]: what each needs
  RoomControl,     \* the control the evidence room is for
  Deliverables,    \* the kinds of evidence the engagement asks for
  Evidence,        \* [control, kind, source, status, expires, maker, checker]
  Appointment,     \* [assessor, independent, terms, appointedBy, approvedBy]
  Package,         \* sets of evidence that may be handed in or reviewed
  Findings,        \* sets of findings: [severity, status, evidence]
  SubmissionId,
  Person, ScopedBy, ApprovedBy,
  AssessTime, DueAt,
  MaxSubmissions,  \* bound
  Nobody

ASSUME AssuranceAssumption == RoomControl \in DOMAIN Control /\ Nobody \notin Person

VARIABLES
  room,            \* [state, assessor, issuer, accepted]
  submitted,       \* immutable submissions, in order: [id, supersedes, content]
  custody,         \* the chain of custody: [action, subject, by, content]
  engagement,      \* [state, accepted, reviewer]; who reviewed is history
  readiness,       \* the last assessment: [decision, pilotMayStart, at, evidence]
  portfolio        \* the last state of the engagements: [status, at]

assuranceVars == <<room, submitted, custody, engagement, readiness, portfolio>>

AssuranceInit ==
  /\ room = [state |-> "PREPARED", assessor |-> Nobody, issuer |-> Nobody, accepted |-> Nobody]
  /\ engagement = [state |-> "SCOPED", accepted |-> {}, reviewer |-> Nobody]
  /\ submitted = <<>> /\ custody = <<>> /\ readiness = Nobody /\ portfolio = Nobody

\* What a submission holds; its hash in the chain of custody stands for it.
Content == [evidence : Package, findings : Findings]

-----------------------------------------------------------------------------
validateAssessorAppointment(a) == a.independent /\ a.terms /\ a.appointedBy # a.approvedBy

issueAssuranceEvidenceRoom(a, actor) ==
  /\ room.state = "PREPARED" /\ validateAssessorAppointment(a) /\ actor = a.appointedBy
  /\ room' = [room EXCEPT !.state = "ISSUED", !.assessor = a.assessor, !.issuer = actor]
  /\ custody' = Append(custody, [action |-> "PACK_ISSUED", subject |-> Nobody, by |-> actor, content |-> Nobody])
  /\ UNCHANGED <<submitted, engagement, readiness, portfolio>>

\* Mutant of Supersedes: any earlier submission may be superseded.
SupersedesAny(id, superseded) ==
  superseded \in {Nobody} \cup {submitted[i].id : i \in DOMAIN submitted}

\* The first supersedes nothing that is asked about; a later one the latest.
Supersedes(id, superseded) == submitted # <<>> => superseded = Last(submitted).id

\* A known submission changes nothing, whatever it holds this time; a new one puts the room
\* under review again.
submitAssuranceEvidence(id, by, superseded, content) ==
  /\ room.state \in {"ISSUED", "UNDER_REVIEW"} /\ by = room.assessor
  /\ content.evidence # {} /\ \A e \in content.evidence : e.source = "INDEPENDENT" /\ e.control = RoomControl
  /\ \A i \in DOMAIN submitted : submitted[i].id # id
  /\ Supersedes(id, superseded) /\ Len(submitted) < MaxSubmissions
  /\ submitted' = Append(submitted, [id |-> id, supersedes |-> superseded, content |-> content])
  /\ room' = [room EXCEPT !.state = "UNDER_REVIEW"]
  /\ custody' = Append(custody, [action |-> "EVIDENCE_SUBMITTED", subject |-> id, by |-> by, content |-> content])
  /\ UNCHANGED <<engagement, readiness, portfolio>>

\* The evidence a reviewer may count.
Matching(evidence) ==
  {e \in evidence : e.control = RoomControl /\ e.source = "INDEPENDENT" /\ e.status = "PASS"}

\* An independent reviewer, and every deliverable passed.
Acceptable(evidence, reviewer) ==
  /\ reviewer \notin {ScopedBy, ApprovedBy}
  /\ Deliverables \subseteq {e.kind : e \in Matching(evidence)}

\* Whoever holds the engagement moves it on; no code does.
carryEngagement(state) ==
  /\ engagement.state # "ACCEPTED" /\ engagement' = [engagement EXCEPT !.state = state]
  /\ UNCHANGED <<room, submitted, custody, readiness, portfolio>>

\* Needs no room.
acceptAssuranceEvidence(evidence, reviewer) ==
  /\ engagement.state = "EVIDENCE_SUBMITTED" /\ Acceptable(evidence, reviewer)
  /\ engagement' = [state |-> "ACCEPTED", accepted |-> Matching(evidence), reviewer |-> reviewer]
  /\ UNCHANGED <<room, submitted, custody, readiness, portfolio>>

\* Serious findings are remedied, and no remedy goes without evidence.
Settled(findings) ==
  \A f \in findings : /\ f.severity \in {"HIGH", "CRITICAL"} => f.status = "REMEDIATED"
                      /\ f.status = "REMEDIATED" => f.evidence

\* Of the submission the reviewer brings only the id is compared, with the latest; what he
\* accepts is what he brings.  The engagement he brings (the room's here: that is not
\* compared either) is judged as if submitted, and its acceptance is thrown away.
acceptEvidenceRoomSubmission(id, content, reviewer) ==
  /\ room.state = "UNDER_REVIEW" /\ submitted # <<>> /\ id = Last(submitted).id
  /\ Settled(content.findings) /\ Acceptable(content.evidence, reviewer)
  /\ room' = [room EXCEPT !.state = "ACCEPTED", !.accepted = id]
  /\ custody' = Append(custody,
       [action |-> "SUBMISSION_ACCEPTED", subject |-> id, by |-> reviewer, content |-> content])
  /\ UNCHANGED <<submitted, engagement, readiness, portfolio>>

-----------------------------------------------------------------------------
\* Passed, checked by a second person, not expired, and independent where that is asked.
currentEvidence(c, evidence, at) ==
  {e \in evidence : /\ e.control = c /\ e.status = "PASS" /\ e.maker # e.checker /\ e.expires > at
                    /\ Control[c].external => e.source = "INDEPENDENT"}

\* The controls that have each kind they need.
passedControls(evidence, at) ==
  {c \in DOMAIN Control : Control[c].kinds \subseteq {e.kind : e \in currentEvidence(c, evidence, at)}}

\* A control that does not block may be missing, unless an outsider must attest it: then the
\* decision is the same and the pilot waits.  Exercises, runbooks and the rota are in order.
evaluateProductionReadiness(evidence, operational, at) ==
  LET passed    == passedControls(evidence, at)
      blocked   == ~operational \/ \E c \in DOMAIN Control \ passed : Control[c].blocks
      certified == \A c \in DOMAIN Control : Control[c].external => c \in passed
  IN /\ readiness' = [decision |-> IF blocked THEN "BLOCKED" ELSE "READY_FOR_PILOT",
                      pilotMayStart |-> ~blocked /\ certified, at |-> at, evidence |-> evidence]
     /\ UNCHANGED <<room, submitted, custody, engagement, portfolio>>

\* evaluateAssurancePortfolio: open blockers, or overdue.
evaluateAssurancePortfolio(at) ==
  /\ portfolio' =
       [status |-> IF engagement.state # "ACCEPTED" /\ DueAt < at THEN "OVERDUE"
                   ELSE IF engagement.state # "ACCEPTED" \/ ScopedBy = ApprovedBy \/ ~Control[RoomControl].external
                        THEN "AT_RISK" ELSE "ON_TRACK",
        at |-> at]
  /\ UNCHANGED <<room, submitted, custody, engagement, readiness>>

EvidenceRoomNext ==
  \/ \E a \in Appointment, p \in Person : issueAssuranceEvidenceRoom(a, p)
  \/ \E id \in SubmissionId, p \in Person, old \in SubmissionId \cup {Nobody}, content \in Content :
       submitAssuranceEvidence(id, p, old, content)
  \/ \E id \in SubmissionId, content \in Content, p \in Person : acceptEvidenceRoomSubmission(id, content, p)
  \/ \E state \in {"COMMISSIONED", "EVIDENCE_SUBMITTED", "REJECTED"} : carryEngagement(state)
  \/ \E evidence \in Package, p \in Person : acceptAssuranceEvidence(evidence, p)
  \/ \E at \in AssessTime : evaluateAssurancePortfolio(at)

ReadinessNext == \E es \in SUBSET Evidence, ok \in BOOLEAN, at \in AssessTime : evaluateProductionReadiness(es, ok, at)

-----------------------------------------------------------------------------
\* Somebody who neither scoped nor approved the work, and a pass of every deliverable by an
\* outsider, for this control.
IndependentlyPassed(evidence, reviewer) ==
  /\ reviewer \notin {ScopedBy, ApprovedBy}
  /\ \A kind \in Deliverables :
       \E e \in evidence : /\ e.kind = kind /\ e.control = RoomControl
                           /\ e.source = "INDEPENDENT" /\ e.status = "PASS"

\* The chain of custody tells the room's whole story: its opening, each submission with what
\* it held, in the order of one chain of supersession, and the acceptance of the last by an
\* independent reviewer, with what he accepted: nothing serious open, every deliverable passed.
\* (That he accepts what was submitted under that id does not hold: see the hazards.)
RoomExplained ==
  /\ \A i \in DOMAIN submitted : i > 1 => submitted[i].supersedes = submitted[i - 1].id
  /\ Len(custody) = (IF room.state = "PREPARED" THEN 0 ELSE 1) + Len(submitted)
                    + (IF room.state = "ACCEPTED" THEN 1 ELSE 0)
  /\ \A i \in DOMAIN submitted :
       custody[i + 1] = [action |-> "EVIDENCE_SUBMITTED", subject |-> submitted[i].id, by |-> room.assessor,
                         content |-> submitted[i].content]
  /\ room.state = "ACCEPTED" =>
       LET last == custody[Len(custody)] IN
       /\ last.action = "SUBMISSION_ACCEPTED" /\ last.subject = room.accepted
       /\ room.accepted = submitted[Len(submitted)].id
       /\ IndependentlyPassed(last.content.evidence, last.by)
       /\ \A f \in last.content.findings : f.severity \in {"HIGH", "CRITICAL"} => f.evidence

\* An engagement on track was accepted as independently, with or without its room.
PortfolioExplained ==
  portfolio # Nobody /\ portfolio.status = "ON_TRACK" =>
    engagement.state = "ACCEPTED" /\ IndependentlyPassed(engagement.accepted, engagement.reviewer)

\* No pilot starts without evidence that has not expired, passed and was checked by another
\* than its maker, of each kind of every control that blocks or that an outsider attests, and
\* by an outsider where one must.
PilotProven ==
  readiness # Nobody /\ readiness.pilotMayStart =>
    \A c \in DOMAIN Control : Control[c].blocks \/ Control[c].external =>
      \A k \in Control[c].kinds :
        \E e \in readiness.evidence :
          /\ e.control = c /\ e.kind = k /\ e.status = "PASS" /\ e.expires > readiness.at /\ e.maker # e.checker
          /\ Control[c].external => e.source = "INDEPENDENT"

\* What the evidence room, the portfolio and the readiness assessment show is what was proven.
CustodyExplains == RoomExplained /\ PortfolioExplained /\ PilotProven
=============================================================================
