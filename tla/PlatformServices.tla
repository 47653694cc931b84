-------------------------- MODULE PlatformServices --------------------------
(***************************************************************************)
(* Services around the platform: support cases, then the governance of     *)
(* assisted answers and finance reports, then the enterprise interface.    *)
(*                                                                         *)
(* The support cases of packages/identity: opened, assigned, investigated, *)
(* resolved and closed, each step with its event; a complaint closes only  *)
(* after its outcome was sent.  A case is read, stepped and stored by its  *)
(* caller, so two people may step the same version: the later copy wins.   *)
(***************************************************************************)
EXTENDS Maps, Integers, Sequences, FiniteSetsExt

CONSTANTS
  SupportKind,    \* the kinds of case tried
  SupportAgent,   \* agent -> role: "CS", "OP" or "CF"
  SupportDue,     \* the moment a case is due
  MaxCaseEvents   \* bound: the events of a case; an outcome may be sent again

VARIABLES
  supportTime,
  supportCase,    \* the stored case: its fields and its events
  working         \* agent -> the copy the agent has open

supportVars == <<supportTime, supportCase, working>>

\* Tenants and texts are left out: `evidence` says whether any was given.
Stepped(case, state, action, agent) ==
  [case EXCEPT !.state = state, !.version = @ + 1,
               !.events = Append(@, [action |-> action, by |-> agent, version |-> case.version + 1])]

openSupportCase(kind, agent) ==
  [kind |-> kind, state |-> "OPEN", owner |-> "nobody", resolvedBy |-> "nobody",
   outcomeSent |-> FALSE, version |-> 1,
   events |-> <<[action |-> "OPENED", by |-> agent, version |-> 1]>>]

SupportInit ==
  /\ supportTime = 0
  /\ supportCase \in {openSupportCase(kind, agent) : kind \in SupportKind, agent \in DOMAIN SupportAgent}
  /\ working = [a \in DOMAIN SupportAgent |-> supportCase]

\* An agent opens the case, and works on the copy.
Read(agent) ==
  /\ working' = [working EXCEPT ![agent] = supportCase]
  /\ UNCHANGED <<supportTime, supportCase>>

Store(agent, case) ==
  /\ supportCase' = case
  /\ working' = [working EXCEPT ![agent] = case]
  /\ UNCHANGED supportTime

assignSupportCase(agent, owner) ==
  LET case == working[agent] IN
  /\ case.state = "OPEN"
  /\ Store(agent, [Stepped(case, "ASSIGNED", "ASSIGNED", agent) EXCEPT !.owner = owner])

startInvestigation(agent, evidence) ==
  LET case == working[agent] IN
  /\ case.state = "ASSIGNED" /\ evidence
  /\ Store(agent, Stepped(case, "INVESTIGATING", "INVESTIGATION_STARTED", agent))

\* Compliance resolves complaints and corrections of personal data.
MayResolve(kind, agent) ==
  kind \in {"COMPLAINT", "DATA_CORRECTION"} => SupportAgent[agent] = "CF"

resolveSupportCase(agent, evidence) ==
  LET case == working[agent] IN
  /\ case.state = "INVESTIGATING" /\ evidence /\ MayResolve(case.kind, agent)
  /\ Store(agent, [Stepped(case, "RESOLVED", "RESOLVED", agent) EXCEPT !.resolvedBy = agent])

recordComplaintOutcome(agent, evidence) ==
  LET case == working[agent] IN
  /\ case.kind = "COMPLAINT" /\ case.state = "RESOLVED" /\ evidence
  /\ Len(case.events) < MaxCaseEvents - 1
  /\ Store(agent, [Stepped(case, "RESOLVED", "OUTCOME_SENT", agent) EXCEPT !.outcomeSent = TRUE])

closeSupportCase(agent) ==
  LET case == working[agent] IN
  /\ case.state = "RESOLVED" /\ (case.kind = "COMPLAINT" => case.outcomeSent)
  /\ Store(agent, Stepped(case, "CLOSED", "CLOSED", agent))

SupportTick ==
  /\ supportTime <= SupportDue /\ supportTime' = supportTime + 1
  /\ UNCHANGED <<supportCase, working>>

\* A day before the due time a case is due soon; only a closed case is complete.
supportCaseSla(case) ==
  IF case.state = "CLOSED" THEN "COMPLETE"
  ELSE IF supportTime > SupportDue THEN "BREACHED"
  ELSE IF supportTime >= SupportDue - 1 THEN "DUE_SOON" ELSE "ON_TRACK"

SupportNext ==
  \/ \E a \in DOMAIN SupportAgent :
       \/ Read(a) \/ closeSupportCase(a)
       \/ \E o \in DOMAIN SupportAgent : assignSupportCase(a, o)
       \/ \E e \in BOOLEAN :
            startInvestigation(a, e) \/ resolveSupportCase(a, e) \/ recordComplaintOutcome(a, e)
  \/ SupportTick

SupportSpec == SupportInit /\ [][SupportNext]_supportVars

-----------------------------------------------------------------------------
(* Properties                                                              *)

Did(case, action) == {i \in DOMAIN case.events : case.events[i].action = action}

\* Whoever stored last, the stored case is one whose events lead to it: numbered without a
\* gap, in the order of the steps, a complaint resolved by compliance and closed after its
\* outcome; a case late for its time is never reported complete while it is open.
SupportHistoriesExplain ==
  LET case == supportCase IN
  /\ \A i \in DOMAIN case.events : case.events[i].version = i
  /\ case.version = Len(case.events)
  /\ case.state \in {"RESOLVED", "CLOSED"} =>
       /\ \E i \in Did(case, "INVESTIGATION_STARTED"), j \in Did(case, "RESOLVED") :
            i < j /\ case.events[j].by = case.resolvedBy
       /\ case.kind \in {"COMPLAINT", "DATA_CORRECTION"} => SupportAgent[case.resolvedBy] = "CF"
  /\ case.kind = "COMPLAINT" /\ case.state = "CLOSED" =>
       \E i \in Did(case, "OUTCOME_SENT"), j \in Did(case, "CLOSED") : i < j
  /\ supportTime > SupportDue => supportCaseSla(case) \in {"BREACHED", "COMPLETE"}

-----------------------------------------------------------------------------
(***************************************************************************)
(* Reports and assistance: packages/ai governs which answers of a model    *)
(* are shown, packages/analytics which figures a finance report gives.     *)
(* Either acts only under a definition that its owner drafted, another     *)
(* person approved and that was then published.                            *)
(*                                                                         *)
(* An answer is abstracted to what decides on it, a finance record to its  *)
(* category, amount, provenance and the time it was processed; all are of  *)
(* the period and the tenant of the report.                                *)
(***************************************************************************)
CONSTANTS
  Reviewer,        \* who may check
  DefinitionOwner, \* who drafted the configuration and the metric
  Dimension,       \* what an evaluation must cover
  Evaluation,      \* evaluation runs: sequences of [dimension, passed]
  Answer,          \* answers: [capability, action, injected, evidence, cited, confidence]
  Capability,      \* what the configuration is for
  Abstains, Verifies, \* the confidence under which an answer is withheld, and verified
  FinanceRecord,   \* [id, category, amount, actual, processed, source]
  LedgerByCategory,\* what the ledger says, for the categories it is asked for
  AuthoritativeSource, Freshness,
  ReportTime,      \* bound: the times reports are made at
  MaxRecords,      \* bound: the records of a report
  NoAnswer, NoReport

ASSUME OversightAssumption ==
  /\ Abstains <= Verifies /\ MaxRecords \in Nat
  /\ \A results \in Evaluation : Len(results) \in Nat /\ DOMAIN results = 1 .. Len(results)
  /\ \A r \in FinanceRecord : r.amount \in Nat

VARIABLES
  configuration,   \* of the model: status, checker, killSwitch, results (of the approval)
  metric,          \* of the report: status, approver
  answer,          \* the last answer governed
  records,         \* the finance records there are
  report           \* the last report made

aiVars == <<configuration, answer>>
reportVars == <<metric, records, report>>

OversightInit ==
  /\ configuration = [status |-> "DRAFT", checker |-> "nobody", killSwitch |-> FALSE, results |-> <<>>]
  /\ metric = [status |-> "DRAFT", approver |-> "nobody"]
  /\ answer = NoAnswer /\ records = {} /\ report = NoReport

-----------------------------------------------------------------------------
(* packages/ai                                                             *)

\* Mutant of PassedLast: a dimension that was not evaluated does not fail.
PassedIfRun(results, d) ==
  \A i \in DOMAIN results :
    results[i].dimension = d /\ (\A j \in i + 1 .. Len(results) : results[j].dimension # d) =>
      results[i].passed

\* Of two results for one dimension the last counts.
PassedLast(results, d) ==
  \E i \in DOMAIN results :
    /\ results[i].dimension = d /\ results[i].passed
    /\ \A j \in i + 1 .. Len(results) : results[j].dimension # d

approveConfiguration(checker, results) ==
  /\ configuration.status = "DRAFT" /\ checker # DefinitionOwner
  /\ \A d \in Dimension : PassedLast(results, d)
  /\ configuration' = [configuration EXCEPT !.status = "APPROVED", !.checker = checker, !.results = results]
  /\ UNCHANGED answer

publishConfiguration ==
  /\ configuration.status = "APPROVED" /\ configuration.checker # "nobody"
  /\ configuration' = [configuration EXCEPT !.status = "PUBLISHED"]
  /\ UNCHANGED answer

\* An operator stops the model: the switch is part of the configuration.
Stop ==
  /\ configuration' = [configuration EXCEPT !.killSwitch = TRUE]
  /\ UNCHANGED answer

prohibitedActions == {"APPROVE", "EXECUTE", "MOVE_MONEY", "ALTER_ELIGIBILITY", "PUBLISH_CONFIGURATION"}

\* Evidence is [id, allowed]: of the tenant, authorised, immutable and of a class that the
\* configuration may see, or not.
PolicyDecision(a) ==
  IF configuration.status # "PUBLISHED" \/ a.capability # Capability THEN "BLOCK"
  ELSE IF configuration.killSwitch THEN "FALLBACK"
  ELSE IF a.action \in prohibitedActions \/ a.injected \/ \E e \in a.evidence : ~e.allowed THEN "BLOCK"
  ELSE IF a.cited = {} \/ ~(a.cited \subseteq {e.id : e \in a.evidence}) \/ a.confidence < Abstains
  THEN "ABSTAIN"
  ELSE IF a.confidence < Verifies THEN "VERIFY" ELSE "ALLOW"

\* Only an answer that is allowed, or is to be verified, shows anything.
governAiInteraction(a) ==
  LET decision == PolicyDecision(a) IN
  /\ answer' = [asked |-> a, decision |-> decision, under |-> configuration,
                shown |-> decision \in {"ALLOW", "VERIFY"}]
  /\ UNCHANGED configuration

-----------------------------------------------------------------------------
(* packages/analytics                                                      *)

approveMetric(approver) ==
  /\ metric.status = "DRAFT" /\ approver # DefinitionOwner
  /\ metric' = [status |-> "APPROVED", approver |-> approver]
  /\ UNCHANGED <<records, report>>

publishMetric ==
  /\ metric.status = "APPROVED" /\ metric.approver # "nobody"
  /\ metric' = [metric EXCEPT !.status = "PUBLISHED"]
  /\ UNCHANGED <<records, report>>

\* External: the finance processes record.
Record(r) ==
  /\ Cardinality(records) < MaxRecords
  /\ records' = records \cup {r}
  /\ UNCHANGED <<metric, report>>

Sum(of, category) == Total([r \in {x \in of : x.category = category} |-> r.amount])

Charge(of) == Sum(of, "POOL_COST_FUNDING") + Sum(of, "MARGIN_REVENUE") + Sum(of, "BUFFER_RESERVE")
PoolResult(of) ==
  Sum(of, "POOL_COST_FUNDING") + Sum(of, "BUFFER_RESERVE") + Sum(of, "HEDGE_RECOVERY")
    - Sum(of, "PROTECTION_CLAIM") - Sum(of, "HEDGE_COST")
NetEconomics(of) ==
  Charge(of) + Sum(of, "HEDGE_RECOVERY") - Sum(of, "PROTECTION_CLAIM") - Sum(of, "HEDGE_COST")

\* Mutant of Actual: what was simulated counts as earned.
AllRecords(of) == of

Actual(of) == {r \in of : r.actual}

\* Freshness is that of all records, those simulated included.
Quality(at) ==
  LET last == Max({0} \cup {r.processed : r \in records}) IN
  IF \E c \in DOMAIN LedgerByCategory : Sum(Actual(records), c) # LedgerByCategory[c] THEN "UNRECONCILED"
  ELSE IF \E s \in AuthoritativeSource : \A r \in Actual(records) : r.source # s THEN "INCOMPLETE"
  ELSE IF at - last > Freshness THEN "STALE" ELSE "CURRENT"

createFinanceReport(at) ==
  /\ metric.status = "PUBLISHED"
  /\ report' = [at |-> at, quality |-> Quality(at), of |-> records,
                pool |-> PoolResult(Actual(records)), net |-> NetEconomics(Actual(records))]
  /\ UNCHANGED <<metric, records>>

AiNext ==
  \/ \E c \in Reviewer, results \in Evaluation : approveConfiguration(c, results)
  \/ publishConfiguration \/ Stop
  \/ \E a \in Answer : governAiInteraction(a)

ReportNext ==
  \/ \E c \in Reviewer : approveMetric(c)
  \/ publishMetric
  \/ \E r \in FinanceRecord : Record(r)
  \/ \E at \in ReportTime : createFinanceReport(at)

-----------------------------------------------------------------------------
(* Properties                                                              *)

\* What was shown came from a configuration that someone other than its owner had approved
\* on an evaluation of every dimension, the last word on each being a pass; it cites
\* nothing outside the evidence allowed.
ShownWasGoverned ==
  answer # NoAnswer /\ answer.shown =>
    /\ answer.under.checker # DefinitionOwner
    /\ \A d \in Dimension :
         LET of == {i \in DOMAIN answer.under.results : answer.under.results[i].dimension = d}
         IN of # {} /\ answer.under.results[Max(of)].passed
    /\ answer.asked.cited \subseteq {e.id : e \in {x \in answer.asked.evidence : x.allowed}}

\* A report that is called current shows what the ledger shows: of the categories compared
\* the sums are the ledger's, and the net result is the pool's with the margin added,
\* whatever was simulated besides.
CurrentIsActual ==
  report # NoReport /\ report.quality = "CURRENT" =>
    LET earned == {r \in report.of : r.actual}
        Of(c) == Total([r \in {x \in earned : x.category = c} |-> r.amount])
    IN /\ \A c \in DOMAIN LedgerByCategory : Of(c) = LedgerByCategory[c]
       /\ report.net = report.pool + Of("MARGIN_REVENUE")

DefinitionsGovern == ShownWasGoverned /\ CurrentIsActual

-----------------------------------------------------------------------------
(***************************************************************************)
(* packages/enterprise-platform: publishing a customer's brand, deciding   *)
(* on a call to the programming interface and rehearsing the delivery of a *)
(* webhook.  A call is decided on the credential as the caller has it.     *)
(***************************************************************************)
CONSTANTS
  BrandPerson,     \* who may make and check
  Brand,           \* drafts: [id, problems]
  Scope,           \* the scopes of the interface
  Granted,         \* the scopes of the credential
  Tenant, OwnTenant,
  CredentialEnd,   \* when the credential expires
  CallTime,        \* bound: the times of calls
  DeliveryKey, Subscribed, \* idempotency keys; the events subscribed to
  EnterpriseEvent,
  MaxDeliveries    \* bound: the deliveries rehearsed

VARIABLES
  published,       \* brand -> [maker, checker], of the brands published
  credential,      \* "ACTIVE" or "REVOKED"
  subscription,    \* "ACTIVE" or "SUSPENDED"
  decision,        \* the reason given for the last decision on a call
  delivered,       \* the replay keys of the rehearsed deliveries
  deliveries       \* the deliveries, in order

enterpriseVars == <<published, credential, subscription, decision, delivered, deliveries>>

EnterpriseInit ==
  /\ published = EmptyMap /\ credential = "ACTIVE" /\ subscription = "ACTIVE"
  /\ decision = "NONE" /\ delivered = {} /\ deliveries = <<>>

\* Two people, one of them stepping up, and nothing wrong with the draft.
publishBrandConfiguration(b, maker, checker) ==
  /\ b.problems = {} /\ NewKey(published, b.id) /\ maker # checker
  /\ published' = Put(published, b.id, [maker |-> maker, checker |-> checker])
  /\ UNCHANGED <<credential, subscription, decision, delivered, deliveries>>

\* The first reason that applies is given.
authoriseEnterpriseApi(tenant, scope, at) ==
  /\ decision' = IF tenant # OwnTenant THEN "TENANT_MISMATCH"
                 ELSE IF credential # "ACTIVE" THEN "CREDENTIAL_INACTIVE"
                 ELSE IF at >= CredentialEnd THEN "CREDENTIAL_EXPIRED"
                 ELSE IF scope \notin Scope \cap Granted THEN "SCOPE_DENIED" ELSE "ALLOWED"
  /\ UNCHANGED <<published, credential, subscription, delivered, deliveries>>

\* A key is used up only by a delivery that was not blocked.
Status(event, key) ==
  IF subscription # "ACTIVE" \/ event \notin Subscribed THEN "BLOCKED"
  ELSE IF key \in delivered THEN "DUPLICATE_SUPPRESSED" ELSE "SIMULATED"

simulateWebhookDelivery(event, key) ==
  /\ Len(deliveries) < MaxDeliveries
  /\ deliveries' = Append(deliveries, [event |-> event, key |-> key, status |-> Status(event, key)])
  /\ delivered' = IF Status(event, key) = "SIMULATED" THEN delivered \cup {key} ELSE delivered
  /\ UNCHANGED <<published, credential, subscription, decision>>

\* External: the credential is revoked, the subscription suspended and taken up again.
Revoke ==
  /\ credential' = "REVOKED"
  /\ UNCHANGED <<published, subscription, decision, delivered, deliveries>>

Suspend(state) ==
  /\ subscription' = state
  /\ UNCHANGED <<published, credential, decision, delivered, deliveries>>

EnterpriseNext ==
  \/ \E b \in Brand, m \in BrandPerson, c \in BrandPerson : publishBrandConfiguration(b, m, c)
  \/ \E t \in Tenant, s \in Scope, at \in CallTime : authoriseEnterpriseApi(t, s, at)
  \/ \E e \in EnterpriseEvent, k \in DeliveryKey : simulateWebhookDelivery(e, k)
  \/ Revoke
  \/ \E state \in {"ACTIVE", "SUSPENDED"} : Suspend(state)

-----------------------------------------------------------------------------
(* Properties                                                              *)

\* A delivery that was blocked may be tried again under its key, and one that went out may
\* not: of the deliveries under one key at most one went out, and none before it was
\* suppressed as its duplicate.
DeliveredOnce ==
  \A i \in DOMAIN deliveries :
    LET earlier == {j \in 1 .. i - 1 : deliveries[j].key = deliveries[i].key
                                         /\ deliveries[j].status = "SIMULATED"}
    IN CASE deliveries[i].status = "SIMULATED"            -> earlier = {}
         [] deliveries[i].status = "DUPLICATE_SUPPRESSED" -> Cardinality(earlier) = 1
         [] OTHER                                         -> TRUE
=============================================================================
