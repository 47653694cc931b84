---------------------------- MODULE DemoControl ----------------------------
(***************************************************************************)
(* The demonstrator.  First the control of the customer price:             *)
(* packages/demo-control applies the presenter's commands to one snapshot  *)
(* in the memory of the control room, the route POST /api/demo/control     *)
(* takes actor and role from the session, and the bridge                   *)
(* (demo-control-bridge.tsx) shows the last answer it got.  What the       *)
(* customer app makes of the snapshot is CustomerApp's.                    *)
(* Then packages/demo-data: the scenarios, the runtime that starts them    *)
(* again and the records the demonstrator shows of them, and the audit     *)
(* timeline of one configuration change.                                   *)
(***************************************************************************)
EXTENDS Integers, Sequences, Maps

CONSTANTS
  Presenters,       \* the signed-in staff: [id, roles]
  Keys,             \* idempotency keys
  ControlEnvironment,
  AuditKept,        \* the ten audit events that are kept
  MaxSequence       \* bound: commands applied

ASSUME DemoAssumption == AuditKept \in Nat \ {0}

VARIABLES
  snapshot,   \* sequence, state, displayUnitPrice, quoteAvailability, audit
  bridge,     \* the page: the sequence it shows, the command under way, the first GET's answer
  stage,      \* the scenario runtime: [environment, clock, ready, reset]
  trail,      \* the audit events recorded, and whether one was recorded twice: [events, twice]
  inbox       \* what the replayed events, the notices and the provider's events have left

controlVars == <<snapshot, bridge>>
scenarioVars == <<stage>>
trailVars == <<trail>>
inboxVars == <<inbox>>

Commands == {"RESET_BASELINE", "PUBLISH_PRICE_RISE", "WITHDRAW_NEW_QUOTES"}

initialDemoControlSnapshot ==
  [sequence |-> 0, state |-> "BASELINE", displayUnitPrice |-> 342, quoteAvailability |-> "AVAILABLE",
   audit |-> <<>>]

NoCommand == [command |-> "none", key |-> "none", presenter |-> "none", answered |-> FALSE]

ControlInit ==
  /\ snapshot = initialDemoControlSnapshot
  /\ bridge = [shown |-> 0, busy |-> NoCommand, answer |-> 0, first |-> "sent", firstAnswer |-> 0]

-----------------------------------------------------------------------------
(* applyDemoControlCommand                                                 *)

Duplicate(key) == \E i \in DOMAIN snapshot.audit : snapshot.audit[i].eventId = key

\* A withdrawal keeps the price that is shown.
projection(s, command) ==
  CASE command = "RESET_BASELINE"     -> [s EXCEPT !.state = "BASELINE", !.displayUnitPrice = 342,
                                                   !.quoteAvailability = "AVAILABLE"]
    [] command = "PUBLISH_PRICE_RISE" -> [s EXCEPT !.state = "PRICE_RISE_PUBLISHED", !.displayUnitPrice = 367,
                                                   !.quoteAvailability = "AVAILABLE"]
    [] OTHER                          -> [s EXCEPT !.state = "NEW_QUOTES_WITHDRAWN",
                                                   !.quoteAvailability = "PAUSED"]

LastEvents(audit) ==
  IF Len(audit) <= AuditKept THEN audit ELSE SubSeq(audit, Len(audit) - AuditKept + 1, Len(audit))

applyDemoControlCommand(command, key, actor, role) ==
  LET event == [eventId |-> key, command |-> command, actorId |-> actor, role |-> role,
                sequence |-> snapshot.sequence + 1]
  IN [projection(snapshot, command) EXCEPT !.sequence = @ + 1, !.audit = LastEvents(Append(@, event))]

-----------------------------------------------------------------------------
(* The route and the bridge                                                *)

\* A presenter's role goes before a risk manager's; others are refused.
roleOf(presenter) ==
  CASE "DP" \in presenter.roles -> "DP"
    [] "DP" \notin presenter.roles /\ "RT" \in presenter.roles -> "RT"
    [] OTHER -> "other"

Press(presenter, command, key) ==
  /\ bridge.busy = NoCommand /\ snapshot.sequence < MaxSequence
  /\ bridge' = [bridge EXCEPT !.busy = [command |-> command, key |-> key, presenter |-> presenter.id,
                                        answered |-> FALSE]]
  /\ UNCHANGED snapshot

\* The same request may be sent again on its way: it carries the same key.
PostCommand(presenter) ==
  /\ bridge.busy # NoCommand /\ bridge.busy.presenter = presenter.id
  /\ LET refused == ControlEnvironment \notin {"demo", "staging"} \/ roleOf(presenter) = "other" IN
     /\ snapshot' = IF refused \/ Duplicate(bridge.busy.key) THEN snapshot
                    ELSE applyDemoControlCommand(bridge.busy.command, bridge.busy.key, presenter.id,
                                                 roleOf(presenter))
     /\ bridge' = [bridge EXCEPT !.busy.answered = TRUE,
                                 !.answer = IF refused THEN bridge.shown ELSE snapshot'.sequence]

\* The answer, or an error that leaves the page as it was.
CommandAnswer ==
  /\ bridge.busy # NoCommand
  /\ \/ bridge.busy.answered /\ bridge' = [bridge EXCEPT !.shown = bridge.answer, !.busy = NoCommand]
     \/ bridge' = [bridge EXCEPT !.busy = NoCommand, !.answer = 0]
  /\ UNCHANGED snapshot

\* The page's first GET is served, and answers when it likes: after a command's too.
ServeFirst ==
  /\ bridge.first = "sent"
  /\ bridge' = [bridge EXCEPT !.first = "served", !.firstAnswer = snapshot.sequence]
  /\ UNCHANGED snapshot

ApplyFirst ==
  /\ bridge.first = "served"
  /\ bridge' = [bridge EXCEPT !.first = "done", !.shown = bridge.firstAnswer, !.firstAnswer = 0]
  /\ UNCHANGED snapshot

\* The snapshot is kept in memory: the control room restarts at the baseline.
RestartControl ==
  /\ snapshot # initialDemoControlSnapshot
  /\ snapshot' = initialDemoControlSnapshot
  /\ UNCHANGED bridge

ControlNext ==
  \/ \E presenter \in Presenters : PostCommand(presenter)
       \/ \E command \in Commands, key \in Keys : Press(presenter, command, key)
  \/ CommandAnswer \/ ServeFirst \/ ApplyFirst \/ RestartControl

ControlSpec == ControlInit /\ [][ControlNext]_controlVars

-----------------------------------------------------------------------------
(* packages/demo-data: the scenarios                                       *)

US(region) == [country |-> "US", region |-> region, currency |-> "USD", unit |-> "US_GALLON"]
Elsewhere(country, region, currency, unit) ==
  [country |-> country, region |-> region, currency |-> currency, unit |-> unit]

\* Minutes from midnight of 21 August 2026, what a scenario ends in, the number of its
\* documentation assertions and the pairs of its fixed rates.
manifest(start, outcome, market, assertions, pairs) ==
  [start |-> start, outcome |-> outcome, market |-> market, assertions |-> assertions, pairs |-> pairs]

Day == 24 * 60
scenarioManifests ==
  [flat      |-> manifest(570, "PROTECTED_FLAT_MARKET", US("US-NY"), 2, {}),
   rise      |-> manifest(615, "SETTLED_WITHIN_BOUNDARY", US("US-NY"), 3, {}),
   breach    |-> manifest(855, "SETTLED_AT_BOUNDARY", US("US-TX"), 3, {}),
   falling   |-> manifest(690, "SETTLED_BELOW_REFERENCE", US("US-NY"), 3, {}),
   multilock |-> manifest(720, "PARTIAL_FILL_ALLOCATED", US("US-CA"), 3, {}),
   rollover  |-> manifest(Day + 540, "ROLLOVER_REPRICED", US("US-TX"), 3, {}),
   noquote   |-> manifest(Day + 600, "ROLLOVER_QUOTE_UNAVAILABLE", Elsewhere("UK", "GB-ENG", "GBP", "LITRE"), 3, {}),
   fraud     |-> manifest(Day + 660, "ELIGIBILITY_REVIEW_REQUIRED", Elsewhere("CA", "CA-ON", "CAD", "LITRE"), 2, {}),
   funding   |-> manifest(Day + 720, "PARTIAL_ROLLOVER_AFFORDABLE_VOLUME", US("US-FL"), 3, {}),
   fleet     |-> manifest(Day + 780, "FLEET_LIMITS_APPLIED", US("US-TX"), 3, {}),
   fx        |-> manifest(Day + 840, "FX_CONVERSIONS_BALANCED", Elsewhere("MULTI", "GLOBAL", "USD", "US_GALLON"), 2,
                          {"USD/CAD", "GBP/USD", "EUR/USD"}),
   exposure  |-> manifest(1005, "SIMULATED_HEDGE_RECOMMENDED", US("US-TX"), 3, {})]
ScenarioId == DOMAIN scenarioManifests

DemoEnvironment == {"demo", "staging", "production"}
NoAnswerYet == [scenario |-> "none"]

\* The record that is compared with the scenario's golden hash.
generatedScenarioRecord(id) ==
  LET selected == scenarioManifests[id] IN
  [scenario |-> id, time |-> selected.start, outcome |-> selected.outcome, market |-> selected.market,
   rates |-> selected.pairs]

\* An observation is identified by the scenario's seed and the role of the port.
observation(id, role) == [id |-> <<id, role>>, scenario |-> id, at |-> scenarioManifests[id].start]

collectMockObservations(id) ==
  {observation(id, role) : role \in {"price", "payment", "accounting", "communication", "ai"}
                                    \cup scenarioManifests[id].pairs
                                    \cup (IF id = "exposure" THEN {"hedge"} ELSE {})}

\* ScenarioRuntime.reset, at the clock it has set.
Ready(id, clock) ==
  [scenario |-> id, time |-> clock, evidence |-> <<id, "evidence">>, assertions |-> scenarioManifests[id].assertions]

\* The runtime's clock starts with the scenario it is made for.
ScenarioInit ==
  \E environment \in DemoEnvironment, initial \in ScenarioId :
    stage = [environment |-> environment, clock |-> scenarioManifests[initial].start,
             ready |-> NoAnswerYet, reset |-> NoAnswerYet]

\* Mutant of ResetClock: the runtime keeps its clock.
KeptClock(id) == stage.clock

ResetClock(id) == scenarioManifests[id].start

RuntimeReset(id) ==
  /\ stage.environment # "production"
  /\ stage' = [stage EXCEPT !.clock = ResetClock(id), !.ready = Ready(id, ResetClock(id))]

\* The route: a presenter names one of the scenarios and an idempotency key; the answer
\* comes from a runtime of its own.
PresenterScope(person) == "DP" \in person.roles

resetDemonstratorScenario(person, id, key) ==
  stage' = IF stage.environment = "production" \/ ~PresenterScope(person) \/ key = "blank"
           THEN [stage EXCEPT !.reset = NoAnswerYet]
           ELSE [stage EXCEPT !.reset = [scenario |-> id, by |-> person.id, key |-> key,
                                         ready |-> Ready(id, scenarioManifests[id].start),
                                         observations |-> collectMockObservations(id)]]

ScenarioNext ==
  \E id \in ScenarioId :
    \/ RuntimeReset(id)
    \/ \E person \in Presenters, key \in {"blank", "key"} : resetDemonstratorScenario(person, id, key)

-----------------------------------------------------------------------------
(* The records of the settlement scenarios                                 *)

\* Prices in tenths of a cent and whole gallons: ten of their products are a cent.
Engine == INSTANCE SettlementMath WITH Denominator <- 10
PumpPrice == [rise |-> 3900, breach |-> 4200, falling |-> 3400]
TwentyGallons == <<[quantity |-> 20, strike |-> 3675, boundary |-> 4025]>>

\* The amounts the manifests assert for twenty gallons locked at 3.675 up to 4.025.
AssertedAmounts ==
  [rise |-> [station |-> 7800, customer |-> 7350, pool |-> 450],
   breach |-> [station |-> 8400, customer |-> 7700, pool |-> 700],
   falling |-> [station |-> 6800, pool |-> 0, lower |-> 550]]

\* The journal the ledger workspace shows for the breach, and the safeguarded money.
Line(account, side, amount) == [account |-> account, side |-> side, amount |-> amount]
settlementJournal ==
  {Line("customer-protected-liability", "DEBIT", 7700), Line("fuelcap-claims-expense", "DEBIT", 700),
   Line("station-payable", "CREDIT", 8400)}
safeguardingProjection == [safeguarded |-> 212694000, liability |-> 210810400, inFlight |-> 1883600]

SideTotal(journal, side) ==
  Total([l \in {x \in journal : x.side = side} |-> l.amount])
journalBalance(journal) == SideTotal(journal, "DEBIT") = SideTotal(journal, "CREDIT")
safeguardingHolds ==
  safeguardingProjection.safeguarded = safeguardingProjection.liability + safeguardingProjection.inFlight

-----------------------------------------------------------------------------
(* The audit timeline of one change of an adapter's configuration          *)

Recorded(id, actor, assurance, outcome, causation) ==
  [id |-> id, actor |-> actor, assurance |-> assurance, outcome |-> outcome, causation |-> causation,
   organisation |-> "org-fuelcap-global"]

governedActionAuditChain ==
  {Recorded("01", "principal-data", "step-up", "REQUESTED", "none"),
   Recorded("02", "authz-policy", "service", "ALLOWED", "01"),
   Recorded("03", "principal-platform-checker", "step-up", "APPROVED", "02"),
   Recorded("04", "configuration-deployer", "service", "EXECUTED", "03"),
   Recorded("05", "health-verifier", "service", "VERIFIED", "04")}

exceptionalAuditEvents ==
  {Recorded("denied", "principal-data", "step-up", "DENIED", "01"),
   Recorded("expired", "approval-scheduler", "service", "EXPIRED", "01"),
   Recorded("superseded", "principal-data", "standard", "SUPERSEDED", "01"),
   Recorded("corrected", "audit-projection", "service", "CORRECTED", "superseded"),
   Recorded("stale", "audit-projection", "service", "REJECTED", "corrected")}

auditTimeline == governedActionAuditChain \cup exceptionalAuditEvents

\* The same kind of event of another tenant.
ForeignEvent ==
  [Recorded("foreign", "principal-other", "standard", "SUPERSEDED", "01") EXCEPT !.organisation = "org-other"]

Outcomes(events) == {e.outcome : e \in events}
eventsForOrganisation(events, organisation) == {e \in events : e.organisation = organisation}

\* Mutant of Caused: a cause may be missing.
CausedByAny(events) == TRUE

Caused(events) == \A e \in events : e.causation = "none" \/ \E c \in events : c.id = e.causation

validateAuditTimeline(events, twice) ==
  /\ ~twice
  /\ \A e, f \in events : e.organisation = f.organisation
  /\ Caused(events)

\* What the copilot says of a change: supported once the verification is among the events.
summariseAuditChain(events) == IF "VERIFIED" \in Outcomes(events) THEN "SUPPORTED" ELSE "ABSTAIN"

\* The export is of the tenant's events alone.
createSimulatedAuditExport(events, organisation) == eventsForOrganisation(events, organisation)

TrailInit == trail = [events |-> {}, twice |-> FALSE]

\* Events reach the timeline in any order, and one may reach it again.
TrailNext ==
  \E e \in auditTimeline \cup {ForeignEvent} :
    trail' = [events |-> trail.events \cup {e}, twice |-> trail.twice \/ e \in trail.events]

-----------------------------------------------------------------------------
(* The inboxes of the demonstrator: an event, a notice or a provider's     *)
(* event may come again.  [seen, journals, postings, queue, queued, keys,  *)
(* processed]                                                              *)

InboxInit ==
  inbox = [seen |-> {}, journals |-> {}, postings |-> 0, queue |-> {}, queued |-> 0, keys |-> {}, processed |-> 0]

\* Mutant of Unposted: the journals that are posted are not looked up.
NeverPosted(journal) == TRUE

Unposted(journal) == journal \notin inbox.journals

\* Every replayed event leads to the same journal.
replayEvent(event) ==
  /\ event \notin inbox.seen
  /\ inbox' = IF Unposted("replay")
              THEN [inbox EXCEPT !.seen = @ \cup {event}, !.journals = @ \cup {"replay"}, !.postings = @ + 1]
              ELSE [inbox EXCEPT !.seen = @ \cup {event}]

enqueueCommunication(key) ==
  /\ key \notin inbox.queue
  /\ inbox' = [inbox EXCEPT !.queue = @ \cup {key}, !.queued = @ + 1]

processProviderEvent(event) ==
  /\ event.signed /\ event.key \notin inbox.keys
  /\ inbox' = [inbox EXCEPT !.keys = @ \cup {event.key}, !.processed = @ + 1]

InboxNext ==
  \E name, key \in {"a", "b"}, signed \in BOOLEAN :
    \/ replayEvent(name) \/ enqueueCommunication(key)
    \/ processProviderEvent([name |-> name, key |-> key, signed |-> signed])

-----------------------------------------------------------------------------
(* Properties                                                              *)

\* The audit explains the published price: its events are numbered without a gap up to
\* the snapshot's sequence, no command in it is counted twice, only presenters and risk
\* managers are in it, and state, price and availability are what its last commands say.
ControlExplained ==
  LET audit == snapshot.audit
      last  == Len(audit)
      priced == {i \in DOMAIN audit : audit[i].command # "WITHDRAW_NEW_QUOTES"} IN
  /\ (snapshot.sequence = 0) = (audit = <<>>)
  /\ \A i \in DOMAIN audit :
       /\ audit[i].sequence = snapshot.sequence - last + i
       /\ audit[i].role \in {"DP", "RT"}
       /\ \A j \in DOMAIN audit : audit[j].eventId = audit[i].eventId => i = j
  /\ last > 0 => snapshot.state =
       CASE audit[last].command = "RESET_BASELINE"     -> "BASELINE"
         [] audit[last].command = "PUBLISH_PRICE_RISE" -> "PRICE_RISE_PUBLISHED"
         [] OTHER                                      -> "NEW_QUOTES_WITHDRAWN"
  /\ (snapshot.quoteAvailability = "PAUSED") = (snapshot.state = "NEW_QUOTES_WITHDRAWN")
  /\ \A i \in priced : (\A j \in priced : j <= i) =>
       (snapshot.displayUnitPrice = 367) = (audit[i].command = "PUBLISH_PRICE_RISE")

\* A scenario starts the same way whatever was started before: what the runtime and the
\* presenter's route answer for it has the time of the scenario's golden record and its
\* evidence, and no two scenarios share an observation.  What it is said to cost is what
\* the settlement engine computes, and the ledger's journal of it balances to the same.
ScenariosReproduce ==
  /\ \A answer \in {stage.ready, IF stage.reset = NoAnswerYet THEN NoAnswerYet ELSE stage.reset.ready} \ {NoAnswerYet} :
       answer.time = generatedScenarioRecord(answer.scenario).time /\ stage.environment # "production"
  /\ stage.reset # NoAnswerYet =>
       /\ \A o \in stage.reset.observations : o.scenario = stage.reset.scenario /\ o.at = stage.reset.ready.time
       /\ \A other \in ScenarioId \ {stage.reset.scenario} :
            collectMockObservations(other) \cap stage.reset.observations = {}
  /\ \A id \in DOMAIN AssertedAmounts :
       LET money == Engine!Figures(PumpPrice[id], TwentyGallons, 0) IN
       /\ \A figure \in DOMAIN AssertedAmounts[id] : AssertedAmounts[id][figure] = money[figure]
       /\ Engine!Balances(money)
  /\ journalBalance(settlementJournal) /\ SideTotal(settlementJournal, "CREDIT") = AssertedAmounts.breach.station
  /\ safeguardingHolds

\* Whatever part of the timeline has arrived, once it is valid a supported summary is true:
\* the change was asked for, allowed, approved after a step-up by somebody else than who
\* asked, and carried out before it was verified; and no other tenant's event is exported.
SummariesAreProven ==
  LET events == trail.events IN
  validateAuditTimeline(events, trail.twice) =>
    /\ summariseAuditChain(events) = "SUPPORTED" =>
         /\ {"REQUESTED", "ALLOWED", "EXECUTED"} \subseteq Outcomes(events)
         /\ \E a, r \in events :
              /\ a.outcome = "APPROVED" /\ a.assurance = "step-up"
              /\ r.outcome = "REQUESTED" /\ a.actor # r.actor
    /\ createSimulatedAuditExport(events, "org-fuelcap-global") \in {events, {}}

\* However often and in whatever order they come, one journal is posted once, and a notice
\* or a payment once for its key.
RepeatsCountOnce ==
  /\ inbox.postings = Cardinality(inbox.journals) /\ inbox.postings <= 1
  /\ inbox.queued = Cardinality(inbox.queue) /\ inbox.processed = Cardinality(inbox.keys)
=============================================================================
