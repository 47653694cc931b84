----------------------------- MODULE MCPricing -----------------------------
(* The pricing and the finance packages for TLC.  They share no state but   *)
(* what the instance hands over, and the pricing of locks in the database   *)
(* none at all, so they are explored one at a time: the one that moves is   *)
(* chosen at the start.                                                     *)
EXTENDS PriceEvidence, SpreadQuotes, MarketModels, RulesEngine,
        Billing, RiskCapital, LockPricing, SpreadDesk, TLC

Period(a, b) == [from |-> a, to |-> b]

-----------------------------------------------------------------------------
\* Ingestion and benchmark: three sound records, one of them a correction, one no pump
\* stands behind, and one record for each thing that can be wrong.
ProviderData ==
  1 :> [markets |-> {"GB"}, active |-> TRUE, effective |-> Period(0, 9), canonical |-> TRUE, derived |-> FALSE]
  @@ 2 :> [markets |-> {"GB"}, active |-> TRUE, effective |-> Period(0, 9), canonical |-> FALSE, derived |-> TRUE]
ProductData ==
  "E10" :> [market |-> "GB", denomination |-> "GBP/L", active |-> TRUE, effective |-> Period(0, 9)]
StationData ==
  "s1" :> [market |-> "GB", active |-> TRUE, effective |-> Period(2, 9)]
  @@ "s2" :> [market |-> "US", active |-> TRUE, effective |-> Period(0, 9)]

Price(whole, fraction, places) == [whole |-> whole, fraction |-> fraction, places |-> places]
Record(hash, record, price, stations) ==
  [hash |-> hash, record |-> record, provider |-> 1, product |-> "E10", station |-> "s1",
   wellFormed |-> TRUE, price |-> price, denomination |-> "GBP/L", kind |-> "ACTUAL_PUMP",
   requested |-> {"DISPLAY", "QUOTE"}, observedAt |-> 3, receivedAt |-> 4, stations |-> stations]

Envelopes ==
  { Record(1, 1, Price(1, 30, 2), 1), Record(2, 1, Price(1, 4, 1), 1),
    Record(3, 3, Price(1, 5, 1), 2), Record(4, 4, Price(1, 25, 2), 0),
    [Record(5, 5, Price(1, 1, 1), 3) EXCEPT !.provider = 2, !.requested = {"DISPLAY", "SIMULATE"}],
    [Record(6, 6, Price(9, 9, 1), 3) EXCEPT !.kind = "REFERENCE", !.station = NoStation],
    [Record(7, 7, Price(1, 9, 1), 3) EXCEPT !.provider = 2],
    Record(8, 8, Price(1, 12345, 5), 3),
    [Record(9, 9, Price(1, 4, 1), 3) EXCEPT !.observedAt = 2, !.receivedAt = 8],
    [Record(10, 10, Price(1, 4, 1), 3) EXCEPT !.observedAt = 6],
    [Record(11, 11, Price(1, 4, 1), 3) EXCEPT !.station = "s2"],
    [Record(12, 12, Price(1, 4, 1), 3) EXCEPT !.denomination = "GBP/gal"],
    [Record(13, 13, Price(1, 4, 1), 3) EXCEPT !.product = "E5"] }

BenchmarkPolicies ==
  [minimumCandidates : {1, 2}, minimumCoverage : {5000}, maximumDispersion : {700, 2000},
   expectedStations : {4}]

-----------------------------------------------------------------------------
\* Spread and quotes: one policy whose limit is tightened, adjustments that raise the
\* charge, lower it below cost, or break the limit; two decisions after the seeded one.
Bps(cost, margin, reserve) == [cost |-> cost, margin |-> margin, reserve |-> reserve]
PolicyVersion(total) ==
  [id |-> "P", maximumTotal |-> total, default |-> Bps(2, 2, 1), maximumChange |-> 1,
   minimumRecovery |-> 2, maximumExposure |-> 3]
SpreadPolicies == {PolicyVersion(6), PolicyVersion(5)}
Adjustments == {Bps(0, 1, 0), Bps(-1, 0, 0), Bps(3, 3, 3)}
Cohorts == {{[name |-> "all", quantity |-> 2]}, {[name |-> "all", quantity |-> 2], [name |-> "fleet", quantity |-> 2]}}
SeededDecision ==
  "d0" :> [policy |-> "P", limits |-> PolicyVersion(6), components |-> Bps(2, 2, 1), total |-> 5,
           proposal |-> "p0", maker |-> "m1", checker |-> "m2", publishedAt |-> 0]
ProductOnSale(from, active) ==
  [segment |-> "PERSONAL", active |-> active, from |-> from, to |-> 3, maximumVolume |-> 20000,
   strikeDistance |-> 500, boundaryDistance |-> 1500]
SaleCatalogue == << ProductOnSale(0, FALSE), ProductOnSale(0, TRUE) >>
Request(at, volume, segment) == [at |-> at, volume |-> volume, segment |-> segment]
Requests == {Request(1, 15001, "PERSONAL"), Request(2, 20000, "PERSONAL"), Request(2, 20001, "PERSONAL"),
             Request(1, 100, "FLEET")}
Benchmarks == {[status |-> "PUBLISHED", price |-> 35001], [status |-> "BLOCKED", price |-> NoPrice]}

\* The spread workspace: a maker who is the usual checker, one who is not, an operator.
SpreadUsers ==
  {[id |-> "principal-rt-checker", roles |-> {"RT"}, organisations |-> {"org-fuelcap-global"}],
   [id |-> "rt", roles |-> {"RT"}, organisations |-> {"org-fuelcap-global", "org-fleet"}],
   [id |-> "op", roles |-> {"OP"}, organisations |-> {"org-fuelcap-global"}]}
TypedValues == {-10, 0, 30, 80, 120, 130, 140, 420}

-----------------------------------------------------------------------------
\* FX: two legs of a triangle and a stale one; rates of tenths, four points to the whole.
Rate(base, quote, rate, at) == [base |-> base, quote |-> quote, rate |-> rate, observedAt |-> at, ingestedAt |-> at]
FxObservations == {Rate("USD", "GBP", 8, 1), Rate("GBP", "EUR", 12, 1), Rate("USD", "GBP", 7, 2)}

-----------------------------------------------------------------------------
FxParts == {Bps(1, 1, 0), Bps(1, 1, 1)}

\* Rules: a sound version that lists two versions of one rule, one without a fallback, one
\* whose types and conditions are wrong, one with a rule twice.
Number(n) == <<"NUMBER", n>>
Flag(n) == <<"BOOLEAN", n>>
Where(fact, operator, value) == [fact |-> fact, operator |-> operator, value |-> value]
Rule(id, version, precedence, conditions, outcome) ==
  [id |-> id, version |-> version, precedence |-> precedence, conditions |-> conditions, outcome |-> outcome]
SoundRules ==
  << Rule(3, 2, "PROMOTION_CUSTOMER_CHOICE", {Where("risk", "LTE", Number(0))}, "DISCOUNT"),
     Rule(3, 1, "PROMOTION_CUSTOMER_CHOICE", {Where("risk", "LTE", Number(1))}, "REBATE"),
     Rule(2, 1, "RISK_FRAUD", {Where("risk", "GT", Number(1)), Where("frozen", "NEQ", Flag(1))}, "REVIEW"),
     Rule(1, 1, "PROHIBITION_INVALIDITY", {Where("frozen", "EQ", Flag(1))}, "REFUSE"),
     Rule(4, 1, "DEFAULT", {}, "ALLOW") >>
BadRules ==
  << Rule(1, 1, "RISK_FRAUD", {Where("risk", "EQ", Number(1)), Where("risk", "EQ", Number(2)),
                            Where("frozen", "GTE", Number(0)), Where("age", "LT", Number(1))}, "REFUSE"),
     Rule(4, 1, "DEFAULT", {Where("risk", "IN", {Number(0)})}, "ALLOW") >>
RuleSets ==
  "v1" :> [from |-> 0, to |-> 2, rules |-> SoundRules]
  @@ "v2" :> [from |-> 1, to |-> 3, rules |-> [SoundRules EXCEPT ![5].conditions = {Where("risk", "EQ", Number(0))}]]
  @@ "v3" :> [from |-> 2, to |-> 1, rules |-> BadRules]
  @@ "v4" :> [from |-> 0, to |-> 2, rules |-> [SoundRules EXCEPT ![2].version = 2]]
Schema == "risk" :> "NUMBER" @@ "frozen" :> "BOOLEAN"
AllFacts == {[f \in {"risk", "frozen"} |-> IF f = "risk" THEN Number(n) ELSE Flag(b)] : n \in 0..2, b \in 0..1}
            \cup {"risk" :> Number(1)}
Scenarios == {[facts |-> "risk" :> Number(0) @@ "frozen" :> Flag(b), at |-> 1,
               expected |-> IF b = 1 THEN "REFUSE" ELSE "DISCOUNT"] : b \in 0..1}

-----------------------------------------------------------------------------
\* Basis: three series of six points.
BasisSeries == { <<3, 5, 2, 6, 4, 5>>, <<1, 2, 3, 4, 5, 6>>, <<2, 2, 9, 2, 2, 2>>, <<1, 2, 3>> }
Candidates ==
  {[id |-> 1, strategy |-> "ROLLING_MEAN", window |-> 2], [id |-> 2, strategy |-> "ROLLING_MEDIAN", window |-> 3],
   [id |-> 3, strategy |-> "ROLLING_MEAN", window |-> 3], [id |-> 4, strategy |-> "ROLLING_MEDIAN", window |-> 4]}
BasisPolicies ==
  {[minimumObservations |-> 4, minimumHoldout |-> 2, meanError |-> 3, maximumError |-> e, bias |-> 2,
    windows |-> {2, 3, 4}, strategies |-> {"ROLLING_MEAN", "ROLLING_MEDIAN"}] : e \in {3, 5}}

-----------------------------------------------------------------------------
\* Bulletins of two weeks, a correction, an incomplete one and one with wrong headers.
Bulletin(hash, effective, supersedes) ==
  [hash |-> hash, effective |-> effective, published |-> effective + 1, sound |-> TRUE,
   rows |-> {"AT", "BE"} \X (1..4), supersedes |-> supersedes]
Workbooks ==
  { Bulletin("w1", 0, NoWorkbook), Bulletin("w2", 7, NoWorkbook), Bulletin("w3", 7, "w2"),
    [Bulletin("w4", 7, NoWorkbook) EXCEPT !.rows = {"AT"} \X (1..4)],
    [Bulletin("w5", 7, "w5") EXCEPT !.sound = FALSE] }

-----------------------------------------------------------------------------
\* Two payments that share a key and differ in amount, a subscription and a live command;
\* a success, a second success and a wrong one for the same payment, a subscription event.
Creating(kind, key, amount, mode) ==
  [kind |-> kind, key |-> key, wallet |-> "w", amount |-> amount, mode |-> mode]
Commands ==
  {Creating("payment", "k", 2, "TEST"), Creating("payment", "k", 3, "TEST"),
   Creating("subscription", "s", 1, "TEST"), Creating("payment", "l", 2, "LIVE")}
Says(id, type, object, amount, status) ==
  [id |-> id, type |-> type, object |-> object, amount |-> amount, status |-> status, live |-> FALSE]
Bodies ==
  {Says(1, "payment", "o1", 2, "SUCCEEDED"), Says(2, "payment", "o1", 2, "SUCCEEDED"),
   Says(2, "payment", "o1", 3, "SUCCEEDED"), Says(3, "subscription", "o2", 0, "PROCESSING"),
   Says(3, "subscription", "o2", 0, "UNKNOWN"), [Says(4, "other", "o1", 0, "PROCESSING") EXCEPT !.live = TRUE]}

\* Two versions of one item, the later one not yet in force at first; three components.
Items ==
  {[version |-> v, amount |-> v, from |-> v - 1, to |-> 3, active |-> TRUE] : v \in {1, 2}}
  \cup {[version |-> 3, amount |-> 9, from |-> 0, to |-> 3, active |-> FALSE]}
Rates == "MODELLED_PROTECTION_COST" :> 2 @@ "MARGIN" :> 3 @@ "BUFFER" :> 1

-----------------------------------------------------------------------------
\* Two positions, and a closed one of another currency; a suite of two stresses.
Accepted(quantity, spread, claim, customer) ==
  [quantity |-> quantity, spread |-> spread, claim |-> claim, customer |-> customer,
   status |-> "ACCEPTED", currency |-> "USD"]
HedgePositions ==
  {Accepted(2, 3, 1, "c1"), Accepted(3, 2, 2, "c2"),
   [Accepted(1, 1, 0, "c1") EXCEPT !.currency = "GBP", !.status = "CLOSED"]}
Limit(quantity, coverage) ==
  [quantity |-> quantity, value |-> 6, concentration |-> 10, coverage |-> coverage]
Suite(payoff) ==
  "BOUNDARY_BREACH" :> [claim |-> 10, payoff |-> payoff, residual |-> 1]
  @@ "COUNTERPARTY_FAILURE" :> [claim |-> 5, payoff |-> payoff, residual |-> 0]
Limits == {Limit(4, 5)}
Suites == {Suite(12)}
HedgeOf(id, quantity, premium, payoff, correlation, party, ease) ==
  [id |-> id, quantity |-> quantity, premium |-> premium, payoff |-> payoff, correlation |-> correlation,
   counterparty |-> party, liquidity |-> ease]
\* The first two differ only in their counterparty, the fourth is badly correlated, the
\* fifth cannot be sold.
HedgeCandidates ==
  {HedgeOf(1, 2, 1, 3, 9, "A", 9), HedgeOf(2, 2, 1, 3, 9, "B", 8), HedgeOf(3, 1, 3, 5, 8, "A", 9),
   HedgeOf(4, 1, 0, 5, 5, "B", 9), HedgeOf(5, 1, 0, 5, 9, "B", 4)}
HedgePolicies ==
  {[premium |-> 3, quantity |-> 4, correlation |-> c, liquidity |-> 8, concentration |-> 6,
    residualWeight |-> 10, premiumWeight |-> 2, basisPenaltyWeight |-> 3] : c \in {5, 8}}
  \cup
  {[premium |-> 3, quantity |-> 4, correlation |-> 8, liquidity |-> l, concentration |-> 10,
    residualWeight |-> 1, premiumWeight |-> 10, basisPenaltyWeight |-> 10] : l \in {4, 8}}

\* A period with a movement of each kind; a scenario that changes nothing and one that does.
Movements ==
  {[category |-> "COST_FUNDING", amount |-> 3], [category |-> "BUFFER_CONTRIBUTION", amount |-> 1],
   [category |-> "HEDGE_RECOVERY", amount |-> 2], [category |-> "APPROVED_TRANSFER_IN", amount |-> 1],
   [category |-> "CLAIM_UTILISATION", amount |-> 2], [category |-> "HEDGE_PREMIUM", amount |-> 1],
   [category |-> "APPROVED_TRANSFER_OUT", amount |-> 1]}
ScenarioChanges == {Unchanging, [Unchanging EXCEPT !.funding = -5, !.claim = 5, !.out = 1]}
Flow(day, amount, direction) == [day |-> day, amount |-> amount, direction |-> direction]
CashFlows == {Flow(1, 2, "IN"), Flow(1, 3, "OUT"), Flow(2, 1, "IN"), Flow(3, 2, "OUT")}
LiquidityPolicies == {[closing |-> 1, coverage |-> 12, outflow |-> o] : o \in {2, 3}}
Programmes ==
  {[attachment |-> 1, limit |-> 4, share |-> 8, collateral |-> c, concentrated |-> FALSE, ready |-> r] :
     c \in {1, 4}, r \in BOOLEAN}
  \cup {[attachment |-> 1, limit |-> 4, share |-> 12, collateral |-> 5, concentrated |-> r, ready |-> TRUE] :
          r \in BOOLEAN}
Signals ==
  {[score |-> 2, weight |-> 1, subject |-> "c1"], [score |-> 9, weight |-> 2, subject |-> "c1"],
   [score |-> 9, weight |-> 1, subject |-> "c2"]}
Outcomes == [n \in 0..10 |-> IF n > 7 THEN "TEMPORARY_HOLD" ELSE IF n > 5 THEN "HUMAN_REVIEW" ELSE "ALLOW"]

-----------------------------------------------------------------------------
\* Two stations of one provider and one of another; the second is the dearest at first.
PumpChains == [p \in {"p1", "p2", "p3"} |-> IF p = "p3" THEN "B" ELSE "A"]
FirstPrices == [p \in {"p1", "p2", "p3"} |-> IF p = "p2" THEN 3 ELSE 2]

-----------------------------------------------------------------------------
\* Snapshots without fault, with each kind of fault, at its limits and with what only warns;
\* drafts that cite, invent, are unsure, or come with instructions.
Snapshot(at, age, coverage, dispersion) ==
  [at |-> at, evidence |-> {<<"e0", "e1">>[at + 1]}, engines |-> {"benchmark"}, age |-> age, coverage |-> coverage,
   dispersion |-> dispersion, published |-> TRUE, quoted |-> TRUE, components |-> 5, total |-> 5,
   fx |-> TRUE, rules |-> TRUE, quarantined |-> 0]
ControlSnapshots ==
  LET sound == Snapshot(0, 2, 8, 3) IN
  {sound, Snapshot(1, 2, 9, 0), Snapshot(1, 3, 8, 3), Snapshot(1, 2, 7, 3), Snapshot(1, 2, 8, 4),
   Snapshot(1, 2, 8, NoDispersion), [sound EXCEPT !.published = FALSE], [sound EXCEPT !.quoted = FALSE],
   [sound EXCEPT !.total = 6], [sound EXCEPT !.fx = FALSE], [sound EXCEPT !.rules = FALSE],
   [sound EXCEPT !.quarantined = 1]}
Drafted(action, confidence, cited) ==
  [action |-> action, confidence |-> confidence, cited |-> cited, sound |-> TRUE, injected |-> FALSE]
Drafts ==
  {Drafted("KEEP_CURRENT", c, {"e0"}) : c \in {5, 6, 9}}
  \cup {Drafted("ESCALATE_INCIDENT", 9, {"e0"}), Drafted("DRAFT_SPREAD_CHANGE", 9, {"e0", "e1"}),
        Drafted("KEEP_CURRENT", 9, {"benchmark"}), Drafted("KEEP_CURRENT", 9, {}),
        Drafted("KEEP_CURRENT", 9, {"e0", "invented"}),
        [Drafted("KEEP_CURRENT", 9, {"e0"}) EXCEPT !.injected = TRUE],
        [Drafted("KEEP_CURRENT", 9, {"e0"}) EXCEPT !.sound = FALSE]}

-----------------------------------------------------------------------------
\* Two vehicles of one organisation and one of another; limits that are lowered, raised,
\* given to another group, end again, or are not sound.
Vehicles ==
  [v \in {"v1", "v2", "v3"} |->
     [organisation |-> IF v = "v3" THEN "O2" ELSE "O1", group |-> IF v = "v2" THEN "G2" ELSE "G1", active |-> TRUE]]
Policy(version, from, to, perVehicle, perOrganisation) ==
  [organisation |-> "O1", group |-> "G1", version |-> version, from |-> from, to |-> to,
   perVehicle |-> perVehicle, perOrganisation |-> perOrganisation]
FleetPolicies ==
  {Policy(2, f, 9, n, 4) : f \in 0..2, n \in {1, 4}}
  \cup {Policy(1, 1, 9, 1, 1), Policy(3, 1, 2, 3, 3), Policy(2, 1, 9, 3, 2),
        [Policy(2, 0, 9, 4, 4) EXCEPT !.group = "G2"], [Policy(9, 0, 9, 4, 4) EXCEPT !.organisation = "O2"]}
FleetSeeds == << Policy(1, 0, 9, 3, 3) >>
Asks(organisation, v, requested, vehicleUsed, organisationUsed) ==
  [organisation |-> organisation, vehicle |-> v, requested |-> requested, vehicleUsed |-> vehicleUsed,
   organisationUsed |-> organisationUsed]
FleetRequests ==
  {Asks("O1", "v1", 1, 1, 1), Asks("O1", "v1", 1, 2, 2), Asks("O1", "v1", 2, 0, 2), Asks("O1", "v2", 1, 0, 0),
   Asks("O1", "v3", 1, 0, 0)}

-----------------------------------------------------------------------------
VARIABLE machine   \* the one that moves

pricingVars == <<priceVars, spreadVars, fxVars, ruleVars, basisVars, euVars, controlVars, fleetVars, spreadDeskVars>>
financeVars == <<paymentVars, invoiceVars, hedgeVars, capitalVars, lockPriceVars>>

Init ==
  /\ machine \in {"price", "spread", "fx", "rules", "basis", "eu", "control", "fleet", "desk",
                  "payments", "invoices", "hedging", "plans", "pool", "treasury", "holds", "locks"}
  /\ PriceEvidenceInit /\ SpreadInit /\ FxInit /\ RulesInit /\ BasisInit /\ EuInit /\ ControlInit /\ FleetInit /\ SpreadDeskInit
  /\ PaymentsInit /\ InvoicingInit /\ HedgingInit /\ CapitalInit /\ LockPricingInit
  /\ machine # "pool" => scenario.change = Unchanging /\ scenario.maker = "m1"
  /\ machine # "desk" => spreadUser.id = "rt" /\ spreadPage.organisation = "org-fuelcap-global"
  /\ machine # "control" => control = Snapshot(0, 2, 8, 3)
  /\ machine # "treasury" => programme.maker = "m1" /\ programme.terms.ready /\ programme.terms.collateral = 1

PricingNext ==
  \/ /\ machine = "price" /\ PriceEvidenceNext
     /\ UNCHANGED <<spreadVars, fxVars, ruleVars, basisVars, euVars, controlVars, fleetVars, spreadDeskVars>>
  \/ /\ machine = "spread" /\ SpreadNext
     /\ UNCHANGED <<priceVars, fxVars, ruleVars, basisVars, euVars, controlVars, fleetVars, spreadDeskVars>>
  \/ /\ machine = "fx" /\ FxNext
     /\ UNCHANGED <<priceVars, spreadVars, ruleVars, basisVars, euVars, controlVars, fleetVars, spreadDeskVars>>
  \/ /\ machine = "rules" /\ RulesNext
     /\ UNCHANGED <<priceVars, spreadVars, fxVars, basisVars, euVars, controlVars, fleetVars, spreadDeskVars>>
  \/ /\ machine = "basis" /\ BasisNext
     /\ UNCHANGED <<priceVars, spreadVars, fxVars, ruleVars, euVars, controlVars, fleetVars, spreadDeskVars>>
  \/ /\ machine = "eu" /\ EuNext
     /\ UNCHANGED <<priceVars, spreadVars, fxVars, ruleVars, basisVars, controlVars, fleetVars, spreadDeskVars>>
  \/ /\ machine = "control" /\ ControlNext
     /\ UNCHANGED <<priceVars, spreadVars, fxVars, ruleVars, basisVars, euVars, fleetVars, spreadDeskVars>>
  \/ /\ machine = "fleet" /\ FleetNext
     /\ UNCHANGED <<priceVars, spreadVars, fxVars, ruleVars, basisVars, euVars, controlVars, spreadDeskVars>>
  \/ /\ machine = "desk" /\ SpreadDeskNext
     /\ UNCHANGED <<priceVars, spreadVars, fxVars, ruleVars, basisVars, euVars, controlVars, fleetVars>>

FinanceNext ==
  \/ machine = "payments" /\ PaymentsNext /\ UNCHANGED <<invoiceVars, hedgeVars, capitalVars, lockPriceVars>>
  \/ machine = "invoices" /\ InvoicingNext /\ UNCHANGED <<paymentVars, hedgeVars, capitalVars, lockPriceVars>>
  \/ machine = "hedging" /\ HedgingNext /\ UNCHANGED <<paymentVars, invoiceVars, capitalVars, lockPriceVars>>
  \/ machine = "plans" /\ PlanNext /\ UNCHANGED <<paymentVars, invoiceVars, capitalVars, lockPriceVars>>
  \/ machine = "pool" /\ PoolNext /\ UNCHANGED <<paymentVars, invoiceVars, hedgeVars, lockPriceVars>>
  \/ machine = "treasury" /\ TreasuryNext /\ UNCHANGED <<paymentVars, invoiceVars, hedgeVars, lockPriceVars>>
  \/ machine = "holds" /\ HoldNext /\ UNCHANGED <<paymentVars, invoiceVars, hedgeVars, lockPriceVars>>
  \/ machine = "locks" /\ LockPricingNext /\ UNCHANGED <<paymentVars, invoiceVars, hedgeVars, capitalVars>>

Next ==
  \/ PricingNext /\ UNCHANGED <<machine, financeVars>>
  \/ FinanceNext /\ UNCHANGED <<machine, pricingVars>>

Spec == Init /\ [][Next]_<<machine, pricingVars, financeVars>>

-----------------------------------------------------------------------------
\* What is published is complete and has been earned: rules that answer every fact, bulletins
\* without a gap, models that beat their holdout, recommendations with their evidence,
\* fleet limits that do not change behind what they decided, a spread's lifecycle that is the
\* draft's on the page, rates that go from their base to their quote.
PublishedSound ==
  PublishedAlwaysAnswers /\ ActiveReleaseComplete /\ ModelsEarned /\ RecommendationsGrounded
  /\ FleetDecisionsStand /\ (machine = "desk" => LifecycleOfTheDraft /\ RatesKeepDirection)

\* Every sum that money is decided on is that of the records behind it: payments and what
\* they fund, invoices, the capital of the pool.
MoneyAddsUp == FundedAsReceived /\ InvoicesAddUp /\ CapitalAddsUp

\* The page and the call price a lock alike, a wider lock costs no less, and a quote rests on
\* what was observed; only looked at where the tables of the locks can change.
LocksCostWhatIsShown == machine = "locks" => LocksPriced
=============================================================================
