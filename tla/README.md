# Fuel Cap in TLA+

Fuel Cap sells protection against a rise of the pump price: a customer sets money aside for a volume of fuel at
a strike price, pays at the pump with a card, and a pool pays the rise above the strike up to a boundary. The
repository is a TypeScript monorepo: engines (`packages/`), a customer app (`src/`) over a Supabase database
(`supabase/migrations/`), an operations console (`apps/admin/`) and a landing page (`landing-page/`).

This directory specifies its control in TLA+, model-checks it with TLC and proves theorems about parts of it with
TLAPS. `PROJECT.json` maps every definition to the lines it models and lists the hazards each property is for.

Contents: [system](#the-system) · [modules](#modules) · [from code to model](#from-code-to-model) ·
[runs](#runs-and-bounds) · [fairness](#fairness) · [proofs](#proofs) ·
[disagreements](#where-code-and-documents-disagree) · [not modelled](#not-modelled) · [what is left](#what-is-left)

## The system

| part | state it keeps | who else acts on it | what makes it correct |
|---|---|---|---|
| **money engines**: card simulator, allocation, settlement, ledger, wallet, reconciliation | authorizations, clearings, remaining volume, decisions, journals, breaks | a carrier outside the repository that hands evidence on, in any order and more than once | value and volume are conserved; a retry acts once; postings balance after three roundings; breaks stop money |
| **price locks** (SQL): `create_demo_lock`, `create_scoped_demo_lock`, `redeem_demo_fuel`, `get_current_lock_options` | locks, transactions, quotes, observed prices, stations and providers | concurrent sessions, the feed, operators | no lost update; a lock is only drawn down; it costs what the page showed |
| **price feed**: Fuel Finder client, persistence, routes | shared token, ingestion runs, stations, observations | a workflow that retries and so overlaps itself, readers, the external service | a snapshot is whole, what a run says it stored is stored, prices never turn back |
| **customer app** | page, localStorage, cloud account, registration | the database, the price list, the presenter's control price, other tabs | no money appears or vanishes; a registration is verified before it counts |
| **pricing packages**: ingestion, benchmark, spread, quote, pricing control, fx, rules, basis, EU bulletins | evidence kept by a caller | people with separate roles, time | fails closed on stale or disputed evidence; published means approved by two, on what was shown |
| **finance packages**: payments, invoices, hedging, pool, treasury, risk, fleet limits | records, webhooks, invoices, snapshots, transfers, holds | a payment provider that repeats and reorders events, makers and checkers | sums are those of the records behind them; what is executed is what was approved |
| **operations console**: sign-in, staff, control room, governed requests, cases and alerts, presenter's control | sessions, cookies, `admin_staff`, audit log, pages | several browsers, administrators, the server's restarts | privileged calls stand under a fresh step-up; histories tell what happened |
| **release and partners**: deployment script, production readiness, compliance gate, partner adapters, support, AI and analytics governance, enterprise interface | deployments, evidence rooms, gates, events | the hosting platform, partners, expiring evidence | what goes live is what was proven |
| **landing page**: waiting list, page views, contact, dashboard | rows in a database or JSON files, sessions | two tabs, lost posts, a process that may end in a write | a completion is recorded; a reader gets an answer that was true |

The engines and packages never call each other: each is a synchronous method or a pure function from state and
command to the next state, and emits the evidence the next one takes. Concurrency is where something is awaited or
shared: database sessions, ingestion runs (`curl --retry 2 --max-time 360` starts a second refresh while the first
still runs), paged fetching with a shared token, routes of the console, the payment adapter, React pages whose
answers come late, the file store of the landing page, a deployment among others. What is hard there is listed as
hazards in `PROJECT.json`, each at its line.

## Modules

| module | models | state and actions |
|---|---|---|
| `Maps` | `Map`, `reduce` | `Put`, `NewKey` (the idempotency replay), `Total` |
| `CardSimulator` | `packages/card-simulator` | one action per method over the class's Maps |
| `Allocation` | `packages/allocation-engine` | the greedy loop as a closed form: what is wanted after all earlier positions are emptied |
| `SettlementMath`, `Settlement` | `packages/settlement-engine` | arithmetic over an even `Denominator` (1 000 000 in the code), then the operation |
| `Ledger`, `Wallet` | `packages/ledger`, `packages/wallet` | `journals`; balances and activity are folds of it |
| `Reconciliation` | `packages/reconciliation` | reports and breaks |
| `PurchaseFlow`, `CustomerFunds` | the engines composed, and their promise | instances of the engines and a carrier; the abstract specification has one step per purchase |
| `PriceLock` | redemption of price locks | three actions per call: wait, hold the row, write |
| `LockPricing` | what a lock costs | one action per statement; feed, operators and rollback in between |
| `FeedIngestion` | `fuel-finder-persistence.ts`, migration `202609020001` | one action per request, readers included |
| `FuelFinder` | `fuel-finder.ts` and its two routes | pages of two lists in parallel, the shared token, a source that changes |
| `CustomerApp` | `fuelcap-app.tsx`, `protection.ts` | page, storage, cloud and loads; every handler and every late answer |
| `Onboarding` | registration, its route, the record in the console | views that are left, calls that answer late, restarts |
| `LandingPage` | waiting list, page views, contact form; the JSON store, the dashboard's session | two tabs, posts that are lost or overtake each other; the write queue, whose writes empty the file and then fill it |
| `PriceEvidence` | `pricing-ingestion`, `benchmark-engine`, `eu-pricing-source`, `pricing-control` | observations, a benchmark on them; bulletins from intake to activation; a judgement of a snapshot, a recommendation under it |
| `SpreadQuotes` | `spread-engine`, `quote-engine` | proposal, simulation, approval, schedule, publication, withdrawal, quote |
| `SpreadDesk` | the workspace that drives the spread engine | a draft that is simulated as it is typed, the lifecycle it starts or throws in; reference rates of six places |
| `RulesEngine`, `MarketModels` | `rules-engine`, `fleet`; `fx-engine`, `basis-model` | each step of making, approving and publishing; fleet policies over time, requests judged for their own instant |
| `Billing` | `packages/billing` | overlapping creations, webhooks, funding; invoices and export |
| `RiskCapital` | `hedging`, `hedge-optimizer`, `treasury-risk-transfer`, `risk` | exposure to execution; pool, liquidity, programmes, holds |
| `AdminAuth` | sign-in, step-up, protected routes; `admin_staff`, `admin_audit_log` under row-level security | sessions, cookies, dialogs, calls between their check and their effect; writers that change, then record |
| `Authz` | `packages/authz` | decisions over principals and their roles |
| `ControlRoom` | the console's page and the workspaces it opens | every click and every late answer; approvals, the export of the audit, the fleet a tenant may read |
| `CaseDesk` | governed requests, cases, alerts | versions of one request and who looked at which; the desk that drives it |
| `DemoControl` | the presenter's price and its bridge; `demo-data`'s scenarios, timeline and inboxes | one snapshot with a bounded audit; the runtime that starts scenarios again |
| `ProductionReadiness` | `deploy-render-single-flight.mjs`, `production-readiness` | the script's polls, between which the platform moves; evidence rooms and the assessment |
| `Adapters`, `PlatformServices` | `compliance` and the adapters behind it; support cases, `ai` and `analytics`, `enterprise-platform` | evidence that is replaced or expires, steps of people |
| `BasicLemmas`, `CardSimulatorProofs`, `EnginesProofs`, `PurchaseFlowProofs`, `PriceLockProofs`, `PricingProofs`, `CustomerProofs`, `AdminProofs` | | proofs |
| `MC*` | | instances for TLC |

`PurchaseFlow` composes the money engines and is shown to implement `CustomerFunds`. `CustomerApp` composes page,
storage and database; `ControlRoom` and `SpreadDesk` ask `Authz`; the governed request is driven both directly and by
the desk of `CaseDesk`; `DemoControl` compares the amounts a scenario asserts with those of `SettlementMath`.

## From code to model

* **Calls.** A synchronous call is one action. A command that throws, and one whose idempotency key is known,
  leaves the state alone, so it is a disabled action; `NewKey` is that guard. Asynchronous code has one action for
  every request it awaits; what it read before stays in the record of the call.
* **Data.** Ids, keys, principals and accounts are model values or small numbers, an amount is a number, a
  timestamp an instant or a day. Fingerprints and digests are the command or a model value. Texts, labels and
  hashes are left out. Binary floating point in `protection.ts` is exact arithmetic: the code adds 1e-7 before it
  rounds, which on the values of the instances is rounding half up.
* **Evidence.** A pure function's results are kept by a caller that may use them in any order, again, and after
  they are out of date. `PurchaseFlow` hands `DOMAIN instructions`, `allocations` and `decisions` on;
  `QuotedValue` is its one assumption on the carrier: it quotes the derived balance less what has cleared and is
  not posted yet.
* **Row lock.** `SelectForUpdate` waits while another call holds the row (`RowFree`), `Redeem` writes what was
  computed from the read, `Abort` rolls back at any time. A statement of `LockPricing` reads what is committed
  when it runs.
* **Failure.** `Fail` is any failing request, `Crash` and `Lose` the end of a process and of a message. An update
  whose result the code does not look at may leave the row as it is. A change whose audit record is written
  afterwards may lose it (`AdminAuth!Drop`).
* **Pages.** A React page is a record; a handler uses what the page holds when it runs, an answer is applied to
  what it holds by then.
* **History.** Some variables and fields only record what happened, for properties to compare with; the comment at
  their declaration says so.

Operators named in a comment as a mutant are faulty variants of the definition after them, used to check that a
property notices the fault; no specification uses them.

## Runs and bounds

| run | distinct states | what it shows |
|---|---|---|
| `MCCardSimulator` | 125 k | conservation, instructions, retries, no hold grows, daily limit |
| `MCEngines` | 24 k | allocation, settlement, reconciliation, ledger with wallet, one at a time |
| `MCPurchaseFlow` | 6 k | the engines together implement `CustomerFunds`; money and volume reconcile at every step |
| `MCPriceLock` | 24 k | serialised redemption; every call is answered |
| `MCPricing` | 613 k | the pricing and finance packages and the price of a lock |
| `MCCustomers` | 1.3 M | feed, fetching, app, registration, waiting list, site, file store |
| `MCAdmin` | 686 k | the console, release, partners and governance |

`MCEngines`, `MCPricing`, `MCCustomers` and `MCAdmin` hold several machines. Those of one run share no state in the
code, so a behaviour that interleaves two of them says no more than the two apart: `machine` chooses at the start
which one moves. What does share state is one machine: the feed with its readers, the app with its storage and its
cloud, the lock call with the feed and the operators, the protected calls with every other call of the console.

What the properties say, and the machine they are about:

* **`MCCardSimulator`** `HoldConserved` `InstructionsMatchHold` `RetryActsOnce` `DailyLimitHeld` `HoldsOnlyShrink`.
  2 holds, 2 clearings, 2 reversals, 2 cards (one frozen), 2 days, 2 currencies: partial and full clearing,
  over-presentment, wrong currency, reversal before, between and after.
* **`MCEngines`** `VolumeConserved` and `SoonestExpiryFirst` (3 purchases over 7 positions of different owners,
  scopes and products, instants at both ends of validity, one expiry written with another offset, so that its string
  stands elsewhere than its instant); `SettlementsBalance` (5 allocations at 11 pump prices,
  denominator 8: never unbalanced, never off by a unit and a half); `BreaksBlock` (3 runs, 6 inputs, 2 scopes: a
  break stops money until two people cleared it on a passing run, and stays on record); `ReversalsUndoMoney`,
  `ActivityExplainsBalance` (3 journals of 9 entries, 5 of which are invalid in different ways).
* **`MCPurchaseFlow`** `EnginesReconcile` `SettledFromClearing` `ImplementsFunds`. 3 purchases, 2 protections of
  one unit, funds that do not suffice for all three at once, deliveries repeated under old and new keys.
* **`MCPriceLock`** `NoStaleRead` `RedemptionsAddUp` `LocksOnlyShrink` `CallsAnswered`. 2 members, 3 sessions, one
  lock of up to two stored units, calls for half units, nothing and too much, 4 redemptions.
* **`MCPricing`** `BenchmarkRepresentative` (the published price is the weighted median of fresh, licensed,
  uncorrected evidence; 13 records, one for each thing that can be wrong); `PublishedAsApproved`,
  `WithdrawalStopsQuotes`, `ReservationCovers` (two decisions, two people, commands that bring any instant);
  `ConversionSound` (direct and over a pivot, a stale leg); `PublishedSound` (4 rule sets that answer every fact or fail
  to, with two versions of one rule and with one listed twice; bulletins without a gap, basis models that win without
  looking ahead, recommendations on evidence, fleet decisions that later policies do not change; a spread submitted only
  as it was simulated, a completed lifecycle with another decision in the active one's place);
  `HedgedAsApproved` (2 recommendations whose versions may be given twice; plans from 5 candidates under weights of
  their own); `MoneyAddsUp` (payments and what they fund, invoices, the pool's capital, programmes of improper terms
  included); `LocksCostWhatIsShown` (page and call agree on a price unless the tables changed
  in between, wider scopes cost no less, quotes rest on what was observed).
* **`MCCustomers`** `FeedShowsWhatItStored` and `NeverOlder` (2 overlapping runs, 2 stations, a clock of 2, a
  suspension, a crash at any step); `FetchesWhole` (2 callers, pages of two, up to 2 pages, a token with a
  lifetime of 1 or 3, one change of the source); `DemoMoneySound` (2 markets, 2 locks, 2 fills, a top-up, a
  reload, sign-in, late answers); `OnboardedVerified` (2 sign-ups of the one demonstration customer, a restart);
  `CompletionRecorded` (2 tabs, both backends, posts lost and reordered); `StoreAnswers` (3 tasks, one write cut
  short, a session of one day).
* **`MCAdmin`** `PrivilegedUnderStepUp` (2 people, 2 sessions, 2 authenticators, a call judged before and done
  after other calls); `ApprovedWasAllowed` (2 requests under way, answers after a change of scenario or organisation; the workspaces
  with 5 viewers and 3 organisations); `ExecutedAsApproved` (3 versions of a request, 3 people); `HistoriesExplain`
  (case desk, price control, evidence room with 2 submissions, accepted with the contents handed in or with others,
  support, staff log: each history replayed gives the state, and rows are shown only to those entitled; a pilot starts
  only on evidence for each control that blocks or that an outsider attests; the 12 scenarios in each environment reproduce what they assert; the audit timeline
  with each of its parts missing, altered or of another tenant; events that are delivered again);
  `ReleaseProven` (3 deployments of 2 commits, drift, time
  outs); `ReleasedAsApproved` (the launch gate with evidence that expires, adapters, answers and reports,
  deliveries).

The bounds are the smallest in which every action fires, every branch of a handler is taken and every mutant is
found. Two of each suffices where a hazard needs a pair (two clearings, two overlapping runs, two sessions, a maker
and a checker); three where a third party can come between (three versions of a request, three tasks in a queue,
three purchases over two protections, three moments so that a token can expire before, between and after two
requests). Counters that the code leaves unbounded (top-ups, restarts, policies, executions) are capped in guards
by constants named `Max...`. Ids are symmetric where no operator orders them. `CHECK_DEADLOCK FALSE` is set where
the ids of an instance run out; there the program would go on with new ids.

## Fairness

Only `PriceLock` has a liveness property, `CallsAnswered`. `FairSpec` assumes strong fairness of `SelectForUpdate`
for each session and weak fairness of `Redeem`: PostgreSQL runs every statement to its end and queues the waiters of
a row, so a session that finds the row free again and again gets it. Nothing is assumed of callers (`BeginRedeem`,
`CreateLock`) or of failures (`Abort`). Elsewhere nothing in the repository makes the next step happen: the engines
are sequential and a carrier that delivers is not theirs to promise, a post of the waiting list is sent once, an
ingestion run that crashed is never taken up again, people may stop working on a request. So no liveness is stated.

## Proofs

A theorem holds for every value of the constants that satisfies the named assumptions of its module; the run checks
the same property on its instance. Each component's theorems are in a `...Proofs` module: types and invariant first,
one lemma per action, one that composes them into the step, then the theorem.

| theorem | statement | inductive invariant |
|---|---|---|
| `CardSimulatorProofs!TypeCorrect`, `HoldsConserved`, `RetriesActOnce`, `HoldsShrink` | `Spec => []TypeOK`, `[]HoldConserved`, `[]RetryActsOnce`, `HoldsOnlyShrink` | `IInv`: types, conservation, `KeysLead` |
| `CardSimulatorProofs!InstructionsMatch`, `DailyLimits` | `Spec => []InstructionsMatchHold`, `[]DailyLimitHeld` | `Sums`, on `IInv` |
| `EnginesProofs!VolumeAlwaysConserved`, `SoonestFirst` | `AllocSpec => []VolumeConserved`, `SoonestExpiryFirst` | `AllocInv`: every allocation is exact, what is left and what was drawn is the opening volume |
| `EnginesProofs!SettlementsAlwaysBalance` | `SettleSpec => []SettlementsBalance` | `SettleInv`: every decision is the figures of its evidence; then `LineCovered`, `PostingBalances`, `RoundingCosts` |
| `EnginesProofs!CancellationInFull` | what a cancellation credits | division with remainder |
| `EnginesProofs!ReversalsUndo`, `ActivityExplains` | `BooksSpec => []ReversalsUndoMoney`, `[]ActivityExplainsBalance` | `BooksInv`: every correction is of an earlier journal, a reversal exactly its mirror |
| `EnginesProofs!BreaksAlwaysBlock` | `ReconSpec => []BreaksBlock` | `ReconInv`: a break was found by a report, a clearance has two people and a run of its scope that passed |
| `PurchaseFlowProofs!FlowInvariant`, `EnginesAlwaysReconcile`, `SettledOnce` | `Spec => []EnginesReconcile`, `[]SettledFromClearing` | `Recorded`: the records of the engines go back to one another; `Sums`: what they add up to |
| `PurchaseFlowProofs!FundsImplemented` | `Spec => ImplementsFunds` | the same; each step is a step of `CustomerFunds` or a stutter |
| `PriceLockProofs!TypeCorrect`, `RedemptionsSerialized`, `LocksShrink` | `Spec => []TypeOK`, `[]NoStaleRead`, `LocksOnlyShrink` | `IInv`: types, `NoStaleRead` |
| `PriceLockProofs!BooksBalance` | `Spec => []RedemptionsAddUp` | `Books`, on `IInv` |
| `PricingProofs!ApprovedBeforePublished`, `WithdrawalsStop` | `SpreadSpec => []PublishedAsApproved`, `WithdrawalStopsQuotes` | `IInv`: `Governed`, `HasEarliest` |
| `PricingProofs!ReservationsCover` | `SpreadSpec => []ReservationCovers` | `QuotesCovered`, and totals that charge their components |
| `PricingProofs!ConversionsSound` | `FxSpec => []ConversionSound` | `FxInv`: `RateSound`, `AdjustmentSound`, `ConversionExact` |
| `PricingProofs!BenchmarksRepresent` | `PriceSpec => []BenchmarkRepresentative` | `PriceInv`: observations are finite, sound and told apart by payload |
| `PricingProofs!HedgesApproved` | `HedgingSpec => []HedgedAsApproved` | `HedgingInv`: `GroundedHedge`, `BestPlan` |
| `PricingProofs!MoneyAlwaysAddsUp` | `Spec => []MoneyAddsUp` | `PayInv`, `InvoiceInv`, `CapitalInv` |
| `PricingProofs!LocksAlwaysPriced` | `Spec => []LocksCostWhatIsShown` | `LockPriceInv` |
| `PricingProofs!PublishedAlwaysSound` | `Spec => []PublishedSound` | `PublishedInv`: `RulesInv`, `ControlInv`, `EuInv`, `BasisInv`, `FleetInv`, `DeskInv` |
| `CustomerProofs!FeedSound`, `FeedNeverOlder` | `FeedSpec => []FeedShowsWhatItStored`, `NeverOlder` | `IInv`: what a run has stored by each of its steps, what a reader has seen |
| `CustomerProofs!RegisteredVerified` | `OnboardSpec => []OnboardedVerified` | `OnboardInv` |
| `CustomerProofs!CompletionsRecorded` | `SignupSpec => []CompletionRecorded` | `SignupInv`: `OverlaySound`, `PostSound`, `RowSound`, `ThankedKept`, `SiteSound` |
| `CustomerProofs!DemoMoneyAddsUp` | `AppSpec => []DemoMoneySound` | `AppInv`: `PageSound`, `BooksSound` of page and disk, `LoadSound` |
| `CustomerProofs!StoreAlwaysAnswers` | `DashboardSpec => []StoreAnswers` | `StoreInv`: `QueueSound`, `DiskSound`; `ViewInv` |
| `CustomerProofs!FetchesAlwaysWhole` | `FinderSpec => []FetchesWhole` | `FetchInv`: `CachedSound`, and of every request `CallSound` |
| `AdminProofs!PrivilegedOnlyUnderStepUp` | `AuthSpec => []PrivilegedUnderStepUp` | `AuthInv`: sessions, cookies and calls under way |
| `AdminProofs!ApprovalsAllowed` | `RoomSpec => []ApprovedWasAllowed` | `RoomInv`: page and workspaces |
| `AdminProofs!ExecutionsApproved` | `RequestSpec => []ExecutedAsApproved` | `RequestInv` |
| `AdminProofs!ReleasesProven` | `DeploymentSpec => []ReleaseProven` | `ReleaseInv` |
| `AdminProofs!LiveAsProven` | `AdaptersSpec => []ProvenBeforeLive` | `AdaptersInv` |
| `AdminProofs!AlwaysReleasedAsApproved` | `Spec => []ReleasedAsApproved` | `GovernanceInv`: `AdaptersInv`, `AssistanceInv`, `ReportInv`, `DeliveryInv` |
| `AdminProofs!HistoriesAlwaysExplain` | `Spec => []HistoriesExplain` | `HistoriesInv`: `DeskInv`, `ControlInv`, `AssuranceInv`, `SupportInv`, `StaffInv`, `TrailInv`, `InboxInv`, `ScenarioInv` |
| `AdminProofs!AdministrationHolds` | `Spec => []` of the first four of `AdminProofs` | `Spec` implies their four specifications |

Why the properties alone are not inductive, and what is:

* **Cards.** That a key makes one clearing follows only from each stored clearing being the one its key leads to,
  and that a hold is reversed once from its status staying `REVERSED`; `KeysLead` says both. `Sums` adds that an
  instruction belongs to a hold that exists and that a hold that is not declined is on an active card. The daily
  limit is a sum over all holds of a day, which a reversal lowers and nothing else changes.
* **Settlement.** The station is rounded to the nearest unit, the customer's share and the reserve down, the
  lower-price credit up, and the pool is a difference. `LineCovered` proves of one line that the customer's share
  and the credit cover the strike value, `ExactSums` carries it over all lines, `PostingBalances` that the
  roundings then leave debits equal to credits.
* **Ledger.** A reversal may be of a reversal, so the argument is on the effect of a whole journal: opposite sides
  negate every account's delta, and the total over a journal's lines is the negative of its original's.
* **Purchase flow.** The engines know nothing of one another; what connects them is evidence. The invariant says
  that every allocation is of one accepted clearing, every decision of one allocation, every journal of one
  decision, each under its own key and none twice; that open holds and clearings still in flight are covered by the
  available account; and that the strike value of the volume that is left or not posted yet is covered by the reserved account.
  What the engines do alone is taken from `EnginesProofs` and `CardSimulatorProofs` by instantiation
  (`Engines == INSTANCE EnginesProofs WITH ...`), so that no arithmetic is proved twice.
* **Price locks.** `NoStaleRead` is inductive with the types: a session that gets the row finds no other holder, so
  the read stays valid until it writes. `LocksShrink` needs `StoredBelow`: rounding never lifts the remainder above
  the stored volume it was taken from, as that is a whole number of units. `Books` says of every lock that its rows
  agree with its owner and that they sum, by the stored remainder each one left, to what is gone.
* **Spread.** `PublishedAsApproved` speaks of what is published; that it stands on an approval by a second person,
  made after the proposal and on a simulation that passed, is inherited from the step before, so `Governed` states
  of every stored proposal, approval, simulation and schedule what the step that made it had checked. `HasEarliest`
  is what makes the `CHOOSE` of the earliest withdrawal mean something. A quote keeps the decision it was made on,
  so `ReservationsCover` needs that published decisions never change.
* **Benchmarks.** The code sorts and adds up until half of the weight is reached; the model says which record that
  is. `CheapestExists` finds it: among finitely many records one has least below it (`LeastSubset` again), so
  `Selected` is defined, what lies below it does not reach half and what lies above is what is left
  (`SelectedIsMedian`). `DispersionBrackets` turns the rounded dispersion into a bound for every pair of prices.
  `PriceInv` adds that each record is what an envelope without issues says and that no two share a payload.
* **Hedging.** A hedge is recommended, approved and executed while snapshots, limits and stresses move on.
  `GroundedHedge` says of the recommendation, and of each execution, that the snapshot it names reconciled, kept the
  limits it was held against and is at least as large; snapshots are only added. That a hedge pays no more than the
  claims it answers goes back to the stress it rests on (`StressPaysClaims`). Approvals are looked up by version and
  snapshot; that the hedge executed is the very one approved holds if no version was given twice (`VersionsDiffer`).
  `BestPlan`: the order of portfolios (score, payoff, premium, id) is total and the portfolios are finitely many, so one
  comes first, and its score is no worse than any eligible one's (`PlanIsBest`).
* **Exchange rates.** `FxInv` says of each stored rate, proposal and adjustment what its maker checked, and that
  none of them ever changes; `ConversionExact` ties a conversion to the rate and the adjustment it names. The bounds
  come from one lemma about `roundedRatio` (`HalfUnit`: half a unit at most, whatever the divisor).
* **Payments, invoices, capital.** A payment may be created twice and its webhook may come before, between or after:
  `PayInv` says that a stored object never changes its command, and of the webhooks in order which are still waiting.
  `ExportSound` keeps an attempt behind every projection that is under way, so that its failure has a number of its
  own. The pool is added up once by category and once by movement (`PeriodAddsUp`), the forecast day by day
  (`ForecastEnds`); `RecoveryBounded` takes the division by the basis apart. That a recovery is secured needs nothing
  of the terms; that it stays within the limit and the loss is said, in the property, of proper terms only
  (`ProperTerms`), as no code checks them.
* **Price of a lock.** A call reads observations, then the clock goes on, feed and operators change what it read, and
  it stores its quote. `LockPriceInv` says of a call that has its price, and of each quote, which observation it
  came from; observations are kept, and one that was fresh then is fresh at that instant for ever (`StaysFresh`).
  An option is the dearest of finitely many latest prices (`OptionIsDearest`), hence a wider scope costs no less.
* **What is published.** Six small machines side by side; a step is of one and leaves the others alone
  (`PublishedStep`). A published version of the rules was approved with no error found, and of the
  finitely many rules that match exactly one comes first, by precedence, then id, then place in the list
  (`OneComesFirst`), so every fact has one answer. An id may come twice, in two versions of a rule. A release that was not
  held back has all rows and corrects one before it, by which the active one is whole. A basis decision selects a
  candidate that is better than each other that passes; whole measures order candidates (`BetterOrders`), so one at
  most is selected, and its errors are of forecasts that no later point enters (`NoLookahead`). A recommendation is
  of the judgement of an earlier snapshot at worst, which `Supported` keeps beside it. A later fleet policy starts
  no earlier than the last decision (`NotInForce`), and whatever edits the draft of a spread withdraws what it was
  simulated or submitted as (`DeskMoves`). A lifecycle completes only with a decision of another id than the active
  one's (`Supersedes`), hence another charge. Rates have six places, and `ProductParts` puts the product of two, split
  because TLC has 32 bits, together again.
* **Feed.** Runs overlap and may crash between any two requests. The invariant says, for each step a run can be
  at, what of its snapshot must be in the tables already, and that rows only get newer; and of a reader between
  its two queries, what the run it has read had stored.
* **Onboarding.** `OnboardInv` says what a view can have asked for at each of its steps, and how far the stored
  record has come for a sign-up that no other one disturbed. An answer that is late or lost moves neither further.
* **Waiting list.** What a visitor was thanked for must survive posts that overtake one another, so the property says
  too little of what is on the way. `OverlaySound`: what is asked now comes after answers to every step before it.
  `PostSound` and `RowSound`: a post, and a row, is completed exactly with the last step and then answers each, so
  that a merge with the furthest step kept loses no completion (`MergeSound`). `ThankedKept`: with the file store a
  completion is in the row or still under way, unless it was lost.
* **File store and dashboard.** Whether the file is right can be said only between two writes, so `DiskSound` says of
  a write under way that what it is about to write is what was answered and its own row, and of a task that has read
  that nothing has been written since. Both rest on the queue: each task waits in one place, and only the first has
  begun (`QueueSound`). `MergedStores` is the argument about the rows: merging one more request into a list with one
  row for each session leaves such a list. The tables add up because every row has one market (`LabelsCount`).
* **Fuel Finder.** As long as the list stays, what a request has read is the beginning of it up to its page
  (`PagesRead`), so a page that is not full is the end (`NextPage`), and what is offered of the whole list is whole
  (`OfferIsWhole`). That a token lasts the margin is said of the cached one first: what the process trusts is at most
  the lifetime and the wait for its answer longer than what the service grants (`CachedSound`).
* **Customer app.** The page and localStorage each hold the books of every market, and a reload, a late load or a
  sign-in swaps one for the other, so `AppInv` says of both what it says of one. Within an account the argument is
  about roundings: `FillAddsUp` takes the four ways a fill can end and shows that what is returned and paid from the
  protection is what is released, to a cent, and that what the station is owed is what customer and FuelCap pay, to a
  cent; `LockedSound` and `FilledSound` carry it over the sums of the list, one rounding more for each lock and fill.
  That a price is a number at all goes back to the median, which lies among the prices of its list (`MedianLies`);
  a load names a market of its own, which `LoadSound` keeps among those there are.
* **Console.** `AuthInv`: a cookie that vouches for a step-up is never younger than the last one of its session, a
  session stays the same person's and keeps its authenticator, and a call that is taken up holds what it was judged
  on. `RoomInv`: an answer that is awaited is to a request that was allowed when it was sent. `RequestInv`: the
  trail of a request ends with the gates its state had to pass, and its approval is of its present version.
  `ReleaseInv`: the last poll that saw a deployment under way lies before the wait and before the stretch the
  script counts, and one deployment at most has the cleared cache.
* **Partners, assistance, reports.** The result of the gate is used while the evidence behind it is replaced or
  expires, so `AdaptersInv` keeps with the result what it was READY on (`ReadyProven`), and of every instruction that
  its event or message is among those seen. `AssistanceInv` says of the configuration in force, not only of the answer
  shown, that the last result of each dimension passed (`LastPassed` finds it in the list). A report is summed from a
  finite set of records, in two ways that agree (`ReportInv`); the keys used up are those of the deliveries that went
  out (`DeliveryInv`).
* **Histories.** Each property compares a state with a list of events, so each invariant says what the list's end
  must be and that it is numbered without a gap. *Desk*: an alert has an event for each version (`AlertSound`), and
  its four ways on are one kind of step (`AlertStepped`). *Price control*: the audit is cut to its last events, so
  nothing can be said of the first; `SnapshotSound` says what the kept end says (`KeptEnd`), and that the price shown
  was set by the last event in it that sets one. *Support*: two agents work on copies, so whoever writes must write a
  whole history (`CaseSound` of every copy). *Evidence room*: the chain of custody has as many records as the room's
  state and its submissions ask for, its last one, once the room is accepted, is of a reviewer who judged what he
  brought (`RoomAccepted`); the engagement, which the portfolio reads, moves on without the room (`EngagementAccepted`). *Staff*: for every change there could be, the times it was made are
  the times it was logged, was dropped, or is still owed by a request (`Balanced`); a writer that ends moves one from
  owed to logged or dropped. *Scenarios*: whatever was reset starts when its manifest says, and the asserted amounts
  are those the settlement arithmetic gives (`AmountsComputed`).

**Sums.** `Total(f)` is a fold over a finite set. `BasicLemmas` proves what the theorems need of it: the total of
an extended, changed, split, scaled or reindexed function, and bounds. The induction over finite sets it rests on
is proved there without an operator parameter: among the subsets of a finite set that lack a property a least one
exists (`LeastSubset`), which is what `TotalTakes` and `TotalUnique` use.

**Assumptions** are those named in the modules, and TLC evaluates each on its instance: amounts, limits, volumes and
instants are whole numbers, positive where the code rejects others; `transactionLimit <= dailyLimit`; an even
`Denominator` and `Scale`; a strike within its boundary, as `settlePurchase` checks (`TermsAssumption`); an entry's
lines and movements are finite and only `createReversalCommand` makes a reversal (`EntryAssumption`); references
that are missing are no amounts (`InputAssumption`); a purchase costs something and what is set aside for the
positions is paid in (`FlowAssumption`); the charge in force at the start is the sum of its components
(`SpreadAssumption`); there are finitely many positions, of whole amounts, and a stress suite has a boundary breach,
as `runApprovedStressSuite` requires (`HedgingAssumption`); observed rates, components and ages are whole
(`FxAssumption`); a delivered price is digits, and instants that parse are whole (`EnvelopeAssumption`); a benchmark
policy asks for a candidate (`BenchmarkPolicyAssumption`); each step of the waiting list is asked once, the country
first, the address last, the postcode among them (`StepAssumption`); a price list that is published has a station,
and the control price moves none below zero (`AppAssumption`); the catalogue, the movements of a period, the flows of
a forecast and the stations are finitely many, of whole amounts (`InvoicingAssumption`, `RiskCapitalAssumption`,
`LockPricingAssumption`), a flow falls on a whole day of the horizon (`forecastLiquidity` checks the range), the terms
of a programme are whole (of any sign and size); candidates for a hedge are at most twelve, as the optimiser asks, and
weights are whole (`HedgingAssumption`); rules are a list, of ids that have an order (`RulesAssumption`); of two
expiries written alike the earlier is the smaller string (`PositionAssumption`); volumes, instants, ages and confidences are whole (`FleetAssumption`, `ControlAssumption`); a
bulletin has four rows of each of finitely many countries (`EuAssumption`); basis points are whole and a policy holds
one out at least, which no code checks either: with none the code takes a mean of nothing (`BasisAssumption`); who
signs in to the spread workspace has roles there are (`SpreadDeskAssumption`); a price list is a list, and the margin
of a token, 30 seconds, is no more than the 60 it is trusted at least (`FuelFinderAssumption`); a row of the landing
page is completed or not (`DashboardAssumption`); a provider's check has one of the four outcomes of its type
(`AdaptersAssumption`); results of an evaluation are a list and amounts of records whole (`OversightAssumption`); the
audit of the demonstrator keeps an event at least, ten in the code (`DemoAssumption`); no principal is called as the
owner there is not (`DeskAssumption`); the requests under way are finitely many (`StaffAccessAssumption`), and the
rows at the start pass the table's check constraint on roles (`FirstStaffAllowed`). No assumption is about behaviour.

**Choices in order.** Where the code tries one condition after another, the models say `IF ... ELSE`: the arms of
a `CASE` that overlap leave open which is taken, which TLC settles by taking the first and no proof may rely on. A
`CASE` is used where the conditions exclude one another.

**Left to TLC**, and why:

* Liveness (`CallsAnswered`) and `ENABLED`, which these provers do not handle.
* The five runs that show where code and documents disagree: a violation is a behaviour, found, not proved.

Every invariant and every action property of a passing run is stated by a theorem.

## Where code and documents disagree

Each has a run that shows the violation.

* Reversing a reversal restores the money and not the volume: the effect of a REVERSE movement is zero
  (`packages/wallet/src/index.ts:22`, `MCWalletCorrections`).
* The residual of rounding the reserved debit down stays reserved after the volume is used up
  (`packages/settlement-engine/src/index.ts:53`, `MCFlowResidual`).
* Two removals that overlap take the last authenticator, although the route says "never the last one"
  (`apps/admin/app/api/auth/mfa/factors/[factorId]/route.ts:15`, `MCLastAuthenticator`).
* A signed-in customer sees the protections of every market in the one on the page, although "each country has its
  own wallet and protections" (`src/components/fuelcap-app.tsx:192`, `MCMarketsApart`).
* With the database, of two posts of one waiting-list session the later write drops what the other added
  (`landing-page/lib/store.ts:187`, `MCSignupLost`).

Seen while modelling, in the models, and not promised otherwise by any document (so no run of its own).
The hazards in `PROJECT.json` are forty that stand for the kinds met here; the others are in this list:

* *Money engines.* A replacement journal without movements takes back the volume of the journal it corrects, as
  `every` holds of an empty list; a journal can be reversed twice under different ids; a break can be cleared by a
  run that passed before it was found; `isActionBlocked` blocks every entity for a break of one; a purchase below
  half a minor unit is settled with a zero line that the ledger rejects; `comparePositions` orders timestamps as
  strings where `isEligible` compares instants, so of two expiries written with different offsets or precisions the
  later may be drawn first (`Allocation!Before`; in one form `SoonestExpiryFirst` holds).
* *Locks.* Redemptions in fractions of the stored unit are recorded for up to half a unit more or less than the
  lock loses (`202607240002:108`; `README.md:76` speaks of preventing over-redemption); an expired lock stays
  redeemable, as nothing sets `expired`; `redeem_demo_fuel` has no idempotency key; `expires_at` of a quote is
  never read.
* *Feed.* The updates that end a run are not looked at, so a run that answered success may stay `running`
  (`fuel-finder-persistence.ts:56`, `:59`; `README.md:64` says every completed or failed run is recorded); the next
  run reactivates a station an operator suspended; an answer of an unknown shape counts as an empty last page.
* *Pricing and finance.* A quote looks neither at the age of its benchmark nor for a later one; a recommendation
  may be governed under the judgement of an earlier snapshot; the approval of a paper hedge can be used again; a
  webhook handled before the answer of `createPayment` is stored is ignored for good; subscription events apply in
  order of arrival; two fleet requests judged on one reading of the usage can pass the limit together, and a
  policy may take effect at the very instant of a decision already made; a risk-transfer programme with a share above
  the whole recovers more than its limit; two paper hedges may carry one version, and an approval of either lets the
  other be executed. In the spread workspace the lifecycle of a draft with the active total of 230, the draft a page
  starts with among them, throws, as the replacement would have the active decision's id (`spread-fx.ts:152`); a
  completed lifecycle stays on the page when only the reason of the draft is edited, and a total above 500 or a protection
  cost below 130 throws while it is typed.
* *Console and release.* Two administrators can disable each other; an approved request never expires; a staff
  change whose record fails is not in the log; the evidence of a launch gate may expire while its result is in
  use; whoever accepts an evidence room brings the submission, of which only the id is compared, and its acceptance
  leaves the engagement as it was, which is accepted by a call that needs no room
  (`production-readiness/src/index.ts:69`, `:135`); the deployment the script follows is whichever of the commit it finds first, which need not be the one with
  the cleared cache; the audit that recognises repeated demonstrator commands keeps ten
  events, so a command repeated after ten others counts as new (`demo-control/src/index.ts:74`);
  `openDemoStep` of `control-room.tsx` is called by nothing. In the workspaces both people of an
  approval are constants, so the one signed in presses the approval of their own request
  (`rules-automation-workspace.tsx:18`); the maker of a hedge is another one on the page than on the server
  (`governed-actions/route.ts:13`); `summariseAuditChain` does not validate the timeline it summarises.
* *Landing page.* A crash in the middle of a write leaves an empty file, read as no rows; a dashboard session lasts
  its seven days whatever happens to the password.

## Not modelled

* **Presentation**: pages, layouts, forms, translations, charts, read-only workspaces and the seeded records they
  show, beyond those that `DemoControl` and `ControlRoom` hold. Nothing changes there.
* **The customer's own rows under row-level security** in the app's database, and the sign-in that Supabase does:
  external, modelled as sessions.
* **Lookups and reports without effect**: combined customer view, summaries, fairness report, source assessment,
  dead letters, comparison of an instruction, topology texts, commissioning pack, driver of a vehicle.
* **Supersession of a spread decision** beyond the refusal that the spread workspace meets: a record that nothing reads.
* **Text**: parsing of dates and decimals, validation of free text, hashing, cookies' encoding, the cells of a
  bulletin. The ledger's hash chain detects edits from outside; no operation edits, so the chain is the order of
  `journals`.
* **Build scripts** (budgets, manifests, smoke tests): each reads once and exits.
* **Shared domain types.**

## What is left

* Abstract specifications worth stating: an idempotent operation log that card, allocation, settlement, ledger and
  reconciliation all implement; a price feed as a monotone register for `FeedIngestion`.
* Composition: `LockPricing` with `FeedIngestion` on one set of observation rows, `CustomerApp` over both.
