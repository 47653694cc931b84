---------------------------- MODULE RiskCapital ----------------------------
(***************************************************************************)
(* Risk and capital: first the hedging of what was sold, then the pool,    *)
(* liquidity, the programme that transfers risk, and holds on customers.   *)
(*                                                                         *)
(* packages/hedging and packages/hedge-optimizer: accepted positions are   *)
(* summed into an exposure snapshot, which is held against limits and put  *)
(* under stress; on both rests a paper hedge, recommended, approved by a   *)
(* second person and executed in simulation.  Candidates are combined into *)
(* the portfolio that costs least, exposure and basis risk included.       *)
(*                                                                         *)
(* Pure functions; the state is the evidence a carrier holds.  BasisWhole  *)
(* is the 10 000 of a basis point.                                         *)
(***************************************************************************)
EXTENDS Maps, Integers, Sequences

CONSTANTS
  Position,        \* [quantity, spread, claim, customer, status, currency]: an accepted position
  Reserve,         \* reserves there may be
  LimitPolicy,     \* [quantity, value, concentration, coverage]
  StressKind,      \* "BOUNDARY_BREACH", "COUNTERPARTY_FAILURE", ...
  StressSuite,     \* StressKind -> [claim, payoff, residual] in basis points
  Notional, Trader, AssuranceAge, FreshAssurance,
  HedgeCandidate,  \* [id, quantity, premium, payoff, correlation, counterparty, liquidity], ids in their order
  HedgePolicy,     \* [premium, quantity, correlation, liquidity, concentration, and three weights]
  BasisWhole, PriceUnit,
  MaxSnapshots, MaxVersions, MaxRecommendations, MaxExecutions,   \* bounds
  NoHedge

\* runApprovedStressSuite refuses a suite without each of the kinds it requires, and
\* optimizeSelectiveHedge more than twelve candidates.
ASSUME HedgingAssumption ==
  /\ BasisWhole \in Nat \ {0} /\ PriceUnit \in Nat \ {0}
  /\ IsFiniteSet(Position) /\ \A p \in Position : {p.quantity, p.spread} \subseteq Int
  /\ "BOUNDARY_BREACH" \in StressKind
  /\ StressSuite \subseteq [StressKind -> [claim : Nat, payoff : Nat, residual : Nat]]
  /\ IsFiniteSet(HedgeCandidate) /\ Cardinality(HedgeCandidate) <= 12
  /\ \A c \in HedgeCandidate : {c.id, c.quantity, c.premium, c.payoff, c.correlation, c.liquidity} \subseteq Int
  /\ \A y \in HedgePolicy : {y.residualWeight, y.premiumWeight, y.basisPenaltyWeight} \subseteq Int

VARIABLES
  snapshots,       \* exposure snapshots, by number
  assessment,      \* [snapshot, limits, blocks]: what limits said last
  stresses,        \* [snapshot, results]: the stress suite run last
  recommendations, \* paper hedges recommended, in the order they were made
  hedgeApproval, executions, hedgePlan

hedgeVars == <<snapshots, assessment, stresses, recommendations, hedgeApproval, executions, hedgePlan>>

HedgingInit ==
  /\ snapshots = <<>> /\ recommendations = <<>> /\ executions = <<>>
  /\ assessment = NoHedge /\ stresses = NoHedge /\ hedgeApproval = NoHedge /\ hedgePlan = NoHedge

-----------------------------------------------------------------------------
\* Math.round of a ratio, halves up.
rounded(numerator, denominator) == (2 * numerator + denominator) \div (2 * denominator)

\* The quantity times boundary less strike, in minor units.
minorAtBoundary(p) == (p.quantity * p.spread + PriceUnit \div 2) \div PriceUnit

\* The share of each customer in the whole quantity.
Concentrations(positions, quantity) ==
  {rounded(Total([p \in {x \in positions : x.customer = c} |-> p.quantity]) * BasisWhole, quantity) :
     c \in {p.customer : p \in positions}}

\* Only accepted positions with something left, of one currency and tenant.
createExposureSnapshot(positions, reserve, reconciled) ==
  /\ Len(snapshots) < MaxSnapshots
  /\ positions # {} /\ \A p \in positions : p.status = "ACCEPTED" /\ p.quantity > 0 /\ p.spread >= 0
  /\ Cardinality({p.currency : p \in positions}) = 1
  /\ LET quantity == Total([p \in positions |-> p.quantity]) IN
     snapshots' = Append(snapshots,
       [positions |-> positions, quantity |-> quantity, value |-> Total([p \in positions |-> minorAtBoundary(p)]),
        claims |-> Total([p \in positions |-> p.claim]), reserve |-> reserve, reconciled |-> reconciled,
        concentration |-> Max(Concentrations(positions, quantity))])
  /\ UNCHANGED <<assessment, stresses, recommendations, hedgeApproval, executions, hedgePlan>>

LimitReasons(s, limits) ==
  {r \in {"BREAK", "QUANTITY", "VALUE", "CONCENTRATION", "COVERAGE"} :
     CASE r = "BREAK" -> ~s.reconciled
       [] r = "QUANTITY" -> rounded(s.quantity * BasisWhole, limits.quantity) > BasisWhole
       [] r = "VALUE" -> rounded(s.value * BasisWhole, limits.value) > BasisWhole
       [] r = "CONCENTRATION" -> s.concentration > limits.concentration
       [] r = "COVERAGE" ->
            (IF s.claims = 0 THEN BasisWhole ELSE rounded(s.reserve * BasisWhole, s.claims)) < limits.coverage}

assessExposureLimits(i, limits) ==
  /\ assessment' = [snapshot |-> i, limits |-> limits, blocks |-> LimitReasons(snapshots[i], limits) # {}]
  /\ UNCHANGED <<snapshots, stresses, recommendations, hedgeApproval, executions, hedgePlan>>

\* A failing counterparty pays nothing; what is not paid comes out of the reserve, and what
\* the reserve does not cover stays exposed.
runExposureStress(s, kind, a) ==
  LET claims == rounded(s.value * a.claim, BasisWhole)
      payoff == IF kind = "COUNTERPARTY_FAILURE" THEN 0
                ELSE Smaller(claims, rounded(s.value * a.payoff, BasisWhole))
      reserveUse == Larger(0, claims - payoff)
      residual == rounded(s.value * a.residual, BasisWhole) + Larger(0, reserveUse - s.reserve)
  IN [claims |-> claims, payoff |-> payoff, reserveUse |-> reserveUse, residual |-> residual]

runApprovedStressSuite(i, assumptions) ==
  /\ stresses' =
       [snapshot |-> i, results |-> [k \in StressKind |-> runExposureStress(snapshots[i], k, assumptions[k])]]
  /\ UNCHANGED <<snapshots, assessment, recommendations, hedgeApproval, executions, hedgePlan>>

-----------------------------------------------------------------------------
\* Mutant of Grounded: the assessment may be of another snapshot.
GroundedOnAny(i) == snapshots[i].reconciled /\ ~assessment.blocks /\ stresses.snapshot = i

\* A reconciled snapshot, its own assessment that does not block, and its own stresses.
Grounded(i) ==
  snapshots[i].reconciled /\ ~assessment.blocks /\ assessment.snapshot = i /\ stresses.snapshot = i

\* The version, model inputs and evidence are the carrier's: nothing keeps it from giving one
\* version twice.
createPaperHedgeRecommendation(version, i, notional) ==
  /\ Len(recommendations) < MaxRecommendations
  /\ assessment # NoHedge /\ stresses # NoHedge
  /\ Grounded(i) /\ notional > 0 /\ notional <= snapshots[i].quantity
  /\ recommendations' = Append(recommendations,
       [version |-> version, snapshot |-> i, limits |-> assessment.limits, notional |-> notional,
        payoff |-> stresses.results["BOUNDARY_BREACH"].payoff,
        claims |-> stresses.results["BOUNDARY_BREACH"].claims])
  /\ UNCHANGED <<snapshots, assessment, stresses, hedgeApproval, executions, hedgePlan>>

\* Of the recommendation an approval keeps its version and snapshot; hedge records, for the
\* properties, which one it was.
approvePaperHedge(k, initiator, approver, age) ==
  /\ initiator # approver /\ age >= 0 /\ age <= FreshAssurance
  /\ hedgeApproval' = [version |-> recommendations[k].version, snapshot |-> recommendations[k].snapshot,
                       initiator |-> initiator, approver |-> approver, hedge |-> k]
  /\ UNCHANGED <<snapshots, assessment, stresses, recommendations, executions, hedgePlan>>

\* Nothing remembers that an approval was used.
executePaperHedge(k) ==
  /\ Len(executions) < MaxExecutions
  /\ hedgeApproval # NoHedge
  /\ hedgeApproval.version = recommendations[k].version
  /\ hedgeApproval.snapshot = recommendations[k].snapshot
  /\ executions' = Append(executions, [hedge |-> k, approval |-> hedgeApproval])
  /\ UNCHANGED <<snapshots, assessment, stresses, recommendations, hedgeApproval, hedgePlan>>

-----------------------------------------------------------------------------
Quantity4dp(portfolio)  == Total([c \in portfolio |-> c.quantity])
PremiumMinor(portfolio) == Total([c \in portfolio |-> c.premium])
StressPayoff(portfolio) == Total([c \in portfolio |-> c.payoff])

\* evaluateHedgePortfolio: what makes a combination ineligible.
Eligible(portfolio, accepted, policy) ==
  LET quantity == Quantity4dp(portfolio) IN
  /\ \A c \in portfolio : /\ c.quantity > 0 /\ c.premium >= 0 /\ c.payoff >= 0
                          /\ c.correlation >= policy.correlation /\ c.liquidity >= policy.liquidity
  /\ PremiumMinor(portfolio) <= policy.premium
  /\ quantity <= policy.quantity /\ quantity <= accepted
  /\ \A p \in {c.counterparty : c \in portfolio} :
       Quantity4dp({c \in portfolio : c.counterparty = p}) * BasisWhole <= policy.concentration * quantity

\* The correlation of each part in proportion to its quantity, and what imperfect
\* correlation leaves of the exposure.
basisPenalty(portfolio, stressed) ==
  LET correlation == rounded(Total([c \in portfolio |-> c.correlation * c.quantity]), Quantity4dp(portfolio))
  IN rounded(stressed * (BasisWhole - correlation), BasisWhole)

\* What stays exposed, what it costs and what the basis may cost, each by its weight.
Score(portfolio, stressed, policy) ==
  rounded(Larger(0, stressed - StressPayoff(portfolio)) * policy.residualWeight
          + PremiumMinor(portfolio) * policy.premiumWeight
          + basisPenalty(portfolio, stressed) * policy.basisPenaltyWeight, BasisWhole)

\* Portfolio ids are bit masks, the first candidate the last digit.
IdBefore(p, q) == \E c \in q \ p : \A d \in p \ q : d.id < c.id

\* The order of the portfolios: score, then more payoff, then less premium, then the id.
BetterPortfolio(p, q, stressed, policy) ==
  LET x == Score(p, stressed, policy)  y == Score(q, stressed, policy) IN
  \/ x < y
  \/ x = y /\ StressPayoff(p) > StressPayoff(q)
  \/ /\ x = y /\ StressPayoff(p) = StressPayoff(q)
     /\ \/ PremiumMinor(p) < PremiumMinor(q)
        \/ PremiumMinor(p) = PremiumMinor(q) /\ IdBefore(p, q)

\* optimizeSelectiveHedge over every combination, and publishSelectiveHedgePlan by two people.
publishSelectiveHedgePlan(i, policy, maker, checker) ==
  LET s == snapshots[i]
      eligible == {p \in SUBSET HedgeCandidate \ {{}} : Eligible(p, s.quantity, policy)}
  IN /\ maker # checker /\ s.quantity > 0 /\ s.value > 0
     /\ \E p \in eligible :
          /\ \A q \in eligible \ {p} : BetterPortfolio(p, q, s.value, policy)
          /\ hedgePlan' = [snapshot |-> i, candidates |-> p, policy |-> policy, maker |-> maker, checker |-> checker]
     /\ UNCHANGED <<snapshots, assessment, stresses, recommendations, hedgeApproval, executions>>

Snapshotting == \E ps \in SUBSET Position, r \in Reserve, ok \in BOOLEAN : createExposureSnapshot(ps, r, ok)

HedgingNext ==
  \/ Snapshotting
  \/ \E i \in DOMAIN snapshots :
       \/ \E limits \in LimitPolicy : assessExposureLimits(i, limits)
       \/ \E suite \in StressSuite : runApprovedStressSuite(i, suite)
       \/ \E v \in 1..MaxVersions, n \in Notional : createPaperHedgeRecommendation(v, i, n)
  \/ \E k \in DOMAIN recommendations :
       \/ \E m, c \in Trader, age \in AssuranceAge : approvePaperHedge(k, m, c, age)
       \/ executePaperHedge(k)

PlanNext ==
  \/ Snapshotting
  \/ \E i \in DOMAIN snapshots, policy \in HedgePolicy, m, c \in Trader : publishSelectiveHedgePlan(i, policy, m, c)

HedgingSpec == HedgingInit /\ [][HedgingNext \/ PlanNext]_hedgeVars

-----------------------------------------------------------------------------
\* No version of a recommendation was given twice for a snapshot.
VersionsDiffer ==
  \A j, k \in DOMAIN recommendations :
    /\ recommendations[j].version = recommendations[k].version
    /\ recommendations[j].snapshot = recommendations[k].snapshot
    => j = k

\* However snapshots, assessments, versions and approvals follow each other: an executed hedge
\* has the version and the snapshot two people approved, and is the very hedge they approved
\* if no version was given twice; it is no larger than the exposure it covers, pays no more
\* than the claims it answers, and rests on a reconciled snapshot that kept the limits it was
\* held against.  (That no approval is used twice does not hold.)  A published plan is within
\* its policy, each part liquid and correlated enough and no counterparty over its share,
\* covers no more than is exposed, and is not bettered by leaving a part out.
HedgedAsApproved ==
  /\ hedgePlan # NoHedge =>
       LET s == snapshots[hedgePlan.snapshot]  plan == hedgePlan.candidates  policy == hedgePlan.policy IN
       /\ hedgePlan.maker # hedgePlan.checker /\ Eligible(plan, s.quantity, policy)
       /\ \A c \in plan :
            Eligible(plan \ {c}, s.quantity, policy) /\ plan # {c}
            => Score(plan, s.value, policy) <= Score(plan \ {c}, s.value, policy)
  /\ \A e \in DOMAIN executions :
       LET hedge == recommendations[executions[e].hedge]
           approval == executions[e].approval
           approved == recommendations[approval.hedge]
           s == snapshots[hedge.snapshot]
       IN /\ approval.initiator # approval.approver
          /\ approved.version = hedge.version /\ approved.snapshot = hedge.snapshot
          /\ VersionsDiffer => approval.hedge = executions[e].hedge
          /\ hedge.notional <= s.quantity /\ hedge.payoff <= hedge.claims
          /\ s.reconciled /\ LimitReasons(s, hedge.limits) = {}

-----------------------------------------------------------------------------
(***************************************************************************)
(* packages/hedging (pool), packages/treasury-risk-transfer and            *)
(* packages/risk: what stands behind the protection sold.  The pool's      *)
(* period is rolled forward and held against the ledger, an agreed         *)
(* scenario projects it; cash flows are forecast day by day and a shortage *)
(* justifies a transfer; a programme carries part of a loss; a scored risk *)
(* leads to a hold a second person approves.                               *)
(***************************************************************************)
CONSTANTS
  Movement,        \* [category, amount] of one period
  OpeningBalance, LedgerClosing,
  ScenarioChange,  \* [funding, buffer, claim, recovery, in, out]: changes in basis points
  CashFlow,        \* [day, amount, direction]
  LiquidityPolicy, \* [closing, coverage, outflow]
  ExpectedClaims, Horizon,
  RiskProgramme,   \* [attachment, limit, share, collateral, concentrated, ready]
  GrossLoss, CollateralCoverage,
  RiskSignal,      \* [score, weight, subject]
  RuleOutcome,     \* score -> what the rules engine makes of it
  Officer, BasisUnit, NoRecord

inflows == {"COST_FUNDING", "BUFFER_CONTRIBUTION", "HEDGE_RECOVERY", "APPROVED_TRANSFER_IN"}
outflows == {"CLAIM_UTILISATION", "HEDGE_PREMIUM", "APPROVED_TRANSFER_OUT"}

\* Amounts are whole and positive, flows within the horizon, or refused.  No code checks the
\* terms of a programme: the share it cedes may be more than the whole.
ASSUME RiskCapitalAssumption ==
  /\ BasisUnit \in Nat \ {0} /\ Horizon \in Nat \ {0} /\ NoRecord \notin Officer
  /\ OpeningBalance \cup GrossLoss \subseteq Int /\ CollateralCoverage \in Int
  /\ IsFiniteSet(Movement)
  /\ \A m \in Movement : m.amount \in Nat /\ m.category \in inflows \cup outflows
  /\ IsFiniteSet(CashFlow)
  /\ \A f \in CashFlow : f.amount \in Nat /\ f.day \in 1..Horizon /\ f.direction \in {"IN", "OUT"}
  /\ \A p \in RiskProgramme : {p.attachment, p.limit, p.share, p.collateral} \subseteq Int

VARIABLES
  rollForward,     \* the pool's period
  scenario, poolProjection,
  liquidity, transfer,
  programme, recovery,
  riskDecision, hold

capitalVars == <<rollForward, scenario, poolProjection, liquidity, transfer, programme, recovery, riskDecision, hold>>
poolVars == <<rollForward, scenario, poolProjection>>
treasuryVars == <<liquidity, transfer, programme, recovery>>
holdVars == <<riskDecision, hold>>

CapitalInit ==
  /\ rollForward = NoRecord /\ poolProjection = NoRecord /\ liquidity = NoRecord /\ transfer = NoRecord
  /\ recovery = NoRecord /\ riskDecision = NoRecord /\ hold = NoRecord
  /\ \E change \in ScenarioChange, m \in Officer :
       scenario = [change |-> change, state |-> "DRAFT", maker |-> m, checker |-> NoRecord]
  /\ \E p \in RiskProgramme, m \in Officer :
       programme = [terms |-> p, state |-> "DRAFT", maker |-> m, checker |-> NoRecord]

-----------------------------------------------------------------------------
totalFor(movements, category) == Total([m \in {x \in movements : x.category = category} |-> m.amount])

\* Never below zero; the ledger's balance decides whether it passes.
createPoolRollForward(opening, movements, ledger) ==
  LET closing == opening + Total([m \in movements |-> IF m.category \in inflows THEN m.amount ELSE -m.amount])
  IN /\ rollForward = NoRecord /\ closing >= 0
     /\ rollForward' = [opening |-> opening, closing |-> closing, reconciled |-> closing = ledger,
                        totals |-> [c \in inflows \cup outflows |-> totalFor(movements, c)]]
     /\ UNCHANGED <<scenario, poolProjection, treasuryVars, holdVars>>

approvePoolScenario(checker) ==
  /\ scenario.state = "DRAFT" /\ checker # scenario.maker
  /\ scenario' = [scenario EXCEPT !.state = "APPROVED", !.checker = checker]
  /\ UNCHANGED <<rollForward, poolProjection, treasuryVars, holdVars>>

publishPoolScenario ==
  /\ scenario.state = "APPROVED" /\ scenario' = [scenario EXCEPT !.state = "PUBLISHED"]
  /\ UNCHANGED <<rollForward, poolProjection, treasuryVars, holdVars>>

\* Math.round of an amount changed by basis points.
adjusted(amount, change) == (2 * amount * (BasisUnit + change) + BasisUnit) \div (2 * BasisUnit)

\* Mutant of Projected: premiums are forgotten.
ProjectedFree(t, change) ==
  adjusted(t["COST_FUNDING"], change.funding) + adjusted(t["BUFFER_CONTRIBUTION"], change.buffer)
  + adjusted(t["HEDGE_RECOVERY"], change.recovery) + t["APPROVED_TRANSFER_IN"] + change.in
  - adjusted(t["CLAIM_UTILISATION"], change.claim) - t["APPROVED_TRANSFER_OUT"] - change.out

\* What the changed period adds to the opening balance.
Projected(t, change) ==
  adjusted(t["COST_FUNDING"], change.funding) + adjusted(t["BUFFER_CONTRIBUTION"], change.buffer)
  + adjusted(t["HEDGE_RECOVERY"], change.recovery) + t["APPROVED_TRANSFER_IN"] + change.in
  - adjusted(t["CLAIM_UTILISATION"], change.claim) - t["HEDGE_PREMIUM"] - t["APPROVED_TRANSFER_OUT"] - change.out

projectPoolScenario(exposureReconciled) ==
  /\ scenario.state = "PUBLISHED" /\ rollForward # NoRecord /\ rollForward.reconciled /\ exposureReconciled
  /\ poolProjection' = [closing |-> rollForward.opening + Projected(rollForward.totals, scenario.change)]
  /\ UNCHANGED <<rollForward, scenario, treasuryVars, holdVars>>

-----------------------------------------------------------------------------
DayFlow(flows, day, direction) ==
  Total([f \in {x \in flows : x.day = day /\ x.direction = direction} |-> f.amount])

\* The closing balance of a day carries over to the next.
ClosingBalance(opening, flows) ==
  LET closing[d \in 0..Horizon] ==
        IF d = 0 THEN opening ELSE closing[d - 1] + DayFlow(flows, d, "IN") - DayFlow(flows, d, "OUT")
  IN closing

\* A day in breach: too little left, too little for the claims, or too much gone at once.
Breach(closing, outflow, policy) ==
  \/ closing < policy.closing
  \/ (2 * Larger(0, closing) * BasisUnit + ExpectedClaims) \div (2 * ExpectedClaims) < policy.coverage
  \/ outflow > policy.outflow

forecastLiquidity(opening, flows, policy) ==
  LET closing == ClosingBalance(opening, flows) IN
  /\ liquidity = NoRecord
  /\ liquidity' = [opening |-> opening, flows |-> flows, policy |-> policy, closing |-> closing[Horizon],
                  breach |-> \E d \in 1..Horizon : Breach(closing[d], DayFlow(flows, d, "OUT"), policy)]
  /\ UNCHANGED <<poolVars, transfer, programme, recovery, holdVars>>

proposeTreasuryTransfer(amount, maker) ==
  /\ liquidity # NoRecord /\ liquidity.breach /\ amount > 0 /\ transfer = NoRecord
  /\ transfer' = [amount |-> amount, maker |-> maker, checker |-> NoRecord, state |-> "PROPOSED"]
  /\ UNCHANGED <<poolVars, liquidity, programme, recovery, holdVars>>

approveTreasuryTransfer(checker) ==
  /\ transfer # NoRecord /\ transfer.state = "PROPOSED" /\ checker # transfer.maker
  /\ transfer' = [transfer EXCEPT !.state = "APPROVED", !.checker = checker]
  /\ UNCHANGED <<poolVars, liquidity, programme, recovery, holdVars>>

approveRiskTransferProgramme(checker) ==
  /\ programme.state = "DRAFT" /\ programme.terms.ready /\ checker # programme.maker
  /\ programme' = [programme EXCEPT !.state = "APPROVED", !.checker = checker]
  /\ UNCHANGED <<poolVars, liquidity, transfer, recovery, holdVars>>

\* The ceded share of the layer between attachment and limit, rounded, and what of it the
\* collateral covers, in basis points.
ceded(t, loss) == (2 * Smaller(t.limit, Larger(0, loss - t.attachment)) * t.share + BasisUnit) \div (2 * BasisUnit)

collateralCoverage(t, recoverable) ==
  IF recoverable = 0 THEN BasisUnit
  ELSE LET sign == IF recoverable > 0 THEN 1 ELSE -1
           magnitude == sign * recoverable
       IN (2 * sign * t.collateral * BasisUnit + magnitude) \div (2 * magnitude)

\* Mutant of Recoverable: the collateral is not looked at.
RecoverableUnsecured(loss) == programme.state = "APPROVED" /\ ~programme.terms.concentrated

\* Only by an approved programme with enough collateral, its counterparty within policy.
Recoverable(loss) ==
  /\ programme.state = "APPROVED" /\ ~programme.terms.concentrated
  /\ collateralCoverage(programme.terms, ceded(programme.terms, loss)) >= CollateralCoverage

projectRiskTransfer(loss) ==
  LET recovered == IF Recoverable(loss) THEN ceded(programme.terms, loss) ELSE 0 IN
  /\ recovery' = [loss |-> loss, recovered |-> recovered, retained |-> loss - recovered]
  /\ UNCHANGED <<poolVars, liquidity, transfer, programme, holdVars>>

-----------------------------------------------------------------------------
\* The weighted mean of the signals of one subject, rounded.
scoreRiskSignals(signals) ==
  LET weight == Total([s \in signals |-> s.weight]) IN
  (2 * Total([s \in signals |-> s.score * s.weight]) + weight) \div (2 * weight)

\* The rules engine decides; nothing else gives an outcome.
recordRiskDecision(signals) ==
  /\ signals # {} /\ Cardinality({s.subject : s \in signals}) = 1 /\ riskDecision = NoRecord
  /\ \E s \in signals :
       riskDecision' = [subject |-> s.subject, outcome |-> RuleOutcome[scoreRiskSignals(signals)],
                        score |-> scoreRiskSignals(signals)]
  /\ UNCHANGED <<poolVars, treasuryVars, hold>>

Restrictive == {"TEMPORARY_HOLD", "RESTRICT_WITHDRAWAL", "RESTRICT_NEW_PROTECTION"}

proposeRiskHold(maker) ==
  /\ riskDecision # NoRecord /\ riskDecision.outcome \in Restrictive /\ hold = NoRecord
  /\ hold' = [subject |-> riskDecision.subject, maker |-> maker, checker |-> NoRecord, state |-> "PROPOSED"]
  /\ UNCHANGED <<poolVars, treasuryVars, riskDecision>>

approveRiskHold(checker, stepUp) ==
  /\ hold # NoRecord /\ hold.state = "PROPOSED" /\ checker # hold.maker /\ stepUp
  /\ hold' = [hold EXCEPT !.state = "APPROVED", !.checker = checker]
  /\ UNCHANGED <<poolVars, treasuryVars, riskDecision>>

PoolNext ==
  \/ \E o \in OpeningBalance, ms \in SUBSET Movement, l \in LedgerClosing : createPoolRollForward(o, ms, l)
  \/ \E o \in Officer : approvePoolScenario(o)
  \/ publishPoolScenario
  \/ \E ok \in BOOLEAN : projectPoolScenario(ok)

TreasuryNext ==
  \/ \E o \in OpeningBalance, fs \in SUBSET CashFlow, p \in LiquidityPolicy : forecastLiquidity(o, fs, p)
  \/ \E o \in Officer, a \in OpeningBalance :
       proposeTreasuryTransfer(a, o) \/ approveTreasuryTransfer(o) \/ approveRiskTransferProgramme(o)
  \/ \E loss \in GrossLoss : projectRiskTransfer(loss)

HoldNext ==
  \/ \E ss \in SUBSET RiskSignal : recordRiskDecision(ss)
  \/ \E o \in Officer : proposeRiskHold(o) \/ \E stepUp \in BOOLEAN : approveRiskHold(o, stepUp)

-----------------------------------------------------------------------------
Unchanging == [funding |-> 0, buffer |-> 0, claim |-> 0, recovery |-> 0, in |-> 0, out |-> 0]

\* A share of a layer: what the terms of a programme mean, and no code checks.
ProperTerms(t) == t.attachment >= 0 /\ t.limit >= 0 /\ t.share >= 0 /\ t.share <= BasisUnit

\* The two ways the pool is added up agree: a scenario that changes nothing projects the closing
\* balance that reconciled with the ledger.  The forecast ends where its flows lead, and only a
\* shortage and two people move capital.  Whatever the terms of the programme, a loss is wholly
\* recovered or retained, and what is recovered is secured by collateral and approved by a
\* second person; of proper terms it is within the limit and the loss.  (A share above the
\* whole recovers more than the limit, and nothing stops it.)  A hold stands on a decision
\* about its subject.
CapitalAddsUp ==
  /\ poolProjection # NoRecord /\ scenario.change = Unchanging => poolProjection.closing = rollForward.closing
  /\ liquidity # NoRecord =>
       liquidity.closing = liquidity.opening
         + Total([f \in liquidity.flows |-> IF f.direction = "IN" THEN f.amount ELSE -f.amount])
  /\ transfer # NoRecord => liquidity.breach /\ transfer.maker # transfer.checker
  /\ recovery # NoRecord =>
       LET r == recovery.recovered  t == programme.terms IN
       /\ r + recovery.retained = recovery.loss
       /\ r # 0 => programme.checker \in Officer \ {programme.maker}
       /\ r > 0 => 2 * r * CollateralCoverage <= 2 * t.collateral * BasisUnit + r
       /\ ProperTerms(t) /\ recovery.loss >= 0 => r \in 0..t.limit /\ r <= recovery.loss
  /\ hold # NoRecord => hold.subject = riskDecision.subject /\ riskDecision.outcome \in Restrictive
=============================================================================
