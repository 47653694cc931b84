---------------------------- MODULE SpreadQuotes ----------------------------
(***************************************************************************)
(* packages/spread-engine and packages/quote-engine: what Fuel Cap charges *)
(* is proposed, simulated, approved, scheduled, published and withdrawn,   *)
(* and customers are quoted from what is published.                        *)
(*                                                                         *)
(* Pure functions; the state is the evidence made so far.  Every command   *)
(* brings its own instant: nothing makes them arrive in order.  The        *)
(* carrier gives every object an id of its own.  Supersession records only *)
(* name two decisions, nothing reads them, and are left out.               *)
(***************************************************************************)
EXTENDS Maps, Integers

CONSTANTS
  ProposalId, DecisionId, QuoteId, Principal,
  Time,
  SpreadPolicy,      \* the versions of the policy, with the limits of each
  Adjustment,        \* the adjustments makers ask for, summed per component
  Subsidy,           \* BOOLEAN, or {FALSE} where no subsidy source is named
  Cohort,            \* the cohorts simulations are run over
  Seeded,            \* the decision in force at the start
  QuoteRequest,      \* [at, volume, segment]
  Catalogue,         \* commercial products, a sequence
  Benchmark,         \* benchmark decisions quotes are asked on
  MaximumWithdrawals \* bound: withdrawals of one decision

Components == [cost : Int, margin : Int, reserve : Int]
totalSpreadBps(c) == c.cost + c.margin + c.reserve

\* Instants, volumes, prices, basis points and limits are whole numbers; what is in force at
\* the start charges its components.
ASSUME SpreadAssumption ==
  /\ Time \subseteq Int
  /\ \A request \in QuoteRequest : request.at \in Int /\ request.volume \in Int
  /\ \A b \in Benchmark : b.status = "PUBLISHED" => b.price \in Int
  /\ \A n \in DOMAIN Catalogue : n \in Nat /\ Catalogue[n].strikeDistance \in Int
  /\ \A policy \in SpreadPolicy :
       /\ policy.default \in Components
       /\ {policy.maximumTotal, policy.maximumChange, policy.minimumRecovery} \subseteq Int
  /\ Adjustment \subseteq Components
  /\ \A d \in DOMAIN Seeded :
       Seeded[d].components \in Components /\ Seeded[d].total = totalSpreadBps(Seeded[d].components)

VARIABLES
  proposals,     \* ProposalId -> proposal
  simulations,   \* ProposalId -> the simulation kept of it
  approvals,     \* ProposalId -> the approval kept of it
  schedules,     \* DecisionId -> scheduled decision
  published,     \* DecisionId -> published decision
  withdrawals,   \* a set
  quotes         \* QuoteId -> quote decision

governance == <<proposals, simulations, approvals, schedules>>
spreadVars == <<governance, published, withdrawals, quotes>>

SpreadInit ==
  /\ proposals = EmptyMap /\ simulations = EmptyMap /\ approvals = EmptyMap
  /\ schedules = EmptyMap /\ published = Seeded
  /\ withdrawals = {} /\ quotes = EmptyMap

-----------------------------------------------------------------------------
(* Spread                                                                  *)

validateComponents(c, policy) ==
  /\ c.cost >= 0 /\ c.margin >= 0 /\ c.reserve >= 0
  /\ totalSpreadBps(c) <= policy.maximumTotal

\* Adjustments are added up in the order of their kinds; only the sum is validated.
AppliedAdjustments(base, deltas) ==
  [cost    |-> base.cost + deltas.cost,
   margin  |-> base.margin + deltas.margin,
   reserve |-> base.reserve + deltas.reserve]

\* A reduction of the protection cost names who pays for it.
createSpreadProposal(id, maker, c, subsidy, at, policy) ==
  /\ NewKey(proposals, id) /\ validateComponents(c, policy)
  /\ c.cost < policy.default.cost => subsidy
  /\ proposals' = Put(proposals, id,
       [policy |-> policy.id, components |-> c, total |-> totalSpreadBps(c), maker |-> maker,
        subsidy |-> subsidy, createdAt |-> at])
  /\ UNCHANGED <<simulations, approvals, schedules, published, withdrawals, quotes>>

createFuelCapPlusProposal(id, maker, at, policy) ==
  createSpreadProposal(id, maker, [policy.default EXCEPT !.margin = 0], FALSE, at, policy)

Difference(a, b) == IF a >= b THEN a - b ELSE b - a

\* What stands against a proposal, judged against the decision the caller says is current.
Blockers(proposal, current, cohorts, policy) ==
  {blocker \in {"MAXIMUM_CHANGE_EXCEEDED", "MINIMUM_COST_RECOVERY_FAILED", "EXPOSURE_CAP_EXCEEDED"} :
     \/ /\ blocker = "MAXIMUM_CHANGE_EXCEEDED"
        /\ Difference(proposal.total, current.total) > policy.maximumChange
     \/ /\ blocker = "MINIMUM_COST_RECOVERY_FAILED"
        /\ proposal.components.cost < policy.minimumRecovery /\ ~proposal.subsidy
     \/ /\ blocker = "EXPOSURE_CAP_EXCEEDED"
        /\ Total([c \in cohorts |-> c.quantity]) > policy.maximumExposure}

simulateSpreadProposal(id, current, cohorts, at, policy) ==
  /\ id \in DOMAIN proposals /\ NewKey(simulations, id) /\ current \in DOMAIN published
  /\ at >= proposals[id].createdAt
  /\ published[current].policy = policy.id /\ proposals[id].policy = policy.id
  /\ simulations' = Put(simulations, id,
       [blockers |-> Blockers(proposals[id], published[current], cohorts, policy),
        against |-> published[current].total, policy |-> policy])
  /\ UNCHANGED <<proposals, approvals, schedules, published, withdrawals, quotes>>

\* Maker and checker differ.
Independent(checker, maker) == checker # maker

approveSpreadProposal(id, checker, at) ==
  /\ id \in DOMAIN proposals /\ NewKey(approvals, id)
  /\ Independent(checker, proposals[id].maker) /\ at >= proposals[id].createdAt
  /\ approvals' = Put(approvals, id, [checker |-> checker, at |-> at])
  /\ UNCHANGED <<proposals, simulations, schedules, published, withdrawals, quotes>>

MaySchedule(id, effective, at) ==
  /\ id \in DOMAIN simulations /\ simulations[id].blockers = {}
  /\ id \in DOMAIN approvals
  /\ at >= approvals[id].at /\ effective >= at

scheduleSpreadDecision(d, id, effective, at) ==
  /\ NewKey(schedules, d) /\ d \notin DOMAIN published /\ MaySchedule(id, effective, at)
  /\ schedules' = Put(schedules, d, [proposal |-> id, effective |-> effective])
  /\ UNCHANGED <<proposals, simulations, approvals, published, withdrawals, quotes>>

Published(id, at, policy) ==
  [policy |-> policy.id, limits |-> policy, components |-> proposals[id].components,
   total |-> totalSpreadBps(proposals[id].components), proposal |-> id,
   maker |-> proposals[id].maker, checker |-> approvals[id].checker, publishedAt |-> at]

\* Mutant of MayPublish: the limits were checked when the proposal was made.
MayPublishOnTrust(id, at, policy) ==
  /\ id \in DOMAIN approvals /\ proposals[id].policy = policy.id /\ at >= approvals[id].at

\* The components are validated again, under the limits of the day.
MayPublish(id, at, policy) ==
  /\ id \in DOMAIN approvals /\ proposals[id].policy = policy.id /\ at >= approvals[id].at
  /\ validateComponents(proposals[id].components, policy)
  /\ proposals[id].total = totalSpreadBps(proposals[id].components)

\* Directly, without simulation and schedule.
publishSpreadDecision(d, id, at, policy) ==
  /\ NewKey(published, d) /\ d \notin DOMAIN schedules /\ MayPublish(id, at, policy)
  /\ published' = Put(published, d, Published(id, at, policy))
  /\ UNCHANGED <<governance, withdrawals, quotes>>

publishScheduledSpreadDecision(d, at, policy) ==
  /\ NewKey(published, d) /\ d \in DOMAIN schedules /\ at >= schedules[d].effective
  /\ MayPublish(schedules[d].proposal, at, policy)
  /\ published' = Put(published, d, Published(schedules[d].proposal, at, policy))
  /\ UNCHANGED <<governance, withdrawals, quotes>>

withdrawSpreadDecision(d, at) ==
  /\ d \in DOMAIN published /\ at >= published[d].publishedAt
  /\ Cardinality({w \in withdrawals : w.decision = d}) < MaximumWithdrawals
  /\ withdrawals' = withdrawals \cup {[decision |-> d, at |-> at]}
  /\ UNCHANGED <<governance, published, quotes>>

-----------------------------------------------------------------------------
(* Quotes                                                                  *)

\* Mutant of applyBps: rounded down.
applyBpsDown(amount, bps) == (amount * bps) \div 10000

\* Basis points of an amount, rounded up.
applyBps(amount, bps) == (amount * bps + 9999) \div 10000

\* The products on sale for the request, by their place in the catalogue.
OnSale(request) ==
  {n \in DOMAIN Catalogue :
     /\ Catalogue[n].active /\ Catalogue[n].segment = request.segment
     /\ Catalogue[n].from <= request.at /\ request.at < Catalogue[n].to}

ProductFor(request) == Catalogue[Min(OnSale(request))]

Reason(request, benchmark) ==
  IF benchmark.status # "PUBLISHED" THEN "BENCHMARK_UNAVAILABLE"
  ELSE IF OnSale(request) = {} THEN "PRODUCT_UNAVAILABLE"
  ELSE IF request.volume > ProductFor(request).maximumVolume THEN "VOLUME_LIMIT_EXCEEDED"
  ELSE "QUOTE_CREATED"

\* Reference, strike, boundary, charge, and what is reserved for the volume.
Quoted(request, benchmark, spread) ==
  LET product == ProductFor(request)
      strike  == benchmark.price + applyBps(benchmark.price, product.strikeDistance)
      charge  == applyBps(benchmark.price, spread.total)
  IN [reference |-> benchmark.price, strike |-> strike, charge |-> charge,
      boundary |-> benchmark.price + applyBps(benchmark.price, product.boundaryDistance),
      reserved |-> ((strike + charge) * request.volume + 9999) \div 10000]

\* Mutant of MayQuote: a withdrawal counts only after its instant.
MayQuoteAtWithdrawal(d, known, at) ==
  /\ at >= published[d].publishedAt
  /\ \A w \in known : w.decision = d /\ w.at >= at

\* Quotes fail closed: published by then, and no withdrawal in hand that is of another
\* decision or has begun.
MayQuote(d, known, at) ==
  /\ at >= published[d].publishedAt
  /\ \A w \in known : w.decision = d /\ w.at > at

\* The caller hands over the first withdrawal of the decision it knows of; with none of
\* it, nothing, or by mistake the withdrawal of another.
HandedOver(d) ==
  LET mine == {w \in withdrawals : w.decision = d}
  IN IF mine = {} THEN {{}} \cup {{w} : w \in withdrawals}
     ELSE {{CHOOSE w \in mine : \A v \in mine : w.at <= v.at}}

createGovernedQuote(id, request, d, known, benchmark) ==
  LET reason == IF MayQuote(d, known, request.at) THEN Reason(request, benchmark)
                ELSE "SPREAD_DECISION_UNAVAILABLE"
  IN /\ NewKey(quotes, id)
     /\ quotes' = Put(quotes, id,
          [request |-> request, decision |-> d, reason |-> reason,
           figures |-> IF reason = "QUOTE_CREATED"
                       THEN <<Quoted(request, benchmark, published[d])>> ELSE <<>>])
     /\ UNCHANGED <<governance, published, withdrawals>>

SpreadNext ==
  \/ \E id \in ProposalId, maker \in Principal, at \in Time, policy \in SpreadPolicy :
       \/ \E a \in Adjustment, subsidy \in Subsidy :
            createSpreadProposal(id, maker, AppliedAdjustments(policy.default, a), subsidy, at, policy)
       \/ createFuelCapPlusProposal(id, maker, at, policy)
  \/ \E id \in ProposalId, current \in DecisionId, at \in Time, policy \in SpreadPolicy,
        cohorts \in Cohort :
       simulateSpreadProposal(id, current, cohorts, at, policy)
  \/ \E id \in ProposalId, checker \in Principal, at \in Time :
       approveSpreadProposal(id, checker, at)
  \/ \E d \in DecisionId, id \in ProposalId, effective, at \in Time :
       scheduleSpreadDecision(d, id, effective, at)
  \/ \E d \in DecisionId, at \in Time, policy \in SpreadPolicy :
       \/ \E id \in ProposalId : publishSpreadDecision(d, id, at, policy)
       \/ publishScheduledSpreadDecision(d, at, policy)
  \/ \E d \in DecisionId, at \in Time : withdrawSpreadDecision(d, at)
  \/ \E id \in QuoteId, request \in QuoteRequest, d \in DOMAIN published, b \in Benchmark :
       \E known \in HandedOver(d) : createGovernedQuote(id, request, d, known, b)

SpreadSpec == SpreadInit /\ [][SpreadNext]_spreadVars

-----------------------------------------------------------------------------
(* Properties                                                              *)

\* However commands are delayed, and whatever becomes of the limits between proposal and
\* publication, a decision in force is what two people stand behind, keeps the limits of
\* the day it was published, and came in order; one that was scheduled had passed its
\* simulation within the largest change, and waited for its effective time.
PublishedAsApproved ==
  \A d \in DOMAIN published \ DOMAIN Seeded :
    LET p == proposals[published[d].proposal] IN
    /\ published[d].components = p.components /\ published[d].total = p.total
    /\ published[d].maker # published[d].checker
    /\ published[d].total <= published[d].limits.maximumTotal
    /\ p.createdAt <= published[d].publishedAt
    /\ d \in DOMAIN schedules =>
         LET sim == simulations[schedules[d].proposal] IN
         /\ Difference(p.total, sim.against) <= sim.policy.maximumChange
         /\ p.components.cost >= sim.policy.minimumRecovery \/ p.subsidy
         /\ schedules[d].effective <= published[d].publishedAt

\* From the moment a withdrawal is known no new quote is made on the decision for an
\* instant at or after it, and quotes made before keep all their figures.
WithdrawalStopsQuotes ==
  [][\A id \in DOMAIN quotes' :
       IF id \in DOMAIN quotes THEN quotes'[id] = quotes[id]
       ELSE quotes'[id].figures # <<>> =>
              \A w \in withdrawals :
                w.decision = quotes'[id].decision => quotes'[id].request.at < w.at]_spreadVars

\* What a customer reserves pays the strike and the whole charge for the volume, and
\* rounding takes less than a unit of the price and one of the amount from them: cost,
\* margin and reserve are each covered.
ReservationCovers ==
  \A id \in DOMAIN quotes : quotes[id].figures # <<>> =>
    LET f == quotes[id].figures[1]
        c == published[quotes[id].decision].components
        volume == quotes[id].request.volume
        exact == f.reference * totalSpreadBps(c)
    IN /\ f.charge * 10000 >= exact /\ f.charge * 10000 < exact + 10000
       /\ f.reserved * 10000 >= (f.strike + f.charge) * volume
       /\ (f.reserved - 1) * 10000 < (f.strike + f.charge) * volume
=============================================================================
