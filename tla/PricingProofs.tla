---------------------------- MODULE PricingProofs ----------------------------
(***************************************************************************)
(* For any people, policies, instants and decisions: what is published was *)
(* proposed and approved by two, within the limits, and a withdrawal stops *)
(* new quotes from its instant on, and a quote reserves what it costs.     *)
(* For any positions, limits and candidates: an executed hedge stands on   *)
(* the snapshot and the approval it was made for. For any rates, commands  *)
(* and adjustments: a conversion is traceable to them and exact.  For any  *)
(* records, catalogues and policies: a published benchmark is a weighted   *)
(* median of sound records.  For any payments, invoices, movements, flows  *)
(* and programmes: what money is decided on is the sum of its records.     *)
(* And the rules, bulletins, models, evidence and policies that are used   *)
(* were sound when they were published, and stay so.                       *)
(***************************************************************************)
EXTENDS MCPricing, BasicLemmas, SequenceTheorems

-----------------------------------------------------------------------------
(* The inductive invariant                                                 *)

\* Every step of the governance rests on the ones before it, and came after them.
ProposalsTyped ==
  \A id \in DOMAIN proposals :
    /\ proposals[id].createdAt \in Int /\ proposals[id].total \in Int
    /\ proposals[id].components.cost \in Int

ApprovalsFollow ==
  \A id \in DOMAIN approvals :
    /\ id \in DOMAIN proposals /\ approvals[id].at \in Int
    /\ approvals[id].checker # proposals[id].maker
    /\ proposals[id].createdAt <= approvals[id].at

\* A simulation without blockers kept the limits of the policy it was run under.
Passed(proposal, sim) ==
  /\ Difference(proposal.total, sim.against) <= sim.policy.maximumChange
  /\ proposal.components.cost >= sim.policy.minimumRecovery \/ proposal.subsidy

SimulationsHold ==
  \A id \in DOMAIN simulations :
    /\ id \in DOMAIN proposals
    /\ simulations[id].blockers = {} => Passed(proposals[id], simulations[id])

SchedulesPassed ==
  \A d \in DOMAIN schedules :
    /\ schedules[d].proposal \in DOMAIN simulations
    /\ simulations[schedules[d].proposal].blockers = {}
    /\ schedules[d].effective \in Int

\* What is published charges its components, in whole basis points.
TotalsTyped ==
  \A d \in DOMAIN published :
    published[d].total \in Int /\ published[d].total = totalSpreadBps(published[d].components)

\* What is published stays what its proposal and its approval say.
PublishedFollows ==
  \A d \in DOMAIN published \ DOMAIN Seeded :
    LET p == published[d] IN
    /\ p.proposal \in DOMAIN approvals
    /\ p.components = proposals[p.proposal].components
    /\ p.total = proposals[p.proposal].total
    /\ p.maker = proposals[p.proposal].maker
    /\ p.checker = approvals[p.proposal].checker
    /\ p.total <= p.limits.maximumTotal
    /\ p.publishedAt \in Int /\ approvals[p.proposal].at <= p.publishedAt
    /\ d \in DOMAIN schedules =>
         p.proposal = schedules[d].proposal /\ schedules[d].effective <= p.publishedAt

Governed ==
  /\ ProposalsTyped /\ ApprovalsFollow /\ SimulationsHold /\ SchedulesPassed
  /\ TotalsTyped /\ PublishedFollows

\* Of the withdrawals of a decision one is the earliest, which is handed over.
HasEarliest ==
  /\ \A w \in withdrawals : w.at \in Int
  /\ \A u \in withdrawals : \E w \in withdrawals :
       w.decision = u.decision /\ \A v \in withdrawals : v.decision = u.decision => w.at <= v.at

IInv == Governed /\ HasEarliest

-----------------------------------------------------------------------------
(* Lemmas                                                                  *)

\* Components the functions propose are whole numbers, and so is their total.
LEMMA ProposedTyped ==
  ASSUME NEW policy \in SpreadPolicy
  PROVE  /\ \A a \in Adjustment : AppliedAdjustments(policy.default, a) \in Components
         /\ [policy.default EXCEPT !.margin = 0] \in Components
  BY SpreadAssumption DEF AppliedAdjustments, Components

LEMMA TotalTyped ==
  ASSUME NEW c \in Components
  PROVE  totalSpreadBps(c) \in Int /\ c.cost \in Int
  BY DEF Components, totalSpreadBps

\* Without blockers a proposal keeps the limits it was simulated under.
LEMMA NoBlockers ==
  ASSUME NEW proposal, NEW current, NEW cohorts, NEW policy \in SpreadPolicy,
         proposal.total \in Int, proposal.components.cost \in Int, current.total \in Int,
         Blockers(proposal, current, cohorts, policy) = {}
  PROVE  /\ Difference(proposal.total, current.total) <= policy.maximumChange
         /\ proposal.components.cost >= policy.minimumRecovery \/ proposal.subsidy
<1>1. policy.maximumChange \in Int /\ policy.minimumRecovery \in Int
  BY SpreadAssumption
<1>2. Difference(proposal.total, current.total) \in Int
  BY DEF Difference
<1>3. ~(Difference(proposal.total, current.total) > policy.maximumChange)
  BY Zenon DEF Blockers
<1>4. ~(proposal.components.cost < policy.minimumRecovery /\ ~proposal.subsidy)
  BY Zenon DEF Blockers
<1>5. Difference(proposal.total, current.total) <= policy.maximumChange
  BY <1>1, <1>2, <1>3
<1>6. CASE proposal.subsidy
  BY <1>5, <1>6
<1>7. CASE ~proposal.subsidy
  <2>1. ~(proposal.components.cost < policy.minimumRecovery)
    BY <1>4, <1>7
  <2>2. proposal.components.cost >= policy.minimumRecovery
    BY <1>1, <2>1
  <2>3. QED
    BY <1>5, <2>2
<1>8. QED
  BY <1>6, <1>7

-----------------------------------------------------------------------------
(* The steps                                                               *)

\* A proposal, from either of the two functions, leaves all before it in place.
LEMMA ProposeStep ==
  ASSUME Governed, NEW id, NEW maker, NEW c \in Components, NEW subsidy, NEW at \in Time,
         NEW policy, createSpreadProposal(id, maker, c, subsidy, at, policy)
  PROVE  Governed'
<1> DEFINE new == [policy |-> policy.id, components |-> c, total |-> totalSpreadBps(c), maker |-> maker,
                   subsidy |-> subsidy, createdAt |-> at]
<1>1. /\ id \notin DOMAIN proposals /\ proposals' = Put(proposals, id, new)
      /\ UNCHANGED <<simulations, approvals, schedules, published>>
  BY DEF createSpreadProposal, NewKey
<1> HIDE DEF new
<1>2. /\ DOMAIN proposals' = DOMAIN proposals \cup {id} /\ proposals'[id] = new
      /\ \A x \in DOMAIN proposals : proposals'[x] = proposals[x]
  BY <1>1 DEF Put
<1>3. new.createdAt \in Int /\ new.total \in Int /\ new.components.cost \in Int
  BY TotalTyped, SpreadAssumption DEF new
<1>4. ProposalsTyped'
  BY <1>2, <1>3 DEF Governed, ProposalsTyped
<1>5. ApprovalsFollow'
  BY <1>1, <1>2 DEF Governed, ApprovalsFollow
<1>6. SimulationsHold'
  BY <1>1, <1>2 DEF Governed, SimulationsHold, Passed
<1>7. SchedulesPassed' /\ TotalsTyped'
  BY <1>1 DEF Governed, SchedulesPassed, TotalsTyped
<1>8. PublishedFollows'
  BY <1>1, <1>2 DEF Governed, ApprovalsFollow, PublishedFollows
<1>9. QED
  BY <1>4, <1>5, <1>6, <1>7, <1>8 DEF Governed

\* A simulation is run once, and passes within the limits only.
LEMMA SimulateStep ==
  ASSUME Governed, NEW id, NEW current, NEW cohorts, NEW at, NEW policy \in SpreadPolicy,
         simulateSpreadProposal(id, current, cohorts, at, policy)
  PROVE  Governed'
<1> DEFINE new == [blockers |-> Blockers(proposals[id], published[current], cohorts, policy),
                   against |-> published[current].total, policy |-> policy]
<1>1. /\ id \in DOMAIN proposals /\ id \notin DOMAIN simulations /\ current \in DOMAIN published
      /\ simulations' = Put(simulations, id, new)
      /\ UNCHANGED <<proposals, approvals, schedules, published>>
  BY DEF simulateSpreadProposal, NewKey
<1> HIDE DEF new
<1>2. /\ DOMAIN simulations' = DOMAIN simulations \cup {id} /\ simulations'[id] = new
      /\ \A x \in DOMAIN simulations : simulations'[x] = simulations[x]
  BY <1>1 DEF Put
<1>3. /\ proposals[id].total \in Int /\ proposals[id].components.cost \in Int
      /\ published[current].total \in Int
  BY <1>1 DEF Governed, ProposalsTyped, TotalsTyped
<1>4. new.blockers = {} => Passed(proposals[id], new)
  BY <1>3, NoBlockers DEF Passed, new
<1>5. SimulationsHold'
  <2>1. \A x \in DOMAIN simulations' :
          /\ x \in DOMAIN proposals
          /\ simulations'[x].blockers = {} => Passed(proposals[x], simulations'[x])
    BY <1>1, <1>2, <1>4 DEF Governed, SimulationsHold
  <2>2. QED
    BY <1>1, <2>1 DEF SimulationsHold, Passed
<1>6. SchedulesPassed'
  BY <1>1, <1>2 DEF Governed, SchedulesPassed
<1>7. ProposalsTyped' /\ ApprovalsFollow' /\ TotalsTyped' /\ PublishedFollows'
  BY <1>1 DEF Governed, ProposalsTyped, ApprovalsFollow, TotalsTyped, PublishedFollows
<1>8. QED
  BY <1>5, <1>6, <1>7 DEF Governed

\* An approval is kept once, of another person than the maker.
LEMMA ApproveStep ==
  ASSUME Governed, NEW id, NEW checker, NEW at \in Time, approveSpreadProposal(id, checker, at)
  PROVE  Governed'
<1> DEFINE new == [checker |-> checker, at |-> at]
<1>1. /\ id \in DOMAIN proposals /\ id \notin DOMAIN approvals
      /\ checker # proposals[id].maker /\ at >= proposals[id].createdAt
      /\ approvals' = Put(approvals, id, new)
      /\ UNCHANGED <<proposals, simulations, schedules, published>>
  BY DEF approveSpreadProposal, NewKey, Independent
<1> HIDE DEF new
<1>2. /\ DOMAIN approvals' = DOMAIN approvals \cup {id} /\ approvals'[id] = new
      /\ \A x \in DOMAIN approvals : approvals'[x] = approvals[x]
  BY <1>1 DEF Put
<1>3. /\ new.checker # proposals[id].maker /\ new.at \in Int
      /\ proposals[id].createdAt <= new.at
  BY <1>1, SpreadAssumption DEF Governed, ProposalsTyped, new
<1>4. ApprovalsFollow'
  BY <1>1, <1>2, <1>3 DEF Governed, ApprovalsFollow
<1>5. PublishedFollows'
  BY <1>1, <1>2 DEF Governed, PublishedFollows
<1>6. ProposalsTyped' /\ SimulationsHold' /\ SchedulesPassed' /\ TotalsTyped'
  BY <1>1 DEF Governed, ProposalsTyped, SimulationsHold, Passed, SchedulesPassed, TotalsTyped
<1>7. QED
  BY <1>4, <1>5, <1>6 DEF Governed

\* Only what passed its simulation is scheduled, and nothing that is published already.
LEMMA ScheduleStep ==
  ASSUME Governed, NEW d, NEW id, NEW effective \in Time, NEW at,
         scheduleSpreadDecision(d, id, effective, at)
  PROVE  Governed'
<1> DEFINE new == [proposal |-> id, effective |-> effective]
<1>1. /\ d \notin DOMAIN schedules /\ d \notin DOMAIN published
      /\ id \in DOMAIN simulations /\ simulations[id].blockers = {}
      /\ schedules' = Put(schedules, d, new)
      /\ UNCHANGED <<proposals, simulations, approvals, published>>
  BY DEF scheduleSpreadDecision, NewKey, MaySchedule
<1> HIDE DEF new
<1>2. /\ DOMAIN schedules' = DOMAIN schedules \cup {d} /\ schedules'[d] = new
      /\ \A x \in DOMAIN schedules : schedules'[x] = schedules[x]
  BY <1>1 DEF Put
<1>3. new.proposal = id /\ new.effective \in Int
  BY SpreadAssumption DEF new
<1>4. SchedulesPassed'
  BY <1>1, <1>2, <1>3 DEF Governed, SchedulesPassed
<1>5. PublishedFollows'
  BY <1>1, <1>2 DEF Governed, PublishedFollows
<1>6. ProposalsTyped' /\ ApprovalsFollow' /\ SimulationsHold' /\ TotalsTyped'
  BY <1>1 DEF Governed, ProposalsTyped, ApprovalsFollow, SimulationsHold, Passed, TotalsTyped
<1>7. QED
  BY <1>4, <1>5, <1>6 DEF Governed

\* A publication on an approved proposal, on schedule or, where there is none, directly.
LEMMA PublishStep ==
  ASSUME Governed, NEW d, NEW id, NEW at \in Time, NEW policy \in SpreadPolicy,
         d \notin DOMAIN published, MayPublish(id, at, policy),
         d \in DOMAIN schedules => id = schedules[d].proposal /\ at >= schedules[d].effective,
         published' = Put(published, d, Published(id, at, policy)), UNCHANGED governance
  PROVE  Governed'
<1> DEFINE new == Published(id, at, policy)
<1>0. published' = Put(published, d, new)
  OBVIOUS
<1> HIDE DEF new
<1>1. /\ DOMAIN published' = DOMAIN published \cup {d} /\ published'[d] = new
      /\ \A x \in DOMAIN published : published'[x] = published[x]
  BY <1>0 DEF Put
<1>2. UNCHANGED <<proposals, simulations, approvals, schedules>>
  BY DEF governance
<1>3. /\ id \in DOMAIN approvals /\ at >= approvals[id].at
      /\ totalSpreadBps(proposals[id].components) <= policy.maximumTotal
      /\ proposals[id].total = totalSpreadBps(proposals[id].components)
  BY DEF MayPublish, validateComponents
<1>4. /\ new.proposal = id /\ new.components = proposals[id].components
      /\ new.total = proposals[id].total /\ new.maker = proposals[id].maker
      /\ new.checker = approvals[id].checker /\ new.limits = policy /\ new.publishedAt = at
  BY <1>3 DEF Published, new
<1>5. /\ new.total \in Int /\ new.total <= new.limits.maximumTotal
      /\ new.publishedAt \in Int /\ approvals[id].at <= new.publishedAt
  <2>1. /\ id \in DOMAIN proposals /\ approvals[id].at \in Int /\ proposals[id].total \in Int
    BY <1>3 DEF Governed, ApprovalsFollow, ProposalsTyped
  <2>2. at \in Int /\ policy.maximumTotal \in Int
    BY SpreadAssumption
  <2>3. QED
    BY <1>3, <1>4, <2>1, <2>2
<1>6. d \in DOMAIN schedules =>
        new.proposal = schedules[d].proposal /\ schedules[d].effective <= new.publishedAt
  <2>1. SUFFICES ASSUME d \in DOMAIN schedules
                 PROVE  new.proposal = schedules[d].proposal /\ schedules[d].effective <= new.publishedAt
    OBVIOUS
  <2>2. schedules[d].effective \in Int /\ at \in Int
    BY <2>1, SpreadAssumption DEF Governed, SchedulesPassed
  <2>3. QED
    BY <1>4, <2>1, <2>2
<1>7. PublishedFollows'
  <2>1. \A x \in DOMAIN published' \ DOMAIN Seeded :
          LET p == published'[x] IN
          /\ p.proposal \in DOMAIN approvals
          /\ p.components = proposals[p.proposal].components
          /\ p.total = proposals[p.proposal].total
          /\ p.maker = proposals[p.proposal].maker
          /\ p.checker = approvals[p.proposal].checker
          /\ p.total <= p.limits.maximumTotal
          /\ p.publishedAt \in Int /\ approvals[p.proposal].at <= p.publishedAt
          /\ x \in DOMAIN schedules =>
               p.proposal = schedules[x].proposal /\ schedules[x].effective <= p.publishedAt
    <3>1. TAKE x \in DOMAIN published' \ DOMAIN Seeded
    <3>2. CASE x = d
      BY <1>1, <1>3, <1>4, <1>5, <1>6, <3>2
    <3>3. CASE x # d
      BY <1>1, <3>3 DEF Governed, PublishedFollows
    <3>4. QED
      BY <3>2, <3>3
  <2>2. QED
    BY <1>2, <2>1 DEF PublishedFollows
<1>8. TotalsTyped'
  BY <1>1, <1>3, <1>4, <1>5 DEF Governed, TotalsTyped
<1>9. ProposalsTyped' /\ ApprovalsFollow' /\ SimulationsHold' /\ SchedulesPassed'
  BY <1>2 DEF Governed, ProposalsTyped, ApprovalsFollow, SimulationsHold, Passed, SchedulesPassed
<1>10. QED
  BY <1>7, <1>8, <1>9 DEF Governed

\* A withdrawal adds one that is the earliest of its decision or not earlier than it.
LEMMA WithdrawStep ==
  ASSUME HasEarliest, NEW d, NEW at \in Time, withdrawSpreadDecision(d, at)
  PROVE  HasEarliest'
<1> DEFINE new == [decision |-> d, at |-> at]
<1>1. withdrawals' = withdrawals \cup {new}
  BY DEF withdrawSpreadDecision
<1>2. new.decision = d /\ new.at = at /\ at \in Int
  BY SpreadAssumption
<1> HIDE DEF new
<1>3. \A w \in withdrawals' : w.at \in Int
  BY <1>1, <1>2 DEF HasEarliest
<1>4. ASSUME NEW x, \E w \in withdrawals' : w.decision = x
      PROVE  \E w \in withdrawals' :
               w.decision = x /\ \A v \in withdrawals' : v.decision = x => w.at <= v.at
  <2>1. CASE \A w \in withdrawals : w.decision # x
    <3>1. new.decision = x /\ \A v \in withdrawals' : v.decision = x => v = new
      BY <1>1, <1>4, <2>1
    <3>2. new \in withdrawals' /\ new.at <= new.at
      BY <1>1, <1>2
    <3>3. QED
      BY <3>1, <3>2
  <2>2. CASE \E w \in withdrawals : w.decision = x
    <3>1. PICK e \in withdrawals :
            e.decision = x /\ \A v \in withdrawals : v.decision = x => e.at <= v.at
      BY <2>2 DEF HasEarliest
    <3>2. e.at \in Int
      BY DEF HasEarliest
    <3>3. CASE x = d /\ at < e.at
      <4>1. \A v \in withdrawals' : v.decision = x => new.at <= v.at
        BY <1>1, <1>2, <1>3, <3>1, <3>2, <3>3
      <4>2. QED
        BY <1>1, <1>2, <3>3, <4>1
    <3>4. CASE ~(x = d /\ at < e.at)
      <4>1. \A v \in withdrawals' : v.decision = x => e.at <= v.at
        BY <1>1, <1>2, <3>1, <3>2, <3>4
      <4>2. QED
        BY <1>1, <3>1, <4>1
    <3>5. QED
      BY <3>3, <3>4
  <2>3. QED
    BY <2>1, <2>2
<1>5. QED
  BY <1>3, <1>4 DEF HasEarliest

-----------------------------------------------------------------------------
(* The theorems                                                            *)

\* The invariant holds at the start.
LEMMA Start == SpreadInit => IInv
<1> SUFFICES ASSUME SpreadInit PROVE IInv
  OBVIOUS
<1>1. /\ DOMAIN proposals = {} /\ DOMAIN approvals = {} /\ DOMAIN simulations = {}
      /\ DOMAIN schedules = {} /\ published = Seeded /\ withdrawals = {}
  BY EmptyIsMap DEF SpreadInit
<1>2. ProposalsTyped /\ ApprovalsFollow /\ SimulationsHold /\ SchedulesPassed /\ PublishedFollows
  BY <1>1 DEF ProposalsTyped, ApprovalsFollow, SimulationsHold, SchedulesPassed, PublishedFollows
<1>3. TotalsTyped
  BY <1>1, SpreadAssumption, TotalTyped DEF TotalsTyped
<1>4. HasEarliest
  BY <1>1 DEF HasEarliest
<1>5. QED
  BY <1>2, <1>3, <1>4 DEF IInv, Governed

\* A step that leaves the evidence alone keeps the invariant.
LEMMA Untouched ==
  ASSUME IInv, UNCHANGED <<proposals, simulations, approvals, schedules, published>>
  PROVE  Governed'
  BY DEF IInv, Governed, ProposalsTyped, ApprovalsFollow, SimulationsHold, Passed,
         SchedulesPassed, TotalsTyped, PublishedFollows

\* No step breaks it.
LEMMA Step == IInv /\ [SpreadNext]_spreadVars => IInv'
<1> SUFFICES ASSUME IInv, [SpreadNext]_spreadVars PROVE IInv'
  OBVIOUS
<1>1. Governed /\ HasEarliest
  BY DEF IInv
<1>2. UNCHANGED withdrawals => HasEarliest'
  BY <1>1 DEF HasEarliest
<1>3. ASSUME NEW id \in ProposalId, NEW maker \in Principal, NEW at \in Time, NEW policy \in SpreadPolicy,
             NEW a \in Adjustment, NEW subsidy \in Subsidy,
             createSpreadProposal(id, maker, AppliedAdjustments(policy.default, a), subsidy, at, policy)
      PROVE  IInv'
  <2>1. AppliedAdjustments(policy.default, a) \in Components
    BY ProposedTyped
  <2>2. Governed'
    BY <1>1, <1>3, <2>1, ProposeStep
  <2>3. UNCHANGED withdrawals
    BY <1>3 DEF createSpreadProposal
  <2>4. QED
    BY <1>2, <2>2, <2>3 DEF IInv
<1>4. ASSUME NEW id \in ProposalId, NEW maker \in Principal, NEW at \in Time, NEW policy \in SpreadPolicy,
             createFuelCapPlusProposal(id, maker, at, policy)
      PROVE  IInv'
  <2>1. [policy.default EXCEPT !.margin = 0] \in Components
    BY ProposedTyped
  <2>2. createSpreadProposal(id, maker, [policy.default EXCEPT !.margin = 0], FALSE, at, policy)
    BY <1>4 DEF createFuelCapPlusProposal
  <2>3. Governed'
    BY <1>1, <2>1, <2>2, ProposeStep
  <2>4. UNCHANGED withdrawals
    BY <2>2 DEF createSpreadProposal
  <2>5. QED
    BY <1>2, <2>3, <2>4 DEF IInv
<1>5. ASSUME NEW id \in ProposalId, NEW current \in DecisionId, NEW at \in Time, NEW policy \in SpreadPolicy,
             NEW cohorts \in Cohort, simulateSpreadProposal(id, current, cohorts, at, policy)
      PROVE  IInv'
  <2>1. Governed'
    BY <1>1, <1>5, SimulateStep
  <2>2. UNCHANGED withdrawals
    BY <1>5 DEF simulateSpreadProposal
  <2>3. QED
    BY <1>2, <2>1, <2>2 DEF IInv
<1>6. ASSUME NEW id \in ProposalId, NEW checker \in Principal, NEW at \in Time,
             approveSpreadProposal(id, checker, at)
      PROVE  IInv'
  <2>1. Governed'
    BY <1>1, <1>6, ApproveStep
  <2>2. UNCHANGED withdrawals
    BY <1>6 DEF approveSpreadProposal
  <2>3. QED
    BY <1>2, <2>1, <2>2 DEF IInv
<1>7. ASSUME NEW d \in DecisionId, NEW id \in ProposalId, NEW effective \in Time, NEW at \in Time,
             scheduleSpreadDecision(d, id, effective, at)
      PROVE  IInv'
  <2>1. Governed'
    BY <1>1, <1>7, ScheduleStep
  <2>2. UNCHANGED withdrawals
    BY <1>7 DEF scheduleSpreadDecision
  <2>3. QED
    BY <1>2, <2>1, <2>2 DEF IInv
<1>8. ASSUME NEW d \in DecisionId, NEW at \in Time, NEW policy \in SpreadPolicy, NEW id \in ProposalId,
             publishSpreadDecision(d, id, at, policy)
      PROVE  IInv'
  <2>1. /\ d \notin DOMAIN published /\ d \notin DOMAIN schedules /\ MayPublish(id, at, policy)
        /\ published' = Put(published, d, Published(id, at, policy))
        /\ UNCHANGED governance /\ UNCHANGED withdrawals
    BY <1>8 DEF publishSpreadDecision, NewKey
  <2>2. Governed'
    BY <1>1, <2>1, PublishStep
  <2>3. QED
    BY <1>2, <2>1, <2>2 DEF IInv
<1>9. ASSUME NEW d \in DecisionId, NEW at \in Time, NEW policy \in SpreadPolicy,
             publishScheduledSpreadDecision(d, at, policy)
      PROVE  IInv'
  <2> DEFINE id == schedules[d].proposal
  <2>1. /\ d \notin DOMAIN published /\ at >= schedules[d].effective /\ MayPublish(id, at, policy)
        /\ published' = Put(published, d, Published(id, at, policy))
        /\ UNCHANGED governance /\ UNCHANGED withdrawals
    BY <1>9 DEF publishScheduledSpreadDecision, NewKey
  <2>2. Governed'
    BY <1>1, <2>1, PublishStep
  <2>3. QED
    BY <1>2, <2>1, <2>2 DEF IInv
<1>10. ASSUME NEW d \in DecisionId, NEW at \in Time, withdrawSpreadDecision(d, at)
       PROVE  IInv'
  <2>1. UNCHANGED <<proposals, simulations, approvals, schedules, published>>
    BY <1>10 DEF withdrawSpreadDecision, governance
  <2>2. QED
    BY <1>1, <1>10, <2>1, Untouched, WithdrawStep DEF IInv
<1>11. ASSUME NEW id \in QuoteId, NEW request \in QuoteRequest, NEW d \in DOMAIN published, NEW b \in Benchmark,
              NEW handed \in HandedOver(d), createGovernedQuote(id, request, d, handed, b)
       PROVE  IInv'
  <2>1. UNCHANGED <<proposals, simulations, approvals, schedules, published>> /\ UNCHANGED withdrawals
    BY <1>11 DEF createGovernedQuote, governance
  <2>2. QED
    BY <1>2, <2>1, Untouched DEF IInv
<1>12. CASE UNCHANGED spreadVars
  <2>1. UNCHANGED <<proposals, simulations, approvals, schedules, published>> /\ UNCHANGED withdrawals
    BY <1>12 DEF spreadVars, governance
  <2>2. QED
    BY <1>2, <2>1, Untouched DEF IInv
<1>13. QED
  BY <1>3, <1>4, <1>5, <1>6, <1>7, <1>8, <1>9, <1>10, <1>11, <1>12 DEF SpreadNext

\* For any number of people, decisions and versions of the policy, a decision in force is
\* what its maker proposed and another person approved, within the limits of its day and
\* in order; a scheduled one had passed its simulation.
THEOREM ApprovedBeforePublished == SpreadSpec => []PublishedAsApproved
<1>1. IInv => PublishedAsApproved
  <2> SUFFICES ASSUME IInv, NEW d \in DOMAIN published \ DOMAIN Seeded
               PROVE  LET p == proposals[published[d].proposal] IN
                      /\ published[d].components = p.components /\ published[d].total = p.total
                      /\ published[d].maker # published[d].checker
                      /\ published[d].total <= published[d].limits.maximumTotal
                      /\ p.createdAt <= published[d].publishedAt
                      /\ d \in DOMAIN schedules =>
                           LET sim == simulations[schedules[d].proposal] IN
                           /\ Difference(p.total, sim.against) <= sim.policy.maximumChange
                           /\ p.components.cost >= sim.policy.minimumRecovery \/ p.subsidy
                           /\ schedules[d].effective <= published[d].publishedAt
    BY DEF PublishedAsApproved
  <2> DEFINE id == published[d].proposal
  <2>1. /\ id \in DOMAIN approvals
        /\ published[d].components = proposals[id].components
        /\ published[d].total = proposals[id].total
        /\ published[d].maker = proposals[id].maker
        /\ published[d].checker = approvals[id].checker
        /\ published[d].total <= published[d].limits.maximumTotal
        /\ published[d].publishedAt \in Int /\ approvals[id].at <= published[d].publishedAt
        /\ d \in DOMAIN schedules =>
             id = schedules[d].proposal /\ schedules[d].effective <= published[d].publishedAt
    BY DEF IInv, Governed, PublishedFollows
  <2>2. /\ id \in DOMAIN proposals /\ approvals[id].at \in Int
        /\ approvals[id].checker # proposals[id].maker
        /\ proposals[id].createdAt <= approvals[id].at
    BY <2>1 DEF IInv, Governed, ApprovalsFollow
  <2>3. proposals[id].createdAt \in Int
    BY <2>2 DEF IInv, Governed, ProposalsTyped
  <2>4. d \in DOMAIN schedules => Passed(proposals[id], simulations[id])
    BY <2>1 DEF IInv, Governed, SchedulesPassed, SimulationsHold
  <2> HIDE DEF id
  <2>5. proposals[id].createdAt <= published[d].publishedAt
    BY <2>1, <2>2, <2>3
  <2>6. QED
    BY <2>1, <2>2, <2>4, <2>5 DEF Passed, id
<1>2. QED
  BY <1>1, Start, Step, PTL DEF SpreadSpec

\* The withdrawal handed over is the earliest: a quote that was created is for an instant
\* before every withdrawal of its decision.
LEMMA QuoteBefore ==
  ASSUME HasEarliest, NEW d, NEW handed \in HandedOver(d), NEW at \in Int, MayQuote(d, handed, at),
         NEW w \in withdrawals, w.decision = d
  PROVE  at < w.at
<1> DEFINE mine == {v \in withdrawals : v.decision = d}
           Earliest(v) == \A u \in mine : v.at <= u.at
           first == CHOOSE v \in mine : Earliest(v)
<1>1. mine # {} /\ \E v \in mine : Earliest(v)
  BY DEF HasEarliest
<1>2. first \in mine /\ Earliest(first)
  BY <1>1
<1>3. handed = {first}
  BY <1>1 DEF HandedOver
<1>4. first.at > at
  BY <1>3 DEF MayQuote
<1>5. first.at <= w.at /\ first.at \in Int /\ w.at \in Int
  BY <1>2 DEF HasEarliest
<1> HIDE DEF first
<1>6. QED
  BY <1>4, <1>5

\* No other step makes or changes a quote.
LEMMA OthersQuoteNothing ==
  /\ \A id, maker, c, subsidy, at, policy :
       createSpreadProposal(id, maker, c, subsidy, at, policy) => UNCHANGED quotes
  /\ \A id, maker, at, policy : createFuelCapPlusProposal(id, maker, at, policy) => UNCHANGED quotes
  /\ \A id, current, cohorts, at, policy :
       simulateSpreadProposal(id, current, cohorts, at, policy) => UNCHANGED quotes
  /\ \A id, checker, at : approveSpreadProposal(id, checker, at) => UNCHANGED quotes
  /\ \A d, id, effective, at : scheduleSpreadDecision(d, id, effective, at) => UNCHANGED quotes
  /\ \A d, id, at, policy : publishSpreadDecision(d, id, at, policy) => UNCHANGED quotes
  /\ \A d, at, policy : publishScheduledSpreadDecision(d, at, policy) => UNCHANGED quotes
  /\ \A d, at : withdrawSpreadDecision(d, at) => UNCHANGED quotes
  BY DEF createSpreadProposal, createFuelCapPlusProposal, simulateSpreadProposal, approveSpreadProposal,
         scheduleSpreadDecision, publishSpreadDecision, publishScheduledSpreadDecision,
         withdrawSpreadDecision

\* For any number of decisions, withdrawals and quotes: a withdrawal that is known stops
\* every quote for an instant at or after it, and made quotes never change.
THEOREM WithdrawalsStop == SpreadSpec => WithdrawalStopsQuotes
<1> DEFINE Stops ==
      \A id \in DOMAIN quotes' :
        IF id \in DOMAIN quotes THEN quotes'[id] = quotes[id]
        ELSE quotes'[id].figures # <<>> =>
               \A w \in withdrawals :
                 w.decision = quotes'[id].decision => quotes'[id].request.at < w.at
<1>1. IInv /\ [SpreadNext]_spreadVars => [Stops]_spreadVars
  <2> SUFFICES ASSUME IInv, SpreadNext PROVE Stops
    OBVIOUS
  <2>1. CASE UNCHANGED quotes
    BY <2>1
  <2>2. ASSUME NEW id \in QuoteId, NEW request \in QuoteRequest, NEW d \in DOMAIN published, NEW b \in Benchmark,
               NEW handed \in HandedOver(d), createGovernedQuote(id, request, d, handed, b)
        PROVE  Stops
    <3> DEFINE reason == IF MayQuote(d, handed, request.at) THEN Reason(request, b)
                         ELSE "SPREAD_DECISION_UNAVAILABLE"
               new == [request |-> request, decision |-> d, reason |-> reason,
                       figures |-> IF reason = "QUOTE_CREATED"
                                   THEN <<Quoted(request, b, published[d])>> ELSE <<>>]
    <3>1. id \notin DOMAIN quotes /\ quotes' = Put(quotes, id, new)
      BY <2>2 DEF createGovernedQuote, NewKey
    <3>2. new.request = request /\ new.decision = d
      OBVIOUS
    <3>3. ~MayQuote(d, handed, request.at) => new.figures = <<>>
      OBVIOUS
    <3> HIDE DEF new, reason
    <3>4. /\ DOMAIN quotes' = DOMAIN quotes \cup {id} /\ quotes'[id] = new
          /\ \A x \in DOMAIN quotes : quotes'[x] = quotes[x]
      BY <3>1 DEF Put
    <3>5. ASSUME new.figures # <<>>, NEW w \in withdrawals, w.decision = d
          PROVE  request.at < w.at
      <4>1. HasEarliest /\ request.at \in Int
        BY SpreadAssumption DEF IInv
      <4>2. QED
        BY <3>3, <3>5, <4>1, QuoteBefore
    <3>6. QED
      BY <3>1, <3>2, <3>4, <3>5
  <2>3. QED
    <3>1. CASE UNCHANGED quotes
      BY <2>1, <3>1
    <3>2. CASE ~UNCHANGED quotes
      <4>1. PICK id \in QuoteId, request \in QuoteRequest, d \in DOMAIN published, b \in Benchmark :
              \E handed \in HandedOver(d) : createGovernedQuote(id, request, d, handed, b)
        BY <3>2, OthersQuoteNothing, Zenon DEF SpreadNext
      <4>2. QED
        BY <2>2, <4>1
    <3>3. QED
      BY <3>1, <3>2
<1>2. QED
  BY <1>1, Start, Step, PTL DEF SpreadSpec, WithdrawalStopsQuotes

-----------------------------------------------------------------------------
(* What a customer reserves                                                *)

\* Of the products on sale there is a first, which the quote is for.
LEMMA FirstOnSale ==
  ASSUME NEW request, OnSale(request) # {}
  PROVE  \E n \in DOMAIN Catalogue : ProductFor(request) = Catalogue[n]
<1> DEFINE S == OnSale(request)
<1>1. S \subseteq Nat /\ S \subseteq DOMAIN Catalogue
  BY SpreadAssumption DEF OnSale
<1>2. \E x \in S : \A y \in S : x <= y
  BY <1>1, LeastNumber
<1>3. Min(S) \in S
  BY <1>2 DEF Min
<1>4. QED
  BY <1>1, <1>3 DEF ProductFor

\* Rounding up to a ten-thousandth covers the exact figure by less than one.
LEMMA RoundsUp ==
  ASSUME NEW x \in Int
  PROVE  LET q == (x + 9999) \div 10000 IN
         q \in Int /\ q * 10000 >= x /\ q * 10000 < x + 10000
OBVIOUS

\* A quote that was created covers the charge of its decision and its own volume.
QuoteCovered(q, spread) ==
  LET f == q.figures[1]
      exact == f.reference * totalSpreadBps(spread.components)
  IN /\ f.charge * 10000 >= exact /\ f.charge * 10000 < exact + 10000
     /\ f.reserved * 10000 >= (f.strike + f.charge) * q.request.volume
     /\ (f.reserved - 1) * 10000 < (f.strike + f.charge) * q.request.volume

QuotesCovered ==
  \A id \in DOMAIN quotes :
    /\ quotes[id].decision \in DOMAIN published
    /\ quotes[id].figures # <<>> => QuoteCovered(quotes[id], published[quotes[id].decision])

\* The figures of a quote on a published benchmark are rounded up from the exact ones.
LEMMA FiguresCover ==
  ASSUME NEW request \in QuoteRequest, NEW benchmark \in Benchmark, NEW spread,
         spread.total \in Int, spread.total = totalSpreadBps(spread.components),
         Reason(request, benchmark) = "QUOTE_CREATED",
         NEW q, q.request = request, q.figures = <<Quoted(request, benchmark, spread)>>
  PROVE  QuoteCovered(q, spread)
<1> DEFINE price == benchmark.price
           distance == ProductFor(request).strikeDistance
           strike == price + applyBps(price, distance)
           charged == applyBps(price, spread.total)
           f == q.figures[1]
<1>1. benchmark.status = "PUBLISHED" /\ OnSale(request) # {}
  BY DEF Reason
<1>2. price \in Int /\ distance \in Int /\ request.volume \in Int
  BY <1>1, FirstOnSale, SpreadAssumption
<1>3. f.reference = price /\ f.strike = strike /\ f.charge = charged
      /\ f.reserved = ((strike + charged) * request.volume + 9999) \div 10000
  BY DEF Quoted
<1> HIDE DEF price, distance, f
<1>4. price * spread.total \in Int /\ price * distance \in Int
  BY <1>2
<1>5. charged \in Int /\ charged * 10000 >= price * spread.total
      /\ charged * 10000 < price * spread.total + 10000
  BY <1>4, RoundsUp DEF applyBps
<1>6. strike \in Int
  BY <1>2, <1>4, RoundsUp DEF applyBps
<1> DEFINE due == (strike + charged) * request.volume
<1>7. due \in Int
  BY <1>2, <1>5, <1>6
<1> HIDE DEF strike, charged
<1> HIDE DEF due
<1>8. /\ (due + 9999) \div 10000 \in Int
      /\ ((due + 9999) \div 10000) * 10000 >= due
      /\ ((due + 9999) \div 10000) * 10000 < due + 10000
  BY <1>7, RoundsUp
<1>9. f.reserved = (due + 9999) \div 10000
  BY <1>3 DEF due
<1>10. f.reserved * 10000 >= due /\ (f.reserved - 1) * 10000 < due
  BY <1>7, <1>8, <1>9
<1>11. due = (f.strike + f.charge) * q.request.volume
  BY <1>3 DEF due
<1> QED
  BY <1>3, <1>5, <1>10, <1>11 DEF QuoteCovered, f

\* For any prices, charges, catalogues and volumes: a reservation pays the strike and the
\* whole charge of the decision it was quoted on, and no unit more than that takes.
THEOREM ReservationsCover == SpreadSpec => []ReservationCovers
<1> DEFINE Inv == IInv /\ QuotesCovered
<1>1. SpreadInit => QuotesCovered
  BY EmptyIsMap DEF SpreadInit, QuotesCovered
<1>2. ASSUME IInv, QuotesCovered, [SpreadNext]_spreadVars
      PROVE  QuotesCovered'
  <2>1. ASSUME UNCHANGED quotes,
               \A d \in DOMAIN published : d \in DOMAIN published' /\ published'[d] = published[d]
        PROVE  QuotesCovered'
    BY <1>2, <2>1 DEF QuotesCovered, QuoteCovered
  <2>2. ASSUME NEW id \in QuoteId, NEW request \in QuoteRequest, NEW d \in DOMAIN published,
               NEW b \in Benchmark, NEW handed \in HandedOver(d),
               createGovernedQuote(id, request, d, handed, b)
        PROVE  QuotesCovered'
    <3>1. PICK q : /\ id \notin DOMAIN quotes /\ quotes' = Put(quotes, id, q) /\ UNCHANGED published
                   /\ q.request = request /\ q.decision = d
                   /\ q.figures # <<>> => /\ Reason(request, b) = "QUOTE_CREATED"
                                          /\ q.figures = <<Quoted(request, b, published[d])>>
      BY <2>2 DEF createGovernedQuote, NewKey
    <3>2. published[d].total \in Int /\ published[d].total = totalSpreadBps(published[d].components)
      BY <1>2 DEF IInv, Governed, TotalsTyped
    <3>3. q.figures # <<>> => QuoteCovered(q, published[d])
      BY <3>1, <3>2, FiguresCover
    <3>4. /\ DOMAIN quotes' = DOMAIN quotes \cup {id} /\ quotes'[id] = q
          /\ \A x \in DOMAIN quotes : quotes'[x] = quotes[x]
      BY <3>1 DEF Put
    <3> QED
      BY <1>2, <3>1, <3>3, <3>4 DEF QuotesCovered, QuoteCovered
  <2>4. ASSUME UNCHANGED published, UNCHANGED quotes PROVE QuotesCovered'
    BY <2>1, <2>4
  <2>5. ASSUME NEW d, NEW p, d \notin DOMAIN published, published' = Put(published, d, p), UNCHANGED quotes
        PROVE  QuotesCovered'
    BY <2>1, <2>5 DEF Put
  <2>6. ASSUME NEW d, NEW id, NEW at, NEW policy, publishSpreadDecision(d, id, at, policy)
        PROVE  QuotesCovered'
    BY <2>5, <2>6 DEF publishSpreadDecision, NewKey
  <2>7. ASSUME NEW d, NEW at, NEW policy, publishScheduledSpreadDecision(d, at, policy)
        PROVE  QuotesCovered'
    BY <2>5, <2>7 DEF publishScheduledSpreadDecision, NewKey
  <2>8. ASSUME NEW id, NEW maker, NEW c, NEW subsidy, NEW at, NEW policy,
               createSpreadProposal(id, maker, c, subsidy, at, policy)
        PROVE  QuotesCovered'
    BY <2>4, <2>8 DEF createSpreadProposal
  <2>9. CASE UNCHANGED spreadVars
    BY <2>4, <2>9 DEF spreadVars
  <2>10. ASSUME NEW id, NEW current, NEW cohorts, NEW at, NEW policy,
                simulateSpreadProposal(id, current, cohorts, at, policy)
         PROVE  QuotesCovered'
    BY <2>4, <2>10 DEF simulateSpreadProposal
  <2>11. ASSUME NEW id, NEW checker, NEW at, approveSpreadProposal(id, checker, at)
         PROVE  QuotesCovered'
    BY <2>4, <2>11 DEF approveSpreadProposal
  <2>12. ASSUME NEW d, NEW id, NEW effective, NEW at, scheduleSpreadDecision(d, id, effective, at)
         PROVE  QuotesCovered'
    BY <2>4, <2>12 DEF scheduleSpreadDecision
  <2>13. ASSUME NEW d, NEW at, withdrawSpreadDecision(d, at) PROVE QuotesCovered'
    BY <2>4, <2>13 DEF withdrawSpreadDecision
  <2> QED
    BY <1>2, <2>2, <2>6, <2>7, <2>8, <2>9, <2>10, <2>11, <2>12, <2>13
    DEF SpreadNext, createFuelCapPlusProposal
<1>3. QuotesCovered => ReservationCovers
  BY DEF QuotesCovered, QuoteCovered, ReservationCovers
<1>4. Inv /\ [SpreadNext]_spreadVars => Inv'
  BY <1>2, Step
<1>5. SpreadInit => Inv
  BY <1>1, Start
<1>6. Inv => ReservationCovers
  BY <1>3
<1> QED
  BY <1>4, <1>5, <1>6, PTL DEF SpreadSpec

-----------------------------------------------------------------------------
(***************************************************************************)
(* Hedging: an executed hedge stands on the snapshot it was made for.      *)
(***************************************************************************)
\* The hedge is of a reconciled snapshot that keeps its limits, no larger than that, and
\* pays no more than the claims.
GroundedHedge(hedge) ==
  /\ hedge.snapshot \in DOMAIN snapshots
  /\ snapshots[hedge.snapshot].reconciled /\ LimitReasons(snapshots[hedge.snapshot], hedge.limits) = {}
  /\ hedge.notional <= snapshots[hedge.snapshot].quantity /\ hedge.payoff <= hedge.claims

\* The plan is within its policy, and no candidate could be left out to advantage.
BestPlan(plan) ==
  /\ plan.snapshot \in DOMAIN snapshots /\ plan.maker # plan.checker
  /\ LET s == snapshots[plan.snapshot] IN
     /\ Eligible(plan.candidates, s.quantity, plan.policy)
     /\ \A c \in plan.candidates :
          Eligible(plan.candidates \ {c}, s.quantity, plan.policy) /\ plan.candidates # {c}
          => Score(plan.candidates, s.value, plan.policy) <= Score(plan.candidates \ {c}, s.value, plan.policy)

\* The approval is of a recommendation that was made, in its version and snapshot.
ApprovedHedge(approval) ==
  /\ approval.hedge \in DOMAIN recommendations /\ approval.initiator # approval.approver
  /\ approval.version = recommendations[approval.hedge].version
  /\ approval.snapshot = recommendations[approval.hedge].snapshot

\* What was executed has the version and snapshot of its approval.
MatchedHedge(e) ==
  /\ e.hedge \in DOMAIN recommendations /\ ApprovedHedge(e.approval)
  /\ e.approval.version = recommendations[e.hedge].version
  /\ e.approval.snapshot = recommendations[e.hedge].snapshot

HedgingInv ==
  /\ IsList(snapshots) /\ IsList(recommendations) /\ IsList(executions)
  /\ \A i \in DOMAIN snapshots : snapshots[i].value \in Int
  /\ assessment # NoHedge =>
       /\ assessment.snapshot \in DOMAIN snapshots
       /\ assessment.blocks <=> LimitReasons(snapshots[assessment.snapshot], assessment.limits) # {}
  /\ stresses # NoHedge =>
       stresses.results["BOUNDARY_BREACH"].payoff <= stresses.results["BOUNDARY_BREACH"].claims
  /\ \A k \in DOMAIN recommendations : GroundedHedge(recommendations[k])
  /\ hedgeApproval # NoHedge => ApprovedHedge(hedgeApproval)
  /\ \A e \in DOMAIN executions : MatchedHedge(executions[e])
  /\ hedgePlan # NoHedge => BestPlan(hedgePlan)

\* Rounding an integer by basis points gives an integer.
LEMMA RoundedInt ==
  ASSUME NEW n \in Int, NEW d \in Nat \ {0}
  PROVE  rounded(n, d) \in Int
  BY DEF rounded

\* What stands on the snapshots goes on standing when there is one more.
LEMMA SnapshotTaken ==
  ASSUME HedgingInv, NEW positions \in SUBSET Position, NEW reserve, NEW reconciled,
         createExposureSnapshot(positions, reserve, reconciled)
  PROVE  HedgingInv'
<1> DEFINE quantity == Total([p \in positions |-> p.quantity])
           s == [positions |-> positions, quantity |-> quantity,
                 value |-> Total([p \in positions |-> minorAtBoundary(p)]),
                 claims |-> Total([p \in positions |-> p.claim]), reserve |-> reserve,
                 reconciled |-> reconciled, concentration |-> Max(Concentrations(positions, quantity))]
<1>1. /\ snapshots' = Append(snapshots, s)
      /\ s.value = Total([p \in positions |-> minorAtBoundary(p)])
  BY Zenon DEF createExposureSnapshot
<1> HIDE DEF quantity, s
<1>2. UNCHANGED <<assessment, stresses, recommendations, hedgeApproval, executions, hedgePlan>>
  BY DEF createExposureSnapshot
<1>3. s.value \in Int
  <2> DEFINE f == [p \in positions |-> minorAtBoundary(p)]
  <2>1. IsFiniteSet(DOMAIN f)
    BY HedgingAssumption, FS_Subset
  <2>2. ASSUME NEW p \in positions PROVE f[p] \in Int
    <3>1. p.quantity \in Int /\ p.spread \in Int /\ PriceUnit \in Nat \ {0}
      BY HedgingAssumption
    <3>2. p.quantity * p.spread \in Int /\ PriceUnit \div 2 \in Int
      BY <3>1
    <3> QED
      BY <3>1, <3>2 DEF minorAtBoundary
  <2> HIDE DEF f
  <2>3. Total(f) \in Int
    BY <2>1, <2>2, TotalTakes DEF f
  <2> QED
    BY <1>1, <2>3 DEF f
<1>4. /\ IsList(snapshots') /\ DOMAIN snapshots \subseteq DOMAIN snapshots'
      /\ \A i \in DOMAIN snapshots : snapshots'[i] = snapshots[i]
      /\ \A i \in DOMAIN snapshots' : snapshots'[i].value \in Int
  BY <1>1, <1>3, AppendIsList DEF HedgingInv
<1>5. ASSUME NEW hedge, GroundedHedge(hedge) PROVE GroundedHedge(hedge)'
  BY <1>4, <1>5 DEF GroundedHedge, LimitReasons
<1>6. ASSUME NEW plan, BestPlan(plan) PROVE BestPlan(plan)'
  BY <1>4, <1>6 DEF BestPlan
<1>7. ASSUME NEW x PROVE (ApprovedHedge(x) => ApprovedHedge(x)') /\ (MatchedHedge(x) => MatchedHedge(x)')
  BY <1>2 DEF ApprovedHedge, MatchedHedge
<1> QED
  BY <1>2, <1>4, <1>5, <1>6, <1>7 DEF HedgingInv, LimitReasons

\* Nothing is stressed to be paid more than is claimed.
LEMMA StressPaysClaims ==
  ASSUME NEW s, s.value \in Int, NEW a \in [claim : Nat, payoff : Nat, residual : Nat]
  PROVE  LET r == runExposureStress(s, "BOUNDARY_BREACH", a) IN r.payoff <= r.claims
<1> DEFINE claims == rounded(s.value * a.claim, BasisWhole)
           paid == rounded(s.value * a.payoff, BasisWhole)
<1>1. claims \in Int /\ paid \in Int
  <2>1. s.value * a.claim \in Int /\ s.value * a.payoff \in Int
    OBVIOUS
  <2> QED
    BY <2>1, HedgingAssumption, RoundedInt
<1>2. /\ runExposureStress(s, "BOUNDARY_BREACH", a).claims = claims
      /\ runExposureStress(s, "BOUNDARY_BREACH", a).payoff = Smaller(claims, paid)
  BY DEF runExposureStress
<1> HIDE DEF claims, paid
<1>3. Smaller(claims, paid) <= claims
  BY <1>1 DEF Smaller
<1> QED
  BY <1>2, <1>3

\* The objective score of a combination of candidates that have a quantity is a whole number.
LEMMA ScoreWhole ==
  ASSUME NEW p \in SUBSET HedgeCandidate, p # {}, \A c \in p : c.quantity > 0,
         NEW stressed \in Int, NEW policy \in HedgePolicy
  PROVE  Score(p, stressed, policy) \in Int
<1>1. /\ IsFiniteSet(p) /\ BasisWhole \in Nat \ {0}
      /\ \A c \in p : {c.quantity, c.premium, c.payoff, c.correlation} \subseteq Int
      /\ {policy.residualWeight, policy.premiumWeight, policy.basisPenaltyWeight} \subseteq Int
  BY HedgingAssumption, FS_Subset
<1> DEFINE q == [c \in p |-> c.quantity]
           m == [c \in p |-> c.premium]
           f == [c \in p |-> c.payoff]
           w == [c \in p |-> c.correlation * c.quantity]
<1>2. Total(m) \in Int /\ Total(f) \in Int /\ Total(w) \in Int
  <2>1. \A c \in p : m[c] \in Int /\ f[c] \in Int /\ w[c] \in Int
    BY <1>1
  <2>2. DOMAIN m = p /\ DOMAIN f = p /\ DOMAIN w = p
    OBVIOUS
  <2> HIDE DEF m, f, w
  <2> QED
    BY <1>1, <2>1, <2>2, TotalTakes
<1>3. Total(q) \in Nat \ {0}
  <2>1. PICK c \in p : TRUE
    OBVIOUS
  <2>2. DOMAIN q = p /\ (\A x \in p : q[x] \in Nat /\ q[x] > 0)
    BY <1>1
  <2> HIDE DEF q
  <2>3. Total(q) \in Nat /\ q[c] <= Total(q)
    BY <1>1, <2>2, TotalNat
  <2> QED
    BY <2>2, <2>3
<1> DEFINE correlation == rounded(Total(w), Total(q))
           penalty == rounded(stressed * (BasisWhole - correlation), BasisWhole)
           residual == Larger(0, stressed - Total(f))
           sum == residual * policy.residualWeight + Total(m) * policy.premiumWeight
                  + penalty * policy.basisPenaltyWeight
<1>4. Score(p, stressed, policy) = rounded(sum, BasisWhole)
  BY DEF Score, basisPenalty, Quantity4dp, PremiumMinor, StressPayoff
<1> HIDE DEF q, m, f, w
<1>5. correlation \in Int
  BY <1>2, <1>3, RoundedInt
<1> HIDE DEF correlation
<1>6. penalty \in Int
  <2>1. stressed * (BasisWhole - correlation) \in Int
    BY <1>1, <1>5
  <2> QED
    BY <1>1, <2>1, RoundedInt
<1>7. residual \in Int
  BY <1>2 DEF Larger
<1> HIDE DEF penalty, residual
<1>8. sum \in Int
  BY <1>1, <1>2, <1>6, <1>7
<1> HIDE DEF sum
<1> QED
  BY <1>1, <1>4, <1>8, RoundedInt

\* A selected combination is not bettered by one of its parts.
LEMMA PlanIsBest ==
  ASSUME HedgingInv, NEW i \in DOMAIN snapshots, NEW policy \in HedgePolicy, NEW maker, NEW checker,
         publishSelectiveHedgePlan(i, policy, maker, checker)
  PROVE  BestPlan(hedgePlan')
<1> DEFINE s == snapshots[i]
           fitting == {p \in SUBSET HedgeCandidate \ {{}} : Eligible(p, s.quantity, policy)}
<1>1. \A q \in SUBSET HedgeCandidate :
        q # {} /\ Eligible(q, s.quantity, policy) => Score(q, s.value, policy) \in Int
  <2>1. s.value \in Int
    BY DEF HedgingInv
  <2>2. ASSUME NEW q \in SUBSET HedgeCandidate, q # {}, Eligible(q, s.quantity, policy)
        PROVE  Score(q, s.value, policy) \in Int
    <3>1. \A c \in q : c.quantity > 0
      BY <2>2, Zenon DEF Eligible
    <3> QED
      BY <2>1, <2>2, <3>1, ScoreWhole
  <2> QED
    BY <2>2
<1>2. PICK p \in fitting :
        /\ \A q \in fitting \ {p} : BetterPortfolio(p, q, s.value, policy)
        /\ hedgePlan' = [snapshot |-> i, candidates |-> p, policy |-> policy, maker |-> maker, checker |-> checker]
  BY DEF publishSelectiveHedgePlan
<1>3. maker # checker /\ UNCHANGED snapshots
  BY DEF publishSelectiveHedgePlan
<1>4. ASSUME NEW c \in p, Eligible(p \ {c}, s.quantity, policy), p # {c}
      PROVE  Score(p, s.value, policy) <= Score(p \ {c}, s.value, policy)
  <2> DEFINE q == p \ {c}
             x == Score(p, s.value, policy)
             y == Score(q, s.value, policy)
  <2>1. q \in fitting \ {p}
    BY <1>4
  <2>2. x < y \/ x = y
    BY <1>2, <2>1, Zenon DEF BetterPortfolio
  <2>3. x \in Int /\ y \in Int
    <3>1. p \in SUBSET HedgeCandidate /\ p # {} /\ Eligible(p, s.quantity, policy)
      BY <1>2
    <3>2. q \in SUBSET HedgeCandidate /\ q # {} /\ Eligible(q, s.quantity, policy)
      BY <1>4, <3>1
    <3> QED
      BY <1>1, <3>1, <3>2, Zenon
  <2> HIDE DEF x, y
  <2>4. x <= y
    BY <2>2, <2>3
  <2> QED
    BY <2>4 DEF x, y
<1>5. Eligible(p, s.quantity, policy)
  BY <1>2
<1> HIDE DEF fitting
<1>6. /\ hedgePlan'.snapshot = i /\ hedgePlan'.candidates = p /\ hedgePlan'.policy = policy
      /\ hedgePlan'.maker = maker /\ hedgePlan'.checker = checker
  BY <1>2
<1> QED
  BY <1>3, <1>4, <1>5, <1>6 DEF BestPlan

LEMMA HedgingStep ==
  ASSUME HedgingInv, [HedgingNext \/ PlanNext]_hedgeVars
  PROVE  HedgingInv'
<1>1. ASSUME NEW positions \in SUBSET Position, NEW reserve, NEW reconciled,
             createExposureSnapshot(positions, reserve, reconciled)
      PROVE  HedgingInv'
  BY <1>1, SnapshotTaken
<1>2. ASSUME UNCHANGED snapshots PROVE \A hedge : GroundedHedge(hedge) => GroundedHedge(hedge)'
  BY <1>2 DEF GroundedHedge, LimitReasons
<1>3. ASSUME UNCHANGED snapshots PROVE \A plan : BestPlan(plan) => BestPlan(plan)'
  BY <1>3 DEF BestPlan
<1>4. ASSUME UNCHANGED recommendations
      PROVE  \A x : (ApprovedHedge(x) => ApprovedHedge(x)') /\ (MatchedHedge(x) => MatchedHedge(x)')
  BY <1>4 DEF ApprovedHedge, MatchedHedge
<1>5. ASSUME NEW i \in DOMAIN snapshots, NEW limits, assessExposureLimits(i, limits)
      PROVE  HedgingInv'
  BY <1>2, <1>3, <1>4, <1>5 DEF assessExposureLimits, HedgingInv
<1>6. ASSUME NEW i \in DOMAIN snapshots, NEW suite \in StressSuite, runApprovedStressSuite(i, suite)
      PROVE  HedgingInv'
  <2>1. suite["BOUNDARY_BREACH"] \in [claim : Nat, payoff : Nat, residual : Nat]
    BY HedgingAssumption
  <2>2. stresses'.results["BOUNDARY_BREACH"] = runExposureStress(snapshots[i], "BOUNDARY_BREACH", suite["BOUNDARY_BREACH"])
    BY <1>6, HedgingAssumption DEF runApprovedStressSuite
  <2>3. stresses'.results["BOUNDARY_BREACH"].payoff <= stresses'.results["BOUNDARY_BREACH"].claims
    BY <2>1, <2>2, StressPaysClaims DEF HedgingInv
  <2> QED
    BY <1>2, <1>3, <1>4, <1>6, <2>3 DEF runApprovedStressSuite, HedgingInv
<1>7. ASSUME NEW v, NEW i \in DOMAIN snapshots, NEW n, createPaperHedgeRecommendation(v, i, n)
      PROVE  HedgingInv'
  <2> DEFINE new == [version |-> v, snapshot |-> i, limits |-> assessment.limits, notional |-> n,
                     payoff |-> stresses.results["BOUNDARY_BREACH"].payoff,
                     claims |-> stresses.results["BOUNDARY_BREACH"].claims]
  <2>1. recommendations' = Append(recommendations, new)
        /\ UNCHANGED <<snapshots, assessment, stresses, hedgeApproval, executions, hedgePlan>>
    BY <1>7, Zenon DEF createPaperHedgeRecommendation
  <2>2. GroundedHedge(new)
    BY <1>7 DEF createPaperHedgeRecommendation, Grounded, HedgingInv, GroundedHedge
  <2> HIDE DEF new
  <2>3. /\ IsList(recommendations') /\ DOMAIN recommendations' = DOMAIN recommendations \cup {Len(recommendations) + 1}
        /\ \A k \in DOMAIN recommendations : recommendations'[k] = recommendations[k]
        /\ recommendations'[Len(recommendations) + 1] = new
    BY <2>1, AppendIsList DEF HedgingInv
  <2>4. ASSUME NEW x PROVE (ApprovedHedge(x) => ApprovedHedge(x)') /\ (MatchedHedge(x) => MatchedHedge(x)')
    BY <2>3 DEF ApprovedHedge, MatchedHedge
  <2>5. (\A k \in DOMAIN recommendations : GroundedHedge(recommendations[k]))'
    BY <1>2, <2>1, <2>2, <2>3 DEF HedgingInv
  <2> QED
    BY <1>3, <2>1, <2>3, <2>4, <2>5 DEF HedgingInv
<1>8. ASSUME NEW k \in DOMAIN recommendations, NEW m, NEW c, NEW age, approvePaperHedge(k, m, c, age)
      PROVE  HedgingInv'
  <2>1. ApprovedHedge(hedgeApproval')
    BY <1>8 DEF approvePaperHedge, ApprovedHedge
  <2> QED
    BY <1>2, <1>3, <1>4, <1>8, <2>1 DEF approvePaperHedge, HedgingInv
<1>9. ASSUME NEW k \in DOMAIN recommendations, executePaperHedge(k) PROVE HedgingInv'
  <2> DEFINE e == [hedge |-> k, approval |-> hedgeApproval]
  <2>1. /\ executions' = Append(executions, e) /\ MatchedHedge(e)
        /\ UNCHANGED <<snapshots, assessment, stresses, recommendations, hedgeApproval, hedgePlan>>
    BY <1>9 DEF executePaperHedge, HedgingInv, MatchedHedge
  <2> HIDE DEF e
  <2>2. /\ IsList(executions') /\ DOMAIN executions' = DOMAIN executions \cup {Len(executions) + 1}
        /\ \A x \in DOMAIN executions : executions'[x] = executions[x]
        /\ executions'[Len(executions) + 1] = e
    BY <2>1, AppendIsList DEF HedgingInv
  <2>3. \A x \in DOMAIN executions' : MatchedHedge(executions'[x])
    BY <2>1, <2>2 DEF HedgingInv
  <2> QED
    BY <1>2, <1>3, <1>4, <2>1, <2>2, <2>3 DEF HedgingInv
<1>10. ASSUME NEW i \in DOMAIN snapshots, NEW policy \in HedgePolicy, NEW m, NEW c,
              publishSelectiveHedgePlan(i, policy, m, c)
      PROVE  HedgingInv'
  <2>1. BestPlan(hedgePlan')
    BY <1>10, PlanIsBest
  <2> QED
    BY <1>2, <1>3, <1>4, <1>10, <2>1 DEF publishSelectiveHedgePlan, HedgingInv
<1>11. CASE UNCHANGED hedgeVars
  BY <1>2, <1>3, <1>4, <1>11 DEF hedgeVars, HedgingInv
<1> QED
  BY <1>1, <1>5, <1>6, <1>7, <1>8, <1>9, <1>10, <1>11 DEF HedgingNext, PlanNext, Snapshotting

\* An executed hedge is what two people approved, up to a version given twice, and stands on the
\* snapshot it was recommended for; a published plan is within its policy and not bettered by
\* leaving a candidate out (packages/hedging/src/paper.ts, packages/hedge-optimizer), for any
\* positions, limits, weights and candidates.
THEOREM HedgesApproved == HedgingSpec => []HedgedAsApproved
<1>1. HedgingInit => HedgingInv
  BY DEF HedgingInit, HedgingInv, IsList
<1>2. HedgingInv => HedgedAsApproved
  <2> SUFFICES ASSUME HedgingInv PROVE HedgedAsApproved
    OBVIOUS
  <2>1. ASSUME NEW e \in DOMAIN executions
        PROVE  LET hedge == recommendations[executions[e].hedge]
                   approval == executions[e].approval
                   approved == recommendations[approval.hedge]
                   s == snapshots[hedge.snapshot]
               IN /\ approval.initiator # approval.approver
                  /\ approved.version = hedge.version /\ approved.snapshot = hedge.snapshot
                  /\ VersionsDiffer => approval.hedge = executions[e].hedge
                  /\ hedge.notional <= s.quantity /\ hedge.payoff <= hedge.claims
                  /\ s.reconciled /\ LimitReasons(s, hedge.limits) = {}
    BY DEF HedgingInv, MatchedHedge, ApprovedHedge, GroundedHedge, VersionsDiffer
  <2> QED
    BY <2>1 DEF HedgingInv, HedgedAsApproved, BestPlan
<1> QED
  BY <1>1, <1>2, HedgingStep, PTL DEF HedgingSpec

-----------------------------------------------------------------------------
(***************************************************************************)
(* Exchange rates: a conversion is traceable and exact.                    *)
(***************************************************************************)
\* A rounded ratio is whole, and off by half a unit at most.
LEMMA HalfUnit ==
  ASSUME NEW n \in Nat, NEW d \in Nat \ {0}
  PROVE  /\ roundedRatio(n, d) \in Nat
         /\ 2 * (roundedRatio(n, d) * d - n) \in (-d) .. d
<1> DEFINE h == d \div 2
           q == (n + h) \div d
           x == q * d
<1>1. h \in Nat /\ 2 * h <= d /\ d <= 2 * h + 1
  OBVIOUS
<1> HIDE DEF h
<1>2. n + h \in Nat
  BY <1>1
<1>3. q \in Nat /\ x <= n + h /\ n + h < x + d
  BY <1>2, Quotient
<1>4. roundedRatio(n, d) = q
  BY DEF roundedRatio, h
<1> HIDE DEF q
<1>5. x \in Int
  BY <1>3
<1> HIDE DEF x
<1>6. 2 * (x - n) \in (-d) .. d
  BY <1>1, <1>3, <1>5
<1> QED
  BY <1>3, <1>4, <1>6 DEF x

\* The product of whole numbers.
LEMMA ProductNat == ASSUME NEW a \in Nat, NEW b \in Nat PROVE a * b \in Nat
  OBVIOUS

\* With something added to the whole, the rate does not fall.
LEMMA AddedNotLess ==
  ASSUME NEW r \in Nat, NEW t \in Nat, NEW w \in Nat \ {0}
  PROVE  roundedRatio(r * (w + t), w) >= r
<1> DEFINE n == r * (w + t)
           c == roundedRatio(n, w)
           x == c * w
           y == r * w
           z == r * t
<1>1. z \in Nat /\ y \in Nat /\ n = y + z
  OBVIOUS
<1>2. n \in Nat /\ w + t \in Nat
  BY <1>1
<1> HIDE DEF n
<1>3. c \in Nat /\ 2 * (x - n) \in (-w) .. w
  BY <1>2, HalfUnit
<1> HIDE DEF c
<1>4. x \in Nat
  BY <1>3, ProductNat
<1> HIDE DEF x, y, z
<1>5. y < x + w
  BY <1>1, <1>3, <1>4
<1>6. r <= c
  BY <1>3, <1>5, TimesCancel DEF x, y
<1> QED
  BY <1>3, <1>6 DEF c, n

\* A rate is composed in the direction of its observations, which were fresh.
FreshAt(o, at) == o.observedAt <= at /\ at <= o.observedAt + MaximumRateAge

RateSound(r) ==
  /\ r.rate \in Nat /\ r.decidedAt \in Int
  /\ r.from[1].base = r.base /\ r.from[Len(r.from)].quote = r.quote
  /\ Len(r.from) = 2 => r.from[1].quote = r.from[2].base
  /\ \A i \in 1 .. Len(r.from) : FreshAt(r.from[i], r.decidedAt)

ProposalSound(p) == p.total \in Nat /\ p.createdAt \in Int /\ totalFxAdjustmentBps(p.components) = p.total

AdjustmentSound(a) == a.total \in Nat /\ a.total <= a.limit /\ a.maker # a.checker /\ a.publishedAt \in Int

ConversionExact(c, r, a) ==
  /\ r.base = c.source /\ r.quote = c.destination /\ r.decidedAt <= c.at /\ a.publishedAt <= c.at
  /\ c.customer >= r.rate
  /\ 2 * (c.customer * Whole - r.rate * (Whole + a.total)) \in (-Whole) .. Whole
  /\ 2 * (c.result * RateScale - c.amount * c.customer) \in (-RateScale) .. RateScale

FxInv ==
  /\ \A id \in DOMAIN rates : RateSound(rates[id])
  /\ \A id \in DOMAIN fxProposals : ProposalSound(fxProposals[id])
  /\ \A id \in DOMAIN fxApprovals :
       /\ id \in DOMAIN fxProposals /\ fxApprovals[id].checker # fxProposals[id].maker
  /\ \A id \in DOMAIN adjustments : AdjustmentSound(adjustments[id])
  /\ \A id \in DOMAIN conversions : LET c == conversions[id] IN
       /\ c.rate \in DOMAIN rates /\ c.adjustment \in DOMAIN adjustments
       /\ ConversionExact(c, rates[c.rate], adjustments[c.adjustment])

\* One observation, and two.
LEMMA OneOrTwo ==
  ASSUME NEW a, NEW b
  PROVE  /\ Len(<<a>>) = 1 /\ <<a>>[1] = a
         /\ Len(<<a, b>>) = 2 /\ <<a, b>>[1] = a /\ <<a, b>>[2] = b
  OBVIOUS

\* One more rate leaves what rests on the others as it is.
LEMMA RateAdded ==
  ASSUME FxInv, NEW id, NewKey(rates, id), NEW r, RateSound(r), rates' = Put(rates, id, r),
         UNCHANGED <<fxProposals, fxApprovals, adjustments, conversions>>
  PROVE  FxInv'
<1>1. /\ DOMAIN rates' = DOMAIN rates \cup {id} /\ rates'[id] = r
      /\ \A x \in DOMAIN rates : rates'[x] = rates[x]
  BY DEF NewKey, Put
<1> QED
  BY <1>1 DEF FxInv

LEMMA DirectKeeps ==
  ASSUME FxInv, NEW id, NEW o \in FxObservation, NEW at \in FxTime, createDirectCanonicalRate(id, o, at)
  PROVE  FxInv'
<1> DEFINE r == [base |-> o.base, quote |-> o.quote, rate |-> o.rate, from |-> <<o>>, decidedAt |-> at]
<1>1. /\ NewKey(rates, id) /\ validateFxObservation(o, at) /\ rates' = Put(rates, id, r)
      /\ UNCHANGED <<fxProposals, fxApprovals, adjustments, conversions>>
  BY DEF createDirectCanonicalRate
<1>2. {o.rate, o.observedAt, at, MaximumRateAge} \subseteq Int
  BY FxAssumption
<1>3. o.rate \in Nat /\ FreshAt(o, at)
  BY <1>1, <1>2 DEF validateFxObservation, FreshAt
<1>4. /\ r.base = o.base /\ r.quote = o.quote /\ r.rate = o.rate /\ r.decidedAt = at
      /\ Len(r.from) = 1 /\ r.from[1] = o
  BY OneOrTwo
<1> HIDE DEF r
<1>5. RateSound(r)
  BY <1>2, <1>3, <1>4 DEF RateSound
<1> QED
  BY <1>1, <1>5, RateAdded

LEMMA TriangulatedKeeps ==
  ASSUME FxInv, NEW id, NEW first \in FxObservation, NEW second \in FxObservation, NEW pivot, NEW at \in FxTime,
         createTriangulatedCanonicalRate(id, first, second, pivot, at)
  PROVE  FxInv'
<1> DEFINE rate == roundedRatio(first.rate * second.rate, RateScale)
           r == [base |-> first.base, quote |-> second.quote, rate |-> rate,
                 from |-> <<first, second>>, decidedAt |-> at]
<1>1. /\ NewKey(rates, id) /\ validateFxObservation(first, at) /\ validateFxObservation(second, at)
      /\ first.quote = second.base /\ rates' = Put(rates, id, r)
      /\ UNCHANGED <<fxProposals, fxApprovals, adjustments, conversions>>
  BY DEF createTriangulatedCanonicalRate
<1>2. {first.rate, first.observedAt, second.rate, second.observedAt, at, MaximumRateAge} \subseteq Int
  BY FxAssumption
<1>3. first.rate \in Nat /\ second.rate \in Nat /\ FreshAt(first, at) /\ FreshAt(second, at)
  BY <1>1, <1>2 DEF validateFxObservation, FreshAt
<1>4. rate \in Nat
  BY <1>3, ProductNat, HalfUnit, FxAssumption
<1> HIDE DEF rate
<1>5. /\ r.base = first.base /\ r.quote = second.quote /\ r.rate = rate /\ r.decidedAt = at
      /\ Len(r.from) = 2 /\ r.from[1] = first /\ r.from[2] = second
  BY OneOrTwo
<1> HIDE DEF r
<1>6. RateSound(r)
  BY <1>1, <1>2, <1>3, <1>4, <1>5 DEF RateSound
<1> QED
  BY <1>1, <1>6, RateAdded

LEMMA AdjustingKeeps ==
  ASSUME FxInv, NEW id,
         \/ \E p \in FxPrincipal, c \in FxComponents, at \in FxTime, limit \in MaximumAdjustment :
              createFxAdjustmentProposal(id, p, c, at, limit)
         \/ \E p \in FxPrincipal, at \in FxTime : approveFxAdjustmentProposal(id, p, at)
         \/ \E at \in FxTime, limit \in MaximumAdjustment : publishFxAdjustment(id, at, limit)
  PROVE  FxInv'
<1>1. ASSUME NEW p, NEW c \in FxComponents, NEW at \in FxTime, NEW limit,
             createFxAdjustmentProposal(id, p, c, at, limit)
      PROVE  FxInv'
  <2> DEFINE v == [maker |-> p, components |-> c, total |-> totalFxAdjustmentBps(c), createdAt |-> at]
  <2>1. /\ NewKey(fxProposals, id) /\ validateAdjustment(c, limit) /\ fxProposals' = Put(fxProposals, id, v)
        /\ UNCHANGED <<rates, fxApprovals, adjustments, conversions>>
    BY <1>1 DEF createFxAdjustmentProposal
  <2>2. {c.cost, c.margin, c.reserve, at} \subseteq Int
    BY FxAssumption
  <2>3. totalFxAdjustmentBps(c) \in Nat
    BY <2>1, <2>2 DEF validateAdjustment, totalFxAdjustmentBps
  <2>4. ProposalSound(v)
    BY <2>2, <2>3 DEF ProposalSound
  <2> HIDE DEF v
  <2>5. /\ DOMAIN fxProposals' = DOMAIN fxProposals \cup {id} /\ fxProposals'[id] = v
        /\ \A x \in DOMAIN fxProposals : fxProposals'[x] = fxProposals[x]
    BY <2>1 DEF NewKey, Put
  <2> QED
    BY <2>1, <2>4, <2>5 DEF FxInv
<1>2. ASSUME NEW p, NEW at, approveFxAdjustmentProposal(id, p, at)
      PROVE  FxInv'
  <2> DEFINE v == [checker |-> p, at |-> at]
  <2>1. /\ id \in DOMAIN fxProposals /\ NewKey(fxApprovals, id) /\ p # fxProposals[id].maker
        /\ fxApprovals' = Put(fxApprovals, id, v)
        /\ UNCHANGED <<rates, fxProposals, adjustments, conversions>> /\ v.checker = p
    BY <1>2 DEF approveFxAdjustmentProposal
  <2> HIDE DEF v
  <2>2. /\ DOMAIN fxApprovals' = DOMAIN fxApprovals \cup {id} /\ fxApprovals'[id] = v
        /\ \A x \in DOMAIN fxApprovals : fxApprovals'[x] = fxApprovals[x]
    BY <2>1 DEF NewKey, Put
  <2> QED
    BY <2>1, <2>2 DEF FxInv
<1>3. ASSUME NEW at \in FxTime, NEW limit \in MaximumAdjustment, publishFxAdjustment(id, at, limit)
      PROVE  FxInv'
  <2> DEFINE p == fxProposals[id]
             v == [total |-> p.total, limit |-> limit, maker |-> p.maker,
                   checker |-> fxApprovals[id].checker, publishedAt |-> at]
  <2>1. /\ id \in DOMAIN fxApprovals /\ NewKey(adjustments, id) /\ validateAdjustment(p.components, limit)
        /\ totalFxAdjustmentBps(p.components) = p.total /\ adjustments' = Put(adjustments, id, v)
        /\ UNCHANGED <<rates, fxProposals, fxApprovals, conversions>>
    BY <1>3 DEF publishFxAdjustment
  <2>2. ProposalSound(p) /\ fxApprovals[id].checker # p.maker /\ at \in Int
    BY <2>1, FxAssumption DEF FxInv
  <2>3. p.total <= limit
    BY <2>1 DEF validateAdjustment
  <2>4. AdjustmentSound(v)
    BY <2>2, <2>3 DEF AdjustmentSound, ProposalSound
  <2> HIDE DEF v, p
  <2>5. /\ DOMAIN adjustments' = DOMAIN adjustments \cup {id} /\ adjustments'[id] = v
        /\ \A x \in DOMAIN adjustments : adjustments'[x] = adjustments[x]
    BY <2>1 DEF NewKey, Put
  <2> QED
    BY <2>1, <2>4, <2>5 DEF FxInv
<1> QED
  BY <1>1, <1>2, <1>3

LEMMA ConversionKeeps ==
  ASSUME FxInv, NEW id, NEW amount \in Amount, NEW source, NEW destination, NEW rate, NEW adjustment,
         NEW at \in FxTime, applyFxConversion(id, amount, source, destination, rate, adjustment, at)
  PROVE  FxInv'
<1> DEFINE r == rates[rate]
           a == adjustments[adjustment]
           customer == roundedRatio(r.rate * (Whole + a.total), Whole)
           c == [source |-> source, destination |-> destination, amount |-> amount, rate |-> rate,
                 adjustment |-> adjustment, customer |-> customer,
                 result |-> roundedRatio(amount * customer, RateScale), at |-> at]
<1>1. /\ NewKey(conversions, id) /\ rate \in DOMAIN rates /\ adjustment \in DOMAIN adjustments
      /\ source = r.base /\ destination = r.quote /\ at >= r.decidedAt /\ at >= a.publishedAt
      /\ conversions' = Put(conversions, id, c)
      /\ UNCHANGED <<rates, fxProposals, fxApprovals, adjustments>>
  BY DEF applyFxConversion
<1>2. RateSound(r) /\ AdjustmentSound(a)
  BY <1>1 DEF FxInv
<1>3. r.rate \in Nat /\ a.total \in Nat /\ r.decidedAt \in Int /\ a.publishedAt \in Int
  BY <1>2 DEF RateSound, AdjustmentSound
<1>4. Whole \in Nat \ {0} /\ RateScale \in Nat \ {0} /\ amount \in Nat /\ at \in Int
  BY FxAssumption
<1> HIDE DEF r, a
<1>5. Whole + a.total \in Nat /\ r.rate * (Whole + a.total) \in Nat
  BY <1>3, <1>4, ProductNat
<1>6. /\ customer \in Nat /\ customer >= r.rate
      /\ 2 * (customer * Whole - r.rate * (Whole + a.total)) \in (-Whole) .. Whole
  BY <1>3, <1>4, <1>5, HalfUnit, AddedNotLess
<1> HIDE DEF customer
<1>7. 2 * (roundedRatio(amount * customer, RateScale) * RateScale - amount * customer) \in (-RateScale) .. RateScale
  BY <1>4, <1>6, ProductNat, HalfUnit
<1>8. /\ c.source = source /\ c.destination = destination /\ c.amount = amount /\ c.rate = rate
      /\ c.adjustment = adjustment /\ c.customer = customer /\ c.at = at
      /\ c.result = roundedRatio(amount * customer, RateScale)
  OBVIOUS
<1> HIDE DEF c
<1>9. ConversionExact(c, r, a)
  BY <1>1, <1>3, <1>4, <1>6, <1>7, <1>8 DEF ConversionExact
<1>10. /\ DOMAIN conversions' = DOMAIN conversions \cup {id} /\ conversions'[id] = c
       /\ \A x \in DOMAIN conversions : conversions'[x] = conversions[x]
  BY <1>1 DEF NewKey, Put
<1> QED
  BY <1>1, <1>8, <1>9, <1>10 DEF FxInv, r, a

\* A conversion is traceable to fresh observations in its direction and to an adjustment of two
\* people within its limit, and each rounding moves it by half a unit at most
\* (packages/fx-engine), for any rates, scales, ages, limits and amounts.
THEOREM ConversionsSound == FxSpec => []ConversionSound
<1>1. FxInit => FxInv
  BY DEF FxInit, FxInv, EmptyMap
<1>2. FxInv /\ [FxNext]_fxVars => FxInv'
  <2> SUFFICES ASSUME FxInv, [FxNext]_fxVars PROVE FxInv'
    OBVIOUS
  <2>1. CASE UNCHANGED fxVars
    BY <2>1 DEF fxVars, FxInv
  <2>2. CASE FxNext
    BY <2>2, DirectKeeps, TriangulatedKeeps, AdjustingKeeps, ConversionKeeps DEF FxNext
  <2> QED
    BY <2>1, <2>2
<1>3. FxInv => ConversionSound
  <2> SUFFICES ASSUME FxInv, NEW id \in DOMAIN conversions
               PROVE  LET c == conversions[id]
                          r == rates[c.rate]
                          a == adjustments[c.adjustment]
                      IN RateSound(r) /\ AdjustmentSound(a) /\ ConversionExact(c, r, a)
    BY DEF ConversionSound, RateSound, AdjustmentSound, ConversionExact, FreshAt
  <2> QED
    BY DEF FxInv
<1> QED
  BY <1>1, <1>2, <1>3, PTL DEF FxSpec

-----------------------------------------------------------------------------
(***************************************************************************)
(* Benchmarks: a published price is the weighted median of sound records.  *)
(***************************************************************************)
\* What an observation is made of; and that payloads are told apart.
Priced(o) == {o.price, o.stations} \subseteq Nat /\ {o.id, o.payload} \subseteq Int

Told(S) == IsFiniteSet(S) /\ (\A o \in S : Priced(o)) /\ \A o, p \in S : o.payload = p.payload => o = p

\* Cheaper is a total order.
LEMMA CheaperOrders ==
  ASSUME NEW a, NEW b, NEW c, Priced(a), Priced(b), Priced(c)
  PROVE  /\ ~Cheaper(a, a)
         /\ Cheaper(a, b) /\ Cheaper(b, c) => Cheaper(a, c)
         /\ Cheaper(a, b) \/ Cheaper(b, a) \/ a.payload = b.payload
         /\ Cheaper(a, b) => a.price <= b.price
         /\ a.price < b.price => Cheaper(a, b)
  BY DEF Cheaper, Priced

\* Of finitely many observations one is the cheapest, and one the dearest.
LEMMA CheapestExists ==
  ASSUME NEW S, Told(S), S # {}
  PROVE  \E o \in S : \A p \in S : ~Cheaper(p, o)
<1> DEFINE below(o) == {p \in S : Cheaper(p, o)} \cup {o}
           T == {below(o) : o \in S}
<1>1. T \in SUBSET SUBSET S /\ T # {} /\ IsFiniteSet(S)
  <2>1. IsFiniteSet(S)
    BY DEF Told
  <2>2. T # {}
    OBVIOUS
  <2>3. \A t \in T : t \subseteq S
    OBVIOUS
  <2> HIDE DEF T
  <2> QED
    BY <2>1, <2>2, <2>3
<1>2. PICK m \in T : \A t \in T : t \subseteq m => t = m
  <2> HIDE DEF T
  <2> QED
    BY ONLY <1>1, LeastSubset
<1>3. PICK o \in S : m = below(o)
  BY <1>2
<1>4. ASSUME NEW p \in S, Cheaper(p, o)
      PROVE  FALSE
  <2>1. ~Cheaper(p, p) /\ ~Cheaper(o, p) /\ o # p
    <3>1. Priced(p) /\ Priced(o)
      BY DEF Told
    <3> QED
      BY <1>4, <3>1, CheaperOrders
  <2>2. \A q \in S : Cheaper(q, p) => Cheaper(q, o)
    BY <1>4, CheaperOrders DEF Told
  <2>3. below(p) \in T /\ below(p) \subseteq below(o) /\ o \in below(o) /\ o \notin below(p)
    BY <1>4, <2>1, <2>2
  <2> QED
    BY <1>2, <1>3, <2>3
<1> QED
  BY <1>4

LEMMA DearestExists ==
  ASSUME NEW S, Told(S), S # {}
  PROVE  \E o \in S : \A p \in S : ~Cheaper(o, p)
<1> DEFINE above(o) == {p \in S : Cheaper(o, p)} \cup {o}
           T == {above(o) : o \in S}
<1>1. T \in SUBSET SUBSET S /\ T # {} /\ IsFiniteSet(S)
  <2>1. IsFiniteSet(S)
    BY DEF Told
  <2>2. T # {}
    OBVIOUS
  <2>3. \A t \in T : t \subseteq S
    OBVIOUS
  <2> HIDE DEF T
  <2> QED
    BY <2>1, <2>2, <2>3
<1>2. PICK m \in T : \A t \in T : t \subseteq m => t = m
  <2> HIDE DEF T
  <2> QED
    BY ONLY <1>1, LeastSubset
<1>3. PICK o \in S : m = above(o)
  BY <1>2
<1>4. ASSUME NEW p \in S, Cheaper(o, p)
      PROVE  FALSE
  <2>1. ~Cheaper(p, p) /\ ~Cheaper(p, o) /\ o # p
    <3>1. Priced(p) /\ Priced(o)
      BY DEF Told
    <3> QED
      BY <1>4, <3>1, CheaperOrders
  <2>2. \A q \in S : Cheaper(p, q) => Cheaper(o, q)
    BY <1>4, CheaperOrders DEF Told
  <2>3. above(p) \in T /\ above(p) \subseteq above(o) /\ o \in above(o) /\ o \notin above(p)
    BY <1>4, <2>1, <2>2
  <2> QED
    BY <1>2, <1>3, <2>3
<1> QED
  BY <1>4

\* The weights of a part and of the rest add up.
LEMMA WeightSplits ==
  ASSUME NEW A, Told(A), NEW S \in SUBSET A
  PROVE  /\ Weight(S) \in Nat /\ Weight(A \ S) \in Nat
         /\ Weight(A) = Weight(S) + Weight(A \ S)
<1> DEFINE f == [o \in A |-> o.stations]
           g == [o \in A |-> IF o \in S THEN o.stations ELSE 0]
           h == [o \in A |-> IF o \in S THEN 0 ELSE o.stations]
           R == A \ S
<1>1. IsFiniteSet(A) /\ \A o \in A : o.stations \in Nat
  BY DEF Told, Priced
<1>2. /\ DOMAIN f = A /\ DOMAIN g = A /\ DOMAIN h = A /\ R \in SUBSET A
      /\ \A o \in A : f[o] \in Nat /\ g[o] \in Nat /\ h[o] \in Nat /\ f[o] = g[o] + h[o]
      /\ (\A o \in A \ S : g[o] = 0) /\ (\A o \in A \ R : h[o] = 0)
  BY <1>1
<1>3. /\ Restrict(g, S) = [o \in S |-> o.stations] /\ Restrict(h, R) = [o \in R |-> o.stations]
      /\ DOMAIN Restrict(g, S) = S /\ DOMAIN Restrict(h, R) = R
      /\ (\A o \in S : Restrict(g, S)[o] \in Nat) /\ (\A o \in R : Restrict(h, R)[o] \in Nat)
  BY <1>1 DEF Restrict
<1>4. Weight(A) = Total(f) /\ Weight(S) = Total(Restrict(g, S)) /\ Weight(R) = Total(Restrict(h, R))
  BY <1>3 DEF Weight
<1> HIDE DEF f, g, h, R
<1>5. IsFiniteSet(S) /\ IsFiniteSet(R)
  BY <1>1, <1>2, FS_Subset
<1>6. Total(g) = Total(Restrict(g, S)) /\ Total(h) = Total(Restrict(h, R))
  <2>1. \A o \in A : f[o] \in Int /\ g[o] \in Int /\ h[o] \in Int
    BY <1>2
  <2> QED
    BY <1>1, <1>2, <2>1, TotalWhere
<1>7. Total(f) = Total(g) + Total(h)
  <2>1. \A o \in DOMAIN g : g[o] \in Int /\ h[o] \in Int /\ f[o] = g[o] + h[o]
    BY <1>2
  <2>2. IsFiniteSet(DOMAIN g) /\ DOMAIN h = DOMAIN g /\ DOMAIN f = DOMAIN g
    BY <1>1, <1>2
  <2> QED
    BY ONLY <2>1, <2>2, TotalPlus
<1>8. Total(Restrict(g, S)) \in Nat /\ Total(Restrict(h, R)) \in Nat
  BY <1>3, <1>5, TotalNat
<1> QED
  BY <1>4, <1>6, <1>7, <1>8 DEF R

LEMMA WeightGrows ==
  ASSUME NEW A, Told(A), NEW T \in SUBSET A, NEW S \in SUBSET T
  PROVE  Weight(S) \in Nat /\ Weight(T) \in Nat /\ Weight(S) <= Weight(T)
<1>1. Told(T)
  <2>1. IsFiniteSet(T)
    BY FS_Subset DEF Told
  <2> QED
    BY <2>1 DEF Told
<1> DEFINE u == Weight(S)
           v == Weight(T \ S)
           w == Weight(T)
<1>2. u \in Nat /\ v \in Nat /\ w = u + v
  BY ONLY <1>1, S \in SUBSET T, WeightSplits
<1> HIDE DEF u, v, w
<1>3. u \in Nat /\ w \in Nat /\ u <= w
  BY <1>2
<1> QED
  BY <1>3 DEF u, w

\* The observations up to one of them.
UpTo(A, p) == {q \in A : Cheaper(q, p)} \cup {p}
Reaches(A, p) == Weight(UpTo(A, p)) >= (Weight(A) + 1) \div 2

LEMMA SelectedFirst ==
  ASSUME NEW A, Told(A), A # {}
  PROVE  /\ Selected(A) \in A /\ Reaches(A, Selected(A))
         /\ \A p \in A : Cheaper(p, Selected(A)) => ~Reaches(A, p)
<1> DEFINE R == {p \in A : Reaches(A, p)}
<1>1. PICK d \in A : \A p \in A : ~Cheaper(d, p)
  BY DearestExists
<1>2. UpTo(A, d) = A
  <2>1. \A p \in A : p = d \/ Cheaper(p, d)
    BY <1>1, CheaperOrders DEF Told
  <2> QED
    BY <2>1 DEF UpTo
<1>3. Weight(A) \in Nat
  BY WeightGrows
<1>4. d \in R
  BY <1>2, <1>3 DEF Reaches
<1>5. Told(R)
  <2>1. IsFiniteSet(R)
    BY FS_Subset DEF Told
  <2> QED
    BY <2>1 DEF Told
<1>6. \E o \in R : \A p \in R : ~Cheaper(p, o)
  <2> HIDE DEF R
  <2> QED
    BY <1>4, <1>5, CheapestExists
<1>7. \E o \in A : Reaches(A, o) /\ \A p \in A : Cheaper(p, o) => ~Reaches(A, p)
  BY <1>6
<1>8. Selected(A) = CHOOSE o \in A : Reaches(A, o) /\ \A p \in A : Cheaper(p, o) => ~Reaches(A, p)
  BY Zenon DEF Selected, Reaches, UpTo
<1> QED
  BY <1>7, <1>8, Zenon

\* No more than half of the stations sell for less than it, and no more than half for more.
LEMMA SelectedIsMedian ==
  ASSUME NEW A, Told(A), A # {}
  PROVE  /\ 2 * Weight({o \in A : o.price < Selected(A).price}) <= Weight(A)
         /\ 2 * Weight({o \in A : o.price > Selected(A).price}) <= Weight(A)
<1> DEFINE s == Selected(A)
           less == {o \in A : o.price < s.price}
           more == {o \in A : o.price > s.price}
           w == Weight(A)
<1>1. s \in A /\ Reaches(A, s) /\ \A p \in A : Cheaper(p, s) => ~Reaches(A, p)
  BY SelectedFirst
<1> HIDE DEF s
<1>2. w \in Nat /\ \A o \in A : Priced(o)
  BY WeightGrows DEF Told
<1>3. 2 * Weight(less) <= w
  <2>1. CASE less = {}
    <3>1. Weight({}) = 0
      <4>1. DOMAIN [o \in {} |-> o.stations] = {}
        OBVIOUS
      <4> QED
        BY <4>1, TotalEmpty DEF Weight
    <3> HIDE DEF less, w
    <3> QED
      BY <1>2, <2>1, <3>1
  <2>2. CASE less # {}
    <3>1. Told(less)
      <4>1. IsFiniteSet(less)
        BY FS_Subset DEF Told
      <4> QED
        BY <4>1 DEF Told
    <3>2. PICK p \in less : \A q \in less : ~Cheaper(p, q)
      <4> HIDE DEF less
      <4> QED
        BY <2>2, <3>1, DearestExists
    <3>3. p \in A /\ Cheaper(p, s)
      BY <1>1, <1>2, <3>2, CheaperOrders
    <3>4. ~Reaches(A, p)
      BY <1>1, <3>3
    <3>5. less \subseteq UpTo(A, p)
      <4>1. \A q \in less : q = p \/ Cheaper(q, p)
        BY <1>2, <3>2, CheaperOrders DEF Told
      <4> QED
        BY <4>1 DEF UpTo
    <3>6. UpTo(A, p) \subseteq A
      BY <3>3 DEF UpTo
    <3> DEFINE u == Weight(UpTo(A, p))
               v == Weight(less)
    <3>7. v \in Nat /\ u \in Nat /\ v <= u
      <4> HIDE DEF less
      <4> QED
        BY <3>5, <3>6, WeightGrows
    <3>8. ~(u >= (w + 1) \div 2)
      BY <3>4 DEF Reaches
    <3> HIDE DEF u, v, w
    <3>9. 2 * v <= w
      BY <1>2, <3>7, <3>8
    <3> QED
      BY <3>9 DEF v
  <2> QED
    BY <2>1, <2>2
<1>4. 2 * Weight(more) <= w
  <2> DEFINE rest == A \ UpTo(A, s)
             u == Weight(UpTo(A, s))
             v == Weight(more)
             x == Weight(rest)
  <2>1. UpTo(A, s) \in SUBSET A
    BY <1>1 DEF UpTo
  <2>2. \A o \in more : o \notin UpTo(A, s)
    <3> SUFFICES ASSUME NEW o \in more, o \in UpTo(A, s) PROVE FALSE
      OBVIOUS
    <3>1. o \in A /\ o.price > s.price /\ Priced(o) /\ Priced(s)
      BY <1>1, <1>2
    <3>2. Cheaper(o, s) \/ o = s
      BY DEF UpTo
    <3>3. o.price <= s.price
      BY <3>1, <3>2, CheaperOrders DEF Priced
    <3> QED
      BY <3>1, <3>3 DEF Priced
  <2>3. more \in SUBSET rest /\ rest \in SUBSET A
    BY <2>2
  <2> HIDE DEF more, rest
  <2>4. v \in Nat /\ x \in Nat /\ v <= x
    BY <2>3, WeightGrows
  <2>5. u \in Nat /\ w = u + x
    BY <2>1, WeightSplits DEF rest
  <2>6. u >= (w + 1) \div 2
    BY <1>1 DEF Reaches
  <2> HIDE DEF u, v, x, w
  <2>7. 2 * v <= w
    BY <1>2, <2>4, <2>5, <2>6
  <2> QED
    BY <2>7 DEF v
<1> QED
  BY <1>3, <1>4 DEF s

\* Of the prices of observations there is a largest and a smallest, the selected one
\* between them; the dispersion rounds what is between them down.
LEMMA DispersionBrackets ==
  ASSUME NEW A, Told(A), A # {}, \A o \in A : o.price > 0,
         NEW limit \in Int, Dispersion(A) \in Int => Dispersion(A) <= limit, NEW o \in A, NEW p \in A
  PROVE  (o.price - p.price) * 10000 < (limit + 1) * Selected(A).price
<1> DEFINE prices == {q.price : q \in A}
           s == Selected(A).price
           mx == Max(prices)
           mn == Min(prices)
           n == (mx - mn) * 10000
<1>1. \A q \in A : Priced(q) /\ q.price \in Nat \ {0}
  BY DEF Told, Priced
<1>2. s \in Nat \ {0} /\ o.price \in Nat /\ p.price \in Nat
  BY <1>1, SelectedFirst
<1>3. mx \in Nat /\ o.price <= mx
  <2>1. PICK d \in A : \A q \in A : ~Cheaper(d, q)
    BY DearestExists
  <2>2. \A q \in A : q.price <= d.price
    BY <1>1, <2>1, CheaperOrders DEF Priced
  <2>3. \E x \in prices : \A y \in prices : x >= y
    BY <1>1, <2>2
  <2>4. mx \in prices /\ \A y \in prices : mx >= y
    BY <2>3, Zenon DEF Max
  <2> QED
    BY <1>1, <2>4
<1>4. mn \in Nat /\ mn <= p.price
  <2>1. PICK d \in A : \A q \in A : ~Cheaper(q, d)
    BY CheapestExists
  <2>2. \A q \in A : d.price <= q.price
    BY <1>1, <2>1, CheaperOrders DEF Priced
  <2>3. \E x \in prices : \A y \in prices : x <= y
    BY <1>1, <2>2
  <2>4. mn \in prices /\ \A y \in prices : mn <= y
    BY <2>3, Zenon DEF Min
  <2> QED
    BY <1>1, <2>4
<1>5. mn <= o.price /\ p.price <= mx
  <2>1. \A y \in prices : y <= mx /\ mn <= y
    <3>1. \A q \in A : q.price <= mx /\ mn <= q.price
      <4>1. PICK d \in A : \A q \in A : ~Cheaper(d, q)
        BY DearestExists
      <4>2. PICK c \in A : \A q \in A : ~Cheaper(q, c)
        BY CheapestExists
      <4>3. \A q \in A : q.price <= d.price /\ c.price <= q.price
        BY <1>1, <4>1, <4>2, CheaperOrders DEF Priced
      <4>4. (\E x \in prices : \A y \in prices : x >= y) /\ (\E x \in prices : \A y \in prices : x <= y)
        BY <1>1, <4>3
      <4>5. (\A y \in prices : mx >= y) /\ (\A y \in prices : mn <= y)
        BY <4>4, Zenon DEF Max, Min
      <4> HIDE DEF mx, mn
      <4> QED
        BY <1>1, <1>3, <1>4, <4>5
    <3> QED
      BY <3>1
  <2> QED
    BY <2>1
<1>6. Dispersion(A) = n \div s
  BY DEF Dispersion
<1> HIDE DEF prices, mx, mn, s
<1>7. n \in Nat /\ (o.price - p.price) * 10000 <= n
  BY <1>2, <1>3, <1>4, <1>5
<1> HIDE DEF n
<1>8. n \div s \in Nat /\ n < (n \div s) * s + s
  BY <1>2, <1>7, Quotient
<1>9. (n \div s) * s <= limit * s
  BY <1>2, <1>6, <1>8, TimesMonotone
<1>10. limit * s + s = (limit + 1) * s /\ limit * s \in Int /\ (n \div s) * s \in Int
  BY <1>2, <1>8
<1>11. (limit + 1) * s \in Int /\ (o.price - p.price) * 10000 \in Int
  BY <1>2
<1> HIDE DEF n
<1>12. (o.price - p.price) * 10000 < (limit + 1) * s
  BY <1>2, <1>7, <1>8, <1>9, <1>10, <1>11
<1> QED
  BY <1>12 DEF s

\* An observation is what an envelope without issues says; no two have one payload.
Sound(o) == \E e \in Envelope : Issues(e) = {} /\ o = Observation(e)

PriceInv ==
  /\ IsFiniteSet(observations)
  /\ \A o \in observations : Sound(o)
  /\ \A o, p \in observations : o.payload = p.payload => o = p
  /\ BenchmarkRepresentative

LEMMA SoundIsPriced ==
  ASSUME NEW o, Sound(o), o.stations > 0
  PROVE  Priced(o) /\ o.price > 0
<1>1. PICK e \in Envelope : Issues(e) = {} /\ o = Observation(e)
  BY DEF Sound
<1>2. parseMinor4dp(e.price) # NoPrice
  <2>1. "SCHEMA_INVALID" \notin Issues(e)
    BY <1>1
  <2> QED
    BY <2>1 DEF Issues, QualityCode
<1>3. parseMinor4dp(e.price) \in Nat
  <2>1. e.price.places \in Nat /\ e.price.whole \in Nat /\ e.price.fraction \in Nat
    BY EnvelopeAssumption
  <2>2. CASE e.price.places > 4
    BY <2>2 DEF parseMinor4dp, NoPrice
  <2>3. CASE ~(e.price.places > 4)
    <3>1. PlaceValue[e.price.places] \in Nat
      BY <2>1, <2>3 DEF PlaceValue
    <3> QED
      BY <2>1, <2>3, <3>1 DEF parseMinor4dp
  <2> QED
    BY <2>2, <2>3
<1>4. e.record \in Int /\ e.hash \in Int /\ e.stations \in Int
  BY EnvelopeAssumption
<1> QED
  BY <1>1, <1>2, <1>3, <1>4 DEF Observation, Priced, NoPrice

\* What a decision counts is a sound record of pumps, licensed for quotes.
LEMMA CountedFromSound ==
  ASSUME NEW o, Sound(o), eligible(o)
  PROVE  \E e \in Envelope :
           /\ e.hash = o.payload /\ Issues(e) = {} /\ o.stations > 0
           /\ "QUOTE" \in licenceUses(e.provider) /\ e.kind = "ACTUAL_PUMP"
           /\ e.receivedAt - e.observedAt <= MaximumAge
<1>1. PICK e \in Envelope : Issues(e) = {} /\ o = Observation(e)
  BY DEF Sound
<1>2. e.requested \subseteq licenceUses(e.provider) /\ ~(e.receivedAt - e.observedAt > MaximumAge)
  <2>1. "LICENCE_PROHIBITS_USE" \notin Issues(e) /\ "STALE" \notin Issues(e)
    BY <1>1
  <2> QED
    BY <2>1 DEF Issues, QualityCode
<1>3. e.receivedAt \in Int /\ e.observedAt \in Int /\ MaximumAge \in Int
  <2>1. "SCHEMA_INVALID" \notin Issues(e)
    BY <1>1
  <2>2. e.wellFormed
    BY <2>1 DEF Issues, QualityCode
  <2> QED
    BY <2>2, EnvelopeAssumption
<1>4. e.receivedAt - e.observedAt <= MaximumAge
  BY <1>2, <1>3
<1>5. e.hash = o.payload /\ e.kind = o.kind /\ e.requested = o.permitted
  BY <1>1 DEF Observation
<1> QED
  BY <1>1, <1>2, <1>4, <1>5 DEF eligible

\* A decision that publishes represents what it counted.
LEMMA DecisionRepresents ==
  ASSUME NEW candidates, IsFiniteSet(candidates), \A o \in candidates : Sound(o),
         \A o, p \in candidates : o.payload = p.payload => o = p,
         NEW policy \in BenchmarkPolicy, NEW accepted, accepted = {o \in candidates : eligible(o)},
         Verdict(accepted, policy) = "BENCHMARK_SELECTED",
         NEW b, b.policy = policy, b.price = Selected(accepted).price,
         b.evidence = Evidence(candidates, accepted, TRUE)
  PROVE  Represents(b)
<1> DEFINE counted == Counted(b)
<1>1. Told(accepted) /\ \A o \in accepted : o.price > 0
  <2>1. IsFiniteSet(accepted)
    BY FS_Subset
  <2>2. \A o \in accepted : Priced(o) /\ o.price > 0
    BY SoundIsPriced DEF eligible
  <2> QED
    BY <2>1, <2>2 DEF Told
<1>2. accepted # {}
  <2>1. policy.minimumCandidates > 0 /\ policy.minimumCandidates \in Int
    BY BenchmarkPolicyAssumption
  <2>2. ~(Cardinality(accepted) < policy.minimumCandidates)
    BY DEF Verdict
  <2>3. Cardinality({}) = 0
    BY FS_EmptySet
  <2> QED
    BY <2>1, <2>2, <2>3
<1>3. Dispersion(accepted) \in Int => Dispersion(accepted) <= policy.maximumDispersion
  <2>1. ~(Dispersion(accepted) > policy.maximumDispersion)
    BY DEF Verdict
  <2>2. policy.maximumDispersion \in Int
    BY BenchmarkPolicyAssumption
  <2> QED
    BY <2>1, <2>2
<1>4. counted = accepted
  <2>1. DOMAIN b.evidence = candidates
    BY DEF Evidence
  <2>2. ASSUME NEW o \in candidates
        PROVE  (b.evidence[o] \in {"WEIGHTED_MEDIAN", "ELIGIBLE_CORROBORATION"}) <=> o \in accepted
    BY DEF Evidence, evidenceForRejected
  <2> QED
    BY <2>1, <2>2 DEF Counted
<1>5. b.evidence[Selected(accepted)] = "WEIGHTED_MEDIAN" /\ Selected(accepted) \in accepted
  <2>1. Selected(accepted) \in accepted
    BY <1>1, <1>2, SelectedFirst
  <2> QED
    BY <2>1 DEF Evidence
<1>6. /\ 2 * Weight({o \in accepted : o.price < b.price}) <= Weight(accepted)
      /\ 2 * Weight({o \in accepted : o.price > b.price}) <= Weight(accepted)
  BY <1>1, <1>2, SelectedIsMedian
<1>7. \A o, p \in accepted : (o.price - p.price) * 10000 < (policy.maximumDispersion + 1) * b.price
  <2>1. policy.maximumDispersion \in Int
    BY BenchmarkPolicyAssumption
  <2> SUFFICES ASSUME NEW o \in accepted, NEW p \in accepted
               PROVE  (o.price - p.price) * 10000 < (policy.maximumDispersion + 1) * Selected(accepted).price
    OBVIOUS
  <2> QED
    BY ONLY <1>1, <1>2, <1>3, <2>1, o \in accepted, p \in accepted, DispersionBrackets
<1>8. \A o \in accepted : \E e \in Envelope :
           /\ e.hash = o.payload /\ Issues(e) = {} /\ o.stations > 0
           /\ "QUOTE" \in licenceUses(e.provider) /\ e.kind = "ACTUAL_PUMP"
           /\ e.receivedAt - e.observedAt <= MaximumAge
  BY CountedFromSound
<1>9. \A o, p \in accepted : o.payload = p.payload => o = p
  OBVIOUS
<1> HIDE DEF counted
<1> QED
  <2>1. /\ \E o \in counted : o.price = b.price /\ b.evidence[o] = "WEIGHTED_MEDIAN"
        /\ 2 * Weight({o \in counted : o.price < b.price}) <= Weight(counted)
        /\ 2 * Weight({o \in counted : o.price > b.price}) <= Weight(counted)
    BY <1>4, <1>5, <1>6
  <2>2. \A o, p \in counted :
          /\ o.payload = p.payload => o = p
          /\ (o.price - p.price) * 10000 < (b.policy.maximumDispersion + 1) * b.price
    BY <1>4, <1>7, <1>9
  <2>3. \A o \in counted : \E e \in Envelope :
           /\ e.hash = o.payload /\ Issues(e) = {} /\ o.stations > 0
           /\ "QUOTE" \in licenceUses(e.provider) /\ e.kind = "ACTUAL_PUMP"
           /\ e.receivedAt - e.observedAt <= MaximumAge
    BY <1>4, <1>8
  <2> QED
    BY ONLY <2>1, <2>2, <2>3, SMTT(30) DEF Represents, counted

LEMMA PriceInit == PriceEvidenceInit => PriceInv
<1> SUFFICES ASSUME PriceEvidenceInit PROVE PriceInv
  OBVIOUS
<1>1. IsFiniteSet(observations) /\ observations = {} /\ DOMAIN benchmarks = {}
  BY FS_EmptySet DEF PriceEvidenceInit, EmptyMap
<1> QED
  BY <1>1 DEF PriceInv, BenchmarkRepresentative

LEMMA PriceStep == PriceInv /\ [PriceEvidenceNext]_priceVars => PriceInv'
<1> SUFFICES ASSUME PriceInv, [PriceEvidenceNext]_priceVars PROVE PriceInv'
  OBVIOUS
<1>1. ASSUME NEW e \in Envelope, ingestObservation(e) PROVE PriceInv'
  <2>1. IsFiniteSet(observations')
    BY <1>1, FS_AddElement DEF PriceInv, ingestObservation
  <2>2. \A o \in observations' : Sound(o)
    BY <1>1 DEF PriceInv, ingestObservation, Sound
  <2>3. \A o, p \in observations' : o.payload = p.payload => o = p
    <3>1. \A o \in observations : o.payload # e.hash
      BY <1>1 DEF ingestObservation, AcceptedHashes
    <3>2. Observation(e).payload = e.hash
      BY DEF Observation
    <3> QED
      BY <1>1, <3>1, <3>2 DEF PriceInv, ingestObservation
  <2>4. BenchmarkRepresentative'
    <3>1. benchmarks' = benchmarks
      BY <1>1 DEF ingestObservation
    <3> SUFFICES ASSUME NEW k \in DOMAIN benchmarks', benchmarks'[k].status = "PUBLISHED"
                 PROVE  Represents(benchmarks'[k])
      BY DEF BenchmarkRepresentative
    <3> QED
      BY <3>1 DEF PriceInv, BenchmarkRepresentative
  <2> QED
    BY <2>1, <2>2, <2>3, <2>4 DEF PriceInv, Sound
<1>2. ASSUME NEW id \in BenchmarkId, NEW candidates \in SUBSET observations,
             NEW policy \in BenchmarkPolicy, decideBenchmark(id, candidates, policy)
      PROVE  PriceInv'
  <2> DEFINE accepted == {o \in candidates : eligible(o)}
             reason == Verdict(accepted, policy)
             released == reason = "BENCHMARK_SELECTED"
             b == [policy |-> policy, reason |-> reason,
                   status |-> IF released THEN "PUBLISHED" ELSE "BLOCKED",
                   price |-> IF released THEN Selected(accepted).price ELSE NoPrice,
                   evidence |-> Evidence(candidates, accepted, released)]
  <2>1. benchmarks' = Put(benchmarks, id, b) /\ observations' = observations
    BY <1>2 DEF decideBenchmark
  <2>2. b.status = "PUBLISHED" => Represents(b)
    <3> SUFFICES ASSUME b.status = "PUBLISHED" PROVE Represents(b)
      OBVIOUS
    <3>1. released
      OBVIOUS
    <3>2. b.policy = policy /\ b.price = Selected(accepted).price /\ b.evidence = Evidence(candidates, accepted, TRUE)
      BY <3>1
    <3>3. IsFiniteSet(candidates)
      BY FS_Subset DEF PriceInv
    <3>4. (\A o \in candidates : Sound(o)) /\ \A o, p \in candidates : o.payload = p.payload => o = p
      BY DEF PriceInv
    <3>5. Verdict(accepted, policy) = "BENCHMARK_SELECTED" /\ accepted = {o \in candidates : eligible(o)}
      BY <3>1
    <3> HIDE DEF b, accepted
    <3> QED
      BY <3>2, <3>3, <3>4, <3>5, DecisionRepresents
  <2> HIDE DEF b
  <2>3. BenchmarkRepresentative'
    <3> SUFFICES ASSUME NEW k \in DOMAIN benchmarks', benchmarks'[k].status = "PUBLISHED"
                 PROVE  Represents(benchmarks'[k])
      BY DEF BenchmarkRepresentative
    <3>1. (k = id /\ benchmarks'[k] = b) \/ (k \in DOMAIN benchmarks /\ benchmarks'[k] = benchmarks[k])
      BY <2>1 DEF Put
    <3> QED
      BY <2>2, <3>1 DEF PriceInv, BenchmarkRepresentative
  <2> QED
    BY <2>1, <2>3 DEF PriceInv, Sound
<1>3. CASE UNCHANGED priceVars
  <2>1. benchmarks' = benchmarks /\ observations' = observations
    BY <1>3 DEF priceVars
  <2>2. BenchmarkRepresentative'
    <3> SUFFICES ASSUME NEW k \in DOMAIN benchmarks', benchmarks'[k].status = "PUBLISHED"
                 PROVE  Represents(benchmarks'[k])
      BY DEF BenchmarkRepresentative
    <3> QED
      BY <2>1 DEF PriceInv, BenchmarkRepresentative
  <2> QED
    BY <2>1, <2>2 DEF PriceInv, Sound
<1> QED
  BY <1>1, <1>2, <1>3 DEF PriceEvidenceNext

\* A published benchmark is a weighted median of sound, fresh, quote-licensed pump records
\* that count once each and lie as close together as its policy asks.
THEOREM BenchmarksRepresent == PriceSpec => []BenchmarkRepresentative
<1>1. PriceEvidenceInit => PriceInv
  BY PriceInit
<1>2. PriceInv /\ [PriceEvidenceNext]_priceVars => PriceInv'
  BY PriceStep
<1>3. PriceInv => BenchmarkRepresentative
  BY DEF PriceInv
<1> QED
  BY <1>1, <1>2, <1>3, PTL DEF PriceSpec

-----------------------------------------------------------------------------
(***************************************************************************)
(* Payments: the ledger is told once what the provider received.           *)
(***************************************************************************)
\* A stored object is a record whose command no later answer or webhook changes.
StoredObject(r) == r = [command |-> r.command, object |-> r.object, status |-> r.status]

Stored == [body : Body, status : {"PENDING", "IGNORED", "PROCESSED"}]

PayInv ==
  /\ webhooks \in Seq(Stored)
  /\ DOMAIN byProviderId = Kinds
  /\ \A k \in Kinds : \A id \in DOMAIN byProviderId[k] : StoredObject(byProviderId[k][id])
  /\ \A e \in DOMAIN instructions : instructions[e].object \in DOMAIN byProviderId["payment"]
  /\ FundedAsReceived

LEMMA PayInit == PaymentsInit => PayInv
<1> SUFFICES ASSUME PaymentsInit PROVE PayInv
  OBVIOUS
<1>1. /\ webhooks = <<>> /\ DOMAIN instructions = {} /\ DOMAIN byProviderId = Kinds
      /\ \A k \in Kinds : DOMAIN byProviderId[k] = {}
  BY DEF PaymentsInit, EmptyMap
<1>2. DOMAIN webhooks = {} /\ webhooks \in Seq(Stored)
  BY <1>1
<1> QED
  BY <1>1, <1>2 DEF PayInv, FundedAsReceived

\* What was told stays true while the webhooks and what is told do not change.
LEMMA ToldStays ==
  ASSUME PayInv, UNCHANGED <<webhooks, instructions>>, DOMAIN byProviderId' = Kinds,
         \A id \in DOMAIN byProviderId["payment"] :
           /\ id \in DOMAIN byProviderId'["payment"]
           /\ byProviderId'["payment"][id].command = byProviderId["payment"][id].command
  PROVE  FundedAsReceived' /\ \A e \in DOMAIN instructions' : instructions'[e].object \in DOMAIN byProviderId'["payment"]
<1>1. webhooks' = webhooks /\ instructions' = instructions
  OBVIOUS
<1>2. \A e \in DOMAIN instructions : instructions[e].object \in DOMAIN byProviderId["payment"]
  BY DEF PayInv
<1>3. ASSUME NEW e \in DOMAIN instructions
      PROVE  \E i \in DOMAIN webhooks :
               LET told == instructions[e]  body == webhooks[i].body IN
               /\ body.id = e /\ body.type = "payment" /\ webhooks[i].status = "PROCESSED"
               /\ told.object = body.object /\ told.amount = body.amount
               /\ told.wallet = byProviderId'["payment"][body.object].command.wallet
  <2>1. PICK i \in DOMAIN webhooks :
               LET told == instructions[e]  body == webhooks[i].body IN
               /\ body.id = e /\ body.type = "payment" /\ webhooks[i].status = "PROCESSED"
               /\ told.object = body.object /\ told.amount = body.amount
               /\ told.wallet = byProviderId["payment"][body.object].command.wallet
    BY DEF PayInv, FundedAsReceived
  <2>2. webhooks[i].body.object \in DOMAIN byProviderId["payment"]
    BY <1>2, <2>1
  <2> QED
    BY <2>1, <2>2
<1>4. /\ \A i \in DOMAIN webhooks :
            webhooks[i].status = "PROCESSED" /\ webhooks[i].body.type = "payment"
            => webhooks[i].body.id \in DOMAIN instructions
      /\ \A i, j \in DOMAIN webhooks :
            i < j => /\ webhooks[i].body.id # webhooks[j].body.id
                     /\ webhooks[i].status = "PENDING" => webhooks[j].status = "PENDING"
  BY DEF PayInv, FundedAsReceived
<1>5. FundedAsReceived'
  BY <1>1, <1>3, <1>4 DEF FundedAsReceived
<1> QED
  BY <1>1, <1>2, <1>5

LEMMA PayAnswers ==
  ASSUME PayInv, NEW c \in PaymentCall, NEW id \in ObjectId, NEW s \in ObjectStatus, NEW live \in BOOLEAN,
         gatewayAnswers(c, id, s, live)
  PROVE  PayInv'
<1> DEFINE command == inFlight[c]
           record == [command |-> command, object |-> id, status |-> s]
           kind == command.kind
<1>1. UNCHANGED <<webhooks, instructions>> /\ Names(command, id)
  BY DEF gatewayAnswers
<1>2. CASE live
  <2>1. byProviderId' = byProviderId
    BY <1>2 DEF gatewayAnswers
  <2> QED
    BY <1>1, <2>1 DEF PayInv, FundedAsReceived
<1>3. CASE ~live
  <2>1. byProviderId' = [byProviderId EXCEPT ![kind] = Put(byProviderId[kind], id, record)]
    BY <1>3 DEF gatewayAnswers
  <2>2. DOMAIN byProviderId = Kinds
    BY DEF PayInv
  <2> HIDE DEF record
  <2>3. ASSUME NEW k \in Kinds
        PROVE  \/ byProviderId'[k] = byProviderId[k]
               \/ k = kind /\ byProviderId'[k] = Put(byProviderId[k], id, record)
    BY <2>1, <2>2
  <2>4. record.command = command /\ StoredObject(record)
    BY DEF record, StoredObject
  <2>5. ASSUME NEW k \in Kinds, NEW o \in DOMAIN byProviderId[k]
        PROVE  o \in DOMAIN byProviderId'[k] /\ byProviderId'[k][o].command = byProviderId[k][o].command
    BY <1>1, <2>3, <2>4 DEF Put, Names
  <2>6. ASSUME NEW k \in Kinds, NEW o \in DOMAIN byProviderId'[k]
        PROVE  StoredObject(byProviderId'[k][o])
    <3>1. \A x \in DOMAIN byProviderId[k] : StoredObject(byProviderId[k][x])
      BY DEF PayInv
    <3>2. CASE byProviderId'[k] = byProviderId[k]
      BY <3>1, <3>2
    <3>3. CASE byProviderId'[k] = Put(byProviderId[k], id, record)
      BY <2>4, <3>1, <3>3 DEF Put
    <3> QED
      BY <2>3, <3>2, <3>3
  <2>7. DOMAIN byProviderId' = Kinds /\ "payment" \in Kinds
    BY <2>1, <2>2 DEF Kinds
  <2>8. FundedAsReceived' /\ \A e \in DOMAIN instructions' : instructions'[e].object \in DOMAIN byProviderId'["payment"]
    BY <1>1, <2>5, <2>7, ToldStays
  <2>9. (\A k \in Kinds : \A o \in DOMAIN byProviderId[k] : StoredObject(byProviderId[k][o]))'
    BY <2>6 DEF StoredObject
  <2> QED
    BY <1>1, <2>7, <2>8, <2>9 DEF PayInv, Stored
<1> QED
  BY <1>2, <1>3

LEMMA PayIngests ==
  ASSUME PayInv, NEW body \in Body, NEW signed, NEW signedAt, NEW at, ingestWebhook(body, signed, signedAt, at)
  PROVE  PayInv'
<1> DEFINE n == Len(webhooks)
           w == [body |-> body, status |-> "PENDING"]
<1>1. /\ \A i \in DOMAIN webhooks : webhooks[i].body.id # body.id
      /\ webhooks' = Append(webhooks, w) /\ byProviderId' = byProviderId /\ instructions' = instructions
  BY DEF ingestWebhook
<1>2. webhooks \in Seq(Stored) /\ w \in Stored /\ n \in Nat /\ DOMAIN webhooks = 1 .. n
  BY DEF PayInv, Stored
<1> HIDE DEF n, w
<1>3. /\ webhooks' \in Seq(Stored) /\ DOMAIN webhooks' = 1 .. n + 1 /\ webhooks'[n + 1] = w
      /\ \A i \in 1 .. n : webhooks'[i] = webhooks[i]
  BY <1>1, <1>2 DEF n
<1>4. w.body = body /\ w.status = "PENDING"
  BY DEF w
<1>5. \A e \in DOMAIN instructions :
       \E i \in DOMAIN webhooks' :
         LET told == instructions[e]  b == webhooks'[i].body IN
         /\ b.id = e /\ b.type = "payment" /\ webhooks'[i].status = "PROCESSED"
         /\ told.object = b.object /\ told.amount = b.amount
         /\ told.wallet = byProviderId.payment[b.object].command.wallet
  <2> SUFFICES ASSUME NEW e \in DOMAIN instructions
               PROVE  \E i \in DOMAIN webhooks' :
                        LET told == instructions[e]  b == webhooks'[i].body IN
                        /\ b.id = e /\ b.type = "payment" /\ webhooks'[i].status = "PROCESSED"
                        /\ told.object = b.object /\ told.amount = b.amount
                        /\ told.wallet = byProviderId.payment[b.object].command.wallet
    OBVIOUS
  <2>1. PICK i \in DOMAIN webhooks :
               LET told == instructions[e]  b == webhooks[i].body IN
               /\ b.id = e /\ b.type = "payment" /\ webhooks[i].status = "PROCESSED"
               /\ told.object = b.object /\ told.amount = b.amount
               /\ told.wallet = byProviderId.payment[b.object].command.wallet
    BY DEF PayInv, FundedAsReceived
  <2>2. i \in DOMAIN webhooks' /\ webhooks'[i] = webhooks[i]
    BY <1>2, <1>3
  <2> QED
    BY <2>1, <2>2
<1>6. \A i \in DOMAIN webhooks' :
       webhooks'[i].status = "PROCESSED" /\ webhooks'[i].body.type = "payment"
       => webhooks'[i].body.id \in DOMAIN instructions
  <2> SUFFICES ASSUME NEW i \in DOMAIN webhooks', webhooks'[i].status = "PROCESSED", webhooks'[i].body.type = "payment"
               PROVE  webhooks'[i].body.id \in DOMAIN instructions
    OBVIOUS
  <2>1. i \in 1 .. n
    BY <1>2, <1>3, <1>4
  <2> QED
    BY <1>2, <1>3, <2>1 DEF PayInv, FundedAsReceived
<1>7. \A i, j \in DOMAIN webhooks' :
       i < j => /\ webhooks'[i].body.id # webhooks'[j].body.id
                /\ webhooks'[i].status = "PENDING" => webhooks'[j].status = "PENDING"
  <2> SUFFICES ASSUME NEW i \in DOMAIN webhooks', NEW j \in DOMAIN webhooks', i < j
               PROVE  /\ webhooks'[i].body.id # webhooks'[j].body.id
                      /\ webhooks'[i].status = "PENDING" => webhooks'[j].status = "PENDING"
    OBVIOUS
  <2>1. i \in 1 .. n /\ (j \in 1 .. n \/ j = n + 1)
    BY <1>2, <1>3
  <2>2. CASE j \in 1 .. n
    BY <1>2, <1>3, <2>1, <2>2 DEF PayInv, FundedAsReceived
  <2>3. CASE j = n + 1
    BY <1>1, <1>2, <1>3, <1>4, <2>1, <2>3
  <2> QED
    BY <2>1, <2>2, <2>3
<1>8. FundedAsReceived'
  BY <1>1, <1>5, <1>6, <1>7 DEF FundedAsReceived
<1> QED
  BY <1>1, <1>3, <1>8 DEF PayInv, StoredObject, Stored

\* The oldest pending webhook is decided: those before it are, those after it are not.
LEMMA Decided ==
  ASSUME PayInv, NEW i \in DOMAIN webhooks, NextWebhook(i), NEW status \in {"IGNORED", "PROCESSED"}, Decide(i, status)
  PROVE  /\ webhooks' \in Seq(Stored) /\ DOMAIN webhooks' = DOMAIN webhooks
         /\ webhooks'[i].status = status /\ webhooks[i].status = "PENDING"
         /\ \A j \in DOMAIN webhooks : webhooks'[j].body = webhooks[j].body
         /\ \A j \in DOMAIN webhooks : j # i => webhooks'[j].status = webhooks[j].status
         /\ \A a, b \in DOMAIN webhooks' :
              a < b => /\ webhooks'[a].body.id # webhooks'[b].body.id
                       /\ webhooks'[a].status = "PENDING" => webhooks'[b].status = "PENDING"
<1> DEFINE w == [webhooks[i] EXCEPT !.status = status]
<1>1. webhooks' = [webhooks EXCEPT ![i] = w]
  BY DEF Decide
<1>2. webhooks \in Seq(Stored) /\ webhooks[i] \in Stored /\ DOMAIN webhooks = 1 .. Len(webhooks) /\ Len(webhooks) \in Nat
  BY DEF PayInv
<1>3. w \in Stored /\ w.status = status /\ w.body = webhooks[i].body
  BY <1>2 DEF Stored
<1> HIDE DEF w
<1>4. webhooks' \in Seq(Stored) /\ DOMAIN webhooks' = DOMAIN webhooks
  <2>1. webhooks' \in [1 .. Len(webhooks) -> Stored]
    BY <1>1, <1>2, <1>3
  <2> QED
    BY <1>2, <2>1
<1>5. webhooks'[i] = w /\ \A j \in DOMAIN webhooks : j # i => webhooks'[j] = webhooks[j]
  BY <1>1
<1>6. webhooks[i].status = "PENDING" /\ \A j \in 1..(i - 1) : webhooks[j].status # "PENDING"
  BY DEF NextWebhook
<1>7. \A j \in DOMAIN webhooks : webhooks'[j].body = webhooks[j].body /\ (j # i => webhooks'[j].status = webhooks[j].status)
  BY <1>3, <1>5
<1>8. ASSUME NEW a \in DOMAIN webhooks, NEW b \in DOMAIN webhooks, a < b
      PROVE  /\ webhooks'[a].body.id # webhooks'[b].body.id
             /\ webhooks'[a].status = "PENDING" => webhooks'[b].status = "PENDING"
  <2>1. /\ webhooks[a].body.id # webhooks[b].body.id
        /\ webhooks[a].status = "PENDING" => webhooks[b].status = "PENDING"
    BY <1>8 DEF PayInv, FundedAsReceived
  <2>2. a \in Int /\ b \in Int /\ i \in Int /\ 1 <= a
    BY <1>2
  <2>3. webhooks'[a].status = "PENDING" => webhooks'[b].status = "PENDING"
    <3> SUFFICES ASSUME webhooks'[a].status = "PENDING" PROVE webhooks'[b].status = "PENDING"
      OBVIOUS
    <3>1. a # i
      BY <1>3, <1>5
    <3>2. webhooks[a].status = "PENDING"
      BY <1>7, <3>1
    <3>3. ~(a < i)
      BY <1>6, <2>2, <3>2
    <3>4. b # i
      BY <1>8, <2>2, <3>3
    <3> QED
      BY <1>7, <2>1, <3>2, <3>4
  <2> QED
    BY <1>7, <2>1, <2>3
<1> QED
  BY <1>3, <1>4, <1>5, <1>6, <1>7, <1>8

LEMMA PayIgnores ==
  ASSUME PayInv, NEW i \in DOMAIN webhooks, ignoreWebhook(i)
  PROVE  PayInv'
<1>1. NextWebhook(i) /\ Decide(i, "IGNORED") /\ byProviderId' = byProviderId /\ instructions' = instructions
  BY DEF ignoreWebhook
<1>2. /\ webhooks' \in Seq(Stored) /\ DOMAIN webhooks' = DOMAIN webhooks
      /\ webhooks'[i].status = "IGNORED" /\ webhooks[i].status = "PENDING"
      /\ \A j \in DOMAIN webhooks : webhooks'[j].body = webhooks[j].body
      /\ \A j \in DOMAIN webhooks : j # i => webhooks'[j].status = webhooks[j].status
      /\ \A a, b \in DOMAIN webhooks' :
              a < b => /\ webhooks'[a].body.id # webhooks'[b].body.id
                       /\ webhooks'[a].status = "PENDING" => webhooks'[b].status = "PENDING"
  BY ONLY <1>1, PayInv, i \in DOMAIN webhooks, Decided
<1>3. \A e \in DOMAIN instructions :
       \E k \in DOMAIN webhooks' :
         LET told == instructions[e]  b == webhooks'[k].body IN
         /\ b.id = e /\ b.type = "payment" /\ webhooks'[k].status = "PROCESSED"
         /\ told.object = b.object /\ told.amount = b.amount
         /\ told.wallet = byProviderId.payment[b.object].command.wallet
  <2> SUFFICES ASSUME NEW e \in DOMAIN instructions
               PROVE  \E k \in DOMAIN webhooks' :
                        LET told == instructions[e]  b == webhooks'[k].body IN
                        /\ b.id = e /\ b.type = "payment" /\ webhooks'[k].status = "PROCESSED"
                        /\ told.object = b.object /\ told.amount = b.amount
                        /\ told.wallet = byProviderId.payment[b.object].command.wallet
    OBVIOUS
  <2>1. PICK k \in DOMAIN webhooks :
               LET told == instructions[e]  b == webhooks[k].body IN
               /\ b.id = e /\ b.type = "payment" /\ webhooks[k].status = "PROCESSED"
               /\ told.object = b.object /\ told.amount = b.amount
               /\ told.wallet = byProviderId.payment[b.object].command.wallet
    BY DEF PayInv, FundedAsReceived
  <2>2. k # i
    BY <1>2, <2>1
  <2>3. k \in DOMAIN webhooks' /\ webhooks'[k].body = webhooks[k].body /\ webhooks'[k].status = webhooks[k].status
    BY <1>2, <2>2
  <2> QED
    BY <2>1, <2>3
<1>4. \A k \in DOMAIN webhooks' :
       webhooks'[k].status = "PROCESSED" /\ webhooks'[k].body.type = "payment"
       => webhooks'[k].body.id \in DOMAIN instructions
  BY <1>2 DEF PayInv, FundedAsReceived
<1>5. FundedAsReceived'
  BY <1>1, <1>2, <1>3, <1>4 DEF FundedAsReceived
<1> QED
  BY <1>1, <1>2, <1>5 DEF PayInv, StoredObject, Stored

LEMMA PayProcesses ==
  ASSUME PayInv, NEW i \in DOMAIN webhooks, processWebhook(i)
  PROVE  PayInv'
<1> DEFINE body == webhooks[i].body
           kind == body.type
           record == byProviderId[kind][body.object]
           updated == [record EXCEPT !.status = IF kind = "payment" THEN "SUCCEEDED" ELSE body.status]
           told == [object |-> body.object, wallet |-> record.command.wallet, amount |-> record.command.amount]
<1>1. /\ NextWebhook(i) /\ Concerns(body) /\ Reconciles(body, record) /\ Decide(i, "PROCESSED")
      /\ byProviderId' = [byProviderId EXCEPT ![kind] = Put(byProviderId[kind], body.object, updated)]
      /\ instructions' = IF kind = "payment" THEN Put(instructions, body.id, told) ELSE instructions
  BY DEF processWebhook
<1>2. /\ webhooks' \in Seq(Stored) /\ DOMAIN webhooks' = DOMAIN webhooks
      /\ webhooks'[i].status = "PROCESSED" /\ webhooks[i].status = "PENDING"
      /\ \A j \in DOMAIN webhooks : webhooks'[j].body = webhooks[j].body
      /\ \A j \in DOMAIN webhooks : j # i => webhooks'[j].status = webhooks[j].status
      /\ \A a, b \in DOMAIN webhooks' :
              a < b => /\ webhooks'[a].body.id # webhooks'[b].body.id
                       /\ webhooks'[a].status = "PENDING" => webhooks'[b].status = "PENDING"
  BY ONLY <1>1, PayInv, i \in DOMAIN webhooks, Decided
<1>3. kind \in Kinds /\ body.object \in DOMAIN byProviderId[kind] /\ DOMAIN byProviderId = Kinds
  BY <1>1 DEF Concerns, PayInv
<1>4. StoredObject(record)
  BY <1>3 DEF PayInv
<1>5. StoredObject(updated) /\ updated.command = record.command
  <2> HIDE DEF record, body
  <2> QED
    BY <1>4 DEF StoredObject
<1> HIDE DEF record, updated, body, kind
<1>6. ASSUME NEW k \in Kinds
      PROVE  /\ DOMAIN byProviderId'[k] = DOMAIN byProviderId[k]
             /\ \A o \in DOMAIN byProviderId[k] :
                  /\ byProviderId'[k][o] = byProviderId[k][o] \/ byProviderId'[k][o] = updated
                  /\ byProviderId'[k][o].command = byProviderId[k][o].command
  <2>1. CASE k # kind
    <3>1. byProviderId'[k] = byProviderId[k]
      BY <1>1, <1>3, <2>1
    <3> QED
      BY <3>1
  <2>2. CASE k = kind
    <3>1. byProviderId'[k] = Put(byProviderId[k], body.object, updated)
      BY <1>1, <1>3, <2>2
    <3>2. record = byProviderId[k][body.object]
      BY <2>2 DEF record
    <3> QED
      BY <1>3, <1>5, <2>2, <3>1, <3>2 DEF Put
  <2> QED
    BY <2>1, <2>2
<1>7. DOMAIN byProviderId' = Kinds /\ "payment" \in Kinds
  BY <1>1, <1>3 DEF Kinds
<1>8. ASSUME NEW k \in Kinds, NEW o \in DOMAIN byProviderId'[k] PROVE StoredObject(byProviderId'[k][o])
  <2>1. o \in DOMAIN byProviderId[k] /\ StoredObject(byProviderId[k][o])
    BY <1>6 DEF PayInv
  <2> QED
    BY <1>5, <1>6, <2>1
\* The earlier instructions stand.
<1>9. ASSUME NEW e \in DOMAIN instructions
      PROVE  /\ instructions[e].object \in DOMAIN byProviderId'["payment"]
             /\ \E k \in DOMAIN webhooks' :
                  /\ webhooks'[k].body.id = e /\ webhooks'[k].body.type = "payment" /\ webhooks'[k].status = "PROCESSED"
                  /\ instructions[e].object = webhooks'[k].body.object /\ instructions[e].amount = webhooks'[k].body.amount
                  /\ instructions[e].wallet = byProviderId'["payment"][webhooks'[k].body.object].command.wallet
  <2>1. PICK k \in DOMAIN webhooks :
               /\ webhooks[k].body.id = e /\ webhooks[k].body.type = "payment" /\ webhooks[k].status = "PROCESSED"
               /\ instructions[e].object = webhooks[k].body.object /\ instructions[e].amount = webhooks[k].body.amount
               /\ instructions[e].wallet = byProviderId["payment"][webhooks[k].body.object].command.wallet
    BY DEF PayInv, FundedAsReceived
  <2>2. k # i
    BY <1>2, <2>1
  <2>3. k \in DOMAIN webhooks' /\ webhooks'[k].body = webhooks[k].body /\ webhooks'[k].status = webhooks[k].status
    BY <1>2, <2>2
  <2>4. instructions[e].object \in DOMAIN byProviderId["payment"]
    BY DEF PayInv
  <2>5. /\ instructions[e].object \in DOMAIN byProviderId'["payment"]
        /\ byProviderId'["payment"][instructions[e].object].command = byProviderId["payment"][instructions[e].object].command
    BY <1>6, <1>7, <2>4
  <2> QED
    BY <2>1, <2>3, <2>5
\* The new one is of this webhook, with the wallet and the amount of its command.
<1>10. ASSUME kind = "payment"
       PROVE  /\ DOMAIN instructions' = DOMAIN instructions \cup {body.id} /\ instructions'[body.id] = told
              /\ \A e \in DOMAIN instructions : e # body.id => instructions'[e] = instructions[e]
  BY <1>1, <1>10 DEF Put
<1>11. ASSUME kind = "payment"
       PROVE  /\ told.object \in DOMAIN byProviderId'["payment"] /\ told.object = body.object
              /\ told.amount = body.amount
              /\ told.wallet = byProviderId'["payment"][body.object].command.wallet
  <2>1. record = byProviderId["payment"][body.object] /\ body.object \in DOMAIN byProviderId["payment"]
    BY <1>3, <1>11 DEF record
  <2>2. body.amount = record.command.amount
    BY <1>1, <1>11 DEF Reconciles, kind
  <2>3. byProviderId'["payment"][body.object].command = record.command
    BY <1>6, <1>7, <2>1
  <2> QED
    BY <1>6, <1>7, <2>1, <2>2, <2>3
<1>12. webhooks'[i].body = body /\ body.type = kind /\ i \in DOMAIN webhooks'
  BY <1>2 DEF body, kind
<1> HIDE DEF told
<1>13. ASSUME NEW e \in DOMAIN instructions'
       PROVE  /\ instructions'[e].object \in DOMAIN byProviderId'["payment"]
              /\ \E k \in DOMAIN webhooks' :
                  /\ webhooks'[k].body.id = e /\ webhooks'[k].body.type = "payment" /\ webhooks'[k].status = "PROCESSED"
                  /\ instructions'[e].object = webhooks'[k].body.object /\ instructions'[e].amount = webhooks'[k].body.amount
                  /\ instructions'[e].wallet = byProviderId'["payment"][webhooks'[k].body.object].command.wallet
  <2>1. CASE kind = "payment" /\ e = body.id
    BY <1>2, <1>10, <1>11, <1>12, <2>1
  <2>2. CASE ~(kind = "payment" /\ e = body.id)
    <3>1. e \in DOMAIN instructions /\ instructions'[e] = instructions[e]
      BY <1>1, <1>10, <2>2
    <3> QED
      BY <1>9, <3>1
  <2> QED
    BY <2>1, <2>2
<1>14. \A k \in DOMAIN webhooks' :
         webhooks'[k].status = "PROCESSED" /\ webhooks'[k].body.type = "payment"
         => webhooks'[k].body.id \in DOMAIN instructions'
  <2> SUFFICES ASSUME NEW k \in DOMAIN webhooks', webhooks'[k].status = "PROCESSED", webhooks'[k].body.type = "payment"
               PROVE  webhooks'[k].body.id \in DOMAIN instructions'
    OBVIOUS
  <2>1. CASE k = i
    BY <1>10, <1>12, <2>1
  <2>2. CASE k # i
    <3>1. webhooks'[k].body.id \in DOMAIN instructions
      BY <1>2, <2>2 DEF PayInv, FundedAsReceived
    <3> QED
      BY <1>1, <1>10, <3>1
  <2> QED
    BY <2>1, <2>2
<1>15. FundedAsReceived'
  BY <1>2, <1>13, <1>14 DEF FundedAsReceived
<1>16. (\A k \in Kinds : \A o \in DOMAIN byProviderId[k] : StoredObject(byProviderId[k][o]))'
  BY <1>8 DEF StoredObject
<1> QED
  BY <1>2, <1>7, <1>13, <1>15, <1>16 DEF PayInv, Stored

LEMMA PayStep == PayInv /\ [PaymentsNext]_paymentVars => PayInv'
<1> SUFFICES ASSUME PayInv, [PaymentsNext]_paymentVars PROVE PayInv'
  OBVIOUS
<1>1. ASSUME UNCHANGED <<byProviderId, webhooks, instructions>> PROVE PayInv'
  BY <1>1 DEF PayInv, FundedAsReceived, StoredObject, Stored
<1>2. ASSUME NEW c \in PaymentCall, NEW command \in Command, createPayment(c, command) PROVE PayInv'
  BY <1>1, <1>2 DEF createPayment
<1>3. ASSUME NEW c \in PaymentCall, gatewayFails(c) PROVE PayInv'
  BY <1>1, <1>3 DEF gatewayFails
<1>4. CASE UNCHANGED paymentVars
  BY <1>1, <1>4 DEF paymentVars
<1> QED
  BY <1>2, <1>3, <1>4, PayAnswers, PayIngests, PayIgnores, PayProcesses DEF PaymentsNext

-----------------------------------------------------------------------------
(***************************************************************************)
(* Invoices: what is left to pay, and what the export is in arrears with.  *)
(***************************************************************************)
\* The effective item with the highest version exists.
LEMMA ItemSelected ==
  ASSUME NEW at, Effective(at) # {}
  PROVE  selectCatalogueItem(at) \in CatalogueItem
<1> DEFINE E == Effective(at)
           above(i) == {j \in E : j.version > i.version} \cup {i}
           T == {above(i) : i \in E}
<1>1. IsFiniteSet(E) /\ E \subseteq CatalogueItem /\ \A i \in E : i.version \in Int
  BY InvoicingAssumption, FS_Subset DEF Effective
<1>2. T # {} /\ \A t \in T : t \subseteq E
  OBVIOUS
<1>3. PICK m \in T : \A t \in T : t \subseteq m => t = m
  <2> HIDE DEF E, T
  <2>1. T \in SUBSET SUBSET E
    BY <1>2
  <2> QED
    BY ONLY <1>1, <1>2, <2>1, LeastSubset
<1>4. PICK i \in E : m = above(i)
  BY <1>3
<1>5. ASSUME NEW j \in E, j.version > i.version
      PROVE  FALSE
  <2>1. above(j) \in T /\ above(j) \subseteq above(i) /\ i \notin above(j) /\ i \in above(i)
    BY <1>1, <1>5
  <2> QED
    BY <1>3, <1>4, <2>1
<1>6. \A j \in E : i.version >= j.version
  BY <1>1, <1>5
<1>7. selectCatalogueItem(at) \in E
  BY <1>6, Zenon DEF selectCatalogueItem
<1> QED
  BY <1>1, <1>7

LEMMA ChargesCount ==
  ASSUME NEW price \in Nat, NEW quantity \in Nat, NEW plus
  PROVE  LET lines == createProtectionChargeLines(price, quantity, plus)
         IN Total([c \in DOMAIN lines |-> lines[c]]) \in Nat
<1> DEFINE lines == createProtectionChargeLines(price, quantity, plus)
           f == [c \in DOMAIN lines |-> lines[c]]
<1>1. DOMAIN lines = DOMAIN ComponentRate /\ IsFiniteSet(DOMAIN ComponentRate)
  BY InvoicingAssumption DEF createProtectionChargeLines
<1>2. ASSUME NEW c \in DOMAIN ComponentRate PROVE lines[c] \in Nat
  <2> DEFINE r == ComponentRate[c]
             n == price * quantity * r + ChargeScale \div 2
  <2>1. r \in Nat /\ ChargeScale \in Nat \ {0}
    BY InvoicingAssumption
  <2>2. price * quantity \in Nat
    OBVIOUS
  <2>3. (price * quantity) * r \in Nat
    <3> DEFINE pq == price * quantity
    <3>1. pq \in Nat
      BY <2>2
    <3> HIDE DEF pq, r
    <3>2. pq * r \in Nat
      BY <2>1, <3>1
    <3> QED
      BY <3>2 DEF pq
  <2>4. ChargeScale \div 2 \in Nat
    BY <2>1
  <2>5. n \in Nat
    BY <2>3, <2>4
  <2> HIDE DEF n
  <2>6. n \div ChargeScale \in Nat
    BY <2>1, <2>5, Quotient
  <2>7. charge(price, quantity, r) \in Nat
    BY <2>6 DEF charge, n
  <2> HIDE DEF r
  <2> QED
    BY <2>7 DEF createProtectionChargeLines, r
<1> HIDE DEF lines
<1>3. DOMAIN f = DOMAIN ComponentRate /\ \A c \in DOMAIN f : f[c] \in Nat
  BY <1>1, <1>2
<1> HIDE DEF f
<1>4. Total(f) \in Nat
  BY <1>1, <1>3, TotalNat
<1> QED
  BY <1>4 DEF f, lines

\* Payments only come in whole amounts; breaks and attempts are counted together.
InvoicedSound ==
  invoice # NoInvoice =>
    /\ invoice = [status |-> invoice.status, paid |-> invoice.paid, due |-> invoice.due, total |-> invoice.total]
    /\ invoice.paid \in Nat /\ invoice.total \in Nat

ExportSound ==
  /\ projection = [status |-> projection.status, attempts |-> projection.attempts]
  /\ projection.attempts \in Nat
  /\ projection.status \in {"SENT", "ACKNOWLEDGED"} => projection.attempts > 0

InvoiceInv == InvoicedSound /\ ExportSound /\ InvoicesAddUp

LEMMA InvoiceInit == InvoicingInit => InvoiceInv
  BY InvoicingAssumption DEF InvoicingInit, InvoiceInv, InvoicedSound, ExportSound, InvoicesAddUp

\* The part of InvoicesAddUp that is about the invoice, of one that there is.
PaidUp(i) ==
  /\ i = [status |-> i.status, paid |-> i.paid, due |-> i.due, total |-> i.total]
  /\ i.paid \in Nat /\ i.total \in Nat
  /\ i.status = "PAID" <=> i.paid > 0 /\ i.paid = i.total
  /\ i.status = "CREDITED" => i.paid = 0
  /\ i.paid <= i.total

LEMMA InvoiceMoves ==
  ASSUME InvoiceInv, UNCHANGED <<mapping, projection, exportBreaks>>, PaidUp(invoice')
  PROVE  InvoiceInv'
<1>1. InvoicedSound'
  BY DEF InvoicedSound, PaidUp
<1>2. ExportSound'
  BY DEF InvoiceInv, ExportSound
<1>3. InvoicesAddUp'
  BY DEF InvoiceInv, InvoicesAddUp, PaidUp
<1> QED
  BY <1>1, <1>2, <1>3 DEF InvoiceInv

LEMMA InvoiceStep == InvoiceInv /\ [InvoicingNext]_invoiceVars => InvoiceInv'
<1> SUFFICES ASSUME InvoiceInv, [InvoicingNext]_invoiceVars PROVE InvoiceInv'
  OBVIOUS
<1>0. invoice # NoInvoice => PaidUp(invoice)
  BY DEF InvoiceInv, InvoicedSound, InvoicesAddUp, PaidUp
<1>1. ASSUME NEW at \in BillTime, NEW q \in Quantity, NEW p \in PriceLevel, NEW plus \in BOOLEAN,
             issueInvoice(at, q, p, plus)
      PROVE  InvoiceInv'
  <2> DEFINE lines == createProtectionChargeLines(p, q, plus)
             charges == Total([c \in DOMAIN lines |-> lines[c]])
             total == selectCatalogueItem(at).amount * q + charges
  <2>1. /\ Effective(at) # {} /\ UNCHANGED <<mapping, projection, exportBreaks>>
        /\ invoice' = [status |-> "ISSUED", paid |-> 0, due |-> at + CreditDays, total |-> total]
    BY <1>1 DEF issueInvoice
  <2>2. q \in Nat /\ p \in Nat
    BY InvoicingAssumption
  <2>3. charges \in Nat
    BY <2>2, ChargesCount
  <2>4. selectCatalogueItem(at).amount \in Nat
    BY <2>1, ItemSelected, InvoicingAssumption
  <2> HIDE DEF charges
  <2>5. total \in Nat
    BY <2>2, <2>3, <2>4
  <2> HIDE DEF total
  <2>6. PaidUp(invoice')
    BY <2>1, <2>5 DEF PaidUp
  <2> QED
    BY <2>1, <2>6, InvoiceMoves
<1>2. ASSUME NEW amount \in Instalment, applyPayment(amount) PROVE InvoiceInv'
  <2> DEFINE paid == invoice.paid + amount
  <2>1. /\ PaidUp(invoice) /\ amount > 0 /\ paid <= invoice.total /\ amount \in Int
        /\ UNCHANGED <<mapping, projection, exportBreaks>>
        /\ invoice' = [invoice EXCEPT !.paid = paid,
                                      !.status = IF Covered(paid, invoice.total) THEN "PAID" ELSE "PART_PAID"]
    BY <1>0, <1>2, InvoicingAssumption DEF applyPayment
  <2>2. paid \in Nat /\ paid > 0
    BY <2>1 DEF PaidUp
  <2> HIDE DEF paid
  <2>3. invoice' = [status |-> IF paid = invoice.total THEN "PAID" ELSE "PART_PAID", paid |-> paid,
                    due |-> invoice.due, total |-> invoice.total]
    BY <2>1 DEF PaidUp, Covered
  <2> DEFINE t == invoice.total
             st == IF paid = t THEN "PAID" ELSE "PART_PAID"
  <2>4. t \in Nat /\ paid <= t
    BY <2>1 DEF PaidUp
  <2>5. (st = "PAID" <=> paid > 0 /\ paid = t) /\ st # "CREDITED"
    BY <2>2
  <2> HIDE DEF t, st
  <2>6. invoice' = [status |-> st, paid |-> paid, due |-> invoice.due, total |-> t]
    BY <2>3 DEF t, st
  <2>7. PaidUp(invoice')
    BY <2>2, <2>4, <2>5, <2>6 DEF PaidUp
  <2> QED
    BY <2>1, <2>7, InvoiceMoves
<1>3. ASSUME UNCHANGED <<mapping, projection, exportBreaks>>, invoice # NoInvoice,
             NEW s \in {"OVERDUE", "COLLECTIONS", "CREDITED"}, invoice' = [invoice EXCEPT !.status = s],
             ~(invoice.paid > 0 /\ invoice.paid = invoice.total), s = "CREDITED" => invoice.paid = 0
      PROVE  InvoiceInv'
  <2>1. invoice' = [status |-> s, paid |-> invoice.paid, due |-> invoice.due, total |-> invoice.total]
    BY <1>0, <1>3 DEF PaidUp
  <2>2. PaidUp(invoice')
    BY <1>0, <1>3, <2>1 DEF PaidUp
  <2> QED
    BY <1>3, <2>2, InvoiceMoves
<1>4. ASSUME NEW at \in BillTime, ageInvoice(at) PROVE InvoiceInv'
  <2>1. ~(invoice.paid > 0 /\ invoice.paid = invoice.total)
    BY <1>0, <1>4 DEF ageInvoice, PaidUp
  <2> QED
    BY <1>3, <1>4, <2>1 DEF ageInvoice
<1>5. ASSUME sendToCollections PROVE InvoiceInv'
  <2>1. ~(invoice.paid > 0 /\ invoice.paid = invoice.total)
    BY <1>0, <1>5 DEF sendToCollections, PaidUp
  <2> QED
    BY <1>3, <1>5, <2>1 DEF sendToCollections
<1>6. ASSUME creditInvoice PROVE InvoiceInv'
  BY <1>3, <1>6 DEF creditInvoice
<1>7. ASSUME NEW checker \in BillingStaff, approveAccountingMapping(checker) PROVE InvoiceInv'
  <2>1. checker # NoOne /\ checker # MappingMaker
    BY <1>7, InvoicingAssumption DEF approveAccountingMapping
  <2> QED
    BY <1>7, <2>1 DEF approveAccountingMapping, InvoiceInv, InvoicedSound, ExportSound, InvoicesAddUp
\* Of the export: what it was, what is done, what it is.
<1> DEFINE InStep(s, n, breaks) ==
             CASE s \in {"NONE", "PENDING"} -> breaks = {} /\ n = 0
               [] s = "FAILED" -> breaks = 1..n
               [] s \in {"SENT", "ACKNOWLEDGED"} -> breaks = 1..(n - 1)
               [] OTHER -> breaks # {} /\ breaks \subseteq 1..n
<1>8. ASSUME UNCHANGED <<invoice, mapping>>, NEW s, NEW n \in Nat,
             projection' = [status |-> s, attempts |-> n], InStep(s, n, exportBreaks'),
             s \in {"SENT", "ACKNOWLEDGED"} => n > 0
      PROVE  InvoiceInv'
  <2>1. ExportSound'
    BY <1>8 DEF ExportSound
  <2>2. InvoicesAddUp'
    BY <1>8 DEF InvoiceInv, InvoicesAddUp
  <2> QED
    BY <1>8, <2>1, <2>2 DEF InvoiceInv, InvoicedSound
<1>9. /\ projection = [status |-> projection.status, attempts |-> projection.attempts]
      /\ projection.attempts \in Nat /\ InStep(projection.status, projection.attempts, exportBreaks)
      /\ projection.status \in {"SENT", "ACKNOWLEDGED"} => projection.attempts > 0
  BY DEF InvoiceInv, ExportSound, InvoicesAddUp
<1>10. ASSUME createXeroProjection PROVE InvoiceInv'
  <2>1. InStep("PENDING", 0, exportBreaks')
    BY <1>9, <1>10 DEF createXeroProjection
  <2> HIDE DEF InStep
  <2> QED
    BY <1>8, <1>10, <2>1 DEF createXeroProjection
<1>11. ASSUME sendXeroProjection PROVE InvoiceInv'
  <2> DEFINE n == projection.attempts + 1
  <2>1. n \in Nat /\ n > 0 /\ n - 1 = projection.attempts
    BY <1>9
  <2>2. exportBreaks' = exportBreaks /\ projection.status \in {"PENDING", "FAILED"} /\ projection' = [status |-> "SENT", attempts |-> n]
    BY <1>11 DEF sendXeroProjection
  <2>3. exportBreaks = 1..(n - 1)
    <3>1. CASE projection.status = "PENDING"
      <4>1. exportBreaks = {} /\ projection.attempts = 0
        BY <1>9, <3>1
      <4> QED
        BY <2>1, <4>1
    <3>2. CASE projection.status = "FAILED"
      <4>1. exportBreaks = 1 .. projection.attempts
        BY <1>9, <3>2
      <4> QED
        BY <2>1, <4>1
    <3> QED
      BY <2>2, <3>1, <3>2
  <2> HIDE DEF n
  <2>4. InStep("SENT", n, exportBreaks')
    BY <2>2, <2>3
  <2> HIDE DEF InStep
  <2> QED
    BY <1>8, <1>11, <2>1, <2>2, <2>4 DEF sendXeroProjection
<1>12. ASSUME acknowledgeXeroProjection PROVE InvoiceInv'
  <2>1. projection' = [status |-> "ACKNOWLEDGED", attempts |-> projection.attempts]
    BY <1>9, <1>12 DEF acknowledgeXeroProjection
  <2>2. InStep("ACKNOWLEDGED", projection.attempts, exportBreaks')
    BY <1>9, <1>12 DEF acknowledgeXeroProjection
  <2> HIDE DEF InStep
  <2> QED
    BY <1>8, <1>9, <1>12, <2>1, <2>2 DEF acknowledgeXeroProjection
<1>13. ASSUME failXeroProjection PROVE InvoiceInv'
  <2> DEFINE n == projection.attempts
  <2>1. projection' = [status |-> "FAILED", attempts |-> n]
    BY <1>9, <1>13 DEF failXeroProjection
  <2>2. exportBreaks = 1 .. (n - 1) /\ exportBreaks' = exportBreaks \cup {n} /\ n \in Nat /\ n > 0
    BY <1>9, <1>13 DEF failXeroProjection
  <2> HIDE DEF n
  <2>3. exportBreaks' = 1 .. n
    BY <2>2
  <2>4. InStep("FAILED", n, exportBreaks')
    BY <2>3
  <2> USE DEF n
  <2> HIDE DEF InStep
  <2> QED
    BY <1>8, <1>9, <1>13, <2>1, <2>4 DEF failXeroProjection
<1>14. ASSUME blockXeroProjection PROVE InvoiceInv'
  <2> DEFINE n == projection.attempts
  <2>1. projection' = [status |-> "BLOCKED", attempts |-> n] /\ exportBreaks' = exportBreaks /\ exportBreaks # {}
    BY <1>9, <1>14 DEF blockXeroProjection
  <2>2. exportBreaks \subseteq 1 .. n
    BY <1>9, <2>1
  <2>3. InStep("BLOCKED", n, exportBreaks')
    BY <2>1, <2>2
  <2> HIDE DEF InStep
  <2> QED
    BY <1>8, <1>9, <1>14, <2>1, <2>3 DEF blockXeroProjection
<1>15. CASE UNCHANGED invoiceVars
  BY <1>15 DEF invoiceVars, InvoiceInv, InvoicedSound, ExportSound, InvoicesAddUp
<1> QED
  BY <1>1, <1>2, <1>4, <1>5, <1>6, <1>7, <1>10, <1>11, <1>12, <1>13, <1>14, <1>15 DEF InvoicingNext

-----------------------------------------------------------------------------
(***************************************************************************)
(* Capital: the pool, the forecast, the programme and the holds.           *)
(***************************************************************************)
\* The nearest whole number to a multiple, and to what is at most one.
LEMMA RoundedShare ==
  ASSUME NEW a \in Nat, NEW b \in Nat, NEW u \in Nat \ {0}, b <= u
  PROVE  LET r == (2 * a * b + u) \div (2 * u) IN
           r \in Nat /\ r <= a /\ (b = u => r = a)
<1> DEFINE x == a * b
           y == a * u
           n == 2 * x + u
           d == 2 * u
           r == n \div d
           z == r * d
<1>1. x \in Nat /\ y \in Nat /\ x <= y
  <2>1. b * a <= u * a
    BY TimesMonotone
  <2> QED
    BY <2>1
<1>2. 2 * a * b + u = n
  OBVIOUS
<1>3. a * d = 2 * y
  OBVIOUS
<1>4. b = u => x = y
  OBVIOUS
<1> HIDE DEF x, y
<1>5. n \in Nat /\ d \in Nat \ {0}
  BY <1>1
<1>6. r \in Nat /\ z <= n /\ n < z + d
  <2> HIDE DEF n, d
  <2> QED
    BY <1>5, Quotient
<1>7. z \in Nat
  <2> HIDE DEF n, d
  <2> QED
    BY <1>5, <1>6
<1>8. r <= a
  <2>1. z < a * d + d
    <3> HIDE DEF z
    <3> QED
      BY <1>1, <1>3, <1>6, <1>7
  <2> HIDE DEF r, d
  <2> QED
    BY <1>5, <1>6, <2>1, TimesCancel DEF z
<1>9. b = u => a <= r
  <2> SUFFICES ASSUME b = u PROVE a <= r
    OBVIOUS
  <2>1. a * d < z + d
    <3> HIDE DEF z
    <3> QED
      BY <1>1, <1>3, <1>4, <1>6, <1>7
  <2> HIDE DEF r, d
  <2> QED
    BY <1>5, <1>6, <2>1, TimesCancel DEF z
<1> HIDE DEF r, n, d
<1> QED
  BY <1>2, <1>6, <1>8, <1>9 DEF r, d

LEMMA UnchangedAmount ==
  ASSUME NEW amount \in Nat
  PROVE  adjusted(amount, 0) = amount
<1>1. BasisUnit \in Nat \ {0} /\ BasisUnit + 0 = BasisUnit
  BY RiskCapitalAssumption
<1>2. (2 * amount * BasisUnit + BasisUnit) \div (2 * BasisUnit) = amount
  BY <1>1, RoundedShare
<1> QED
  BY <1>1, <1>2 DEF adjusted

\* The sum over some records is that over all of them with nothing for the others.
LEMMA TotalPart ==
  ASSUME NEW S, IsFiniteSet(S), \A x \in S : x.amount \in Nat, NEW T \in SUBSET S
  PROVE  /\ Total([x \in T |-> x.amount]) = Total([x \in S |-> IF x \in T THEN x.amount ELSE 0])
         /\ Total([x \in T |-> x.amount]) \in Nat
<1> DEFINE f == [x \in S |-> IF x \in T THEN x.amount ELSE 0]
           g == [x \in T |-> x.amount]
<1>1. DOMAIN f = S /\ (\A x \in S : f[x] \in Int) /\ (\A x \in S \ T : f[x] = 0)
  OBVIOUS
<1>2. Restrict(f, T) = g
  BY DEF Restrict
<1>3. IsFiniteSet(DOMAIN g) /\ \A x \in DOMAIN g : g[x] \in Nat
  BY FS_Subset
<1> HIDE DEF f, g
<1>4. Total(f) = Total(Restrict(f, T))
  BY <1>1, TotalWhere
<1>5. Total(g) \in Nat
  BY <1>3, TotalNat
<1> QED
  BY <1>2, <1>4, <1>5 DEF f, g

\* One part less another, as a sum over the whole.
LEMMA TotalLess ==
  ASSUME NEW S, IsFiniteSet(S), NEW f, NEW h, NEW e, DOMAIN f = S, DOMAIN h = S, DOMAIN e = S,
         \A x \in S : f[x] \in Int /\ h[x] \in Int /\ e[x] \in Int /\ e[x] = f[x] - h[x]
  PROVE  Total(f) \in Int /\ Total(h) \in Int /\ Total(e) \in Int /\ Total(e) = Total(f) - Total(h)
<1>1. Total(f) = Total(e) + Total(h)
  <2>1. \A x \in DOMAIN e : e[x] \in Int /\ h[x] \in Int /\ f[x] = e[x] + h[x]
    OBVIOUS
  <2> QED
    BY ONLY IsFiniteSet(S), DOMAIN f = S, DOMAIN h = S, DOMAIN e = S, <2>1, TotalPlus
<1>2. Total(f) \in Int /\ Total(h) \in Int /\ Total(e) \in Int
  BY TotalTakes
<1> QED
  BY <1>1, <1>2

LEMMA TotalMore ==
  ASSUME NEW S, IsFiniteSet(S), NEW f, NEW h, NEW e, DOMAIN f = S, DOMAIN h = S, DOMAIN e = S,
         \A x \in S : f[x] \in Int /\ h[x] \in Int /\ e[x] \in Int /\ e[x] = f[x] + h[x]
  PROVE  Total(f) \in Int /\ Total(h) \in Int /\ Total(e) \in Int /\ Total(e) = Total(f) + Total(h)
<1>1. Total(e) = Total(f) + Total(h)
  <2>1. \A x \in DOMAIN f : f[x] \in Int /\ h[x] \in Int /\ e[x] = f[x] + h[x]
    OBVIOUS
  <2> QED
    BY ONLY IsFiniteSet(S), DOMAIN f = S, DOMAIN h = S, DOMAIN e = S, <2>1, TotalPlus
<1>2. Total(f) \in Int /\ Total(h) \in Int /\ Total(e) \in Int
  BY TotalTakes
<1> QED
  BY <1>1, <1>2

\* The period added up by category, and movement by movement.
LEMMA PeriodAddsUp ==
  ASSUME NEW movements \in SUBSET Movement, NEW t, t = [c \in inflows \cup outflows |-> totalFor(movements, c)]
  PROVE  LET net == Total([m \in movements |-> IF m.category \in inflows THEN m.amount ELSE -m.amount]) IN
           /\ net \in Int /\ Projected(t, Unchanging) = net
<1> DEFINE of(m, c) == IF m.category = c THEN m.amount ELSE 0
           s1 == [m \in movements |-> of(m, "COST_FUNDING")]
           s2 == [m \in movements |-> of(m, "COST_FUNDING") + of(m, "BUFFER_CONTRIBUTION")]
           s3 == [m \in movements |-> of(m, "COST_FUNDING") + of(m, "BUFFER_CONTRIBUTION") + of(m, "HEDGE_RECOVERY")]
           s4 == [m \in movements |-> IF m.category \in inflows THEN m.amount ELSE 0]
           s5 == [m \in movements |-> s4[m] - of(m, "CLAIM_UTILISATION")]
           s6 == [m \in movements |-> s4[m] - of(m, "CLAIM_UTILISATION") - of(m, "HEDGE_PREMIUM")]
           s7 == [m \in movements |-> IF m.category \in inflows THEN m.amount ELSE -m.amount]
           p(c) == [m \in movements |-> of(m, c)]
<1>1. IsFiniteSet(movements) /\ \A m \in movements : m.amount \in Nat /\ m.category \in inflows \cup outflows
  BY RiskCapitalAssumption, FS_Subset
<1>0. IsFiniteSet(movements)
  BY <1>1
<1>2. ASSUME NEW c PROVE Total(p(c)) = totalFor(movements, c) /\ totalFor(movements, c) \in Nat
  <2> DEFINE T == {x \in movements : x.category = c}
  <2>1. T \in SUBSET movements /\ p(c) = [m \in movements |-> IF m \in T THEN m.amount ELSE 0]
    OBVIOUS
  <2>2. totalFor(movements, c) = Total([m \in T |-> m.amount])
    BY DEF totalFor
  <2> HIDE DEF T, p
  <2> QED
    BY <1>1, <2>1, <2>2, TotalPart
<1>3. Total(s2) = Total(s1) + Total(p("BUFFER_CONTRIBUTION")) /\ Total(s1) \in Int /\ Total(s2) \in Int
  <2> DEFINE q == p("BUFFER_CONTRIBUTION")
  <2>0. DOMAIN s1 = movements /\ DOMAIN s2 = movements /\ DOMAIN q = movements
    OBVIOUS
  <2>1. \A m \in movements : s1[m] \in Int /\ q[m] \in Int /\ s2[m] \in Int /\ s2[m] = s1[m] + q[m]
    BY <1>1
  <2> HIDE DEF s1, s2, q
  <2>2. Total(s1) \in Int /\ Total(s2) \in Int /\ Total(s2) = Total(s1) + Total(q)
    BY ONLY <1>0, <2>0, <2>1, TotalMore
  <2> QED
    BY <2>2 DEF q
<1>4. Total(s3) = Total(s2) + Total(p("HEDGE_RECOVERY")) /\ Total(s3) \in Int
  <2> DEFINE q == p("HEDGE_RECOVERY")
  <2>0. DOMAIN s2 = movements /\ DOMAIN s3 = movements /\ DOMAIN q = movements
    OBVIOUS
  <2>1. \A m \in movements : s2[m] \in Int /\ q[m] \in Int /\ s3[m] \in Int /\ s3[m] = s2[m] + q[m]
    BY <1>1
  <2> HIDE DEF s2, s3, q
  <2>2. Total(s2) \in Int /\ Total(s3) \in Int /\ Total(s3) = Total(s2) + Total(q)
    BY ONLY <1>0, <2>0, <2>1, TotalMore
  <2> QED
    BY <2>2 DEF q
<1>5. Total(s4) = Total(s3) + Total(p("APPROVED_TRANSFER_IN")) /\ Total(s4) \in Int
  <2> DEFINE q == p("APPROVED_TRANSFER_IN")
  <2>0. DOMAIN s3 = movements /\ DOMAIN s4 = movements /\ DOMAIN q = movements
    OBVIOUS
  <2>1. \A m \in movements : s3[m] \in Int /\ q[m] \in Int /\ s4[m] \in Int /\ s4[m] = s3[m] + q[m]
    BY <1>1 DEF inflows
  <2> HIDE DEF s3, s4, q
  <2>2. Total(s3) \in Int /\ Total(s4) \in Int /\ Total(s4) = Total(s3) + Total(q)
    BY ONLY <1>0, <2>0, <2>1, TotalMore
  <2> QED
    BY <2>2 DEF q
<1>6. Total(s5) = Total(s4) - Total(p("CLAIM_UTILISATION")) /\ Total(s5) \in Int
  <2> DEFINE q == p("CLAIM_UTILISATION")
  <2>0. DOMAIN s4 = movements /\ DOMAIN s5 = movements /\ DOMAIN q = movements
    OBVIOUS
  <2>1. \A m \in movements : s4[m] \in Int /\ q[m] \in Int /\ s5[m] \in Int /\ s5[m] = s4[m] - q[m]
    BY <1>1
  <2> HIDE DEF s4, s5, q
  <2>2. Total(s4) \in Int /\ Total(s5) \in Int /\ Total(s5) = Total(s4) - Total(q)
    BY ONLY <1>0, <2>0, <2>1, TotalLess
  <2> QED
    BY <2>2 DEF q
<1>7. Total(s6) = Total(s5) - Total(p("HEDGE_PREMIUM")) /\ Total(s6) \in Int
  <2> DEFINE q == p("HEDGE_PREMIUM")
  <2>0. DOMAIN s5 = movements /\ DOMAIN s6 = movements /\ DOMAIN q = movements
    OBVIOUS
  <2>1. \A m \in movements : s5[m] \in Int /\ q[m] \in Int /\ s6[m] \in Int /\ s6[m] = s5[m] - q[m]
    BY <1>1
  <2> HIDE DEF s5, s6, q
  <2>2. Total(s5) \in Int /\ Total(s6) \in Int /\ Total(s6) = Total(s5) - Total(q)
    BY ONLY <1>0, <2>0, <2>1, TotalLess
  <2> QED
    BY <2>2 DEF q
<1>8. Total(s7) = Total(s6) - Total(p("APPROVED_TRANSFER_OUT")) /\ Total(s7) \in Int
  <2> DEFINE q == p("APPROVED_TRANSFER_OUT")
  <2>0. DOMAIN s6 = movements /\ DOMAIN s7 = movements /\ DOMAIN q = movements
    OBVIOUS
  <2>1. \A m \in movements : s6[m] \in Int /\ q[m] \in Int /\ s7[m] \in Int /\ s7[m] = s6[m] - q[m]
    BY <1>1 DEF inflows, outflows
  <2> HIDE DEF s6, s7, q
  <2>2. Total(s6) \in Int /\ Total(s7) \in Int /\ Total(s7) = Total(s6) - Total(q)
    BY ONLY <1>0, <2>0, <2>1, TotalLess
  <2> QED
    BY <2>2 DEF q
<1>9. Total(s1) = Total(p("COST_FUNDING"))
  OBVIOUS
<1>10. \A c \in inflows \cup outflows : t[c] = Total(p(c)) /\ t[c] \in Nat
  <2> HIDE DEF p
  <2> QED
    BY <1>2
<1> HIDE DEF s1, s2, s3, s4, s5, s6, s7, p, of
<1>11. Total(s7) = t["COST_FUNDING"] + t["BUFFER_CONTRIBUTION"] + t["HEDGE_RECOVERY"] + t["APPROVED_TRANSFER_IN"]
                   - t["CLAIM_UTILISATION"] - t["HEDGE_PREMIUM"] - t["APPROVED_TRANSFER_OUT"]
  BY <1>3, <1>4, <1>5, <1>6, <1>7, <1>8, <1>9, <1>10 DEF inflows, outflows
<1>12. /\ t["COST_FUNDING"] \in Nat /\ t["BUFFER_CONTRIBUTION"] \in Nat /\ t["HEDGE_RECOVERY"] \in Nat
       /\ t["APPROVED_TRANSFER_IN"] \in Nat /\ t["CLAIM_UTILISATION"] \in Nat /\ t["HEDGE_PREMIUM"] \in Nat
       /\ t["APPROVED_TRANSFER_OUT"] \in Nat
  BY <1>10 DEF inflows, outflows
<1>13. /\ adjusted(t["COST_FUNDING"], 0) = t["COST_FUNDING"]
       /\ adjusted(t["BUFFER_CONTRIBUTION"], 0) = t["BUFFER_CONTRIBUTION"]
       /\ adjusted(t["HEDGE_RECOVERY"], 0) = t["HEDGE_RECOVERY"]
       /\ adjusted(t["CLAIM_UTILISATION"], 0) = t["CLAIM_UTILISATION"]
  BY <1>12, UnchangedAmount
<1>14. Projected(t, Unchanging) = Total(s7)
  BY <1>11, <1>12, <1>13 DEF Projected, Unchanging
<1> QED
  BY <1>8, <1>14 DEF s7

-----------------------------------------------------------------------------
\* A roll-forward closes where its categories lead; a projection needs one.
PoolInv ==
  /\ rollForward # NoRecord =>
       /\ rollForward.opening \in Int /\ rollForward.closing \in Int
       /\ rollForward.closing = rollForward.opening + Projected(rollForward.totals, Unchanging)
  /\ scenario = [change |-> scenario.change, state |-> scenario.state, maker |-> scenario.maker, checker |-> scenario.checker]
  /\ poolProjection # NoRecord =>
       /\ rollForward # NoRecord
       /\ scenario.change = Unchanging => poolProjection.closing = rollForward.closing

LEMMA PoolStep == PoolInv /\ [PoolNext]_poolVars => PoolInv'
<1> SUFFICES ASSUME PoolInv, [PoolNext]_poolVars PROVE PoolInv'
  OBVIOUS
<1>1. ASSUME NEW opening \in OpeningBalance, NEW movements \in SUBSET Movement, NEW ledger \in LedgerClosing,
             createPoolRollForward(opening, movements, ledger)
      PROVE  PoolInv'
  <2> DEFINE net == Total([m \in movements |-> IF m.category \in inflows THEN m.amount ELSE -m.amount])
             t == [c \in inflows \cup outflows |-> totalFor(movements, c)]
  <2>1. /\ rollForward = NoRecord /\ UNCHANGED <<scenario, poolProjection>>
        /\ rollForward' = [opening |-> opening, closing |-> opening + net, reconciled |-> opening + net = ledger,
                           totals |-> t]
    BY <1>1 DEF createPoolRollForward
  <2>2. net \in Int /\ Projected(t, Unchanging) = net
    BY PeriodAddsUp
  <2>3. opening \in Int
    BY RiskCapitalAssumption
  <2> HIDE DEF net, t
  <2>4. /\ rollForward'.opening \in Int /\ rollForward'.closing \in Int
        /\ rollForward'.closing = rollForward'.opening + Projected(rollForward'.totals, Unchanging)
    BY <2>1, <2>2, <2>3
  <2>5. poolProjection = NoRecord
    BY <2>1 DEF PoolInv
  <2> QED
    BY <2>1, <2>4, <2>5 DEF PoolInv
<1>2. ASSUME NEW checker \in Officer, approvePoolScenario(checker) PROVE PoolInv'
  <2>1. scenario' = [change |-> scenario.change, state |-> "APPROVED", maker |-> scenario.maker, checker |-> checker]
    BY <1>2 DEF approvePoolScenario, PoolInv
  <2> QED
    BY <1>2, <2>1 DEF approvePoolScenario, PoolInv
<1>3. ASSUME publishPoolScenario PROVE PoolInv'
  <2>1. scenario' = [change |-> scenario.change, state |-> "PUBLISHED", maker |-> scenario.maker, checker |-> scenario.checker]
    BY <1>3 DEF publishPoolScenario, PoolInv
  <2> QED
    BY <1>3, <2>1 DEF publishPoolScenario, PoolInv
<1>4. ASSUME NEW ok, projectPoolScenario(ok) PROVE PoolInv'
  <2>1. /\ rollForward # NoRecord /\ UNCHANGED <<rollForward, scenario>>
        /\ poolProjection' = [closing |-> rollForward.opening + Projected(rollForward.totals, scenario.change)]
    BY <1>4 DEF projectPoolScenario
  <2>2. scenario.change = Unchanging => poolProjection'.closing = rollForward.closing
    BY <2>1 DEF PoolInv
  <2> QED
    BY <2>1, <2>2 DEF PoolInv
<1>5. CASE UNCHANGED poolVars
  BY <1>5 DEF poolVars, PoolInv
<1> QED
  BY <1>1, <1>2, <1>3, <1>4, <1>5 DEF PoolNext

\* A shortage once forecast stays on record; a programme keeps its terms.
TreasuryInv ==
  /\ liquidity # NoRecord =>
       liquidity.closing = liquidity.opening
         + Total([f \in liquidity.flows |-> IF f.direction = "IN" THEN f.amount ELSE -f.amount])
  /\ transfer # NoRecord =>
       /\ liquidity # NoRecord /\ liquidity.breach
       /\ transfer = [amount |-> transfer.amount, maker |-> transfer.maker, checker |-> transfer.checker, state |-> transfer.state]
       /\ transfer.maker # transfer.checker
  /\ programme = [terms |-> programme.terms, state |-> programme.state, maker |-> programme.maker, checker |-> programme.checker]
  /\ programme.terms \in RiskProgramme
  /\ programme.state = "APPROVED" => programme.checker \in Officer \ {programme.maker}
  /\ recovery # NoRecord =>
       LET r == recovery.recovered  t == programme.terms IN
       /\ r + recovery.retained = recovery.loss
       /\ r # 0 => programme.checker \in Officer \ {programme.maker}
       /\ r > 0 => 2 * r * CollateralCoverage <= 2 * t.collateral * BasisUnit + r
       /\ ProperTerms(t) /\ recovery.loss >= 0 => r \in 0..t.limit /\ r <= recovery.loss

HoldInv ==
  hold # NoRecord =>
    /\ hold = [subject |-> hold.subject, maker |-> hold.maker, checker |-> hold.checker, state |-> hold.state]
    /\ riskDecision # NoRecord
    /\ hold.subject = riskDecision.subject /\ riskDecision.outcome \in Restrictive

CapitalInv == PoolInv /\ TreasuryInv /\ HoldInv

LEMMA CapitalAdds == CapitalInv => CapitalAddsUp
  BY DEF CapitalInv, PoolInv, TreasuryInv, HoldInv, CapitalAddsUp

LEMMA CapitalInvInit == CapitalInit => CapitalInv
<1> SUFFICES ASSUME CapitalInit PROVE CapitalInv
  OBVIOUS
<1>1. PoolInv
  BY DEF CapitalInit, PoolInv
<1>2. TreasuryInv
  BY DEF CapitalInit, TreasuryInv
<1>3. HoldInv
  BY DEF CapitalInit, HoldInv
<1> QED
  BY <1>1, <1>2, <1>3 DEF CapitalInv

-----------------------------------------------------------------------------
\* What has come and gone by a day.
SoFar(flows, d) ==
  Total([f \in flows |-> IF f.day <= d THEN (IF f.direction = "IN" THEN f.amount ELSE -f.amount) ELSE 0])

LEMMA DayAdds ==
  ASSUME NEW flows \in SUBSET CashFlow, NEW d \in 1..Horizon
  PROVE  /\ SoFar(flows, d) \in Int /\ SoFar(flows, d - 1) \in Int
         /\ DayFlow(flows, d, "IN") \in Nat /\ DayFlow(flows, d, "OUT") \in Nat
         /\ SoFar(flows, d) = SoFar(flows, d - 1) + DayFlow(flows, d, "IN") - DayFlow(flows, d, "OUT")
<1> DEFINE sgn(f) == IF f.direction = "IN" THEN f.amount ELSE -f.amount
           ins == {x \in flows : x.day = d /\ x.direction = "IN"}
           outs == {x \in flows : x.day = d /\ x.direction = "OUT"}
           now == [f \in flows |-> IF f.day <= d THEN sgn(f) ELSE 0]
           before == [f \in flows |-> IF f.day <= d - 1 THEN sgn(f) ELSE 0]
           gained == [f \in flows |-> IF f.day <= d /\ f \notin outs THEN sgn(f) ELSE 0]
           in == [f \in flows |-> IF f \in ins THEN f.amount ELSE 0]
           out == [f \in flows |-> IF f \in outs THEN f.amount ELSE 0]
<1>1. IsFiniteSet(flows)
  BY RiskCapitalAssumption, FS_Subset
<1>2. \A f \in flows : f.amount \in Nat /\ f.day \in Int /\ f.direction \in {"IN", "OUT"}
  BY RiskCapitalAssumption
<1>3. ins \in SUBSET flows /\ outs \in SUBSET flows /\ d \in Int
  OBVIOUS
<1>4. DOMAIN now = flows /\ DOMAIN before = flows /\ DOMAIN gained = flows /\ DOMAIN in = flows /\ DOMAIN out = flows
  OBVIOUS
<1>5. \A f \in flows : gained[f] \in Int /\ in[f] \in Int /\ before[f] \in Int /\ gained[f] = before[f] + in[f]
  BY <1>2
<1>6. \A f \in flows : gained[f] \in Int /\ out[f] \in Int /\ now[f] \in Int /\ now[f] = gained[f] - out[f]
  BY <1>2
<1>7. Total(in) = DayFlow(flows, d, "IN") /\ Total(out) = DayFlow(flows, d, "OUT")
      /\ DayFlow(flows, d, "IN") \in Nat /\ DayFlow(flows, d, "OUT") \in Nat
  <2>1. DayFlow(flows, d, "IN") = Total([f \in ins |-> f.amount]) /\ DayFlow(flows, d, "OUT") = Total([f \in outs |-> f.amount])
    BY DEF DayFlow
  <2> HIDE DEF ins, outs
  <2>2. /\ Total([x \in ins |-> x.amount]) = Total(in) /\ Total([x \in ins |-> x.amount]) \in Nat
    BY <1>1, <1>2, <1>3, TotalPart
  <2>3. /\ Total([x \in outs |-> x.amount]) = Total(out) /\ Total([x \in outs |-> x.amount]) \in Nat
    BY <1>1, <1>2, <1>3, TotalPart
  <2> QED
    BY <2>1, <2>2, <2>3
<1>8. SoFar(flows, d) = Total(now) /\ SoFar(flows, d - 1) = Total(before)
  BY DEF SoFar
<1> HIDE DEF now, before, gained, in, out, ins, outs
<1>9. Total(before) \in Int /\ Total(gained) \in Int /\ Total(gained) = Total(before) + Total(in)
  <2>1. \A f \in flows : before[f] \in Int /\ in[f] \in Int /\ gained[f] \in Int /\ gained[f] = before[f] + in[f]
    BY <1>5
  <2>2. DOMAIN before = flows /\ DOMAIN in = flows /\ DOMAIN gained = flows
    BY <1>4
  <2> QED
    BY ONLY <1>1, <2>1, <2>2, TotalMore
<1>10. Total(now) \in Int /\ Total(now) = Total(gained) - Total(out)
  <2>1. \A f \in flows : gained[f] \in Int /\ out[f] \in Int /\ now[f] \in Int /\ now[f] = gained[f] - out[f]
    BY <1>6
  <2>2. DOMAIN gained = flows /\ DOMAIN out = flows /\ DOMAIN now = flows
    BY <1>4
  <2> QED
    BY ONLY <1>1, <2>1, <2>2, TotalLess
<1> QED
  BY <1>7, <1>8, <1>9, <1>10

\* The balance carried from day to day ends where all flows lead.
LEMMA ForecastEnds ==
  ASSUME NEW opening \in Int, NEW flows \in SUBSET CashFlow
  PROVE  ClosingBalance(opening, flows)[Horizon] =
           opening + Total([f \in flows |-> IF f.direction = "IN" THEN f.amount ELSE -f.amount])
<1> DEFINE D == 0..Horizon
           in(d) == DayFlow(flows, d, "IN")
           out(d) == DayFlow(flows, d, "OUT")
           Carried(g) == g = [d \in D |-> IF d = 0 THEN opening ELSE g[d - 1] + in(d) - out(d)]
           closed == [d \in D |-> opening + SoFar(flows, d)]
           c == ClosingBalance(opening, flows)
<1>1. Horizon \in Nat /\ IsFiniteSet(flows) /\ \A f \in flows : f.day \in 1..Horizon
  BY RiskCapitalAssumption, FS_Subset
<1>2. SoFar(flows, 0) = 0
  <2> DEFINE z == [f \in flows |-> IF f.day <= 0 THEN (IF f.direction = "IN" THEN f.amount ELSE -f.amount) ELSE 0]
  <2>1. DOMAIN z = flows /\ \A f \in flows : z[f] = 0
    BY <1>1
  <2> HIDE DEF z
  <2>2. Total(z) = 0
    BY <1>1, <2>1, TotalZero
  <2> QED
    BY <2>2 DEF SoFar, z
<1>3. SoFar(flows, Horizon) = Total([f \in flows |-> IF f.direction = "IN" THEN f.amount ELSE -f.amount])
  <2>1. [f \in flows |-> IF f.day <= Horizon THEN (IF f.direction = "IN" THEN f.amount ELSE -f.amount) ELSE 0]
        = [f \in flows |-> IF f.direction = "IN" THEN f.amount ELSE -f.amount]
    BY <1>1
  <2> QED
    BY <2>1 DEF SoFar
<1>4. \A d \in 1..Horizon : closed[d] = closed[d - 1] + in(d) - out(d)
  <2> SUFFICES ASSUME NEW d \in 1..Horizon PROVE closed[d] = closed[d - 1] + in(d) - out(d)
    OBVIOUS
  <2>1. d \in D /\ d - 1 \in D
    BY <1>1
  <2>2. closed[d] = opening + SoFar(flows, d) /\ closed[d - 1] = opening + SoFar(flows, d - 1)
    BY <2>1
  <2> HIDE DEF closed
  <2> QED
    BY <2>2, DayAdds
<1>5. Carried(closed)
  <2>1. closed[0] = opening
    BY <1>1, <1>2
  <2>2. \A d \in D : d # 0 => d \in 1..Horizon
    BY <1>1
  <2>3. \A d \in D : closed[d] = IF d = 0 THEN opening ELSE closed[d - 1] + in(d) - out(d)
    <3> HIDE DEF closed, in, out
    <3> QED
      BY <1>4, <2>1, <2>2
  <2> DEFINE rhs == [d \in D |-> IF d = 0 THEN opening ELSE closed[d - 1] + in(d) - out(d)]
  <2>4. closed = [d \in D |-> closed[d]]
    OBVIOUS
  <2> HIDE DEF closed, D, in, out
  <2> QED
    BY <2>3, <2>4
<1>6. c = CHOOSE g : Carried(g)
  BY Zenon DEF ClosingBalance
<1>7. Carried(c)
  <2> HIDE DEF Carried, closed, c
  <2> QED
    BY <1>5, <1>6
<1>8. \A d \in D : c[d] = closed[d]
  <2> DEFINE T == {0..d : d \in {x \in D : c[x] # closed[x]}}
  <2> SUFFICES ASSUME T # {} PROVE FALSE
    OBVIOUS
  <2>1. IsFiniteSet(D) /\ T \in SUBSET SUBSET D
    <3>0. Horizon \in Int /\ 0 \in Int
      BY <1>1
    <3>1. IsFiniteSet(D)
      BY ONLY <3>0, FS_Interval
    <3>2. ASSUME NEW t \in T PROVE t \subseteq D
      <4>1. PICK d \in D : t = 0..d
        OBVIOUS
      <4> QED
        BY <1>1, <4>1
    <3> QED
      BY <3>1, <3>2
  <2>2. PICK m \in T : \A t \in T : t \subseteq m => t = m
    <3> HIDE DEF T, D, c, closed
    <3> QED
      BY ONLY <2>1, T # {}, LeastSubset
  <2>3. PICK d \in D : m = 0..d /\ c[d] # closed[d]
    BY <2>2
  <2> HIDE DEF c, closed
  <2>4. d # 0
    <3>1. c[0] = opening /\ closed[0] = opening
      BY <1>1, <1>5, <1>7
    <3> QED
      BY <2>3, <3>1
  <2>5. d \in 1..Horizon /\ d - 1 \in D
    BY <1>1, <2>4
  <2>6. c[d] = c[d - 1] + in(d) - out(d) /\ closed[d] = closed[d - 1] + in(d) - out(d)
    <3> HIDE DEF in, out
    <3> QED
      BY <1>5, <1>7, <2>4
  <2>7. c[d - 1] # closed[d - 1]
    BY <2>3, <2>6
  <2>8. 0..(d - 1) \in T
    BY <2>5, <2>7
  <2>9. 0..(d - 1) \subseteq m /\ d \in m /\ d \notin 0..(d - 1)
    BY <2>3, <2>5
  <2> QED
    BY <2>2, <2>8, <2>9
<1>9. c[Horizon] = closed[Horizon] /\ closed[Horizon] = opening + SoFar(flows, Horizon)
  <2>1. Horizon \in D
    BY <1>1
  <2> QED
    BY <1>8, <2>1
<1> QED
  BY <1>3, <1>9

-----------------------------------------------------------------------------
\* Of proper terms, what is ceded is a rounded share of a layer, which loss and limit bound.
LEMMA RecoveryBounded ==
  ASSUME NEW t \in RiskProgramme, NEW loss \in GrossLoss
  PROVE  /\ ceded(t, loss) \in Int
         /\ ProperTerms(t) /\ loss >= 0 =>
              ceded(t, loss) \in Nat /\ ceded(t, loss) <= t.limit /\ ceded(t, loss) <= loss
<1> DEFINE layer == Smaller(t.limit, Larger(0, loss - t.attachment))
           share == (2 * layer * t.share + BasisUnit) \div (2 * BasisUnit)
<1>1. /\ t.attachment \in Int /\ t.limit \in Int /\ t.share \in Int /\ loss \in Int
      /\ BasisUnit \in Nat \ {0}
  BY RiskCapitalAssumption
<1>2. ceded(t, loss) = share /\ layer \in Int
  BY <1>1 DEF ceded, Smaller, Larger
<1>3. share \in Int
  <2> HIDE DEF layer
  <2>1. 2 * layer * t.share + BasisUnit \in Int /\ 2 * BasisUnit \in Nat \ {0}
    BY <1>1, <1>2
  <2> QED
    BY <2>1
<1>4. ASSUME ProperTerms(t), loss >= 0
      PROVE  share \in Nat /\ share <= t.limit /\ share <= loss
  <2>1. layer \in Nat /\ layer <= t.limit /\ layer <= loss /\ t.share \in Nat /\ t.share <= BasisUnit
    BY <1>1, <1>4 DEF ProperTerms, Smaller, Larger
  <2> HIDE DEF layer
  <2>2. share \in Nat /\ share <= layer
    BY <1>1, <2>1, RoundedShare
  <2> HIDE DEF share
  <2> QED
    BY <1>1, <2>1, <2>2
<1> QED
  BY <1>2, <1>3, <1>4

\* Coverage of so many basis points is collateral of so many, up to the rounding.
LEMMA CoverageSecures ==
  ASSUME NEW t \in RiskProgramme, NEW r \in Int, r > 0, collateralCoverage(t, r) >= CollateralCoverage
  PROVE  2 * r * CollateralCoverage <= 2 * t.collateral * BasisUnit + r
<1> DEFINE n == 2 * t.collateral * BasisUnit + r
           d == 2 * r
           q == n \div d
<1>1. t.collateral \in Int /\ BasisUnit \in Nat /\ CollateralCoverage \in Int
  BY RiskCapitalAssumption
<1>2. collateralCoverage(t, r) = q
  <2>1. r # 0 /\ 1 * r = r /\ 2 * 1 * t.collateral * BasisUnit + 1 * r = n /\ 2 * (1 * r) = d
    BY <1>1
  <2> QED
    BY <2>1 DEF collateralCoverage
<1>3. n \in Int /\ d \in Nat \ {0} /\ 2 * r * CollateralCoverage = CollateralCoverage * d
  BY <1>1
<1> HIDE DEF n, d
<1>4. q \in Int /\ q * d <= n
  BY <1>3
<1> HIDE DEF q
<1>5. CollateralCoverage * d <= q * d
  BY <1>1, <1>2, <1>3, <1>4, TimesMonotone
<1>6. CollateralCoverage * d <= n
  <2> DEFINE x == CollateralCoverage * d
             y == q * d
  <2>1. x \in Int /\ y \in Int
    BY <1>1, <1>3, <1>4
  <2> HIDE DEF x, y
  <2>2. x <= n
    BY <1>3, <1>4, <1>5, <2>1 DEF x, y
  <2> QED
    BY <2>2 DEF x
<1> QED
  BY <1>3, <1>6 DEF n

LEMMA TreasuryStep == TreasuryInv /\ [TreasuryNext]_treasuryVars => TreasuryInv'
<1> SUFFICES ASSUME TreasuryInv, [TreasuryNext]_treasuryVars PROVE TreasuryInv'
  OBVIOUS
<1>1. ASSUME NEW opening \in OpeningBalance, NEW flows \in SUBSET CashFlow, NEW policy \in LiquidityPolicy,
             forecastLiquidity(opening, flows, policy)
      PROVE  TreasuryInv'
  <2> DEFINE closing == ClosingBalance(opening, flows)[Horizon]
             breach == \E d \in 1..Horizon : Breach(ClosingBalance(opening, flows)[d], DayFlow(flows, d, "OUT"), policy)
  <2>1. /\ liquidity = NoRecord /\ UNCHANGED <<transfer, programme, recovery>>
        /\ liquidity' = [opening |-> opening, flows |-> flows, policy |-> policy, closing |-> closing, breach |-> breach]
    BY <1>1 DEF forecastLiquidity
  <2>2. closing = opening + Total([f \in flows |-> IF f.direction = "IN" THEN f.amount ELSE -f.amount])
    <3>1. opening \in Int
      BY RiskCapitalAssumption
    <3> QED
      BY <3>1, ForecastEnds
  <2> HIDE DEF closing, breach
  <2>3. liquidity'.closing = liquidity'.opening
         + Total([f \in liquidity'.flows |-> IF f.direction = "IN" THEN f.amount ELSE -f.amount])
    BY <2>1, <2>2
  <2>4. transfer = NoRecord
    BY <2>1 DEF TreasuryInv
  <2> QED
    BY <2>1, <2>3, <2>4 DEF TreasuryInv
<1>2. ASSUME NEW o \in Officer, NEW amount, proposeTreasuryTransfer(amount, o) PROVE TreasuryInv'
  <2>1. /\ liquidity # NoRecord /\ liquidity.breach /\ UNCHANGED <<liquidity, programme, recovery>>
        /\ transfer' = [amount |-> amount, maker |-> o, checker |-> NoRecord, state |-> "PROPOSED"]
    BY <1>2 DEF proposeTreasuryTransfer
  <2>2. o # NoRecord
    BY RiskCapitalAssumption
  <2> QED
    BY <2>1, <2>2 DEF TreasuryInv
<1>3. ASSUME NEW o \in Officer, approveTreasuryTransfer(o) PROVE TreasuryInv'
  <2>1. /\ transfer # NoRecord /\ o # transfer.maker /\ UNCHANGED <<liquidity, programme, recovery>>
        /\ transfer' = [amount |-> transfer.amount, maker |-> transfer.maker, checker |-> o, state |-> "APPROVED"]
    BY <1>3 DEF approveTreasuryTransfer, TreasuryInv
  <2> QED
    BY <2>1 DEF TreasuryInv
<1>4. ASSUME NEW o \in Officer, approveRiskTransferProgramme(o) PROVE TreasuryInv'
  <2>1. /\ o # programme.maker /\ UNCHANGED <<liquidity, transfer, recovery>>
        /\ programme' = [terms |-> programme.terms, state |-> "APPROVED", maker |-> programme.maker, checker |-> o]
    BY <1>4 DEF approveRiskTransferProgramme, TreasuryInv
  <2> QED
    BY <2>1 DEF TreasuryInv
<1>5. ASSUME NEW loss \in GrossLoss, projectRiskTransfer(loss) PROVE TreasuryInv'
  <2> DEFINE t == programme.terms
             share == ceded(t, loss)
             recovered == IF Recoverable(loss) THEN share ELSE 0
  <2>1. /\ recovery' = [loss |-> loss, recovered |-> recovered, retained |-> loss - recovered]
        /\ UNCHANGED <<liquidity, transfer, programme>>
    BY <1>5 DEF projectRiskTransfer
  <2>2. t \in RiskProgramme /\ loss \in Int
    BY RiskCapitalAssumption DEF TreasuryInv
  <2>3. share \in Int
        /\ (ProperTerms(t) /\ loss >= 0 => share \in Nat /\ share <= t.limit /\ share <= loss)
    BY <2>2, RecoveryBounded
  <2>4. Recoverable(loss) => programme.state = "APPROVED" /\ collateralCoverage(t, share) >= CollateralCoverage
    BY DEF Recoverable
  <2>5. ProperTerms(t) => t.limit \in Nat
    BY <2>2, RiskCapitalAssumption DEF ProperTerms
  <2> HIDE DEF share, t
  <2>6. recovered > 0 => 2 * recovered * CollateralCoverage <= 2 * t.collateral * BasisUnit + recovered
    BY <2>2, <2>3, <2>4, CoverageSecures
  <2>7. recovered \in Int /\ (recovered # 0 => programme.state = "APPROVED")
    BY <2>3, <2>4
  <2>8. ProperTerms(t) /\ loss >= 0 => recovered \in 0..t.limit /\ recovered <= loss
    BY <2>2, <2>3, <2>5
  <2> HIDE DEF recovered
  <2>9. recovered + (loss - recovered) = loss
    BY <2>2, <2>7
  <2>10. recovered # 0 => programme.checker \in Officer \ {programme.maker}
    BY <2>7 DEF TreasuryInv
  <2>11. recovery'.loss = loss /\ recovery'.recovered = recovered /\ recovery'.retained = loss - recovered
         /\ programme'.terms = t
    BY <2>1 DEF t
  <2> QED
    BY <2>1, <2>6, <2>8, <2>9, <2>10, <2>11 DEF TreasuryInv
<1>6. CASE UNCHANGED treasuryVars
  BY <1>6 DEF treasuryVars, TreasuryInv
<1> QED
  BY <1>1, <1>2, <1>3, <1>4, <1>5, <1>6 DEF TreasuryNext

LEMMA HoldStep == HoldInv /\ [HoldNext]_holdVars => HoldInv'
<1> SUFFICES ASSUME HoldInv, [HoldNext]_holdVars PROVE HoldInv'
  OBVIOUS
<1>1. ASSUME NEW signals \in SUBSET RiskSignal, recordRiskDecision(signals) PROVE HoldInv'
  BY <1>1 DEF recordRiskDecision, HoldInv
<1>2. ASSUME NEW o \in Officer, proposeRiskHold(o) PROVE HoldInv'
  BY <1>2 DEF proposeRiskHold, HoldInv
<1>3. ASSUME NEW o \in Officer, NEW stepUp, approveRiskHold(o, stepUp) PROVE HoldInv'
  <2>1. /\ hold # NoRecord /\ UNCHANGED riskDecision
        /\ hold' = [subject |-> hold.subject, maker |-> hold.maker, checker |-> o, state |-> "APPROVED"]
    BY <1>3 DEF approveRiskHold, HoldInv
  <2> QED
    BY <2>1 DEF HoldInv
<1>4. CASE UNCHANGED holdVars
  BY <1>4 DEF holdVars, HoldInv
<1> QED
  BY <1>1, <1>2, <1>3, <1>4 DEF HoldNext

LEMMA CapitalStep ==
  ASSUME CapitalInv, [PoolNext \/ TreasuryNext \/ HoldNext]_capitalVars
  PROVE  CapitalInv'
<1>1. ASSUME PoolNext PROVE UNCHANGED <<treasuryVars, holdVars>>
  BY <1>1 DEF PoolNext, createPoolRollForward, approvePoolScenario, publishPoolScenario, projectPoolScenario
<1>2. ASSUME TreasuryNext PROVE UNCHANGED <<poolVars, holdVars>>
  BY <1>2 DEF TreasuryNext, forecastLiquidity, proposeTreasuryTransfer, approveTreasuryTransfer,
              approveRiskTransferProgramme, projectRiskTransfer
<1>3. ASSUME HoldNext PROVE UNCHANGED <<poolVars, treasuryVars>>
  BY <1>3 DEF HoldNext, recordRiskDecision, proposeRiskHold, approveRiskHold
<1>4. [PoolNext]_poolVars /\ [TreasuryNext]_treasuryVars /\ [HoldNext]_holdVars
  BY <1>1, <1>2, <1>3 DEF capitalVars, poolVars, treasuryVars, holdVars
<1> QED
  BY <1>4, PoolStep, TreasuryStep, HoldStep DEF CapitalInv

-----------------------------------------------------------------------------
\* For any payments and webhooks, catalogues and instalments, movements, flows and programmes:
\* the ledger funds what was received, an invoice is paid when nothing is left of it, and the
\* pool, the forecast and the recovery are the sums of the records behind them.
THEOREM MoneyAlwaysAddsUp == Spec => []MoneyAddsUp
<1> DEFINE Inv == PayInv /\ InvoiceInv /\ CapitalInv
<1>1. Init => Inv
  BY PayInit, InvoiceInit, CapitalInvInit DEF Init
<1>2. ASSUME Inv, [Next]_<<machine, pricingVars, financeVars>> PROVE Inv'
  <2>1. [PaymentsNext]_paymentVars /\ [InvoicingNext]_invoiceVars /\ [PoolNext \/ TreasuryNext \/ HoldNext]_capitalVars
    <3>1. CASE PricingNext /\ UNCHANGED <<machine, financeVars>>
      BY <3>1 DEF financeVars
    <3>2. CASE FinanceNext /\ UNCHANGED <<machine, pricingVars>>
      BY <3>2 DEF FinanceNext
    <3>3. CASE UNCHANGED <<machine, pricingVars, financeVars>>
      BY <3>3 DEF financeVars
    <3> QED
      BY <1>2, <3>1, <3>2, <3>3 DEF Next
  <2>2. PayInv' /\ InvoiceInv'
    BY <1>2, <2>1, PayStep, InvoiceStep
  <2>3. CapitalInv'
    BY <1>2, <2>1, CapitalStep
  <2> QED
    BY <2>2, <2>3
<1>3. Inv => MoneyAddsUp
  BY CapitalAdds DEF PayInv, InvoiceInv, MoneyAddsUp
<1> QED
  BY <1>1, <1>2, <1>3, PTL DEF Spec

-----------------------------------------------------------------------------
(***************************************************************************)
(* Price locks: a quote rests on what was observed.                        *)
(***************************************************************************)
\* A verified observation, fresh at that moment, at a station of the scope has this price.
FromFresh(scope, price, at) ==
  \E p \in Within(scope), k \in DOMAIN sightings : k \in Fresh(p, at) /\ sightings[k].price = price

\* A call that has its price got it from an observation, and every quote has its one lock.
LockPriceInv ==
  /\ ticks \in Nat
  /\ IsFiniteSet(DOMAIN sightings)
  /\ \A k \in DOMAIN sightings : k[2] \in Int /\ sightings[k].price \in Int
  /\ IsList(cap_quotes) /\ IsList(bought) /\ DOMAIN buying = LockCall
  /\ \A c \in LockCall :
       buying[c] # NotCalling /\ buying[c].pc = "priced" /\ buying[c].quoted
       => FromFresh(buying[c].scope, buying[c].price, buying[c].began)
  /\ \A i \in DOMAIN cap_quotes : FromFresh(cap_quotes[i].scope, cap_quotes[i].price, cap_quotes[i].at)
  /\ \A i \in DOMAIN cap_quotes : \E j \in DOMAIN bought : bought[j].quote = i
  /\ \A j \in DOMAIN bought :
       /\ bought[j].quote \in DOMAIN cap_quotes \cup {0}
       /\ bought[j].quote # 0 =>
            /\ [user |-> bought[j].owner, scope |-> bought[j].scope, price |-> bought[j].price, at |-> bought[j].at]
                 = cap_quotes[bought[j].quote]
            /\ \A l \in DOMAIN bought : bought[l].quote = bought[j].quote => l = j

LEMMA NoQuoteZero == ASSUME LockPriceInv PROVE 0 \notin DOMAIN cap_quotes /\ DOMAIN cap_quotes = 1 .. Len(cap_quotes)
  BY DEF LockPriceInv, IsList

\* The price of a station is one of its fresh observations.
LEMMA LatestIsFresh ==
  ASSUME LockPriceInv, NEW on, NEW at, NEW p \in DOMAIN LatestOf(on, at)
  PROVE  \E k \in Fresh(p, at) : LatestOf(on, at)[p] = sightings[k].price
<1> DEFINE F == Fresh(p, at)
           k == CHOOSE k \in F : \A l \in F : l[2] <= k[2]
           f == [x \in F |-> x[2]]
<1>1. F # {} /\ LatestOf(on, at)[p] = sightings[k].price
  BY DEF LatestOf
<1>2. F \subseteq DOMAIN sightings
  BY DEF Fresh
<1>3. IsFiniteSet(F) /\ \A x \in F : f[x] \in Int
  BY <1>2, FS_Subset DEF LockPriceInv
<1>4. \E m \in F : \A x \in F : f[x] <= f[m]
  <2> HIDE DEF F, f
  <2> QED
    BY ONLY <1>1, <1>3, GreatestOfFinite
<1>5. k \in F
  BY <1>4
<1> QED
  BY <1>1, <1>5

\* An option is the price of a station of its scope, and no other station of it is dearer.
LEMMA OptionIsDearest ==
  ASSUME LockPriceInv, NEW on \in SUBSET Pump, NEW at, NEW s \in DOMAIN OptionsOf(on, at)
  PROVE  LET latest == LatestOf(on, at) IN
         /\ s \in LockScope
         /\ \A p \in DOMAIN latest : latest[p] \in Int
         /\ \E p \in Within(s) \cap DOMAIN latest : OptionsOf(on, at)[s] = latest[p]
         /\ \A p \in Within(s) \cap DOMAIN latest : latest[p] <= OptionsOf(on, at)[s]
<1> DEFINE latest == LatestOf(on, at)
           W == Within(s) \cap DOMAIN latest
           f == [p \in W |-> latest[p]]
           best(m) == \A p \in W : latest[p] <= m
<1>1. s \in LockScope /\ W # {} /\ OptionsOf(on, at)[s] = CHOOSE m \in {latest[p] : p \in W} : best(m)
  BY DEF OptionsOf
<1>2. \A p \in DOMAIN latest : latest[p] \in Int
  <2> SUFFICES ASSUME NEW p \in DOMAIN latest PROVE latest[p] \in Int
    OBVIOUS
  <2>1. PICK k \in Fresh(p, at) : latest[p] = sightings[k].price
    BY LatestIsFresh
  <2> QED
    BY <2>1 DEF Fresh, LockPriceInv
<1>3. DOMAIN latest \subseteq on
  BY DEF LatestOf
<1>4. IsFiniteSet(W)
  <2>1. W \subseteq Pump
    BY <1>3
  <2> HIDE DEF W
  <2> QED
    BY <2>1, FS_Subset, LockPricingAssumption
<1>5. \A p \in W : f[p] \in Int
  BY <1>2
<1>6. PICK top \in W : \A p \in W : f[p] <= f[top]
  <2> HIDE DEF W, f
  <2> QED
    BY ONLY <1>1, <1>4, <1>5, GreatestOfFinite
<1> HIDE DEF latest
<1>7. latest[top] \in {latest[p] : p \in W} /\ best(latest[top])
  BY <1>6
<1>8. OptionsOf(on, at)[s] \in {latest[p] : p \in W} /\ best(OptionsOf(on, at)[s])
  <2> HIDE DEF W, best
  <2> QED
    BY <1>1, <1>7
<1> QED
  BY <1>1, <1>2, <1>8 DEF latest

-----------------------------------------------------------------------------
LEMMA LockPriceInit == LockPricingInit => LockPriceInv
<1> SUFFICES ASSUME LockPricingInit PROVE LockPriceInv
  OBVIOUS
<1>1. IsFiniteSet(Pump \X {0})
  BY LockPricingAssumption, FS_Singleton, FS_Product
<1>2. DOMAIN sightings = Pump \X {0} /\ \A k \in DOMAIN sightings : sightings[k].price = SeedPrice[k[1]]
  BY DEF LockPricingInit
<1>3. IsList(<<>>) /\ DOMAIN <<>> = {}
  BY DEF IsList
<1>4. \A k \in DOMAIN sightings : k[2] \in Int /\ sightings[k].price \in Int
  BY <1>2, LockPricingAssumption
<1> QED
  BY <1>1, <1>2, <1>3, <1>4 DEF LockPricingInit, LockPriceInv

\* As long as no observation is lost, what rests on one does.
LEMMA StaysFresh ==
  ASSUME DOMAIN sightings \subseteq DOMAIN sightings', \A k \in DOMAIN sightings : sightings'[k] = sightings[k],
         NEW scope, NEW price, NEW at, FromFresh(scope, price, at)
  PROVE  FromFresh(scope, price, at)'
  BY DEF FromFresh, Fresh, Within

\* Calls, quotes and locks stay as they are.
LEMMA LocksUntouched ==
  ASSUME LockPriceInv, UNCHANGED <<buying, cap_quotes, bought>>, ticks' \in Nat,
         DOMAIN sightings \subseteq DOMAIN sightings', \A k \in DOMAIN sightings : sightings'[k] = sightings[k],
         IsFiniteSet(DOMAIN sightings'), \A k \in DOMAIN sightings' : k[2] \in Int /\ sightings'[k].price \in Int
  PROVE  LockPriceInv'
<1>1. buying' = buying /\ cap_quotes' = cap_quotes /\ bought' = bought
  OBVIOUS
<1>2. \A scope, price, at : FromFresh(scope, price, at) => FromFresh(scope, price, at)'
  BY StaysFresh
<1> QED
  BY <1>1, <1>2 DEF LockPriceInv, IsList

\* Only one call moves on: to a price from an observation, or to none.
LEMMA CallMoves ==
  ASSUME LockPriceInv, UNCHANGED <<ticks, sightings, cap_quotes, bought>>, NEW c \in LockCall, NEW b,
         buying' = [buying EXCEPT ![c] = b],
         b # NotCalling /\ b.pc = "priced" /\ b.quoted => FromFresh(b.scope, b.price, b.began)
  PROVE  LockPriceInv'
<1>1. ticks' = ticks /\ sightings' = sightings /\ cap_quotes' = cap_quotes /\ bought' = bought
  OBVIOUS
<1>2. \A scope, price, at : FromFresh(scope, price, at)' <=> FromFresh(scope, price, at)
  BY <1>1 DEF FromFresh, Fresh, Within
<1>3. DOMAIN buying' = LockCall /\ buying'[c] = b /\ \A d \in LockCall : d # c => buying'[d] = buying[d]
  BY DEF LockPriceInv
<1>4. \A d \in LockCall :
       buying'[d] # NotCalling /\ buying'[d].pc = "priced" /\ buying'[d].quoted
       => FromFresh(buying'[d].scope, buying'[d].price, buying'[d].began)
  BY <1>3 DEF LockPriceInv
<1> QED
  BY <1>1, <1>2, <1>3, <1>4 DEF LockPriceInv, IsList

LEMMA OptionSelected ==
  ASSUME LockPriceInv, NEW c \in LockCall, SelectOption(c)
  PROVE  LockPriceInv'
<1> DEFINE options == LockOptions(buying[c].began)
           b == [pc |-> "priced", user |-> buying[c].user, scope |-> buying[c].scope, began |-> buying[c].began,
                 price |-> options[buying[c].scope], quoted |-> TRUE]
<1>1. /\ buying' = [buying EXCEPT ![c] = IF buying[c].scope \in DOMAIN options THEN b ELSE NotCalling]
      /\ UNCHANGED <<ticks, sightings, cap_quotes, bought>>
  BY DEF SelectOption, marketVars
<1>2. CASE buying[c].scope \notin DOMAIN options
  <2>1. buying' = [buying EXCEPT ![c] = NotCalling]
    BY <1>1, <1>2
  <2> QED
    BY <1>1, <2>1, CallMoves
<1>3. CASE buying[c].scope \in DOMAIN options
  <2> DEFINE on == {p \in Pump : Selling(p)}
             at == buying[c].began
             scope == buying[c].scope
             latest == LatestOf(on, at)
  <2>1. on \in SUBSET Pump /\ options = OptionsOf(on, at) /\ scope \in DOMAIN OptionsOf(on, at)
    BY <1>3 DEF LockOptions
  <2>2. PICK p \in Within(scope) \cap DOMAIN latest : OptionsOf(on, at)[scope] = latest[p]
    <3>1. \E p \in Within(scope) \cap DOMAIN LatestOf(on, at) : OptionsOf(on, at)[scope] = LatestOf(on, at)[p]
      <4> HIDE DEF on, at, scope, latest
      <4> QED
        BY ONLY LockPriceInv, <2>1, OptionIsDearest
    <3> QED
      BY <3>1
  <2>3. PICK k \in Fresh(p, at) : latest[p] = sightings[k].price
    <3>1. p \in DOMAIN LatestOf(on, at)
      BY <2>2
    <3>2. \E k \in Fresh(p, at) : LatestOf(on, at)[p] = sightings[k].price
      <4> HIDE DEF on, at
      <4> QED
        BY ONLY LockPriceInv, <3>1, LatestIsFresh
    <3> QED
      BY <3>2
  <2>4. FromFresh(scope, options[scope], at)
    <3>1. k \in DOMAIN sightings
      BY DEF Fresh
    <3> QED
      BY <2>1, <2>2, <2>3, <3>1 DEF FromFresh
  <2>5. buying' = [buying EXCEPT ![c] = b]
    BY <1>1, <1>3
  <2>6. FromFresh(b.scope, b.price, b.began)
    BY <2>4
  <2> HIDE DEF b
  <2> QED
    BY <1>1, <2>5, <2>6, CallMoves
<1> QED
  BY <1>2, <1>3

LEMMA LockCommitted ==
  ASSUME LockPriceInv, NEW c \in LockCall, CommitLock(c)
  PROVE  LockPriceInv'
<1> DEFINE b == buying[c]
           m == Len(bought) + 1
           n == Len(cap_quotes) + 1
           q == [user |-> b.user, scope |-> b.scope, price |-> b.price, at |-> b.began]
           l == [owner |-> b.user, scope |-> b.scope, price |-> b.price, at |-> b.began,
                 quote |-> IF b.quoted THEN n ELSE 0]
<1>1. /\ b # NotCalling /\ b.pc = "priced"
      /\ IF b.quoted THEN cap_quotes' = Append(cap_quotes, q) ELSE cap_quotes' = cap_quotes
      /\ bought' = Append(bought, l)
      /\ buying' = [buying EXCEPT ![c] = NotCalling] /\ ticks' = ticks /\ sightings' = sightings
  BY DEF CommitLock, Calling, marketVars
<1>2. \A scope, price, at : FromFresh(scope, price, at)' <=> FromFresh(scope, price, at)
  BY <1>1 DEF FromFresh, Fresh, Within
<1>3. DOMAIN buying' = LockCall /\ \A d \in LockCall : buying'[d] = NotCalling \/ buying'[d] = buying[d]
  BY <1>1 DEF LockPriceInv
<1>4. b.quoted => FromFresh(b.scope, b.price, b.began)
  BY <1>1 DEF LockPriceInv
<1>5. q.scope = b.scope /\ q.price = b.price /\ q.at = b.began
  OBVIOUS
<1>6. /\ [user |-> l.owner, scope |-> l.scope, price |-> l.price, at |-> l.at] = q
      /\ l.quote = IF b.quoted THEN n ELSE 0
  OBVIOUS
<1>7. /\ IsList(bought) /\ IsList(cap_quotes)
      /\ 0 \notin DOMAIN cap_quotes /\ n # 0
  BY NoQuoteZero DEF LockPriceInv, IsList
<1> HIDE DEF q, l, b
<1>8. /\ IsList(bought') /\ DOMAIN bought' = DOMAIN bought \cup {m} /\ m \notin DOMAIN bought
      /\ \A j \in DOMAIN bought : bought'[j] = bought[j]
      /\ bought'[m] = l
  <2>1. bought' = Append(bought, l) /\ IsList(bought)
    BY <1>1, <1>7
  <2> QED
    BY ONLY <2>1, AppendIsList
<1>9. b.quoted =>
      /\ IsList(cap_quotes') /\ DOMAIN cap_quotes' = DOMAIN cap_quotes \cup {n} /\ n \notin DOMAIN cap_quotes
      /\ \A i \in DOMAIN cap_quotes : cap_quotes'[i] = cap_quotes[i]
      /\ cap_quotes'[n] = q
  <2> SUFFICES ASSUME b.quoted
               PROVE  /\ IsList(cap_quotes') /\ DOMAIN cap_quotes' = DOMAIN cap_quotes \cup {n} /\ n \notin DOMAIN cap_quotes
                      /\ \A i \in DOMAIN cap_quotes : cap_quotes'[i] = cap_quotes[i]
                      /\ cap_quotes'[n] = q
    OBVIOUS
  <2>1. cap_quotes' = Append(cap_quotes, q) /\ IsList(cap_quotes)
    BY <1>1, <1>7
  <2> QED
    BY ONLY <2>1, AppendIsList
<1>10. /\ \A i \in DOMAIN cap_quotes : \E j \in DOMAIN bought : bought[j].quote = i
       /\ \A j \in DOMAIN bought :
            /\ bought[j].quote \in DOMAIN cap_quotes \cup {0}
            /\ bought[j].quote # 0 =>
                 /\ [user |-> bought[j].owner, scope |-> bought[j].scope, price |-> bought[j].price, at |-> bought[j].at]
                      = cap_quotes[bought[j].quote]
                 /\ \A k \in DOMAIN bought : bought[k].quote = bought[j].quote => k = j
  BY DEF LockPriceInv
<1> HIDE DEF m, n
<1>11. CASE b.quoted
  <2>1. \A i \in DOMAIN cap_quotes' : \E j \in DOMAIN bought' : bought'[j].quote = i
    BY <1>6, <1>8, <1>9, <1>10, <1>11
  <2>2. \A i \in DOMAIN cap_quotes' : FromFresh(cap_quotes'[i].scope, cap_quotes'[i].price, cap_quotes'[i].at)
    BY <1>4, <1>5, <1>9, <1>11 DEF LockPriceInv
  <2>3. ASSUME NEW j \in DOMAIN bought'
        PROVE  /\ bought'[j].quote \in DOMAIN cap_quotes' \cup {0}
               /\ bought'[j].quote # 0 =>
                    /\ [user |-> bought'[j].owner, scope |-> bought'[j].scope, price |-> bought'[j].price, at |-> bought'[j].at]
                         = cap_quotes'[bought'[j].quote]
                    /\ \A k \in DOMAIN bought' : bought'[k].quote = bought'[j].quote => k = j
    <3>1. CASE j = m
      <4>1. bought'[j] = l /\ l.quote = n
        BY <1>6, <1>8, <1>11, <3>1
      <4>2. \A k \in DOMAIN bought : bought'[k].quote # n
        <5> SUFFICES ASSUME NEW k \in DOMAIN bought PROVE bought'[k].quote # n
          OBVIOUS
        <5>1. bought[k].quote \in DOMAIN cap_quotes \cup {0} /\ bought'[k] = bought[k]
          BY <1>8, <1>10
        <5> QED
          BY <1>7, <1>9, <1>11, <5>1
      <4> QED
        BY <1>6, <1>8, <1>9, <1>11, <3>1, <4>1, <4>2
    <3>2. CASE j \in DOMAIN bought
      <4>1. bought'[j] = bought[j] /\ bought[j].quote \in DOMAIN cap_quotes \cup {0}
        BY <1>8, <1>10, <3>2
      <4>2. bought'[m].quote = n /\ bought[j].quote # n
        BY <1>6, <1>7, <1>8, <1>9, <1>11, <4>1
      <4>3. bought[j].quote # 0 => \A k \in DOMAIN bought' : bought'[k].quote = bought'[j].quote => k = j
        BY <1>8, <1>10, <3>2, <4>1, <4>2
      <4>4. bought[j].quote # 0 => cap_quotes'[bought[j].quote] = cap_quotes[bought[j].quote]
        BY <1>9, <1>11, <4>1
      <4> QED
        BY <1>9, <1>10, <1>11, <3>2, <4>1, <4>3, <4>4
    <3> QED
      BY <1>8, <3>1, <3>2
  <2> QED
    BY <1>1, <1>2, <1>3, <1>8, <1>9, <1>11, <2>1, <2>2, <2>3 DEF LockPriceInv, IsList
<1>12. CASE ~b.quoted
  <2>0. cap_quotes' = cap_quotes /\ l.quote = 0
    BY <1>1, <1>6, <1>12
  <2>1. \A i \in DOMAIN cap_quotes' : \E j \in DOMAIN bought' : bought'[j].quote = i
    BY <1>8, <1>10, <2>0
  <2>3. ASSUME NEW j \in DOMAIN bought'
        PROVE  /\ bought'[j].quote \in DOMAIN cap_quotes' \cup {0}
               /\ bought'[j].quote # 0 =>
                    /\ [user |-> bought'[j].owner, scope |-> bought'[j].scope, price |-> bought'[j].price, at |-> bought'[j].at]
                         = cap_quotes'[bought'[j].quote]
                    /\ \A k \in DOMAIN bought' : bought'[k].quote = bought'[j].quote => k = j
    BY <1>8, <1>10, <2>0
  <2> QED
    <3>1. \A i \in DOMAIN cap_quotes' : FromFresh(cap_quotes'[i].scope, cap_quotes'[i].price, cap_quotes'[i].at)
      BY <2>0 DEF LockPriceInv
    <3>2. IsList(cap_quotes')
      BY <1>7, <2>0 DEF IsList
    <3> QED
      BY <1>1, <1>2, <1>3, <1>8, <2>1, <2>3, <3>1, <3>2 DEF LockPriceInv, IsList
<1> QED
  BY <1>11, <1>12

LEMMA SightingStored ==
  ASSUME LockPriceInv, NEW p, NEW price \in PumpPrice, NEW at \in 0 .. ticks, NEW quality, StoreSighting(p, at, price, quality)
  PROVE  LockPriceInv'
<1> DEFINE k == <<p, at>>
           r == [price |-> price, quality |-> quality]
<1>1. /\ k \notin DOMAIN sightings /\ sightings' = Put(sightings, k, r)
      /\ UNCHANGED <<buying, cap_quotes, bought>> /\ ticks' = ticks
  BY DEF StoreSighting
<1>2. r.price \in Int /\ k[2] \in Int
  BY LockPricingAssumption DEF LockPriceInv
<1> HIDE DEF k, r
<1>3. /\ DOMAIN sightings' = DOMAIN sightings \cup {k} /\ sightings'[k] = r
      /\ \A x \in DOMAIN sightings : sightings'[x] = sightings[x]
  BY <1>1 DEF Put
<1>4. IsFiniteSet(DOMAIN sightings')
  BY <1>3, FS_AddElement DEF LockPriceInv
<1>5. \A x \in DOMAIN sightings' : x[2] \in Int /\ sightings'[x].price \in Int
  BY <1>2, <1>3 DEF LockPriceInv
<1>6. ticks' \in Nat
  BY <1>1 DEF LockPriceInv
<1> QED
  BY <1>1, <1>3, <1>4, <1>5, <1>6, LocksUntouched

LEMMA LockPriceStep == LockPriceInv /\ [LockPricingNext]_lockPriceVars => LockPriceInv'
<1> SUFFICES ASSUME LockPriceInv, [LockPricingNext]_lockPriceVars PROVE LockPriceInv'
  OBVIOUS
<1>1. ASSUME UNCHANGED <<sightings, buying, cap_quotes, bought>>, ticks' \in Nat PROVE LockPriceInv'
  <2>1. /\ DOMAIN sightings \subseteq DOMAIN sightings' /\ \A k \in DOMAIN sightings : sightings'[k] = sightings[k]
        /\ IsFiniteSet(DOMAIN sightings') /\ \A k \in DOMAIN sightings' : k[2] \in Int /\ sightings'[k].price \in Int
    BY <1>1 DEF LockPriceInv
  <2> QED
    BY <1>1, <2>1, LocksUntouched
<1>2. ASSUME NEW c \in LockCall, RollBack(c) PROVE LockPriceInv'
  <2>1. buying' = [buying EXCEPT ![c] = NotCalling] /\ UNCHANGED <<ticks, sightings, cap_quotes, bought>>
    BY <1>2 DEF RollBack, marketVars
  <2> QED
    BY <2>1, CallMoves
<1>3. ASSUME NEW c \in LockCall, NEW u, PriceFromSnapshot(c, u) PROVE LockPriceInv'
  <2> DEFINE b == [pc |-> "priced", user |-> u, scope |-> Everywhere, began |-> ticks, quoted |-> FALSE,
                   price |-> Larger(price_snapshots[Len(price_snapshots)] - SnapshotDiscount, 1)]
  <2>1. buying' = [buying EXCEPT ![c] = b] /\ UNCHANGED <<ticks, sightings, cap_quotes, bought>>
    BY <1>3 DEF PriceFromSnapshot, marketVars
  <2>2. ~b.quoted
    OBVIOUS
  <2> HIDE DEF b
  <2> QED
    BY <2>1, <2>2, CallMoves
<1>4. ASSUME NEW c \in LockCall, NEW u, NEW scope, BeginScoped(c, u, scope) PROVE LockPriceInv'
  <2> DEFINE b == [pc |-> "scoped", user |-> u, scope |-> scope, began |-> ticks]
  <2>1. buying' = [buying EXCEPT ![c] = b] /\ UNCHANGED <<ticks, sightings, cap_quotes, bought>>
    BY <1>4 DEF BeginScoped, marketVars
  <2>2. b.pc # "priced"
    OBVIOUS
  <2> HIDE DEF b
  <2> QED
    BY <2>1, <2>2, CallMoves
<1>5. ASSUME NEW u, LoadOptions(u) PROVE LockPriceInv'
  <2>1. UNCHANGED <<sightings, buying, cap_quotes, bought>> /\ ticks' \in Nat
    BY <1>5 DEF LoadOptions, marketVars, LockPriceInv
  <2> QED
    BY <1>1, <2>1
<1>6. ASSUME NEW price, StoreSnapshot(price) PROVE LockPriceInv'
  <2>1. UNCHANGED <<sightings, buying, cap_quotes, bought>> /\ ticks' \in Nat
    BY <1>6 DEF StoreSnapshot, LockPriceInv
  <2> QED
    BY <1>1, <2>1
<1>7. ASSUME NEW x, Switch(x) PROVE LockPriceInv'
  <2>1. UNCHANGED <<sightings, buying, cap_quotes, bought>> /\ ticks' \in Nat
    BY <1>7 DEF Switch, LockPriceInv
  <2> QED
    BY <1>1, <2>1
<1>8. ASSUME ClockTick PROVE LockPriceInv'
  <2>1. UNCHANGED <<sightings, buying, cap_quotes, bought>> /\ ticks' \in Nat
    BY <1>8 DEF ClockTick, marketVars, LockPriceInv
  <2> QED
    BY <1>1, <2>1
<1>9. CASE UNCHANGED lockPriceVars
  <2>1. UNCHANGED <<sightings, buying, cap_quotes, bought>> /\ ticks' \in Nat
    BY <1>9 DEF lockPriceVars, LockPriceInv
  <2> QED
    BY <1>1, <2>1
<1>10. CASE LockPricingNext
  BY <1>2, <1>3, <1>4, <1>5, <1>6, <1>7, <1>8, <1>10, OptionSelected, LockCommitted, SightingStored DEF LockPricingNext
<1> QED
  BY <1>9, <1>10

\* What the invariant says of the quotes, and what is so of the options at any moment.
LEMMA LocksArePriced == LockPriceInv => LocksPriced
<1> SUFFICES ASSUME LockPriceInv PROVE LocksPriced
  OBVIOUS
<1>1. ShownAsLocked
  <2>1. {p \in Public : Selling(p)} = {p \in Pump : Selling(p)}
    BY DEF Public, Selling
  <2> QED
    BY <2>1 DEF ShownAsLocked, PublicOptions, LockOptions
<1>2. WiderCostsMore
  <2> DEFINE on == {p \in Pump : Selling(p)}
             latest == LatestOf(on, ticks)
             options == OptionsOf(on, ticks)
  <2>1. on \in SUBSET Pump /\ LockOptions(ticks) = options
    BY DEF LockOptions
  <2> SUFFICES ASSUME NEW s \in DOMAIN options, NEW t \in DOMAIN options, Within(s) \subseteq Within(t)
               PROVE  options[s] <= options[t]
    BY <2>1 DEF WiderCostsMore
  <2> HIDE DEF on
  <2>2. PICK p \in Within(s) \cap DOMAIN latest : options[s] = latest[p]
    BY <2>1, OptionIsDearest
  <2>3. \A q \in Within(t) \cap DOMAIN latest : latest[q] <= options[t]
    BY <2>1, OptionIsDearest
  <2> QED
    BY <2>2, <2>3
<1>3. QuotesGrounded
  <2>1. ASSUME NEW i \in DOMAIN cap_quotes
        PROVE  Cardinality({j \in DOMAIN bought : bought[j].quote = i}) = 1
    <3>1. PICK j \in DOMAIN bought : bought[j].quote = i
      BY DEF LockPriceInv
    <3>2. i # 0
      BY NoQuoteZero
    <3>3. \A l \in DOMAIN bought : bought[l].quote = bought[j].quote => l = j
      BY <3>1, <3>2 DEF LockPriceInv
    <3>4. {l \in DOMAIN bought : bought[l].quote = i} = {j}
      BY <3>1, <3>3
    <3> QED
      BY <3>4, FS_Singleton
  <2>2. \A i \in DOMAIN cap_quotes :
          \E p \in Within(cap_quotes[i].scope), k \in DOMAIN sightings :
            k \in Fresh(p, cap_quotes[i].at) /\ sightings[k].price = cap_quotes[i].price
    BY DEF LockPriceInv, FromFresh
  <2> QED
    BY <2>1, <2>2 DEF LockPriceInv, QuotesGrounded
<1> QED
  BY <1>1, <1>2, <1>3 DEF LocksPriced

\* Whatever the feed, the operators and the customers do to the tables meanwhile, the page and
\* the call price a lock alike, a wider lock costs no less, and a quote has its one lock and
\* rests on a verified observation that was fresh when it was made.
THEOREM LocksAlwaysPriced == Spec => []LocksCostWhatIsShown
<1>1. Init => LockPriceInv
  BY LockPriceInit DEF Init
<1>2. ASSUME LockPriceInv, [Next]_<<machine, pricingVars, financeVars>> PROVE LockPriceInv'
  <2>1. [LockPricingNext]_lockPriceVars
    <3>1. CASE PricingNext /\ UNCHANGED <<machine, financeVars>>
      BY <3>1 DEF financeVars
    <3>2. CASE FinanceNext /\ UNCHANGED <<machine, pricingVars>>
      BY <3>2 DEF FinanceNext
    <3>3. CASE UNCHANGED <<machine, pricingVars, financeVars>>
      BY <3>3 DEF financeVars
    <3> QED
      BY <1>2, <3>1, <3>2, <3>3 DEF Next
  <2> QED
    BY <1>2, <2>1, LockPriceStep
<1>3. LockPriceInv => LocksCostWhatIsShown
  BY LocksArePriced DEF LocksCostWhatIsShown
<1> QED
  BY <1>1, <1>2, <1>3, PTL DEF Spec

-----------------------------------------------------------------------------
(***************************************************************************)
(* Rules: what is published answers every fact.                            *)
(***************************************************************************)
\* What is approved was found without errors, and only that is published.
RulesInv ==
  /\ DOMAIN ruleStates \subseteq DOMAIN ruleApprovals
  /\ DOMAIN ruleApprovals \subseteq {v \in DOMAIN validations : validations[v] = {}}
  /\ \A v \in DOMAIN validations : v \in DOMAIN RuleSet /\ validations[v] = RuleSetErrors(RuleSet[v])

LEMMA RulesStep == RulesInv /\ [RulesNext]_ruleVars => RulesInv'
<1> SUFFICES ASSUME RulesInv, [RulesNext]_ruleVars PROVE RulesInv'
  OBVIOUS
<1>1. CASE UNCHANGED ruleVars
  BY <1>1 DEF RulesInv, ruleVars
<1>2. ASSUME NEW v \in DOMAIN RuleSet, validateRuleSet(v) PROVE RulesInv'
  BY <1>2 DEF RulesInv, validateRuleSet, NewKey, Put
<1>3. ASSUME NEW v \in DOMAIN RuleSet, simulateRuleSet(v) PROVE RulesInv'
  BY <1>3 DEF RulesInv, simulateRuleSet
<1>4. ASSUME NEW v \in DOMAIN RuleSet, NEW maker, NEW checker, NEW at, approveRuleSet(v, maker, checker, at) PROVE RulesInv'
  BY <1>4 DEF RulesInv, approveRuleSet, NewKey, Put
<1>5. ASSUME NEW v \in DOMAIN RuleSet, NEW at, publishRuleSet(v, at) PROVE RulesInv'
  BY <1>5 DEF RulesInv, publishRuleSet, Put
<1>6. ASSUME NEW v \in DOMAIN RuleSet, NEW facts, NEW at, evaluateRules(v, facts, at) PROVE RulesInv'
  BY <1>6 DEF RulesInv, evaluateRules
<1> QED
  BY <1>1, <1>2, <1>3, <1>4, <1>5, <1>6 DEF RulesNext

\* Of some rules of a list exactly one comes before all others.
LEMMA OneComesFirst ==
  ASSUME NEW v \in DOMAIN RuleSet, NEW S \in SUBSET DOMAIN RuleSet[v].rules, S # {}
  PROVE  \E i \in S : {k \in S : \A j \in S : k = j \/ Before(RuleSet[v].rules, k, j)} = {i}
<1> DEFINE rules == RuleSet[v].rules
           rank(i) == precedenceOrder[rules[i].precedence]
<1>1. /\ IsFiniteSet(S)
      /\ \A i \in DOMAIN rules : /\ rank(i) \in Int /\ rules[i].precedence \in DOMAIN precedenceOrder
                                /\ rules[i].id \in Int /\ i \in Int
  <2>1. IsFiniteSet(DOMAIN rules)
    <3>1. 1 \in Int /\ Len(rules) \in Int /\ DOMAIN rules = 1 .. Len(rules)
      BY RulesAssumption
    <3> HIDE DEF rules
    <3>2. IsFiniteSet(1 .. Len(rules))
      BY ONLY <3>1, FS_Interval
    <3> QED
      BY <3>1, <3>2
  <2>2. \A p \in DOMAIN precedenceOrder : precedenceOrder[p] \in Int
    BY DEF precedenceOrder
  <2> QED
    BY <2>1, <2>2, RulesAssumption, FS_Subset
<1>2. PICK m \in S : \A i \in S : rank(m) <= rank(i)
  <2> DEFINE f == [i \in S |-> -rank(i)]
  <2>1. \A i \in S : f[i] \in Int
    BY <1>1
  <2>2. PICK m \in S : \A i \in S : f[i] <= f[m]
    <3> HIDE DEF f
    <3> QED
      BY <1>1, <2>1, GreatestOfFinite
  <2>3. \A i \in S : rank(i) \in Int /\ f[i] = -rank(i)
    BY <1>1
  <2> HIDE DEF f, rank
  <2> QED
    BY <2>2, <2>3
<1> DEFINE least == {i \in S : rank(i) = rank(m)}
<1>3. PICK l \in least : \A i \in least : rules[l].id <= rules[i].id
  <2> DEFINE f == [i \in least |-> -rules[i].id]
  <2>1. /\ IsFiniteSet(least) /\ least # {} /\ least \in SUBSET S
        /\ \A i \in least : f[i] \in Int /\ rules[i].id \in Int /\ f[i] = -rules[i].id
    BY <1>1, FS_Subset
  <2> HIDE DEF f, least
  <2>2. PICK n \in least : \A i \in least : f[i] <= f[n]
    BY <2>1, GreatestOfFinite
  <2> QED
    BY <2>1, <2>2
<1> DEFINE tied == {i \in least : rules[i].id = rules[l].id}
<1>4. PICK n \in tied : \A i \in tied : n <= i
  <2> DEFINE f == [i \in tied |-> -i]
  <2>1. /\ IsFiniteSet(tied) /\ tied # {} /\ tied \in SUBSET S
        /\ \A i \in tied : f[i] \in Int /\ i \in Int /\ f[i] = -i
    BY <1>1, FS_Subset
  <2> HIDE DEF f, tied
  <2>2. PICK n \in tied : \A i \in tied : f[i] <= f[n]
    BY <2>1, GreatestOfFinite
  <2> QED
    BY <2>1, <2>2
<1>5. /\ n \in S /\ rank(n) = rank(m) /\ \A j \in S : rank(n) <= rank(j)
      /\ \A j \in S : rank(j) = rank(n) => rules[n].id <= rules[j].id
      /\ \A j \in S : rank(j) = rank(n) /\ rules[j].id = rules[n].id => n <= j
  BY <1>2, <1>3, <1>4
<1>6. \A i, j \in S : rank(i) = rank(j) <=> rules[i].precedence = rules[j].precedence
  <2>1. \A p, q \in DOMAIN precedenceOrder : precedenceOrder[p] = precedenceOrder[q] => p = q
    BY DEF precedenceOrder
  <2> QED
    BY <1>1, <2>1
<1>7. \A i, j \in S :
        Before(rules, i, j) <=>
          \/ rank(i) < rank(j)
          \/ rank(i) = rank(j) /\ rules[i].id < rules[j].id
          \/ rank(i) = rank(j) /\ rules[i].id = rules[j].id /\ i < j
  BY <1>6 DEF Before
<1> HIDE DEF rank, rules, least, tied
<1>8. \A j \in S : n = j \/ Before(rules, n, j)
  <2>1. ASSUME NEW j \in S
        PROVE  /\ rank(j) \in Int /\ rank(n) \in Int /\ rules[j].id \in Int /\ rules[n].id \in Int
               /\ j \in Int /\ n \in Int
    BY <1>1, <1>5 DEF rules
  <2> QED
    BY <1>5, <1>7, <2>1
<1>9. ASSUME NEW k \in S, \A j \in S : k = j \/ Before(rules, k, j) PROVE k = n
  <2>1. /\ rank(k) \in Int /\ rank(n) \in Int /\ rules[k].id \in Int /\ rules[n].id \in Int
        /\ k \in Int /\ n \in Int
    BY <1>1, <1>5 DEF rules
  <2>2. (k = n \/ Before(rules, k, n)) /\ (n = k \/ Before(rules, n, k))
    BY <1>5, <1>8, <1>9
  <2> QED
    BY <1>5, <1>7, <2>1, <2>2
<1> QED
  BY <1>5, <1>8, <1>9 DEF rules

LEMMA RulesAnswer == RulesInv => PublishedAlwaysAnswers
<1> SUFFICES ASSUME RulesInv, NEW v \in DOMAIN ruleStates, NEW facts \in Facts
             PROVE  LET rules == RuleSet[v].rules
                        matching == {i \in DOMAIN rules : Matches(rules[i], facts)}
                    IN /\ matching # {}
                       /\ Cardinality(Deciding(RuleSet[v], facts)) = 1
                       /\ \A i \in Deciding(RuleSet[v], facts), j \in matching :
                            /\ precedenceOrder[rules[i].precedence] <= precedenceOrder[rules[j].precedence]
                            /\ i # j /\ rules[i].precedence = rules[j].precedence /\ rules[i].id = rules[j].id =>
                                 i < j /\ rules[i].version # rules[j].version
  BY DEF PublishedAlwaysAnswers
<1> DEFINE rules == RuleSet[v].rules
           matching == {i \in DOMAIN rules : Matches(rules[i], facts)}
<1>1. v \in DOMAIN RuleSet /\ RuleSetErrors(RuleSet[v]) = {}
  BY DEF RulesInv
<1>2. /\ HasFallback(rules)
      /\ \A i, j \in DOMAIN rules : i # j => rules[i].id # rules[j].id \/ rules[i].version # rules[j].version
  BY <1>1 DEF RuleSetErrors, identity
<1>3. matching # {}
  BY <1>2 DEF HasFallback, Matches
<1>4. Deciding(RuleSet[v], facts) = {k \in matching : \A j \in matching : k = j \/ Before(rules, k, j)}
  BY DEF Deciding
<1>5. PICK i \in matching : Deciding(RuleSet[v], facts) = {i}
  <2>1. matching \in SUBSET DOMAIN RuleSet[v].rules
    OBVIOUS
  <2> HIDE DEF matching
  <2> QED
    BY <1>1, <1>3, <1>4, <2>1, OneComesFirst
<1>6. \A j \in matching :
        /\ precedenceOrder[rules[i].precedence] <= precedenceOrder[rules[j].precedence]
        /\ i # j /\ rules[i].precedence = rules[j].precedence /\ rules[i].id = rules[j].id => i < j
  <2>1. \A j \in matching : i = j \/ Before(rules, i, j)
    BY <1>4, <1>5
  <2>2. \A j \in matching : precedenceOrder[rules[j].precedence] \in Int /\ rules[j].id \in Int
    <3>1. \A p \in DOMAIN precedenceOrder : precedenceOrder[p] \in Int
      BY DEF precedenceOrder
    <3> QED
      BY <1>1, <3>1, RulesAssumption
  <2> HIDE DEF matching, rules
  <2> QED
    BY <2>1, <2>2 DEF Before
<1> QED
  BY <1>2, <1>3, <1>5, <1>6, FS_Singleton
-----------------------------------------------------------------------------
(***************************************************************************)
(* Fleets: a decision stands.                                              *)
(***************************************************************************)
\* A decision was made on the policies there were, and for an instant that had come.
FleetInv ==
  /\ fleetNow \in Int /\ policies \in Seq(PolicyGiven)
  /\ \A d \in fleetDecisions : /\ d.seen \in Nat /\ d.seen <= Len(policies)
                              /\ d.at \in Int /\ d.at <= fleetNow
  /\ FleetDecisionsStand

\* A policy that is not in force at an instant changes no answer for it.
LEMMA NotInForce ==
  ASSUME policies \in Seq(PolicyGiven), NEW p \in PolicyGiven, NEW r, NEW at, ~EffectiveAt(p, at)
  PROVE  evaluateFleetLimit(Append(policies, p), r, at) = evaluateFleetLimit(policies, r, at)
<1> DEFINE more == Append(policies, p)
           mine(of) == {i \in DOMAIN of : /\ of[i].organisation = Vehicle[r.vehicle].organisation
                                          /\ of[i].group = Vehicle[r.vehicle].group /\ EffectiveAt(of[i], at)}
           before(of, i, j) == of[i].version > of[j].version \/ (of[i].version = of[j].version /\ i < j)
           first(of) == {i \in mine(of) : \A j \in mine(of) \ {i} : before(of, i, j)}
<1>1. /\ Len(policies) \in Nat /\ DOMAIN policies = 1 .. Len(policies) /\ DOMAIN more = 1 .. Len(policies) + 1
      /\ \A i \in DOMAIN policies : more[i] = policies[i]
      /\ more[Len(policies) + 1] = p
  OBVIOUS
<1>2. mine(more) = mine(policies)
  BY <1>1
<1>3. mine(policies) \subseteq DOMAIN policies
  OBVIOUS
<1>4. first(more) = first(policies) /\ \A i \in first(policies) : more[i] = policies[i]
  <2> HIDE DEF mine, more
  <2> QED
    BY <1>1, <1>2, <1>3
<1>5. policyAt(more, r.vehicle, at) = policyAt(policies, r.vehicle, at)
  <2>1. policyAt(more, r.vehicle, at) = {more[i] : i \in first(more)} /\ policyAt(policies, r.vehicle, at) = {policies[i] : i \in first(policies)}
    BY DEF policyAt
  <2> HIDE DEF first, more
  <2> QED
    BY <1>4, <2>1
<1> QED
  BY <1>5 DEF evaluateFleetLimit

LEMMA FleetInitial == FleetInit => FleetInv
  BY FleetAssumption DEF FleetInit, FleetInv, FleetDecisionsStand

LEMMA FleetStep == FleetInv /\ [FleetNext]_fleetVars => FleetInv'
<1> SUFFICES ASSUME FleetInv, [FleetNext]_fleetVars PROVE FleetInv'
  OBVIOUS
<1>1. CASE UNCHANGED fleetVars
  BY <1>1 DEF FleetInv, fleetVars, FleetDecisionsStand
<1>2. CASE FleetTick
  BY <1>2 DEF FleetInv, FleetTick, FleetDecisionsStand
<1>3. ASSUME NEW r \in FleetRequest, NEW at \in 0..fleetNow, Judge(r, at) PROVE FleetInv'
  <2> DEFINE d == [request |-> r, at |-> at, answer |-> evaluateFleetLimit(policies, r, at), seen |-> Len(policies)]
  <2>1. fleetDecisions' = fleetDecisions \cup {d} /\ UNCHANGED <<policies, fleetNow>>
    BY <1>3 DEF Judge
  <2>2. policies \in Seq(PolicyGiven) /\ Len(policies) \in Nat /\ DOMAIN policies = 1 .. Len(policies)
    BY DEF FleetInv
  <2>3. ASSUME d.answer = "ALLOWED"
        PROVE  \E i \in 1 .. d.seen :
                 /\ policies[i].organisation = r.organisation /\ EffectiveAt(policies[i], at)
                 /\ r.requested + r.vehicleUsed <= policies[i].perVehicle
                 /\ r.requested + r.organisationUsed <= policies[i].perOrganisation
    <3> DEFINE found == policyAt(policies, r.vehicle, at)
    <3>1. /\ Vehicle[r.vehicle].organisation = r.organisation /\ found # {}
          /\ \A p \in found : ~(r.vehicleUsed + r.requested > p.perVehicle)
          /\ \A p \in found : ~(r.organisationUsed + r.requested > p.perOrganisation)
      <4>1. evaluateFleetLimit(policies, r, at) = "ALLOWED"
        BY <2>3
      <4> QED
        BY <4>1 DEF evaluateFleetLimit
    <3>2. PICK i \in DOMAIN policies :
            /\ policies[i] \in found /\ policies[i].organisation = Vehicle[r.vehicle].organisation
            /\ EffectiveAt(policies[i], at)
      BY <3>1 DEF policyAt
    <3>3. policies[i] \in PolicyGiven
      BY <2>2
    <3>4. {policies[i].perVehicle, policies[i].perOrganisation, r.requested, r.vehicleUsed, r.organisationUsed} \subseteq Int
      BY <3>3, FleetAssumption
    <3>5. i \in 1 .. d.seen
      BY <2>2
    <3>6. ~(r.vehicleUsed + r.requested > policies[i].perVehicle) /\ ~(r.organisationUsed + r.requested > policies[i].perOrganisation)
      BY <3>1, <3>2
    <3> HIDE DEF found, d
    <3> QED
      BY <3>1, <3>2, <3>4, <3>5, <3>6
  <2>4. FleetDecisionsStand'
    <3> SUFFICES ASSUME NEW e \in fleetDecisions'
                 PROVE  /\ (\A i \in e.seen + 1 .. Len(policies) : policies[i].from # e.at) =>
                             evaluateFleetLimit(policies, e.request, e.at) = e.answer
                        /\ e.answer = "ALLOWED" =>
                             \E i \in 1..e.seen :
                               /\ policies[i].organisation = e.request.organisation /\ EffectiveAt(policies[i], e.at)
                               /\ e.request.requested + e.request.vehicleUsed <= policies[i].perVehicle
                               /\ e.request.requested + e.request.organisationUsed <= policies[i].perOrganisation
      BY <2>1 DEF FleetDecisionsStand
    <3>1. CASE e \in fleetDecisions
      BY <3>1 DEF FleetInv, FleetDecisionsStand
    <3>2. CASE e = d
      BY <2>3, <3>2
    <3> QED
      BY <2>1, <3>1, <3>2
  <2> QED
    BY <2>1, <2>2, <2>4 DEF FleetInv
<1>4. ASSUME NEW p \in FleetPolicy, NEW organisation, publishPolicy(organisation, p) PROVE FleetInv'
  <2>1. policies' = Append(policies, p) /\ UNCHANGED <<fleetDecisions, fleetNow>> /\ p \in PolicyGiven
    BY <1>4 DEF publishPolicy, PolicyGiven
  <2>2. /\ policies \in Seq(PolicyGiven) /\ policies' \in Seq(PolicyGiven) /\ Len(policies) \in Nat
        /\ Len(policies') = Len(policies) + 1
        /\ \A i \in 1 .. Len(policies) : policies'[i] = policies[i]
        /\ policies'[Len(policies) + 1] = p
    BY <2>1 DEF FleetInv
  <2>3. ASSUME NEW d \in fleetDecisions, \A i \in d.seen + 1 .. Len(policies') : policies'[i].from # d.at
        PROVE  evaluateFleetLimit(policies', d.request, d.at) = d.answer
    <3>1. d.seen \in Nat /\ d.seen <= Len(policies)
      BY DEF FleetInv
    <3>2. p.from # d.at /\ \A i \in d.seen + 1 .. Len(policies) : policies[i].from # d.at
      BY <2>2, <2>3, <3>1
    <3>3. ~EffectiveAt(p, d.at)
      <4>1. p.from \in Int /\ p.from >= fleetNow
        BY <1>4, <2>1, FleetAssumption DEF publishPolicy, Prospective
      <4> QED
        BY <3>2, <4>1 DEF EffectiveAt, FleetInv
    <3>4. evaluateFleetLimit(policies', d.request, d.at) = evaluateFleetLimit(policies, d.request, d.at)
      BY <2>1, <2>2, <3>3, NotInForce
    <3> QED
      BY <3>2, <3>4 DEF FleetInv, FleetDecisionsStand
  <2>4. FleetDecisionsStand'
    <3>1. \A d \in fleetDecisions : d.seen \in Nat /\ d.seen <= Len(policies)
      BY DEF FleetInv
    <3> QED
      BY <2>1, <2>2, <2>3, <3>1 DEF FleetInv, FleetDecisionsStand
  <2> QED
    BY <2>1, <2>2, <2>4 DEF FleetInv
<1> QED
  BY <1>1, <1>2, <1>3, <1>4 DEF FleetNext

-----------------------------------------------------------------------------
(***************************************************************************)
(* Recommendations: nothing but an escalation while quoting is stopped.    *)
(***************************************************************************)
\* A snapshot that no price should be quoted from.
Unquotable(s) ==
  \/ s.age > MaxControlAge \/ s.coverage < MinCoverage
  \/ s.dispersion \notin 0..MaxDispersion
  \/ ~(s.published /\ s.quoted /\ s.rules) \/ s.components # s.total

\* What a judgement says of the snapshot it is of.
Judged(j) ==
  /\ j.of \in ControlSnapshot /\ j.at >= j.of.at
  /\ Unquotable(j.of) => j.state = "QUOTE_STOPPED" /\ ~j.quotePermitted
  /\ j.state = "HEALTHY" => ~Unquotable(j.of) /\ j.of.fx /\ j.of.quarantined = 0

\* What a recommendation that proposes something stands on.
Supported(r) ==
  /\ Judged(r.assessed)
  /\ r.action # "NONE" =>
       /\ r.citations # {} /\ r.citations = r.draft.cited
       /\ r.citations \subseteq r.assessed.of.evidence \cup r.assessed.of.engines \cup r.seen
       /\ ~r.draft.injected /\ r.draft.confidence >= AbstainBelow
       /\ Unquotable(r.assessed.of) => r.action = "ESCALATE_INCIDENT" /\ ~r.assessed.quotePermitted

ControlInv ==
  /\ control \in ControlSnapshot
  /\ assessed # NoAssessment => Judged(assessed)
  /\ governed # NoRecommendation => Supported(governed)

LEMMA StoppedAsUnquotable ==
  ASSUME NEW s \in ControlSnapshot, Unquotable(s) PROVE BlockedChecks(s) # {}
<1>1. /\ {"FRESHNESS", "COVERAGE", "DISPERSION", "QUOTE", "SPREAD_RECONCILIATION", "RULES_GATES"} = DOMAIN Passes(s)
      /\ Passes(s)["FRESHNESS"] = (s.age <= MaxControlAge) /\ Passes(s)["COVERAGE"] = (s.coverage >= MinCoverage)
      /\ Passes(s)["DISPERSION"] = Agreeing(s) /\ Passes(s)["QUOTE"] = (s.published /\ s.quoted)
      /\ Passes(s)["SPREAD_RECONCILIATION"] = (s.components = s.total) /\ Passes(s)["RULES_GATES"] = s.rules
  BY DEF Passes
<1>2. s.dispersion \notin 0..MaxDispersion => ~Agreeing(s)
  BY ControlAssumption DEF Agreeing
<1>3. s.age \in Int /\ s.coverage \in Int /\ MaxControlAge \in Int /\ MinCoverage \in Int
  BY ControlAssumption
<1>4. \/ ~(s.age <= MaxControlAge) \/ ~(s.coverage >= MinCoverage) \/ ~Agreeing(s)
      \/ ~(s.published /\ s.quoted) \/ ~(s.components = s.total) \/ ~s.rules
  BY <1>2, <1>3 DEF Unquotable
<1> QED
  BY <1>1, <1>4, Zenon DEF BlockedChecks

LEMMA ControlStep == ControlInv /\ [ControlNext]_controlVars => ControlInv'
<1> SUFFICES ASSUME ControlInv, [ControlNext]_controlVars PROVE ControlInv'
  OBVIOUS
<1>1. CASE UNCHANGED controlVars
  BY <1>1 DEF ControlInv, controlVars, Judged, Supported, Unquotable
<1>2. CASE Refresh
  BY <1>2 DEF ControlInv, Refresh, Judged, Supported, Unquotable
<1>3. ASSUME NEW at \in ControlTime, assessPricingControl(at) PROVE ControlInv'
  <2> DEFINE j == [of |-> control, at |-> at, blocking |-> BlockedChecks(control),
                   state |-> IF BlockedChecks(control) # {} THEN "QUOTE_STOPPED"
                             ELSE IF ~control.fx \/ control.quarantined > 0 THEN "DEGRADED" ELSE "HEALTHY",
                   quotePermitted |-> BlockedChecks(control) = {}]
  <2>1. assessed' = j /\ at >= control.at /\ UNCHANGED <<control, governed>> /\ control \in ControlSnapshot
    BY <1>3 DEF assessPricingControl, ControlInv
  <2>2. Unquotable(control) => BlockedChecks(control) # {}
    BY <2>1, StoppedAsUnquotable
  <2>3. control.quarantined \in Nat
    BY <2>1, ControlAssumption
  <2>4. /\ j.of = control /\ j.at = at /\ (j.quotePermitted <=> BlockedChecks(control) = {})
        /\ j.state = "QUOTE_STOPPED" <=> BlockedChecks(control) # {}
        /\ j.state = "HEALTHY" => BlockedChecks(control) = {} /\ control.fx /\ ~(control.quarantined > 0)
    OBVIOUS
  <2>5. Judged(j)
    <3> HIDE DEF j
    <3> QED
      BY <2>1, <2>2, <2>3, <2>4 DEF Judged
  <2> QED
    <3> HIDE DEF j
    <3> QED
      BY <2>1, <2>5 DEF ControlInv
<1>4. ASSUME NEW draft \in Draft, governPricingRecommendation(draft) PROVE ControlInv'
  <2> DEFINE status == StatusOf(draft)
             proposes == status \in {"VERIFY", "SUPPORTED"}
             g == [status |-> status, action |-> IF proposes THEN draft.action ELSE "NONE",
                   citations |-> IF draft.injected THEN {} ELSE draft.cited \cap AllowedEvidence,
                   draft |-> draft, assessed |-> assessed, seen |-> control.evidence]
  <2>1. assessed # NoAssessment /\ governed' = g /\ UNCHANGED <<control, assessed>>
    BY <1>4 DEF governPricingRecommendation
  <2>2. Judged(assessed)
    BY <2>1 DEF ControlInv
  <2>3. ASSUME proposes
        PROVE  /\ ~draft.injected /\ draft.cited \cap AllowedEvidence # {}
               /\ draft.cited \cap AllowedEvidence = draft.cited
               /\ ~(draft.confidence < AbstainBelow)
               /\ assessed.state = "QUOTE_STOPPED" => draft.action = "ESCALATE_INCIDENT"
    BY <2>3 DEF StatusOf
  <2>4. draft.confidence \in Int /\ AbstainBelow \in Int
    BY ControlAssumption
  <2>5. ~proposes => g.action = "NONE"
    OBVIOUS
  <2>6. /\ g.assessed = assessed /\ g.draft = draft /\ g.seen = control.evidence
        /\ proposes => g.action = draft.action
        /\ ~draft.injected => g.citations = draft.cited \cap AllowedEvidence
    OBVIOUS
  <2>7. Supported(g)
    <3> HIDE DEF g, status, proposes
    <3>1. CASE ~proposes
      BY <2>2, <2>5, <2>6, <3>1 DEF Supported
    <3>2. CASE proposes
      BY <2>2, <2>3, <2>4, <2>6, <3>2 DEF Supported, AllowedEvidence, Judged
    <3> QED
      BY <3>1, <3>2
  <2> QED
    <3> HIDE DEF g
    <3> QED
      BY <2>1, <2>7 DEF ControlInv
<1> QED
  BY <1>1, <1>2, <1>3, <1>4 DEF ControlNext

LEMMA ControlGrounded == ControlInv => RecommendationsGrounded
  BY DEF ControlInv, Supported, Judged, Unquotable, RecommendationsGrounded

-----------------------------------------------------------------------------
(***************************************************************************)
(* Bulletins: the active release is whole.                                 *)
(***************************************************************************)
\* Released under this number with this hash, not held back.
ReleasedAs(m, hash) ==
  m \in DOMAIN releases /\ releases[m].workbook.hash = hash /\ releases[m].state # "QUARANTINED"

\* A release that was not held back had every row and corrects one before it.
ReleaseWhole(n) ==
  /\ {"state", "workbook", "assessed", "observations"} \subseteq DOMAIN releases[n]
  /\ releases[n].state \in {"PUBLISHED", "QUARANTINED", "ROLLED_BACK"} /\ releases[n].workbook \in Workbook
  /\ releases[n].state = "PUBLISHED" =>
       /\ releases[n].observations = 8 * Cardinality(Country)
       /\ ~(releases[n].workbook.published > releases[n].assessed) /\ releases[n].assessed \in Int
       /\ releases[n].workbook.supersedes # NoWorkbook =>
            \E m \in 1..(n - 1) : ReleasedAs(m, releases[n].workbook.supersedes)

EuInv ==
  /\ IsList(releases)
  /\ releases # <<>> => configuration.state = "PUBLISHED"
  /\ configuration.state \in {"APPROVED", "PUBLISHED"} =>
       {"maker", "checker", "state"} \subseteq DOMAIN configuration /\ configuration.checker # configuration.maker
  /\ \A h \in known : \E m \in DOMAIN releases : ReleasedAs(m, h)
  /\ \A n \in DOMAIN releases : ReleaseWhole(n)

LEMMA EuInitial == EuInit => EuInv
  BY DEF EuInit, EuInv, IsList

\* Configuring touches no release, and ends with two people.
LEMMA Configured ==
  ASSUME EuInv, UNCHANGED <<known, releases>>, configuration.state # "PUBLISHED",
         configuration'.state \in {"APPROVED", "PUBLISHED"} =>
           {"maker", "checker", "state"} \subseteq DOMAIN configuration' /\ configuration'.checker # configuration'.maker
  PROVE  EuInv'
<1>1. releases = <<>> /\ DOMAIN releases = {} /\ DOMAIN releases' = {}
  BY DEF EuInv
<1>2. known' = {}
  BY <1>1 DEF EuInv
<1> QED
  BY <1>1, <1>2 DEF EuInv, IsList

\* All rows of a workbook that is whole, in both currencies.
LEMMA WholeRows ==
  ASSUME NEW w, w.rows = Country \X Series4
  PROVE  2 * Cardinality(w.rows) = 8 * Cardinality(Country)
<1>1. Cardinality(w.rows) = Cardinality(Country) * 4 /\ Cardinality(Country) \in Nat
  BY EuAssumption, FS_Product, FS_CardinalityType
<1> QED
  BY <1>1

\* What was released stays released when one more follows.
LEMMA ReleaseFollows ==
  ASSUME EuInv, NEW r, releases' = Append(releases, r), configuration.state = "PUBLISHED", UNCHANGED configuration,
         \/ known' = known
         \/ known' = known \cup {r.workbook.hash} /\ r.state # "QUARANTINED",
         {"state", "workbook", "assessed", "observations"} \subseteq DOMAIN r,
         r.state \in {"PUBLISHED", "QUARANTINED"}, r.workbook \in Workbook,
         r.state = "PUBLISHED" =>
           /\ r.observations = 8 * Cardinality(Country)
           /\ ~(r.workbook.published > r.assessed) /\ r.assessed \in Int
           /\ r.workbook.supersedes # NoWorkbook => r.workbook.supersedes \in known
  PROVE  EuInv'
<1>0. PICK k : k = Len(releases) + 1
  OBVIOUS
<1>1. /\ IsList(releases') /\ DOMAIN releases' = DOMAIN releases \cup {k} /\ k \notin DOMAIN releases
      /\ \A i \in DOMAIN releases : releases'[i] = releases[i]
      /\ releases'[k] = r
  BY <1>0, AppendIsList DEF EuInv
<1>2. DOMAIN releases = 1 .. k - 1 /\ k \in Nat
  BY <1>0 DEF EuInv, IsList
<1>3. \A m, h : ReleasedAs(m, h) => ReleasedAs(m, h)'
  BY <1>1 DEF ReleasedAs
<1>4. \A h \in known' : \E m \in DOMAIN releases' : ReleasedAs(m, h)'
  <2>1. r.state # "QUARANTINED" => ReleasedAs(k, r.workbook.hash)'
    BY <1>1 DEF ReleasedAs
  <2>2. \A h \in known : \E m \in DOMAIN releases' : ReleasedAs(m, h)'
    BY <1>1, <1>3 DEF EuInv
  <2> QED
    BY <1>1, <2>1, <2>2
<1>5. ASSUME NEW n \in DOMAIN releases PROVE ReleaseWhole(n)'
  <2>1. ReleaseWhole(n) /\ releases'[n] = releases[n]
    BY <1>1 DEF EuInv
  <2> QED
    BY <1>3, <2>1 DEF ReleaseWhole
<1>6. ReleaseWhole(k)'
  <2>1. ASSUME r.state = "PUBLISHED", r.workbook.supersedes # NoWorkbook
        PROVE  \E m \in 1 .. (k - 1) : ReleasedAs(m, r.workbook.supersedes)'
    <3>1. \E m \in DOMAIN releases : ReleasedAs(m, r.workbook.supersedes)
      BY <2>1 DEF EuInv
    <3> QED
      BY <1>2, <1>3, <3>1
  <2> QED
    BY <1>1, <2>1 DEF ReleaseWhole
<1>7. releases' # <<>>
  BY <1>1
<1> QED
  BY <1>1, <1>4, <1>5, <1>6 DEF EuInv

LEMMA EuStep == EuInv /\ [EuNext]_euVars => EuInv'
<1> SUFFICES ASSUME EuInv, [EuNext]_euVars PROVE EuInv'
  OBVIOUS
<1>1. CASE UNCHANGED euVars
  BY <1>1 DEF EuInv, euVars, ReleaseWhole, ReleasedAs
<1>2. ASSUME NEW p, NEW digest, NEW at, createEuBenchmarkConfiguration(p, digest, at) PROVE EuInv'
  BY <1>2, Configured DEF createEuBenchmarkConfiguration
<1>3. ASSUME NEW p, NEW digest, NEW at, approveEuBenchmarkConfiguration(p, digest, at) PROVE EuInv'
  BY <1>3, Configured DEF approveEuBenchmarkConfiguration
<1>4. ASSUME NEW at, publishEuBenchmarkConfiguration(at) PROVE EuInv'
  <2>1. {"maker", "checker", "state"} \subseteq DOMAIN configuration /\ configuration.checker # configuration.maker
    BY <1>4 DEF publishEuBenchmarkConfiguration, EuInv
  <2>2. configuration' = [configuration EXCEPT !.state = "PUBLISHED"]
    BY <1>4 DEF publishEuBenchmarkConfiguration
  <2>3. {"maker", "checker", "state"} \subseteq DOMAIN configuration' /\ configuration'.checker # configuration'.maker
    BY <2>1, <2>2
  <2> QED
    BY <1>4, <2>3, Configured DEF publishEuBenchmarkConfiguration
<1>5. ASSUME NEW w \in Workbook, NEW at \in Day, NEW ingested \in Day, createEuBenchmarkRelease(w, at, ingested)
      PROVE  EuInv'
  <2>1. CASE ReleaseIssues(w, at) = {}
    <3> DEFINE r == [state |-> "PUBLISHED", workbook |-> w, assessed |-> at, observations |-> 2 * Cardinality(w.rows)]
    <3>1. /\ releases' = Append(releases, r) /\ known' = known \cup {w.hash} /\ UNCHANGED configuration
          /\ configuration.state = "PUBLISHED"
      BY <1>5, <2>1 DEF createEuBenchmarkRelease
    <3>2. /\ ~(w.published > at) /\ w.rows = Country \X Series4
          /\ w.supersedes # NoWorkbook => w.supersedes \in known
      BY <2>1 DEF ReleaseIssues
    <3>3. 2 * Cardinality(w.rows) = 8 * Cardinality(Country)
      BY <3>2, WholeRows
    <3>4. /\ {"state", "workbook", "assessed", "observations"} \subseteq DOMAIN r /\ r.state = "PUBLISHED"
          /\ r.workbook = w /\ r.assessed = at /\ r.observations = 8 * Cardinality(Country) /\ at \in Int
      BY <3>3, EuAssumption
    <3> HIDE DEF r
    <3> QED
      BY <3>1, <3>2, <3>4, ReleaseFollows
  <2>2. CASE ReleaseIssues(w, at) # {}
    <3> DEFINE r == [state |-> "QUARANTINED", workbook |-> w, assessed |-> at, observations |-> 0]
    <3>1. /\ releases' = Append(releases, r) /\ known' = known /\ UNCHANGED configuration
          /\ configuration.state = "PUBLISHED"
      BY <1>5, <2>2 DEF createEuBenchmarkRelease
    <3>4. /\ {"state", "workbook", "assessed", "observations"} \subseteq DOMAIN r /\ r.state = "QUARANTINED"
          /\ r.workbook = w
      OBVIOUS
    <3> HIDE DEF r
    <3> QED
      BY <3>1, <3>4, ReleaseFollows
  <2> QED
    BY <2>1, <2>2
<1>6. ASSUME NEW n \in DOMAIN releases, NEW maker, NEW checker, rollbackEuBenchmarkRelease(n, maker, checker)
      PROVE  EuInv'
  <2>1. /\ releases' = [releases EXCEPT ![n].state = "ROLLED_BACK"] /\ UNCHANGED <<configuration, known>>
        /\ releases[n].state = "PUBLISHED"
    BY <1>6 DEF rollbackEuBenchmarkRelease
  <2>2. IsList(releases) /\ ReleaseWhole(n)
    BY DEF EuInv
  <2> DEFINE x == [releases[n] EXCEPT !.state = "ROLLED_BACK"]
  <2>3. /\ IsList(releases') /\ DOMAIN releases' = DOMAIN releases /\ releases'[n] = x
        /\ \A i \in DOMAIN releases : i # n => releases'[i] = releases[i]
    <3>1. releases \in Seq({releases[i] : i \in DOMAIN releases} \cup {x}) /\ releases' = [releases EXCEPT ![n] = x]
      BY <2>1, <2>2 DEF IsList
    <3> HIDE DEF x
    <3>2. /\ releases' \in Seq({releases[i] : i \in DOMAIN releases} \cup {x}) /\ DOMAIN releases' = DOMAIN releases
          /\ releases'[n] = x /\ Len(releases') = Len(releases)
          /\ \A i \in DOMAIN releases : i # n => releases'[i] = releases[i]
      BY <3>1
    <3>3. releases' \in Seq({releases'[i] : i \in DOMAIN releases'})
      BY <3>2
    <3> QED
      BY <2>2, <3>2, <3>3 DEF IsList
  <2>4. /\ x.state = "ROLLED_BACK" /\ x.workbook = releases[n].workbook /\ DOMAIN x = DOMAIN releases[n]
    BY <2>2 DEF ReleaseWhole
  <2> HIDE DEF x
  <2>5. \A m, h : ReleasedAs(m, h) => ReleasedAs(m, h)'
    BY <2>1, <2>3, <2>4 DEF ReleasedAs
  <2>6. ASSUME NEW i \in DOMAIN releases PROVE ReleaseWhole(i)'
    <3>1. ReleaseWhole(i)
      BY DEF EuInv
    <3>2. CASE i = n
      BY <2>3, <2>4, <3>1, <3>2 DEF ReleaseWhole
    <3>3. CASE i # n
      <4>1. releases'[i] = releases[i]
        BY <2>3, <3>3
      <4> QED
        BY <2>5, <3>1, <4>1 DEF ReleaseWhole
    <3> QED
      BY <3>2, <3>3
  <2>7. releases # <<>>
    BY <2>3
  <2> QED
    BY <2>1, <2>3, <2>5, <2>6, <2>7 DEF EuInv
<1> QED
  BY <1>1, <1>2, <1>3, <1>4, <1>5, <1>6 DEF EuNext

LEMMA EuActive == EuInv => ActiveReleaseComplete
<1> SUFFICES ASSUME EuInv, NEW at \in Day
             PROVE  /\ Active(at) # 0 =>
                         LET w == releases[Active(at)].workbook IN
                         /\ releases[Active(at)].observations = 8 * Cardinality(Country)
                         /\ at - w.effective <= 10 /\ w.published <= releases[Active(at)].assessed
                         /\ w.supersedes # NoWorkbook =>
                              \E m \in 1..(Active(at) - 1) : /\ releases[m].workbook.hash = w.supersedes
                                                    /\ releases[m].state # "QUARANTINED"
                         /\ configuration.checker # configuration.maker
                    /\ PublicationHealthy(at) =>
                         Alerts(at) \subseteq {"STALE_RELEASE_PRESENT", "EXPIRED_RELEASE_PRESENT"}
  BY DEF ActiveReleaseComplete
<1>1. PublicationHealthy(at) => Alerts(at) \subseteq {"STALE_RELEASE_PRESENT", "EXPIRED_RELEASE_PRESENT"}
  BY DEF PublicationHealthy, Alerts
<1>2. SUFFICES ASSUME Active(at) # 0
               PROVE  LET w == releases[Active(at)].workbook IN
                         /\ releases[Active(at)].observations = 8 * Cardinality(Country)
                         /\ at - w.effective <= 10 /\ w.published <= releases[Active(at)].assessed
                         /\ w.supersedes # NoWorkbook =>
                              \E m \in 1..(Active(at) - 1) : /\ releases[m].workbook.hash = w.supersedes
                                                    /\ releases[m].state # "QUARANTINED"
                         /\ configuration.checker # configuration.maker
  BY <1>1
<1> DEFINE current == {n \in DOMAIN releases : Health(releases[n], at) = "CURRENT"}
           n == Active(at)
<1>3. n \in current
  <2>1. current # {} /\ n = Max(current)
    BY <1>2 DEF Active
  <2>2. DOMAIN releases = 1 .. Len(releases) /\ Len(releases) \in Nat
    BY DEF EuInv, IsList
  <2>3. current \in SUBSET (0 .. Len(releases))
    BY <2>2
  <2> HIDE DEF current, n
  <2>4. \E m \in current : \A y \in current : m >= y
    BY <2>1, <2>2, <2>3, GreatestNumber
  <2> QED
    BY <2>1, <2>4 DEF Max
<1>4. ReleaseWhole(n) /\ n \in DOMAIN releases
  BY <1>3 DEF EuInv
<1>5. releases[n].state = "PUBLISHED" /\ at - releases[n].workbook.effective <= 10
  BY <1>3, <1>4 DEF Health, ReleaseWhole
<1>6. configuration.checker # configuration.maker
  BY <1>4 DEF EuInv
<1>7. releases[n].workbook.published \in Int
  BY <1>4, EuAssumption DEF ReleaseWhole
<1> HIDE DEF n
<1> QED
  <2>1. /\ releases[n].observations = 8 * Cardinality(Country)
        /\ ~(releases[n].workbook.published > releases[n].assessed) /\ releases[n].assessed \in Int
        /\ releases[n].workbook.supersedes # NoWorkbook =>
             \E m \in 1..(n - 1) : ReleasedAs(m, releases[n].workbook.supersedes)
    BY <1>4, <1>5 DEF ReleaseWhole
  <2> QED
    BY <1>5, <1>6, <1>7, <2>1 DEF ReleasedAs, n

-----------------------------------------------------------------------------
(***************************************************************************)
(* Basis models: what is in use earned it on points it had not seen.       *)
(***************************************************************************)
\* A list of whole numbers is one.
LEMMA ListsOfInts ==
  ASSUME NEW n \in Nat, NEW f \in [1..n -> Int]
  PROVE  f \in Seq(Int) /\ Len(f) = n
  OBVIOUS

\* A rounded ratio is a whole number.
LEMMA RoundedWhole ==
  ASSUME NEW n \in Int, NEW d \in Nat \ {0}
  PROVE  Rounded(n, d) \in Int
<1> DEFINE a == 2 * n + d
           b == 2 * d
<1>1. a \in Int /\ b \in Nat \ {0}
  OBVIOUS
<1> HIDE DEF a, b
<1>2. a \div b \in Int
  BY <1>1
<1> QED
  BY <1>2 DEF Rounded, a, b

\* Of a list that is not empty, the mean and the median are whole numbers.
LEMMA ForecastWhole ==
  ASSUME NEW v \in Seq(Int), Len(v) # 0, NEW strategy
  PROVE  mean(v) \in Int /\ forecast(strategy, v) \in Int
<1> DEFINE n == Len(v)
           middle == n \div 2
<1>1. n \in Nat \ {0} /\ DOMAIN v = 1 .. n /\ \A i \in DOMAIN v : v[i] \in Int
  BY LenProperties
<1>2. IsFiniteSet(DOMAIN v) /\ Cardinality(DOMAIN v) = n
  <2>1. 1 \in Int /\ n \in Int /\ n + 1 - 1 = n
    BY <1>1
  <2> HIDE DEF n
  <2> QED
    BY <1>1, <2>1, FS_Interval
<1>3. mean(v) \in Int
  <2>1. Total(v) \in Int
    BY ONLY <1>1, <1>2, TotalTakes
  <2> QED
    BY <1>1, <2>1, RoundedWhole DEF mean
<1>4. ASSUME NEW k \in 1 .. n PROVE Ranked(v, k) \in Int
  <2>1. k \in 1 .. Cardinality(DOMAIN v)
    BY <1>2
  <2>2. \E s \in DOMAIN v : Ranked(v, k) = v[s]
    BY ONLY <1>1, <1>2, <2>1, RankedListed
  <2> QED
    BY <1>1, <2>2
<1>5. median(v) = IF n % 2 = 1 THEN Ranked(v, middle + 1)
                  ELSE Rounded(Ranked(v, middle) + Ranked(v, middle + 1), 2)
  BY DEF median
<1> HIDE DEF n
<1>6. middle + 1 \in 1 .. n /\ (n % 2 # 1 => middle \in 1 .. n)
  BY <1>1
<1> HIDE DEF middle
<1>7. median(v) \in Int
  <2>1. CASE n % 2 = 1
    BY <1>4, <1>5, <1>6, <2>1
  <2>2. CASE n % 2 # 1
    <3> DEFINE s == Ranked(v, middle) + Ranked(v, middle + 1)
    <3>1. s \in Int
      BY <1>4, <1>6, <2>2
    <3> HIDE DEF s
    <3>2. Rounded(s, 2) \in Int
      BY <3>1, RoundedWhole
    <3> QED
      BY <1>5, <2>2, <3>2 DEF s
  <2> QED
    BY <2>1, <2>2
<1> QED
  BY <1>3, <1>7 DEF forecast

\* The window before a point of the series, or before the one to come.
LEMMA HistoryWhole ==
  ASSUME NEW p \in Seq(Int), NEW w \in Nat \ {0}, NEW i \in w + 1 .. Len(p) + 1
  PROVE  /\ History(p, w, i) \in Seq(Int) /\ Len(History(p, w, i)) = w
         /\ \A k \in 1 .. w : History(p, w, i)[k] = p[i - w + k - 1]
<1> DEFINE m == i - w
           n == i - 1
<1>1. Len(p) \in Nat /\ \A k \in 1 .. Len(p) : p[k] \in Int
  BY LenProperties
<1>2. m \in Int /\ n \in Int /\ n - m + 1 = w /\ m <= n
  BY <1>1
<1>3. \A k \in m .. n : p[k] \in Int
  BY <1>1
<1> HIDE DEF m, n
<1>4. /\ SubSeq(p, m, n) \in Seq(Int)
      /\ Len(SubSeq(p, m, n)) = IF m <= n THEN n - m + 1 ELSE 0
      /\ \A k \in 1 .. n - m + 1 : SubSeq(p, m, n)[k] = p[m + k - 1]
  BY ONLY <1>2, <1>3, SubSeqProperties
<1> QED
  BY <1>2, <1>4 DEF m, n, History

\* The window before a point does not depend on that point or the later ones.
LEMMA NoLookahead ==
  ASSUME NEW p \in Seq(Int), NEW q \in Seq(Int), Len(q) = Len(p),
         NEW w \in Nat \ {0}, NEW i \in w + 1 .. Len(p) + 1,
         \A k \in 1 .. Len(p) : k < i => q[k] = p[k]
  PROVE  History(q, w, i) = History(p, w, i)
<1>0. Len(p) \in Nat
  BY LenProperties
<1>1. i \in w + 1 .. Len(q) + 1
  OBVIOUS
<1>2. /\ History(p, w, i) \in Seq(Int) /\ Len(History(p, w, i)) = w
      /\ \A k \in 1 .. w : History(p, w, i)[k] = p[i - w + k - 1]
  BY HistoryWhole
<1>3. /\ History(q, w, i) \in Seq(Int) /\ Len(History(q, w, i)) = w
      /\ \A k \in 1 .. w : History(q, w, i)[k] = q[i - w + k - 1]
  BY <1>1, HistoryWhole
<1>4. ASSUME NEW k \in 1 .. w PROVE i - w + k - 1 \in 1 .. Len(p) /\ i - w + k - 1 < i
  <2>1. PICK n \in Nat : n = Len(p)
    BY <1>0
  <2>2. i \in Int /\ w + 1 <= i /\ i <= n + 1 /\ k \in Int /\ 1 <= k /\ k <= w
    BY <2>1
  <2>3. i - w + k - 1 \in 1 .. n /\ i - w + k - 1 < i
    BY ONLY <2>2, w \in Nat, n \in Nat
  <2> QED
    BY <2>1, <2>3
<1>5. \A k \in 1 .. w : History(q, w, i)[k] = History(p, w, i)[k]
  BY <1>2, <1>3, <1>4
<1> QED
  BY <1>2, <1>3, <1>5, SeqEqual

-----------------------------------------------------------------------------
\* What the tests of a candidate say that can be tested, of a series and its limits.
Tried(p, c, h, policy) ==
  /\ p \in Seq(Int) /\ h \in Nat /\ c \in Candidate /\ policy \in BasisPolicy
  /\ Testable(p, c, h, policy)

\* Every point held out has its window before it.
LEMMA TriedHas ==
  ASSUME NEW p, NEW c, NEW h, NEW policy, Tried(p, c, h, policy)
  PROVE  /\ Len(p) \in Nat /\ DOMAIN p = 1 .. Len(p) /\ \A i \in 1 .. Len(p) : p[i] \in Int
         /\ c.window \in Nat \ {0} /\ c.id \in Int /\ h \in Nat \ {0}
         /\ {policy.meanError, policy.maximumError, policy.bias} \subseteq Int
         /\ \A i \in Len(p) - h + 1 .. Len(p) + 1 : i \in c.window + 1 .. Len(p) + 1
<1>1. c.window \in Int /\ c.id \in Int
  BY BasisAssumption DEF Tried
<1>2. {policy.meanError, policy.maximumError, policy.bias} \subseteq Int
  BY BasisAssumption DEF Tried
<1>3. policy.minimumHoldout \in Nat \ {0}
  BY BasisAssumption DEF Tried
<1>4. Len(p) \in Nat /\ DOMAIN p = 1 .. Len(p) /\ \A i \in 1 .. Len(p) : p[i] \in Int
  BY LenProperties DEF Tried
<1>5. c.window >= 2 /\ h >= policy.minimumHoldout /\ Len(p) - h >= c.window /\ h \in Nat
  BY DEF Tried, Testable
<1>6. c.window \in Nat \ {0} /\ h \in Nat \ {0}
  BY <1>1, <1>3, <1>5
<1>7. ASSUME NEW i \in Len(p) - h + 1 .. Len(p) + 1 PROVE i \in c.window + 1 .. Len(p) + 1
  <2>0. Len(p) \in Nat
    BY <1>4
  <2>1. PICK n \in Nat : n = Len(p)
    BY ONLY <2>0
  <2>2. PICK w \in Nat : w = c.window
    BY <1>6
  <2>3. i \in n - h + 1 .. n + 1 /\ n - h >= w /\ h \in Nat
    BY <1>5, <2>1, <2>2
  <2>4. i \in w + 1 .. n + 1
    BY ONLY <2>3, n \in Nat, w \in Nat
  <2> QED
    BY <2>1, <2>2, <2>4
<1> QED
  BY <1>1, <1>2, <1>4, <1>6, <1>7

\* The forecast of a point held out, and of the one to come, is a whole number.
LEMMA ForecastOfTried ==
  ASSUME NEW p, NEW c, NEW h, NEW policy, Tried(p, c, h, policy),
         NEW i \in Len(p) - h + 1 .. Len(p) + 1
  PROVE  forecast(c.strategy, History(p, c.window, i)) \in Int
<1> DEFINE w == c.window
           v == History(p, w, i)
<1>1. w \in Nat \ {0} /\ i \in w + 1 .. Len(p) + 1 /\ p \in Seq(Int)
  BY TriedHas DEF Tried
<1> HIDE DEF w
<1>2. v \in Seq(Int) /\ Len(v) = w
  BY ONLY <1>1, HistoryWhole
<1> HIDE DEF v
<1>3. forecast(c.strategy, v) \in Int
  BY <1>1, <1>2, ForecastWhole
<1> QED
  BY <1>3 DEF v, w

\* The error at a point held out.
ErrorAt(p, c, i) == forecast(c.strategy, History(p, c.window, i)) - p[i]

\* The measures of a candidate are whole, and the largest error bounds every one.
LEMMA Measures ==
  ASSUME NEW p, NEW c, NEW h, NEW policy, Tried(p, c, h, policy)
  PROVE  /\ \A i \in Len(p) - h + 1 .. Len(p) : ErrorAt(p, c, i) \in Int
         /\ MeanError(p, c, h) \in Int /\ Bias(p, c, h) \in Int /\ Abs(Bias(p, c, h)) \in Int
         /\ \A bound \in Int : LargestError(p, c, h) <= bound
              <=> \A i \in Len(p) - h + 1 .. Len(p) : Abs(ErrorAt(p, c, i)) <= bound
<1> DEFINE n == Len(p)
           E == Errors(p, c, h)
           A == [k \in 1 .. h |-> Abs(E[k])]
<1>1. /\ n \in Nat /\ h \in Nat \ {0}
      /\ \A i \in 1 .. n : p[i] \in Int
      /\ \A i \in n - h + 1 .. n + 1 : i \in c.window + 1 .. n + 1
      /\ c.window \in Nat \ {0}
  BY TriedHas
<1>2. \A i \in n - h + 1 .. n : i \in n - h + 1 .. n + 1 /\ i \in 1 .. n
  BY <1>1
<1>3. ASSUME NEW i \in n - h + 1 .. n PROVE ErrorAt(p, c, i) \in Int
  <2>1. i \in n - h + 1 .. n + 1 /\ i \in 1 .. n
    BY <1>2
  <2>2. forecast(c.strategy, History(p, c.window, i)) \in Int
    BY <2>1, ForecastOfTried
  <2> QED
    BY <1>1, <2>1, <2>2 DEF ErrorAt
<1>4. \A k \in 1 .. h : n - h + k \in n - h + 1 .. n
  BY <1>1
<1>5. E = [k \in 1 .. h |-> ErrorAt(p, c, n - h + k)]
  BY DEF Errors, ErrorAt
<1>6. E \in [1 .. h -> Int]
  BY <1>3, <1>4, <1>5
<1>7. \A k \in 1 .. h : E[k] = ErrorAt(p, c, n - h + k)
  BY <1>5
<1>8. MeanError(p, c, h) = mean(A) /\ Bias(p, c, h) = mean(E)
  BY DEF MeanError, Bias
<1>9. LargestError(p, c, h) = Max({A[k] : k \in 1 .. h})
  <2>1. {A[k] : k \in 1 .. h} = {Abs(E[k]) : k \in 1 .. h}
    OBVIOUS
  <2> HIDE DEF E
  <2> QED
    BY <2>1 DEF LargestError, E
<1> HIDE DEF E
<1>10. A \in [1 .. h -> Int] /\ \A k \in 1 .. h : A[k] = Abs(E[k])
  BY <1>6 DEF Abs
<1> HIDE DEF A
<1>11. mean(E) \in Int /\ mean(A) \in Int
  <2>1. E \in Seq(Int) /\ Len(E) = h /\ A \in Seq(Int) /\ Len(A) = h
    BY <1>1, <1>6, <1>10, ListsOfInts
  <2> QED
    BY <1>1, <2>1, ForecastWhole
<1>12. Abs(Bias(p, c, h)) \in Int
  BY <1>8, <1>11 DEF Abs
<1>13. PICK top \in 1 .. h : \A k \in 1 .. h : A[k] <= A[top]
  <2>1. IsFiniteSet(1 .. h) /\ 1 .. h # {} /\ \A k \in 1 .. h : A[k] \in Int
    <3>1. 1 \in Int /\ h \in Int
      BY <1>1
    <3>2. IsFiniteSet(1 .. h)
      BY ONLY <3>1, FS_Interval
    <3>3. 1 \in 1 .. h
      BY <1>1
    <3> QED
      BY <1>10, <3>2, <3>3
  <2> DEFINE S == 1 .. h
  <2> HIDE DEF S
  <2>2. IsFiniteSet(S) /\ S # {} /\ \A k \in S : A[k] \in Int
    BY <2>1 DEF S
  <2>3. \E m \in S : \A k \in S : A[k] <= A[m]
    BY ONLY <2>2, GreatestOfFinite
  <2> QED
    BY <2>3 DEF S
<1> DEFINE V == {A[k] : k \in 1 .. h}
<1>14. Max(V) \in V /\ \A y \in V : Max(V) >= y
  <2>1. A[top] \in V /\ \A y \in V : A[top] >= y
    BY <1>10, <1>13
  <2> HIDE DEF V
  <2> QED
    BY <2>1 DEF Max
<1>15. ASSUME NEW bound \in Int
       PROVE  LargestError(p, c, h) <= bound
              <=> \A i \in n - h + 1 .. n : Abs(ErrorAt(p, c, i)) <= bound
  <2>1. V \subseteq Int
    BY <1>10
  <2>2. LargestError(p, c, h) <= bound <=> \A k \in 1 .. h : A[k] <= bound
    <3>1. \A k \in 1 .. h : A[k] \in V
      OBVIOUS
    <3>2. \A y \in V : \E k \in 1 .. h : y = A[k]
      OBVIOUS
    <3> HIDE DEF V
    <3>3. LargestError(p, c, h) = Max(V)
      BY <1>9 DEF V
    <3> DEFINE most == Max(V)
    <3>4. most \in V /\ most \in Int /\ \A y \in V : y \in Int /\ most >= y
      BY <1>14, <2>1
    <3>5. LargestError(p, c, h) = most
      BY <3>3
    <3> HIDE DEF most
    <3>6. ASSUME \A k \in 1 .. h : A[k] <= bound PROVE most <= bound
      BY <3>2, <3>4, <3>6
    <3>7. ASSUME most <= bound, NEW k \in 1 .. h PROVE A[k] <= bound
      <4>1. A[k] \in V
        BY <3>1
      <4>2. A[k] \in Int /\ most >= A[k] /\ most \in Int
        BY <3>4, <4>1
      <4> QED
        BY <3>7, <4>2
    <3> QED
      BY <3>5, <3>6, <3>7
  <2>3. \A k \in 1 .. h : A[k] = Abs(ErrorAt(p, c, n - h + k))
    BY <1>7, <1>10
  <2>4. \A i \in n - h + 1 .. n : i - n + h \in 1 .. h /\ n - h + (i - n + h) = i
    BY <1>1
  <2>5. (\A k \in 1 .. h : A[k] <= bound) <=> \A i \in n - h + 1 .. n : Abs(ErrorAt(p, c, i)) <= bound
    <3>1. ASSUME \A k \in 1 .. h : A[k] <= bound, NEW i \in n - h + 1 .. n
          PROVE  Abs(ErrorAt(p, c, i)) <= bound
      <4> DEFINE k == i - n + h
      <4>1. k \in 1 .. h /\ n - h + k = i
        BY <2>4
      <4> HIDE DEF k
      <4>2. A[k] <= bound /\ A[k] = Abs(ErrorAt(p, c, n - h + k))
        BY <2>3, <3>1, <4>1
      <4> QED
        BY <4>1, <4>2
    <3>2. ASSUME \A i \in n - h + 1 .. n : Abs(ErrorAt(p, c, i)) <= bound, NEW k \in 1 .. h
          PROVE  A[k] <= bound
      BY <1>4, <2>3, <3>2
    <3> QED
      BY <3>1, <3>2
  <2> QED
    BY <2>2, <2>5
<1> QED
  BY <1>3, <1>8, <1>11, <1>12, <1>15

\* WithinPolicy the policy: it can be tested and every measure of it keeps its limit.
WithinPolicy(p, c, h, policy) ==
  /\ Testable(p, c, h, policy)
  /\ \A i \in Len(p) - h + 1 .. Len(p) : Abs(ErrorAt(p, c, i)) <= policy.maximumError
  /\ MeanError(p, c, h) <= policy.meanError
  /\ Abs(Bias(p, c, h)) <= policy.bias

LEMMA WithinPasses ==
  ASSUME NEW p \in Seq(Int), NEW h \in Nat, NEW policy \in BasisPolicy, NEW c \in Candidate
  PROVE  evaluateBasisCandidate(p, c, h, policy) <=> WithinPolicy(p, c, h, policy)
<1> SUFFICES ASSUME Testable(p, c, h, policy)
             PROVE  evaluateBasisCandidate(p, c, h, policy) <=> WithinPolicy(p, c, h, policy)
  BY DEF evaluateBasisCandidate, WithinPolicy
<1>1. Tried(p, c, h, policy)
  BY DEF Tried
<1>2. policy.maximumError \in Int
  BY <1>1, TriedHas
<1>3. LargestError(p, c, h) <= policy.maximumError
        <=> \A i \in Len(p) - h + 1 .. Len(p) : Abs(ErrorAt(p, c, i)) <= policy.maximumError
  BY <1>1, <1>2, Measures
<1> QED
  BY <1>3 DEF evaluateBasisCandidate, WithinPolicy

\* Whole measures order candidates: who is better is not worse, and the other is not better.
Ranking(p, h, m) == <<MeanError(p, m, h), Abs(Bias(p, m, h)), m.window, m.id>>

LEMMA BetterOrders ==
  ASSUME NEW p, NEW h, NEW policy, NEW c, NEW d, Tried(p, c, h, policy), Tried(p, d, h, policy),
         Better(p, h, c, d)
  PROVE  /\ ~Better(p, h, d, c)
         /\ \/ MeanError(p, c, h) < MeanError(p, d, h)
            \/ MeanError(p, c, h) = MeanError(p, d, h) /\ Abs(Bias(p, c, h)) <= Abs(Bias(p, d, h))
<1> DEFINE x == Ranking(p, h, c)
           y == Ranking(p, h, d)
<1>1. \A k \in 1 .. 4 : x[k] \in Int /\ y[k] \in Int
  <2>1. MeanError(p, c, h) \in Int /\ Abs(Bias(p, c, h)) \in Int /\ c.window \in Int /\ c.id \in Int
    BY Measures, TriedHas
  <2>2. MeanError(p, d, h) \in Int /\ Abs(Bias(p, d, h)) \in Int /\ d.window \in Int /\ d.id \in Int
    BY Measures, TriedHas
  <2> QED
    BY <2>1, <2>2 DEF Ranking
<1>2. /\ Better(p, h, c, d) <=> \E k \in 1 .. 4 : x[k] < y[k] /\ \A l \in 1 .. (k - 1) : x[l] = y[l]
      /\ Better(p, h, d, c) <=> \E k \in 1 .. 4 : y[k] < x[k] /\ \A l \in 1 .. (k - 1) : y[l] = x[l]
  BY DEF Better, Ranking
<1>3. /\ x[1] = MeanError(p, c, h) /\ x[2] = Abs(Bias(p, c, h))
      /\ y[1] = MeanError(p, d, h) /\ y[2] = Abs(Bias(p, d, h))
  BY DEF Ranking
<1> HIDE DEF x, y
<1>4. PICK k \in 1 .. 4 : x[k] < y[k] /\ \A l \in 1 .. (k - 1) : x[l] = y[l]
  BY <1>2
<1>5. ~Better(p, h, d, c)
  <2> SUFFICES ASSUME NEW j \in 1 .. 4, y[j] < x[j], \A l \in 1 .. (j - 1) : y[l] = x[l]
               PROVE  FALSE
    BY <1>2
  <2>1. CASE j < k
    <3>1. j \in 1 .. (k - 1)
      BY <2>1
    <3> QED
      BY <1>1, <1>4, <3>1
  <2>2. CASE k < j
    <3>1. k \in 1 .. (j - 1)
      BY <2>2
    <3> QED
      BY <1>1, <1>4, <3>1
  <2>3. CASE j = k
    BY <1>1, <1>4, <2>3
  <2> QED
    BY <2>1, <2>2, <2>3
<1>6. \/ x[1] < y[1]
      \/ x[1] = y[1] /\ x[2] <= y[2]
  <2>1. CASE k = 1
    BY <1>4, <2>1
  <2>2. CASE k = 2
    <3>1. 1 \in 1 .. (k - 1)
      BY <2>2
    <3> QED
      BY <1>1, <1>4, <2>2, <3>1
  <2>3. CASE k > 2
    <3>1. 1 \in 1 .. (k - 1) /\ 2 \in 1 .. (k - 1) /\ 2 \in 1 .. 4
      BY <2>3
    <3> QED
      BY <1>1, <1>4, <3>1
  <2> QED
    BY <2>1, <2>2, <2>3
<1> QED
  BY <1>3, <1>5, <1>6

\* The one that is selected is within the policy, no worse than any other that is, and alone.
LEMMA SelectedIsBest ==
  ASSUME NEW p \in Seq(Int), NEW h \in Nat, NEW policy \in BasisPolicy,
         NEW c \in SelectedModel(p, h, policy)
  PROVE  /\ c \in Candidate /\ WithinPolicy(p, c, h, policy) /\ SelectedModel(p, h, policy) = {c}
         /\ \A m \in Candidate : WithinPolicy(p, m, h, policy) =>
              \/ MeanError(p, c, h) < MeanError(p, m, h)
              \/ MeanError(p, c, h) = MeanError(p, m, h) /\ Abs(Bias(p, c, h)) <= Abs(Bias(p, m, h))
<1> DEFINE passing == {m \in Candidate : evaluateBasisCandidate(p, m, h, policy)}
<1>1. \A m : m \in SelectedModel(p, h, policy)
              <=> m \in passing /\ \A d \in passing \ {m} : Better(p, h, m, d)
  BY DEF SelectedModel
<1>2. \A m \in passing : m \in Candidate /\ WithinPolicy(p, m, h, policy) /\ Tried(p, m, h, policy)
  BY WithinPasses DEF Tried, WithinPolicy
<1>3. \A m \in Candidate : WithinPolicy(p, m, h, policy) => m \in passing
  BY WithinPasses
<1> HIDE DEF passing
<1>4. c \in passing /\ \A d \in passing \ {c} : Better(p, h, c, d)
  BY <1>1
<1>5. ASSUME NEW m \in SelectedModel(p, h, policy) PROVE m = c
  <2> SUFFICES ASSUME m # c PROVE FALSE
    OBVIOUS
  <2>1. m \in passing /\ Better(p, h, m, c) /\ Better(p, h, c, m)
    BY <1>1, <1>4
  <2> QED
    BY <1>2, <1>4, <2>1, BetterOrders
<1>6. ASSUME NEW m \in Candidate, WithinPolicy(p, m, h, policy)
      PROVE  \/ MeanError(p, c, h) < MeanError(p, m, h)
             \/ MeanError(p, c, h) = MeanError(p, m, h) /\ Abs(Bias(p, c, h)) <= Abs(Bias(p, m, h))
  <2>1. CASE m = c
    <3>1. Abs(Bias(p, c, h)) \in Int
      BY <1>2, <1>4, Measures
    <3> QED
      BY <2>1, <3>1
  <2>2. CASE m # c
    <3>1. m \in passing
      BY <1>3, <1>6
    <3> QED
      BY <1>2, <1>4, <2>2, <3>1, BetterOrders
  <2> QED
    BY <2>1, <2>2
<1> QED
  BY <1>2, <1>4, <1>5, <1>6

\* What a forecast is measured at does not enter it.
LEMMA ForecastUnseen ==
  ASSUME NEW p, NEW c, NEW h, NEW policy, Tried(p, c, h, policy),
         NEW i \in Len(p) - h + 1 .. Len(p), NEW x \in Int
  PROVE  LET other == [k \in DOMAIN p |-> IF k >= i THEN x ELSE p[k]]
         IN ErrorAt(other, c, i) + x = ErrorAt(p, c, i) + p[i]
<1> DEFINE n == Len(p)
           w == c.window
           other == [k \in DOMAIN p |-> IF k >= i THEN x ELSE p[k]]
<1>1. /\ n \in Nat /\ DOMAIN p = 1 .. n /\ \A k \in 1 .. n : p[k] \in Int
      /\ w \in Nat \ {0} /\ h \in Nat \ {0} /\ p \in Seq(Int)
      /\ \A k \in n - h + 1 .. n + 1 : k \in w + 1 .. n + 1
  BY TriedHas DEF Tried
<1>2. i \in n - h + 1 .. n + 1 /\ i \in w + 1 .. n + 1
  <2>1. i \in n - h + 1 .. n + 1
    BY <1>1
  <2> QED
    BY <1>1, <2>1
<1>3. i \in 1 .. n
  BY <1>1, <1>2
<1>4. other \in [1 .. n -> Int] /\ other[i] = x /\ \A k \in 1 .. n : k < i => other[k] = p[k]
  BY <1>1, <1>3
<1> DEFINE f == forecast(c.strategy, History(p, w, i))
<1>5. f \in Int
  BY <1>2, ForecastOfTried
<1>6. ErrorAt(p, c, i) = f - p[i] /\ ErrorAt(other, c, i) = forecast(c.strategy, History(other, w, i)) - other[i]
  BY DEF ErrorAt
<1> HIDE DEF other, w, n
<1>7. other \in Seq(Int) /\ Len(other) = n
  BY ONLY <1>1, <1>4, ListsOfInts
<1>8. History(other, w, i) = History(p, w, i)
  <2>1. Len(other) = Len(p) /\ i \in w + 1 .. Len(p) + 1 /\ \A k \in 1 .. Len(p) : k < i => other[k] = p[k]
    BY <1>2, <1>4, <1>7 DEF n
  <2> QED
    BY ONLY <1>1, <1>7, <2>1, NoLookahead
<1>9. ErrorAt(other, c, i) = f - x
  BY <1>4, <1>6, <1>8
<1> HIDE DEF f
<1>10. p[i] \in Int
  BY <1>1, <1>3
<1>11. ErrorAt(other, c, i) + x = ErrorAt(p, c, i) + p[i]
  BY <1>5, <1>6, <1>9, <1>10
<1> QED
  BY <1>11 DEF other

-----------------------------------------------------------------------------
\* A decision selects the model selected of its series, or none, and says what it forecasts.
DecisionMade(d) ==
  /\ d.points \in Series /\ d.holdout \in Holdout /\ d.policy \in BasisPolicy
  /\ d.selected \in {{}, SelectedModel(d.points, d.holdout, d.policy)}
  /\ d.forecast = {forecast(c.strategy, History(d.points, c.window, Len(d.points) + 1)) : c \in d.selected}

\* A model proposes what its decision forecasts; who publishes it did not propose it.
BasisInv ==
  /\ \A id \in DOMAIN basisDecisions : DecisionMade(basisDecisions[id])
  /\ \A id \in DOMAIN basisModels :
       /\ id \in DOMAIN basisDecisions /\ basisModels[id].forecast = basisDecisions[id].forecast
       /\ basisModels[id].state = "PUBLISHED" => basisModels[id].checker # basisModels[id].maker

LEMMA BasisInitial == BasisInit => BasisInv
  BY DEF BasisInit, BasisInv, EmptyMap

LEMMA BasisStep == BasisInv /\ [BasisNext]_basisVars => BasisInv'
<1> SUFFICES ASSUME BasisInv, [BasisNext]_basisVars PROVE BasisInv'
  OBVIOUS
<1> USE DEF BasisInv
<1>1. CASE UNCHANGED basisVars
  BY <1>1 DEF basisVars, DecisionMade
<1>2. ASSUME NEW id \in BasisDecisionId, NEW points \in Series, NEW holdout \in Holdout,
             NEW policy \in BasisPolicy, optimizeBasisModel(id, points, holdout, policy)
      PROVE  BasisInv'
  <2> DEFINE selected == IF Len(points) < policy.minimumObservations THEN {}
                         ELSE SelectedModel(points, holdout, policy)
             d == [points |-> points, holdout |-> holdout, policy |-> policy, selected |-> selected,
                   forecast |-> {forecast(c.strategy, History(points, c.window, Len(points) + 1)) : c \in selected}]
  <2>1. basisDecisions' = Put(basisDecisions, id, d) /\ id \notin DOMAIN basisDecisions /\ UNCHANGED basisModels
    BY <1>2 DEF optimizeBasisModel, NewKey
  <2>2. selected \in {{}, SelectedModel(points, holdout, policy)}
    OBVIOUS
  <2> HIDE DEF selected
  <2>3. DecisionMade(d)
    BY <2>2 DEF DecisionMade
  <2> HIDE DEF d
  <2>4. /\ DOMAIN basisDecisions' = DOMAIN basisDecisions \cup {id} /\ basisDecisions'[id] = d
        /\ \A x \in DOMAIN basisDecisions : basisDecisions'[x] = basisDecisions[x]
    BY <2>1 DEF Put
  <2> QED
    BY <2>1, <2>3, <2>4
<1>3. ASSUME NEW id \in BasisDecisionId, NEW p, NEW digest, NEW at, proposeBasisModel(id, p, digest, at)
      PROVE  BasisInv'
  <2> DEFINE m == [state |-> "PENDING_APPROVAL", forecast |-> basisDecisions[id].forecast, maker |-> p,
                   digest |-> digest, proposedAt |-> at]
  <2>1. /\ basisModels' = Put(basisModels, id, m) /\ id \in DOMAIN basisDecisions
        /\ UNCHANGED basisDecisions
    BY <1>3 DEF proposeBasisModel
  <2>2. m.forecast = basisDecisions[id].forecast /\ m.state # "PUBLISHED"
    OBVIOUS
  <2> HIDE DEF m
  <2>3. /\ DOMAIN basisModels' = DOMAIN basisModels \cup {id} /\ basisModels'[id] = m
        /\ \A x \in DOMAIN basisModels : x # id => basisModels'[x] = basisModels[x]
    BY <2>1 DEF Put
  <2> QED
    BY <2>1, <2>2, <2>3
<1>4. ASSUME NEW id \in BasisDecisionId, NEW p, NEW digest, NEW at, publishBasisModel(id, p, digest, at)
      PROVE  BasisInv'
  <2> DEFINE m == [state |-> "PUBLISHED", forecast |-> basisModels[id].forecast,
                   maker |-> basisModels[id].maker, checker |-> p,
                   digest |-> digest, proposedAt |-> basisModels[id].proposedAt]
  <2>1. /\ basisModels' = [basisModels EXCEPT ![id] = m] /\ id \in DOMAIN basisModels
        /\ p # basisModels[id].maker /\ UNCHANGED basisDecisions
    BY <1>4 DEF publishBasisModel
  <2>2. m.forecast = basisModels[id].forecast /\ m.checker = p /\ m.maker = basisModels[id].maker
    OBVIOUS
  <2> HIDE DEF m
  <2>3. /\ DOMAIN basisModels' = DOMAIN basisModels /\ basisModels'[id] = m
        /\ \A x \in DOMAIN basisModels : x # id => basisModels'[x] = basisModels[x]
    BY <2>1
  <2> QED
    BY <2>1, <2>2, <2>3
<1> QED
  BY <1>1, <1>2, <1>3, <1>4 DEF BasisNext

\* Models in use earned it.
LEMMA BasisEarned == BasisInv => ModelsEarned
<1> SUFFICES ASSUME BasisInv, NEW id \in DOMAIN basisModels, NEW c \in basisDecisions[id].selected
             PROVE  LET d == basisDecisions[id]
                        error(points, m, i) == forecast(m.strategy, History(points, m.window, i)) - points[i]
                        held == (Len(d.points) - d.holdout + 1)..Len(d.points)
                        within(m) == /\ Testable(d.points, m, d.holdout, d.policy)
                                     /\ \A i \in held : Abs(error(d.points, m, i)) <= d.policy.maximumError
                                     /\ MeanError(d.points, m, d.holdout) <= d.policy.meanError
                                     /\ Abs(Bias(d.points, m, d.holdout)) <= d.policy.bias
                    IN /\ within(c) /\ basisModels[id].forecast = d.forecast /\ Cardinality(d.forecast) = 1
                       /\ \A i \in held, x \in {0, 7} :
                            LET other == [k \in DOMAIN d.points |-> IF k >= i THEN x ELSE d.points[k]]
                            IN error(other, c, i) + x = error(d.points, c, i) + d.points[i]
                       /\ \A m \in Candidate : within(m) =>
                            \/ MeanError(d.points, c, d.holdout) < MeanError(d.points, m, d.holdout)
                            \/ /\ MeanError(d.points, c, d.holdout) = MeanError(d.points, m, d.holdout)
                               /\ Abs(Bias(d.points, c, d.holdout)) <= Abs(Bias(d.points, m, d.holdout))
                       /\ basisModels[id].state = "PUBLISHED" => basisModels[id].checker # basisModels[id].maker
  BY DEF ModelsEarned
<1> DEFINE d == basisDecisions[id]
           p == d.points
           h == d.holdout
           policy == d.policy
<1>1. /\ basisModels[id].forecast = d.forecast
      /\ basisModels[id].state = "PUBLISHED" => basisModels[id].checker # basisModels[id].maker
      /\ DecisionMade(d)
  BY DEF BasisInv
<1>2. p \in Seq(Int) /\ h \in Nat /\ policy \in BasisPolicy
  BY <1>1, BasisAssumption DEF DecisionMade
<1>3. c \in SelectedModel(p, h, policy) /\ d.selected = SelectedModel(p, h, policy)
  BY <1>1 DEF DecisionMade
<1>4. d.forecast = {forecast(m.strategy, History(p, m.window, Len(p) + 1)) : m \in d.selected}
  BY <1>1 DEF DecisionMade
<1>5. \A m : WithinPolicy(p, m, h, policy) <=>
        /\ Testable(p, m, h, policy)
        /\ \A i \in Len(p) - h + 1 .. Len(p) :
             Abs(forecast(m.strategy, History(p, m.window, i)) - p[i]) <= policy.maximumError
        /\ MeanError(p, m, h) <= policy.meanError
        /\ Abs(Bias(p, m, h)) <= policy.bias
  BY DEF WithinPolicy, ErrorAt
<1>6. /\ c \in Candidate /\ WithinPolicy(p, c, h, policy) /\ SelectedModel(p, h, policy) = {c}
      /\ \A m \in Candidate : WithinPolicy(p, m, h, policy) =>
           \/ MeanError(p, c, h) < MeanError(p, m, h)
           \/ MeanError(p, c, h) = MeanError(p, m, h) /\ Abs(Bias(p, c, h)) <= Abs(Bias(p, m, h))
  <2> HIDE DEF p, h, policy
  <2> QED
    BY ONLY <1>2, <1>3, SelectedIsBest
<1>7. Cardinality(d.forecast) = 1
  <2>1. d.forecast = {forecast(c.strategy, History(p, c.window, Len(p) + 1))}
    BY <1>3, <1>4, <1>6
  <2> QED
    BY <2>1, FS_Singleton
<1>8. ASSUME NEW i \in Len(p) - h + 1 .. Len(p), NEW x \in {0, 7}
      PROVE  LET other == [k \in DOMAIN p |-> IF k >= i THEN x ELSE p[k]]
             IN forecast(c.strategy, History(other, c.window, i)) - other[i] + x
                  = forecast(c.strategy, History(p, c.window, i)) - p[i] + p[i]
  <2>1. Tried(p, c, h, policy) /\ x \in Int
    BY <1>2, <1>6 DEF Tried, WithinPolicy
  <2> HIDE DEF p, h, policy
  <2>2. LET other == [k \in DOMAIN p |-> IF k >= i THEN x ELSE p[k]]
        IN ErrorAt(other, c, i) + x = ErrorAt(p, c, i) + p[i]
    BY ONLY <1>8, <2>1, ForecastUnseen
  <2> QED
    BY <2>2 DEF ErrorAt
<1> QED
  BY <1>1, <1>5, <1>6, <1>7, <1>8

-----------------------------------------------------------------------------
(***************************************************************************)
(* The spread workspace: the lifecycle on show is the draft's.             *)
(***************************************************************************)
Page == [organisation |-> spreadPage.organisation, components |-> spreadPage.components, reason |-> spreadPage.reason,
         action |-> spreadPage.action, lifecycle |-> spreadPage.lifecycle, up |-> spreadPage.up]

Whole3 == [cost : Int, margin : Int, reserve : Int]

\* Who submitted may initiate, for FuelCap itself.
DeskInv ==
  /\ spreadUser \in SpreadUser /\ spreadPage = Page
  /\ spreadPage.components \in Whole3
  /\ spreadPage.action = "submitted" => "RT" \in spreadUser.roles
  /\ LifecycleOfTheDraft

\* A page that keeps what was completed, or shows nothing, is as good.
LEMMA DeskMoves ==
  ASSUME DeskInv, UNCHANGED spreadUser, spreadPage' = Page', (spreadPage.components \in Whole3)',
         (spreadPage.action = "submitted")' => "RT" \in spreadUser.roles,
         \/ (spreadPage.lifecycle = NoLifecycle)'
         \/ UNCHANGED <<spreadPage.lifecycle, spreadPage.components, spreadPage.organisation>>
  PROVE  DeskInv'
<1>1. LifecycleOfTheDraft'
  BY DEF DeskInv, LifecycleOfTheDraft
<1> QED
  BY <1>1 DEF DeskInv

LEMMA OnlyTraders ==
  ASSUME NEW u \in SpreadUser, authorize(u, SpreadEnvironment, spreadPage.organisation, "spread-fx", "initiate", "nobody")
  PROVE  "RT" \in u.roles
<1>1. PICK role \in u.roles : role \in roleCodes /\ "initiate" \in baseline[role]["spread-fx"]
  BY SpreadDeskAssumption DEF authorize
<1>2. "spread-fx" \in Workspace
  BY DEF Workspace
<1>3. "initiate" \in Grants(role)["spread-fx"]
  BY <1>1, <1>2 DEF baseline
<1>4. role \in {"PA", "OP", "RT", "FR", "CF", "CS", "DI", "AU", "DP"}
  BY <1>1 DEF roleCodes
<1>5. CASE role = "PA"
  BY <1>2, <1>3, <1>5 DEF Grants, VR, VI, VRI, VRIA, ALL
<1>6. CASE role = "OP"
  BY <1>2, <1>3, <1>6 DEF Grants, VR, VI, VRI, VRIA, ALL
<1>7. CASE role = "FR"
  BY <1>2, <1>3, <1>7 DEF Grants, VR, VI, VRI, VRIA, ALL
<1>8. CASE role = "CF"
  BY <1>2, <1>3, <1>8 DEF Grants, VR, VI, VRI, VRIA, ALL
<1>9. CASE role = "CS"
  BY <1>2, <1>3, <1>9 DEF Grants, VR, VI, VRI, VRIA, ALL
<1>10. CASE role = "DI"
  BY <1>2, <1>3, <1>10 DEF Grants, VR, VI, VRI, VRIA, ALL
<1>11. CASE role = "AU"
  BY <1>2, <1>3, <1>11 DEF Grants
<1>12. CASE role = "DP"
  BY <1>2, <1>3, <1>12 DEF Grants
<1> QED
  BY <1>1, <1>4, <1>5, <1>6, <1>7, <1>8, <1>9, <1>10, <1>11, <1>12

\* What drawing does to a page of this shape.
LEMMA DrawnKeeps ==
  ASSUME NEW p, p = [organisation |-> p.organisation, components |-> p.components, reason |-> p.reason,
                     action |-> p.action, lifecycle |-> p.lifecycle, up |-> p.up]
  PROVE  /\ Drawn(p) = [organisation |-> p.organisation, components |-> p.components, reason |-> p.reason,
                        action |-> p.action, lifecycle |-> p.lifecycle, up |-> Drawn(p).up]
  BY DEF Drawn

LEMMA FreshIsPage ==
  ASSUME NEW o, DeskInv, UNCHANGED spreadUser, spreadPage' = FreshPage(o)
  PROVE  DeskInv'
<1>1. /\ spreadPage' = Page' /\ spreadPage'.action = "idle" /\ spreadPage'.lifecycle = NoLifecycle
      /\ spreadPage'.components \in Whole3
  BY DEF FreshPage, Page, activeSpreadDecision, Whole3
<1> QED
  BY <1>1, DeskMoves

LEMMA DeskInitial == SpreadDeskInit => DeskInv
  BY DEF SpreadDeskInit, FreshPage, DeskInv, Page, activeSpreadDecision, Whole3, LifecycleOfTheDraft

\* A draft that simulates keeps the limits of the policy.
LEMMA SimulatedKeeps ==
  ASSUME NEW draft, draft.components \in Whole3, draft.total = totalSpreadBps(draft.components),
         simulateSpreadDraftLifecycle(draft) = "SIMULATED"
  PROVE  draft.total <= 500 /\ Difference(draft.total, 230) <= 50 /\ draft.components.cost >= 130
<1>1. /\ ~Refused(draft)
      /\ Blockers(draft, activeSpreadDecision, spreadImpactCohorts, spreadLifecyclePolicy) = {}
  BY DEF simulateSpreadDraftLifecycle
<1>2. /\ spreadLifecyclePolicy.maximumTotal = 500 /\ spreadLifecyclePolicy.maximumChange = 50
      /\ spreadLifecyclePolicy.default.cost = 130 /\ activeSpreadDecision.total = 230
  BY DEF spreadLifecyclePolicy, activeSpreadDecision
<1>3. draft.total \in Int /\ draft.components.cost \in Int
  BY DEF totalSpreadBps, Whole3
<1>4. draft.total <= 500 /\ draft.components.cost >= 130
  <2>1. validateComponents(draft.components, spreadLifecyclePolicy) /\ ~(draft.components.cost < 130)
    BY <1>1, <1>2 DEF Refused
  <2> QED
    BY <1>2, <1>3, <2>1 DEF validateComponents
<1>5. ~(Difference(draft.total, 230) > 50)
  <2>1. "MAXIMUM_CHANGE_EXCEEDED" \notin Blockers(draft, activeSpreadDecision, spreadImpactCohorts, spreadLifecyclePolicy)
    BY <1>1
  <2> QED
    BY <1>2, <2>1 DEF Blockers
<1> QED
  BY <1>3, <1>4, <1>5 DEF Difference

LEMMA DeskStep == DeskInv /\ [SpreadDeskNext]_spreadDeskVars => DeskInv'
<1> SUFFICES ASSUME DeskInv, [SpreadDeskNext]_spreadDeskVars PROVE DeskInv'
  OBVIOUS
<1>0. spreadUser \in SpreadUser /\ spreadPage = Page /\ spreadPage.components \in Whole3
  BY DEF DeskInv
<1>1. CASE UNCHANGED spreadDeskVars
  BY <1>1 DEF DeskInv, spreadDeskVars, Page, LifecycleOfTheDraft
<1>2. ASSUME NEW typed \in TypedBps, NEW key \in {"cost", "margin", "reserve"}, updateComponent(key, typed) PROVE DeskInv'
  <2> DEFINE c == [spreadPage.components EXCEPT ![key] = Larger(0, typed)]
             p == Edited(c)
  <2>1. spreadPage' = Drawn(p) /\ UNCHANGED spreadUser
    BY <1>2 DEF updateComponent
  <2>2. c \in Whole3
    BY <1>0, SpreadDeskAssumption DEF Whole3, Larger
  <2>3. p = [organisation |-> spreadPage.organisation, components |-> c, reason |-> spreadPage.reason,
             action |-> "idle", lifecycle |-> NoLifecycle, up |-> spreadPage.up]
    <3>1. p = [spreadPage EXCEPT !.components = c, !.action = "idle", !.lifecycle = NoLifecycle]
      BY DEF Edited
    <3> HIDE DEF c, p
    <3> QED
      BY <1>0, <3>1 DEF Page
  <2> HIDE DEF c, p
  <2>4. Drawn(p) = [organisation |-> p.organisation, components |-> p.components, reason |-> p.reason,
                    action |-> p.action, lifecycle |-> p.lifecycle, up |-> Drawn(p).up]
    BY <2>3, DrawnKeeps
  <2>5. spreadPage' = Page' /\ spreadPage'.components = c /\ spreadPage'.action = "idle" /\ spreadPage'.lifecycle = NoLifecycle
    BY <2>1, <2>3, <2>4 DEF Page
  <2> QED
    BY <2>1, <2>2, <2>5, DeskMoves
<1>3. ASSUME NEW reason, ChangeTheReason(reason) PROVE DeskInv'
  <2> DEFINE p == [spreadPage EXCEPT !.reason = reason, !.action = "idle"]
  <2>1. spreadPage' = Drawn(p) /\ UNCHANGED spreadUser
    BY <1>3 DEF ChangeTheReason
  <2>3. p = [organisation |-> spreadPage.organisation, components |-> spreadPage.components, reason |-> reason,
             action |-> "idle", lifecycle |-> spreadPage.lifecycle, up |-> spreadPage.up]
    <3>1. p = [spreadPage EXCEPT !.reason = reason, !.action = "idle"]
      OBVIOUS
    <3> HIDE DEF p
    <3> QED
      BY <1>0, <3>1 DEF Page
  <2> HIDE DEF p
  <2>4. Drawn(p) = [organisation |-> p.organisation, components |-> p.components, reason |-> p.reason,
                    action |-> p.action, lifecycle |-> p.lifecycle, up |-> Drawn(p).up]
    BY <2>3, DrawnKeeps
  <2>5. /\ spreadPage' = Page' /\ spreadPage'.components = spreadPage.components /\ spreadPage'.action = "idle"
        /\ spreadPage'.lifecycle = spreadPage.lifecycle /\ spreadPage'.organisation = spreadPage.organisation
    BY <2>1, <2>3, <2>4 DEF Page
  <2> QED
    BY <1>0, <2>1, <2>5, DeskMoves
<1>4. CASE submitDraft
  <2> DEFINE next == IF ~authorize(spreadUser, SpreadEnvironment, spreadPage.organisation, "spread-fx", "initiate", "nobody")
                     THEN "denied"
                     ELSE IF simulateSpreadDraftLifecycle(DraftOnPage) # "SIMULATED" THEN "invalid" ELSE "submitted"
  <2>1. spreadPage' = [spreadPage EXCEPT !.lifecycle = NoLifecycle, !.action = next] /\ UNCHANGED spreadUser
    BY <1>4 DEF submitDraft
  <2>2. next = "submitted" => "RT" \in spreadUser.roles
    BY <1>0, OnlyTraders
  <2> HIDE DEF next
  <2>3. spreadPage' = [organisation |-> spreadPage.organisation, components |-> spreadPage.components,
          reason |-> spreadPage.reason, action |-> next, lifecycle |-> NoLifecycle, up |-> spreadPage.up]
    BY <1>0, <2>1 DEF Page
  <2>4. /\ spreadPage' = Page' /\ spreadPage'.components = spreadPage.components /\ spreadPage'.action = next
        /\ spreadPage'.lifecycle = NoLifecycle
    BY <2>3 DEF Page
  <2> QED
    BY <1>0, <2>1, <2>2, <2>4, DeskMoves
<1>5. CASE completeLifecycleRehearsal
  <2> DEFINE draft == DraftOnPage
             done == completeSpreadDraftLifecycle(draft)
  <2>1. /\ spreadPage' = [spreadPage EXCEPT !.lifecycle = done] /\ UNCHANGED spreadUser
        /\ spreadPage.action = "submitted" /\ simulateSpreadDraftLifecycle(draft) = "SIMULATED"
        /\ spreadPage.organisation = "org-fuelcap-global" /\ Supersedes(draft)
    BY <1>5 DEF completeLifecycleRehearsal, SpreadShown
  <2>2. draft.components = spreadPage.components /\ draft.total = totalSpreadBps(draft.components) /\ draft.maker = spreadUser.id
    BY DEF DraftOnPage, proposeSpreadComponents
  <2> HIDE DEF draft
  <2>3. draft.total <= 500 /\ Difference(draft.total, 230) <= 50 /\ draft.components.cost >= 130
    BY <1>0, <2>1, <2>2, SimulatedKeeps
  <2>4. /\ done.draft = draft /\ done.checker # draft.maker
        /\ done.previous = decisionId(activeSpreadDecision) /\ done.replacement = decisionId(draft)
        /\ done.approved >= done.proposed /\ done.scheduled >= done.approved
        /\ done.published >= done.effective /\ done.superseded >= done.published /\ done.withdrawn >= done.published
    BY DEF completeSpreadDraftLifecycle, CheckerFor
  <2> HIDE DEF done
  <2>5. spreadPage' = [organisation |-> spreadPage.organisation, components |-> spreadPage.components,
          reason |-> spreadPage.reason, action |-> spreadPage.action, lifecycle |-> done, up |-> spreadPage.up]
    BY <1>0, <2>1 DEF Page
  <2>6. /\ spreadPage' = Page' /\ spreadPage'.components = spreadPage.components /\ spreadPage'.action = spreadPage.action
        /\ spreadPage'.lifecycle = done /\ spreadPage'.organisation = spreadPage.organisation
    BY <2>5 DEF Page
  <2>7. /\ done.previous = 230 /\ done.replacement # 230
        /\ done.replacement = spreadPage.components.cost + spreadPage.components.margin + spreadPage.components.reserve
    BY <2>1, <2>2, <2>4 DEF Supersedes, decisionId, activeSpreadDecision, totalSpreadBps
  <2>8. LifecycleOfTheDraft'
    BY <2>1, <2>2, <2>3, <2>4, <2>6, <2>7 DEF LifecycleOfTheDraft, DeskInv
  <2> QED
    BY <1>0, <2>1, <2>6, <2>8 DEF DeskInv
<1>6. ASSUME NEW o, SwitchOrganisation(o) PROVE DeskInv'
  BY <1>6, FreshIsPage DEF SwitchOrganisation
<1>7. CASE LoadAgain
  BY <1>7, FreshIsPage DEF LoadAgain
<1> QED
  BY <1>1, <1>2, <1>3, <1>4, <1>5, <1>6, <1>7 DEF SpreadDeskNext

\* The parts are those of the product.
LEMMA ProductParts ==
  ASSUME NEW a \in Nat, NEW b \in Nat
  PROVE  /\ WholePart(a, b) \in Nat /\ RemainingPart(a, b) \in Nat
         /\ a * b = WholePart(a, b) * FxUnit + RemainingPart(a, b)
<1> DEFINE p == a \div 1000
           q == b \div 1000
           s == a % 1000
           t == b % 1000
<1>1. p \in Nat /\ q \in Nat /\ s \in Nat /\ t \in Nat /\ a = 1000 * p + s /\ b = 1000 * q + t
  OBVIOUS
<1>2. WholePart(a, b) = p * q /\ RemainingPart(a, b) = (p * t + s * q) * 1000 + s * t
  BY DEF WholePart, RemainingPart, Thousands
<1> HIDE DEF p, q, s, t
<1>3. a * b = (1000 * p + s) * (1000 * q + t)
  BY ONLY <1>1
<1>4. (1000 * p + s) * (1000 * q + t) = (p * q) * 1000000 + ((p * t + s * q) * 1000 + s * t)
  BY ONLY <1>1
<1>5. p * q \in Nat /\ (p * t + s * q) * 1000 + s * t \in Nat
  BY ONLY <1>1
<1> QED
  BY <1>2, <1>3, <1>4, <1>5 DEF FxUnit

\* Whichever pairs are asked for; the products are natural numbers, rounded to the nearest.
LEMMA RatesDirected == RatesKeepDirection
<1> SUFFICES ASSUME NEW firstPair \in Currencies \X Currencies, NEW secondPair \in Currencies \X Currencies,
                    NEW output \in Currencies \X Currencies, NEW pivot \in Currencies,
                    NEW r \in triangulatedCanonicalFxRate(firstPair, secondPair, output, pivot)
             PROVE  LET a == r.sources[1]  b == r.sources[2] IN
                    /\ a.base = r.base /\ a.quote = b.base /\ b.quote = r.quote
                    /\ fxObservationValidity(a, 0) /\ fxObservationValidity(b, 0)
                    /\ Difference((r.rate - WholePart(a.rate, b.rate)) * FxUnit, RemainingPart(a.rate, b.rate)) * 2 <= FxUnit
                    /\ directCanonicalFxRate(output) = {}
  BY DEF RatesKeepDirection
<1>1. PICK a \in fxReferenceObservations, b \in fxReferenceObservations :
        /\ Chains(a, b, output, pivot)
        /\ r = [base |-> output[1], quote |-> output[2], rate |-> RoundedProduct(a.rate, b.rate), sources |-> <<a, b>>]
  BY DEF triangulatedCanonicalFxRate, observation
<1>2. /\ r.base = output[1] /\ r.quote = output[2] /\ r.rate = RoundedProduct(a.rate, b.rate)
      /\ r.sources[1] = a /\ r.sources[2] = b
  BY <1>1
<1>3. /\ a.base = r.base /\ a.quote = b.base /\ b.quote = r.quote
  BY <1>1, <1>2 DEF Chains
<1>4. \A o \in fxReferenceObservations : o.rate \in Nat /\ o.observedAt = 0
  BY DEF fxReferenceObservations
<1>5. directCanonicalFxRate(output) = {}
  <2>1. \A o \in fxReferenceObservations :
          <<o.base, o.quote>> \in {<<"USD", "CAD">>, <<"GBP", "USD">>, <<"EUR", "USD">>}
    BY DEF fxReferenceObservations
  <2>2. \A o \in fxReferenceObservations : ~(o.base = a.base /\ o.quote = b.quote)
    BY <1>3, <2>1
  <2> QED
    BY <1>2, <1>3, <2>2 DEF directCanonicalFxRate, observation
<1>6. Difference((r.rate - WholePart(a.rate, b.rate)) * FxUnit, RemainingPart(a.rate, b.rate)) * 2 <= FxUnit
  <2>1. PICK m \in Nat, n \in Nat : m = WholePart(a.rate, b.rate) /\ n = RemainingPart(a.rate, b.rate)
    BY <1>4, ProductParts
  <2>2. r.rate = m + (n + 500000) \div 1000000
    BY <1>2, <2>1 DEF RoundedProduct, FxUnit
  <2>3. PICK q \in Nat : r.rate = m + q /\ q * 1000000 <= n + 500000 /\ n + 500000 < q * 1000000 + 1000000
    <3>1. n + 500000 \in Nat
      OBVIOUS
    <3> QED
      BY <2>2, <3>1, Quotient
  <2>4. (r.rate - m) * 1000000 = q * 1000000
    BY <2>3
  <2>5. Difference(q * 1000000, n) * 2 <= 1000000
    BY <2>3 DEF Difference
  <2> QED
    BY <2>1, <2>4, <2>5 DEF FxUnit
<1> QED
  BY <1>1, <1>2, <1>3, <1>4, <1>5, <1>6 DEF fxObservationValidity

-----------------------------------------------------------------------------
(***************************************************************************)
(* Everything that is published.                                           *)
(***************************************************************************)
PublishedInv == RulesInv /\ ControlInv /\ EuInv /\ BasisInv /\ FleetInv /\ DeskInv

\* The rates of the workspace need no invariant: they are computed from constants.
LEMMA PublishedFromInv == PublishedInv => PublishedSound
<1> SUFFICES ASSUME PublishedInv PROVE PublishedSound
  OBVIOUS
<1>1. PublishedAlwaysAnswers
  BY RulesAnswer DEF PublishedInv
<1>2. ActiveReleaseComplete
  BY EuActive DEF PublishedInv
<1>3. ModelsEarned
  BY BasisEarned DEF PublishedInv
<1>4. RecommendationsGrounded
  BY ControlGrounded DEF PublishedInv
<1>5. FleetDecisionsStand
  BY DEF PublishedInv, FleetInv
<1>6. LifecycleOfTheDraft /\ RatesKeepDirection
  BY RatesDirected DEF PublishedInv, DeskInv
<1> QED
  BY <1>1, <1>2, <1>3, <1>4, <1>5, <1>6 DEF PublishedSound

\* A step of the instance is a step of one package, and the others stay as they are.
LEMMA PublishedStep ==
  PublishedInv /\ [Next]_<<machine, pricingVars, financeVars>> => PublishedInv'
<1> SUFFICES ASSUME PublishedInv, [Next]_<<machine, pricingVars, financeVars>> PROVE PublishedInv'
  OBVIOUS
<1>1. \/ PricingNext
      \/ UNCHANGED pricingVars
  BY DEF Next
<1>2. [RulesNext]_ruleVars
  BY <1>1 DEF PricingNext, pricingVars
<1>3. [ControlNext]_controlVars
  BY <1>1 DEF PricingNext, pricingVars
<1>4. [EuNext]_euVars
  BY <1>1 DEF PricingNext, pricingVars
<1>5. [BasisNext]_basisVars
  BY <1>1 DEF PricingNext, pricingVars
<1>6. [FleetNext]_fleetVars
  BY <1>1 DEF PricingNext, pricingVars
<1>7. [SpreadDeskNext]_spreadDeskVars
  BY <1>1 DEF PricingNext, pricingVars
<1> QED
  BY <1>2, <1>3, <1>4, <1>5, <1>6, <1>7, RulesStep, ControlStep, EuStep, BasisStep, FleetStep, DeskStep
     DEF PublishedInv

\* Whatever the rules, the bulletins, the series, the evidence, the limits of the fleets and
\* the people: rules that are published answer every fact, the active bulletin is whole, a
\* model in use beat the others on points it had not seen, a recommendation stands on allowed
\* evidence, no fleet limit changed behind a decision, and the workspace shows its draft.
THEOREM PublishedAlwaysSound == Spec => []PublishedSound
<1>1. Init => PublishedInv
  <2>1. RulesInit => RulesInv
    BY DEF RulesInit, RulesInv, EmptyMap
  <2>2. ControlInit => ControlInv
    BY DEF ControlInit, ControlInv, EmptyMap
  <2> QED
    BY <2>1, <2>2, EuInitial, BasisInitial, FleetInitial, DeskInitial DEF Init, PublishedInv
<1>2. PublishedInv /\ [Next]_<<machine, pricingVars, financeVars>> => PublishedInv'
  BY PublishedStep
<1>3. PublishedInv => PublishedSound
  BY PublishedFromInv
<1> QED
  BY <1>1, <1>2, <1>3, PTL DEF Spec
=============================================================================
