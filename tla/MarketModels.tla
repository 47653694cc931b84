---------------------------- MODULE MarketModels ----------------------------
(***************************************************************************)
(* Models of the market: first exchange rates, then the basis.             *)
(*                                                                         *)
(* packages/fx-engine: reference rates become canonical rates, directly or *)
(* over an approved pivot; an adjustment in basis points is proposed,      *)
(* approved by a second person and published; a conversion pins both.      *)
(*                                                                         *)
(* Pure functions; the state is the evidence made so far, under ids the    *)
(* carrier gives.  RateScale is FX_RATE_SCALE, Whole the 10 000 basis      *)
(* points of one.                                                          *)
(***************************************************************************)
EXTENDS Maps, Integers, Sequences

CONSTANTS
  FxObservation,     \* [base, quote, rate, observedAt, ingestedAt]
  FxTime, FxPrincipal,
  RateId, AdjustmentId, ConversionId,
  ApprovedPivots, FxComponents,
  MaximumAdjustment, \* what policies of the day allow
  MaximumRateAge, RateScale, Whole,
  Amount             \* amounts to convert

\* Rates, components and amounts that are not whole are rejected; instants are in milliseconds.
ASSUME FxAssumption ==
  /\ RateScale \in Nat \ {0} /\ Whole \in Nat \ {0} /\ Amount \subseteq Nat \ {0}
  /\ FxTime \subseteq Int /\ MaximumAdjustment \subseteq Int /\ MaximumRateAge \in Int
  /\ \A o \in FxObservation : {o.rate, o.observedAt, o.ingestedAt} \subseteq Int
  /\ \A c \in FxComponents : {c.cost, c.margin, c.reserve} \subseteq Int

VARIABLES
  rates,         \* RateId -> canonical rate
  fxProposals,   \* AdjustmentId -> proposal
  fxApprovals,   \* AdjustmentId -> approval
  adjustments,   \* AdjustmentId -> published adjustment
  conversions    \* ConversionId -> conversion

fxVars == <<rates, fxProposals, fxApprovals, adjustments, conversions>>

FxInit ==
  /\ rates = EmptyMap /\ fxProposals = EmptyMap /\ fxApprovals = EmptyMap
  /\ adjustments = EmptyMap /\ conversions = EmptyMap

-----------------------------------------------------------------------------
\* The nearest integer, halves up.
roundedRatio(numerator, denominator) == (numerator + denominator \div 2) \div denominator

\* Mutant of validateFxObservation: an observation from the future is as good as fresh.
validateFxNotStale(o, at) ==
  /\ o.base # o.quote /\ o.rate > 0 /\ o.ingestedAt >= o.observedAt
  /\ at - o.observedAt <= MaximumRateAge

validateFxObservation(o, at) ==
  /\ o.base # o.quote /\ o.rate > 0 /\ o.ingestedAt >= o.observedAt
  /\ at - o.observedAt >= 0 /\ at - o.observedAt <= MaximumRateAge

createDirectCanonicalRate(id, o, at) ==
  /\ NewKey(rates, id) /\ validateFxObservation(o, at)
  /\ rates' = Put(rates, id,
       [base |-> o.base, quote |-> o.quote, rate |-> o.rate, from |-> <<o>>, decidedAt |-> at])
  /\ UNCHANGED <<fxProposals, fxApprovals, adjustments, conversions>>

\* base -> pivot -> quote, each in the direction it was observed: rates are never inverted.
createTriangulatedCanonicalRate(id, first, second, pivot, at) ==
  /\ NewKey(rates, id)
  /\ validateFxObservation(first, at) /\ validateFxObservation(second, at)
  /\ pivot \in ApprovedPivots /\ first.quote = pivot /\ second.base = pivot
  /\ rates' = Put(rates, id,
       [base |-> first.base, quote |-> second.quote,
        rate |-> roundedRatio(first.rate * second.rate, RateScale),
        from |-> <<first, second>>, decidedAt |-> at])
  /\ UNCHANGED <<fxProposals, fxApprovals, adjustments, conversions>>

totalFxAdjustmentBps(c) == c.cost + c.margin + c.reserve

validateAdjustment(c, limit) ==
  c.cost >= 0 /\ c.margin >= 0 /\ c.reserve >= 0 /\ totalFxAdjustmentBps(c) <= limit

createFxAdjustmentProposal(id, maker, c, at, limit) ==
  /\ NewKey(fxProposals, id) /\ validateAdjustment(c, limit)
  /\ fxProposals' = Put(fxProposals, id,
       [maker |-> maker, components |-> c, total |-> totalFxAdjustmentBps(c), createdAt |-> at])
  /\ UNCHANGED <<rates, fxApprovals, adjustments, conversions>>

approveFxAdjustmentProposal(id, checker, at) ==
  /\ id \in DOMAIN fxProposals /\ NewKey(fxApprovals, id)
  /\ checker # fxProposals[id].maker /\ at >= fxProposals[id].createdAt
  /\ fxApprovals' = Put(fxApprovals, id, [checker |-> checker, at |-> at])
  /\ UNCHANGED <<rates, fxProposals, adjustments, conversions>>

publishFxAdjustment(id, at, limit) ==
  /\ id \in DOMAIN fxApprovals /\ NewKey(adjustments, id) /\ at >= fxApprovals[id].at
  /\ validateAdjustment(fxProposals[id].components, limit)
  /\ totalFxAdjustmentBps(fxProposals[id].components) = fxProposals[id].total
  /\ adjustments' = Put(adjustments, id,
       [total |-> fxProposals[id].total, limit |-> limit, maker |-> fxProposals[id].maker,
        checker |-> fxApprovals[id].checker, publishedAt |-> at])
  /\ UNCHANGED <<rates, fxProposals, fxApprovals, conversions>>

\* The customer's rate is rounded, and the amount at that rate is rounded again.
applyFxConversion(id, amount, source, destination, rate, adjustment, at) ==
  /\ NewKey(conversions, id) /\ rate \in DOMAIN rates /\ adjustment \in DOMAIN adjustments
  /\ source = rates[rate].base /\ destination = rates[rate].quote
  /\ at >= rates[rate].decidedAt /\ at >= adjustments[adjustment].publishedAt
  /\ LET customer == roundedRatio(rates[rate].rate * (Whole + adjustments[adjustment].total), Whole) IN
     conversions' = Put(conversions, id,
       [source |-> source, destination |-> destination, amount |-> amount, rate |-> rate,
        adjustment |-> adjustment, customer |-> customer,
        result |-> roundedRatio(amount * customer, RateScale), at |-> at])
  /\ UNCHANGED <<rates, fxProposals, fxApprovals, adjustments>>

Currency == UNION {{o.base, o.quote} : o \in FxObservation}

FxNext ==
  \/ \E id \in RateId, o \in FxObservation, at \in FxTime :
       \/ createDirectCanonicalRate(id, o, at)
       \/ \E second \in FxObservation, pivot \in Currency :
            createTriangulatedCanonicalRate(id, o, second, pivot, at)
  \/ \E id \in AdjustmentId, p \in FxPrincipal, at \in FxTime :
       \/ \E c \in FxComponents, limit \in MaximumAdjustment :
            createFxAdjustmentProposal(id, p, c, at, limit)
       \/ approveFxAdjustmentProposal(id, p, at)
  \/ \E id \in AdjustmentId, at \in FxTime, limit \in MaximumAdjustment :
       publishFxAdjustment(id, at, limit)
  \/ \E id \in ConversionId, amount \in Amount, source, destination \in Currency,
        rate \in RateId, adjustment \in AdjustmentId, at \in FxTime :
       applyFxConversion(id, amount, source, destination, rate, adjustment, at)

FxSpec == FxInit /\ [][FxNext]_fxVars

-----------------------------------------------------------------------------
\* A conversion is traceable and exact: its rate was composed in the direction of the
\* observations, all valid and fresh when it was decided; its adjustment kept the limit of
\* the day and has two people behind it; it follows both; and three roundings in a row
\* move neither the customer's rate nor the amount by more than half a unit each.
ConversionSound ==
  \A id \in DOMAIN conversions :
    LET c == conversions[id]
        r == rates[c.rate]
        a == adjustments[c.adjustment]
        n == Len(r.from)
    IN /\ r.from[1].base = c.source /\ r.from[n].quote = c.destination
       /\ n = 2 => r.from[1].quote = r.from[2].base
       /\ \A i \in 1..n : /\ r.from[i].observedAt <= r.decidedAt
                          /\ r.decidedAt <= r.from[i].observedAt + MaximumRateAge
       /\ a.maker # a.checker /\ a.total <= a.limit
       /\ r.decidedAt <= c.at /\ a.publishedAt <= c.at
       /\ c.customer >= r.rate
       /\ 2 * (c.customer * Whole - r.rate * (Whole + a.total)) \in (-Whole)..Whole
       /\ 2 * (c.result * RateScale - c.amount * c.customer) \in (-RateScale)..RateScale

-----------------------------------------------------------------------------
(***************************************************************************)
(* packages/basis-model: candidate models of the basis between retail and  *)
(* wholesale prices are back-tested on held-out points, the best that      *)
(* stays within the policy is selected, proposed and published by a second *)
(* person who saw the same evidence.                                       *)
(***************************************************************************)
CONSTANTS
  Series,            \* series of basis points, in order of time, of one market
  Candidate,         \* [id, strategy, window]; ids are numbers
  Holdout,           \* how many points may be held out
  BasisPolicy,       \* [minimumObservations, minimumHoldout, meanError, maximumError, bias,
                     \*  windows, strategies]
  BasisDecisionId, BasisPrincipal, BasisTime, Digest

\* Points, limits and counts are whole; a policy holds a point out at least.
ASSUME BasisAssumption ==
  /\ Series \subseteq Seq(Int) /\ Holdout \subseteq Nat
  /\ \A c \in Candidate : c.window \in Int /\ c.id \in Int
  /\ \A p \in BasisPolicy :
       {p.meanError, p.maximumError, p.bias} \subseteq Int /\ p.minimumHoldout \in Nat \ {0}

VARIABLES
  basisDecisions, \* BasisDecisionId -> decision
  basisModels    \* BasisDecisionId -> proposal, published or not

basisVars == <<basisDecisions, basisModels>>

BasisInit == basisDecisions = EmptyMap /\ basisModels = EmptyMap

-----------------------------------------------------------------------------
Abs(n) == IF n < 0 THEN -n ELSE n
\* Math.round: the nearest integer, halves up.
Rounded(n, d) == (2 * n + d) \div (2 * d)

mean(values) == Rounded(Total(values), Len(values))

median(values) ==
  LET middle == Len(values) \div 2
  IN IF Len(values) % 2 = 1 THEN Ranked(values, middle + 1)
     ELSE Rounded(Ranked(values, middle) + Ranked(values, middle + 1), 2)

forecast(strategy, values) ==
  IF strategy = "ROLLING_MEDIAN" THEN median(values) ELSE mean(values)

\* Mutant of History: the window ends at the point that is forecast.
HistoryAndPoint(points, window, i) ==
  SubSeq(points, i - window + 1, Smaller(i, Len(points)))

\* The window before a point.
History(points, window, i) == SubSeq(points, i - window, i - 1)

\* Forecast less fact for every held-out point, in order.
Errors(points, c, holdout) ==
  [k \in 1..holdout |->
     LET i == Len(points) - holdout + k
     IN forecast(c.strategy, History(points, c.window, i)) - points[i]]

\* Whether a candidate can be tested at all.
Testable(points, c, holdout, policy) ==
  /\ c.strategy \in policy.strategies /\ c.window \in policy.windows /\ c.window >= 2
  /\ holdout >= policy.minimumHoldout /\ Len(points) - holdout >= c.window

MeanError(points, c, holdout) ==
  mean([k \in 1..holdout |-> Abs(Errors(points, c, holdout)[k])])
LargestError(points, c, holdout) ==
  Max({Abs(Errors(points, c, holdout)[k]) : k \in 1..holdout})
Bias(points, c, holdout) == mean(Errors(points, c, holdout))

evaluateBasisCandidate(points, c, holdout, policy) ==
  /\ Testable(points, c, holdout, policy)
  /\ MeanError(points, c, holdout) <= policy.meanError
  /\ LargestError(points, c, holdout) <= policy.maximumError
  /\ Abs(Bias(points, c, holdout)) <= policy.bias

\* Smaller mean error, then bias, then window, then id.
Better(points, holdout, c, d) ==
  LET rank(m) == <<MeanError(points, m, holdout), Abs(Bias(points, m, holdout)), m.window, m.id>>
  IN \E k \in 1..4 : rank(c)[k] < rank(d)[k] /\ \A l \in 1..(k - 1) : rank(c)[l] = rank(d)[l]

\* The model selected of a series, as a set of one or none.
SelectedModel(points, holdout, policy) ==
  LET passing == {c \in Candidate : evaluateBasisCandidate(points, c, holdout, policy)}
  IN {c \in passing : \A d \in passing \ {c} : Better(points, holdout, c, d)}

optimizeBasisModel(id, points, holdout, policy) ==
  /\ NewKey(basisDecisions, id)
  /\ LET selected == IF Len(points) < policy.minimumObservations THEN {}
                     ELSE SelectedModel(points, holdout, policy) IN
     basisDecisions' = Put(basisDecisions, id,
       [points |-> points, holdout |-> holdout, policy |-> policy, selected |-> selected,
        forecast |-> {forecast(c.strategy, History(points, c.window, Len(points) + 1)) : c \in selected}])
  /\ UNCHANGED basisModels

\* Only a selected model is proposed.
proposeBasisModel(id, maker, digest, at) ==
  /\ id \in DOMAIN basisDecisions /\ basisDecisions[id].selected # {} /\ NewKey(basisModels, id)
  /\ basisModels' = Put(basisModels, id,
       [state |-> "PENDING_APPROVAL", forecast |-> basisDecisions[id].forecast, maker |-> maker,
        digest |-> digest, proposedAt |-> at])
  /\ UNCHANGED basisDecisions

\* Another person, the same evidence, not before the proposal.
publishBasisModel(id, checker, digest, at) ==
  /\ id \in DOMAIN basisModels
  /\ checker # basisModels[id].maker /\ digest = basisModels[id].digest
  /\ at >= basisModels[id].proposedAt
  /\ basisModels' = [basisModels EXCEPT ![id] =
       [state |-> "PUBLISHED", forecast |-> @.forecast, maker |-> @.maker, checker |-> checker,
        digest |-> digest, proposedAt |-> @.proposedAt]]
  /\ UNCHANGED basisDecisions

BasisNext ==
  \E id \in BasisDecisionId :
    \/ \E points \in Series, holdout \in Holdout, policy \in BasisPolicy :
         optimizeBasisModel(id, points, holdout, policy)
    \/ \E p \in BasisPrincipal, digest \in Digest, at \in BasisTime :
         proposeBasisModel(id, p, digest, at) \/ publishBasisModel(id, p, digest, at)

-----------------------------------------------------------------------------
\* A model in use earned it: the error measured at a held-out point would be of the same
\* forecast whatever that point and the later ones had been, its errors keep the limits of
\* the policy, no other candidate within them has a smaller mean error, or the same with a
\* smaller bias either way, and two people stand behind exactly that forecast.
ModelsEarned ==
  \A id \in DOMAIN basisModels : \A c \in basisDecisions[id].selected :
    LET d == basisDecisions[id]
        error(points, m, i) == forecast(m.strategy, History(points, m.window, i)) - points[i]
        held == (Len(d.points) - d.holdout + 1)..Len(d.points)
        within(m) == /\ Testable(d.points, m, d.holdout, d.policy)
                     /\ \A i \in held : Abs(error(d.points, m, i)) <= d.policy.maximumError
                     /\ MeanError(d.points, m, d.holdout) <= d.policy.meanError
                     /\ Abs(Bias(d.points, m, d.holdout)) <= d.policy.bias
    IN /\ within(c) /\ basisModels[id].forecast = d.forecast /\ Cardinality(d.forecast) = 1
       /\ \A i \in held, x \in {0, 7} :
            LET other == [k \in DOMAIN d.points |-> IF k >= i THEN x ELSE d.points[k]]
            IN error(other, c, i) + x = error(d.points, c, i) + d.points[i]
       /\ \A m \in Candidate : within(m) =>
            \/ MeanError(d.points, c, d.holdout) < MeanError(d.points, m, d.holdout)
            \/ /\ MeanError(d.points, c, d.holdout) = MeanError(d.points, m, d.holdout)
               /\ Abs(Bias(d.points, c, d.holdout)) <= Abs(Bias(d.points, m, d.holdout))
       /\ basisModels[id].state = "PUBLISHED" => basisModels[id].checker # basisModels[id].maker
=============================================================================
