--------------------------- MODULE PriceEvidence ---------------------------
(***************************************************************************)
(* packages/pricing-ingestion and packages/benchmark-engine: provider      *)
(* records are judged against the reference catalogue, and a benchmark is  *)
(* the weighted median of what was accepted; packages/eu-pricing-source    *)
(* releases the official bulletins of the week (second part); what is made *)
(* of all prices is judged by packages/pricing-control (third part).       *)
(*                                                                         *)
(* Both are pure functions; the state is the evidence made so far.  Texts  *)
(* are ids, a decimal is its digits, an instant a number.                  *)
(***************************************************************************)
EXTENDS Maps, Integers, Sequences

CONSTANTS
  Envelope,          \* what providers deliver
  Providers, Products, Stations,     \* the catalogue: Maps of reference data
  NoStation,         \* a record without a station
  MaximumAge, FutureTolerance,       \* IngestionPolicy
  BenchmarkId,
  BenchmarkPolicy    \* the policies benchmarks are decided under

\* A policy that asks for no candidate or no station is refused by an exception.
ASSUME BenchmarkPolicyAssumption ==
  \A p \in BenchmarkPolicy :
    /\ p.minimumCandidates > 0 /\ p.expectedStations > 0
    /\ {p.minimumCandidates, p.expectedStations, p.minimumCoverage, p.maximumDispersion} \subseteq Int

\* A decimal is digits, numbers of stations are whole, and so are instants that parse.
ASSUME EnvelopeAssumption ==
  /\ {MaximumAge, FutureTolerance} \subseteq Int
  /\ \A e \in Envelope :
       /\ {e.price.whole, e.price.fraction, e.price.places} \subseteq Nat
       /\ {e.record, e.hash, e.stations} \subseteq Int
       /\ e.wellFormed => {e.observedAt, e.receivedAt} \subseteq Int

VARIABLES
  observations,      \* accepted observations, with the payload each came from
  benchmarks         \* BenchmarkId -> decision

priceVars == <<observations, benchmarks>>

PriceEvidenceInit == observations = {} /\ benchmarks = EmptyMap

-----------------------------------------------------------------------------
(* Ingestion                                                               *)

QualityCode ==
  { "SCHEMA_INVALID", "REFERENCE_UNKNOWN", "REFERENCE_INACTIVE", "MARKET_MISMATCH",
    "UNIT_CURRENCY_MISMATCH", "OBSERVED_IN_FUTURE", "STALE", "LICENCE_PROHIBITS_USE" }

\* A period is half-open; no end is an end after every instant.
isEffectiveAt(period, at) == period.from <= at /\ at < period.to

\* Selection for quotes and settlement, and simulation, are licensed apart.
licenceUses(provider) ==
  IF provider \notin DOMAIN Providers THEN {}
  ELSE {"DISPLAY"} \cup (IF Providers[provider].canonical THEN {"QUOTE", "SETTLE"} ELSE {})
                   \cup (IF Providers[provider].derived THEN {"SIMULATE"} ELSE {})

\* A decimal of at most four places as an integer; zero is no price.
NoPrice == 0
PlaceValue == [places \in 0..4 |-> <<10000, 1000, 100, 10, 1>>[places + 1]]
parseMinor4dp(decimal) ==
  IF decimal.places > 4 THEN NoPrice
  ELSE decimal.whole * 10000 + decimal.fraction * PlaceValue[decimal.places]

\* The reference data of a record is in force when the price was observed.
InForce(reference, at) == reference.active /\ isEffectiveAt(reference.effective, at)

\* What is wrong with an envelope; a check that needs unknown reference data is skipped.
Issues(e) ==
  LET provider == e.provider \in DOMAIN Providers
      product  == e.product \in DOMAIN Products
      station  == e.station \in DOMAIN Stations
      age      == e.receivedAt - e.observedAt
      raised(code) ==
        \/ code = "SCHEMA_INVALID" /\ (~e.wellFormed \/ parseMinor4dp(e.price) = NoPrice)
        \/ code = "REFERENCE_UNKNOWN" /\ ~(provider /\ product /\ (e.station = NoStation \/ station))
        \/ /\ code = "MARKET_MISMATCH" /\ provider /\ product
           /\ \/ Products[e.product].market \notin Providers[e.provider].markets
              \/ station /\ Stations[e.station].market # Products[e.product].market
        \/ code = "UNIT_CURRENCY_MISMATCH" /\ product
           /\ e.denomination # Products[e.product].denomination
        \/ /\ code = "REFERENCE_INACTIVE" /\ provider /\ product
           /\ ~(/\ InForce(Providers[e.provider], e.observedAt)
                /\ InForce(Products[e.product], e.observedAt)
                /\ station => InForce(Stations[e.station], e.observedAt))
        \/ code = "OBSERVED_IN_FUTURE" /\ age < -FutureTolerance
        \/ code = "STALE" /\ age > MaximumAge
        \/ code = "LICENCE_PROHIBITS_USE" /\ ~(e.requested \subseteq licenceUses(e.provider))
  IN {code \in QualityCode : raised(code)}

\* The record names the observation, not the payload: a corrected record has the same id.
Observation(e) ==
  [id |-> e.record, price |-> parseMinor4dp(e.price), kind |-> e.kind,
   permitted |-> e.requested, stations |-> e.stations, payload |-> e.hash]

AcceptedHashes == {o.payload : o \in observations}

\* A payload accepted before is a DUPLICATE, one with issues is QUARANTINED: neither is
\* an observation, and a quarantined payload may come again.
ingestObservation(e) ==
  /\ e.hash \notin AcceptedHashes /\ Issues(e) = {}
  /\ observations' = observations \cup {Observation(e)} /\ UNCHANGED benchmarks

-----------------------------------------------------------------------------
(* Benchmark                                                               *)

eligible(o) == o.kind = "ACTUAL_PUMP" /\ "QUOTE" \in o.permitted /\ o.stations > 0

evidenceForRejected(o) ==
  IF o.kind # "ACTUAL_PUMP" THEN "NON_ACTUAL_INPUT"
  ELSE IF "QUOTE" \notin o.permitted THEN "NOT_QUOTE_LICENSED" ELSE "INVALID_WEIGHT"

\* Cheapest first, ties by id (and, for a corrected record, as they come).
Cheaper(a, b) ==
  \/ a.price < b.price
  \/ a.price = b.price /\ a.id < b.id
  \/ a.price = b.price /\ a.id = b.id /\ a.payload < b.payload

Weight(S) == Total([o \in S |-> o.stations])

\* Mutant of Selected: half of the whole is rounded down.
SelectedEarly(accepted) ==
  LET upTo(p) == Weight({q \in accepted : Cheaper(q, p)} \cup {p})
      reaches(p) == upTo(p) >= Weight(accepted) \div 2
  IN CHOOSE o \in accepted : reaches(o) /\ \A p \in accepted : Cheaper(p, o) => ~reaches(p)

\* The first candidate whose running weight reaches half of the whole, rounded up.
Selected(accepted) ==
  LET upTo(p) == Weight({q \in accepted : Cheaper(q, p)} \cup {p})
      reaches(p) == upTo(p) >= (Weight(accepted) + 1) \div 2
  IN CHOOSE o \in accepted : reaches(o) /\ \A p \in accepted : Cheaper(p, o) => ~reaches(p)

Coverage(accepted, policy) ==
  Smaller(10000, (Weight(accepted) * 10000) \div policy.expectedStations)

Dispersion(accepted) ==
  LET prices == {o.price : o \in accepted}
  IN ((Max(prices) - Min(prices)) * 10000) \div Selected(accepted).price

\* Why a benchmark is blocked, the first reason of the code, or that it is published.
Verdict(accepted, policy) ==
  IF Cardinality(accepted) < policy.minimumCandidates THEN "INSUFFICIENT_CANDIDATES"
  ELSE IF Coverage(accepted, policy) < policy.minimumCoverage THEN "INSUFFICIENT_COVERAGE"
  ELSE IF Dispersion(accepted) > policy.maximumDispersion THEN "EXCESSIVE_DISPERSION"
  ELSE "BENCHMARK_SELECTED"

\* Evidence of every candidate; a selected id marks every candidate that has it.
Evidence(candidates, accepted, published) ==
  [o \in candidates |->
     IF o \notin accepted THEN evidenceForRejected(o)
     ELSE IF published /\ o.id = Selected(accepted).id THEN "WEIGHTED_MEDIAN"
     ELSE "ELIGIBLE_CORROBORATION"]

decideBenchmark(id, candidates, policy) ==
  LET accepted  == {o \in candidates : eligible(o)}
      reason    == Verdict(accepted, policy)
      published == reason = "BENCHMARK_SELECTED"
  IN /\ NewKey(benchmarks, id)
     /\ benchmarks' = Put(benchmarks, id,
          [policy |-> policy, reason |-> reason,
           status |-> IF published THEN "PUBLISHED" ELSE "BLOCKED",
           price |-> IF published THEN Selected(accepted).price ELSE NoPrice,
           evidence |-> Evidence(candidates, accepted, published)])
     /\ UNCHANGED observations

PriceEvidenceNext ==
  \/ \E e \in Envelope : ingestObservation(e)
  \/ \E id \in BenchmarkId, candidates \in SUBSET observations, policy \in BenchmarkPolicy :
       decideBenchmark(id, candidates, policy)

PriceSpec == PriceEvidenceInit /\ [][PriceEvidenceNext]_priceVars

-----------------------------------------------------------------------------
(* Properties                                                              *)

\* The candidates that counted in a decision.
Counted(b) ==
  {o \in DOMAIN b.evidence : b.evidence[o] \in {"WEIGHTED_MEDIAN", "ELIGIBLE_CORROBORATION"}}

\* A published benchmark represents the pumps behind it, whatever mixture of records,
\* corrections and weights it was decided from: no more than half of the stations sell
\* for less and no more than half for more, and every price that counted came from a
\* sound, fresh, quote-licensed pump record whose payload counts once.
Represents(b) ==
  LET counted == Counted(b)
  IN /\ \E o \in counted : o.price = b.price /\ b.evidence[o] = "WEIGHTED_MEDIAN"
     /\ 2 * Weight({o \in counted : o.price < b.price}) <= Weight(counted)
     /\ 2 * Weight({o \in counted : o.price > b.price}) <= Weight(counted)
     /\ \A o, p \in counted :
          /\ o.payload = p.payload => o = p
          /\ (o.price - p.price) * 10000 < (b.policy.maximumDispersion + 1) * b.price
     /\ \A o \in counted : \E e \in Envelope :
          /\ e.hash = o.payload /\ Issues(e) = {} /\ o.stations > 0
          /\ "QUOTE" \in licenceUses(e.provider) /\ e.kind = "ACTUAL_PUMP"
          /\ e.receivedAt - e.observedAt <= MaximumAge

BenchmarkRepresentative ==
  \A id \in DOMAIN benchmarks : benchmarks[id].status = "PUBLISHED" => Represents(benchmarks[id])

-----------------------------------------------------------------------------
(***************************************************************************)
(* packages/eu-pricing-source: weekly bulletins of official prices are     *)
(* parsed against a strict shape, released under a configuration two       *)
(* people approved, corrected, rolled back and watched for their age.      *)
(* They share no state with the observations above.                        *)
(***************************************************************************)
CONSTANTS
  Workbook,      \* [hash, effective, published, sound, rows, supersedes]
  NoWorkbook,    \* a workbook that corrects none
  Country,       \* EU_COUNTRIES
  Series4,       \* product and tax basis: four rows of a country
  EuPrincipal, EuDigest, Day,
  MaximumReleases

\* Four rows of each country; instants are whole.
ASSUME EuAssumption ==
  /\ IsFiniteSet(Country) /\ IsFiniteSet(Series4) /\ Cardinality(Series4) = 4
  /\ Day \subseteq Int /\ \A w \in Workbook : {w.effective, w.published} \subseteq Int

VARIABLES
  configuration, \* the configuration and its state
  known,         \* hashes of workbooks known so far
  releases       \* the releases, in order

euVars == <<configuration, known, releases>>

EuInit == configuration = [state |-> "NONE"] /\ known = {} /\ releases = <<>>

-----------------------------------------------------------------------------
(* Configuration                                                           *)

\* Both workbooks, all countries, products and tax bases, and a maker.
createEuBenchmarkConfiguration(maker, digest, at) ==
  /\ configuration.state = "NONE"
  /\ configuration' = [state |-> "PENDING_APPROVAL", maker |-> maker, digest |-> digest, requestedAt |-> at]
  /\ UNCHANGED <<known, releases>>

approveEuBenchmarkConfiguration(checker, digest, at) ==
  /\ configuration.state = "PENDING_APPROVAL"
  /\ checker # configuration.maker /\ digest = configuration.digest
  /\ at >= configuration.requestedAt
  /\ configuration' =
       [state |-> "APPROVED", maker |-> configuration.maker, digest |-> digest,
        requestedAt |-> configuration.requestedAt, checker |-> checker, approvedAt |-> at]
  /\ UNCHANGED <<known, releases>>

publishEuBenchmarkConfiguration(at) ==
  /\ configuration.state = "APPROVED" /\ at >= configuration.approvedAt
  /\ configuration' = [configuration EXCEPT !.state = "PUBLISHED"]
  /\ UNCHANGED <<known, releases>>

-----------------------------------------------------------------------------
(* Bulletins                                                               *)

\* Mutant of ReleaseIssues: a correction may name any workbook.
AnyCorrection(w, at) ==
  {issue \in {"SCHEMA_DRIFT", "TIMESTAMP_INVALID", "FUTURE_RELEASE", "STALE",
              "COUNTRY_COVERAGE"} :
     \/ issue = "SCHEMA_DRIFT" /\ ~w.sound
     \/ issue = "TIMESTAMP_INVALID" /\ w.published < w.effective
     \/ issue = "FUTURE_RELEASE" /\ w.published > at
     \/ issue = "STALE" /\ at - w.effective > 10
     \/ issue = "COUNTRY_COVERAGE" /\ w.rows # Country \X Series4}

\* What is wrong with a workbook: headers, hash and values, its instants, its rows, and
\* the workbook it says it corrects.
ReleaseIssues(w, at) ==
  {issue \in {"SCHEMA_DRIFT", "TIMESTAMP_INVALID", "FUTURE_RELEASE", "STALE",
              "COUNTRY_COVERAGE", "CORRECTION_INVALID"} :
     \/ issue = "SCHEMA_DRIFT" /\ ~w.sound
     \/ issue = "TIMESTAMP_INVALID" /\ w.published < w.effective
     \/ issue = "FUTURE_RELEASE" /\ w.published > at
     \/ issue = "STALE" /\ at - w.effective > 10
     \/ issue = "COUNTRY_COVERAGE" /\ w.rows # Country \X Series4
     \/ /\ issue = "CORRECTION_INVALID" /\ w.supersedes # NoWorkbook
        /\ \/ w.hash \in known
           \/ w.supersedes \notin known \/ w.supersedes = w.hash}

\* Parsing the workbook and releasing what it says: in quarantine, it holds nothing.
\* Each presentation of a row, national and in euro, is an observation.
createEuBenchmarkRelease(w, assessed, ingested) ==
  LET issues == ReleaseIssues(w, assessed) IN
  /\ configuration.state = "PUBLISHED" /\ Len(releases) < MaximumReleases
  /\ issues = {} => ingested >= w.published
  /\ releases' = Append(releases,
       IF issues # {}
       THEN [state |-> "QUARANTINED", workbook |-> w, assessed |-> assessed, observations |-> 0]
       ELSE [state |-> "PUBLISHED", workbook |-> w, assessed |-> assessed,
             observations |-> 2 * Cardinality(w.rows)])
  /\ known' = IF issues = {} THEN known \cup {w.hash} ELSE known
  /\ UNCHANGED configuration

rollbackEuBenchmarkRelease(n, maker, checker) ==
  /\ n \in DOMAIN releases /\ releases[n].state = "PUBLISHED" /\ maker # checker
  /\ releases' = [releases EXCEPT ![n].state = "ROLLED_BACK"]
  /\ UNCHANGED <<configuration, known>>

\* The health of a release on a day; ten days current, seventeen at most in use.
Health(release, at) ==
  LET age == at - release.workbook.effective
  IN IF release.state # "PUBLISHED" THEN release.state
     ELSE IF age <= 10 THEN "CURRENT" ELSE IF age <= 17 THEN "STALE" ELSE "EXPIRED"

\* The last release that is published and current.
Active(at) ==
  LET current == {n \in DOMAIN releases : Health(releases[n], at) = "CURRENT"}
  IN IF current = {} THEN 0 ELSE Max(current)

PublicationHealthy(at) ==
  Active(at) # 0 /\ \A n \in DOMAIN releases : Health(releases[n], at) # "QUARANTINED"

Alerts(at) ==
  LET some(health) == \E n \in DOMAIN releases : Health(releases[n], at) = health
  IN {alert \in {"QUARANTINE_REVIEW_REQUIRED", "NO_CURRENT_RELEASE", "STALE_RELEASE_PRESENT",
                 "EXPIRED_RELEASE_PRESENT"} :
        \/ alert = "QUARANTINE_REVIEW_REQUIRED" /\ some("QUARANTINED")
        \/ alert = "NO_CURRENT_RELEASE" /\ Active(at) = 0
        \/ alert = "STALE_RELEASE_PRESENT" /\ some("STALE")
        \/ alert = "EXPIRED_RELEASE_PRESENT" /\ some("EXPIRED")}

EuNext ==
  \/ \E p \in EuPrincipal, digest \in EuDigest, at \in Day :
       \/ createEuBenchmarkConfiguration(p, digest, at)
       \/ approveEuBenchmarkConfiguration(p, digest, at)
  \/ \E at \in Day : publishEuBenchmarkConfiguration(at)
  \/ \E w \in Workbook, assessed, ingested \in Day : createEuBenchmarkRelease(w, assessed, ingested)
  \/ \E n \in DOMAIN releases, maker, checker \in EuPrincipal :
       rollbackEuBenchmarkRelease(n, maker, checker)

-----------------------------------------------------------------------------
\* Whatever arrives and is taken back, the release in use on any day holds every country,
\* product and tax basis twice, is not from the future of its assessment, is at most ten
\* days old, and if it is a correction, what it corrects was released before it; and a feed
\* reported healthy has no alert but for releases that aged behind the active one.
ActiveReleaseComplete ==
  \A at \in Day :
    LET n == Active(at) IN
    /\ n # 0 =>
         LET w == releases[n].workbook IN
         /\ releases[n].observations = 8 * Cardinality(Country)
         /\ at - w.effective <= 10 /\ w.published <= releases[n].assessed
         /\ w.supersedes # NoWorkbook =>
              \E m \in 1..(n - 1) : /\ releases[m].workbook.hash = w.supersedes
                                    /\ releases[m].state # "QUARANTINED"
         /\ configuration.checker # configuration.maker
    /\ PublicationHealthy(at) =>
         Alerts(at) \subseteq {"STALE_RELEASE_PRESENT", "EXPIRED_RELEASE_PRESENT"}

-----------------------------------------------------------------------------
(***************************************************************************)
(* packages/pricing-control: a snapshot of all pricing engines is judged   *)
(* by seven checks, which may stop quoting; a recommendation that a model  *)
(* drafted is then let through, withheld or blocked under that judgement.  *)
(*                                                                         *)
(* A snapshot is                                                           *)
(*   [at, evidence, engines, age, coverage, dispersion, published, quoted, *)
(*    components, total, fx, rules, quarantined]                           *)
(* where evidence holds the references and engines the versions and the    *)
(* decision.  Another snapshot may take its place between the two calls:   *)
(* none compares the one it is given with the one that was judged.         *)
(***************************************************************************)

CONSTANTS
  ControlSnapshot,     \* the snapshots there can be
  ControlTime,         \* bound: when a snapshot is judged
  Draft,               \* drafts: [action, confidence, cited, sound, injected]
  MaxControlAge, MinCoverage, MaxDispersion,  \* the limits a snapshot carries
  NoDispersion,        \* of a benchmark that has none
  AbstainBelow, VerifyBelow,                  \* of the confidence
  NoAssessment, NoRecommendation

\* Ages, percentages, basis points and confidences are whole numbers.
ASSUME ControlAssumption ==
  /\ {AbstainBelow, VerifyBelow, MaxControlAge, MinCoverage, MaxDispersion} \subseteq Int
  /\ AbstainBelow <= VerifyBelow
  /\ \A s \in ControlSnapshot :
       {s.at, s.age, s.coverage} \subseteq Int /\ s.dispersion \in Nat \cup {NoDispersion} /\ s.quarantined \in Nat
  /\ ControlTime \subseteq Int /\ \A d \in Draft : d.confidence \in Int

VARIABLES
  control,         \* the snapshot of now
  assessed,        \* the last judgement
  governed         \* the last recommendation that was governed

controlVars == <<control, assessed, governed>>

ControlInit ==
  /\ control \in ControlSnapshot
  /\ assessed = NoAssessment /\ governed = NoRecommendation

-----------------------------------------------------------------------------
\* The engines publish another snapshot.
Refresh ==
  /\ control' \in ControlSnapshot \ {control}
  /\ UNCHANGED <<assessed, governed>>

\* Mutant of Agreeing: a benchmark without a dispersion has none that is too large.
AgreeingUnlessMeasured(s) == s.dispersion # NoDispersion => s.dispersion <= MaxDispersion

Agreeing(s) == s.dispersion # NoDispersion /\ s.dispersion <= MaxDispersion

Passes(s) ==
  [FRESHNESS |-> s.age <= MaxControlAge, COVERAGE |-> s.coverage >= MinCoverage,
   DISPERSION |-> Agreeing(s), QUOTE |-> s.published /\ s.quoted,
   SPREAD_RECONCILIATION |-> s.components = s.total, RULES_GATES |-> s.rules]

\* The checks that stop quoting.
BlockedChecks(s) == {c \in DOMAIN Passes(s) : ~Passes(s)[c]}

\* FX only warns, as records in quarantine do.
assessPricingControl(at) ==
  /\ at >= control.at
  /\ assessed' =
       [of |-> control, at |-> at, blocking |-> BlockedChecks(control),
        state |-> IF BlockedChecks(control) # {} THEN "QUOTE_STOPPED"
                  ELSE IF ~control.fx \/ control.quarantined > 0 THEN "DEGRADED" ELSE "HEALTHY",
        quotePermitted |-> BlockedChecks(control) = {}]
  /\ UNCHANGED <<control, governed>>

\* What the snapshot of now and the checks of the judgement refer to.
AllowedEvidence ==
  control.evidence \cup assessed.of.evidence \cup assessed.of.engines

\* In the order of the code: the first that applies.
StatusOf(draft) ==
  LET valid == draft.cited \cap AllowedEvidence IN
  IF draft.injected \/ ~draft.sound THEN "BLOCKED"
  ELSE IF valid = {} \/ valid # draft.cited \/ draft.confidence < AbstainBelow THEN "ABSTAIN"
  ELSE IF assessed.state = "QUOTE_STOPPED" /\ draft.action # "ESCALATE_INCIDENT" THEN "BLOCKED"
  ELSE IF draft.confidence < VerifyBelow THEN "VERIFY" ELSE "SUPPORTED"

governPricingRecommendation(draft) ==
  /\ assessed # NoAssessment
  /\ LET status == StatusOf(draft)
         proposes == status \in {"VERIFY", "SUPPORTED"} IN
     governed' =
       [status |-> status, action |-> IF proposes THEN draft.action ELSE "NONE",
        citations |-> IF draft.injected THEN {} ELSE draft.cited \cap AllowedEvidence,
        draft |-> draft, assessed |-> assessed, seen |-> control.evidence]
  /\ UNCHANGED <<control, assessed>>

ControlNext ==
  \/ Refresh
  \/ \E at \in ControlTime : assessPricingControl(at)
  \/ \E draft \in Draft : governPricingRecommendation(draft)

-----------------------------------------------------------------------------
\* A recommendation proposes something only on evidence, all of it that of the snapshot
\* judged or of the one of now, and never from a context that tries to instruct.  While the
\* judgement it names found prices stale, too few, dispersed or of unknown dispersion, or
\* an engine without a price or in doubt, it proposes nothing but an escalation.  Healthy
\* is only what nothing at all speaks against.
RecommendationsGrounded ==
  LET r == governed
      j == r.assessed
      s == j.of
      unquotable == \/ s.age > MaxControlAge \/ s.coverage < MinCoverage
                    \/ s.dispersion \notin 0..MaxDispersion
                    \/ ~(s.published /\ s.quoted /\ s.rules) \/ s.components # s.total
  IN r # NoRecommendation =>
       /\ r.action # "NONE" =>
            /\ r.citations # {} /\ r.citations = r.draft.cited
            /\ r.citations \subseteq s.evidence \cup s.engines \cup r.seen
            /\ ~r.draft.injected /\ r.draft.confidence >= AbstainBelow
            /\ unquotable => r.action = "ESCALATE_INCIDENT" /\ ~j.quotePermitted
       /\ j.at >= s.at
       /\ j.state = "HEALTHY" => ~unquotable /\ s.fx /\ s.quarantined = 0
=============================================================================
