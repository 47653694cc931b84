----------------------------- MODULE SpreadDesk -----------------------------
(***************************************************************************)
(* The spread and FX workspace of the control room: a draft of the spread   *)
(* is typed, simulated as it is drawn, submitted, and carried through the   *)
(* whole lifecycle of the spread engine (packages/demo-data/spread-fx.ts,   *)
(* apps/admin/components/spread-fx-workspace.tsx), beside reference rates   *)
(* that are direct or go through a pivot.                                   *)
(*                                                                         *)
(* Instants are minutes of the demonstration's day; rates have six places.  *)
(* The id of a published decision is made of its total, which stands for it *)
(* here.                                                                    *)
(***************************************************************************)
EXTENDS SpreadQuotes, Authz

CONSTANTS
  SpreadUser,         \* the principals who may be signed in
  SpreadEnvironment,
  SpreadOrganisation, \* the organisations of the picker
  TypedBps,           \* what is typed into a component's field, in basis points
  ChangeReason,       \* reasons that can be typed, NoReason when blank
  NoReason, NoLifecycle

\* Those who sign in hold roles there are; a field of basis points takes whole numbers.
ASSUME SpreadDeskAssumption ==
  TypedBps \subseteq Int /\ \A u \in SpreadUser : u.roles \subseteq roleCodes

VARIABLES
  spreadUser,
  spreadPage   \* [organisation, components, reason, action, lifecycle, up]

spreadDeskVars == <<spreadUser, spreadPage>>

-----------------------------------------------------------------------------
(* The draft and its lifecycle                                             *)

activeSpreadDecision ==
  [components |-> [cost |-> 130, margin |-> 70, reserve |-> 30], total |-> 230,
   maker |-> "principal-rt-maker", checker |-> "principal-rt-checker", effective |-> 0]

spreadLifecyclePolicy ==
  [id |-> "spread-policy@1.1", maximumTotal |-> 500, maximumChange |-> 50, minimumRecovery |-> 120,
   maximumExposure |-> 2000000, default |-> activeSpreadDecision.components]

spreadImpactCohorts ==
  {[name |-> "US-FLEET", quantity |-> 1100000], [name |-> "CANADA-FLEET", quantity |-> 600000]}

\* The gross spread is derived from the components.
proposeSpreadComponents(components, reason, initiatedBy) ==
  [components |-> components, total |-> totalSpreadBps(components), reason |-> reason,
   maker |-> initiatedBy, subsidy |-> FALSE]

\* The draft alone; the limits of the policy are the engine's.
validateSpreadDraft(draft) ==
  /\ draft.components.cost >= 0 /\ draft.components.margin >= 0 /\ draft.components.reserve >= 0
  /\ draft.total = totalSpreadBps(draft.components)
  /\ draft.reason # NoReason

\* createSpreadProposal throws: above the limit, or cheaper protection nobody pays for.
Refused(draft) ==
  \/ ~validateComponents(draft.components, spreadLifecyclePolicy)
  \/ draft.components.cost < spreadLifecyclePolicy.default.cost

\* What is drawn beside the draft; drawing throws what the engine throws.
simulateSpreadDraftLifecycle(draft) ==
  CASE ~validateSpreadDraft(draft) -> "NONE"
    [] validateSpreadDraft(draft) /\ Refused(draft) -> "THROWS"
    [] OTHER -> IF Blockers(draft, activeSpreadDecision, spreadImpactCohorts, spreadLifecyclePolicy) = {}
                THEN "SIMULATED" ELSE "BLOCKED"

\* Another checker stands in where the checker made the draft.
CheckerFor(maker) ==
  IF maker = "principal-rt-checker" THEN "principal-rt-checker-alternate" ELSE "principal-rt-checker"

\* The id of the decision published in place of the active one: SPREAD-GLOBAL- and the total.
decisionId(decision) == decision.total

\* supersedeSpreadDecision throws when the replacement bears the id of what it replaces.
Supersedes(draft) == decisionId(draft) # decisionId(activeSpreadDecision)

\* Approved, scheduled for the next day, published, in place of the active decision, and withdrawn.
completeSpreadDraftLifecycle(draft) ==
  [draft |-> draft, previous |-> decisionId(activeSpreadDecision), replacement |-> decisionId(draft),
   checker |-> CheckerFor(draft.maker), proposed |-> 5, simulated |-> 6, approved |-> 7,
   scheduled |-> 8, effective |-> 600, published |-> 600, superseded |-> 601, withdrawn |-> 602]

-----------------------------------------------------------------------------
(* Reference rates                                                         *)

FxUnit == 1000000
Currencies == {"USD", "CAD", "GBP", "EUR"}

fxReferenceObservations ==
  { [base |-> "USD", quote |-> "CAD", rate |-> 1371200, observedAt |-> 0],
    [base |-> "GBP", quote |-> "USD", rate |-> 1286400, observedAt |-> 0],
    [base |-> "EUR", quote |-> "USD", rate |-> 1092500, observedAt |-> 0] }

\* The observation of a pair, if there is one.
observation(pair) == {o \in fxReferenceObservations : o.base = pair[1] /\ o.quote = pair[2]}

directCanonicalFxRate(pair) ==
  {[base |-> o.base, quote |-> o.quote, rate |-> o.rate, sources |-> <<o>>] : o \in observation(pair)}

\* Mutant of Chains: the pivot is not looked at.
ChainsAnywhere(first, second, output, pivot) == first.base = output[1] /\ second.quote = output[2]

\* From the base to the pivot and on to the quote.
Chains(first, second, output, pivot) ==
  /\ first.quote = pivot /\ second.base = pivot
  /\ first.base = output[1] /\ second.quote = output[2]

\* A product of rates is WholePart * FxUnit + RemainingPart; it does not fit the 32 bits of TLC, its
\* parts do.
Thousands(x) == x \div 1000
WholePart(a, b) == Thousands(a) * Thousands(b)
RemainingPart(a, b) ==
  (Thousands(a) * (b % 1000) + (a % 1000) * Thousands(b)) * 1000 + (a % 1000) * (b % 1000)

\* Math.round of a product of rates to six places.
RoundedProduct(a, b) == WholePart(a, b) + (RemainingPart(a, b) + FxUnit \div 2) \div FxUnit

triangulatedCanonicalFxRate(firstPair, secondPair, output, pivot) ==
  {[base |-> output[1], quote |-> output[2], rate |-> RoundedProduct(x[1].rate, x[2].rate), sources |-> x] :
     x \in {y \in observation(firstPair) \X observation(secondPair) : Chains(y[1], y[2], output, pivot)}}

\* Five minutes old at most, and not of the future.
fxObservationValidity(o, asOf) == asOf - o.observedAt >= 0 /\ asOf - o.observedAt <= 5

-----------------------------------------------------------------------------
(* The page                                                                *)

DraftOnPage == proposeSpreadComponents(spreadPage.components, spreadPage.reason, spreadUser.id)

FreshPage(organisation) ==
  [organisation |-> organisation, components |-> activeSpreadDecision.components,
   reason |-> CHOOSE r \in ChangeReason \ {NoReason} : TRUE, action |-> "idle", lifecycle |-> NoLifecycle, up |-> TRUE]

SpreadDeskInit ==
  /\ spreadUser \in SpreadUser
  /\ \E o \in SpreadOrganisation : spreadPage = FreshPage(o)

\* Other organisations see only that decisions are made by FuelCap itself.
SpreadShown == spreadPage.up /\ spreadPage.organisation = "org-fuelcap-global"

\* Nothing catches what drawing throws: the page is gone until it is loaded again.
Drawn(p) ==
  LET draft == proposeSpreadComponents(p.components, p.reason, spreadUser.id)
  IN [p EXCEPT !.up = simulateSpreadDraftLifecycle(draft) # "THROWS"]

\* Mutant of Edited: the lifecycle of the draft before stays.
EditedOnly(components) == [spreadPage EXCEPT !.components = components, !.action = "idle"]

\* An edit starts over.
Edited(components) ==
  [spreadPage EXCEPT !.components = components, !.action = "idle", !.lifecycle = NoLifecycle]

updateComponent(key, typed) ==
  /\ SpreadShown
  /\ spreadPage' = Drawn(Edited([spreadPage.components EXCEPT ![key] = Larger(0, typed)]))
  /\ UNCHANGED spreadUser

\* A new reason forgets the submission, not the lifecycle on show.
ChangeTheReason(reason) ==
  /\ SpreadShown
  /\ spreadPage' = Drawn([spreadPage EXCEPT !.reason = reason, !.action = "idle"])
  /\ UNCHANGED spreadUser

submitDraft ==
  /\ SpreadShown
  /\ spreadPage' = [spreadPage EXCEPT !.lifecycle = NoLifecycle,
       !.action = IF ~authorize(spreadUser, SpreadEnvironment, spreadPage.organisation, "spread-fx", "initiate", "nobody")
                  THEN "denied"
                  ELSE IF simulateSpreadDraftLifecycle(DraftOnPage) # "SIMULATED" THEN "invalid" ELSE "submitted"]
  /\ UNCHANGED spreadUser

\* A click that throws changes nothing: a draft of the active total is never completed.
completeLifecycleRehearsal ==
  /\ SpreadShown /\ spreadPage.action = "submitted" /\ simulateSpreadDraftLifecycle(DraftOnPage) = "SIMULATED"
  /\ Supersedes(DraftOnPage)
  /\ spreadPage' = [spreadPage EXCEPT !.lifecycle = completeSpreadDraftLifecycle(DraftOnPage)]
  /\ UNCHANGED spreadUser

\* The workspace is keyed by the organisation: it starts over.
SwitchOrganisation(o) ==
  /\ spreadPage.up /\ o # spreadPage.organisation
  /\ spreadPage' = FreshPage(o)
  /\ UNCHANGED spreadUser

LoadAgain ==
  /\ ~spreadPage.up
  /\ \E o \in SpreadOrganisation : spreadPage' = FreshPage(o)
  /\ UNCHANGED spreadUser

SpreadDeskNext ==
  \/ \E typed \in TypedBps, key \in {"cost", "margin", "reserve"} : updateComponent(key, typed)
  \/ \E reason \in ChangeReason : ChangeTheReason(reason)
  \/ submitDraft \/ completeLifecycleRehearsal \/ LoadAgain
  \/ \E o \in SpreadOrganisation : SwitchOrganisation(o)

-----------------------------------------------------------------------------
(* Properties                                                              *)

\* A completed lifecycle on show is of the components on show, submitted by someone who may
\* initiate, approved by somebody else, within every limit of the policy, in order, and puts a
\* decision of another id and another charge in the place of the active one.
LifecycleOfTheDraft ==
  LET done == spreadPage.lifecycle IN
  done # NoLifecycle =>
    /\ done.draft.components = spreadPage.components
    /\ "RT" \in spreadUser.roles /\ spreadPage.organisation = "org-fuelcap-global"
    /\ done.checker # done.draft.maker
    /\ done.previous = 230 /\ done.replacement # 230
    /\ done.replacement = spreadPage.components.cost + spreadPage.components.margin + spreadPage.components.reserve
    /\ done.draft.total <= 500 /\ Difference(done.draft.total, 230) <= 50 /\ done.draft.components.cost >= 130
    /\ done.approved >= done.proposed /\ done.scheduled >= done.approved
    /\ done.published >= done.effective /\ done.superseded >= done.published /\ done.withdrawn >= done.published

\* Whichever pairs and pivot are asked for, a rate that is answered goes from its base to its
\* quote through observations that meet and are recent, within half a unit of their product.
RatesKeepDirection ==
  \A firstPair, secondPair, output \in Currencies \X Currencies, pivot \in Currencies :
    \A r \in triangulatedCanonicalFxRate(firstPair, secondPair, output, pivot) :
      LET a == r.sources[1]  b == r.sources[2] IN
      /\ a.base = r.base /\ a.quote = b.base /\ b.quote = r.quote
      /\ fxObservationValidity(a, 0) /\ fxObservationValidity(b, 0)
      /\ Difference((r.rate - WholePart(a.rate, b.rate)) * FxUnit, RemainingPart(a.rate, b.rate)) * 2 <= FxUnit
      /\ directCanonicalFxRate(output) = {}
=============================================================================
