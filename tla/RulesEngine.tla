---------------------------- MODULE RulesEngine ----------------------------
(***************************************************************************)
(* packages/rules-engine: a version of a rule set is validated, simulated  *)
(* over scenarios, approved by a second person and published; the first    *)
(* rule that matches the facts, by precedence, decides.  The fuel limits   *)
(* of a fleet, another set of rules in force from one instant to another,  *)
(* follow after it.                                                        *)
(*                                                                         *)
(* A version names its contents: RuleSet says what they are.               *)
(***************************************************************************)
EXTENDS Maps, Integers, Sequences

CONSTANTS
  RuleSet,       \* version -> [from, to, rules]; rules is a sequence
  FactTypes,     \* the schema: fact -> "NUMBER" or "BOOLEAN"
  Facts,         \* the facts decisions are asked on
  Scenario,      \* the canonical scenarios: [facts, expected, at]
  RuleTime, RulePrincipal

VARIABLES
  validations,   \* version -> errors found
  simulated,     \* version -> scenarios that failed
  ruleApprovals, \* version -> [maker, checker, at]
  ruleStates,    \* version -> "SCHEDULED" or "PUBLISHED", for those published
  ruleDecision   \* the last decision made, in a sequence of at most one

ruleVars == <<validations, simulated, ruleApprovals, ruleStates, ruleDecision>>

RulesInit ==
  /\ validations = EmptyMap /\ simulated = EmptyMap /\ ruleApprovals = EmptyMap
  /\ ruleStates = EmptyMap /\ ruleDecision = <<>>

-----------------------------------------------------------------------------
\* Prohibitions first, the default last.
precedenceOrder ==
  [PROHIBITION_INVALIDITY |-> 0, REGULATORY_LEGAL_ENTITY |-> 1, RISK_FRAUD |-> 2, PRODUCT |-> 3,
   ORGANISATION_GROUP |-> 4, PROMOTION_CUSTOMER_CHOICE |-> 5, DEFAULT |-> 6]

\* The rules of a version are a list; their ids are in the order of localeCompare, and a rule
\* has a version of its own.
ASSUME RulesAssumption ==
  \A v \in DOMAIN RuleSet :
    LET rules == RuleSet[v].rules IN
    /\ Len(rules) \in Nat /\ DOMAIN rules = 1 .. Len(rules)
    /\ \A i \in DOMAIN rules : rules[i].precedence \in DOMAIN precedenceOrder /\ rules[i].id \in Int

\* A value is its type and a number (0 and 1 for a Boolean).
scalarType(value) == value[1]

Ordering == {"GT", "GTE", "LT", "LTE"}

\* A fact that is missing equals nothing, and only numbers have an order.
conditionMatches(c, facts) ==
  LET known   == c.fact \in DOMAIN facts
      numbers == known /\ scalarType(facts[c.fact]) = "NUMBER" /\ scalarType(c.value) = "NUMBER"
      actual  == facts[c.fact][2]
  IN CASE c.operator = "EQ"  -> known /\ facts[c.fact] = c.value
       [] c.operator = "NEQ" -> ~known \/ facts[c.fact] # c.value
       [] c.operator = "IN"  -> known /\ facts[c.fact] \in c.value
       [] c.operator = "GT"  -> numbers /\ actual > c.value[2]
       [] c.operator = "GTE" -> numbers /\ actual >= c.value[2]
       [] c.operator = "LT"  -> numbers /\ actual < c.value[2]
       [] c.operator = "LTE" -> numbers /\ actual <= c.value[2]

\* What is wrong with one condition, in the types of the schema.
ConditionErrors(c) ==
  IF c.fact \notin DOMAIN FactTypes THEN {"UNKNOWN_FACT"}
  ELSE LET values == IF c.operator = "IN" THEN c.value ELSE {c.value}
       IN IF \/ \E v \in values : scalarType(v) # FactTypes[c.fact]
             \/ c.operator \in Ordering /\ FactTypes[c.fact] # "NUMBER"
          THEN {"TYPE_MISMATCH"} ELSE {}

\* Two equalities of one rule ask for different values of one fact.
Conflicting(rule) ==
  \E c, d \in rule.conditions :
    c.operator = "EQ" /\ d.operator = "EQ" /\ c.fact = d.fact /\ c.value # d.value

\* Mutant of HasFallback: a default rule with conditions of its own is fallback enough.
HasDefault(rules) == \E i \in DOMAIN rules : rules[i].precedence = "DEFAULT"

HasFallback(rules) ==
  \E i \in DOMAIN rules : rules[i].precedence = "DEFAULT" /\ rules[i].conditions = {}

\* Two versions of one rule may stand in one list.
identity(rule) == <<rule.id, rule.version>>

RuleSetErrors(set) ==
  (IF set.to <= set.from THEN {"INVALID_EFFECTIVE_WINDOW"} ELSE {})
  \cup (IF HasFallback(set.rules) THEN {} ELSE {"MISSING_FALLBACK"})
  \cup (IF \E i, j \in DOMAIN set.rules : i # j /\ identity(set.rules[i]) = identity(set.rules[j])
        THEN {"DUPLICATE_RULE"} ELSE {})
  \cup (IF \E i \in DOMAIN set.rules : Conflicting(set.rules[i])
        THEN {"CONFLICTING_CONDITION"} ELSE {})
  \cup UNION {UNION {ConditionErrors(c) : c \in set.rules[i].conditions} : i \in DOMAIN set.rules}

validateRuleSet(v) ==
  /\ NewKey(validations, v)
  /\ validations' = Put(validations, v, RuleSetErrors(RuleSet[v]))
  /\ UNCHANGED <<simulated, ruleApprovals, ruleStates, ruleDecision>>

Typed(facts) ==
  \A f \in DOMAIN FactTypes : f \in DOMAIN facts /\ scalarType(facts[f]) = FactTypes[f]

InWindow(set, at) == set.from <= at /\ at < set.to

Matches(rule, facts) == \A c \in rule.conditions : conditionMatches(c, facts)

\* Rules are tried by precedence, then by id; the sort is stable, so that the versions of one
\* rule stay as they are listed.
Before(rules, i, j) ==
  \/ precedenceOrder[rules[i].precedence] < precedenceOrder[rules[j].precedence]
  \/ rules[i].precedence = rules[j].precedence /\ rules[i].id < rules[j].id
  \/ rules[i].precedence = rules[j].precedence /\ rules[i].id = rules[j].id /\ i < j

\* The rules that decide: one, or none, which is an exception.
Deciding(set, facts) ==
  {i \in DOMAIN set.rules :
     /\ Matches(set.rules[i], facts)
     /\ \A j \in DOMAIN set.rules : Matches(set.rules[j], facts) => i = j \/ Before(set.rules, i, j)}

Outcome(set, facts) == set.rules[CHOOSE i \in Deciding(set, facts) : TRUE].outcome

\* A simulation evaluates the set as if it were published; an exception ends it.
simulateRuleSet(v) ==
  /\ NewKey(simulated, v)
  /\ \A s \in Scenario :
       Typed(s.facts) /\ InWindow(RuleSet[v], s.at) /\ Deciding(RuleSet[v], s.facts) # {}
  /\ simulated' = Put(simulated, v,
       {s \in Scenario : Outcome(RuleSet[v], s.facts) # s.expected})
  /\ UNCHANGED <<validations, ruleApprovals, ruleStates, ruleDecision>>

approveRuleSet(v, maker, checker, at) ==
  /\ NewKey(ruleApprovals, v) /\ maker # checker
  /\ v \in DOMAIN validations /\ validations[v] = {}
  /\ v \in DOMAIN simulated /\ simulated[v] = {} /\ Scenario # {}
  /\ ruleApprovals' = Put(ruleApprovals, v, [maker |-> maker, checker |-> checker, at |-> at])
  /\ UNCHANGED <<validations, simulated, ruleStates, ruleDecision>>

\* A version published before its window is SCHEDULED, and stays so until it is published
\* again inside it.
publishRuleSet(v, at) ==
  /\ v \in DOMAIN ruleApprovals /\ at >= ruleApprovals[v].at
  /\ ruleStates' = Put(ruleStates, v, IF RuleSet[v].from > at THEN "SCHEDULED" ELSE "PUBLISHED")
  /\ UNCHANGED <<validations, simulated, ruleApprovals, ruleDecision>>

evaluateRules(v, facts, at) ==
  /\ v \in DOMAIN ruleStates /\ ruleStates[v] = "PUBLISHED" /\ InWindow(RuleSet[v], at)
  /\ Typed(facts) /\ Deciding(RuleSet[v], facts) # {}
  /\ ruleDecision' =
       <<[version |-> v, facts |-> facts, at |-> at, outcome |-> Outcome(RuleSet[v], facts)]>>
  /\ UNCHANGED <<validations, simulated, ruleApprovals, ruleStates>>

RulesNext ==
  \E v \in DOMAIN RuleSet :
    \/ validateRuleSet(v)
    \/ simulateRuleSet(v)
    \/ \E maker, checker \in RulePrincipal, at \in RuleTime : approveRuleSet(v, maker, checker, at)
    \/ \E at \in RuleTime : publishRuleSet(v, at)
    \/ \E facts \in Facts, at \in RuleTime : evaluateRules(v, facts, at)

-----------------------------------------------------------------------------
\* A published version always has an answer: for facts of the schema inside its window
\* exactly one rule decides, no rule that matches outranks it, and an exception in the
\* middle of a customer's request cannot happen.  Where only the list decides, between rules
\* of one precedence and one id, it decides between two versions of the rule, and for the
\* one listed first.
PublishedAlwaysAnswers ==
  \A v \in DOMAIN ruleStates : \A facts \in Facts : Typed(facts) =>
    LET rules == RuleSet[v].rules
        matching == {i \in DOMAIN rules : Matches(rules[i], facts)}
    IN /\ matching # {}
       /\ Cardinality(Deciding(RuleSet[v], facts)) = 1
       /\ \A i \in Deciding(RuleSet[v], facts), j \in matching :
            /\ precedenceOrder[rules[i].precedence] <= precedenceOrder[rules[j].precedence]
            /\ i # j /\ rules[i].precedence = rules[j].precedence /\ rules[i].id = rules[j].id =>
                 i < j /\ rules[i].version # rules[j].version

-----------------------------------------------------------------------------
(* packages/fleet: the fuel limits of an organisation's vehicles.  Policies *)
(* of a vehicle group follow one another; a request is judged under the    *)
(* one in force when the fuel was taken, which may be before it is judged. *)

CONSTANTS
  Vehicle,           \* vehicle -> [organisation, group, active]
  FleetPolicy,       \* [organisation, group, version, from, to, perVehicle, perOrganisation]
  FleetSeed,         \* the policies of createFleetState, a sequence
  FleetRequest,      \* [organisation, vehicle, requested, vehicleUsed, organisationUsed]
  LastFleetTime, MaxPolicies, MaxFleetDecisions   \* bounds

PolicyGiven == FleetPolicy \cup {FleetSeed[i] : i \in DOMAIN FleetSeed}

\* Volumes are whole ten-thousandths, instants whole milliseconds.
ASSUME FleetAssumption ==
  /\ {LastFleetTime, MaxPolicies, MaxFleetDecisions} \subseteq Nat
  /\ FleetSeed \in Seq(PolicyGiven)
  /\ \A p \in PolicyGiven : {p.from, p.to, p.perVehicle, p.perOrganisation} \subseteq Int
  /\ \A r \in FleetRequest : {r.requested, r.vehicleUsed, r.organisationUsed} \subseteq Int

VARIABLES policies, fleetDecisions, fleetNow

fleetVars == <<policies, fleetDecisions, fleetNow>>

FleetInit == policies = FleetSeed /\ fleetDecisions = {} /\ fleetNow = 0

-----------------------------------------------------------------------------
\* From its first instant up to, and without, its last.
EffectiveAt(p, at) == p.from <= at /\ at < p.to

\* Of the policies in force the latest version; of two with one version the one added first.
policyAt(of, v, at) ==
  LET mine == {i \in DOMAIN of : /\ of[i].organisation = Vehicle[v].organisation
                                 /\ of[i].group = Vehicle[v].group /\ EffectiveAt(of[i], at)}
      before(i, j) == of[i].version > of[j].version \/ (of[i].version = of[j].version /\ i < j)
  IN {of[i] : i \in {i \in mine : \A j \in mine \ {i} : before(i, j)}}

evaluateFleetLimit(of, r, at) ==
  LET found == policyAt(of, r.vehicle, at) IN
  IF Vehicle[r.vehicle].organisation # r.organisation \/ ~Vehicle[r.vehicle].active THEN "VEHICLE_NOT_ACTIVE"
  ELSE IF found = {} THEN "THROWS"
  ELSE IF \E p \in found : r.vehicleUsed + r.requested > p.perVehicle THEN "VEHICLE_LIMIT_EXCEEDED"
  ELSE IF \E p \in found : r.organisationUsed + r.requested > p.perOrganisation THEN "ORGANISATION_LIMIT_EXCEEDED"
  ELSE "ALLOWED"

\* The caller keeps what it was told; without a policy there is no answer.
Judge(r, at) ==
  /\ evaluateFleetLimit(policies, r, at) # "THROWS"
  /\ Cardinality(fleetDecisions) < MaxFleetDecisions
  /\ fleetDecisions' = fleetDecisions \cup
       {[request |-> r, at |-> at, answer |-> evaluateFleetLimit(policies, r, at), seen |-> Len(policies)]}
  /\ UNCHANGED <<policies, fleetNow>>

\* Mutant of Prospective: it need only end in the future.
StillToEnd(p) == p.to > fleetNow

Prospective(p) == p.from >= fleetNow

publishPolicy(organisation, p) ==
  /\ Len(policies) < MaxPolicies
  /\ organisation = p.organisation /\ Prospective(p)
  /\ p.perVehicle > 0 /\ p.perOrganisation >= p.perVehicle
  /\ policies' = Append(policies, p)
  /\ UNCHANGED <<fleetDecisions, fleetNow>>

FleetTick ==
  /\ fleetNow < LastFleetTime /\ fleetNow' = fleetNow + 1
  /\ UNCHANGED <<policies, fleetDecisions>>

FleetNext ==
  \/ \E r \in FleetRequest, at \in 0..fleetNow : Judge(r, at)
  \/ \E p \in FleetPolicy, v \in DOMAIN Vehicle : publishPolicy(Vehicle[v].organisation, p)
  \/ FleetTick

-----------------------------------------------------------------------------
\* A decision stands: judged again for the same instant, after whatever was published since,
\* the request gets the same answer, unless a policy took effect at that very instant.  What
\* was allowed keeps the limits of a policy of the vehicle's own organisation.
FleetDecisionsStand ==
  \A d \in fleetDecisions :
    LET r == d.request IN
    /\ (\A i \in d.seen + 1 .. Len(policies) : policies[i].from # d.at) =>
         evaluateFleetLimit(policies, r, d.at) = d.answer
    /\ d.answer = "ALLOWED" =>
         \E i \in 1..d.seen :
           /\ policies[i].organisation = r.organisation /\ EffectiveAt(policies[i], d.at)
           /\ r.requested + r.vehicleUsed <= policies[i].perVehicle
           /\ r.requested + r.organisationUsed <= policies[i].perOrganisation
=============================================================================
