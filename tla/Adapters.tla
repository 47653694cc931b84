------------------------------ MODULE Adapters ------------------------------
(***************************************************************************)
(* The boundary to live partners: the launch gate of packages/compliance   *)
(* and the adapters behind it (packages/payments-adapters, integration-    *)
(* adapters and the verification of customers in identity).                *)
(*                                                                         *)
(* The gate is evaluated from the evidence and the partners of the moment, *)
(* and its result is handed to every adapter: evidence may expire, or be   *)
(* replaced, while the result is still in use.  An event is abstracted to  *)
(* what the adapters check: `authentic` stands for a verified signature, a *)
(* hashed payload and a readable time, `tokenized` for references that are *)
(* tokens, never the account, card or document itself.  Comparing an       *)
(* instruction with our own record (reconcileExternalInstruction) changes  *)
(* nothing and is left out.                                                *)
(***************************************************************************)
EXTENDS Maps, Integers, Sequences

CONSTANTS
  Requirement,   \* control -> [market, partner]: the market (and legal entity), the partner's kind
  Approval,      \* what may be filed: [id, control, status, market, maker, checker, expires]
  Partner,       \* what may be listed: [kind, environment, controls]
  PartnerControls,\* the six controls a production partner must have
  Event,         \* what partners may send: [id, from, environment, authentic, ...]
  Message,       \* what may be asked to be sent: [id, key, class, channel, environment, ready]
  Preferences,   \* what the recipient may allow: [marketing, channels]
  LastDay,       \* bound: the last moment of the clock
  MaxFiled,      \* bound: the evidence filed, and the partners listed
  MaxInstructions,\* bound: the instructions made
  MaxChanges,    \* bound: changes of the recipient's preferences
  NoGate

\* What a check of a customer may come back with.
Outcome == {"CLEAR", "POSSIBLE_MATCH", "CONFIRMED_MATCH", "INCONCLUSIVE"}

ASSUME AdaptersAssumption ==
  /\ LastDay \in Nat /\ {MaxFiled, MaxInstructions} \subseteq Nat /\ MaxChanges \in Nat
  /\ \A e \in Event : e.from = "verification" => \A c \in DOMAIN e.checks : e.checks[c] \in Outcome

VARIABLES
  today,         \* the clock
  filed,         \* the evidence filed, in order
  partners,      \* the partners listed, in order
  gate,          \* the last result of the launch gate
  seen,          \* the ids of events taken, and the keys of messages sent
  instructions,  \* what the adapters made of them
  preference     \* what the recipient allows, with its version

adapterVars == <<today, filed, partners, gate, seen, instructions, preference>>

AdaptersInit ==
  /\ today = 0
  /\ filed = <<>> /\ partners = <<>> /\ gate = NoGate
  /\ seen = {} /\ instructions = {}
  /\ preference \in [allows : Preferences, version : {0}]

-----------------------------------------------------------------------------
(* evaluatePhase6Launch                                                    *)

\* Mutant of Proves: nobody asks who checked the evidence.
ProvesUnchecked(e, control) ==
  /\ e.control = control /\ e.status = "APPROVED" /\ e.market = Requirement[control].market
  /\ e.expires > today

Proves(e, control) ==
  /\ e.control = control /\ e.status = "APPROVED" /\ e.market = Requirement[control].market
  /\ e.maker # e.checker /\ e.expires > today

First(list, Good(_)) == CHOOSE i \in DOMAIN list : Good(list[i]) /\ \A j \in 1 .. i - 1 : ~Good(list[j])

\* Only the first production partner of the kind is looked at.
Served(control) ==
  LET Fits(p) == p.kind = Requirement[control].partner /\ p.environment = "PRODUCTION"
  IN /\ \E i \in DOMAIN partners : Fits(partners[i])
     /\ partners[First(partners, Fits)].controls = PartnerControls

\* The first piece of evidence that proves the control is the one cited.
Cited(control) ==
  LET Good(e) == Proves(e, control) IN filed[First(filed, Good)]

Passed(control) == (\E i \in DOMAIN filed : Proves(filed[i], control)) /\ Served(control)

evaluatePhase6Launch ==
  /\ gate' = [decision |-> IF \A control \in DOMAIN Requirement : Passed(control) THEN "READY" ELSE "BLOCKED",
              at       |-> today,
              audit    |-> {Cited(control) : control \in {c \in DOMAIN Requirement : Passed(c)}}]
  /\ UNCHANGED <<today, filed, partners, seen, instructions, preference>>

\* External: evidence is filed and partners are listed, and time passes.
File(e) ==
  /\ Len(filed) < MaxFiled /\ filed' = Append(filed, e)
  /\ UNCHANGED <<today, partners, gate, seen, instructions, preference>>

List(p) ==
  /\ Len(partners) < MaxFiled /\ partners' = Append(partners, p)
  /\ UNCHANGED <<today, filed, gate, seen, instructions, preference>>

NextDay ==
  /\ today < LastDay /\ today' = today + 1
  /\ UNCHANGED <<filed, partners, gate, seen, instructions, preference>>

-----------------------------------------------------------------------------
(* The adapters                                                            *)

\* Production only behind a gate that is open, for all it is known.
authorizeEnvironment(x) ==
  gate # NoGate /\ (x.environment = "PRODUCTION" => gate.decision = "READY")

Instruct(x, content) ==
  /\ Cardinality(instructions) < MaxInstructions
  /\ instructions' = instructions \cup {[source |-> x, content |-> content, gate |-> gate]}
  /\ UNCHANGED <<today, filed, partners, gate, preference>>

\* The seen set is the caller's: here it is up to date.
Take(e, content) ==
  /\ authorizeEnvironment(e) /\ e.authentic /\ e.id \notin seen
  /\ seen' = seen \cup {e.id}
  /\ Instruct(e, content)

createFuelIngestionEnvelope(e) ==
  e.from = "fuel" /\ e.licence = "APPROVED" /\ Take(e, "envelope")

\* Card events and bank observations: a positive amount.
normalizeExternalInstruction(e) ==
  e.from = "payments" /\ e.amount > 0 /\ e.tokenized /\ Take(e, "instruction")

\* Any match goes to a person; a check left out or inconclusive asks for more.
Recommendation(e) ==
  LET outcomes == {e.checks[c] : c \in DOMAIN e.checks} IN
  IF outcomes \cap {"POSSIBLE_MATCH", "CONFIRMED_MATCH"} # {} THEN "HUMAN_REVIEW"
  ELSE IF "INCONCLUSIVE" \in outcomes \/ DOMAIN e.checks # e.requested THEN "REQUEST_EVIDENCE"
  ELSE "PASS"

normalizeVerificationResult(e) ==
  /\ e.from = "verification" /\ e.tokenized
  /\ e.checks # EmptyMap /\ DOMAIN e.checks \subseteq e.requested
  /\ Take(e, Recommendation(e))

\* A receipt is for the message that the caller expects one for; whether that was sent,
\* the code leaves to the caller.
normalizeDeliveryReceipt(e, expected) ==
  /\ e.from = "messaging" /\ e.message = expected
  /\ Take(e, "receipt")

\* `ready`: the template is approved and the message is in the outbox.
createMessageDispatchInstruction(m) ==
  /\ authorizeEnvironment(m) /\ m.ready /\ m.key \notin seen
  /\ m.channel \in preference.allows.channels
  /\ m.class = "MARKETING" => preference.allows.marketing
  /\ seen' = seen \cup {m.key}
  /\ Instruct(m, "message")

\* External: the recipient changes what is allowed.
Prefer(allows) ==
  /\ preference.version < MaxChanges
  /\ preference' = [allows |-> allows, version |-> preference.version + 1]
  /\ UNCHANGED <<today, filed, partners, gate, seen, instructions>>

AdaptersNext ==
  \/ \E e \in Approval : File(e)
  \/ \E p \in Partner : List(p)
  \/ evaluatePhase6Launch \/ NextDay
  \/ \E e \in Event :
       \/ createFuelIngestionEnvelope(e) \/ normalizeExternalInstruction(e)
       \/ normalizeVerificationResult(e)
       \/ \E m \in Message : normalizeDeliveryReceipt(e, m.id)
  \/ \E m \in Message : createMessageDispatchInstruction(m)
  \/ \E allows \in Preferences : Prefer(allows)

AdaptersSpec == AdaptersInit /\ [][AdaptersNext]_adapterVars

-----------------------------------------------------------------------------
(* Properties                                                              *)

\* What came from production came through a gate that had, when it was evaluated, evidence
\* of two people for every control, not expired then.
LiveOnlyWithProof ==
  \A i \in instructions : i.source.environment = "PRODUCTION" =>
    \A control \in DOMAIN Requirement : \E e \in i.gate.audit :
      /\ e.control = control /\ e.status = "APPROVED" /\ e.maker # e.checker
      /\ e.expires > i.gate.at

\* One event makes one instruction, however often it is delivered, and with whatever
\* content; one key sends one message.
TakenOnce ==
  \A i, j \in instructions :
    /\ i.content # "message" /\ j.content # "message" /\ i.source.id = j.source.id => i = j
    /\ i.content = "message" /\ j.content = "message" /\ i.source.key = j.source.key => i = j

\* A customer passes only when every check asked for came back clear.
PassedIsClear ==
  \A i \in instructions : i.content = "PASS" =>
    \A c \in i.source.requested : c \in DOMAIN i.source.checks /\ i.source.checks[c] = "CLEAR"

ProvenBeforeLive == LiveOnlyWithProof /\ TakenOnce /\ PassedIsClear
=============================================================================
