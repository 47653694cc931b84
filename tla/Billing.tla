------------------------------ MODULE Billing ------------------------------
(***************************************************************************)
(* Billing: first payments and webhooks, then invoices.                    *)
(*                                                                         *)
(* packages/billing: the adapter of the payment provider (test mode).      *)
(*                                                                         *)
(* A payment or a subscription is created once per idempotency key, but    *)
(* the key is stored only after the gateway's answer: calls in flight do   *)
(* not see each other.  Webhooks are verified, stored once and worked off  *)
(* one at a time, oldest first; the succeeded payment tells the ledger to  *)
(* fund a wallet.                                                          *)
(***************************************************************************)
EXTENDS Maps, Integers, Sequences

CONSTANTS
  Command,         \* [kind, key, wallet, amount, mode]: create this
  Body,            \* [id, type, object, amount, status, live]: what a webhook says
  PaymentCall,     \* calls in flight
  ObjectId,        \* names of the provider's objects
  ObjectStatus,    \* statuses the provider gives
  Tolerance,       \* age in ticks a signature may have
  ReceiveTime,     \* when webhooks arrive
  NoCommand

ASSUME PaymentsAssumption == NoCommand \notin Command /\ Tolerance \in Nat /\ ReceiveTime \subseteq Int

VARIABLES
  inFlight,        \* PaymentCall -> the command the gateway has not answered yet
  byKey,           \* kind -> idempotency key -> record
  byProviderId,    \* kind -> object id -> record
  webhooks,        \* stored webhooks, oldest first
  instructions     \* event id -> what the ledger is told to fund

paymentVars == <<inFlight, byKey, byProviderId, webhooks, instructions>>
Kinds == {"payment", "subscription"}

PaymentsInit ==
  /\ inFlight = [c \in PaymentCall |-> NoCommand]
  /\ byKey = [k \in Kinds |-> EmptyMap] /\ byProviderId = [k \in Kinds |-> EmptyMap]
  /\ webhooks = <<>> /\ instructions = EmptyMap

-----------------------------------------------------------------------------
\* Live access is prohibited; amounts are positive.
ValidCommand(command) == command.mode = "TEST" /\ (command.kind = "payment" => command.amount > 0)

\* createPayment and createSubscription up to the await: a known key is answered from the
\* store, or refused when the parameters differ, and changes nothing.
createPayment(c, command) ==
  /\ inFlight[c] = NoCommand /\ ValidCommand(command)
  /\ NewKey(byKey[command.kind], command.key)
  /\ inFlight' = [inFlight EXCEPT ![c] = command]
  /\ UNCHANGED <<byKey, byProviderId, webhooks, instructions>>

\* The provider names a new object, or the one an equal command made.
Names(command, id) ==
  id \in DOMAIN byProviderId[command.kind] => byProviderId[command.kind][id].command = command

\* ... and after it: the record is stored under both names, over whatever is there.
gatewayAnswers(c, id, status, livemode) ==
  LET command == inFlight[c]
      record == [command |-> command, object |-> id, status |-> status]
  IN /\ command # NoCommand /\ Names(command, id)
     /\ inFlight' = [inFlight EXCEPT ![c] = NoCommand]
     /\ IF livemode THEN UNCHANGED <<byKey, byProviderId>>
        ELSE /\ byKey' = [byKey EXCEPT ![command.kind] = Put(@, command.key, record)]
             /\ byProviderId' = [byProviderId EXCEPT ![command.kind] = Put(@, id, record)]
     /\ UNCHANGED <<webhooks, instructions>>

\* The gateway call fails: nothing is stored.
gatewayFails(c) ==
  /\ inFlight[c] # NoCommand
  /\ inFlight' = [inFlight EXCEPT ![c] = NoCommand]
  /\ UNCHANGED <<byKey, byProviderId, webhooks, instructions>>

-----------------------------------------------------------------------------
Distance(a, b) == IF a >= b THEN a - b ELSE b - a

\* A signature the endpoint's secret made over this body, not too old and not from the future.
verifyWebhook(signed, signedAt, at) == signed /\ Distance(at, signedAt) <= Tolerance

\* An event id already stored is a duplicate, or refused when the payload differs.
ingestWebhook(body, signed, signedAt, at) ==
  /\ verifyWebhook(signed, signedAt, at) /\ ~body.live
  /\ \A i \in DOMAIN webhooks : webhooks[i].body.id # body.id
  /\ webhooks' = Append(webhooks, [body |-> body, status |-> "PENDING"])
  /\ UNCHANGED <<inFlight, byKey, byProviderId, instructions>>

\* Mutant of Reconciles: the amount received is not compared.
ReconcilesAnyAmount(body, record) ==
  IF body.type = "subscription" THEN body.status \in ObjectStatus ELSE TRUE

Reconciles(body, record) ==
  IF body.type = "subscription" THEN body.status \in ObjectStatus ELSE body.amount = record.command.amount

\* The events that are about a stored object; the others are ignored for good.
Concerns(body) == body.type \in Kinds /\ body.object \in DOMAIN byProviderId[body.type]

\* The oldest pending webhook.
NextWebhook(i) == webhooks[i].status = "PENDING" /\ \A j \in 1..(i - 1) : webhooks[j].status # "PENDING"

Decide(i, status) == webhooks' = [webhooks EXCEPT ![i].status = status]

ignoreWebhook(i) ==
  /\ NextWebhook(i) /\ ~Concerns(webhooks[i].body) /\ Decide(i, "IGNORED")
  /\ UNCHANGED <<inFlight, byKey, byProviderId, instructions>>

\* processNextWebhook: an event that does not reconcile throws, and stays the next one.
processWebhook(i) ==
  LET body == webhooks[i].body
      kind == body.type
      record == byProviderId[kind][body.object]
      updated == [record EXCEPT !.status = IF kind = "payment" THEN "SUCCEEDED" ELSE body.status]
  IN /\ NextWebhook(i) /\ Concerns(body) /\ Reconciles(body, record)
     /\ byProviderId' = [byProviderId EXCEPT ![kind] = Put(@, body.object, updated)]
     /\ byKey' = [byKey EXCEPT ![kind] = Put(@, record.command.key, updated)]
     /\ instructions' =
          IF kind = "payment"
          THEN Put(instructions, body.id,
                 [object |-> body.object, wallet |-> record.command.wallet, amount |-> record.command.amount])
          ELSE instructions
     /\ Decide(i, "PROCESSED") /\ UNCHANGED inFlight

PaymentsNext ==
  \/ \E c \in PaymentCall :
       \/ \E command \in Command : createPayment(c, command)
       \/ \E id \in ObjectId, s \in ObjectStatus, live \in BOOLEAN : gatewayAnswers(c, id, s, live)
       \/ gatewayFails(c)
  \/ \E body \in Body, signed \in BOOLEAN, signedAt \in ReceiveTime, at \in ReceiveTime :
       ingestWebhook(body, signed, signedAt, at)
  \/ \E i \in DOMAIN webhooks : ignoreWebhook(i) \/ processWebhook(i)

-----------------------------------------------------------------------------
\* Whatever calls overlap and however webhooks are repeated: the ledger is told to fund a
\* wallet once for each processed event and for no other, with the amount the provider says
\* it received and the wallet of the command that made the payment; and events are decided
\* in the order they arrived.
FundedAsReceived ==
  /\ \A e \in DOMAIN instructions :
       \E i \in DOMAIN webhooks :
         LET told == instructions[e]  body == webhooks[i].body IN
         /\ body.id = e /\ body.type = "payment" /\ webhooks[i].status = "PROCESSED"
         /\ told.object = body.object /\ told.amount = body.amount
         /\ told.wallet = byProviderId.payment[body.object].command.wallet
  /\ \A i \in DOMAIN webhooks :
       webhooks[i].status = "PROCESSED" /\ webhooks[i].body.type = "payment"
       => webhooks[i].body.id \in DOMAIN instructions
  /\ \A i, j \in DOMAIN webhooks :
       i < j => /\ webhooks[i].body.id # webhooks[j].body.id
                /\ webhooks[i].status = "PENDING" => webhooks[j].status = "PENDING"

-----------------------------------------------------------------------------
(***************************************************************************)
(* packages/billing: what a fleet is billed.  Catalogue and protection     *)
(* charges become the lines of an invoice, which is paid, ages, goes to    *)
(* collections or is credited; the accounting package gets a projection of *)
(* it over a mapping two people agreed on, and every failed attempt leaves *)
(* a break.                                                                *)
(*                                                                         *)
(* ChargeScale is the 10^10 of createProtectionChargeLines.                *)
(***************************************************************************)
CONSTANTS
  CatalogueItem,   \* [version, amount, from, to, active] of one item
  ComponentRate,   \* component -> rate
  BillTime, Quantity, PriceLevel, Instalment,
  CreditDays, ChargeScale,
  BillingStaff, MappingMaker,
  MaxAttempts,     \* bound on sends
  NoInvoice, NoOne

\* Rates below zero, quantities that are none and instalments of nothing are refused.
ASSUME InvoicingAssumption ==
  /\ ChargeScale \in Nat \ {0} /\ CreditDays \in Nat /\ NoOne \notin BillingStaff
  /\ IsFiniteSet(CatalogueItem) /\ \A i \in CatalogueItem : i.version \in Int /\ i.amount \in Nat
  /\ IsFiniteSet(DOMAIN ComponentRate) /\ \A c \in DOMAIN ComponentRate : ComponentRate[c] \in Nat
  /\ Quantity \subseteq Nat /\ PriceLevel \subseteq Nat /\ Instalment \subseteq Int

VARIABLES
  invoice,         \* the invoice, or none yet
  mapping,         \* [status, checker] of the accounting mapping
  projection,      \* [status, attempts]
  exportBreaks     \* attempts that failed, all still open

invoiceVars == <<invoice, mapping, projection, exportBreaks>>

InvoicingInit ==
  /\ invoice = NoInvoice
  /\ mapping = [status |-> "DRAFT", checker |-> NoOne]
  /\ projection = [status |-> "NONE", attempts |-> 0]
  /\ exportBreaks = {}

-----------------------------------------------------------------------------
Effective(at) == {i \in CatalogueItem : i.active /\ i.from <= at /\ at < i.to}

\* The highest version among the effective ones.
selectCatalogueItem(at) ==
  CHOOSE i \in Effective(at) : \A j \in Effective(at) : i.version >= j.version

\* One component of a protection charge, halves up.
charge(price, quantity, rate) == (price * quantity * rate + ChargeScale \div 2) \div ChargeScale

\* A subscriber of FuelCap Plus is not charged the margin.
createProtectionChargeLines(price, quantity, plus) ==
  [c \in DOMAIN ComponentRate |->
     IF plus /\ c = "MARGIN" THEN 0 ELSE charge(price, quantity, ComponentRate[c])]

issueInvoice(at, quantity, price, plus) ==
  LET lines == createProtectionChargeLines(price, quantity, plus)
      protection == Total([c \in DOMAIN lines |-> lines[c]])
  IN /\ invoice = NoInvoice /\ Effective(at) # {}
     /\ invoice' = [status |-> "ISSUED", paid |-> 0, due |-> at + CreditDays,
                    total |-> selectCatalogueItem(at).amount * quantity + protection]
     /\ UNCHANGED <<mapping, projection, exportBreaks>>

-----------------------------------------------------------------------------
\* Mutant of Covered: an invoice is paid when at least the total would have been.
CoveredNearly(paid, total) == paid + 1 >= total

Covered(paid, total) == paid = total

\* No status is asked for: an overdue, a collected, even a credited invoice takes payments.
applyPayment(amount) ==
  /\ invoice # NoInvoice /\ amount > 0 /\ invoice.paid + amount <= invoice.total
  /\ LET paid == invoice.paid + amount IN
     invoice' = [invoice EXCEPT !.paid = paid,
                                !.status = IF Covered(paid, invoice.total) THEN "PAID" ELSE "PART_PAID"]
  /\ UNCHANGED <<mapping, projection, exportBreaks>>

ageInvoice(at) ==
  /\ invoice # NoInvoice /\ invoice.status \in {"ISSUED", "PART_PAID"} /\ at > invoice.due
  /\ invoice' = [invoice EXCEPT !.status = "OVERDUE"]
  /\ UNCHANGED <<mapping, projection, exportBreaks>>

sendToCollections ==
  /\ invoice # NoInvoice /\ invoice.status = "OVERDUE"
  /\ invoice' = [invoice EXCEPT !.status = "COLLECTIONS"]
  /\ UNCHANGED <<mapping, projection, exportBreaks>>

creditInvoice ==
  /\ invoice # NoInvoice /\ invoice.paid = 0
  /\ invoice' = [invoice EXCEPT !.status = "CREDITED"]
  /\ UNCHANGED <<mapping, projection, exportBreaks>>

-----------------------------------------------------------------------------
approveAccountingMapping(checker) ==
  /\ mapping.status = "DRAFT" /\ checker # MappingMaker
  /\ mapping' = [status |-> "APPROVED", checker |-> checker]
  /\ UNCHANGED <<invoice, projection, exportBreaks>>

\* An approved source over an approved mapping.
createXeroProjection ==
  /\ invoice # NoInvoice /\ mapping.status = "APPROVED" /\ projection.status = "NONE"
  /\ projection' = [status |-> "PENDING", attempts |-> 0]
  /\ UNCHANGED <<invoice, mapping, exportBreaks>>

sendXeroProjection ==
  /\ projection.status \in {"PENDING", "FAILED"} /\ projection.attempts < MaxAttempts
  /\ projection' = [status |-> "SENT", attempts |-> projection.attempts + 1]
  /\ UNCHANGED <<invoice, mapping, exportBreaks>>

acknowledgeXeroProjection ==
  /\ projection.status = "SENT"
  /\ projection' = [projection EXCEPT !.status = "ACKNOWLEDGED"]
  /\ UNCHANGED <<invoice, mapping, exportBreaks>>

\* The break is named after the attempt.
failXeroProjection ==
  /\ projection.status = "SENT"
  /\ projection' = [projection EXCEPT !.status = "FAILED"]
  /\ exportBreaks' = exportBreaks \cup {projection.attempts}
  /\ UNCHANGED <<invoice, mapping>>

\* Any open break blocks, whatever became of the projection since.
blockXeroProjection ==
  /\ exportBreaks # {}
  /\ projection' = [projection EXCEPT !.status = "BLOCKED"]
  /\ UNCHANGED <<invoice, mapping, exportBreaks>>

InvoicingNext ==
  \/ \E at \in BillTime :
       \/ \E q \in Quantity, p \in PriceLevel, plus \in BOOLEAN : issueInvoice(at, q, p, plus)
       \/ ageInvoice(at)
  \/ \E amount \in Instalment : applyPayment(amount)
  \/ sendToCollections \/ creditInvoice
  \/ \E checker \in BillingStaff : approveAccountingMapping(checker)
  \/ createXeroProjection \/ sendXeroProjection \/ acknowledgeXeroProjection
  \/ failXeroProjection \/ blockXeroProjection

-----------------------------------------------------------------------------
\* However payments, ageing, collections and credits follow each other: an invoice is PAID
\* exactly when something was paid and nothing is left to pay, and CREDITED only with nothing
\* paid.  However often it is sent, the export's breaks are exactly its failed attempts.
InvoicesAddUp ==
  /\ invoice # NoInvoice =>
       /\ invoice.status = "PAID" <=> invoice.paid > 0 /\ invoice.paid = invoice.total
       /\ invoice.status = "CREDITED" => invoice.paid = 0
       /\ invoice.paid <= invoice.total
  /\ mapping.status = "APPROVED" <=> mapping.checker \notin {MappingMaker, NoOne}
  /\ CASE projection.status \in {"NONE", "PENDING"} -> exportBreaks = {} /\ projection.attempts = 0
       [] projection.status = "FAILED" -> exportBreaks = 1..projection.attempts
       [] projection.status \in {"SENT", "ACKNOWLEDGED"} -> exportBreaks = 1..(projection.attempts - 1)
       [] OTHER -> exportBreaks # {} /\ exportBreaks \subseteq 1..projection.attempts
=============================================================================
