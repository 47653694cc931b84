---------------------------- MODULE PurchaseFlow ----------------------------
(***************************************************************************)
(* A fuel purchase on its way through the engines: the card simulator      *)
(* holds and clears the money, the allocation engine matches the fuel, the *)
(* settlement engine prices it, the ledger posts it and the wallet derives *)
(* the customer's balance.                                                 *)
(*                                                                         *)
(* The engines do not call each other: each emits the evidence the next    *)
(* one takes (ClearingInstruction, PurchaseAllocation, the decision's      *)
(* postingInstruction).  Who carries it is outside the repository; here    *)
(* that is a carrier that may hand any evidence to its engine at any time  *)
(* and any number of times, so that purchases overtake each other and      *)
(* deliveries repeat, also under a fresh idempotency key.  The engines'    *)
(* own guards must make that harmless.                                     *)
(***************************************************************************)
EXTENDS Maps, Sequences, Integers

CONSTANTS
  Purchase,      \* ids of purchases, used as the id of every command
  Bought,        \* Purchase -> quantity and pump price
  PositionId, Opening, Terms,       \* the customer's protected volume
  Denominator,
  Funded,        \* minor units in the wallet
  opening,       \* the journal that funds the wallet and reserves for protection
  MaxAttempts    \* bound: keys under which the carrier delivers one settlement

VARIABLES
  authorizations, authorizationKeys, clearings, clearingKeys,
  reversals, reversalKeys, instructions, breaks,        \* card simulator
  remaining, allocations, allocationKeys,               \* allocation engine
  decisions, settlementKeys,                            \* settlement engine
  journals, journalKeys                                 \* ledger

cardVars == <<authorizations, authorizationKeys, clearings, clearingKeys,
              reversals, reversalKeys, instructions, breaks>>
allocVars == <<remaining, allocations, allocationKeys>>
settleVars == <<decisions, settlementKeys>>
bookVars == <<journals, journalKeys>>
vars == <<cardVars, allocVars, settleVars, bookVars>>

\* The keys of commands the carrier delivers again.
Attempt == Purchase \X (1 .. MaxAttempts)

Math == INSTANCE SettlementMath

\* What the forecourt charges for a purchase, and what is set aside when protection is
\* bought: the strike value, rounded up as the quote engine rounds its reservation.
Price(p) == Math!halfUpMinor(Bought[p].pump * Bought[p].quantity)

SetAside == Total([i \in PositionId |-> Math!ceilMinor(Terms[i].strike * Opening[i])])

\* Quantities and prices are positive, a purchase costs something (the card declines it
\* otherwise), every position has terms, and what is set aside is paid in.
ASSUME FlowAssumption ==
  /\ \A p \in Purchase : /\ Bought[p].quantity \in Nat \ {0} /\ Bought[p].pump \in Nat \ {0}
                         /\ Price(p) > 0
  /\ PositionId \subseteq Nat /\ IsFiniteSet(PositionId) /\ Opening \in [PositionId -> Nat]
  /\ DOMAIN Terms = PositionId
  /\ \A i \in PositionId : /\ Terms[i].strike \in Nat /\ Terms[i].boundary \in Nat
                           /\ Terms[i].strike <= Terms[i].boundary
  /\ Denominator \in Nat \ {0} /\ Denominator % 2 = 0
  /\ Funded \in Nat /\ SetAside <= Funded

Prices == {Price(p) : p \in Purchase}

Card == INSTANCE CardSimulator WITH
  Card <- {"card"}, AuthId <- Purchase, ClearingId <- Purchase, ReversalId <- Purchase,
  Key <- Purchase, Amount <- Prices, Value <- Nat,
  Currency <- {"usd"}, Category <- {"fuel"}, Day <- {1},
  Profile <- [k \in {"card"} |->
    [currency |-> "usd", status |-> "ACTIVE", categories |-> {"fuel"},
     transactionLimit |-> Funded + 1, dailyLimit |-> 2 * Funded + 1]]

\* The facts of a purchase, all of one customer, product and place.
Match(p) ==
  [owners |-> {"me"}, scopes |-> {"here"}, product |-> "petrol",
   quantity |-> Bought[p].quantity, at |-> 1, evidenceMatches |-> TRUE]

Alloc == INSTANCE Allocation WITH
  AllocationId <- Purchase, PurchaseId <- Purchase,
  AllocationKey <- Purchase, Facts <- {Match(p) : p \in Purchase},
  Position <- [i \in PositionId |->
    [owner |-> "me", scope |-> "here", product |-> "petrol", status |-> "ACTIVE",
     starts |-> 0, expires |-> [at |-> 2, text |-> 2, form |-> "UTC"], accepted |-> 0]]

Settle == INSTANCE Settlement WITH
  SettlementId <- Purchase, SettlementKey <- Attempt,
  Evidence <- {}, PumpPrice <- {Bought[p].pump : p \in Purchase},
  reserved <- "reserved", available <- "available", claim <- "claim",
  station <- "station"

Books == INSTANCE Wallet WITH
  JournalId <- Purchase \cup {opening},
  JournalKey <- Attempt \cup {<<opening, 1>>}, Entry <- {}, Corrector <- {}, NoJournal <- "none",
  Account <- [a \in {"cash", "available", "reserved", "refund", "claim", "station"} |->
    [entity |-> "e", currency |-> "usd",
     normal |-> IF a \in {"cash", "claim"} THEN "DEBIT" ELSE "CREDIT"]],
  Definition <- [available |-> "available", reserved |-> "reserved", refund |-> "refund",
                 positions |-> PositionId]

-----------------------------------------------------------------------------
OpeningEntry ==
  [event |-> "POSTING", entity |-> "e",
   lines |-> << [account |-> "cash", side |-> "DEBIT", amount |-> Funded],
                [account |-> "available", side |-> "CREDIT", amount |-> Funded - SetAside],
                [account |-> "reserved", side |-> "CREDIT", amount |-> SetAside] >>,
   movements |-> [i \in PositionId |-> [position |-> i, type |-> "PROTECT", quantity |-> Opening[i]]]]

Init ==
  /\ Card!Init /\ Alloc!AllocInit /\ Settle!SettleInit
  /\ journals = << [id |-> opening, key |-> <<opening, 1>>, entry |-> OpeningEntry,
                    correctionOf |-> "none"] >>
  /\ journalKeys = Put(EmptyMap, <<opening, 1>>, opening)

-----------------------------------------------------------------------------
\* Cleared purchases whose money has not left the wallet yet.
PostedPurchases == {journals[i].id : i \in DOMAIN journals} \ {opening}
InFlight == DOMAIN instructions \ PostedPurchases

\* availableValueMinor as the caller quotes it: the derived balance less the
\* clearings that are still on their way to the ledger.
QuotedValue ==
  Larger(0, Books!AvailableMinor - Total([p \in InFlight |-> instructions[p].amount]))

Authorize(p) ==
  /\ Card!Authorize(p, p, "card", Price(p), "usd", "fuel", QuotedValue, 1)
  /\ UNCHANGED <<allocVars, settleVars, bookVars>>

Clear(p) ==
  /\ Card!Clear(p, p, p, Price(p), "usd")
  /\ UNCHANGED <<allocVars, settleVars, bookVars>>

Reverse(p) ==
  /\ Card!Reverse(p, p, p)
  /\ UNCHANGED <<allocVars, settleVars, bookVars>>

\* An accepted clearing is evidence for the allocation engine.
Allocate(p) ==
  /\ p \in DOMAIN instructions
  /\ Alloc!AllocatePurchase(p, p, p, Match(p))
  /\ UNCHANGED <<cardVars, settleVars, bookVars>>

\* An allocation is evidence for the settlement engine: a line for each position drawn.
AllocationEvidence(a) ==
  [id |-> a.id, unprotected |-> a.unprotected, confirmed |-> a.facts.quantity,
   lines |-> [i \in {j \in PositionId : a.lines[j] > 0} |->
                [position |-> i, quantity |-> a.lines[i]]]]

SettleOne(n, attempt) ==
  /\ LET p == allocations[n].id
     IN Settle!SettlePurchase(<<p, attempt>>, p, AllocationEvidence(allocations[n]),
                              Bought[p].pump)
  /\ UNCHANGED <<cardVars, allocVars, bookVars>>

\* A decision's posting instruction is a journal command.
Post(n, attempt) ==
  /\ Books!PostJournal(<<decisions[n].id, attempt>>, decisions[n].id,
       [event |-> "POSTING", entity |-> "e", lines |-> decisions[n].lines,
        movements |-> decisions[n].redemptions], "none")
  /\ UNCHANGED <<cardVars, allocVars, settleVars>>

Next ==
  \/ \E p \in Purchase : Authorize(p) \/ Clear(p) \/ Reverse(p) \/ Allocate(p)
  \/ \E n \in DOMAIN allocations, attempt \in 1 .. MaxAttempts : SettleOne(n, attempt)
  \/ \E n \in DOMAIN decisions, attempt \in 1 .. MaxAttempts : Post(n, attempt)

Spec == Init /\ [][Next]_vars

-----------------------------------------------------------------------------
(* Properties                                                              *)

\* No customer account is ever overdrawn, however purchases overtake each other:
\* the holds of the card cover what settlement later debits, and rounding each
\* purchase down never takes more than was set aside.
WalletNeverBroken == ~Books!WalletBreaks

\* Money and volume reconcile across the engines: the volume the wallet shows is what the
\* allocation engine has left plus what it drew for purchases still on their way to the
\* ledger, and ("Customer value never disappears", ARCHITECTURE.md section 30) what left
\* the wallet is what the posted purchases cost the customer.
ValueReconciles ==
  /\ Books!ProtectedQuantity =
       Total([i \in PositionId |-> remaining[i]])
       + Total([n \in {m \in DOMAIN allocations : allocations[m].id \notin PostedPurchases} |->
                  Total([i \in PositionId |-> allocations[n].lines[i]])])
  /\ Books!TotalCustomerValue =
       Funded - Total([n \in {m \in DOMAIN decisions : decisions[m].id \in PostedPurchases} |->
                         decisions[n].money.customer])

\* The five engines agree on the customer's money and volume at every step.
EnginesReconcile == WalletNeverBroken /\ ValueReconciles

\* A purchase is settled once (docs/system-workflow-and-pricing.md, invariant 6),
\* and only from a clearing the card accepted: every journal, decision and
\* allocation goes back to one instruction, and takes at most its amount.
SettledFromClearing ==
  /\ \A n \in DOMAIN allocations : allocations[n].id \in DOMAIN instructions
  /\ \A n \in DOMAIN decisions :
       /\ \E m \in DOMAIN allocations : allocations[m].id = decisions[n].id
       /\ decisions[n].money.customer <= instructions[decisions[n].id].amount
  /\ \A p \in PostedPurchases :
       Cardinality({i \in DOMAIN journals : journals[i].id = p}) = 1
  /\ PostedPurchases \subseteq {decisions[n].id : n \in DOMAIN decisions}

\* "Sub-unit residual goes to the unprotected balance" (ARCHITECTURE.md section 14):
\* once the protected volume is used up, nothing stays reserved for it.
NothingStranded == Books!ProtectedQuantity = 0 => Books!ReservedMinor = 0

Funds == INSTANCE CustomerFunds WITH
  Charge <- [p \in Purchase |-> Price(p)],
  Quantity <- [p \in Purchase |-> Bought[p].quantity],
  Protected <- Total([i \in PositionId |-> Opening[i]]),
  value <- Books!TotalCustomerValue, volume <- Books!ProtectedQuantity,
  paid <- PostedPurchases

\* The engines together implement the promise: value and volume leave the wallet in
\* one step per purchase, at most once, and at most its forecourt price.
ImplementsFunds == Funds!Spec
=============================================================================
