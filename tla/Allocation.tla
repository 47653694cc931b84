----------------------------- MODULE Allocation -----------------------------
(***************************************************************************)
(* packages/allocation-engine: fuel bought on a cleared card payment is    *)
(* drawn from the customer's protected volume, soonest expiry first.       *)
(*                                                                         *)
(* allocatePurchase maps a state and a command to the next state; the      *)
(* caller keeps the result, so a call is one action.  A known allocationKeys  *)
(* key and every thrown error leave the state alone: disabled actions.     *)
(* Quantities are integers (four decimals).  Timestamps are strings that   *)
(* isEligible parses and comparePositions compares as they stand: a term   *)
(* has its instant, its place in the order of the strings, or both.  The   *)
(* immutable transaction ids are numbered in that order too.               *)
(***************************************************************************)
EXTENDS Maps, Sequences

CONSTANTS
  PositionId,   \* protectionTransactionIds, numbered in string order
  Position,     \* their immutable terms
  Opening,      \* remainingQuantity4dp of each at createAllocationState
  AllocationId, PurchaseId, AllocationKey,
  Facts         \* what a purchase command may say

PositionStatus == {"ACTIVE", "CANCELED", "EXPIRED"}

(* An owner is <<"CUSTOMER" | "VEHICLE" | "POOL", id>>, a scope is         *)
(* <<"STATION" | "PROVIDER" | "GEOGRAPHY", id>>; a product is the country, *)
(* currency and fuel grade, which must all be equal.  The facts of a       *)
(* purchase name one owner and one scope of each kind.  starts is the      *)
(* instant of startsAt, accepted the place of acceptedAt in the order of   *)
(* strings; expires has the instant and the place of expiresAt, and the    *)
(* form it is written in (its offset and precision): in one form, strings  *)
(* stand in the order of their instants.  Nothing else is asked of them.   *)
ASSUME PositionAssumption ==
  /\ PositionId \subseteq Nat /\ IsFiniteSet(PositionId)
  /\ Opening \in [PositionId -> Nat]
  /\ \A p \in PositionId :
       /\ Position[p].status \in PositionStatus
       /\ Position[p].starts \in Nat
       /\ Position[p].expires.at \in Nat /\ Position[p].expires.text \in Nat
       /\ Position[p].starts < Position[p].expires.at
       /\ Position[p].accepted \in Nat
  /\ \A p, q \in PositionId :
       Position[p].expires.form = Position[q].expires.form =>
         (Position[p].expires.at < Position[q].expires.at
            <=> Position[p].expires.text < Position[q].expires.text)
ASSUME FactsAssumption ==
  \A f \in Facts : /\ f.quantity \in Nat \ {0} /\ f.at \in Nat
                   /\ f.evidenceMatches \in BOOLEAN

VARIABLES
  remaining,    \* remainingQuantity4dp of every position
  allocations,  \* the allocations made, in order
  allocationKeys   \* AllocationKey -> AllocationId

allocVars == <<remaining, allocations, allocationKeys>>

AllocInit ==
  /\ remaining = Opening
  /\ allocations = <<>>
  /\ allocationKeys = EmptyMap

-----------------------------------------------------------------------------
\* isEligible: the owner and scope of the purchase, its product, and a purchase
\* time inside the half-open validity of an active position.
Covers(p, f) ==
  /\ Position[p].owner \in f.owners
  /\ Position[p].scope \in f.scopes
  /\ Position[p].product = f.product
  /\ Position[p].status = "ACTIVE"
  /\ Position[p].starts <= f.at /\ f.at < Position[p].expires.at

Eligible(f) == {p \in PositionId : Covers(p, f) /\ remaining[p] > 0}

\* Mutant of Before: oldest acceptance first.
AcceptedBefore(p, q) ==
  \/ Position[p].accepted < Position[q].accepted
  \/ Position[p].accepted = Position[q].accepted /\ p < q

\* comparePositions: expiry, then acceptance, then transaction id, each as a string.
Before(p, q) ==
  \/ Position[p].expires.text < Position[q].expires.text
  \/ /\ Position[p].expires.text = Position[q].expires.text
     /\ \/ Position[p].accepted < Position[q].accepted
        \/ Position[p].accepted = Position[q].accepted /\ p < q

\* What the loop takes from p: what is still wanted once every eligible position
\* before p has been emptied, and no more than p has.
Taken(p, f) ==
  LET ahead  == Total([q \in {e \in Eligible(f) : Before(e, p)} |-> remaining[q]])
      wanted == Larger(0, f.quantity - ahead)
  IN IF p \in Eligible(f) THEN Smaller(wanted, remaining[p]) ELSE 0

\* Mutant of AfterDrawing: computed from the opening quantities, not the current ones.
AfterFirstDrawing(lines) == [p \in PositionId |-> Opening[p] - lines[p]]

AfterDrawing(lines) == [p \in PositionId |-> remaining[p] - lines[p]]

Unmatched(id, purchase) ==
  \A i \in DOMAIN allocations : /\ allocations[i].id # id
                                /\ allocations[i].purchase # purchase

AllocatePurchase(key, id, purchase, f) ==
  /\ NewKey(allocationKeys, key)
  /\ Unmatched(id, purchase)
  /\ f.evidenceMatches      \* clearing evidence names this customer and currency
  /\ LET lines == [p \in PositionId |-> Taken(p, f)] IN
     /\ remaining' = AfterDrawing(lines)
     /\ allocations' = Append(allocations,
          [id |-> id, purchase |-> purchase, key |-> key, facts |-> f, lines |-> lines,
           unprotected |-> f.quantity - Total([p \in PositionId |-> lines[p]])])
  /\ allocationKeys' = Put(allocationKeys, key, id)

AllocNext ==
  \E key \in AllocationKey, id \in AllocationId, purchase \in PurchaseId, f \in Facts :
    AllocatePurchase(key, id, purchase, f)

AllocSpec == AllocInit /\ [][AllocNext]_allocVars

-----------------------------------------------------------------------------
(* Properties                                                              *)

\* Invariant 5 of docs/system-workflow-and-pricing.md: however purchases interleave
\* and retry, what a position has left and what was drawn from it are what it opened
\* with, and each purchase is split exactly into protected and unprotected volume.
VolumeConserved ==
  /\ \A p \in PositionId :
       remaining[p] + Total([i \in DOMAIN allocations |-> allocations[i].lines[p]])
         = Opening[p]
  /\ \A i \in DOMAIN allocations :
       Total([p \in PositionId |-> allocations[i].lines[p]]) + allocations[i].unprotected
         = allocations[i].facts.quantity

\* Two expiries in one form are compared as instants, two in different forms as strings.
ExpiresSooner(p, q) ==
  LET e == Position[p].expires
      d == Position[q].expires
  IN IF e.form = d.form THEN e.at < d.at ELSE e.text < d.text

\* "allocates soonest-expiry protection first" (index.test.ts:9) holds of protections whose
\* expiry is written in one form: a position is drawn only if every covering position that
\* expires sooner ends the step empty.  Between two forms it is the order of the strings
\* that decides.  And no cover is left unused: volume is left unprotected only if every
\* covering position ends the step empty.
SoonestExpiryFirst ==
  [][\A n \in DOMAIN allocations' \ DOMAIN allocations :
       LET a == allocations'[n] IN
       \A p, q \in PositionId :
         Covers(p, a.facts) =>
           /\ a.lines[q] > 0 /\ ExpiresSooner(p, q) => remaining'[p] = 0
           /\ a.unprotected > 0 => remaining'[p] = 0]_allocVars
=============================================================================
