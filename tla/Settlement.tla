----------------------------- MODULE Settlement -----------------------------
(***************************************************************************)
(* packages/settlement-engine: an allocated purchase is priced under the   *)
(* terms pinned to each protection and turned into one balanced posting    *)
(* instruction.  As in the allocation engine a call maps a state to the    *)
(* next one; replays and thrown errors are disabled actions.               *)
(***************************************************************************)
EXTENDS SettlementMath, Sequences

CONSTANTS
  SettlementId, SettlementKey,
  Evidence,      \* the allocation evidence commands may carry
  Terms,         \* protectionTransactionId -> strike and boundary
  PumpPrice,     \* actualPumpPrice4dp of commands
  reserved, available, claim, station   \* the four accounts of a posting

ASSUME TermsAssumption ==
  \A p \in DOMAIN Terms : /\ Terms[p].strike \in Nat /\ Terms[p].boundary \in Nat
                          /\ Terms[p].strike <= Terms[p].boundary
ASSUME SettlementAssumption ==
  /\ PumpPrice \subseteq Nat \ {0}
  /\ \A a \in Evidence :
       /\ a.unprotected \in Nat /\ a.confirmed \in Nat
       /\ IsFiniteSet(DOMAIN a.lines)
       /\ \A i \in DOMAIN a.lines : /\ a.lines[i].position \in DOMAIN Terms
                                   /\ a.lines[i].quantity \in Nat \ {0}

VARIABLES
  decisions,    \* the settlement decisions, in order
  settlementKeys   \* SettlementKey -> SettlementId

settleVars == <<decisions, settlementKeys>>

SettleInit == decisions = <<>> /\ settlementKeys = EmptyMap

-----------------------------------------------------------------------------
\* The slices: each line under its own pinned terms.
Priced(a) ==
  [i \in DOMAIN a.lines |->
     [quantity |-> a.lines[i].quantity, strike |-> Terms[a.lines[i].position].strike,
      boundary |-> Terms[a.lines[i].position].boundary]]

\* validateSettlement: the allocation accounts for the whole confirmed quantity.
QuantityAgrees(a) ==
  Total([i \in DOMAIN a.lines |-> a.lines[i].quantity]) + a.unprotected = a.confirmed

SettledMoney(a, pump) == Figures(pump, Priced(a), a.unprotected)

\* if (amount > 0) lines.push(...)
PushIfPositive(lines, account, side, amount) ==
  IF amount > 0 THEN Append(lines, [account |-> account, side |-> side, amount |-> amount])
  ELSE lines

\* The lines of the posting instruction: nothing is posted for a figure of zero,
\* except to the station.
PostingLines(m) ==
  LET withReserved  == PushIfPositive(<<>>, reserved, "DEBIT", m.reserved)
      withAvailable == PushIfPositive(withReserved, available, "DEBIT", m.available)
      withClaim     == PushIfPositive(withAvailable, claim, "DEBIT", m.pool)
      withStation   == Append(withClaim,
                         [account |-> station, side |-> "CREDIT", amount |-> m.station])
  IN PushIfPositive(withStation, available, "CREDIT", m.lower)

\* The positions the posting redeems.
PositionRedemptions(a) ==
  [i \in DOMAIN a.lines |-> [position |-> a.lines[i].position, type |-> "REDEEM",
                             quantity |-> a.lines[i].quantity]]

Unsettled(id, a) ==
  \A i \in DOMAIN decisions : decisions[i].id # id /\ decisions[i].allocation.id # a.id

SettlePurchase(key, id, a, pump) ==
  /\ NewKey(settlementKeys, key)
  /\ QuantityAgrees(a)
  /\ Unsettled(id, a)
  /\ LET m == SettledMoney(a, pump) IN
     /\ Balances(m)
     /\ decisions' = Append(decisions,
          [id |-> id, allocation |-> a, pump |-> pump, key |-> key, money |-> m,
           lines |-> PostingLines(m), redemptions |-> PositionRedemptions(a)])
  /\ settlementKeys' = Put(settlementKeys, key, id)

SettleNext ==
  \E key \in SettlementKey, id \in SettlementId, a \in Evidence, pump \in PumpPrice :
    SettlePurchase(key, id, a, pump)

SettleSpec == SettleInit /\ [][SettleNext]_settleVars

-----------------------------------------------------------------------------
(* Properties                                                              *)

\* The three roundings (half up, down, up) never disagree: no consistent purchase
\* that is still to be settled is refused because its posting does not balance.
NeverUnbalanced ==
  \A id \in SettlementId, a \in Evidence, pump \in PumpPrice :
    QuantityAgrees(a) /\ Unsettled(id, a) =>
      LET lines == PostingLines(SettledMoney(a, pump))
          sum(side) == Total([i \in {n \in DOMAIN lines : lines[n].side = side} |-> lines[i].amount])
      IN sum("DEBIT") = sum("CREDIT")

\* Rounding never costs the customer and never the pool more than its cap ("Boundary
\* contribution never exceeds its cap", ARCHITECTURE.md section 30): the customer pays at
\* most the exact capped cost and less than one minor unit below it, a lower pump price is
\* released in full, and the pool pays the rise between strike and boundary of each slice
\* and less than the one and a half minor units that two roundings can add.
RoundingBounded ==
  \A i \in DOMAIN decisions :
    LET d == decisions[i]
        lines == Priced(d.allocation)
        owed == CustomerExact(d.pump, lines, d.allocation.unprotected)
        cap == Total([j \in DOMAIN lines |-> (lines[j].boundary - lines[j].strike) * lines[j].quantity])
    IN /\ d.money.customer * Denominator <= owed
       /\ owed < (d.money.customer + 1) * Denominator
       /\ d.money.lower * Denominator >= LowerPriceExact(d.pump, lines)
       /\ 2 * d.money.pool * Denominator < 2 * cap + 3 * Denominator

\* What settles balances, and is right to within its rounding.
SettlementsBalance == NeverUnbalanced /\ RoundingBounded
=============================================================================
