--------------------------- MODULE SettlementMath ---------------------------
(***************************************************************************)
(* The arithmetic of packages/settlement-engine: what one purchase costs   *)
(* the station, the customer and the pool, in integers.                    *)
(*                                                                         *)
(* A price and a quantity have four decimals, money has two, so the        *)
(* product of a price and a quantity is a numerator over Denominator minor *)
(* units (1 000 000 in the code).  The constant lets TLC use small prices  *)
(* and the proofs cover any even denominator.                              *)
(***************************************************************************)
EXTENDS Maps

CONSTANT Denominator
ASSUME DenominatorAssumption ==
  Denominator \in Nat \ {0} /\ Denominator % 2 = 0

\* Mutant of floorMinor: rounded to the nearest minor unit.
nearestMinor(n) == (n + Denominator \div 2) \div Denominator

floorMinor(n)  == n \div Denominator
ceilMinor(n)   == (n + Denominator - 1) \div Denominator
halfUpMinor(n) == (n + Denominator \div 2) \div Denominator

(* terms: strike, boundary and quantity of one protected line, all         *)
(* four-decimal integers with strike <= boundary (validateSettlement).     *)

\* What the pool pays per unit: the rise above the strike, up to the boundary.
ContributionPrice(pump, line) ==
  Larger(0, Smaller(pump, line.boundary) - line.strike)

\* The exact sums over the slices: the protected lines and the unprotected volume,
\* which is settled at the pump price.
StationExact(pump, lines, unprotected) ==
  Total([i \in DOMAIN lines |-> pump * lines[i].quantity]) + pump * unprotected

CustomerExact(pump, lines, unprotected) ==
  Total([i \in DOMAIN lines |-> (pump - ContributionPrice(pump, lines[i])) * lines[i].quantity])
    + pump * unprotected

LowerPriceExact(pump, lines) ==
  Total([i \in DOMAIN lines |-> Larger(0, lines[i].strike - pump) * lines[i].quantity])

StrikeExact(lines) ==
  Total([i \in DOMAIN lines |-> lines[i].strike * lines[i].quantity])

\* The five money figures of a decision, from the four exact sums.
Money(stationExact, customerExact, lowerExact, strikeExact) ==
  LET stationMinor  == halfUpMinor(stationExact)
      customerMinor == floorMinor(customerExact)
      lowerMinor    == ceilMinor(lowerExact)
      reservedMinor == floorMinor(strikeExact)
  IN [station   |-> stationMinor,
      customer  |-> customerMinor,
      pool      |-> stationMinor - customerMinor,
      lower     |-> lowerMinor,
      reserved  |-> reservedMinor,
      available |-> Larger(0, customerMinor + lowerMinor - reservedMinor)]

Figures(pump, lines, unprotected) ==
  Money(StationExact(pump, lines, unprotected),
        CustomerExact(pump, lines, unprotected),
        LowerPriceExact(pump, lines),
        StrikeExact(lines))

\* The posting lines: reserved, available and claim are debited, the station and
\* the lower-price credit are credited.  A zero or negative figure has no line,
\* except the station's.
Debits(m)  == m.reserved + m.available + Larger(0, m.pool)
Credits(m) == m.station + m.lower

\* The last check of settlePurchase, which throws when it fails.
Balances(m) == Debits(m) = Credits(m)

\* cancelRemainingProtection: what the customer gets back for unused volume.
CancellationCredit(strike, quantity) == ceilMinor(strike * quantity)
=============================================================================
