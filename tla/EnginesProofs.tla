---------------------------- MODULE EnginesProofs ----------------------------
(***************************************************************************)
(* What the money engines promise, one after the other, for every chart of *)
(* accounts, position, evidence, price and number of calls: the settlement *)
(* engine's arithmetic and its decisions, the allocation engine's volumes  *)
(* and their order, the ledger's reversals, the wallet's timeline and the  *)
(* breaks of reconciliation.                                               *)
(***************************************************************************)
EXTENDS Allocation, Settlement, Wallet, Reconciliation, BasicLemmas

-----------------------------------------------------------------------------
(* The three roundings                                                     *)

LEMMA FloorBounds ==
  ASSUME NEW n \in Nat
  PROVE  /\ floorMinor(n) \in Nat
         /\ floorMinor(n) * Denominator <= n
         /\ n < floorMinor(n) * Denominator + Denominator
  BY Quotient, DenominatorAssumption DEF floorMinor

LEMMA CeilBounds ==
  ASSUME NEW n \in Nat
  PROVE  /\ ceilMinor(n) \in Nat
         /\ n <= ceilMinor(n) * Denominator
         /\ ceilMinor(n) * Denominator < n + Denominator
<1>1. n + Denominator - 1 \in Nat
  BY DenominatorAssumption
<1>2. QED
  BY <1>1, Quotient, DenominatorAssumption DEF ceilMinor

LEMMA HalfUpBounds ==
  ASSUME NEW n \in Nat
  PROVE  /\ halfUpMinor(n) \in Nat
         /\ 2 * n < 2 * (halfUpMinor(n) * Denominator) + Denominator
         /\ 2 * (halfUpMinor(n) * Denominator) <= 2 * n + Denominator
<1>1. Denominator \div 2 \in Nat /\ 2 * (Denominator \div 2) = Denominator
  BY DenominatorAssumption
<1>2. n + Denominator \div 2 \in Nat
  BY <1>1
<1>3. QED
  BY <1>1, <1>2, Quotient, DenominatorAssumption DEF halfUpMinor

-----------------------------------------------------------------------------
(* One protected line                                                      *)

\* Whatever the pump price, what the customer pays for a unit and what is released to
\* them cover the strike that was set aside for it, the pool never pays more than the
\* rise from strike to boundary, and up to the boundary the customer pays the lower of
\* pump price and strike.
THEOREM LineCovered ==
  ASSUME NEW pump \in Nat, NEW strike \in Nat, NEW boundary \in Nat, strike <= boundary
  PROVE  LET line == [strike |-> strike, boundary |-> boundary]
             paid == pump - ContributionPrice(pump, line)
         IN /\ paid \in 0 .. pump
            /\ strike <= paid + Larger(0, strike - pump)
            /\ ContributionPrice(pump, line) <= boundary - strike
            /\ pump <= boundary => paid = Smaller(pump, strike)
  BY DEF ContributionPrice, Larger, Smaller

-----------------------------------------------------------------------------
(* The posting of a decision                                               *)

\* Half up never falls below down: the pool's share is never negative.
LEMMA PoolNotNegative ==
  ASSUME NEW S \in Nat, NEW C \in Nat, C <= S
  PROVE  floorMinor(C) <= halfUpMinor(S)
<1> DEFINE c == floorMinor(C)
           s == halfUpMinor(S)
<1>1. c \in Nat /\ c * Denominator <= C
  BY FloorBounds
<1>2. s \in Nat /\ 2 * S < 2 * (s * Denominator) + Denominator
  BY HalfUpBounds
<1>3. c * Denominator \in Int /\ s * Denominator \in Int
  BY <1>1, <1>2, DenominatorAssumption
<1> HIDE DEF c, s
<1>4. c * Denominator < s * Denominator + Denominator
  BY <1>1, <1>2, <1>3, DenominatorAssumption
<1>5. c <= s
  BY <1>1, <1>2, <1>4, TimesCancel, DenominatorAssumption
<1>6. QED
  BY <1>5 DEF c, s

\* Down and up together never fall below down of the sum: what was set aside is covered.
LEMMA ReservationCovered ==
  ASSUME NEW C \in Nat, NEW L \in Nat, NEW K \in Nat, K <= C + L
  PROVE  floorMinor(K) <= floorMinor(C) + ceilMinor(L)
<1> DEFINE k == floorMinor(K)
           c == floorMinor(C)
           l == ceilMinor(L)
<1>1. k \in Nat /\ k * Denominator <= K
  BY FloorBounds
<1>2. c \in Nat /\ C < c * Denominator + Denominator
  BY FloorBounds
<1>3. l \in Nat /\ L <= l * Denominator
  BY CeilBounds
<1> HIDE DEF k, c, l
<1>4. (c + l) * Denominator = c * Denominator + l * Denominator
  BY <1>2, <1>3, DenominatorAssumption
<1>5. /\ k * Denominator \in Int /\ c * Denominator \in Int /\ l * Denominator \in Int
  BY <1>1, <1>2, <1>3, DenominatorAssumption
<1>6. k * Denominator < (c + l) * Denominator + Denominator
  BY <1>1, <1>2, <1>3, <1>4, <1>5, DenominatorAssumption
<1>7. k <= c + l
  BY <1>1, <1>2, <1>3, <1>6, TimesCancel, DenominatorAssumption
<1>8. QED
  BY <1>7 DEF k, c, l

\* The last check of settlePurchase never throws: whenever the customer's exact cost is
\* at most the station's, and together with the lower-price value covers the strike,
\* debits equal credits after the three roundings, in any even denominator.
THEOREM PostingBalances ==
  ASSUME NEW S \in Nat, NEW C \in Nat, NEW L \in Nat, NEW K \in Nat,
         C <= S, K <= C + L
  PROVE  Balances(Money(S, C, L, K))
<1>1. /\ halfUpMinor(S) \in Nat /\ floorMinor(C) \in Nat
      /\ ceilMinor(L) \in Nat /\ floorMinor(K) \in Nat
  BY FloorBounds, CeilBounds, HalfUpBounds
<1>2. floorMinor(C) <= halfUpMinor(S)
  BY PoolNotNegative
<1>3. floorMinor(K) <= floorMinor(C) + ceilMinor(L)
  BY ReservationCovered
<1>4. QED
  BY <1>1, <1>2, <1>3 DEF Balances, Debits, Credits, Money, Larger

\* Rounding favours the customer by less than one minor unit, and costs the pool less
\* than one and a half, whatever the sums.
THEOREM RoundingCosts ==
  ASSUME NEW S \in Nat, NEW C \in Nat, NEW L \in Nat, NEW K \in Nat
  PROVE  LET m == Money(S, C, L, K) IN
         /\ m.customer * Denominator <= C /\ C < m.customer * Denominator + Denominator
         /\ L <= m.lower * Denominator
         /\ 2 * (m.station * Denominator - m.customer * Denominator)
              < 2 * (S - C) + 3 * Denominator
<1>1. /\ floorMinor(C) \in Nat /\ floorMinor(C) * Denominator <= C
      /\ C < floorMinor(C) * Denominator + Denominator
  BY FloorBounds
<1>2. /\ halfUpMinor(S) \in Nat
      /\ 2 * (halfUpMinor(S) * Denominator) <= 2 * S + Denominator
  BY HalfUpBounds
<1>3. L <= ceilMinor(L) * Denominator
  BY CeilBounds
<1>4. floorMinor(C) * Denominator \in Int /\ halfUpMinor(S) * Denominator \in Int
  BY <1>1, <1>2, DenominatorAssumption
<1>5. QED
  BY <1>1, <1>2, <1>3, <1>4, DenominatorAssumption DEF Money

\* The credit for cancelled protection is never less than what the volume was worth at
\* its strike, and less than one minor unit more.
THEOREM CancellationInFull ==
  ASSUME NEW strike \in Nat, NEW quantity \in Nat
  PROVE  LET credit == CancellationCredit(strike, quantity) IN
         /\ strike * quantity <= credit * Denominator
         /\ credit * Denominator < strike * quantity + Denominator
<1>1. strike * quantity \in Nat
  BY SMT
<1>2. QED
  BY <1>1, CeilBounds DEF CancellationCredit

-----------------------------------------------------------------------------
(* The sums of a settlement                                                *)

\* The lines that a decision prices.
IsPriced(lines) ==
  /\ IsFiniteSet(DOMAIN lines)
  /\ \A i \in DOMAIN lines :
       /\ lines[i].quantity \in Nat /\ lines[i].strike \in Nat /\ lines[i].boundary \in Nat
       /\ lines[i].strike <= lines[i].boundary

\* Whatever is settled, the customer's exact cost is at most the station's, with the
\* lower-price value it covers what was reserved, and the pool pays the rest, within
\* the rise from strike to boundary.
LEMMA ExactSums ==
  ASSUME NEW pump \in Nat, NEW lines, IsPriced(lines), NEW unprotected \in Nat
  PROVE  LET S == StationExact(pump, lines, unprotected)
             C == CustomerExact(pump, lines, unprotected)
             L == LowerPriceExact(pump, lines)
             K == StrikeExact(lines)
             cap == Total([j \in DOMAIN lines |-> (lines[j].boundary - lines[j].strike) * lines[j].quantity])
         IN /\ S \in Nat /\ C \in Nat /\ L \in Nat /\ K \in Nat /\ cap \in Nat
            /\ C <= S /\ K <= C + L /\ S <= C + cap
<1> DEFINE D == DOMAIN lines
           s == [i \in D |-> pump * lines[i].quantity]
           c == [i \in D |-> (pump - ContributionPrice(pump, lines[i])) * lines[i].quantity]
           l == [i \in D |-> Larger(0, lines[i].strike - pump) * lines[i].quantity]
           k == [i \in D |-> lines[i].strike * lines[i].quantity]
           r == [i \in D |-> (lines[i].boundary - lines[i].strike) * lines[i].quantity]
           cl == [i \in D |-> c[i] + l[i]]
           cr == [i \in D |-> c[i] + r[i]]
           u == pump * unprotected
<1>1. ASSUME NEW i \in D
      PROVE  /\ s[i] \in Nat /\ c[i] \in Nat /\ l[i] \in Nat /\ k[i] \in Nat /\ r[i] \in Nat
             /\ c[i] <= s[i] /\ k[i] <= c[i] + l[i] /\ s[i] <= c[i] + r[i]
  <2> DEFINE q == lines[i].quantity
             strike == lines[i].strike
             boundary == lines[i].boundary
             paid == pump - ContributionPrice(pump, lines[i])
             lower == Larger(0, strike - pump)
             rise == boundary - strike
  <2>1. q \in Nat /\ strike \in Nat /\ boundary \in Nat /\ strike <= boundary
    BY DEF IsPriced
  <2>2. /\ paid \in Nat /\ paid <= pump /\ lower \in Nat /\ rise \in Nat
        /\ strike <= paid + lower /\ pump <= paid + rise
    BY <2>1 DEF ContributionPrice, Larger, Smaller
  <2>3. s[i] = pump * q /\ c[i] = paid * q /\ l[i] = lower * q /\ k[i] = strike * q /\ r[i] = rise * q
    OBVIOUS
  <2> HIDE DEF q, strike, boundary, paid, lower, rise, s, c, l, k, r
  <2>4. /\ pump * q \in Nat /\ paid * q \in Nat /\ lower * q \in Nat /\ strike * q \in Nat /\ rise * q \in Nat
    BY <2>1, <2>2
  <2>5. /\ paid * q <= pump * q /\ strike * q <= (paid + lower) * q /\ pump * q <= (paid + rise) * q
    BY <2>1, <2>2, TimesMonotone
  <2>6. (paid + lower) * q = paid * q + lower * q /\ (paid + rise) * q = paid * q + rise * q
    BY <2>1, <2>2
  <2>7. QED
    BY <2>3, <2>4, <2>5, <2>6
<1>2. /\ IsFiniteSet(D) /\ DOMAIN s = D /\ DOMAIN c = D /\ DOMAIN l = D /\ DOMAIN k = D
      /\ DOMAIN r = D /\ DOMAIN cl = D /\ DOMAIN cr = D
      /\ \A i \in D : cl[i] = c[i] + l[i] /\ cr[i] = c[i] + r[i]
  BY DEF IsPriced
<1>3. u \in Nat
  OBVIOUS
<1>4. /\ StationExact(pump, lines, unprotected) = Total(s) + u
      /\ CustomerExact(pump, lines, unprotected) = Total(c) + u
      /\ LowerPriceExact(pump, lines) = Total(l)
      /\ StrikeExact(lines) = Total(k)
  BY Zenon DEF StationExact, CustomerExact, LowerPriceExact, StrikeExact
<1>5. Total([j \in DOMAIN lines |-> (lines[j].boundary - lines[j].strike) * lines[j].quantity]) = Total(r)
  BY Zenon
<1> HIDE DEF D, s, c, l, k, r, cl, cr, u
<1>6. \A i \in D : /\ s[i] \in Int /\ c[i] \in Int /\ l[i] \in Int /\ k[i] \in Int /\ r[i] \in Int
                   /\ cl[i] \in Int /\ cr[i] \in Int
                   /\ c[i] <= s[i] /\ k[i] <= cl[i] /\ s[i] <= cr[i]
  BY <1>1, <1>2
<1>7. Total(s) \in Nat /\ Total(c) \in Nat /\ Total(l) \in Nat /\ Total(k) \in Nat /\ Total(r) \in Nat
  BY <1>1, <1>2, TotalNat
<1>8. Total(cl) = Total(c) + Total(l)
  BY <1>2, <1>6, TotalPlus
<1>9. Total(cr) = Total(c) + Total(r)
  BY <1>2, <1>6, TotalPlus
<1>10. Total(c) <= Total(s)
  BY <1>2, <1>6, TotalMonotone
<1>11. Total(k) <= Total(cl)
  BY <1>2, <1>6, TotalMonotone
<1>12. Total(s) <= Total(cr)
  BY <1>2, <1>6, TotalMonotone
<1>13. /\ Total(s) + u \in Nat /\ Total(c) + u \in Nat
       /\ Total(c) + u <= Total(s) + u /\ Total(k) <= Total(c) + u + Total(l)
       /\ Total(s) + u <= Total(c) + u + Total(r)
  BY <1>3, <1>7, <1>8, <1>9, <1>10, <1>11, <1>12
<1>14. QED
  BY <1>4, <1>5, <1>7, <1>13

\* The terms and quantities of evidence are what ExactSums needs.
LEMMA EvidencePriced ==
  ASSUME NEW a \in Evidence
  PROVE  IsPriced(Priced(a)) /\ a.unprotected \in Nat
<1>1. /\ a.unprotected \in Nat /\ IsFiniteSet(DOMAIN a.lines)
      /\ \A i \in DOMAIN a.lines : a.lines[i].position \in DOMAIN Terms /\ a.lines[i].quantity \in Nat
  BY SettlementAssumption
<1>2. QED
  BY <1>1, TermsAssumption DEF IsPriced, Priced

-----------------------------------------------------------------------------
(* The posting                                                             *)

PostingLine == [account : {reserved, available, claim, station}, side : {"DEBIT", "CREDIT"}, amount : Int]

\* What some lines put on one side.
SideSum(lines, side) ==
  Total([i \in {n \in DOMAIN lines : lines[n].side = side} |-> lines[i].amount])

\* One more line adds its amount to its own side.
LEMMA AppendedSum ==
  ASSUME NEW lines \in Seq(PostingLine), NEW line \in PostingLine, NEW side
  PROVE  /\ Append(lines, line) \in Seq(PostingLine)
         /\ SideSum(lines, side) \in Int
         /\ SideSum(Append(lines, line), side)
              = SideSum(lines, side) + (IF line.side = side THEN line.amount ELSE 0)
<1> DEFINE more == Append(lines, line)
           f == [i \in {m \in DOMAIN lines : lines[m].side = side} |-> lines[i].amount]
           e == [i \in {m \in DOMAIN more : more[m].side = side} |-> more[i].amount]
<1>1. PICK n \in Nat : Len(lines) = n /\ DOMAIN lines = 1 .. n
  OBVIOUS
<1>2. /\ more \in Seq(PostingLine) /\ DOMAIN more = 1 .. n + 1
      /\ \A i \in 1 .. n : more[i] = lines[i]
      /\ more[n + 1] = line
  BY <1>1
<1>3. \A i \in 1 .. n : lines[i].amount \in Int
  <2>1. \A i \in 1 .. n : lines[i] \in PostingLine
    BY <1>1
  <2>2. QED
    BY <2>1 DEF PostingLine
<1>4. line.amount \in Int
  BY DEF PostingLine
<1> HIDE DEF more
<1>5. DOMAIN f \subseteq 1 .. n /\ (\A i \in DOMAIN f : f[i] \in Int) /\ n + 1 \notin DOMAIN f
  BY <1>1, <1>3
<1>6. IsFiniteSet(DOMAIN f)
  <2>1. IsFiniteSet(1 .. n)
    BY <1>1, FS_Interval
  <2> HIDE DEF f
  <2>2. QED
    BY <2>1, <1>5, FS_Subset
<1>7. \A i : i \in 1 .. n + 1 <=> i \in 1 .. n \/ i = n + 1
  BY <1>1
<1>8. n + 1 \notin 1 .. n
  BY <1>1
<1>9. \A i \in DOMAIN f : i \in DOMAIN e /\ e[i] = f[i]
  BY <1>1, <1>2, <1>7
<1>10. CASE line.side = side
  <2>1. DOMAIN e = DOMAIN f \cup {n + 1} /\ e[n + 1] = line.amount
    BY <1>1, <1>2, <1>7, <1>8, <1>10
  <2> HIDE DEF e, f
  <2>2. Total(f) \in Int
    BY <1>5, <1>6, TotalTakes
  <2> DEFINE v == line.amount
             k == n + 1
  <2>3. v \in Int /\ k \notin DOMAIN f /\ DOMAIN e = DOMAIN f \cup {k} /\ e[k] = v
    BY <2>1, <1>4, <1>5
  <2> HIDE DEF v, k
  <2>4. Total(e) = Total(f) + v
    BY <2>3, <1>5, <1>6, <1>9, TotalPut
  <2>5. QED
    BY <2>2, <2>4, <1>2, <1>10 DEF SideSum, e, f, more, v
<1>11. CASE line.side # side
  <2>1. DOMAIN e = DOMAIN f
    BY <1>1, <1>2, <1>7, <1>8, <1>11
  <2>2. e = f
    BY <2>1, <1>9
  <2> HIDE DEF e, f
  <2>3. Total(e) = Total(f) + 0 /\ Total(f) \in Int
    BY <2>2, <1>5, <1>6, TotalTakes
  <2>4. QED
    BY <2>3, <1>2, <1>11 DEF SideSum, e, f, more
<1>12. QED
  BY <1>10, <1>11

\* A line pushed only if positive adds its positive part.
LEMMA PushedSum ==
  ASSUME NEW lines \in Seq(PostingLine), NEW account \in {reserved, available, claim, station},
         NEW s \in {"DEBIT", "CREDIT"}, NEW amount \in Int, NEW side
  PROVE  LET pushed == PushIfPositive(lines, account, s, amount) IN
         /\ pushed \in Seq(PostingLine)
         /\ SideSum(lines, side) \in Int
         /\ SideSum(pushed, side) = SideSum(lines, side) + (IF s = side THEN Larger(0, amount) ELSE 0)
<1> DEFINE line == [account |-> account, side |-> s, amount |-> amount]
<1>1. line \in PostingLine /\ line.side = s /\ line.amount = amount
  BY DEF PostingLine
<1>2. PushIfPositive(lines, account, s, amount) = IF amount > 0 THEN Append(lines, line) ELSE lines
  BY DEF PushIfPositive
<1> HIDE DEF line
<1>3. /\ Append(lines, line) \in Seq(PostingLine) /\ SideSum(lines, side) \in Int
      /\ SideSum(Append(lines, line), side) = SideSum(lines, side) + (IF s = side THEN amount ELSE 0)
  BY <1>1, AppendedSum
<1>4. CASE amount > 0
  BY <1>2, <1>3, <1>4 DEF Larger
<1>5. CASE ~(amount > 0)
  BY <1>2, <1>3, <1>5 DEF Larger
<1>6. QED
  BY <1>4, <1>5

\* The posting instruction debits and credits the figures of the decision.
LEMMA PostingSums ==
  ASSUME NEW m, m.reserved \in Int, m.available \in Int, m.pool \in Int, m.station \in Int,
         m.lower \in Int
  PROVE  /\ SideSum(PostingLines(m), "DEBIT")
              = Larger(0, m.reserved) + Larger(0, m.available) + Larger(0, m.pool)
         /\ SideSum(PostingLines(m), "CREDIT") = m.station + Larger(0, m.lower)
<1> DEFINE l0 == << >>
           l1 == PushIfPositive(l0, reserved, "DEBIT", m.reserved)
           l2 == PushIfPositive(l1, available, "DEBIT", m.available)
           l3 == PushIfPositive(l2, claim, "DEBIT", m.pool)
           line == [account |-> station, side |-> "CREDIT", amount |-> m.station]
           l4 == Append(l3, line)
           l5 == PushIfPositive(l4, available, "CREDIT", m.lower)
<1>0. PostingLines(m) = l5
  BY Zenon DEF PostingLines
<1>1. l0 \in Seq(PostingLine)
  OBVIOUS
<1>2. ASSUME NEW side \in {"DEBIT", "CREDIT"}
      PROVE  SideSum(l0, side) = 0
  <2> DEFINE f == [i \in {n \in DOMAIN l0 : l0[n].side = side} |-> l0[i].amount]
  <2>1. DOMAIN f = {}
    OBVIOUS
  <2>2. Total(f) = 0
    BY <2>1, TotalEmpty
  <2>3. QED
    BY <2>2, Zenon DEF SideSum
<1>3. line \in PostingLine /\ line.side = "CREDIT" /\ line.amount = m.station
  BY DEF PostingLine
<1> HIDE DEF l0
<1>4. /\ l1 \in Seq(PostingLine) /\ SideSum(l1, "DEBIT") = SideSum(l0, "DEBIT") + Larger(0, m.reserved)
      /\ SideSum(l1, "CREDIT") = SideSum(l0, "CREDIT") + 0
  BY <1>1, PushedSum
<1> HIDE DEF l1
<1>5. /\ l2 \in Seq(PostingLine) /\ SideSum(l2, "DEBIT") = SideSum(l1, "DEBIT") + Larger(0, m.available)
      /\ SideSum(l2, "CREDIT") = SideSum(l1, "CREDIT") + 0
  BY <1>4, PushedSum
<1> HIDE DEF l2
<1>6. /\ l3 \in Seq(PostingLine) /\ SideSum(l3, "DEBIT") = SideSum(l2, "DEBIT") + Larger(0, m.pool)
      /\ SideSum(l3, "CREDIT") = SideSum(l2, "CREDIT") + 0
  BY <1>5, PushedSum
<1> HIDE DEF l3, line
<1>7. /\ l4 \in Seq(PostingLine) /\ SideSum(l4, "DEBIT") = SideSum(l3, "DEBIT") + 0
      /\ SideSum(l4, "CREDIT") = SideSum(l3, "CREDIT") + m.station
  BY <1>3, <1>6, AppendedSum
<1> HIDE DEF l4
<1>8. /\ SideSum(l5, "DEBIT") = SideSum(l4, "DEBIT") + 0
      /\ SideSum(l5, "CREDIT") = SideSum(l4, "CREDIT") + Larger(0, m.lower)
  BY <1>7, PushedSum
<1> HIDE DEF l5
<1>9. /\ Larger(0, m.reserved) \in Int /\ Larger(0, m.available) \in Int /\ Larger(0, m.pool) \in Int
      /\ Larger(0, m.lower) \in Int
  BY DEF Larger
<1>10. SideSum(l0, "DEBIT") = 0 /\ SideSum(l0, "CREDIT") = 0
  BY <1>2
<1>11. QED
  BY <1>0, <1>4, <1>5, <1>6, <1>7, <1>8, <1>9, <1>10

-----------------------------------------------------------------------------
\* No evidence is refused for want of balance.
LEMMA AlwaysBalances == NeverUnbalanced
<1> SUFFICES ASSUME NEW a \in Evidence, NEW pump \in PumpPrice
             PROVE  LET lines == PostingLines(SettledMoney(a, pump)) IN
                    SideSum(lines, "DEBIT") = SideSum(lines, "CREDIT")
  BY Zenon DEF NeverUnbalanced, SideSum
<1> DEFINE lines == Priced(a)
           S == StationExact(pump, lines, a.unprotected)
           C == CustomerExact(pump, lines, a.unprotected)
           L == LowerPriceExact(pump, lines)
           K == StrikeExact(lines)
           m == SettledMoney(a, pump)
<1>1. pump \in Nat /\ IsPriced(lines) /\ a.unprotected \in Nat
  BY EvidencePriced, SettlementAssumption
<1>2. S \in Nat /\ C \in Nat /\ L \in Nat /\ K \in Nat /\ C <= S /\ K <= C + L
  <2> HIDE DEF lines
  <2>1. QED
    BY <1>1, ExactSums
<1>3. m = Money(S, C, L, K)
  BY Zenon DEF SettledMoney, Figures
<1> HIDE DEF lines, S, C, L, K
<1>4. Balances(m)
  BY <1>2, <1>3, PostingBalances
<1>5. /\ halfUpMinor(S) \in Nat /\ floorMinor(C) \in Nat
      /\ ceilMinor(L) \in Nat /\ floorMinor(K) \in Nat
  BY <1>2, FloorBounds, CeilBounds, HalfUpBounds
<1>6. /\ m.reserved \in Nat /\ m.available \in Nat /\ m.pool \in Int /\ m.station \in Nat
      /\ m.lower \in Nat
  BY <1>3, <1>5 DEF Money, Larger
<1> HIDE DEF m
<1>7. /\ SideSum(PostingLines(m), "DEBIT")
           = Larger(0, m.reserved) + Larger(0, m.available) + Larger(0, m.pool)
      /\ SideSum(PostingLines(m), "CREDIT") = m.station + Larger(0, m.lower)
  <2>1. m.reserved \in Int /\ m.available \in Int /\ m.station \in Int /\ m.lower \in Int
    BY <1>6
  <2>2. QED
    BY <2>1, <1>6, PostingSums
<1>8. /\ Larger(0, m.reserved) = m.reserved /\ Larger(0, m.available) = m.available
      /\ Larger(0, m.lower) = m.lower
  BY <1>6 DEF Larger
<1>9. m.reserved + m.available + Larger(0, m.pool) = m.station + m.lower
  BY <1>4 DEF Balances, Debits, Credits
<1>10. SideSum(PostingLines(m), "DEBIT") = SideSum(PostingLines(m), "CREDIT")
  BY <1>7, <1>8, <1>9
<1>11. QED
  BY <1>10 DEF m

\* A decision is priced from evidence at a pump price, and its money is what they give.
IsDecision(i) ==
  /\ decisions[i].allocation \in Evidence /\ decisions[i].pump \in PumpPrice
  /\ decisions[i].money = SettledMoney(decisions[i].allocation, decisions[i].pump)

SettleInv ==
  /\ Len(decisions) \in Nat /\ decisions \in Seq({decisions[i] : i \in DOMAIN decisions})
  /\ \A i \in DOMAIN decisions : IsDecision(i)

LEMMA SettleStart == SettleInit => SettleInv
  BY DEF SettleInit, SettleInv

LEMMA SettleKeeps ==
  ASSUME SettleInv, NEW key, NEW id, NEW a \in Evidence, NEW pump \in PumpPrice,
         SettlePurchase(key, id, a, pump)
  PROVE  SettleInv'
<1> DEFINE m == SettledMoney(a, pump)
           new == [id |-> id, allocation |-> a, pump |-> pump, key |-> key, money |-> m,
                   lines |-> PostingLines(m), redemptions |-> PositionRedemptions(a)]
           A == {decisions[i] : i \in DOMAIN decisions} \cup {new}
<1>1. decisions' = Append(decisions, new)
  BY Zenon DEF SettlePurchase
<1>2. new.allocation = a /\ new.pump = pump /\ new.money = SettledMoney(a, pump)
  OBVIOUS
<1>3. PICK n \in Nat : DOMAIN decisions = 1 .. n /\ Len(decisions) = n
  BY DEF SettleInv
<1> HIDE DEF m, new
<1>4. /\ decisions' \in Seq(A) /\ DOMAIN decisions' = 1 .. n + 1 /\ Len(decisions') = n + 1
      /\ \A i \in 1 .. n : decisions'[i] = decisions[i]
      /\ decisions'[n + 1] = new
  <2>1. decisions \in Seq(A)
    BY DEF SettleInv
  <2>2. QED
    BY <2>1, <1>1, <1>3
<1>5. decisions' \in Seq({decisions'[i] : i \in DOMAIN decisions'})
  BY <1>3, <1>4
<1>6. \A i \in 1 .. n : IsDecision(i)'
  <2>1. \A i \in 1 .. n : IsDecision(i)
    BY <1>3 DEF SettleInv
  <2>2. QED
    BY <2>1, <1>4 DEF IsDecision
<1>7. IsDecision(n + 1)'
  BY <1>2, <1>4 DEF IsDecision
<1>8. \A i \in 1 .. n + 1 : IsDecision(i)'
  BY <1>3, <1>6, <1>7
<1>9. QED
  BY <1>3, <1>4, <1>5, <1>8 DEF SettleInv

LEMMA SettleStep == SettleInv /\ [SettleNext]_settleVars => SettleInv'
<1> SUFFICES ASSUME SettleInv, [SettleNext]_settleVars PROVE SettleInv'
  OBVIOUS
<1>1. CASE SettleNext
  BY <1>1, SettleKeeps DEF SettleNext
<1>2. CASE UNCHANGED settleVars
  <2>1. decisions' = decisions
    BY <1>2 DEF settleVars
  <2>2. \A k : IsDecision(k) => IsDecision(k)'
    BY <2>1 DEF IsDecision
  <2>3. QED
    BY <2>1, <2>2 DEF SettleInv
<1>3. QED
  BY <1>1, <1>2

\* The bounds of RoundingCosts are those of every decision.
LEMMA RoundedByInvariant == SettleInv => RoundingBounded
<1> SUFFICES ASSUME SettleInv, NEW i \in DOMAIN decisions
             PROVE  LET d == decisions[i]
                        lines == Priced(d.allocation)
                        owed == CustomerExact(d.pump, lines, d.allocation.unprotected)
                        cap == Total([j \in DOMAIN lines |-> (lines[j].boundary - lines[j].strike) * lines[j].quantity])
                    IN /\ d.money.customer * Denominator <= owed
                       /\ owed < (d.money.customer + 1) * Denominator
                       /\ d.money.lower * Denominator >= LowerPriceExact(d.pump, lines)
                       /\ 2 * d.money.pool * Denominator < 2 * cap + 3 * Denominator
  BY Zenon DEF RoundingBounded
<1> DEFINE d == decisions[i]
           a == d.allocation
           lines == Priced(a)
           S == StationExact(d.pump, lines, a.unprotected)
           C == CustomerExact(d.pump, lines, a.unprotected)
           L == LowerPriceExact(d.pump, lines)
           K == StrikeExact(lines)
           cap == Total([j \in DOMAIN lines |-> (lines[j].boundary - lines[j].strike) * lines[j].quantity])
           m == d.money
<1>1. a \in Evidence /\ d.pump \in PumpPrice /\ m = SettledMoney(a, d.pump)
  BY DEF SettleInv, IsDecision
<1> HIDE DEF d
<1>2. d.pump \in Nat /\ IsPriced(lines) /\ a.unprotected \in Nat
  BY <1>1, EvidencePriced, SettlementAssumption
<1>3. S \in Nat /\ C \in Nat /\ L \in Nat /\ K \in Nat /\ cap \in Nat /\ S <= C + cap
  <2> HIDE DEF lines
  <2>1. QED
    BY <1>2, ExactSums
<1>4. m = Money(S, C, L, K)
  BY <1>1, Zenon DEF SettledMoney, Figures
<1> HIDE DEF lines, S, C, L, K, cap, m
<1>5. /\ m.customer * Denominator <= C /\ C < m.customer * Denominator + Denominator
      /\ L <= m.lower * Denominator
      /\ 2 * (m.station * Denominator - m.customer * Denominator) < 2 * (S - C) + 3 * Denominator
  BY <1>3, <1>4, RoundingCosts
<1>6. m.customer \in Nat /\ m.station \in Nat /\ m.lower \in Nat /\ m.pool = m.station - m.customer
  BY <1>3, <1>4, FloorBounds, CeilBounds, HalfUpBounds DEF Money
<1> DEFINE x == m.customer * Denominator
           y == m.station * Denominator
           z == m.lower * Denominator
<1>7. /\ (m.customer + 1) * Denominator = x + Denominator
      /\ 2 * m.pool * Denominator = 2 * (y - x)
      /\ x \in Int /\ y \in Int /\ z \in Int /\ Denominator \in Int
  BY <1>6, DenominatorAssumption
<1>8. 2 * m.pool * Denominator < 2 * cap + 3 * Denominator
  <2> HIDE DEF x, y
  <2>1. 2 * (y - x) < 2 * (S - C) + 3 * Denominator
    BY <1>5 DEF x, y
  <2>2. QED
    BY <2>1, <1>3, <1>7
<1>9. C < (m.customer + 1) * Denominator
  BY <1>5, <1>7
<1>10. z >= L
  <2> HIDE DEF z
  <2>1. L <= z
    BY <1>5 DEF z
  <2>2. QED
    BY <2>1, <1>3, <1>7
<1>11. QED
  BY <1>5, <1>8, <1>9, <1>10, Zenon DEF m, lines, C, L, cap, a, d

\* settlePurchase never refuses consistent evidence for want of balance, and what it
\* decides is right to within its roundings, after any calls.
THEOREM SettlementsAlwaysBalance == SettleSpec => []SettlementsBalance
<1>1. SettleInv => SettlementsBalance
  BY AlwaysBalances, RoundedByInvariant DEF SettlementsBalance
<1>2. SettleSpec => []SettleInv
  BY SettleStart, SettleStep, PTL DEF SettleSpec
<1>3. QED
  BY <1>1, <1>2, PTL

-----------------------------------------------------------------------------
(* Allocation                                                              *)

\* What is kept of an allocation: it draws no more than was bought, and what it does not
\* draw is unprotected.
IsAllocation(i) ==
  /\ allocations[i].facts \in Facts
  /\ allocations[i].lines \in [PositionId -> Nat] /\ allocations[i].unprotected \in Nat
  /\ allocations[i].unprotected = allocations[i].facts.quantity - Total(allocations[i].lines)

Drawn(p) == [i \in DOMAIN allocations |-> allocations[i].lines[p]]

AllocInv ==
  /\ remaining \in [PositionId -> Nat]
  /\ Len(allocations) \in Nat /\ allocations \in Seq({allocations[i] : i \in DOMAIN allocations})
  /\ \A i \in DOMAIN allocations : IsAllocation(i)
  /\ \A p \in PositionId : remaining[p] + Total(Drawn(p)) = Opening[p]

\* The positions drawn before p, and what they hold.
Ahead(p, f) == {e \in Eligible(f) : Before(e, p)}
AheadOf(p, f) == Total(Restrict(remaining, Ahead(p, f)))

\* What stands before a position is a sum of what positions hold.
LEMMA AheadInTotal ==
  ASSUME remaining \in [PositionId -> Nat], NEW p \in PositionId, NEW f \in Facts
  PROVE  /\ Ahead(p, f) \in SUBSET PositionId
         /\ AheadOf(p, f) \in Nat
         /\ Taken(p, f) = IF p \in Eligible(f)
                          THEN Smaller(Larger(0, f.quantity - AheadOf(p, f)), remaining[p]) ELSE 0
         /\ f.quantity \in Nat
<1>1. f.quantity \in Nat
  BY FactsAssumption
<1>2. Ahead(p, f) \in SUBSET PositionId
  BY DEF Ahead, Eligible
<1>3. IsFiniteSet(DOMAIN remaining) /\ \A x \in DOMAIN remaining : remaining[x] \in Nat
      /\ Ahead(p, f) \in SUBSET DOMAIN remaining
  BY <1>2, PositionAssumption
<1>4. AheadOf(p, f) \in Nat
  BY <1>3, TotalSubset DEF AheadOf
<1>5. [q \in {e \in Eligible(f) : Before(e, p)} |-> remaining[q]] = Restrict(remaining, Ahead(p, f))
  BY Zenon DEF Restrict, Ahead
<1>6. Taken(p, f) = IF p \in Eligible(f)
                    THEN Smaller(Larger(0, f.quantity - AheadOf(p, f)), remaining[p]) ELSE 0
  BY <1>5, Zenon DEF Taken, AheadOf
<1>7. QED
  BY <1>1, <1>2, <1>4, <1>6

\* No more is taken from a position than it holds.
LEMMA TakenBounded ==
  ASSUME remaining \in [PositionId -> Nat], NEW p \in PositionId, NEW f \in Facts
  PROVE  Taken(p, f) \in Nat /\ Taken(p, f) <= remaining[p]
<1> DEFINE a == AheadOf(p, f)
<1>1. /\ a \in Nat /\ f.quantity \in Nat /\ remaining[p] \in Nat
      /\ Taken(p, f) = IF p \in Eligible(f)
                       THEN Smaller(Larger(0, f.quantity - a), remaining[p]) ELSE 0
  BY AheadInTotal
<1> HIDE DEF a
<1>2. QED
  BY <1>1 DEF Smaller, Larger

\* comparePositions orders the positions, by expiry first, all of them.
LEMMA BeforeOrders ==
  ASSUME NEW p \in PositionId, NEW q \in PositionId, NEW e \in PositionId
  PROVE  /\ ~Before(p, p)
         /\ Before(e, p) /\ Before(p, q) => Before(e, q)
         /\ Before(p, q) \/ Before(q, p) \/ p = q
         /\ ExpiresSooner(p, q) => Before(p, q)
<1> DEFINE t(x) == Position[x].expires.text
<1>1. \A x \in PositionId : x \in Nat /\ t(x) \in Nat /\ Position[x].accepted \in Nat
  BY PositionAssumption
<1>2. ExpiresSooner(p, q) => t(p) < t(q)
  BY PositionAssumption, Zenon DEF ExpiresSooner
<1>3. \A x, y \in PositionId :
        Before(x, y) <=> \/ t(x) < t(y)
                         \/ /\ t(x) = t(y)
                            /\ \/ Position[x].accepted < Position[y].accepted
                               \/ Position[x].accepted = Position[y].accepted /\ x < y
  BY DEF Before
<1> HIDE DEF t
<1>4. QED
  BY <1>1, <1>2, <1>3

\* All positions together give no more than was bought: the last one that gives something
\* gives at most what those before it leave wanting.
LEMMA TakenWithin ==
  ASSUME remaining \in [PositionId -> Nat], NEW f \in Facts,
         NEW lines, lines = [p \in PositionId |-> Taken(p, f)]
  PROVE  Total(lines) \in Nat /\ Total(lines) <= f.quantity
<1> DEFINE drawn == {p \in PositionId : lines[p] > 0}
           Rest(p) == PositionId \ Ahead(p, f)
           T == {Rest(p) : p \in drawn}
<1>1. /\ DOMAIN lines = PositionId /\ IsFiniteSet(PositionId) /\ f.quantity \in Nat
      /\ \A p \in PositionId : lines[p] = Taken(p, f) /\ lines[p] \in Nat /\ lines[p] <= remaining[p]
                               /\ remaining[p] \in Nat
  BY TakenBounded, PositionAssumption, FactsAssumption
<1>2. Total(lines) \in Nat
  BY <1>1, TotalNat
<1>3. CASE drawn = {}
  <2>1. \A p \in DOMAIN lines : lines[p] = 0
    BY <1>1, <1>3
  <2>2. Total(lines) = 0
    BY <1>1, <2>1, TotalZero
  <2>3. QED
    BY <1>1, <2>2
<1>4. CASE drawn # {}
  <2>1. PICK q \in drawn : \A r \in drawn :
          Rest(r) \subseteq Rest(q) => Rest(r) = Rest(q)
    <3>1. T \in SUBSET SUBSET PositionId /\ T # {}
      BY <1>4
    <3>2. PICK m \in T : \A t \in T : t \subseteq m => t = m
      <4> HIDE DEF T
      <4>1. QED
        BY <1>1, <3>1, LeastSubset
    <3>3. PICK q \in drawn : m = Rest(q)
      BY <3>2
    <3>4. \A r \in drawn : Rest(r) \in T
      OBVIOUS
    <3> HIDE DEF T, drawn, Rest
    <3>5. QED
      BY <3>2, <3>3, <3>4
  <2> DEFINE A == Ahead(q, f)
             a == AheadOf(q, f)
  <2>2. /\ q \in PositionId /\ lines[q] > 0 /\ A \in SUBSET PositionId /\ q \notin A /\ a \in Nat
        /\ Taken(q, f) = IF q \in Eligible(f)
                         THEN Smaller(Larger(0, f.quantity - a), remaining[q]) ELSE 0
    BY AheadInTotal, BeforeOrders DEF Ahead
  <2>3. ASSUME NEW r \in drawn
        PROVE  r \in A \cup {q}
    <3>1. \A p \in drawn : p \in Eligible(f)
      BY <1>1 DEF Taken
    <3>2. \A p \in Eligible(f) : p \in PositionId
      BY DEF Eligible
    <3>3. CASE Before(q, r)
      <4>1. A \subseteq Ahead(r, f) /\ q \in Ahead(r, f)
        BY <3>1, <3>2, <3>3, <2>2, BeforeOrders DEF Ahead
      <4>2. PositionId \ Ahead(r, f) \subseteq PositionId \ A /\ q \in PositionId \ A
            /\ q \notin PositionId \ Ahead(r, f)
        BY <4>1, <2>2
      <4>3. QED
        BY <4>2, <2>1
    <3>4. CASE Before(r, q)
      BY <3>1, <3>4 DEF Ahead
    <3>5. QED
      BY <3>3, <3>4, <2>2, BeforeOrders
  <2> DEFINE B == A \cup {q}
             v == lines[q]
  <2>4. Total(lines) = Total(Restrict(lines, B))
    <3>1. B \in SUBSET DOMAIN lines /\ (\A p \in DOMAIN lines \ B : lines[p] = 0)
          /\ (\A p \in DOMAIN lines : lines[p] \in Int)
      BY <1>1, <2>2, <2>3
    <3> HIDE DEF B
    <3>2. QED
      BY <1>1, <3>1, TotalWhere
  <2>5. Total(Restrict(lines, B)) = v + Total(Restrict(lines, A)) /\ Total(Restrict(lines, A)) \in Int
    <3>1. B \in SUBSET PositionId /\ q \in B /\ A = B \ {q} /\ A \in SUBSET PositionId
      BY <2>2
    <3>2. \A p \in PositionId : lines[p] \in Int
      BY <1>1
    <3> HIDE DEF A, B, v
    <3>3. Total(Restrict(lines, B)) = lines[q] + Total(Restrict(lines, B \ {q}))
          /\ Total(Restrict(lines, A)) \in Int
      BY <1>1, <3>1, <3>2, RestrictTakes
    <3>4. QED
      BY <3>1, <3>3 DEF v
  <2>6. Total(Restrict(lines, A)) <= a
    <3> DEFINE g == Restrict(lines, A)
               h == Restrict(remaining, A)
    <3>1. /\ IsFiniteSet(A) /\ DOMAIN g = A /\ DOMAIN h = A
          /\ \A p \in A : g[p] \in Int /\ h[p] \in Int /\ g[p] <= h[p]
      BY <1>1, <2>2, FS_Subset DEF Restrict
    <3> HIDE DEF A, g, h
    <3>2. Total(g) <= Total(h)
      BY <3>1, TotalMonotone
    <3>3. QED
      BY <3>2 DEF AheadOf, g, h, A
  <2>7. v <= f.quantity - a /\ v \in Nat
    BY <1>1, <2>2 DEF Smaller, Larger
  <2> HIDE DEF v, a, A, B
  <2>8. a \in Nat /\ f.quantity \in Nat
    BY <1>1, <2>2
  <2> DEFINE c == Total(Restrict(lines, A))
  <2>9. Total(lines) = v + c /\ c \in Int /\ c <= a
    BY <2>4, <2>5, <2>6
  <2> HIDE DEF c
  <2>10. QED
    BY <1>2, <2>7, <2>8, <2>9
<1>5. QED
  BY <1>2, <1>3, <1>4

LEMMA AllocStart == AllocInit => AllocInv
<1> SUFFICES ASSUME AllocInit PROVE AllocInv
  OBVIOUS
<1>1. remaining \in [PositionId -> Nat] /\ remaining = Opening /\ allocations = <<>>
  BY PositionAssumption DEF AllocInit
<1>2. ASSUME NEW p \in PositionId
      PROVE  remaining[p] + Total(Drawn(p)) = Opening[p]
  <2>1. DOMAIN Drawn(p) = {}
    BY <1>1 DEF Drawn
  <2>2. Total(Drawn(p)) = 0
    BY <2>1, TotalEmpty
  <2>3. QED
    BY <1>1, <2>2
<1>3. QED
  BY <1>1, <1>2 DEF AllocInv

LEMMA AllocateKeeps ==
  ASSUME AllocInv, NEW key, NEW id, NEW purchase, NEW f \in Facts,
         AllocatePurchase(key, id, purchase, f)
  PROVE  AllocInv'
<1> DEFINE lines == [p \in PositionId |-> Taken(p, f)]
           new == [id |-> id, purchase |-> purchase, key |-> key, facts |-> f, lines |-> lines,
                   unprotected |-> f.quantity - Total(lines)]
           A == {allocations[i] : i \in DOMAIN allocations} \cup {new}
<1>1. remaining' = AfterDrawing(lines) /\ allocations' = Append(allocations, new)
  <2>1. [p \in PositionId |-> lines[p]] = lines
    OBVIOUS
  <2>2. QED
    BY <2>1, Zenon DEF AllocatePurchase
<1>2. PICK n \in Nat : DOMAIN allocations = 1 .. n /\ Len(allocations) = n
  BY DEF AllocInv
<1>3. remaining \in [PositionId -> Nat]
  BY DEF AllocInv
<1>4. \A p \in PositionId : lines[p] \in Nat /\ lines[p] <= remaining[p]
  BY <1>3, TakenBounded
<1>5. lines \in [PositionId -> Nat]
  BY <1>4
<1>6. /\ new.facts = f /\ new.lines = lines /\ new.unprotected = f.quantity - Total(lines)
      /\ new.unprotected \in Nat
  <2>1. Total(lines) \in Nat /\ Total(lines) <= f.quantity
    BY <1>3, TakenWithin
  <2>2. f.quantity \in Nat
    BY FactsAssumption
  <2> HIDE DEF lines
  <2>3. QED
    BY <2>1, <2>2
<1> HIDE DEF lines, new
<1>7. /\ allocations' \in Seq(A) /\ DOMAIN allocations' = 1 .. n + 1 /\ Len(allocations') = n + 1
      /\ \A i \in 1 .. n : allocations'[i] = allocations[i]
      /\ allocations'[n + 1] = new
  <2>1. allocations \in Seq(A)
    BY DEF AllocInv
  <2>2. QED
    BY <2>1, <1>1, <1>2
<1>8. allocations' \in Seq({allocations'[i] : i \in DOMAIN allocations'})
  BY <1>2, <1>7
<1>9. /\ remaining' \in [PositionId -> Nat]
      /\ \A p \in PositionId : remaining'[p] = remaining[p] - lines[p]
  BY <1>1, <1>3, <1>4 DEF AfterDrawing
<1>10. \A i \in 1 .. n : IsAllocation(i)'
  <2>1. \A i \in 1 .. n : IsAllocation(i)
    BY <1>2 DEF AllocInv
  <2>2. QED
    BY <2>1, <1>7 DEF IsAllocation
<1>11. IsAllocation(n + 1)'
  BY <1>5, <1>6, <1>7 DEF IsAllocation
<1>12. ASSUME NEW p \in PositionId
       PROVE  (remaining[p] + Total(Drawn(p)) = Opening[p])'
  <2> DEFINE d == Drawn(p)
             e == Drawn(p)'
  <2>1. DOMAIN d = 1 .. n /\ \A i \in 1 .. n : d[i] = allocations[i].lines[p]
    BY <1>2 DEF Drawn
  <2>2. DOMAIN e = 1 .. n + 1 /\ \A i \in 1 .. n + 1 : e[i] = allocations'[i].lines[p]
    BY <1>7 DEF Drawn
  <2>3. \A i \in 1 .. n : d[i] \in Int
    <3>1. \A i \in 1 .. n : allocations[i].lines \in [PositionId -> Nat]
      BY <1>2 DEF AllocInv, IsAllocation
    <3>2. \A i \in 1 .. n : allocations[i].lines[p] \in Nat
      BY <3>1
    <3>3. QED
      BY <2>1, <3>2
  <2>4. \A i \in 1 .. n : e[i] = d[i]
    BY <2>1, <2>2, <1>7
  <2>5. e[n + 1] = lines[p]
    BY <2>2, <1>6, <1>7
  <2>6. remaining[p] + Total(d) = Opening[p]
    BY DEF AllocInv
  <2> HIDE DEF d, e
  <2>7. /\ IsFiniteSet(DOMAIN d) /\ n + 1 \notin DOMAIN d
        /\ DOMAIN e = DOMAIN d \cup {n + 1}
        /\ \A i \in DOMAIN d : d[i] \in Int /\ e[i] = d[i]
        /\ lines[p] \in Int
    <3>1. 1 .. n + 1 = 1 .. n \cup {n + 1} /\ n + 1 \notin 1 .. n
      BY <1>2
    <3>2. IsFiniteSet(1 .. n)
      BY <1>2, FS_Interval
    <3>3. lines[p] \in Int
      BY <1>4
    <3>4. \A i \in DOMAIN d : d[i] \in Int /\ e[i] = d[i]
      BY <2>1, <2>3, <2>4
    <3>5. QED
      BY <2>1, <2>2, <3>1, <3>2, <3>3, <3>4
  <2>8. Total(e) = Total(d) + lines[p]
    BY <2>5, <2>7, TotalPut
  <2>9. Total(d) \in Int
    BY <2>7, TotalTakes
  <2>10. remaining[p] \in Int /\ lines[p] \in Int /\ remaining'[p] = remaining[p] - lines[p]
    BY <1>3, <1>4, <1>9
  <2>11. remaining'[p] + Total(e) = Opening[p]
    BY <2>6, <2>8, <2>9, <2>10
  <2>12. QED
    BY <2>11 DEF e
<1>13. \A i \in 1 .. n + 1 : IsAllocation(i)'
  BY <1>2, <1>10, <1>11
<1>14. QED
  BY <1>2, <1>7, <1>8, <1>9, <1>12, <1>13 DEF AllocInv

LEMMA AllocStep == AllocInv /\ [AllocNext]_allocVars => AllocInv'
<1> SUFFICES ASSUME AllocInv, [AllocNext]_allocVars PROVE AllocInv'
  OBVIOUS
<1>1. CASE AllocNext
  BY <1>1, AllocateKeeps DEF AllocNext
<1>2. CASE UNCHANGED allocVars
  <2>1. remaining' = remaining /\ allocations' = allocations
    BY <1>2 DEF allocVars
  <2>2. \A k : (IsAllocation(k) => IsAllocation(k)') /\ Drawn(k)' = Drawn(k)
    BY <2>1 DEF IsAllocation, Drawn
  <2>3. QED
    BY <2>1, <2>2 DEF AllocInv
<1>3. QED
  BY <1>1, <1>2

\* Every allocation made is within what was there, and adds up.
THEOREM AllocTyped == AllocSpec => []AllocInv
  BY AllocStart, AllocStep, PTL DEF AllocSpec

\* The invariant says that volume is conserved.
LEMMA ConservedByInvariant == AllocInv => VolumeConserved
<1> SUFFICES ASSUME AllocInv PROVE VolumeConserved
  OBVIOUS
<1>1. \A p \in PositionId :
        remaining[p] + Total([i \in DOMAIN allocations |-> allocations[i].lines[p]]) = Opening[p]
  BY Zenon DEF AllocInv, Drawn
<1>2. ASSUME NEW i \in DOMAIN allocations
      PROVE  Total([p \in PositionId |-> allocations[i].lines[p]]) + allocations[i].unprotected
               = allocations[i].facts.quantity
  <2> DEFINE a == allocations[i]
             l == a.lines
  <2>1. l \in [PositionId -> Nat] /\ a.unprotected = a.facts.quantity - Total(l) /\ a.facts \in Facts
    BY DEF AllocInv, IsAllocation
  <2>2. l = [p \in PositionId |-> l[p]] /\ DOMAIN l = PositionId /\ \A p \in DOMAIN l : l[p] \in Nat
    BY <2>1
  <2>3. a.facts.quantity \in Nat
    BY <2>1, FactsAssumption
  <2> HIDE DEF l
  <2>4. Total(l) \in Nat
    BY <2>2, PositionAssumption, TotalNat
  <2>5. Total(l) + a.unprotected = a.facts.quantity
    BY <2>1, <2>3, <2>4
  <2>6. QED
    BY <2>2, <2>5, Zenon DEF l
<1>3. QED
  BY <1>1, <1>2 DEF VolumeConserved

\* Protected volume is neither made nor lost by any calls of allocatePurchase.
THEOREM VolumeAlwaysConserved == AllocSpec => []VolumeConserved
  BY AllocTyped, ConservedByInvariant, PTL

-----------------------------------------------------------------------------
\* A position drawn before q is emptied before q is touched.
LEMMA EmptiedFirst ==
  ASSUME remaining \in [PositionId -> Nat], NEW f \in Facts,
         NEW p \in Eligible(f), NEW q \in PositionId, Before(p, q), Taken(q, f) > 0
  PROVE  Taken(p, f) = remaining[p]
<1>1. p \in PositionId /\ \A e \in Eligible(f) : e \in PositionId
  BY DEF Eligible
<1>2. Ahead(p, f) \in SUBSET Ahead(q, f) /\ p \in Ahead(q, f) \ Ahead(p, f)
      /\ Ahead(q, f) \in SUBSET PositionId
  BY <1>1, BeforeOrders DEF Ahead
<1> DEFINE a == AheadOf(p, f)
           b == AheadOf(q, f)
<1>3. a + remaining[p] <= b
  <2>1. IsFiniteSet(DOMAIN remaining) /\ (\A x \in DOMAIN remaining : remaining[x] \in Nat)
        /\ Ahead(q, f) \in SUBSET DOMAIN remaining
    BY <1>2, PositionAssumption
  <2>2. QED
    BY <1>2, <2>1, TotalSubsetAnd DEF AheadOf
<1>4. a \in Nat /\ b \in Nat /\ f.quantity \in Nat /\ remaining[p] \in Nat /\ remaining[q] \in Nat
  BY <1>1, AheadInTotal
<1>5. /\ Taken(p, f) = Smaller(Larger(0, f.quantity - a), remaining[p])
      /\ Taken(q, f) = IF q \in Eligible(f) THEN Smaller(Larger(0, f.quantity - b), remaining[q]) ELSE 0
  BY <1>1, AheadInTotal
<1> HIDE DEF a, b
<1>6. f.quantity - b > 0
  BY <1>4, <1>5 DEF Smaller, Larger
<1>7. QED
  BY <1>3, <1>4, <1>5, <1>6 DEF Smaller, Larger

\* If an eligible position keeps some of what it had, the whole quantity is covered.
LEMMA CoveredOrEmptied ==
  ASSUME remaining \in [PositionId -> Nat], NEW f \in Facts,
         NEW lines, lines = [p \in PositionId |-> Taken(p, f)],
         NEW r \in Eligible(f), Taken(r, f) # remaining[r]
  PROVE  f.quantity <= Total(lines)
<1> DEFINE E == Eligible(f)
           left == {p \in E : Taken(p, f) # remaining[p]}
           T == {Ahead(p, f) : p \in left}
<1>0. E \in SUBSET PositionId /\ left \in SUBSET E
  BY DEF Eligible
<1>1. PICK p \in left : \A q \in left : Ahead(q, f) \subseteq Ahead(p, f) => Ahead(q, f) = Ahead(p, f)
  <2>1. T \in SUBSET SUBSET PositionId /\ T # {}
    BY <1>0 DEF Ahead
  <2>2. PICK m \in T : \A t \in T : t \subseteq m => t = m
    <3>1. IsFiniteSet(PositionId)
      BY PositionAssumption
    <3> HIDE DEF T
    <3>2. QED
      BY <2>1, <3>1, LeastSubset
  <2>3. PICK p \in left : m = Ahead(p, f)
    BY <2>2
  <2>4. QED
    BY <2>2, <2>3
<1>2. p \in PositionId /\ p \in E /\ Taken(p, f) # remaining[p]
  BY <1>0
<1>3. ASSUME NEW q \in Ahead(p, f)
      PROVE  Taken(q, f) = remaining[q]
  <2>1. q \in E /\ q \in PositionId /\ Before(q, p)
    BY <1>0, <1>3 DEF Ahead
  <2>2. Ahead(q, f) \subseteq Ahead(p, f) /\ q \notin Ahead(q, f)
    BY <2>1, <1>0, <1>2, BeforeOrders DEF Ahead
  <2>3. QED
    BY <2>1, <2>2, <1>1, <1>3
<1> DEFINE a == AheadOf(p, f)
           A == Ahead(p, f)
<1>4. /\ a \in Nat /\ f.quantity \in Nat /\ remaining[p] \in Nat
      /\ Taken(p, f) = Smaller(Larger(0, f.quantity - a), remaining[p])
      /\ A \in SUBSET PositionId
  BY <1>2, AheadInTotal
<1>5. DOMAIN lines = PositionId /\ (\A x \in PositionId : lines[x] \in Nat) /\ lines[p] = Taken(p, f)
  BY <1>2, TakenBounded
<1>6. Restrict(lines, A) = Restrict(remaining, A)
  BY <1>3, <1>4, <1>5 DEF Restrict
<1>7. p \notin A
  BY <1>2, BeforeOrders DEF Ahead
<1>8. Total(Restrict(lines, A)) + lines[p] <= Total(lines)
  <2>1. PositionId \in SUBSET DOMAIN lines /\ A \in SUBSET PositionId /\ p \in PositionId \ A
        /\ IsFiniteSet(DOMAIN lines) /\ \A x \in DOMAIN lines : lines[x] \in Nat
    BY <1>2, <1>4, <1>5, <1>7, PositionAssumption
  <2> HIDE DEF A
  <2>2. Total(Restrict(lines, A)) + lines[p] <= Total(Restrict(lines, PositionId))
    BY <2>1, TotalSubsetAnd
  <2>3. Restrict(lines, PositionId) = lines
    BY DEF Restrict
  <2>4. QED
    BY <2>2, <2>3
<1>9. a = Total(Restrict(lines, A))
  BY <1>6 DEF AheadOf
<1>10. Total(lines) \in Nat
  BY <1>5, PositionAssumption, TotalNat
<1> HIDE DEF a, A
<1>11. a + Taken(p, f) <= Total(lines)
  BY <1>5, <1>8, <1>9
<1>12. Taken(p, f) >= f.quantity - a
  BY <1>2, <1>4 DEF Smaller, Larger
<1>13. Taken(p, f) \in Nat
  BY <1>2, TakenBounded
<1>14. QED
  BY <1>4, <1>10, <1>11, <1>12, <1>13

\* SoonestExpiryFirst of one step.
SoonestStep ==
  \A n \in DOMAIN allocations' \ DOMAIN allocations :
    LET a == allocations'[n] IN
    \A p, q \in PositionId :
      Covers(p, a.facts) =>
        /\ a.lines[q] > 0 /\ ExpiresSooner(p, q) => remaining'[p] = 0
        /\ a.unprotected > 0 => remaining'[p] = 0

\* Each allocation is drawn in that order.
LEMMA SoonestOnAllocate ==
  ASSUME AllocInv, NEW key, NEW id, NEW purchase, NEW f \in Facts,
         AllocatePurchase(key, id, purchase, f)
  PROVE  SoonestStep
<1> DEFINE lines == [p \in PositionId |-> Taken(p, f)]
           new == [id |-> id, purchase |-> purchase, key |-> key, facts |-> f, lines |-> lines,
                   unprotected |-> f.quantity - Total(lines)]
           A == {allocations[i] : i \in DOMAIN allocations} \cup {new}
<1>1. remaining' = AfterDrawing(lines) /\ allocations' = Append(allocations, new)
  <2>1. [p \in PositionId |-> lines[p]] = lines
    OBVIOUS
  <2>2. QED
    BY <2>1, Zenon DEF AllocatePurchase
<1>2. PICK n \in Nat : DOMAIN allocations = 1 .. n /\ Len(allocations) = n
  BY DEF AllocInv
<1>3. new.facts = f /\ new.lines = lines /\ new.unprotected = f.quantity - Total(lines)
  OBVIOUS
<1>4. remaining \in [PositionId -> Nat]
  BY DEF AllocInv
<1>5. ASSUME NEW p \in PositionId, Covers(p, f), Taken(p, f) = remaining[p]
      PROVE  remaining'[p] = 0
  BY <1>1, <1>4, <1>5 DEF AfterDrawing
<1>6. ASSUME NEW p \in PositionId, Covers(p, f), remaining[p] = 0
      PROVE  remaining'[p] = 0
  <2>1. Taken(p, f) = 0
    BY <1>6 DEF Taken, Eligible
  <2>2. QED
    BY <2>1, <1>5, <1>6
<1>7. \A p \in PositionId : Covers(p, f) /\ remaining[p] # 0 => p \in Eligible(f)
  BY <1>4 DEF Eligible
<1>8. ASSUME NEW p \in PositionId, NEW q \in PositionId, Covers(p, f), lines[q] > 0,
             ExpiresSooner(p, q)
      PROVE  remaining'[p] = 0
  <2>1. Before(p, q) /\ Taken(q, f) > 0
    BY <1>8, BeforeOrders
  <2>2. p \in Eligible(f) => Taken(p, f) = remaining[p]
    BY <2>1, <1>4, EmptiedFirst
  <2>3. QED
    BY <2>2, <1>5, <1>6, <1>7, <1>8
<1>9. ASSUME NEW p \in PositionId, Covers(p, f), f.quantity - Total(lines) > 0
      PROVE  remaining'[p] = 0
  <2>1. f.quantity \in Nat /\ Total(lines) \in Nat
    <3>1. DOMAIN lines = PositionId /\ \A x \in PositionId : lines[x] \in Nat
      BY <1>4, TakenBounded
    <3> HIDE DEF lines
    <3>2. QED
      BY <3>1, FactsAssumption, PositionAssumption, TotalNat
  <2>2. ~(f.quantity <= Total(lines))
    BY <2>1, <1>9
  <2>3. p \in Eligible(f) => Taken(p, f) = remaining[p]
    BY <2>2, <1>4, CoveredOrEmptied
  <2>4. QED
    BY <2>3, <1>5, <1>6, <1>7, <1>9
<1> HIDE DEF lines, new
<1>10. DOMAIN allocations' \ DOMAIN allocations = {n + 1} /\ allocations'[n + 1] = new
  <2>1. allocations \in Seq(A)
    BY DEF AllocInv
  <2>2. QED
    BY <2>1, <1>1, <1>2
<1>11. QED
  BY <1>3, <1>8, <1>9, <1>10 DEF SoonestStep

\* allocatePurchase draws the soonest expiry first, among those written in one form and in
\* the order of the strings between two forms, and leaves no cover unused.
THEOREM SoonestFirst == AllocSpec => SoonestExpiryFirst
<1>1. AllocInv /\ [AllocNext]_allocVars => [SoonestStep]_allocVars
  BY SoonestOnAllocate DEF AllocNext
<1>2. AllocSpec => [][SoonestStep]_allocVars
  BY <1>1, AllocTyped, PTL DEF AllocSpec
<1>3. QED
  BY <1>2, Zenon DEF SoonestExpiryFirst, SoonestStep

-----------------------------------------------------------------------------
(* The journal                                                             *)

\* What is posted keeps its shape and its lineage, and a reversal is the journal it
\* corrects with its lines exchanged.
IsJournal(i) ==
  /\ DOMAIN journals[i] = {"id", "key", "entry", "correctionOf"}
  /\ IsEntry(journals[i].entry)

Lineage(i) ==
  journals[i].correctionOf # NoJournal =>
    \E j \in 1 .. i - 1 :
      /\ journals[j].id = journals[i].correctionOf
      /\ journals[i].entry.event = "REVERSAL" => journals[i].entry = Reversed(journals[j].entry)

BooksInv ==
  /\ Len(journals) \in Nat /\ journals \in Seq({journals[i] : i \in DOMAIN journals})
  /\ \A i \in DOMAIN journals : IsJournal(i) /\ Lineage(i)

\* createReversalCommand exchanges the sides and nothing else of the money.
LEMMA ReversedEntry ==
  ASSUME NEW e, IsEntry(e)
  PROVE  /\ IsEntry(Reversed(e)) /\ Reversed(e).event = "REVERSAL"
         /\ DOMAIN Reversed(e).lines = DOMAIN e.lines
         /\ \A i \in DOMAIN e.lines :
              /\ Reversed(e).lines[i].account = e.lines[i].account
              /\ Reversed(e).lines[i].amount = e.lines[i].amount
              /\ Reversed(e).lines[i].side = Opposite(e.lines[i].side)
<1> DEFINE r == Reversed(e)
           l(i) == [e.lines[i] EXCEPT !.side = Opposite(@)]
           m(i) == [e.movements[i] EXCEPT !.type = "REVERSE"]
<1>1. /\ DOMAIN r = DOMAIN e /\ r.event = "REVERSAL" /\ r.entity = e.entity
      /\ r.lines = [i \in DOMAIN e.lines |-> l(i)]
      /\ r.movements = [i \in DOMAIN e.movements |-> m(i)]
  BY DEF Reversed, IsEntry
<1>2. ASSUME NEW i \in DOMAIN e.lines
      PROVE  /\ IsLine(l(i)) /\ l(i).account = e.lines[i].account
             /\ l(i).amount = e.lines[i].amount /\ l(i).side = Opposite(e.lines[i].side)
  <2>1. IsLine(e.lines[i])
    BY DEF IsEntry
  <2>2. Opposite(e.lines[i].side) \in Side
    BY DEF Opposite, Side
  <2>3. QED
    BY <2>1, <2>2 DEF IsLine
<1>3. ASSUME NEW i \in DOMAIN e.movements
      PROVE  IsMovement(m(i))
  <2>1. IsMovement(e.movements[i])
    BY DEF IsEntry
  <2>2. QED
    BY <2>1 DEF IsMovement
<1>4. IsFiniteSet(DOMAIN e.lines) /\ IsFiniteSet(DOMAIN e.movements)
      /\ DOMAIN e = {"event", "entity", "lines", "movements"}
  BY DEF IsEntry
<1> HIDE DEF r, l, m
<1>5. /\ IsEntry(r)
      /\ \A i \in DOMAIN e.lines :
              /\ r.lines[i].account = e.lines[i].account
              /\ r.lines[i].amount = e.lines[i].amount
              /\ r.lines[i].side = Opposite(e.lines[i].side)
  BY <1>1, <1>2, <1>3, <1>4 DEF IsEntry
<1>6. QED
  BY <1>1, <1>5 DEF r

LEMMA BooksStart == BooksInit => BooksInv
  BY DEF BooksInit, BooksInv

\* Posting keeps the shape and the lineage of the journal.
LEMMA PostKeeps ==
  ASSUME BooksInv, NEW key, NEW id, NEW entry, NEW correctionOf,
         PostJournal(key, id, entry, correctionOf), IsEntry(entry),
         correctionOf # NoJournal =>
           \E j \in DOMAIN journals :
             journals[j].id = correctionOf
             /\ (entry.event = "REVERSAL" => entry = Reversed(journals[j].entry))
  PROVE  BooksInv'
<1> DEFINE new == [id |-> id, key |-> key, entry |-> entry, correctionOf |-> correctionOf]
           J == {journals[i] : i \in DOMAIN journals} \cup {new}
<1>1. journals' = Append(journals, new)
  BY DEF PostJournal, Chained
<1>2. PICK n \in Nat : journals \in Seq(J) /\ DOMAIN journals = 1 .. n /\ Len(journals) = n
  BY DEF BooksInv
<1>3. /\ journals' \in Seq(J) /\ DOMAIN journals' = 1 .. n + 1 /\ Len(journals') = n + 1
      /\ \A i \in 1 .. n : journals'[i] = journals[i]
      /\ journals'[n + 1] = new
  BY <1>1, <1>2
<1>4. journals' \in Seq({journals'[i] : i \in DOMAIN journals'})
  BY <1>2, <1>3
<1>5. ASSUME NEW i \in 1 .. n
      PROVE  IsJournal(i)' /\ Lineage(i)'
  <2>1. IsJournal(i) /\ Lineage(i)
    BY <1>2 DEF BooksInv
  <2>2. IsJournal(i)'
    BY <2>1, <1>3 DEF IsJournal
  <2>3. \A j \in 1 .. i - 1 : journals'[j] = journals[j]
    BY <1>2, <1>3
  <2>4. QED
    BY <2>1, <2>2, <2>3, <1>3 DEF Lineage
<1>6. IsJournal(n + 1)' /\ Lineage(n + 1)'
  <2>1. IsJournal(n + 1)'
    BY <1>3 DEF IsJournal
  <2>2. n + 1 - 1 = n
    BY <1>2
  <2>3. Lineage(n + 1)'
    BY <2>2, <1>2, <1>3 DEF Lineage
  <2>4. QED
    BY <2>1, <2>3
<1>7. \A i \in 1 .. n + 1 : IsJournal(i)' /\ Lineage(i)'
  BY <1>2, <1>5, <1>6
<1>8. QED
  BY <1>2, <1>3, <1>4, <1>7 DEF BooksInv

\* So does every step of the ledger.
LEMMA BooksStep == BooksInv /\ [BooksNext]_bookVars => BooksInv'
<1> SUFFICES ASSUME BooksInv, [BooksNext]_bookVars PROVE BooksInv'
  OBVIOUS
<1>1. ASSUME NEW key \in JournalKey, NEW id \in JournalId, NEW entry \in Entry,
             NEW correctionOf \in JournalId \cup {NoJournal},
             PostJournal(key, id, entry, correctionOf)
      PROVE  BooksInv'
  <2>1. IsEntry(entry) /\ entry.event # "REVERSAL"
    BY EntryAssumption
  <2>2. correctionOf # NoJournal => \E j \in DOMAIN journals : journals[j].id = correctionOf
    BY <1>1 DEF PostJournal, JournalIds
  <2>3. QED
    BY <1>1, <2>1, <2>2, PostKeeps
<1>2. ASSUME NEW key \in JournalKey, NEW id \in JournalId, NEW original \in JournalId,
             NEW maker \in Corrector, NEW checker \in Corrector,
             PostReversal(key, id, original, maker, checker)
      PROVE  BooksInv'
  <2> DEFINE old == JournalNamed(original)
  <2>1. PICK j \in DOMAIN journals : journals[j] = old /\ old.id = original
    <3>1. \E j \in {journals[i] : i \in DOMAIN journals} : j.id = original
      BY <1>2 DEF PostReversal, JournalIds
    <3>2. old \in {journals[i] : i \in DOMAIN journals} /\ old.id = original
      BY <3>1, Zenon DEF JournalNamed
    <3>3. QED
      BY <3>2
  <2>2. IsEntry(old.entry)
    BY <2>1 DEF BooksInv, IsJournal
  <2>3. PostJournal(key, id, Reversed(old.entry), original)
    BY <1>2 DEF PostReversal
  <2> HIDE DEF old
  <2>4. IsEntry(Reversed(old.entry))
    BY <2>2, ReversedEntry
  <2>5. QED
    BY <2>1, <2>3, <2>4, PostKeeps
<1>3. CASE UNCHANGED bookVars
  <2>1. journals' = journals
    BY <1>3 DEF bookVars
  <2>2. \A i : (IsJournal(i)' <=> IsJournal(i)) /\ (Lineage(i)' <=> Lineage(i))
    BY <2>1 DEF IsJournal, Lineage
  <2>3. QED
    BY <2>1, <2>2 DEF BooksInv
<1>4. QED
  BY <1>1, <1>2, <1>3 DEF BooksNext

\* Journals keep their lineage, whatever is posted and reversed.
THEOREM BooksTyped == BooksSpec => []BooksInv
  BY BooksStart, BooksStep, PTL DEF BooksSpec

\* A reversal has the lines of what it corrects, exchanged.
LEMMA UndoneByLineage == BooksInv => ReversalsUndoMoney
<1> SUFFICES ASSUME BooksInv, NEW i \in DOMAIN journals, journals[i].correctionOf # NoJournal
             PROVE  \E j \in 1 .. i - 1 :
                      /\ journals[j].id = journals[i].correctionOf
                      /\ journals[i].entry.event = "REVERSAL" => \A a \in DOMAIN Account :
                           /\ Posted(i, a, "DEBIT") = Posted(j, a, "CREDIT")
                           /\ Posted(i, a, "CREDIT") = Posted(j, a, "DEBIT")
  BY DEF ReversalsUndoMoney
<1>1. PICK j \in 1 .. i - 1 :
        /\ journals[j].id = journals[i].correctionOf
        /\ journals[i].entry.event = "REVERSAL" => journals[i].entry = Reversed(journals[j].entry)
  BY DEF BooksInv, Lineage
<1>2. j \in DOMAIN journals
  BY DEF BooksInv
<1>3. ASSUME journals[i].entry.event = "REVERSAL", NEW a,
             NEW side \in Side
      PROVE  Posted(i, a, side) = Posted(j, a, Opposite(side))
  <2> DEFINE old == journals[j].entry
             new == journals[i].entry
  <2>1. new = Reversed(old) /\ IsEntry(old)
    BY <1>1, <1>2, <1>3 DEF BooksInv, IsJournal
  <2>2. /\ DOMAIN new.lines = DOMAIN old.lines
        /\ \A n \in DOMAIN old.lines :
             /\ new.lines[n].account = old.lines[n].account
             /\ new.lines[n].amount = old.lines[n].amount
             /\ new.lines[n].side = Opposite(old.lines[n].side)
    BY <2>1, ReversedEntry
  <2>3. \A n \in DOMAIN old.lines : old.lines[n].side \in Side
    BY <2>1 DEF IsEntry, IsLine
  <2>4. \A n \in DOMAIN old.lines : Opposite(old.lines[n].side) = side <=> old.lines[n].side = Opposite(side)
    BY <2>3 DEF Opposite, Side
  <2> HIDE DEF old, new
  <2>5. {m \in DOMAIN new.lines : new.lines[m].account = a /\ new.lines[m].side = side}
          = {m \in DOMAIN old.lines : old.lines[m].account = a /\ old.lines[m].side = Opposite(side)}
    BY <2>2, <2>4
  <2>6. [n \in {m \in DOMAIN new.lines : new.lines[m].account = a /\ new.lines[m].side = side} |->
           new.lines[n].amount]
          = [n \in {m \in DOMAIN old.lines : old.lines[m].account = a /\ old.lines[m].side = Opposite(side)} |->
           old.lines[n].amount]
    BY <2>2, <2>5
  <2>7. QED
    BY <2>6 DEF Posted, old, new
<1>4. Opposite("DEBIT") = "CREDIT" /\ Opposite("CREDIT") = "DEBIT" /\ {"DEBIT", "CREDIT"} \subseteq Side
  BY DEF Opposite, Side
<1>5. QED
  BY <1>1, <1>3, <1>4

\* Every reversal takes back exactly the money of what it corrects.
THEOREM ReversalsUndo == BooksSpec => []ReversalsUndoMoney
  BY BooksTyped, UndoneByLineage, PTL

-----------------------------------------------------------------------------
(* The wallet                                                              *)

\* What the wallet sums are integers.
LEMMA PostedInt ==
  ASSUME BooksInv, NEW i \in DOMAIN journals, NEW a, NEW side
  PROVE  Posted(i, a, side) \in Int
<1> DEFINE lines == journals[i].entry.lines
           f == [n \in {m \in DOMAIN lines : lines[m].account = a /\ lines[m].side = side} |->
                   lines[n].amount]
<1>1. IsFiniteSet(DOMAIN lines) /\ \A n \in DOMAIN lines : lines[n].amount \in Int
  BY DEF BooksInv, IsJournal, IsEntry, IsLine
<1> HIDE DEF lines
<1>2. DOMAIN f \subseteq DOMAIN lines /\ \A n \in DOMAIN f : f[n] \in Int
  BY <1>1
<1>3. IsFiniteSet(DOMAIN f)
  BY <1>1, <1>2, FS_Subset
<1> HIDE DEF f
<1>4. Total(f) \in Int
  BY <1>2, <1>3, TotalTakes
<1>5. QED
  BY <1>4 DEF Posted, f, lines

LEMMA OwnEffectInt ==
  ASSUME NEW e, IsEntry(e)
  PROVE  OwnEffect(e) \in Int
<1> DEFINE f == [m \in {n \in DOMAIN e.movements : e.movements[n].position \in Definition.positions} |->
                   MovementEffect(e.movements[m])]
<1>1. IsFiniteSet(DOMAIN e.movements) /\ \A n \in DOMAIN e.movements : e.movements[n].quantity \in Int
  BY DEF IsEntry, IsMovement
<1>2. DOMAIN f \subseteq DOMAIN e.movements /\ \A n \in DOMAIN f : f[n] \in Int
  BY <1>1 DEF MovementEffect
<1>3. IsFiniteSet(DOMAIN f)
  BY <1>1, <1>2, FS_Subset
<1> HIDE DEF f
<1>4. Total(f) \in Int
  BY <1>2, <1>3, TotalTakes
<1>5. QED
  BY <1>4 DEF OwnEffect, f

LEMMA PositionDeltaInt ==
  ASSUME BooksInv, NEW i \in DOMAIN journals
  PROVE  PositionDelta(i) \in Int
<1>1. OwnEffect(journals[i].entry) \in Int
  BY OwnEffectInt DEF BooksInv, IsJournal
<1>2. ASSUME journals[i].correctionOf # NoJournal
      PROVE  OwnEffect(JournalNamed(journals[i].correctionOf).entry) \in Int
  <2> DEFINE id == journals[i].correctionOf
             old == JournalNamed(id)
  <2>1. \E j \in {journals[k] : k \in DOMAIN journals} : j.id = id
    BY <1>2 DEF BooksInv, Lineage
  <2>2. old \in {journals[k] : k \in DOMAIN journals}
    BY <2>1, Zenon DEF JournalNamed
  <2>3. IsEntry(old.entry)
    BY <2>2 DEF BooksInv, IsJournal
  <2>4. QED
    BY <2>3, OwnEffectInt
<1>3. QED
  BY <1>1, <1>2 DEF PositionDelta

\* What no listed activity touches is nothing, so what is listed adds up to the whole.
LEMMA ExplainedByActivity == BooksInv => ActivityExplainsBalance
<1> SUFFICES ASSUME BooksInv PROVE ActivityExplainsBalance
  OBVIOUS
<1> DEFINE D == DOMAIN journals
<1>1. IsFiniteSet(D) /\ Activity \in SUBSET D
  BY FS_Interval DEF BooksInv, Activity
<1>2. ASSUME NEW a \in WalletAccounts
      PROVE  Total([i \in Activity |-> LiabilityDelta(i, a)]) = BalanceMinor(a)
  <2> DEFINE f == [i \in D |-> LiabilityDelta(i, a)]
             c == [i \in D |-> Posted(i, a, "CREDIT")]
             d == [i \in D |-> Posted(i, a, "DEBIT")]
  <2>1. \A i \in D : c[i] \in Int /\ d[i] \in Int
    BY PostedInt
  <2>2. \A i \in D : f[i] = c[i] - d[i]
    BY DEF LiabilityDelta
  <2>3. \A i \in D \ Activity : f[i] = 0
    BY DEF Activity
  <2>4. Restrict(f, Activity) = [i \in Activity |-> LiabilityDelta(i, a)]
    BY <1>1 DEF Restrict
  <2>5. DOMAIN f = D /\ DOMAIN c = D /\ DOMAIN d = D
    OBVIOUS
  <2>6. Total(c) = CreditsMinor(a) /\ Total(d) = DebitsMinor(a)
    BY DEF CreditsMinor, DebitsMinor
  <2> HIDE DEF f, c, d, D
  <2>7. \A i \in D : f[i] \in Int /\ c[i] = f[i] + d[i]
    BY <2>1, <2>2
  <2>8. Total(c) = Total(f) + Total(d)
    BY <2>1, <2>5, <2>7, <1>1, TotalPlus
  <2>9. Total(f) = Total(Restrict(f, Activity))
    BY <2>3, <2>5, <2>7, <1>1, TotalWhere
  <2>10. Total(f) \in Int /\ Total(d) \in Int
    BY <2>1, <2>5, <2>7, <1>1, TotalTakes
  <2>11. BalanceMinor(a) = CreditsMinor(a) - DebitsMinor(a)
    BY DefinitionAssumption DEF BalanceMinor
  <2>12. Total(Restrict(f, Activity)) = BalanceMinor(a)
    <3>1. BalanceMinor(a) = Total(c) - Total(d)
      BY <2>6, <2>11
    <3>2. Total(c) - Total(d) = Total(f)
      BY <2>8, <2>10
    <3>3. QED
      BY <2>9, <3>1, <3>2
  <2>13. QED
    BY <2>4, <2>12, Zenon
<1>3. Total([i \in Activity |-> PositionDelta(i)]) = ProtectedQuantity
  <2> DEFINE f == [i \in D |-> PositionDelta(i)]
  <2>1. \A i \in D : f[i] \in Int
    BY PositionDeltaInt
  <2>2. \A i \in D \ Activity : f[i] = 0
    BY DEF Activity
  <2>3. Restrict(f, Activity) = [i \in Activity |-> PositionDelta(i)]
    BY <1>1 DEF Restrict
  <2>4. DOMAIN f = D /\ Total(f) = ProtectedQuantity
    BY DEF ProtectedQuantity
  <2> HIDE DEF f, D
  <2>5. Total(f) = Total(Restrict(f, Activity))
    BY <2>1, <2>2, <2>4, <1>1, TotalWhere
  <2>6. QED
    BY <2>3, <2>4, <2>5
<1>4. QED
  BY <1>2, <1>3 DEF ActivityExplainsBalance

\* The timeline of a wallet explains its balances and its volume.
THEOREM ActivityExplains == BooksSpec => []ActivityExplainsBalance
  BY BooksTyped, ExplainedByActivity, PTL

-----------------------------------------------------------------------------
(* Reconciliation                                                          *)

\* What BreaksBlock says of the input of a run.
Clean(input) ==
  /\ input.integrity
  /\ input.cash + Total([n \in DOMAIN input.items |-> input.items[n].amount])
       = input.liabilities
  /\ \A n \in DOMAIN input.items : input.items[n].identified
  /\ \A n \in DOMAIN input.matches : input.matches[n].external = input.matches[n].internal

\* No finding is exactly that: an item that explains nothing is itself a finding, so
\* that without findings every item counts.
LEMMA NoFindings ==
  ASSUME NEW input \in Input
  PROVE  Findings(input) = {} <=> Clean(input)
<1> DEFINE items == input.items
           matches == input.matches
           all == [n \in DOMAIN items |-> items[n].amount]
           some == [i \in {n \in DOMAIN items : items[n].identified} |-> items[i].amount]
<1>1. /\ input.cash \in Nat /\ input.liabilities \in Nat /\ input.integrity \in BOOLEAN
      /\ IsFiniteSet(DOMAIN items)
      /\ \A n \in DOMAIN items : items[n].amount \in Int /\ items[n].identified \in BOOLEAN
      /\ \A n \in DOMAIN matches : matches[n].internal \in Int
      /\ Missing \notin Int
  BY InputAssumption
<1>2. Difference(input) = input.cash - input.liabilities + Total(some)
  BY DEF Difference
<1>3. (\A n \in DOMAIN items : items[n].identified) => some = all
  OBVIOUS
<1>4. Total(all) \in Int
  <2>1. DOMAIN all = DOMAIN items /\ \A n \in DOMAIN items : all[n] \in Int
    BY <1>1
  <2> HIDE DEF all, items
  <2>2. QED
    BY <1>1, <2>1, TotalTakes
<1>5. Clean(input) <=>
        /\ input.integrity /\ input.cash + Total(all) = input.liabilities
        /\ \A n \in DOMAIN items : items[n].identified
        /\ \A n \in DOMAIN matches : matches[n].external = matches[n].internal
  BY Zenon DEF Clean
<1>6. Findings(input) = {} <=>
        /\ input.integrity /\ Difference(input) = 0
        /\ \A n \in DOMAIN items : items[n].identified
        /\ \A n \in DOMAIN matches : matches[n].external # Missing
        /\ \A n \in DOMAIN matches : matches[n].external \in {Missing, matches[n].internal}
  BY DEF Findings
<1>7. (\A n \in DOMAIN matches : matches[n].external # Missing)
        /\ (\A n \in DOMAIN matches : matches[n].external \in {Missing, matches[n].internal})
      <=> \A n \in DOMAIN matches : matches[n].external = matches[n].internal
  BY <1>1
<1> HIDE DEF items, matches, all, some
<1>8. ASSUME \A n \in DOMAIN items : items[n].identified
      PROVE  Difference(input) = 0 <=> input.cash + Total(all) = input.liabilities
  <2>1. Difference(input) = input.cash - input.liabilities + Total(all)
    BY <1>2, <1>3, <1>8
  <2>2. QED
    BY <2>1, <1>1, <1>4
<1>9. QED
  BY <1>5, <1>6, <1>7, <1>8

\* A report is what the run of its input finds, and carries every break it opened.
IsReport(i) ==
  /\ reports[i].input \in Input
  /\ reports[i].breaks = BreaksOf(reports[i].run, Findings(reports[i].input))
  /\ reports[i].status = IF reports[i].breaks = {} THEN "PASS" ELSE "BREAK"
  /\ reports[i].breaks \subseteq DOMAIN breaks

\* A break is of one of the reports, and cleared by two people and a run that passed.
Found(b) == \E j \in DOMAIN reports : b \in reports[j].breaks
Cleared(b) ==
  /\ breaks[b].maker # breaks[b].checker
  /\ \E i, j \in DOMAIN reports :
       /\ reports[i].run = breaks[b].corrected /\ reports[i].status = "PASS"
       /\ b \in reports[j].breaks /\ reports[j].status = "BREAK"
       /\ reports[i].input.scope = reports[j].input.scope

ReconInv ==
  /\ Len(reports) \in Nat /\ reports \in Seq({reports[i] : i \in DOMAIN reports})
  /\ \A i \in DOMAIN reports : IsReport(i)
  /\ \A i, j \in DOMAIN reports : reports[i].run = reports[j].run => i = j
  /\ \A b \in DOMAIN breaks :
       /\ breaks[b].status \in {"OPEN", "CLEARED"} /\ Found(b)
       /\ breaks[b].status = "CLEARED" => Cleared(b)

LEMMA ReconStart == ReconInit => ReconInv
  BY DEF ReconInit, ReconInv, EmptyMap

\* A run adds its report and its breaks.
LEMMA RunKeeps ==
  ASSUME ReconInv, NEW key, NEW run, NEW input \in Input, runReconciliation(key, run, input)
  PROVE  ReconInv'
<1> DEFINE found == BreaksOf(run, Findings(input))
           new == [run |-> run, input |-> input, breaks |-> found,
                   status |-> IF found = {} THEN "PASS" ELSE "BREAK"]
           R == {reports[i] : i \in DOMAIN reports} \cup {new}
<1>1. /\ reports' = Append(reports, new) /\ breaks' = WithBreaks(found)
      /\ \A i \in DOMAIN reports : reports[i].run # run
  BY DEF runReconciliation
<1>2. PICK n \in Nat : reports \in Seq(R) /\ DOMAIN reports = 1 .. n /\ Len(reports) = n
  BY DEF ReconInv
<1>3. /\ new.run = run /\ new.input = input /\ new.breaks = found
      /\ new.status = IF new.breaks = {} THEN "PASS" ELSE "BREAK"
  OBVIOUS
<1>4. /\ DOMAIN breaks' = DOMAIN breaks \cup found
      /\ \A b \in DOMAIN breaks : breaks'[b] = breaks[b]
      /\ \A b \in found : b \notin DOMAIN breaks => breaks'[b].status = "OPEN"
  BY <1>1 DEF WithBreaks
<1>5. new.breaks = BreaksOf(new.run, Findings(new.input))
  BY <1>3
<1> HIDE DEF new, found
<1>6. /\ reports' \in Seq(R) /\ DOMAIN reports' = 1 .. n + 1 /\ Len(reports') = n + 1
      /\ \A i \in 1 .. n : reports'[i] = reports[i]
      /\ reports'[n + 1] = new
  BY <1>1, <1>2
<1>7. reports' \in Seq({reports'[i] : i \in DOMAIN reports'})
  BY <1>2, <1>6
<1>8. ASSUME NEW i \in 1 .. n
      PROVE  IsReport(i)'
  <2>1. IsReport(i)
    BY <1>2 DEF ReconInv
  <2>2. QED
    BY <2>1, <1>4, <1>6 DEF IsReport
<1>9. IsReport(n + 1)'
  BY <1>3, <1>4, <1>5, <1>6 DEF IsReport
<1>10. \A i, j \in 1 .. n + 1 : reports'[i].run = reports'[j].run => i = j
  <2>1. \A i, j \in 1 .. n : reports[i].run = reports[j].run => i = j
    BY <1>2 DEF ReconInv
  <2>2. \A i \in 1 .. n : reports'[i].run # reports'[n + 1].run
    BY <1>1, <1>2, <1>3, <1>6
  <2>3. QED
    BY <2>1, <2>2, <1>2, <1>6
<1>11. ASSUME NEW b \in DOMAIN breaks
       PROVE  /\ breaks'[b].status \in {"OPEN", "CLEARED"} /\ Found(b)'
              /\ breaks'[b].status = "CLEARED" => Cleared(b)'
  <2>1. breaks[b].status \in {"OPEN", "CLEARED"} /\ Found(b) /\ (breaks[b].status = "CLEARED" => Cleared(b))
    BY DEF ReconInv
  <2>2. Found(b)'
    BY <2>1, <1>2, <1>6 DEF Found
  <2>3. breaks'[b] = breaks[b]
    BY <1>4
  <2>4. Cleared(b) => Cleared(b)'
    BY <2>3, <1>2, <1>6 DEF Cleared
  <2>5. QED
    BY <2>1, <2>2, <2>3, <2>4
<1>12. ASSUME NEW b \in found, b \notin DOMAIN breaks
       PROVE  breaks'[b].status = "OPEN" /\ Found(b)'
  BY <1>12, <1>3, <1>4, <1>6, <1>2 DEF Found
<1>13. QED
  BY <1>2, <1>4, <1>6, <1>7, <1>8, <1>9, <1>10, <1>11, <1>12 DEF ReconInv

\* Clearing changes one open break.
LEMMA ClearKeeps ==
  ASSUME ReconInv, NEW b, NEW maker, NEW checker, NEW corrected, NEW stepUp, NEW breakGlass,
         clearBreak(b, maker, checker, corrected, stepUp, breakGlass)
  PROVE  ReconInv'
<1> DEFINE c == [status |-> "CLEARED", corrected |-> corrected, maker |-> maker, checker |-> checker]
<1>1. /\ b \in DOMAIN breaks /\ breaks[b].status = "OPEN" /\ maker # checker
      /\ breaks' = [breaks EXCEPT ![b] = c] /\ reports' = reports
      /\ Corrects(corrected, b[1])
  BY DEF clearBreak
<1>2. c.status = "CLEARED" /\ c.corrected = corrected /\ c.maker = maker /\ c.checker = checker
  OBVIOUS
<1> HIDE DEF c
<1>3. /\ DOMAIN breaks' = DOMAIN breaks /\ breaks'[b] = c
      /\ \A x \in DOMAIN breaks : x # b => breaks'[x] = breaks[x]
  BY <1>1
<1>4. PICK j \in DOMAIN reports : b \in reports[j].breaks
  BY <1>1 DEF ReconInv, Found
<1>5. b[1] = reports[j].run /\ reports[j].status = "BREAK"
  BY <1>4 DEF ReconInv, IsReport, BreaksOf
<1>6. \A i \in DOMAIN reports : ReportOf(reports[i].run) = reports[i]
  <2>1. ASSUME NEW i \in DOMAIN reports
        PROVE  ReportOf(reports[i].run) = reports[i]
    <3> DEFINE r == ReportOf(reports[i].run)
    <3>1. \E x \in {reports[k] : k \in DOMAIN reports} : x.run = reports[i].run
      OBVIOUS
    <3>2. r \in {reports[k] : k \in DOMAIN reports} /\ r.run = reports[i].run
      BY <3>1, Zenon DEF ReportOf
    <3>3. PICK k \in DOMAIN reports : r = reports[k]
      BY <3>2
    <3>4. k = i
      BY <3>2, <3>3 DEF ReconInv
    <3>5. QED
      BY <3>3, <3>4
  <2>2. QED
    BY <2>1
<1>7. PICK i \in DOMAIN reports : reports[i].run = corrected
  BY <1>1 DEF Corrects, Reported
<1>8. reports[i].status = "PASS" /\ reports[i].input.scope = reports[j].input.scope
  BY <1>1, <1>5, <1>6, <1>7 DEF Corrects
<1>9. Cleared(b)'
  BY <1>1, <1>2, <1>3, <1>4, <1>5, <1>7, <1>8 DEF Cleared
<1>10. ASSUME NEW x \in DOMAIN breaks
       PROVE  /\ breaks'[x].status \in {"OPEN", "CLEARED"} /\ Found(x)'
              /\ breaks'[x].status = "CLEARED" => Cleared(x)'
  <2>1. breaks[x].status \in {"OPEN", "CLEARED"} /\ Found(x) /\ (breaks[x].status = "CLEARED" => Cleared(x))
    BY DEF ReconInv
  <2>2. Found(x)'
    BY <2>1, <1>1 DEF Found
  <2>3. CASE x = b
    BY <2>2, <2>3, <1>2, <1>3, <1>9
  <2>4. CASE x # b
    <3>1. breaks'[x] = breaks[x]
      BY <2>4, <1>3
    <3>2. Cleared(x) => Cleared(x)'
      BY <3>1, <1>1 DEF Cleared
    <3>3. QED
      BY <2>1, <2>2, <3>1, <3>2
  <2>5. QED
    BY <2>3, <2>4
<1>11. \A k : IsReport(k) => IsReport(k)'
  BY <1>1, <1>3 DEF IsReport
<1>12. QED
  BY <1>1, <1>3, <1>10, <1>11 DEF ReconInv

LEMMA ReconStep == ReconInv /\ [ReconNext]_reconVars => ReconInv'
<1> SUFFICES ASSUME ReconInv, [ReconNext]_reconVars PROVE ReconInv'
  OBVIOUS
<1>1. CASE ReconNext
  BY <1>1, RunKeeps, ClearKeeps DEF ReconNext
<1>2. CASE UNCHANGED reconVars
  <2>1. reports' = reports /\ breaks' = breaks
    BY <1>2 DEF reconVars
  <2>2. \A k : (IsReport(k) => IsReport(k)') /\ (Found(k) => Found(k)') /\ (Cleared(k) => Cleared(k)')
    BY <2>1 DEF IsReport, Found, Cleared
  <2>3. QED
    BY <2>1, <2>2 DEF ReconInv
<1>3. QED
  BY <1>1, <1>2

\* The invariant says that breaks block.
LEMMA BlockedByInvariant == ReconInv => BreaksBlock
<1> SUFFICES ASSUME ReconInv PROVE BreaksBlock
  OBVIOUS
<1>1. ASSUME NEW i \in DOMAIN reports
      PROVE  /\ reports[i].status = "PASS" <=> Clean(reports[i].input)
             /\ ~Clean(reports[i].input) /\ ~isActionBlocked =>
                  /\ reports[i].breaks # {}
                  /\ \A b \in reports[i].breaks : breaks[b].status = "CLEARED"
  <2>1. IsReport(i)
    BY DEF ReconInv
  <2>2. reports[i].breaks = {} <=> Findings(reports[i].input) = {}
    <3>1. ASSUME NEW run, NEW F PROVE {run} \X F = {} <=> F = {}
      <4>1. \A f \in F : <<run, f>> \in {run} \X F
        OBVIOUS
      <4>2. F = {} => {run} \X F = {}
        OBVIOUS
      <4>3. QED
        BY <4>1, <4>2
    <3>2. QED
      BY <2>1, <3>1 DEF IsReport, BreaksOf
  <2>3. Findings(reports[i].input) = {} <=> Clean(reports[i].input)
    BY <2>1, NoFindings DEF IsReport
  <2>4. reports[i].status = "PASS" <=> reports[i].breaks = {}
    BY <2>1 DEF IsReport
  <2>5. ~isActionBlocked => \A b \in reports[i].breaks : breaks[b].status = "CLEARED"
    BY <2>1 DEF IsReport, ReconInv, isActionBlocked
  <2>6. QED
    BY <2>2, <2>3, <2>4, <2>5
<1>2. \A b \in DOMAIN breaks : breaks[b].status = "CLEARED" => Cleared(b)
  BY DEF ReconInv
<1>3. QED
  BY <1>1, <1>2, Zenon DEF BreaksBlock, Clean, Cleared

\* Differences stop the money until they are cleared as the rules say.
THEOREM BreaksAlwaysBlock == ReconSpec => []BreaksBlock
<1>1. ReconSpec => []ReconInv
  BY ReconStart, ReconStep, PTL DEF ReconSpec
<1>2. QED
  BY <1>1, BlockedByInvariant, PTL
=============================================================================
