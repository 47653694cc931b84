------------------------- MODULE PurchaseFlowProofs -------------------------
(***************************************************************************)
(* What holds of the engines together, for any purchases, terms, funds and *)
(* number of deliveries: they settle a purchase once, agree on money and   *)
(* volume, overdraw nothing, and implement CustomerFunds.                  *)
(*                                                                         *)
(* The invariant has two halves.  Recorded says how the engines' records   *)
(* go back to one another: a journal to a decision, a decision to an       *)
(* allocation, an allocation to a cleared hold of the whole price.  Sums   *)
(* says what adds up: what is on hold and in flight is covered by the      *)
(* available balance, the strike value of the volume that is not posted by *)
(* the reserved balance.  Only the second makes a debit that is rounded    *)
(* down, for an order of purchases that nobody chose, safe to post.        *)
(***************************************************************************)
EXTENDS PurchaseFlow, BasicLemmas

\* The theorems of the engines, on the engines of the flow.  The ledger and the
\* reconciliation of EnginesProofs are not used; their constants are given a value only
\* to satisfy their assumptions.
Engines == INSTANCE EnginesProofs WITH
  AllocationId <- Purchase, PurchaseId <- Purchase,
  AllocationKey <- Purchase, Facts <- {Match(p) : p \in Purchase},
  Position <- [i \in PositionId |->
    [owner |-> "me", scope |-> "here", product |-> "petrol", status |-> "ACTIVE",
     starts |-> 0, expires |-> [at |-> 2, text |-> 2, form |-> "UTC"], accepted |-> 0]],
  SettlementId <- Purchase, SettlementKey <- Attempt,
  Evidence <- {}, PumpPrice <- {Bought[p].pump : p \in Purchase},
  reserved <- "reserved", available <- "available", claim <- "claim",
  station <- "station",
  JournalId <- {}, JournalKey <- {}, Entry <- {}, Corrector <- {}, NoJournal <- "none",
  Account <- [a \in {"available", "reserved", "refund"} |->
    [entity |-> "e", currency |-> "usd", normal |-> "CREDIT"]],
  Definition <- [available |-> "available", reserved |-> "reserved", refund |-> "refund",
                 positions |-> PositionId],
  RunId <- {}, RunKey <- {}, Input <- {}, Principal <- {}, Missing <- {n \in Int : n \notin n},
  reports <- <<>>, runKeys <- EmptyMap

\* A sum is the same sum in every engine.
LEMMA TotalsAgree ==
  ASSUME NEW f
  PROVE  /\ Math!Total(f) = Total(f) /\ Card!Total(f) = Total(f) /\ Alloc!Total(f) = Total(f)
         /\ Settle!Total(f) = Total(f) /\ Books!Total(f) = Total(f) /\ Engines!Total(f) = Total(f)
<1>1. Math!Total(f) = Total(f)
  BY Zenon DEF Math!Total, Total, Math!MapThenSumSet, MapThenSumSet, Math!MapThenFoldSet, MapThenFoldSet
<1>2. Card!Total(f) = Total(f)
  BY Zenon DEF Card!Total, Total, Card!MapThenSumSet, MapThenSumSet, Card!MapThenFoldSet, MapThenFoldSet
<1>3. Alloc!Total(f) = Total(f)
  BY Zenon DEF Alloc!Total, Total, Alloc!MapThenSumSet, MapThenSumSet, Alloc!MapThenFoldSet, MapThenFoldSet
<1>4. Settle!Total(f) = Total(f)
  BY Zenon DEF Settle!Total, Total, Settle!MapThenSumSet, MapThenSumSet, Settle!MapThenFoldSet, MapThenFoldSet
<1>5. Books!Total(f) = Total(f)
  BY Zenon DEF Books!Total, Total, Books!MapThenSumSet, MapThenSumSet, Books!MapThenFoldSet, MapThenFoldSet
<1>6. Engines!Total(f) = Total(f)
  BY Zenon DEF Engines!Total, Total, Engines!MapThenSumSet, MapThenSumSet, Engines!MapThenFoldSet, MapThenFoldSet
<1>7. QED
  BY <1>1, <1>2, <1>3, <1>4, <1>5, <1>6

\* What the engines' theorems assume of their constants follows from FlowAssumption.
LEMMA EngineAssumptions ==
  /\ Engines!PositionAssumption /\ Engines!FactsAssumption /\ Engines!DenominatorAssumption
  /\ Engines!TermsAssumption /\ Engines!SettlementAssumption /\ Engines!AccountAssumption
  /\ Engines!NoJournalAssumption /\ Engines!EntryAssumption /\ Engines!DefinitionAssumption
  /\ Engines!InputAssumption
<1>1. Engines!PositionAssumption
  <2>1. Engines!PositionStatus = {"ACTIVE", "CANCELED", "EXPIRED"}
    BY DEF Engines!PositionStatus
  <2>2. QED
    BY <2>1, FlowAssumption DEF Engines!IsFiniteSet, IsFiniteSet
<1>2. Engines!FactsAssumption
  <2>1. \A p \in Purchase : /\ Match(p).quantity \in Nat \ {0} /\ Match(p).at \in Nat
                           /\ Match(p).evidenceMatches \in BOOLEAN
    BY FlowAssumption DEF Match
  <2>2. QED
    BY <2>1, Zenon
<1>3. Engines!DenominatorAssumption /\ Engines!TermsAssumption
  BY FlowAssumption DEF Engines!DenominatorAssumption, Engines!TermsAssumption
<1>4. Engines!SettlementAssumption
  BY FlowAssumption DEF Engines!SettlementAssumption
<1>5. Engines!AccountAssumption
  BY DEF Engines!AccountAssumption, Engines!Side
<1>6. Engines!NoJournalAssumption /\ Engines!EntryAssumption
  BY DEF Engines!NoJournalAssumption, Engines!EntryAssumption
<1>7. Engines!DefinitionAssumption
  <2>1. Engines!WalletAccounts = {"available", "reserved", "refund"}
    BY DEF Engines!WalletAccounts
  <2>2. Cardinality({"available", "reserved", "refund"}) = 3
    <3>1. IsFiniteSet({}) /\ Cardinality({}) = 0
      BY FS_EmptySet
    <3>2. IsFiniteSet({"refund"}) /\ Cardinality({"refund"}) = 1
      BY FS_Singleton
    <3>3. /\ IsFiniteSet({"reserved", "refund"})
          /\ Cardinality({"reserved", "refund"}) = 2
      <4>1. {"refund"} \cup {"reserved"} = {"reserved", "refund"} /\ "reserved" \notin {"refund"}
        OBVIOUS
      <4>2. QED
        BY <3>2, <4>1, FS_AddElement
    <3>4. {"reserved", "refund"} \cup {"available"} = {"available", "reserved", "refund"}
          /\ "available" \notin {"reserved", "refund"}
      OBVIOUS
    <3>5. QED
      BY <3>3, <3>4, FS_AddElement
  <2>3. QED
    BY <2>1, <2>2 DEF Engines!Cardinality, Cardinality
<1>8. Engines!InputAssumption
  <2> DEFINE R == {n \in Int : n \notin n}
  <2>1. R \notin Int
    OBVIOUS
  <2>2. QED
    BY <2>1 DEF Engines!InputAssumption
<1>9. QED
  BY <1>1, <1>2, <1>3, <1>4, <1>5, <1>6, <1>7, <1>8

\* An allocation of the flow is one of the engine whose theorems are used.
LEMMA Allocating ==
  ASSUME NEW p, Alloc!AllocatePurchase(p, p, p, Match(p))
  PROVE  Engines!AllocatePurchase(p, p, p, Match(p))
  BY Zenon DEF Alloc!AllocatePurchase, Engines!AllocatePurchase, Alloc!NewKey, Engines!NewKey,
      Alloc!Unmatched, Engines!Unmatched, Alloc!Taken, Engines!Taken, Alloc!Eligible, Engines!Eligible,
      Alloc!Covers, Engines!Covers, Alloc!Before, Engines!Before, Alloc!Larger, Engines!Larger,
      Alloc!Smaller, Engines!Smaller, Alloc!AfterDrawing, Engines!AfterDrawing, Alloc!Put, Engines!Put,
      Alloc!Total, Engines!Total, Alloc!MapThenSumSet, Engines!MapThenSumSet,
      Alloc!MapThenFoldSet, Engines!MapThenFoldSet

-----------------------------------------------------------------------------
(* The wallet, read off the journals                                       *)

OwnAccount == {"available", "reserved", "refund"}
Sides == {"DEBIT", "CREDIT"}

\* What some lines put on one side of an account, and what all journals do.
LineSum(lines, account, side) ==
  Total([n \in {m \in DOMAIN lines : lines[m].account = account /\ lines[m].side = side} |->
           lines[n].amount])
Sum(account, side) == Total([i \in DOMAIN journals |-> LineSum(journals[i].entry.lines, account, side)])
Balance(account) == Sum(account, "CREDIT") - Sum(account, "DEBIT")
Value == Balance("available") + Balance("reserved") + Balance("refund")

\* The protected volume that an entry brings, and that all of them do.
Moved(entry) ==
  Total([m \in {n \in DOMAIN entry.movements : entry.movements[n].position \in PositionId} |->
           Books!MovementEffect(entry.movements[m])])
Volume == Total([i \in DOMAIN journals |-> Moved(journals[i].entry)])

\* The sum of an account's side is over what Wallet says each journal posts.
LEMMA SumIsPosted ==
  ASSUME NEW a, NEW s
  PROVE  Sum(a, s) = Total([i \in DOMAIN journals |-> Books!Posted(i, a, s)])
<1>1. \A i : Books!Posted(i, a, s) = LineSum(journals[i].entry.lines, a, s)
  BY TotalsAgree, Zenon DEF Books!Posted, LineSum
<1>2. [i \in DOMAIN journals |-> Books!Posted(i, a, s)]
        = [i \in DOMAIN journals |-> LineSum(journals[i].entry.lines, a, s)]
  BY <1>1, Zenon
<1>3. QED
  BY <1>2, Zenon DEF Sum

\* The balances of deriveWalletBalance are these.
LEMMA BalancesAre ==
  /\ Books!AvailableMinor = Balance("available")
  /\ Books!ReservedMinor = Balance("reserved")
  /\ Books!RefundPayableMinor = Balance("refund")
  /\ Books!TotalCustomerValue = Balance("available") + Balance("reserved") + Balance("refund")
  /\ Books!WalletBreaks <=> (\E a \in OwnAccount : Balance(a) < 0) \/ Books!ProtectedQuantity < 0
<1>1. ASSUME NEW a \in OwnAccount
      PROVE  Books!BalanceMinor(a) = Balance(a)
  <2>1. /\ Books!DebitsMinor(a) = Sum(a, "DEBIT") /\ Books!CreditsMinor(a) = Sum(a, "CREDIT")
    BY SumIsPosted, TotalsAgree, Zenon DEF Books!DebitsMinor, Books!CreditsMinor
  <2>2. Books!BalanceMinor(a) = Books!CreditsMinor(a) - Books!DebitsMinor(a)
    BY DEF Books!BalanceMinor, OwnAccount
  <2>3. QED
    BY <2>1, <2>2, Zenon DEF Balance
<1>2. /\ Books!AvailableMinor = Books!BalanceMinor("available")
      /\ Books!ReservedMinor = Books!BalanceMinor("reserved")
      /\ Books!RefundPayableMinor = Books!BalanceMinor("refund")
      /\ Books!WalletAccounts = OwnAccount
  BY DEF Books!AvailableMinor, Books!ReservedMinor, Books!RefundPayableMinor, Books!WalletAccounts,
         OwnAccount
<1>3. "available" \in OwnAccount /\ "reserved" \in OwnAccount /\ "refund" \in OwnAccount
  BY DEF OwnAccount
<1>4. Books!TotalCustomerValue = Balance("available") + Balance("reserved") + Balance("refund")
  BY <1>1, <1>2, <1>3, Zenon DEF Books!TotalCustomerValue
<1>5. Books!WalletBreaks <=> (\E a \in OwnAccount : Balance(a) < 0) \/ Books!ProtectedQuantity < 0
  BY <1>1, <1>2, Zenon DEF Books!WalletBreaks
<1>6. QED
  BY <1>1, <1>2, <1>3, <1>4, <1>5

\* While no journal corrects another, the volume shown is what the journals moved.
LEMMA VolumeIs ==
  ASSUME \A i \in DOMAIN journals : journals[i].correctionOf = "none"
  PROVE  Books!ProtectedQuantity = Volume
<1>1. ASSUME NEW i \in DOMAIN journals
      PROVE  Books!PositionDelta(i) = Moved(journals[i].entry)
  <2>1. Books!PositionDelta(i) = Books!OwnEffect(journals[i].entry)
    BY DEF Books!PositionDelta
  <2>2. \A e : Books!OwnEffect(e)
                 = Total([m \in {n \in DOMAIN e.movements : e.movements[n].position \in
                                  [available |-> "available", reserved |-> "reserved", refund |-> "refund",
                                    positions |-> PositionId].positions}
                           |-> Books!MovementEffect(e.movements[m])])
    BY TotalsAgree, Zenon DEF Books!OwnEffect
  <2>3. [available |-> "available", reserved |-> "reserved", refund |-> "refund",
         positions |-> PositionId].positions = PositionId
    OBVIOUS
  <2>4. QED
    BY <2>1, <2>2, <2>3, Zenon DEF Moved
<1>2. [i \in DOMAIN journals |-> Books!PositionDelta(i)]
        = [i \in DOMAIN journals |-> Moved(journals[i].entry)]
  BY <1>1, Zenon
<1>3. QED
  BY <1>2, TotalsAgree, Zenon DEF Books!ProtectedQuantity, Volume

-----------------------------------------------------------------------------
(* What is on record                                                       *)

\* The hold of a purchase: the whole of its price while it is open, nothing after.
Hold ==
  [card : {"card"}, amount : Nat, currency : {"usd"}, day : {1}, status : Card!AuthStatus,
   cleared : Nat, released : Nat, outstanding : Nat]

IsHold(p) ==
  /\ authorizations[p] \in Hold /\ authorizations[p].amount = Price(p)
  /\ authorizations[p].status = "OPEN" =>
       /\ authorizations[p].cleared = 0 /\ authorizations[p].released = 0
       /\ authorizations[p].outstanding = authorizations[p].amount
  /\ authorizations[p].status # "OPEN" =>
       /\ authorizations[p].outstanding = 0 /\ authorizations[p].status # "PARTIALLY_CLEARED"

CardsInv ==
  /\ authorizations = [p \in DOMAIN authorizations |-> authorizations[p]]
  /\ IsFiniteSet(DOMAIN authorizations) /\ \A p \in DOMAIN authorizations : IsHold(p)
  /\ IsFiniteSet(DOMAIN instructions) /\ DOMAIN instructions \subseteq Purchase \cap DOMAIN clearings
  /\ \A p \in DOMAIN instructions : instructions[p].amount = Price(p)

AllocationsInv ==
  /\ Engines!AllocInv
  /\ \A n \in DOMAIN allocations :
       /\ allocations[n].id \in DOMAIN instructions /\ allocations[n].facts = Match(allocations[n].id)
       /\ \A k \in DOMAIN allocations : allocations[n].id = allocations[k].id => n = k

\* The decision made on an allocation.
MoneyOf(a) == Settle!SettledMoney(AllocationEvidence(a), Bought[a.id].pump)
DecidedOn(d, a) ==
  /\ d.id = a.id /\ d.money = MoneyOf(a) /\ d.lines = Settle!PostingLines(MoneyOf(a))
  /\ d.redemptions = Settle!PositionRedemptions(AllocationEvidence(a))

DecisionsInv ==
  /\ Len(decisions) \in Nat /\ decisions \in Seq({decisions[n] : n \in DOMAIN decisions})
  /\ \A n \in DOMAIN decisions :
       /\ \E m \in DOMAIN allocations : DecidedOn(decisions[n], allocations[m])
       /\ \A k \in DOMAIN decisions : decisions[n].id = decisions[k].id => n = k

\* Amounts and quantities add up to integers.
IsPosted(j) ==
  /\ j.correctionOf = "none" /\ Moved(j.entry) \in Int
  /\ \A a \in OwnAccount, s \in Sides : LineSum(j.entry.lines, a, s) \in Int

JournalsInv ==
  /\ Len(journals) \in Nat \ {0} /\ journals \in Seq({journals[i] : i \in DOMAIN journals})
  /\ journals[1].id = opening
  /\ \A i \in DOMAIN journals :
       /\ IsPosted(journals[i])
       /\ i = 1 \/ \E n \in DOMAIN decisions : decisions[n].id = journals[i].id
       /\ \A k \in DOMAIN journals : journals[i].id = journals[k].id => i = k

Recorded == CardsInv /\ AllocationsInv /\ DecisionsInv /\ JournalsInv

\* A journal more changes the balances and the volume by what is in it.
LEMMA PostAdds ==
  ASSUME JournalsInv, NEW j, journals' = Append(journals, j),
         Moved(j.entry) \in Int,
         \A a \in OwnAccount, s \in Sides : LineSum(j.entry.lines, a, s) \in Int
  PROVE  /\ Volume \in Int /\ Volume' = Volume + Moved(j.entry)
         /\ \A a \in OwnAccount :
              /\ Balance(a) \in Int
              /\ Balance(a)' = Balance(a) + LineSum(j.entry.lines, a, "CREDIT")
                                 - LineSum(j.entry.lines, a, "DEBIT")
         /\ PostedPurchases' = PostedPurchases \cup ({j.id} \ {opening})
<1> DEFINE J == {journals[i] : i \in DOMAIN journals} \cup {j}
<1>1. PICK n \in Nat : journals \in Seq(J) /\ DOMAIN journals = 1 .. n /\ Len(journals) = n
  <2>1. Len(journals) \in Nat /\ journals \in Seq({journals[i] : i \in DOMAIN journals})
    BY DEF JournalsInv
  <2>2. journals \in Seq(J)
    BY <2>1
  <2>3. DOMAIN journals = 1 .. Len(journals)
    BY <2>1
  <2> HIDE DEF J
  <2>4. QED
    BY <2>1, <2>2, <2>3, Zenon
<1>2. /\ DOMAIN journals' = 1 .. n + 1 /\ journals'[n + 1] = j
      /\ \A i \in 1 .. n : journals'[i] = journals[i]
  BY <1>1
<1>3. \A i \in 1 .. n : IsPosted(journals[i])
  BY <1>1 DEF JournalsInv
<1>4. Volume \in Int /\ Volume' = Volume + Moved(j.entry)
  <2> DEFINE f == [i \in DOMAIN journals |-> Moved(journals[i].entry)]
             e == [i \in DOMAIN journals' |-> Moved(journals'[i].entry)]
  <2>1. DOMAIN f = 1 .. n /\ \A i \in 1 .. n : f[i] = Moved(journals[i].entry) /\ f[i] \in Int
    BY <1>1, <1>3 DEF IsPosted
  <2>2. DOMAIN e = 1 .. n + 1 /\ e[n + 1] = Moved(j.entry) /\ \A i \in 1 .. n : e[i] = f[i]
    <3>1. n + 1 \in 1 .. n + 1 /\ \A i \in 1 .. n : i \in 1 .. n + 1
      OBVIOUS
    <3>2. QED
      BY <1>2, <2>1, <3>1
  <2>3. Volume = Total(f) /\ Volume' = Total(e)
    <3>1. Volume = Total(f)
      BY Zenon DEF Volume
    <3>2. Volume' = Total(e)
      BY Zenon DEF Volume, Moved, Books!MovementEffect
    <3>3. QED
      BY <3>1, <3>2
  <2> HIDE DEF f, e
  <2>4. Total(f) \in Int /\ Total(e) = Total(f) + e[n + 1]
    BY <2>1, <2>2, TotalOneMore
  <2>5. QED
    BY <2>2, <2>3, <2>4
<1>5. ASSUME NEW a \in OwnAccount, NEW s \in Sides
      PROVE  Sum(a, s) \in Int /\ Sum(a, s)' = Sum(a, s) + LineSum(j.entry.lines, a, s)
  <2> DEFINE f == [i \in DOMAIN journals |-> LineSum(journals[i].entry.lines, a, s)]
             e == [i \in DOMAIN journals' |-> LineSum(journals'[i].entry.lines, a, s)]
  <2>1. DOMAIN f = 1 .. n /\ \A i \in 1 .. n : f[i] = LineSum(journals[i].entry.lines, a, s) /\ f[i] \in Int
    BY <1>1, <1>3 DEF IsPosted
  <2>2. DOMAIN e = 1 .. n + 1 /\ e[n + 1] = LineSum(j.entry.lines, a, s) /\ \A i \in 1 .. n : e[i] = f[i]
    <3>1. n + 1 \in 1 .. n + 1 /\ \A i \in 1 .. n : i \in 1 .. n + 1
      OBVIOUS
    <3>2. QED
      BY <1>2, <2>1, <3>1
  <2>3. Sum(a, s) = Total(f) /\ Sum(a, s)' = Total(e)
    BY Zenon DEF Sum
  <2> HIDE DEF f, e
  <2>4. Total(f) \in Int /\ Total(e) = Total(f) + e[n + 1]
    BY <2>1, <2>2, TotalOneMore
  <2>5. QED
    BY <2>2, <2>3, <2>4
<1>6. ASSUME NEW a \in OwnAccount
      PROVE  /\ Balance(a) \in Int
             /\ Balance(a)' = Balance(a) + LineSum(j.entry.lines, a, "CREDIT")
                                 - LineSum(j.entry.lines, a, "DEBIT")
  <2> DEFINE c == Sum(a, "CREDIT")  
             d == Sum(a, "DEBIT")
             x == LineSum(j.entry.lines, a, "CREDIT")
             y == LineSum(j.entry.lines, a, "DEBIT")
  <2>1. c \in Int /\ d \in Int /\ Sum(a, "CREDIT")' = c + x /\ Sum(a, "DEBIT")' = d + y
        /\ x \in Int /\ y \in Int
    BY <1>5 DEF Sides
  <2>2. Balance(a) = c - d /\ Balance(a)' = Sum(a, "CREDIT")' - Sum(a, "DEBIT")'
    BY Zenon DEF Balance
  <2> HIDE DEF c, d, x, y
  <2>3. Balance(a)' = (c + x) - (d + y)
    BY <2>1, <2>2
  <2>4. Balance(a) \in Int /\ Balance(a)' = Balance(a) + x - y
    BY <2>1, <2>2, <2>3
  <2>5. QED
    BY <2>4 DEF x, y
<1>7. PostedPurchases' = PostedPurchases \cup ({j.id} \ {opening})
  <2>1. \A i : i \in 1 .. n + 1 <=> i \in 1 .. n \/ i = n + 1
    OBVIOUS
  <2>2. PostedPurchases = {journals[i].id : i \in 1 .. n} \ {opening}
    BY <1>1 DEF PostedPurchases
  <2>3. PostedPurchases' = {journals'[i].id : i \in 1 .. n + 1} \ {opening}
    BY <1>2 DEF PostedPurchases
  <2>4. {journals'[i].id : i \in 1 .. n + 1} = {journals[i].id : i \in 1 .. n} \cup {j.id}
    <3>1. /\ \A i \in 1 .. n : journals'[i].id = journals[i].id
          /\ journals'[n + 1].id = j.id
      BY <1>2
    <3>2. QED
      BY <2>1, <3>1, Zenon
  <2>5. QED
    BY <2>2, <2>3, <2>4
<1>8. QED
  BY <1>4, <1>6, <1>7

-----------------------------------------------------------------------------
(* The money of a purchase                                                 *)

\* Volumes of positions, weighed.
Weighted(w, q) == Total([i \in PositionId |-> w[i] * q[i]])
One == [i \in PositionId |-> 1]
Strike == [i \in PositionId |-> Terms[i].strike]

\* An allocation splits its purchase.
Splits(a) ==
  /\ a.id \in Purchase /\ a.lines \in [PositionId -> Nat] /\ a.unprotected \in Nat
  /\ Total(a.lines) + a.unprotected = Bought[a.id].quantity

\* A customer has finitely many positions (FlowAssumption).
LEMMA FinitePositions == IsFiniteSet(PositionId)
  BY FlowAssumption

\* Weighed by one, volumes are just added.
LEMMA OneWeighs ==
  ASSUME NEW q \in [PositionId -> Int]
  PROVE  Weighted(One, q) = Total(q)
<1>1. \A i \in PositionId : One[i] * q[i] = q[i]
  BY DEF One
<1>2. [i \in PositionId |-> One[i] * q[i]] = [i \in PositionId |-> q[i]]
  BY <1>1, Zenon
<1>3. [i \in PositionId |-> q[i]] = q
  OBVIOUS
<1>4. QED
  BY <1>2, <1>3, Zenon DEF Weighted

\* The lines that settlement prices are those drawn, and they are priced as they should.
LEMMA LinesPriced ==
  ASSUME NEW a, Splits(a)
  PROVE  LET lines == Settle!Priced(AllocationEvidence(a))
             D == {j \in PositionId : a.lines[j] > 0}
         IN /\ DOMAIN lines = D /\ IsFiniteSet(D) /\ D \in SUBSET PositionId
            /\ \A i \in D : /\ lines[i].quantity = a.lines[i] /\ lines[i].strike = Terms[i].strike
                            /\ lines[i].boundary = Terms[i].boundary
            /\ Engines!IsPriced(lines)
<1> DEFINE D == {j \in PositionId : a.lines[j] > 0}
           el == [i \in D |-> [position |-> i, quantity |-> a.lines[i]]]
           lines == Settle!Priced(AllocationEvidence(a))
<1>1. AllocationEvidence(a).lines = el
  BY DEF AllocationEvidence
<1>2. lines = [i \in DOMAIN el |-> [quantity |-> el[i].quantity, strike |-> Terms[el[i].position].strike,
                                    boundary |-> Terms[el[i].position].boundary]]
  BY <1>1, Zenon DEF Settle!Priced
<1>3. D \in SUBSET PositionId /\ IsFiniteSet(D)
  BY FinitePositions, FS_Subset
<1>4. DOMAIN el = D /\ \A i \in D : el[i].quantity = a.lines[i] /\ el[i].position = i
  OBVIOUS
<1> HIDE DEF el, lines
<1>5. /\ DOMAIN lines = D
      /\ \A i \in D : /\ lines[i].quantity = a.lines[i] /\ lines[i].strike = Terms[i].strike
                      /\ lines[i].boundary = Terms[i].boundary
  BY <1>2, <1>4
<1>6. \A i \in D : /\ a.lines[i] \in Nat /\ Terms[i].strike \in Nat /\ Terms[i].boundary \in Nat
                   /\ Terms[i].strike <= Terms[i].boundary
  BY FlowAssumption DEF Splits
<1> HIDE DEF D
<1>7. Engines!IsPriced(lines)
  <2>1. Engines!IsFiniteSet(D)
    BY <1>3, Zenon DEF Engines!IsFiniteSet, IsFiniteSet
  <2>2. QED
    BY <2>1, <1>5, <1>6 DEF Engines!IsPriced
<1>8. QED
  BY <1>3, <1>5, <1>7 DEF lines, D

\* The price of a purchase is rounded as the settlement engine rounds.
LEMMA PriceIs ==
  ASSUME NEW p
  PROVE  Price(p) = Engines!halfUpMinor(Bought[p].pump * Bought[p].quantity)
  BY Zenon DEF Price, Math!halfUpMinor, Engines!halfUpMinor

\* It is a positive number of minor units.
LEMMA PriceNat ==
  ASSUME NEW p \in Purchase
  PROVE  Price(p) \in Nat \ {0}
<1>1. Bought[p].pump * Bought[p].quantity \in Nat
  BY FlowAssumption
<1>2. Engines!halfUpMinor(Bought[p].pump * Bought[p].quantity) \in Nat
  BY <1>1, EngineAssumptions, Engines!HalfUpBounds
<1>3. QED
  BY <1>2, PriceIs, FlowAssumption

\* A settled purchase costs the customer at most its price, what is debited to them less
\* what is credited is that cost, and no more is released than was set aside for it.
LEMMA MoneyDecided ==
  ASSUME NEW a, Splits(a)
  PROVE  LET m == MoneyOf(a) IN
         /\ m.customer \in Nat /\ m.reserved \in Nat /\ m.available \in Nat /\ m.lower \in Nat
         /\ m.pool \in Int /\ m.station \in Int
         /\ m.customer <= Price(a.id)
         /\ m.reserved + m.available = m.customer + m.lower
         /\ Weighted(Strike, a.lines) \in Nat
         /\ m.reserved * Denominator <= Weighted(Strike, a.lines)
<1> DEFINE pump == Bought[a.id].pump
           u == a.unprotected
           lines == Settle!Priced(AllocationEvidence(a))
           D == {j \in PositionId : a.lines[j] > 0}
           S == Engines!StationExact(pump, lines, u)
           C == Engines!CustomerExact(pump, lines, u)
           L == Engines!LowerPriceExact(pump, lines)
           K == Engines!StrikeExact(lines)
           m == MoneyOf(a)
<1>1. /\ pump \in Nat /\ u \in Nat /\ a.lines \in [PositionId -> Nat]
      /\ Total(a.lines) + u = Bought[a.id].quantity
  BY FlowAssumption DEF Splits
<1>2. /\ DOMAIN lines = D /\ IsFiniteSet(D) /\ D \in SUBSET PositionId
      /\ \A i \in D : lines[i].quantity = a.lines[i] /\ lines[i].strike = Terms[i].strike
      /\ Engines!IsPriced(lines)
  BY LinesPriced
<1>3. m = Engines!Money(S, C, L, K)
  <2>1. AllocationEvidence(a).unprotected = u
    BY DEF AllocationEvidence
  <2>2. m = Settle!Figures(pump, lines, u)
    BY <2>1, Zenon DEF MoneyOf, Settle!SettledMoney
  <2>3. Settle!Figures(pump, lines, u) = Engines!Money(S, C, L, K)
    <3> HIDE DEF pump, u, lines
    <3>1. /\ Settle!StationExact(pump, lines, u) = S /\ Settle!CustomerExact(pump, lines, u) = C
          /\ Settle!LowerPriceExact(pump, lines) = L /\ Settle!StrikeExact(lines) = K
      BY TotalsAgree, Zenon DEF Settle!StationExact, Engines!StationExact, Settle!CustomerExact,
           Engines!CustomerExact, Settle!LowerPriceExact, Engines!LowerPriceExact, Settle!StrikeExact,
           Engines!StrikeExact, Settle!ContributionPrice, Engines!ContributionPrice, Settle!Larger,
           Engines!Larger, Settle!Smaller, Engines!Smaller
    <3> HIDE DEF S, C, L, K
    <3>2. QED
      BY <3>1, Zenon DEF Settle!Figures, Settle!Money, Engines!Money, Settle!halfUpMinor,
           Engines!halfUpMinor, Settle!floorMinor, Engines!floorMinor, Settle!ceilMinor, Engines!ceilMinor,
           Settle!Larger, Engines!Larger
  <2>4. QED
    BY <2>2, <2>3
<1> HIDE DEF m, pump, lines, u
<1>4. S \in Nat /\ C \in Nat /\ L \in Nat /\ K \in Nat /\ C <= S /\ K <= C + L
  BY <1>1, <1>2, EngineAssumptions, Engines!ExactSums
<1>5. S = Bought[a.id].pump * Bought[a.id].quantity
  <2> DEFINE f == [i \in D |-> a.lines[i]]
             e == [i \in D |-> pump * lines[i].quantity]
             t == Total(a.lines)
  <2>1. S = Total(e) + pump * u
    <3>1. e = [i \in DOMAIN lines |-> pump * lines[i].quantity]
      BY <1>2
    <3> HIDE DEF e, D
    <3>2. QED
      BY <3>1, TotalsAgree, Zenon DEF Engines!StationExact
  <2>2. Total(f) = t
    <3>1. f = Restrict(a.lines, D)
      BY Zenon DEF Restrict
    <3>2. /\ IsFiniteSet(DOMAIN a.lines) /\ D \in SUBSET DOMAIN a.lines
          /\ \A i \in DOMAIN a.lines : a.lines[i] \in Int
          /\ \A i \in DOMAIN a.lines \ D : a.lines[i] = 0
      BY <1>1, FinitePositions
    <3> HIDE DEF f, D
    <3>3. Total(a.lines) = Total(Restrict(a.lines, D))
      BY <3>2, TotalWhere
    <3>4. QED
      BY <3>1, <3>3
  <2>3. Total(f) \in Int /\ Total(e) = pump * Total(f)
    <3>1. /\ IsFiniteSet(DOMAIN f) /\ DOMAIN e = DOMAIN f /\ pump \in Int
          /\ \A i \in DOMAIN f : f[i] \in Int /\ e[i] = pump * f[i]
      BY <1>1, <1>2
    <3> HIDE DEF e, f
    <3>2. QED
      BY <3>1, TotalTimes
  <2> HIDE DEF e, f, t
  <2>4. pump * t + pump * u = pump * (t + u)
    BY <1>1, <2>2, <2>3
  <2>5. t + u = Bought[a.id].quantity
    BY <1>1 DEF t
  <2>6. QED
    BY <2>1, <2>2, <2>3, <2>4, <2>5 DEF pump
<1>6. Weighted(Strike, a.lines) = K
  <2> DEFINE f == [i \in PositionId |-> Strike[i] * a.lines[i]]
             e == [i \in D |-> lines[i].strike * lines[i].quantity]
  <2>1. K = Total(e)
    <3>1. e = [i \in DOMAIN lines |-> lines[i].strike * lines[i].quantity]
      BY <1>2
    <3> HIDE DEF e, D
    <3>2. QED
      BY <3>1, TotalsAgree, Zenon DEF Engines!StrikeExact
  <2>2. \A i \in PositionId : Strike[i] \in Nat /\ Strike[i] = Terms[i].strike
    BY FlowAssumption DEF Strike
  <2>3. /\ IsFiniteSet(DOMAIN f) /\ D \in SUBSET DOMAIN f
        /\ \A i \in DOMAIN f : f[i] \in Int
        /\ \A i \in DOMAIN f \ D : f[i] = 0
    BY <1>1, <2>2, FinitePositions
  <2>4. e = Restrict(f, D)
    <3>1. \A i \in D : lines[i].strike * lines[i].quantity = f[i]
      BY <1>2, <2>2
    <3> HIDE DEF f, D
    <3>2. QED
      BY <3>1, Zenon DEF Restrict
  <2>5. Weighted(Strike, a.lines) = Total(f)
    BY Zenon DEF Weighted
  <2> HIDE DEF e, f, D
  <2>6. Total(f) = Total(Restrict(f, D))
    BY <2>3, TotalWhere
  <2>7. QED
    BY <2>1, <2>4, <2>5, <2>6
<1> HIDE DEF S, C, L, K
<1>7. /\ Engines!halfUpMinor(S) \in Nat /\ Engines!floorMinor(C) \in Nat
      /\ Engines!ceilMinor(L) \in Nat /\ Engines!floorMinor(K) \in Nat
  BY <1>4, EngineAssumptions, Engines!FloorBounds, Engines!CeilBounds, Engines!HalfUpBounds
<1>8. /\ m.station = Engines!halfUpMinor(S) /\ m.customer = Engines!floorMinor(C)
      /\ m.lower = Engines!ceilMinor(L) /\ m.reserved = Engines!floorMinor(K)
      /\ m.pool = m.station - m.customer
      /\ m.available = Engines!Larger(0, m.customer + m.lower - m.reserved)
  BY <1>3 DEF Engines!Money
<1>9. m.customer \in Nat /\ m.reserved \in Nat /\ m.lower \in Nat /\ m.station \in Nat
      /\ m.pool \in Int /\ m.available \in Nat
  BY <1>7, <1>8 DEF Engines!Larger
<1>10. m.customer <= m.station
  BY <1>4, <1>8, EngineAssumptions, Engines!PoolNotNegative
<1>11. m.station = Price(a.id)
  BY <1>5, <1>8, PriceIs
<1>12. m.reserved + m.available = m.customer + m.lower
  <2>1. m.reserved <= m.customer + m.lower
    BY <1>4, <1>8, EngineAssumptions, Engines!ReservationCovered
  <2>2. QED
    BY <2>1, <1>8, <1>9 DEF Engines!Larger
<1>13. m.reserved * Denominator <= K
  BY <1>4, <1>8, EngineAssumptions, Engines!FloorBounds
<1>14. QED
  BY <1>4, <1>6, <1>9, <1>10, <1>11, <1>12, <1>13 DEF m

-----------------------------------------------------------------------------
(* The posting of a purchase                                               *)

Line == [account : {"cash", "available", "reserved", "claim", "station"}, side : Sides, amount : Int]

\* No lines post nothing.
LEMMA NothingPosted ==
  ASSUME NEW account, NEW side
  PROVE  LineSum(<<>>, account, side) = 0
<1> DEFINE none == <<>>
           f == [n \in {m \in DOMAIN none : none[m].account = account /\ none[m].side = side} |->
                   none[n].amount]
<1>1. DOMAIN f = {}
  OBVIOUS
<1>2. Total(f) = 0
  BY <1>1, TotalEmpty
<1>3. QED
  BY <1>2, Zenon DEF LineSum

\* One more line adds its amount to its own side of its own account.
LEMMA LineAdds ==
  ASSUME NEW lines \in Seq(Line), NEW line \in Line, NEW account, NEW side
  PROVE  /\ Append(lines, line) \in Seq(Line)
         /\ LineSum(lines, account, side) \in Int
         /\ LineSum(Append(lines, line), account, side)
              = LineSum(lines, account, side)
                  + (IF line.account = account /\ line.side = side THEN line.amount ELSE 0)
<1> DEFINE more == Append(lines, line)
           On(l) == l.account = account /\ l.side = side
           f == [i \in {m \in DOMAIN lines : On(lines[m])} |-> lines[i].amount]
           e == [i \in {m \in DOMAIN more : On(more[m])} |-> more[i].amount]
<1>0. LineSum(lines, account, side) = Total(f) /\ LineSum(more, account, side) = Total(e)
  BY Zenon DEF LineSum
<1>1. PICK n \in Nat : Len(lines) = n /\ DOMAIN lines = 1 .. n
  OBVIOUS
<1>2. /\ more \in Seq(Line) /\ DOMAIN more = 1 .. n + 1
      /\ \A i \in 1 .. n : more[i] = lines[i]
      /\ more[n + 1] = line
  BY <1>1
<1>3. \A i \in 1 .. n : lines[i].amount \in Int
  <2>1. \A i \in 1 .. n : lines[i] \in Line
    BY <1>1
  <2>2. QED
    BY <2>1 DEF Line
<1>4. line.amount \in Int
  BY DEF Line
<1> HIDE DEF more, On
<1>5. DOMAIN f \subseteq 1 .. n /\ (\A i \in DOMAIN f : f[i] \in Int) /\ n + 1 \notin DOMAIN f
  BY <1>1, <1>3
<1>6. IsFiniteSet(DOMAIN f)
  <2>1. IsFiniteSet(1 .. n)
    BY <1>1, FS_Interval
  <2> HIDE DEF f
  <2>2. QED
    BY <2>1, <1>5, FS_Subset
<1>7. \A i : i \in 1 .. n + 1 <=> i \in 1 .. n \/ i = n + 1
  BY <1>1
<1>8. n + 1 \notin 1 .. n
  BY <1>1
<1>9. \A i \in DOMAIN f : i \in DOMAIN e /\ e[i] = f[i]
  BY <1>1, <1>2, <1>7
<1>10. CASE On(line)
  <2>1. DOMAIN e = DOMAIN f \cup {n + 1} /\ e[n + 1] = line.amount
    BY <1>1, <1>2, <1>7, <1>8, <1>10
  <2> HIDE DEF e, f
  <2>2. Total(f) \in Int
    BY <1>5, <1>6, TotalTakes
  <2> DEFINE v == line.amount
             k == n + 1
  <2>3. v \in Int /\ k \notin DOMAIN f /\ DOMAIN e = DOMAIN f \cup {k} /\ e[k] = v
    BY <2>1, <1>4, <1>5
  <2> HIDE DEF v, k
  <2>4. Total(e) = Total(f) + v
    BY <2>3, <1>5, <1>6, <1>9, TotalPut
  <2>5. QED
    BY <2>2, <2>4, <1>0, <1>2, <1>10 DEF more, v, On
<1>11. CASE ~On(line)
  <2>1. DOMAIN e = DOMAIN f
    BY <1>1, <1>2, <1>7, <1>8, <1>11
  <2>2. e = f
    BY <2>1, <1>9
  <2> HIDE DEF e, f
  <2>3. Total(e) = Total(f) + 0 /\ Total(f) \in Int
    BY <2>2, <1>5, <1>6, TotalTakes
  <2>4. QED
    BY <2>3, <1>0, <1>2, <1>11 DEF more, On
<1>12. QED
  BY <1>10, <1>11

\* A line pushed only if positive adds its positive part.
LEMMA PushAdds ==
  ASSUME NEW lines \in Seq(Line), NEW on \in {"available", "reserved", "claim", "station"},
         NEW s \in Sides, NEW amount \in Int, NEW account, NEW side
  PROVE  LET pushed == Settle!PushIfPositive(lines, on, s, amount) IN
         /\ pushed \in Seq(Line) /\ LineSum(lines, account, side) \in Int
         /\ LineSum(pushed, account, side)
              = LineSum(lines, account, side) + (IF on = account /\ s = side THEN Larger(0, amount) ELSE 0)
<1> DEFINE line == [account |-> on, side |-> s, amount |-> amount]
<1>1. line \in Line /\ line.account = on /\ line.side = s /\ line.amount = amount
  BY DEF Line
<1>2. Settle!PushIfPositive(lines, on, s, amount) = IF amount > 0 THEN Append(lines, line) ELSE lines
  BY DEF Settle!PushIfPositive
<1> HIDE DEF line
<1>3. /\ Append(lines, line) \in Seq(Line) /\ LineSum(lines, account, side) \in Int
      /\ LineSum(Append(lines, line), account, side)
           = LineSum(lines, account, side) + (IF on = account /\ s = side THEN amount ELSE 0)
  BY <1>1, LineAdds
<1>4. CASE amount > 0
  BY <1>2, <1>3, <1>4 DEF Larger
<1>5. CASE ~(amount > 0)
  BY <1>2, <1>3, <1>5 DEF Larger
<1>6. QED
  BY <1>4, <1>5

\* What a decision posts to the customer's accounts.
LEMMA PostingOn ==
  ASSUME NEW m, m.reserved \in Nat, m.available \in Nat, m.pool \in Int, m.station \in Int,
         m.lower \in Nat
  PROVE  LET lines == Settle!PostingLines(m) IN
         /\ LineSum(lines, "available", "DEBIT") = m.available
         /\ LineSum(lines, "available", "CREDIT") = m.lower
         /\ LineSum(lines, "reserved", "DEBIT") = m.reserved
         /\ LineSum(lines, "reserved", "CREDIT") = 0
         /\ LineSum(lines, "refund", "DEBIT") = 0 /\ LineSum(lines, "refund", "CREDIT") = 0
<1> DEFINE l0 == << >>
           l1 == Settle!PushIfPositive(l0, "reserved", "DEBIT", m.reserved)
           l2 == Settle!PushIfPositive(l1, "available", "DEBIT", m.available)
           l3 == Settle!PushIfPositive(l2, "claim", "DEBIT", m.pool)
           line == [account |-> "station", side |-> "CREDIT", amount |-> m.station]
           l4 == Append(l3, line)
           l5 == Settle!PushIfPositive(l4, "available", "CREDIT", m.lower)
           In(account, on, side, s, x) == IF on = account /\ s = side THEN x ELSE 0
<1>0. Settle!PostingLines(m) = l5
  BY Zenon DEF Settle!PostingLines
<1>1. l0 \in Seq(Line) /\ "DEBIT" \in Sides /\ "CREDIT" \in Sides
  BY DEF Sides
<1>2. \A account, side : LineSum(l0, account, side) = 0
  BY NothingPosted
<1>3. line \in Line /\ line.account = "station" /\ line.side = "CREDIT" /\ line.amount = m.station
  BY <1>1 DEF Line
<1>4. /\ Larger(0, m.reserved) = m.reserved /\ Larger(0, m.available) = m.available
      /\ Larger(0, m.lower) = m.lower /\ Larger(0, m.pool) \in Int
      /\ m.reserved \in Int /\ m.available \in Int /\ m.lower \in Int
  BY DEF Larger
<1> HIDE DEF l0
<1>5. l1 \in Seq(Line) /\ \A account, side :
        LineSum(l1, account, side) = 0 + In(account, "reserved", side, "DEBIT", m.reserved)
  BY <1>1, <1>2, <1>4, PushAdds
<1> HIDE DEF l1
<1>6. l2 \in Seq(Line) /\ \A account, side :
        LineSum(l2, account, side)
          = LineSum(l1, account, side) + In(account, "available", side, "DEBIT", m.available)
  BY <1>1, <1>4, <1>5, PushAdds
<1> HIDE DEF l2
<1>7. l3 \in Seq(Line) /\ \A account, side :
        LineSum(l3, account, side)
          = LineSum(l2, account, side) + In(account, "claim", side, "DEBIT", Larger(0, m.pool))
  BY <1>1, <1>6, PushAdds
<1> HIDE DEF l3, line
<1>8. l4 \in Seq(Line) /\ \A account, side :
        LineSum(l4, account, side)
          = LineSum(l3, account, side) + In(account, "station", side, "CREDIT", m.station)
  BY <1>3, <1>7, LineAdds
<1> HIDE DEF l4
<1>9. \A account, side :
        LineSum(l5, account, side)
          = LineSum(l4, account, side) + In(account, "available", side, "CREDIT", m.lower)
  BY <1>1, <1>4, <1>8, PushAdds
<1> HIDE DEF l5
<1>10. ASSUME NEW account \in OwnAccount, NEW side \in Sides
       PROVE  LineSum(l5, account, side)
                = ((((0 + In(account, "reserved", side, "DEBIT", m.reserved))
                    + In(account, "available", side, "DEBIT", m.available)) + 0) + 0)
                    + In(account, "available", side, "CREDIT", m.lower)
  <2>1. In(account, "claim", side, "DEBIT", Larger(0, m.pool)) = 0
        /\ In(account, "station", side, "CREDIT", m.station) = 0
    BY DEF OwnAccount
  <2> HIDE DEF In
  <2>2. QED
    BY <2>1, <1>5, <1>6, <1>7, <1>8, <1>9
<1>11. QED
  BY <1>0, <1>4, <1>10 DEF OwnAccount, Sides

\* A decision takes from the volume what its allocation drew.
LEMMA RedemptionsMove ==
  ASSUME NEW a, Splits(a), NEW e, e.movements = Settle!PositionRedemptions(AllocationEvidence(a))
  PROVE  Moved(e) = 0 - Total(a.lines) /\ Total(a.lines) \in Nat
<1> DEFINE D == {j \in PositionId : a.lines[j] > 0}
           el == [i \in D |-> [position |-> i, quantity |-> a.lines[i]]]
           own == {n \in DOMAIN e.movements : e.movements[n].position \in PositionId}
           f == [m \in own |-> Books!MovementEffect(e.movements[m])]
           g == [i \in PositionId |-> (0 - 1) * a.lines[i]]
<1>1. AllocationEvidence(a).lines = el
  BY DEF AllocationEvidence
<1>2. e.movements = [i \in DOMAIN el |-> [position |-> el[i].position, type |-> "REDEEM",
                                          quantity |-> el[i].quantity]]
  BY <1>1, Zenon DEF Settle!PositionRedemptions
<1>3. DOMAIN e.movements = D /\ \A i \in D : /\ e.movements[i].position = i /\ e.movements[i].type = "REDEEM"
                                           /\ e.movements[i].quantity = a.lines[i]
  BY <1>2
<1>4. a.lines \in [PositionId -> Nat]
  BY DEF Splits
<1>5. own = D
  BY <1>3
<1>6. ASSUME NEW i \in D
      PROVE  Books!MovementEffect(e.movements[i]) = (0 - 1) * a.lines[i]
  BY <1>3, <1>4 DEF Books!MovementEffect
<1>7. f = Restrict(g, D)
  <2>1. \A i \in D : Books!MovementEffect(e.movements[i]) = g[i]
    BY <1>6
  <2> HIDE DEF g, D, own
  <2>2. QED
    BY <1>5, <2>1, Zenon DEF Restrict
<1>8. /\ IsFiniteSet(DOMAIN g) /\ D \in SUBSET DOMAIN g
      /\ \A i \in DOMAIN g : g[i] \in Int
      /\ \A i \in DOMAIN g \ D : g[i] = 0
  BY <1>4, FinitePositions
<1>9. /\ IsFiniteSet(DOMAIN a.lines) /\ DOMAIN g = DOMAIN a.lines /\ 0 - 1 \in Int
      /\ \A i \in DOMAIN a.lines : a.lines[i] \in Nat /\ g[i] = (0 - 1) * a.lines[i]
  BY <1>4, FinitePositions
<1>10. Moved(e) = Total(f)
  BY Zenon DEF Moved
<1> HIDE DEF f, g, D, own
<1>11. Total(g) = Total(Restrict(g, D))
  BY <1>8, TotalWhere
<1>12. Total(a.lines) \in Nat
  BY <1>9, TotalNat
<1> DEFINE c == 0 - 1
<1>13. c \in Int /\ \A i \in DOMAIN a.lines : a.lines[i] \in Int /\ g[i] = c * a.lines[i]
  BY <1>9
<1> HIDE DEF c
<1>14. Total(g) = c * Total(a.lines)
  BY <1>9, <1>13, TotalTimes
<1>15. QED
  BY <1>7, <1>10, <1>11, <1>12, <1>14 DEF c

-----------------------------------------------------------------------------
(* Every step keeps the records                                            *)

\* A clearing of the whole price closes a hold that nothing was taken from; a reversal
\* closes any.
LEMMA HoldCloses ==
  ASSUME NEW p \in Purchase, NEW h \in Hold, h.amount = Price(p)
  PROVE  /\ h.cleared = 0 /\ h.released = 0 =>
              LET c == Card!Consumed(h, Price(p))
              IN c \in Hold /\ c.amount = h.amount /\ c.status = "CLEARED" /\ c.outstanding = 0
         /\ LET r == Card!Released(h)
            IN r \in Hold /\ r.amount = h.amount /\ r.status = "REVERSED" /\ r.outstanding = 0
<1>1. /\ h.amount = Price(p) /\ h.cleared \in Nat /\ h.released \in Nat /\ h.outstanding \in Nat
      /\ Price(p) \in Nat
  BY PriceNat DEF Hold
<1>2. ASSUME h.cleared = 0, h.released = 0
      PROVE  LET c == Card!Consumed(h, Price(p))
             IN c \in Hold /\ c.amount = h.amount /\ c.status = "CLEARED" /\ c.outstanding = 0
  <2> DEFINE left == h.amount - (h.cleared + Price(p)) - h.released
             spent == h.cleared + Price(p)
             c == Card!Consumed(h, Price(p))
  <2>1. left = 0 /\ spent \in Nat
    BY <1>1, <1>2
  <2> HIDE DEF left
  <2>2. c = [h EXCEPT !.cleared = spent, !.outstanding = 0, !.status = "CLEARED"]
    BY <2>1, Zenon DEF Card!Consumed, left
  <2> HIDE DEF spent, c
  <2>3. c \in Hold /\ c.amount = h.amount /\ c.status = "CLEARED" /\ c.outstanding = 0
    BY <2>1, <2>2 DEF Hold, Card!AuthStatus
  <2>4. QED
    BY <2>3 DEF c
<1>3. LET r == Card!Released(h)
      IN r \in Hold /\ r.amount = h.amount /\ r.status = "REVERSED" /\ r.outstanding = 0
  <2> DEFINE freed == h.released + h.outstanding
             r == Card!Released(h)
  <2>1. freed \in Nat
    BY <1>1
  <2>2. r = [h EXCEPT !.released = freed, !.outstanding = 0, !.status = "REVERSED"]
    BY Zenon DEF Card!Released
  <2> HIDE DEF freed, r
  <2>3. r \in Hold /\ r.amount = h.amount /\ r.status = "REVERSED" /\ r.outstanding = 0
    BY <2>1, <2>2 DEF Hold, Card!AuthStatus
  <2>4. QED
    BY <2>3 DEF r
<1>4. QED
  BY <1>2, <1>3

\* A step of the card keeps the card's records.
LEMMA CardRecords ==
  ASSUME CardsInv, NEW p \in Purchase, Authorize(p) \/ Clear(p) \/ Reverse(p)
  PROVE  CardsInv' /\ DOMAIN instructions \subseteq DOMAIN instructions'
<1> DEFINE hold == authorizations[p]
<1>1. CASE Authorize(p)
  <2> DEFINE ok == Card!Approves("card", Price(p), "usd", "fuel", QuotedValue, 1)
             new == [card |-> "card", amount |-> Price(p), currency |-> "usd", day |-> 1,
                     status |-> IF ok THEN "OPEN" ELSE "DECLINED",
                     cleared |-> 0, released |-> 0, outstanding |-> IF ok THEN Price(p) ELSE 0]
  <2>1. /\ p \notin DOMAIN authorizations /\ authorizations' = Put(authorizations, p, new)
        /\ instructions' = instructions /\ clearings' = clearings
    <3>1. Card!Authorize(p, p, "card", Price(p), "usd", "fuel", QuotedValue, 1)
      BY <1>1 DEF Authorize
    <3>2. UNCHANGED Card!clearVars
      BY <3>1, Zenon DEF Card!Authorize
    <3>3. p \notin DOMAIN authorizations
      BY <3>1, Zenon DEF Card!Authorize
    <3>4. authorizations' = Put(authorizations, p, new)
      BY <3>1, Zenon DEF Card!Authorize, Card!Put, Put
    <3>5. QED
      BY <3>2, <3>3, <3>4 DEF Card!clearVars
  <2>2. Price(p) \in Nat
    BY PriceNat
  <2>3. /\ new \in Hold /\ new.amount = Price(p)
        /\ new.status = "OPEN" => new.cleared = 0 /\ new.released = 0 /\ new.outstanding = new.amount
        /\ new.status # "OPEN" => new.outstanding = 0 /\ new.status # "PARTIALLY_CLEARED"
    BY <2>2 DEF Hold, Card!AuthStatus
  <2> HIDE DEF ok, new
  <2>4. /\ DOMAIN authorizations' = DOMAIN authorizations \cup {p}
        /\ authorizations' = [q \in DOMAIN authorizations' |-> authorizations'[q]]
        /\ authorizations'[p] = new
        /\ \A q \in DOMAIN authorizations : authorizations'[q] = authorizations[q]
    BY <2>1 DEF Put
  <2>5. IsFiniteSet(DOMAIN authorizations')
    BY <2>4, FS_AddElement DEF CardsInv
  <2>6. \A q \in DOMAIN authorizations' : IsHold(q)'
    <3>1. ASSUME NEW q \in DOMAIN authorizations
          PROVE  IsHold(q)'
      BY <2>4 DEF IsHold, CardsInv, Hold, Price, Math!halfUpMinor, Card!AuthStatus
    <3>2. IsHold(p)'
      BY <2>3, <2>4 DEF IsHold, Hold, Price, Math!halfUpMinor, Card!AuthStatus
    <3>3. QED
      BY <2>4, <3>1, <3>2
  <2>7. QED
    BY <2>1, <2>4, <2>5, <2>6 DEF CardsInv
<1>2. CASE Clear(p)
  <2>1. Card!Clear(p, p, p, Price(p), "usd")
    BY <1>2 DEF Clear
  <2>2. /\ p \notin DOMAIN clearings /\ DOMAIN clearings' = DOMAIN clearings \cup {p}
    BY <2>1 DEF Card!Clear, Card!Put
  <2>3. CASE authorizations' = authorizations /\ instructions' = instructions
    <3>1. \A q \in DOMAIN authorizations : IsHold(q)'
      BY <2>3 DEF IsHold, CardsInv, Hold, Price, Math!halfUpMinor, Card!AuthStatus
    <3>2. QED
      BY <2>2, <2>3, <3>1 DEF CardsInv, Price, Math!halfUpMinor
  <2>4. CASE /\ Card!Matches(p, Price(p), "usd")
             /\ authorizations' = [authorizations EXCEPT ![p] = Card!Consumed(@, Price(p))]
             /\ instructions' = Card!Put(instructions, p,
                  [auth |-> p, amount |-> Price(p), currency |-> "usd"])
    <3> DEFINE x == Card!Consumed(hold, Price(p))
    <3>1. p \in DOMAIN authorizations /\ hold.status = "OPEN"
      BY <2>4 DEF Card!Matches, Card!Live, CardsInv, IsHold
    <3>2. x \in Hold /\ x.amount = Price(p) /\ x.status = "CLEARED" /\ x.outstanding = 0
      <4>1. /\ hold \in Hold /\ hold.amount = Price(p) /\ hold.cleared = 0 /\ hold.released = 0
        BY <3>1 DEF CardsInv, IsHold
      <4> HIDE DEF hold
      <4>2. QED
        BY <4>1, HoldCloses
    <3> HIDE DEF x
    <3>3. /\ DOMAIN authorizations' = DOMAIN authorizations
          /\ authorizations' = [q \in DOMAIN authorizations' |-> authorizations'[q]]
          /\ authorizations'[p] = x
          /\ \A q \in DOMAIN authorizations : q # p => authorizations'[q] = authorizations[q]
      BY <2>4, <3>1 DEF x, CardsInv
    <3>4. \A q \in DOMAIN authorizations' : IsHold(q)'
      <4>1. ASSUME NEW q \in DOMAIN authorizations, q # p
            PROVE  IsHold(q)'
        BY <3>3, <4>1 DEF IsHold, CardsInv, Hold, Price, Math!halfUpMinor, Card!AuthStatus
      <4>2. IsHold(p)'
        BY <3>2, <3>3 DEF IsHold, Hold, Price, Math!halfUpMinor, Card!AuthStatus
      <4>3. QED
        BY <3>3, <4>1, <4>2
    <3>5. /\ DOMAIN instructions' = DOMAIN instructions \cup {p}
          /\ \A q \in DOMAIN instructions' : instructions'[q].amount = Price(q)
      BY <2>4 DEF Card!Put, CardsInv
    <3>6. IsFiniteSet(DOMAIN instructions') /\ IsFiniteSet(DOMAIN authorizations')
      BY <3>3, <3>5, FS_AddElement DEF CardsInv
    <3>7. QED
      BY <2>2, <3>3, <3>4, <3>5, <3>6 DEF CardsInv, Price, Math!halfUpMinor
  <2>5. QED
    BY <2>1, <2>3, <2>4, Zenon DEF Card!Clear
<1>3. CASE Reverse(p)
  <2> DEFINE x == Card!Released(hold)
  <2>1. Card!Reverse(p, p, p)
    BY <1>3 DEF Reverse
  <2>2. /\ p \in DOMAIN authorizations /\ hold.status \in Card!Live
        /\ authorizations' = [authorizations EXCEPT ![p] = x]
        /\ UNCHANGED Card!clearVars
    BY <2>1, Zenon DEF Card!Reverse, Card!Reversible
  <2>3. instructions' = instructions /\ clearings' = clearings
    BY <2>2 DEF Card!clearVars
  <2>4. x \in Hold /\ x.amount = Price(p) /\ x.status = "REVERSED" /\ x.outstanding = 0
    <3>1. hold \in Hold /\ hold.amount = Price(p)
      BY <2>2 DEF CardsInv, IsHold
    <3> HIDE DEF hold
    <3>2. QED
      BY <3>1, HoldCloses
  <2> HIDE DEF x
  <2>5. /\ DOMAIN authorizations' = DOMAIN authorizations
        /\ authorizations' = [q \in DOMAIN authorizations' |-> authorizations'[q]]
        /\ authorizations'[p] = x
        /\ \A q \in DOMAIN authorizations : q # p => authorizations'[q] = authorizations[q]
    BY <2>2 DEF CardsInv
  <2>6. \A q \in DOMAIN authorizations' : IsHold(q)'
    <3>1. ASSUME NEW q \in DOMAIN authorizations, q # p
          PROVE  IsHold(q)'
      BY <2>5, <3>1 DEF IsHold, CardsInv, Hold, Price, Math!halfUpMinor, Card!AuthStatus
    <3>2. IsHold(p)'
      BY <2>4, <2>5 DEF IsHold, Hold, Price, Math!halfUpMinor, Card!AuthStatus
    <3>3. QED
      BY <2>5, <3>1, <3>2
  <2>7. QED
    BY <2>3, <2>5, <2>6 DEF CardsInv, Price, Math!halfUpMinor
<1>4. QED
  BY <1>1, <1>2, <1>3

\* Card records stay as they are while nothing happens to the card.
LEMMA CardsStay == CardsInv /\ UNCHANGED cardVars => CardsInv'
<1> SUFFICES ASSUME CardsInv, UNCHANGED cardVars PROVE CardsInv'
  OBVIOUS
<1>1. authorizations' = authorizations /\ instructions' = instructions /\ clearings' = clearings
  BY DEF cardVars
<1>2. \A p \in DOMAIN authorizations : IsHold(p)'
  BY <1>1 DEF CardsInv, IsHold, Hold, Price, Math!halfUpMinor, Card!AuthStatus
<1>3. QED
  BY <1>1, <1>2 DEF CardsInv, Price, Math!halfUpMinor

\* The records of the other engines stay as they are while those they rest on only grow.
LEMMA AllocationsStay ==
  ASSUME AllocationsInv, UNCHANGED allocVars, DOMAIN instructions \subseteq DOMAIN instructions'
  PROVE  AllocationsInv'
<1>1. remaining' = remaining /\ allocations' = allocations /\ allocationKeys' = allocationKeys
  BY DEF allocVars
<1>2. UNCHANGED Engines!allocVars
  BY <1>1 DEF Engines!allocVars
<1>3. Engines!AllocInv'
  BY <1>2, EngineAssumptions, Engines!AllocStep DEF AllocationsInv
<1>4. \A n \in DOMAIN allocations : allocations[n].facts' = Match(allocations[n].id)'
  BY <1>1 DEF AllocationsInv, Match
<1>5. QED
  BY <1>1, <1>3, <1>4 DEF AllocationsInv

\* Decisions stand while neither allocations nor decisions are taken back.
LEMMA DecisionsStay ==
  ASSUME DecisionsInv, UNCHANGED decisions,
         \A m \in DOMAIN allocations : m \in DOMAIN allocations' /\ allocations'[m] = allocations[m]
  PROVE  DecisionsInv'
<1>1. \A n \in DOMAIN decisions : \E m \in DOMAIN allocations' : DecidedOn(decisions'[n], allocations'[m])
  BY DEF DecisionsInv
<1>2. QED
  BY <1>1 DEF DecisionsInv

\* Journals stand while no decision is taken back.
LEMMA JournalsStay ==
  ASSUME JournalsInv, UNCHANGED journals,
         \A n \in DOMAIN decisions : n \in DOMAIN decisions' /\ decisions'[n] = decisions[n]
  PROVE  JournalsInv'
<1>1. \A i \in DOMAIN journals : IsPosted(journals'[i])
  BY DEF JournalsInv
<1>2. QED
  BY <1>1 DEF JournalsInv

\* An allocation is recorded for a cleared purchase, once (allocatePurchase).
LEMMA AllocationRecords ==
  ASSUME CardsInv, AllocationsInv, NEW p \in Purchase, Allocate(p)
  PROVE  /\ AllocationsInv'
         /\ \A m \in DOMAIN allocations : m \in DOMAIN allocations' /\ allocations'[m] = allocations[m]
<1> DEFINE lines == [i \in PositionId |-> Alloc!Taken(i, Match(p))]
           new == [id |-> p, purchase |-> p, key |-> p, facts |-> Match(p), lines |-> lines,
                   unprotected |-> Match(p).quantity - Alloc!Total([i \in PositionId |-> lines[i]])]
<1>1. Alloc!AllocatePurchase(p, p, p, Match(p)) /\ p \in DOMAIN instructions /\ UNCHANGED cardVars
  BY DEF Allocate
<1>2. Engines!AllocInv'
  <2>1. Engines!AllocatePurchase(p, p, p, Match(p))
    BY <1>1, Allocating
  <2>2. Match(p) \in {Match(q) : q \in Purchase}
    OBVIOUS
  <2>3. QED
    BY <2>1, <2>2, EngineAssumptions, Engines!AllocateKeeps DEF AllocationsInv
<1>3. allocations' = Append(allocations, new)
  BY <1>1, Zenon DEF Alloc!AllocatePurchase
<1>4. \A m \in DOMAIN allocations : allocations[m].id # p
  BY <1>1, Zenon DEF Alloc!AllocatePurchase, Alloc!Unmatched
<1> HIDE DEF lines
<1>5. new.id = p /\ new.facts = Match(p)
  OBVIOUS
<1> HIDE DEF new
<1>6. PICK n \in Nat : DOMAIN allocations = 1 .. n /\ Len(allocations) = n
  BY DEF AllocationsInv, Engines!AllocInv
<1>7. /\ DOMAIN allocations' = 1 .. n + 1 /\ allocations'[n + 1] = new
      /\ \A m \in 1 .. n : allocations'[m] = allocations[m]
  <2> DEFINE A == {allocations[m] : m \in DOMAIN allocations} \cup {new}
  <2>1. allocations \in Seq({allocations[m] : m \in DOMAIN allocations})
    BY DEF AllocationsInv, Engines!AllocInv
  <2>2. allocations \in Seq(A)
    BY <2>1
  <2> HIDE DEF A
  <2>3. QED
    BY <1>3, <1>6, <2>2
<1>8. \A m : m \in 1 .. n + 1 <=> m \in 1 .. n \/ m = n + 1
  OBVIOUS
<1>9. instructions' = instructions
  BY <1>1 DEF cardVars
<1>10. \A m \in 1 .. n + 1 : /\ allocations'[m].id \in DOMAIN instructions'
                             /\ allocations'[m].facts = Match(allocations'[m].id)
  <2>1. \A m \in 1 .. n : /\ allocations[m].id \in DOMAIN instructions
                          /\ allocations[m].facts = Match(allocations[m].id)
    BY <1>6 DEF AllocationsInv
  <2>2. QED
    BY <1>1, <1>5, <1>7, <1>8, <1>9, <2>1
<1>11. \A m, k \in 1 .. n + 1 : allocations'[m].id = allocations'[k].id => m = k
  <2>1. \A m, k \in 1 .. n : allocations[m].id = allocations[k].id => m = k
    BY <1>6 DEF AllocationsInv
  <2>2. \A m \in 1 .. n : allocations[m].id # new.id
    BY <1>4, <1>5, <1>6
  <2>3. QED
    BY <1>7, <1>8, <2>1, <2>2
<1>12. AllocationsInv'
  BY <1>2, <1>7, <1>10, <1>11 DEF AllocationsInv
<1>13. \A m \in DOMAIN allocations : m \in DOMAIN allocations' /\ allocations'[m] = allocations[m]
  BY <1>6, <1>7, <1>8
<1>14. QED
  BY <1>12, <1>13

\* What is allocated is split by its allocation.
LEMMA AllocationSplits ==
  ASSUME CardsInv, AllocationsInv, NEW n \in DOMAIN allocations
  PROVE  Splits(allocations[n])
<1> DEFINE a == allocations[n]
<1>1. Engines!IsAllocation(n) /\ a.facts = Match(a.id) /\ a.id \in Purchase
  BY DEF AllocationsInv, Engines!AllocInv, CardsInv
<1>2. /\ a.lines \in [PositionId -> Nat] /\ a.unprotected \in Nat
      /\ a.unprotected = a.facts.quantity - Engines!Total(a.lines)
  BY <1>1 DEF Engines!IsAllocation
<1>3. a.facts.quantity = Bought[a.id].quantity /\ a.facts.quantity \in Nat
  BY <1>1, FlowAssumption DEF Match
<1>4. Engines!Total(a.lines) = Total(a.lines)
  BY TotalsAgree
<1>5. Total(a.lines) \in Nat
  BY <1>2, FinitePositions, TotalNat
<1>6. QED
  BY <1>1, <1>2, <1>3, <1>4, <1>5 DEF Splits

\* A decision is recorded for an allocation, once (settlePurchase).
LEMMA DecisionRecords ==
  ASSUME DecisionsInv, NEW m \in DOMAIN allocations, NEW attempt, SettleOne(m, attempt)
  PROVE  /\ DecisionsInv'
         /\ \A n \in DOMAIN decisions : n \in DOMAIN decisions' /\ decisions'[n] = decisions[n]
         /\ \E d : /\ decisions' = Append(decisions, d) /\ d.id = allocations[m].id
                   /\ \A n \in DOMAIN decisions : decisions[n].id # d.id
<1> DEFINE a == allocations[m]
           ev == AllocationEvidence(a)
           money == Settle!SettledMoney(ev, Bought[a.id].pump)
           d == [id |-> a.id, allocation |-> ev, pump |-> Bought[a.id].pump,
                 key |-> <<a.id, attempt>>, money |-> money, lines |-> Settle!PostingLines(money),
                 redemptions |-> Settle!PositionRedemptions(ev)]
<1>1. Settle!SettlePurchase(<<a.id, attempt>>, a.id, ev, Bought[a.id].pump)
  BY Zenon DEF SettleOne
<1>2. decisions' = Append(decisions, d)
  BY <1>1, Zenon DEF Settle!SettlePurchase
<1>3. \A n \in DOMAIN decisions : decisions[n].id # a.id
  BY <1>1, Zenon DEF Settle!SettlePurchase, Settle!Unsettled
<1>4. DecidedOn(d, a) /\ d.id = a.id
  BY DEF DecidedOn, MoneyOf
<1>5. allocations' = allocations
  BY DEF SettleOne, allocVars
<1> HIDE DEF d, money, ev
<1>6. PICK n \in Nat : DOMAIN decisions = 1 .. n /\ Len(decisions) = n
  BY DEF DecisionsInv
<1>7. /\ decisions' \in Seq({decisions[k] : k \in DOMAIN decisions} \cup {d})
      /\ DOMAIN decisions' = 1 .. n + 1 /\ decisions'[n + 1] = d /\ Len(decisions') = n + 1
      /\ \A k \in 1 .. n : decisions'[k] = decisions[k]
  <2> DEFINE A == {decisions[k] : k \in DOMAIN decisions} \cup {d}
  <2>1. decisions \in Seq({decisions[k] : k \in DOMAIN decisions})
    BY DEF DecisionsInv
  <2>2. decisions \in Seq(A)
    BY <2>1
  <2> HIDE DEF A
  <2>3. d \in A
    BY DEF A
  <2>4. QED
    BY <1>2, <1>6, <2>2, <2>3 DEF A
<1>8. \A k : k \in 1 .. n + 1 <=> k \in 1 .. n \/ k = n + 1
  OBVIOUS
<1>9. decisions' \in Seq({decisions'[k] : k \in DOMAIN decisions'})
  BY <1>7
<1>10. \A k \in 1 .. n + 1 : \E x \in DOMAIN allocations' : DecidedOn(decisions'[k], allocations'[x])
  <2>1. \A k \in 1 .. n : \E x \in DOMAIN allocations : DecidedOn(decisions[k], allocations[x])
    BY <1>6 DEF DecisionsInv
  <2>2. QED
    BY <1>4, <1>5, <1>7, <1>8, <2>1
<1>11. \A k, x \in 1 .. n + 1 : decisions'[k].id = decisions'[x].id => k = x
  <2>1. \A k, x \in 1 .. n : decisions[k].id = decisions[x].id => k = x
    BY <1>6 DEF DecisionsInv
  <2>2. \A k \in 1 .. n : decisions[k].id # d.id
    BY <1>3, <1>4, <1>6
  <2>3. QED
    BY <1>7, <1>8, <2>1, <2>2
<1>12. DecisionsInv'
  BY <1>7, <1>9, <1>10, <1>11 DEF DecisionsInv
<1>13. QED
  BY <1>2, <1>3, <1>4, <1>6, <1>7, <1>8, <1>12

\* A journal for an allocation: it debits what was decided and moves what was drawn.
JournalOf(j, a) ==
  LET m == MoneyOf(a)
      Posted(account, side) == LineSum(j.entry.lines, account, side) IN
  /\ j.id = a.id /\ j.correctionOf = "none"
  /\ Moved(j.entry) = 0 - Total(a.lines)
  /\ Posted("available", "DEBIT") = m.available /\ Posted("available", "CREDIT") = m.lower
  /\ Posted("reserved", "DEBIT") = m.reserved /\ Posted("reserved", "CREDIT") = 0
  /\ Posted("refund", "DEBIT") = 0 /\ Posted("refund", "CREDIT") = 0

\* What a posting appends.
LEMMA PostAppends ==
  ASSUME CardsInv, AllocationsInv, DecisionsInv, JournalsInv,
         NEW n \in DOMAIN decisions, NEW attempt, Post(n, attempt)
  PROVE  \E m, j :
           /\ m \in DOMAIN allocations
           /\ DecidedOn(decisions[n], allocations[m]) /\ Splits(allocations[m])
           /\ JournalOf(j, allocations[m]) /\ IsPosted(j) /\ journals' = Append(journals, j)
           /\ \A i \in DOMAIN journals : journals[i].id # j.id
<1> DEFINE d == decisions[n]
           e == [event |-> "POSTING", entity |-> "e", lines |-> d.lines, movements |-> d.redemptions]
           j == [id |-> d.id, key |-> <<d.id, attempt>>, entry |-> e, correctionOf |-> "none"]
<1>1. PICK m \in DOMAIN allocations : DecidedOn(d, allocations[m])
  BY DEF DecisionsInv
<1> DEFINE a == allocations[m]
           money == MoneyOf(a)
<1>2. Splits(a)
  BY AllocationSplits
<1>3. Books!PostJournal(<<d.id, attempt>>, d.id, e, "none")
  BY Zenon DEF Post
<1>4. journals' = Append(journals, j)
  BY <1>3, Zenon DEF Books!PostJournal, Books!Chained
<1>5. \A i \in DOMAIN journals : journals[i].id # d.id
  BY <1>3 DEF Books!PostJournal, Books!NewJournal, Books!JournalIds
<1>6. d.id = a.id /\ d.lines = Settle!PostingLines(money)
      /\ d.redemptions = Settle!PositionRedemptions(AllocationEvidence(a))
  BY <1>1 DEF DecidedOn
<1>7. j.id = d.id /\ j.correctionOf = "none" /\ j.entry.lines = d.lines /\ j.entry.movements = d.redemptions
  OBVIOUS
<1> HIDE DEF e, j, d, a
<1>8. Moved(j.entry) = 0 - Total(a.lines) /\ Total(a.lines) \in Nat
  BY <1>2, <1>6, <1>7, RedemptionsMove
<1> HIDE DEF money
<1>9. /\ money.reserved \in Nat /\ money.available \in Nat /\ money.pool \in Int
      /\ money.station \in Int /\ money.lower \in Nat
  BY <1>2, MoneyDecided DEF money
<1>10. /\ LineSum(j.entry.lines, "available", "DEBIT") = money.available
       /\ LineSum(j.entry.lines, "available", "CREDIT") = money.lower
       /\ LineSum(j.entry.lines, "reserved", "DEBIT") = money.reserved
       /\ LineSum(j.entry.lines, "reserved", "CREDIT") = 0
       /\ LineSum(j.entry.lines, "refund", "DEBIT") = 0 /\ LineSum(j.entry.lines, "refund", "CREDIT") = 0
  BY <1>6, <1>7, <1>9, PostingOn
<1>11. JournalOf(j, a)
  BY <1>6, <1>7, <1>8, <1>10 DEF JournalOf, money
<1>12. IsPosted(j)
  <2>1. \A x \in OwnAccount, s \in Sides : LineSum(j.entry.lines, x, s) \in Int
    BY <1>9, <1>10 DEF OwnAccount, Sides
  <2>2. QED
    BY <1>7, <1>8, <2>1 DEF IsPosted
<1>13. QED
  BY <1>1, <1>2, <1>4, <1>5, <1>7, <1>11, <1>12 DEF a, d

\* A journal is recorded for a decision, once (postJournal).
LEMMA JournalRecords ==
  ASSUME JournalsInv, NEW n \in DOMAIN decisions, UNCHANGED decisions, NEW j, IsPosted(j),
         j.id = decisions[n].id, journals' = Append(journals, j),
         \A i \in DOMAIN journals : journals[i].id # j.id
  PROVE  JournalsInv'
<1> DEFINE A == {journals[i] : i \in DOMAIN journals} \cup {j}
<1>1. PICK k \in Nat \ {0} : DOMAIN journals = 1 .. k /\ Len(journals) = k
  BY DEF JournalsInv
<1>2. /\ journals' \in Seq(A) /\ DOMAIN journals' = 1 .. k + 1 /\ journals'[k + 1] = j
      /\ Len(journals') = k + 1 /\ \A i \in 1 .. k : journals'[i] = journals[i]
  <2>1. journals \in Seq({journals[i] : i \in DOMAIN journals})
    BY DEF JournalsInv
  <2>2. journals \in Seq(A) /\ j \in A
    BY <2>1
  <2> HIDE DEF A
  <2>3. QED
    BY <1>1, <2>2
<1>3. \A i : i \in 1 .. k + 1 <=> i \in 1 .. k \/ i = k + 1
  OBVIOUS
<1>4. journals' \in Seq({journals'[i] : i \in DOMAIN journals'})
  BY <1>1, <1>2, <1>3
<1>5. journals'[1].id = opening /\ Len(journals') \in Nat \ {0}
  BY <1>1, <1>2 DEF JournalsInv
<1>6. \A i \in 1 .. k + 1 :
        /\ IsPosted(journals'[i])
        /\ i = 1 \/ \E x \in DOMAIN decisions' : decisions'[x].id = journals'[i].id
  <2>1. \A i \in 1 .. k : /\ IsPosted(journals[i])
                          /\ i = 1 \/ \E x \in DOMAIN decisions : decisions[x].id = journals[i].id
    BY <1>1 DEF JournalsInv
  <2>2. QED
    BY <1>2, <1>3, <2>1
<1>7. \A i, x \in 1 .. k + 1 : journals'[i].id = journals'[x].id => i = x
  <2>1. \A i, x \in 1 .. k : journals[i].id = journals[x].id => i = x
    BY <1>1 DEF JournalsInv
  <2>2. QED
    BY <1>1, <1>2, <1>3, <2>1
<1>8. QED
  BY <1>2, <1>4, <1>5, <1>6, <1>7 DEF JournalsInv

\* The records are kept by every step.
LEMMA RecordsStep == Recorded /\ [Next]_vars => Recorded'
<1> SUFFICES ASSUME Recorded, [Next]_vars PROVE Recorded'
  OBVIOUS
<1> USE DEF Recorded
<1>1. ASSUME NEW p \in Purchase, Authorize(p) \/ Clear(p) \/ Reverse(p) PROVE Recorded'
  <2>1. CardsInv' /\ DOMAIN instructions \subseteq DOMAIN instructions'
    BY <1>1, CardRecords
  <2>2. UNCHANGED <<allocVars, settleVars, bookVars>>
    BY <1>1 DEF Authorize, Clear, Reverse
  <2>3. allocations' = allocations /\ decisions' = decisions /\ journals' = journals
    BY <2>2 DEF allocVars, settleVars, bookVars
  <2>4. QED
    BY <2>1, <2>2, <2>3, AllocationsStay, DecisionsStay, JournalsStay
<1>2. ASSUME NEW p \in Purchase, Allocate(p) PROVE Recorded'
  <2>1. UNCHANGED <<cardVars, settleVars, bookVars>>
    BY <1>2 DEF Allocate
  <2>2. decisions' = decisions /\ journals' = journals
    BY <2>1 DEF settleVars, bookVars
  <2>3. CardsInv'
    BY <2>1, CardsStay
  <2>4. QED
    BY <1>2, <2>2, <2>3, AllocationRecords, DecisionsStay, JournalsStay
<1>3. ASSUME NEW n \in DOMAIN allocations, NEW attempt \in 1 .. MaxAttempts, SettleOne(n, attempt)
      PROVE  Recorded'
  <2>1. UNCHANGED <<cardVars, allocVars, bookVars>>
    BY <1>3 DEF SettleOne
  <2>2. journals' = journals /\ DOMAIN instructions' = DOMAIN instructions
    BY <2>1 DEF bookVars, cardVars
  <2>3. CardsInv'
    BY <2>1, CardsStay
  <2>4. QED
    BY <1>3, <2>1, <2>2, <2>3, AllocationsStay, DecisionRecords, JournalsStay
<1>4. ASSUME NEW n \in DOMAIN decisions, NEW attempt \in 1 .. MaxAttempts, Post(n, attempt)
      PROVE  Recorded'
  <2>1. UNCHANGED <<cardVars, allocVars, settleVars>>
    BY <1>4 DEF Post
  <2>2. decisions' = decisions /\ DOMAIN instructions' = DOMAIN instructions /\ allocations' = allocations
    BY <2>1 DEF settleVars, cardVars, allocVars
  <2>3. CardsInv'
    BY <2>1, CardsStay
  <2>4. PICK m, j :
          /\ m \in DOMAIN allocations
          /\ DecidedOn(decisions[n], allocations[m])
          /\ JournalOf(j, allocations[m]) /\ IsPosted(j) /\ journals' = Append(journals, j)
          /\ \A i \in DOMAIN journals : journals[i].id # j.id
    BY <1>4, PostAppends
  <2> m \in DOMAIN allocations
    BY <2>4
  <2>5. j.id = decisions[n].id
    BY <2>4 DEF DecidedOn, JournalOf
  <2>6. JournalsInv'
    BY <2>2, <2>4, <2>5, JournalRecords
  <2>7. QED
    BY <2>1, <2>2, <2>3, <2>6, AllocationsStay, DecisionsStay
<1>5. CASE UNCHANGED vars
  <2>1. UNCHANGED <<cardVars, allocVars, settleVars, bookVars>>
    BY <1>5 DEF vars
  <2>2. /\ DOMAIN instructions' = DOMAIN instructions /\ allocations' = allocations
        /\ decisions' = decisions /\ journals' = journals
    BY <2>1 DEF cardVars, allocVars, settleVars, bookVars
  <2>3. QED
    BY <2>1, <2>2, CardsStay, AllocationsStay, DecisionsStay, JournalsStay
<1>6. QED
  BY <1>1, <1>2, <1>3, <1>4, <1>5 DEF Next

-----------------------------------------------------------------------------
(* How the engines' sums hang together                                     *)

\* What is left of the volume and what was drawn for purchases not posted yet, weighed.
Unposted == {n \in DOMAIN allocations : allocations[n].id \notin PostedPurchases}
Pending(w) == [n \in Unposted |-> Weighted(w, allocations[n].lines)]
Spread(w) == Weighted(w, remaining) + Total(Pending(w))

\* The money on hold, on its way to the ledger, and taken by it.
Outstanding == [p \in DOMAIN authorizations |-> authorizations[p].outstanding]
Flying == [p \in InFlight |-> instructions[p].amount]
PostedDecisions == {m \in DOMAIN decisions : decisions[m].id \in PostedPurchases}
Charged == [n \in PostedDecisions |-> decisions[n].money.customer]

\* The available balance covers what is on hold and in flight, the reserved balance the
\* strike value of the volume that is not posted yet.
Sums ==
  /\ Volume = Spread(One)
  /\ Balance("available") + Balance("reserved") + Balance("refund") = Funded - Total(Charged)
  /\ Balance("refund") = 0
  /\ Total(Outstanding) + Total(Flying) <= Balance("available")
  /\ Spread(Strike) <= Denominator * Balance("reserved")

Weights == {One, Strike}

\* Volumes weigh a natural number.
LEMMA WeightNat ==
  ASSUME NEW w \in Weights, NEW q \in [PositionId -> Nat]
  PROVE  Weighted(w, q) \in Nat
<1> DEFINE f == [i \in PositionId |-> w[i] * q[i]]
<1>1. \A i \in PositionId : w[i] \in Nat
  BY FlowAssumption DEF Weights, One, Strike
<1>2. IsFiniteSet(DOMAIN f) /\ \A i \in DOMAIN f : f[i] \in Nat
  BY <1>1, FinitePositions
<1>3. Weighted(w, q) = Total(f)
  BY Zenon DEF Weighted
<1> HIDE DEF f
<1>4. QED
  BY <1>2, <1>3, TotalNat

\* A purchase is posted for a decision, which is made on an allocation, for an instruction.
LEMMA PostedDecided ==
  ASSUME Recorded, NEW p \in PostedPurchases
  PROVE  /\ \E n \in DOMAIN decisions : decisions[n].id = p
         /\ \E m \in DOMAIN allocations : allocations[m].id = p
         /\ p \in DOMAIN instructions
<1>1. PICK i \in DOMAIN journals : journals[i].id = p /\ i # 1
  BY DEF PostedPurchases, Recorded, JournalsInv
<1>2. PICK n \in DOMAIN decisions : decisions[n].id = p
  BY <1>1 DEF Recorded, JournalsInv
<1>3. PICK m \in DOMAIN allocations : allocations[m].id = p
  BY <1>2 DEF Recorded, DecisionsInv, DecidedOn
<1>4. QED
  BY <1>2, <1>3 DEF Recorded, AllocationsInv

\* All of these are finite sums of natural numbers.
LEMMA Measured ==
  ASSUME Recorded
  PROVE  /\ \A w \in Weights :
              /\ IsFiniteSet(DOMAIN Pending(w)) /\ \A n \in DOMAIN Pending(w) : Pending(w)[n] \in Nat
              /\ Weighted(w, remaining) \in Nat /\ Total(Pending(w)) \in Nat /\ Spread(w) \in Nat
         /\ IsFiniteSet(DOMAIN Outstanding) /\ \A p \in DOMAIN Outstanding : Outstanding[p] \in Nat
         /\ IsFiniteSet(DOMAIN Flying) /\ \A p \in DOMAIN Flying : Flying[p] \in Nat
         /\ IsFiniteSet(DOMAIN Charged) /\ \A n \in DOMAIN Charged : Charged[n] \in Nat
         /\ Total(Outstanding) \in Nat /\ Total(Flying) \in Nat /\ Total(Charged) \in Nat
<1> USE DEF Recorded
<1>1. ASSUME NEW w \in Weights
      PROVE  /\ IsFiniteSet(DOMAIN Pending(w)) /\ \A n \in DOMAIN Pending(w) : Pending(w)[n] \in Nat
             /\ Weighted(w, remaining) \in Nat /\ Total(Pending(w)) \in Nat /\ Spread(w) \in Nat
  <2>1. PICK k \in Nat : DOMAIN allocations = 1 .. k
    BY DEF AllocationsInv, Engines!AllocInv
  <2>2. IsFiniteSet(1 .. k)
    BY <2>1, FS_Interval
  <2>3. IsFiniteSet(Unposted)
    BY <2>1, <2>2, FS_Subset DEF Unposted
  <2>4. \A n \in Unposted : Weighted(w, allocations[n].lines) \in Nat
    BY AllocationSplits, WeightNat DEF Unposted, Splits
  <2>5. DOMAIN Pending(w) = Unposted /\ \A n \in Unposted : Pending(w)[n] = Weighted(w, allocations[n].lines)
    BY DEF Pending
  <2>6. Weighted(w, remaining) \in Nat
    BY WeightNat DEF AllocationsInv, Engines!AllocInv
  <2>7. Total(Pending(w)) \in Nat
    BY <2>3, <2>4, <2>5, TotalNat
  <2>8. QED
    BY <2>3, <2>4, <2>5, <2>6, <2>7 DEF Spread
<1>2. IsFiniteSet(DOMAIN Outstanding) /\ \A p \in DOMAIN Outstanding : Outstanding[p] \in Nat
  BY DEF Outstanding, CardsInv, IsHold, Hold
<1>3. IsFiniteSet(DOMAIN Flying) /\ \A p \in DOMAIN Flying : Flying[p] \in Nat
  <2>1. InFlight \in SUBSET DOMAIN instructions /\ IsFiniteSet(DOMAIN instructions)
    BY DEF InFlight, CardsInv
  <2>2. IsFiniteSet(InFlight)
    BY <2>1, FS_Subset
  <2>3. \A p \in InFlight : instructions[p].amount \in Nat
    BY <2>1, PriceNat DEF CardsInv
  <2>4. QED
    BY <2>2, <2>3 DEF Flying
<1>4. IsFiniteSet(DOMAIN Charged) /\ \A n \in DOMAIN Charged : Charged[n] \in Nat
  <2>1. PICK k \in Nat : DOMAIN decisions = 1 .. k
    BY DEF DecisionsInv
  <2>2. IsFiniteSet(1 .. k)
    BY <2>1, FS_Interval
  <2>3. IsFiniteSet(PostedDecisions)
    BY <2>1, <2>2, FS_Subset DEF PostedDecisions
  <2>4. \A n \in DOMAIN decisions : decisions[n].money.customer \in Nat
    BY AllocationSplits, MoneyDecided DEF DecisionsInv, DecidedOn
  <2>5. QED
    BY <2>3, <2>4 DEF Charged, PostedDecisions
<1>5. Total(Outstanding) \in Nat /\ Total(Flying) \in Nat /\ Total(Charged) \in Nat
  BY <1>2, <1>3, <1>4, TotalNat
<1>6. QED
  BY <1>1, <1>2, <1>3, <1>4, <1>5

\* Balances are integers.
LEMMA BalancesInt ==
  ASSUME JournalsInv
  PROVE  Volume \in Int /\ \A a \in OwnAccount : Balance(a) \in Int
<1>1. PICK n \in Nat : DOMAIN journals = 1 .. n
  BY DEF JournalsInv
<1>2. IsFiniteSet(1 .. n)
  BY <1>1, FS_Interval
<1>3. Volume \in Int
  <2> DEFINE f == [i \in DOMAIN journals |-> Moved(journals[i].entry)]
  <2>1. IsFiniteSet(DOMAIN f) /\ \A i \in DOMAIN f : f[i] \in Int
    BY <1>1, <1>2 DEF JournalsInv, IsPosted
  <2>2. Volume = Total(f)
    BY Zenon DEF Volume
  <2> HIDE DEF f
  <2>3. QED
    BY <2>1, <2>2, TotalTakes
<1>4. ASSUME NEW a \in OwnAccount, NEW s \in Sides
      PROVE  Sum(a, s) \in Int
  <2> DEFINE f == [i \in DOMAIN journals |-> LineSum(journals[i].entry.lines, a, s)]
  <2>1. IsFiniteSet(DOMAIN f) /\ \A i \in DOMAIN f : f[i] \in Int
    BY <1>1, <1>2 DEF JournalsInv, IsPosted
  <2>2. Sum(a, s) = Total(f)
    BY Zenon DEF Sum
  <2> HIDE DEF f
  <2>3. QED
    BY <2>1, <2>2, TotalTakes
<1>5. \A a \in OwnAccount : Balance(a) \in Int
  BY <1>4 DEF Balance, Sides
<1>6. QED
  BY <1>3, <1>5

\* What no step of an engine touches stays.
LEMMA BalancesStay ==
  ASSUME UNCHANGED journals
  PROVE  /\ Volume' = Volume /\ PostedPurchases' = PostedPurchases
         /\ \A a \in OwnAccount : Balance(a)' = Balance(a)
<1>1. Volume' = Volume
  BY Zenon DEF Volume, Moved, Books!MovementEffect
<1>2. \A a : Balance(a)' = Balance(a)
  BY Zenon DEF Balance, Sum, LineSum
<1>3. PostedPurchases' = PostedPurchases
  BY Zenon DEF PostedPurchases
<1>4. QED
  BY <1>1, <1>2, <1>3

\* Volume is spread as before while nothing is drawn or posted.
LEMMA SpreadStays ==
  ASSUME UNCHANGED <<remaining, allocations, journals>>
  PROVE  Spread(One)' = Spread(One) /\ Spread(Strike)' = Spread(Strike)
<1>1. PostedPurchases' = PostedPurchases
  BY BalancesStay
<1>2. Spread(One)' = Spread(One)
  BY <1>1, Zenon DEF Spread, Pending, Unposted, Weighted, One
<1>3. Spread(Strike)' = Spread(Strike)
  BY <1>1, Zenon DEF Spread, Pending, Unposted, Weighted, Strike
<1>4. QED
  BY <1>2, <1>3

\* Holds and clearings in flight are as before while the card and the ledger are.
LEMMA HoldsStay ==
  ASSUME UNCHANGED <<authorizations, instructions, journals>>
  PROVE  Total(Outstanding)' = Total(Outstanding) /\ Total(Flying)' = Total(Flying)
<1>1. PostedPurchases' = PostedPurchases
  BY BalancesStay
<1>2. Outstanding' = Outstanding
  BY Zenon DEF Outstanding
<1>3. Flying' = Flying
  BY <1>1, Zenon DEF Flying, InFlight
<1>4. QED
  BY <1>2, <1>3

\* The customer has been charged as much as before while nothing is decided or posted.
LEMMA ChargedStays ==
  ASSUME UNCHANGED <<decisions, journals>>
  PROVE  Total(Charged)' = Total(Charged)
<1>1. PostedPurchases' = PostedPurchases
  BY BalancesStay
<1>2. Charged' = Charged
  BY <1>1, Zenon DEF Charged, PostedDecisions
<1>3. QED
  BY <1>2

\* A hold and a clearing: what is on hold and in flight stays within what is available.
LEMMA HoldsWithin ==
  ASSUME Recorded, Sums, NEW p \in Purchase, Authorize(p) \/ Clear(p) \/ Reverse(p)
  PROVE  Total(Outstanding)' + Total(Flying)' <= Balance("available")
<1> DEFINE b == Balance("available")
           o == Total(Outstanding)
           y == Total(Flying)
<1>1. b \in Int /\ o \in Nat /\ y \in Nat /\ o + y <= b
  BY Measured, BalancesInt DEF Sums, Recorded, OwnAccount
<1>2. UNCHANGED <<allocVars, settleVars, bookVars>>
  BY DEF Authorize, Clear, Reverse
<1>3. journals' = journals /\ PostedPurchases' = PostedPurchases
  BY <1>2, BalancesStay DEF bookVars
<1>4. /\ IsFiniteSet(DOMAIN Outstanding) /\ (\A q \in DOMAIN Outstanding : Outstanding[q] \in Int)
      /\ IsFiniteSet(DOMAIN Flying) /\ \A q \in DOMAIN Flying : Flying[q] \in Int
  BY Measured
<1>5. Price(p) \in Nat \ {0}
  BY PriceNat
<1> DEFINE price == Price(p)
<1>6. CASE Authorize(p)
  <2> DEFINE ok == Card!Approves("card", Price(p), "usd", "fuel", QuotedValue, 1)
             v == IF ok THEN Price(p) ELSE 0
             e == Outstanding'
  <2>1. Card!Authorize(p, p, "card", Price(p), "usd", "fuel", QuotedValue, 1)
    BY <1>6 DEF Authorize
  <2>2. /\ p \notin DOMAIN authorizations /\ UNCHANGED Card!clearVars
        /\ authorizations' = Card!Put(authorizations, p,
             [card |-> "card", amount |-> Price(p), currency |-> "usd", day |-> 1,
              status |-> IF ok THEN "OPEN" ELSE "DECLINED",
              cleared |-> 0, released |-> 0, outstanding |-> v])
    BY <2>1, Zenon DEF Card!Authorize
  <2> HIDE DEF ok
  <2>3. /\ DOMAIN e = DOMAIN Outstanding \cup {p} /\ p \notin DOMAIN Outstanding /\ e[p] = v
        /\ \A q \in DOMAIN Outstanding : e[q] = Outstanding[q]
    BY <2>2 DEF Outstanding, Card!Put
  <2>4. v \in Int
    BY <1>5
  <2> HIDE DEF e, v
  <2>5. Total(e) = o + v
    BY <2>3, <2>4, <1>4, TotalPut
  <2>6. Total(Flying)' = y
    <3>1. instructions' = instructions
      BY <2>2 DEF Card!clearVars
    <3>2. Flying' = Flying
      BY <1>3, <3>1, Zenon DEF Flying, InFlight
    <3>3. QED
      BY <3>2
  <2>7. o + v + y <= b
    <3>1. CASE ok
      <4>1. Card!Reserved("card") + Price(p) <= QuotedValue
        BY <3>1 DEF ok, Card!Approves
      <4>2. Card!Reserved("card") = o
        <5> DEFINE A == Card!ApprovedOn("card")
                   f == [a \in A |-> authorizations[a].outstanding]
        <5>1. A \in SUBSET DOMAIN Outstanding
          BY DEF Card!ApprovedOn, Outstanding
        <5>2. \A q \in DOMAIN Outstanding \ A : Outstanding[q] = 0
          BY DEF Card!ApprovedOn, Outstanding, Recorded, CardsInv, IsHold, Hold
        <5>3. f = Restrict(Outstanding, A)
          <6>1. \A q \in A : Outstanding[q] = authorizations[q].outstanding
            BY <5>1 DEF Outstanding
          <6> HIDE DEF A
          <6>2. QED
            BY <6>1, Zenon DEF Restrict
        <5>4. Card!Reserved("card") = Total(f)
          BY TotalsAgree, Zenon DEF Card!Reserved
        <5> HIDE DEF A, f
        <5>5. QED
          BY <5>1, <5>2, <5>3, <5>4, <1>4, TotalWhere
      <4>3. QuotedValue = Larger(0, b - y)
        <5>1. Books!AvailableMinor = b
          BY BalancesAre
        <5>2. QuotedValue = Larger(0, Books!AvailableMinor - Total(Flying))
          BY Zenon DEF QuotedValue, Flying
        <5>3. QED
          BY <5>1, <5>2
      <4> HIDE DEF o, y, b
      <4>4. o + price <= Larger(0, b - y) /\ price \in Nat \ {0}
        BY <4>1, <4>2, <4>3, <1>5
      <4> HIDE DEF price
      <4>5. o + price + y <= b
        BY <4>4, <1>1 DEF Larger
      <4>6. QED
        BY <3>1, <4>5 DEF v, price
    <3>2. CASE ~ok
      <4>1. v = 0
        BY <3>2 DEF v
      <4> HIDE DEF o, y, b
      <4>2. QED
        BY <1>1, <4>1
    <3>3. QED
      BY <3>1, <3>2
  <2> HIDE DEF o, y, b
  <2>8. Total(e) + y <= b
    BY <2>5, <2>7, <1>1, <2>4
  <2>9. QED
    BY <2>6, <2>8 DEF e, b
<1>7. CASE Clear(p)
  <2>1. Card!Clear(p, p, p, Price(p), "usd") /\ p \notin DOMAIN clearings
    BY <1>7 DEF Clear, Card!Clear
  <2>2. CASE authorizations' = authorizations /\ instructions' = instructions
    <3>1. Total(Outstanding)' = o /\ Total(Flying)' = y
      BY <1>3, <2>2, HoldsStay
    <3>2. QED
      BY <1>1, <3>1
  <2>3. CASE /\ Card!Matches(p, Price(p), "usd")
             /\ authorizations' = [authorizations EXCEPT ![p] = Card!Consumed(@, Price(p))]
             /\ instructions' = Card!Put(instructions, p,
                  [auth |-> p, amount |-> Price(p), currency |-> "usd"])
    <3> DEFINE hold == authorizations[p]
               x == Card!Consumed(hold, Price(p))
               e == Outstanding'
               g == Flying'
    <3>1. p \in DOMAIN authorizations /\ hold.status = "OPEN"
      BY <2>3 DEF Card!Matches, Card!Live, Recorded, CardsInv, IsHold
    <3>2. /\ hold \in Hold /\ hold.amount = Price(p) /\ hold.cleared = 0 /\ hold.released = 0
          /\ hold.outstanding = Price(p)
      BY <3>1 DEF Recorded, CardsInv, IsHold
    <3> HIDE DEF hold
    <3>3. x.outstanding = 0
      BY <3>2, HoldCloses
    <3> HIDE DEF x
    <3>4. /\ DOMAIN e = DOMAIN Outstanding /\ p \in DOMAIN Outstanding /\ e[p] = 0
          /\ Outstanding[p] = Price(p)
          /\ \A q \in DOMAIN Outstanding : q # p => e[q] = Outstanding[q]
      BY <2>3, <3>1, <3>2, <3>3 DEF Outstanding, x, hold
    <3>5. p \notin DOMAIN instructions /\ p \notin PostedPurchases
      BY <2>1, PostedDecided DEF Recorded, CardsInv
    <3>6. /\ DOMAIN g = DOMAIN Flying \cup {p} /\ p \notin DOMAIN Flying /\ g[p] = Price(p)
          /\ \A q \in DOMAIN Flying : g[q] = Flying[q]
      BY <2>3, <3>5, <1>3 DEF Flying, InFlight, Card!Put
    <3> HIDE DEF e, g
    <3>7. Total(e) = o - Price(p) + 0
      <4>1. e[p] \in Int
        BY <3>4
      <4>2. Total(e) = Total(Outstanding) - Outstanding[p] + e[p]
        BY <3>4, <4>1, <1>4, TotalReplace
      <4>3. QED
        BY <3>4, <4>2
    <3>8. Total(g) = y + Price(p)
      <4>1. price \in Int /\ g[p] = price
        BY <3>6, <1>5
      <4> HIDE DEF price
      <4>2. Total(g) = Total(Flying) + price
        BY <3>6, <4>1, <1>4, TotalPut
      <4>3. QED
        BY <4>2 DEF price
    <3> HIDE DEF o, y, b
    <3>9. Total(e) + Total(g) <= b
      BY <3>7, <3>8, <1>1, <1>5
    <3>10. QED
      BY <3>9 DEF e, g, b
  <2>4. QED
    BY <2>1, <2>2, <2>3, Zenon DEF Card!Clear
<1>8. CASE Reverse(p)
  <2> DEFINE hold == authorizations[p]
             x == Card!Released(hold)
             e == Outstanding'
  <2>1. /\ p \in DOMAIN authorizations
        /\ authorizations' = [authorizations EXCEPT ![p] = x]
        /\ UNCHANGED Card!clearVars
    BY <1>8, Zenon DEF Reverse, Card!Reverse, Card!Reversible
  <2>2. hold \in Hold /\ hold.amount = Price(p) /\ hold.outstanding \in Nat
    BY <2>1 DEF Recorded, CardsInv, IsHold, Hold
  <2> HIDE DEF hold
  <2>3. x.outstanding = 0
    BY <2>2, HoldCloses
  <2> HIDE DEF x
  <2>4. /\ DOMAIN e = DOMAIN Outstanding /\ p \in DOMAIN Outstanding /\ e[p] = 0
        /\ Outstanding[p] \in Nat
        /\ \A q \in DOMAIN Outstanding : q # p => e[q] = Outstanding[q]
    BY <2>1, <2>2, <2>3 DEF Outstanding, x, hold
  <2>5. Flying' = Flying
    <3>1. instructions' = instructions
      BY <2>1 DEF Card!clearVars
    <3>2. QED
      BY <1>3, <3>1, Zenon DEF Flying, InFlight
  <2> DEFINE z == Outstanding[p]
  <2> HIDE DEF e
  <2>6. Total(e) = o - z + 0
    <3>1. e[p] \in Int
      BY <2>4
    <3>2. Total(e) = Total(Outstanding) - Outstanding[p] + e[p]
      BY <2>4, <3>1, <1>4, TotalReplace
    <3>3. QED
      BY <2>4, <3>2
  <2>7. z \in Nat
    BY <2>4
  <2> HIDE DEF o, y, b, z
  <2>8. Total(e) + y <= b
    BY <2>6, <2>7, <1>1
  <2>9. QED
    BY <2>5, <2>8 DEF e, y, b
<1>9. QED
  BY <1>6, <1>7, <1>8

\* Drawing volume for a purchase only moves it from what is left to what is not posted.
LEMMA SpreadOnAllocate ==
  ASSUME Recorded, NEW p \in Purchase, Allocate(p), NEW w \in Weights
  PROVE  Spread(w)' = Spread(w)
<1> DEFINE lines == [i \in PositionId |-> Alloc!Taken(i, Match(p))]
           r == [i \in PositionId |-> w[i] * remaining[i]]
           r2 == [i \in PositionId |-> w[i] * remaining'[i]]
           l == [i \in PositionId |-> w[i] * lines[i]]
           g == Pending(w)'
<1>1. Alloc!AllocatePurchase(p, p, p, Match(p)) /\ UNCHANGED <<cardVars, settleVars, bookVars>>
  BY DEF Allocate
<1>2. PICK n \in Nat : DOMAIN allocations = 1 .. n /\ Len(allocations) = n
  BY DEF Recorded, AllocationsInv, Engines!AllocInv
<1>3. /\ DOMAIN allocations' = 1 .. n + 1 /\ allocations'[n + 1].id = p
      /\ allocations'[n + 1].lines = lines
      /\ \A m \in 1 .. n : allocations'[m] = allocations[m] /\ allocations[m].id # p
  <2> DEFINE new == [id |-> p, purchase |-> p, key |-> p, facts |-> Match(p), lines |-> lines,
                   unprotected |-> Match(p).quantity - Alloc!Total([i \in PositionId |-> lines[i]])]
             A == {allocations[m] : m \in DOMAIN allocations} \cup {new}
  <2>1. allocations' = Append(allocations, new)
    BY <1>1, Zenon DEF Alloc!AllocatePurchase
  <2>2. \A m \in DOMAIN allocations : allocations[m].id # p
    BY <1>1, Zenon DEF Alloc!AllocatePurchase, Alloc!Unmatched
  <2>3. new.id = p /\ new.lines = lines
    OBVIOUS
  <2> HIDE DEF new
  <2>4. allocations \in Seq({allocations[m] : m \in DOMAIN allocations})
    BY DEF Recorded, AllocationsInv, Engines!AllocInv
  <2>5. allocations \in Seq(A)
    BY <2>4
  <2> HIDE DEF A, lines
  <2>6. DOMAIN allocations' = 1 .. n + 1 /\ allocations'[n + 1] = new
        /\ \A m \in 1 .. n : allocations'[m] = allocations[m]
    BY <1>2, <2>1, <2>5
  <2>7. QED
    BY <1>2, <2>2, <2>3, <2>6
<1>4. remaining' = [i \in PositionId |-> remaining[i] - lines[i]]
  BY <1>1, Zenon DEF Alloc!AllocatePurchase, Alloc!AfterDrawing
<1>5. remaining \in [PositionId -> Nat] /\ lines \in [PositionId -> Nat]
  <2>1. remaining \in [PositionId -> Nat] /\ Match(p) \in {Match(q) : q \in Purchase}
    BY DEF Recorded, AllocationsInv, Engines!AllocInv
  <2>2. \A i \in PositionId : Engines!Taken(i, Match(p)) \in Nat
    BY <2>1, EngineAssumptions, Engines!TakenBounded
  <2>3. \A i \in PositionId : Alloc!Taken(i, Match(p)) = Engines!Taken(i, Match(p))
    BY Zenon DEF Alloc!Taken, Engines!Taken, Alloc!Eligible, Engines!Eligible, Alloc!Covers,
         Engines!Covers, Alloc!Before, Engines!Before, Alloc!Larger, Engines!Larger, Alloc!Smaller,
         Engines!Smaller, Alloc!Total, Engines!Total, Alloc!MapThenSumSet, Engines!MapThenSumSet,
         Alloc!MapThenFoldSet, Engines!MapThenFoldSet
  <2>4. QED
    BY <2>1, <2>2, <2>3
<1> HIDE DEF lines
<1>6. /\ DOMAIN r = PositionId /\ DOMAIN r2 = PositionId /\ DOMAIN l = PositionId
      /\ \A i \in PositionId : /\ r2[i] \in Int /\ l[i] \in Int /\ r[i] = r2[i] + l[i]
  <2>1. ASSUME NEW i \in PositionId
        PROVE  r2[i] \in Int /\ l[i] \in Int /\ r[i] = r2[i] + l[i]
    <3> DEFINE a == w[i]
               x == remaining[i]
               d == lines[i]
    <3>1. a \in Nat /\ x \in Nat /\ d \in Nat
      BY <1>5, FlowAssumption DEF Weights, One, Strike
    <3>2. r[i] = a * x /\ r2[i] = a * (x - d) /\ l[i] = a * d
      BY <1>4
    <3> HIDE DEF a, x, d, r, r2, l
    <3>3. a * x = a * (x - d) + a * d /\ a * (x - d) \in Int /\ a * d \in Int
      BY <3>1
    <3>4. QED
      BY <3>2, <3>3
  <2>2. QED
    BY <2>1
<1>7. /\ Weighted(w, remaining) = Total(r) /\ Weighted(w, remaining)' = Total(r2)
      /\ Weighted(w, lines) = Total(l)
  <2>1. Weighted(w, remaining)' = Weighted(w, remaining')
    BY Zenon DEF Weighted
  <2>2. QED
    BY <2>1, Zenon DEF Weighted
<1> HIDE DEF r, r2, l
<1>8. Total(r) = Total(r2) + Total(l) /\ Total(r2) \in Int /\ Total(l) \in Int
  BY <1>6, FinitePositions, TotalPlus, TotalTakes
<1>9. PostedPurchases' = PostedPurchases /\ p \notin PostedPurchases
  <2>1. journals' = journals
    BY <1>1 DEF bookVars
  <2>2. p \notin PostedPurchases
    BY <1>2, <1>3, PostedDecided
  <2>3. QED
    BY <2>1, <2>2, BalancesStay
<1>10. Unposted' = Unposted \cup {n + 1} /\ n + 1 \notin Unposted /\ Unposted \subseteq 1 .. n
  <2>1. \A m : m \in 1 .. n + 1 <=> m \in 1 .. n \/ m = n + 1
    OBVIOUS
  <2>2. n + 1 \notin 1 .. n
    OBVIOUS
  <2>3. Unposted = {m \in 1 .. n : allocations[m].id \notin PostedPurchases}
    BY <1>2 DEF Unposted
  <2>4. Unposted' = {m \in 1 .. n + 1 : allocations'[m].id \notin PostedPurchases}
    BY <1>3, <1>9 DEF Unposted
  <2>5. QED
    BY <1>3, <1>9, <2>1, <2>2, <2>3, <2>4
<1>11. /\ g = [m \in Unposted' |-> Weighted(w, allocations'[m].lines)]
       /\ Pending(w) = [m \in Unposted |-> Weighted(w, allocations[m].lines)]
  BY Zenon DEF Pending, Weighted
<1> DEFINE q == n + 1
           v == Total(l)
<1>12. /\ DOMAIN g = DOMAIN Pending(w) \cup {q} /\ q \notin DOMAIN Pending(w) /\ g[q] = v
       /\ \A m \in DOMAIN Pending(w) : g[m] = Pending(w)[m]
  <2> DEFINE h == Pending(w)
  <2> HIDE DEF g, h
  <2>1. DOMAIN g = Unposted' /\ DOMAIN h = Unposted
    BY <1>11 DEF h
  <2>2. q \in Unposted' /\ g[q] = Weighted(w, allocations'[q].lines) /\ allocations'[q].lines = lines
    BY <1>3, <1>10, <1>11
  <2>3. g[q] = v
    BY <2>2, <1>7
  <2>4. ASSUME NEW m \in Unposted
        PROVE  g[m] = h[m]
    <3>1. m \in Unposted' /\ allocations'[m] = allocations[m]
      BY <1>3, <1>10
    <3>2. g[m] = Weighted(w, allocations'[m].lines) /\ h[m] = Weighted(w, allocations[m].lines)
      BY <3>1, <1>11 DEF h
    <3>3. QED
      BY <3>1, <3>2
  <2>5. QED
    BY <2>1, <2>3, <2>4, <1>10 DEF h
<1>13. IsFiniteSet(DOMAIN Pending(w)) /\ (\A m \in DOMAIN Pending(w) : Pending(w)[m] \in Int)
       /\ Total(Pending(w)) \in Int
  BY Measured
<1>14. v \in Int
  BY <1>8
<1> HIDE DEF g, q, v
<1>15. Total(g) = Total(Pending(w)) + v
  BY <1>12, <1>13, <1>14, TotalPut
<1>16. /\ Spread(w) = Weighted(w, remaining) + Total(Pending(w))
       /\ Spread(w)' = Weighted(w, remaining)' + Total(g)
  BY DEF Spread, g
<1>17. Spread(w)' = Total(r2) + (Total(Pending(w)) + Total(l))
  BY <1>7, <1>15, <1>16 DEF v
<1>18. Spread(w) = (Total(r2) + Total(l)) + Total(Pending(w))
  BY <1>7, <1>8, <1>16
<1>19. QED
  BY <1>8, <1>13, <1>17, <1>18

\* A decision costs nothing before it is posted.
LEMMA ChargedOnSettle ==
  ASSUME Recorded, NEW m \in DOMAIN allocations, NEW attempt, SettleOne(m, attempt)
  PROVE  Total(Charged)' = Total(Charged)
<1>1. PICK d : /\ decisions' = Append(decisions, d)
               /\ \A n \in DOMAIN decisions : decisions[n].id # d.id
  BY DecisionRecords DEF Recorded
<1>2. PostedPurchases' = PostedPurchases /\ d.id \notin PostedPurchases
  <2>1. journals' = journals
    BY DEF SettleOne, bookVars
  <2>2. d.id \notin PostedPurchases
    BY <1>1, PostedDecided
  <2>3. QED
    BY <2>1, <2>2, BalancesStay
<1>3. PICK k \in Nat : DOMAIN decisions = 1 .. k /\ Len(decisions) = k
  BY DEF Recorded, DecisionsInv
<1>4. /\ DOMAIN decisions' = 1 .. k + 1 /\ decisions'[k + 1] = d
      /\ \A n \in 1 .. k : decisions'[n] = decisions[n]
  <2> DEFINE A == {decisions[n] : n \in DOMAIN decisions} \cup {d}
  <2>1. decisions \in Seq({decisions[n] : n \in DOMAIN decisions})
    BY DEF Recorded, DecisionsInv
  <2>2. decisions \in Seq(A)
    BY <2>1
  <2> HIDE DEF A
  <2>3. QED
    BY <1>1, <1>3, <2>2
<1>5. PostedDecisions' = PostedDecisions /\ PostedDecisions \subseteq 1 .. k
  <2>1. \A n : n \in 1 .. k + 1 <=> n \in 1 .. k \/ n = k + 1
    OBVIOUS
  <2>2. PostedDecisions = {n \in 1 .. k : decisions[n].id \in PostedPurchases}
    BY <1>3 DEF PostedDecisions
  <2>3. PostedDecisions' = {n \in 1 .. k + 1 : decisions'[n].id \in PostedPurchases}
    BY <1>2, <1>4 DEF PostedDecisions
  <2>4. QED
    BY <1>2, <1>4, <2>1, <2>2, <2>3
<1>6. \A n \in PostedDecisions : decisions'[n].money.customer = decisions[n].money.customer
  BY <1>4, <1>5
<1>7. Charged' = [n \in PostedDecisions |-> decisions'[n].money.customer]
  BY <1>5, Zenon DEF Charged
<1>8. Charged' = Charged
  BY <1>6, <1>7, Zenon DEF Charged
<1>9. QED
  BY <1>8

\* Posting a purchase takes it from what is not posted and what is in flight, and charges it.
LEMMA SumsOnPost ==
  ASSUME Recorded, NEW n \in DOMAIN decisions, NEW m \in DOMAIN allocations, NEW p,
         decisions[n].id = p, allocations[m].id = p,
         p \notin PostedPurchases, PostedPurchases' = PostedPurchases \cup {p},
         UNCHANGED <<cardVars, allocVars, settleVars>>
  PROVE  /\ Spread(One)' = Spread(One) - Weighted(One, allocations[m].lines)
         /\ Spread(Strike)' = Spread(Strike) - Weighted(Strike, allocations[m].lines)
         /\ Total(Outstanding)' = Total(Outstanding)
         /\ Total(Flying)' = Total(Flying) - Price(p)
         /\ Total(Charged)' = Total(Charged) + decisions[n].money.customer
<1>1. /\ authorizations' = authorizations /\ instructions' = instructions
      /\ remaining' = remaining /\ allocations' = allocations /\ decisions' = decisions
  BY DEF cardVars, allocVars, settleVars
<1>2. \A k \in DOMAIN allocations : allocations[k].id = p <=> k = m
  BY DEF Recorded, AllocationsInv
<1>3. \A k \in DOMAIN decisions : decisions[k].id = p <=> k = n
  BY DEF Recorded, DecisionsInv
<1>4. Unposted' = Unposted \ {m} /\ m \in Unposted
  BY <1>1, <1>2 DEF Unposted
<1>5. ASSUME NEW w \in Weights, NEW f, f = Pending(w),
             NEW g, g = [k \in Unposted \ {m} |-> Weighted(w, allocations[k].lines)]
      PROVE  /\ Total(g) = Total(f) - Weighted(w, allocations[m].lines) /\ Total(f) \in Int
             /\ Weighted(w, remaining) \in Int /\ Total(g) \in Int
             /\ Weighted(w, allocations[m].lines) \in Int
  <2>1. f = [k \in Unposted |-> Weighted(w, allocations[k].lines)]
    BY <1>5, Zenon DEF Pending
  <2>2. g = Others(f, m)
    <3>1. DOMAIN f \ {m} = Unposted \ {m} /\ \A k \in Unposted \ {m} : f[k] = Weighted(w, allocations[k].lines)
      BY <2>1
    <3>2. Others(f, m) = [k \in Unposted \ {m} |-> f[k]]
      BY <3>1, Zenon DEF Others, Restrict
    <3>3. [k \in Unposted \ {m} |-> f[k]] = [k \in Unposted \ {m} |-> Weighted(w, allocations[k].lines)]
      BY <3>1, Zenon
    <3>4. QED
      BY <1>5, <3>2, <3>3
  <2>3. /\ IsFiniteSet(DOMAIN f) /\ (\A k \in DOMAIN f : f[k] \in Int) /\ Weighted(w, remaining) \in Int
        /\ m \in DOMAIN f /\ f[m] = Weighted(w, allocations[m].lines)
    <3>1. /\ IsFiniteSet(DOMAIN f) /\ (\A k \in DOMAIN f : f[k] \in Nat)
          /\ Weighted(w, remaining) \in Nat
      BY <1>5, Measured
    <3>2. m \in DOMAIN f /\ f[m] = Weighted(w, allocations[m].lines)
      BY <1>4, <2>1
    <3>3. QED
      BY <3>1, <3>2
  <2>4. Total(f) = f[m] + Total(Others(f, m)) /\ Total(f) \in Int
    BY <2>3, TotalTakes
  <2>5. Total(Others(f, m)) \in Int
    BY <2>3, RestrictTakes DEF Others
  <2>6. QED
    BY <2>2, <2>3, <2>4, <2>5
<1>6. Spread(One)' = Spread(One) - Weighted(One, allocations[m].lines)
  <2> DEFINE f == Pending(One)
             g == [k \in Unposted \ {m} |-> Weighted(One, allocations[k].lines)]
  <2>1. Pending(One)' = g
    BY <1>1, <1>4, Zenon DEF Pending, Weighted, One
  <2>2. Weighted(One, remaining)' = Weighted(One, remaining)
    BY <1>1, Zenon DEF Weighted, One
  <2>3. /\ Spread(One) = Weighted(One, remaining) + Total(f)
        /\ Spread(One)' = Weighted(One, remaining) + Total(g)
    BY <2>1, <2>2 DEF Spread
  <2>4. One \in Weights
    BY DEF Weights
  <2> HIDE DEF f, g
  <2>5. /\ Total(g) = Total(f) - Weighted(One, allocations[m].lines) /\ Total(f) \in Int
        /\ Weighted(One, remaining) \in Int /\ Total(g) \in Int
        /\ Weighted(One, allocations[m].lines) \in Int
    BY <1>5, <2>4 DEF f, g
  <2>6. QED
    BY <2>3, <2>5
<1>7. Spread(Strike)' = Spread(Strike) - Weighted(Strike, allocations[m].lines)
  <2> DEFINE f == Pending(Strike)
             g == [k \in Unposted \ {m} |-> Weighted(Strike, allocations[k].lines)]
  <2>1. Pending(Strike)' = g
    BY <1>1, <1>4, Zenon DEF Pending, Weighted, Strike
  <2>2. Weighted(Strike, remaining)' = Weighted(Strike, remaining)
    BY <1>1, Zenon DEF Weighted, Strike
  <2>3. /\ Spread(Strike) = Weighted(Strike, remaining) + Total(f)
        /\ Spread(Strike)' = Weighted(Strike, remaining) + Total(g)
    BY <2>1, <2>2 DEF Spread
  <2>4. Strike \in Weights
    BY DEF Weights
  <2> HIDE DEF f, g
  <2>5. /\ Total(g) = Total(f) - Weighted(Strike, allocations[m].lines) /\ Total(f) \in Int
        /\ Weighted(Strike, remaining) \in Int /\ Total(g) \in Int
        /\ Weighted(Strike, allocations[m].lines) \in Int
    BY <1>5, <2>4 DEF f, g
  <2>6. QED
    BY <2>3, <2>5
<1>8. Total(Outstanding)' = Total(Outstanding)
  <2>1. Outstanding' = Outstanding
    BY <1>1, Zenon DEF Outstanding
  <2>2. QED
    BY <2>1
<1>9. Total(Flying)' = Total(Flying) - Price(p)
  <2>1. p \in InFlight /\ instructions[p].amount = Price(p)
    BY DEF InFlight, Recorded, CardsInv, AllocationsInv
  <2>2. DOMAIN Flying = InFlight /\ p \in DOMAIN Flying /\ Flying[p] = Price(p)
    BY <2>1 DEF Flying
  <2>3. InFlight' = InFlight \ {p}
    BY <1>1 DEF InFlight
  <2>4. Flying' = Others(Flying, p)
    <3>1. Flying' = [x \in InFlight \ {p} |-> instructions[x].amount]
      BY <1>1, <2>3, Zenon DEF Flying
    <3>2. \A x \in InFlight \ {p} : Flying[x] = instructions[x].amount
      BY DEF Flying
    <3>3. Others(Flying, p) = [x \in InFlight \ {p} |-> Flying[x]]
      BY <2>2, Zenon DEF Others, Restrict
    <3>4. QED
      BY <3>1, <3>2, <3>3, Zenon
  <2>5. IsFiniteSet(DOMAIN Flying) /\ \A x \in DOMAIN Flying : Flying[x] \in Int
    BY Measured
  <2>6. Total(Flying) = Flying[p] + Total(Others(Flying, p)) /\ Total(Flying) \in Int
    BY <2>2, <2>5, TotalTakes
  <2>7. Total(Others(Flying, p)) \in Int /\ Flying[p] \in Int
    BY <2>2, <2>5, RestrictTakes DEF Others
  <2> DEFINE a == Total(Flying)
             b == Flying[p]
             c == Total(Others(Flying, p))
  <2>8. a \in Int /\ b \in Int /\ c \in Int /\ a = b + c
    BY <2>6, <2>7
  <2> HIDE DEF a, b, c
  <2>9. c = a - b
    BY <2>8
  <2>10. QED
    BY <2>2, <2>4, <2>9 DEF a, b, c
<1>10. Total(Charged)' = Total(Charged) + decisions[n].money.customer
  <2> DEFINE v == decisions[n].money.customer
             e == Charged'
  <2>1. PostedDecisions' = PostedDecisions \cup {n} /\ n \notin PostedDecisions
    BY <1>1, <1>3 DEF PostedDecisions
  <2>2. e = [k \in PostedDecisions \cup {n} |-> decisions[k].money.customer]
    BY <1>1, <2>1, Zenon DEF Charged
  <2>3. /\ DOMAIN e = DOMAIN Charged \cup {n} /\ n \notin DOMAIN Charged /\ e[n] = v
        /\ \A k \in DOMAIN Charged : e[k] = Charged[k]
    BY <2>1, <2>2 DEF Charged
  <2>4. IsFiniteSet(DOMAIN Charged) /\ \A k \in DOMAIN Charged : Charged[k] \in Int
    BY Measured
  <2>5. v \in Int
    BY AllocationSplits, MoneyDecided DEF Recorded, DecisionsInv, DecidedOn
  <2> HIDE DEF e, v
  <2>6. Total(e) = Total(Charged) + v
    BY <2>3, <2>4, <2>5, TotalPut
  <2>7. QED
    BY <2>6 DEF e, v
<1>11. QED
  BY <1>6, <1>7, <1>8, <1>9, <1>10

\* Every step keeps the sums.
LEMMA SumsStep == Recorded /\ Sums /\ [Next]_vars => Sums'
<1> SUFFICES ASSUME Recorded, Sums, [Next]_vars PROVE Sums'
  OBVIOUS
<1>0. "available" \in OwnAccount /\ "reserved" \in OwnAccount /\ "refund" \in OwnAccount
  BY DEF OwnAccount
<1>1. ASSUME UNCHANGED journals, Spread(One)' = Spread(One), Spread(Strike)' = Spread(Strike),
             Total(Charged)' = Total(Charged),
             Total(Outstanding)' + Total(Flying)' <= Balance("available")
      PROVE  Sums'
  <2>1. /\ Volume' = Volume /\ Balance("available")' = Balance("available")
        /\ Balance("reserved")' = Balance("reserved") /\ Balance("refund")' = Balance("refund")
    BY <1>0, <1>1, BalancesStay
  <2>2. QED
    BY <1>1, <2>1 DEF Sums
<1>2. Total(Outstanding) + Total(Flying) <= Balance("available")
  BY DEF Sums
<1>3. ASSUME NEW p \in Purchase, Authorize(p) \/ Clear(p) \/ Reverse(p) PROVE Sums'
  <2>1. UNCHANGED <<remaining, allocations, decisions, journals>>
    BY <1>3 DEF Authorize, Clear, Reverse, allocVars, settleVars, bookVars
  <2>2. QED
    BY <1>1, <1>3, <2>1, SpreadStays, ChargedStays, HoldsWithin
<1>4. ASSUME NEW p \in Purchase, Allocate(p) PROVE Sums'
  <2>1. UNCHANGED <<authorizations, instructions, decisions, journals>>
    BY <1>4 DEF Allocate, cardVars, settleVars, bookVars
  <2>2. Spread(One)' = Spread(One) /\ Spread(Strike)' = Spread(Strike)
    BY <1>4, SpreadOnAllocate DEF Weights
  <2>3. QED
    BY <1>1, <1>2, <2>1, <2>2, ChargedStays, HoldsStay
<1>5. ASSUME NEW m \in DOMAIN allocations, NEW attempt \in 1 .. MaxAttempts, SettleOne(m, attempt)
      PROVE  Sums'
  <2>1. UNCHANGED <<authorizations, instructions, remaining, allocations, journals>>
    BY <1>5 DEF SettleOne, cardVars, allocVars, bookVars
  <2>2. QED
    BY <1>1, <1>2, <1>5, <2>1, SpreadStays, HoldsStay, ChargedOnSettle
<1>6. ASSUME NEW n \in DOMAIN decisions, NEW attempt \in 1 .. MaxAttempts, Post(n, attempt)
      PROVE  Sums'
  <2>1. PICK m, j :
          /\ m \in DOMAIN allocations
          /\ DecidedOn(decisions[n], allocations[m]) /\ Splits(allocations[m])
          /\ JournalOf(j, allocations[m]) /\ IsPosted(j) /\ journals' = Append(journals, j)
          /\ \A i \in DOMAIN journals : journals[i].id # j.id
    BY <1>6, PostAppends DEF Recorded
  <2> m \in DOMAIN allocations
    BY <2>1
  <2> DEFINE a == allocations[m]
             p == a.id
             x == MoneyOf(a)
             T == Total(a.lines)
             K == Weighted(Strike, a.lines)
             u == Balance("available")
             r == Balance("reserved")
             f == Balance("refund")
             o == Total(Outstanding)
             y == Total(Flying)
             c == Total(Charged)
             price == Price(p)
  <2>2. /\ decisions[n].id = p /\ j.id = p /\ decisions[n].money = x
    BY <2>1 DEF DecidedOn, JournalOf
  <2>3. /\ Volume \in Int /\ Volume' = Volume + Moved(j.entry)
        /\ PostedPurchases' = PostedPurchases \cup ({p} \ {opening})
        /\ u \in Int /\ r \in Int /\ f \in Int
        /\ \A w \in OwnAccount :
             Balance(w)' = Balance(w) + LineSum(j.entry.lines, w, "CREDIT") - LineSum(j.entry.lines, w, "DEBIT")
    BY <1>0, <2>1, <2>2, PostAdds DEF Recorded, IsPosted
  <2>4. p # opening /\ p \notin PostedPurchases
    BY <2>1, <2>2 DEF Recorded, JournalsInv, PostedPurchases
  <2>5. PostedPurchases' = PostedPurchases \cup {p} /\ UNCHANGED <<cardVars, allocVars, settleVars>>
    BY <1>6, <2>3, <2>4 DEF Post
  <2>6. /\ Spread(One)' = Spread(One) - Weighted(One, a.lines)
        /\ Spread(Strike)' = Spread(Strike) - K
        /\ Total(Outstanding)' = o /\ Total(Flying)' = y - price
        /\ Total(Charged)' = c + x.customer
    BY <2>2, <2>4, <2>5, SumsOnPost
  <2>7. Weighted(One, a.lines) = T /\ T \in Nat
    <3>1. a.lines \in [PositionId -> Nat] /\ a.lines \in [PositionId -> Int]
      BY <2>1 DEF Splits
    <3>2. QED
      BY <3>1, OneWeighs, FinitePositions, TotalNat
  <2>8. /\ Balance("available")' = u + x.lower - x.available
        /\ Balance("reserved")' = r + 0 - x.reserved
        /\ Balance("refund")' = f + 0 - 0
        /\ Moved(j.entry) = 0 - T
    BY <1>0, <2>1, <2>3 DEF JournalOf
  <2>9. /\ x.customer \in Nat /\ x.reserved \in Nat /\ x.available \in Nat /\ x.lower \in Nat
        /\ x.customer <= price /\ x.reserved + x.available = x.customer + x.lower
        /\ K \in Nat /\ x.reserved * Denominator <= K
    BY <2>1, MoneyDecided
  <2>10. o \in Nat /\ y \in Nat /\ c \in Nat /\ Spread(One) \in Nat /\ Spread(Strike) \in Nat
    BY Measured DEF Weights
  <2>11. /\ Volume = Spread(One) /\ u + r + f = Funded - c /\ f = 0 /\ o + y <= u
         /\ Spread(Strike) <= Denominator * r
    BY DEF Sums
  <2>12. price \in Nat /\ Denominator \in Nat /\ Funded \in Nat
    <3>1. a.id \in Purchase
      BY <2>1 DEF Splits
    <3>2. QED
      BY <3>1, PriceNat, FlowAssumption
  <2> HIDE DEF a, p, x, T, K, u, r, f, o, y, c, price
  <2> DEFINE vol == Volume
             s1 == Spread(One)
             s2 == Spread(Strike)
             customer == x.customer
             lower == x.lower
             taken == x.available
             freed == x.reserved
  <2>13. /\ vol \in Int /\ s1 \in Nat /\ s2 \in Nat /\ customer \in Nat /\ lower \in Nat
         /\ taken \in Nat /\ freed \in Nat
    BY <2>3, <2>9, <2>10
  <2>14. Volume' = Spread(One)'
    <3>1. Volume' = vol + (0 - T) /\ Spread(One)' = s1 - T /\ vol = s1
      BY <2>3, <2>6, <2>7, <2>8, <2>11
    <3> HIDE DEF vol, s1
    <3>2. QED
      BY <3>1, <2>7, <2>13
  <2>15. Balance("available")' + Balance("reserved")' + Balance("refund")' = Funded - Total(Charged)'
    <3>1. /\ Balance("available")' = u + lower - taken /\ Balance("reserved")' = r + 0 - freed
          /\ Balance("refund")' = f + 0 - 0 /\ Total(Charged)' = c + customer
          /\ u + r + f = Funded - c /\ freed + taken = customer + lower
      BY <2>6, <2>8, <2>9, <2>11
    <3> HIDE DEF lower, taken, freed, customer
    <3>2. (u + lower - taken) + (r + 0 - freed) + (f + 0 - 0) = Funded - (c + customer)
      BY <3>1, <2>3, <2>10, <2>12, <2>13
    <3>3. QED
      BY <3>1, <3>2
  <2>16. Balance("refund")' = 0
    BY <2>8, <2>11
  <2>17. Total(Outstanding)' + Total(Flying)' <= Balance("available")'
    <3>1. /\ Balance("available")' = u + lower - taken
          /\ Total(Outstanding)' = o /\ Total(Flying)' = y - price
          /\ freed + taken = customer + lower /\ customer <= price /\ o + y <= u
      BY <2>6, <2>8, <2>9, <2>11
    <3> HIDE DEF lower, taken, freed, customer
    <3>2. o + (y - price) <= u + lower - taken
      BY <3>1, <2>3, <2>10, <2>12, <2>13
    <3>3. QED
      BY <3>1, <3>2
  <2>18. Spread(Strike)' <= Denominator * Balance("reserved")'
    <3>1. /\ Balance("reserved")' = r + 0 - freed /\ Spread(Strike)' = s2 - K
          /\ s2 <= Denominator * r /\ freed * Denominator <= K
      BY <2>6, <2>8, <2>9, <2>11
    <3> HIDE DEF freed, s2
    <3>2. Denominator * (r + 0 - freed) = Denominator * r - freed * Denominator
      BY <2>3, <2>12, <2>13
    <3>3. Denominator * r \in Int /\ freed * Denominator \in Int
      BY <2>3, <2>12, <2>13
    <3>4. s2 - K <= Denominator * r - freed * Denominator
      BY <3>1, <3>3, <2>9, <2>13
    <3>5. QED
      BY <3>1, <3>2, <3>4
  <2>19. QED
    BY <2>14, <2>15, <2>16, <2>17, <2>18 DEF Sums
<1>7. CASE UNCHANGED vars
  <2>1. UNCHANGED <<authorizations, instructions, remaining, allocations, decisions, journals>>
    BY <1>7 DEF vars, cardVars, allocVars, settleVars, bookVars
  <2>2. QED
    BY <1>1, <1>2, <2>1, SpreadStays, ChargedStays, HoldsStay
<1>8. QED
  BY <1>3, <1>4, <1>5, <1>6, <1>7 DEF Next

-----------------------------------------------------------------------------
(* The start                                                               *)

\* What is set aside covers the strike value of all the volume: each part is rounded up.
LEMMA SetAsideCovers ==
  /\ SetAside \in Nat /\ Weighted(Strike, Opening) <= Denominator * SetAside
  /\ Total(Opening) \in Nat /\ Weighted(One, Opening) = Total(Opening)
<1> DEFINE f == [i \in PositionId |-> Math!ceilMinor(Terms[i].strike * Opening[i])]
           e == [i \in PositionId |-> Denominator * f[i]]
           k == [i \in PositionId |-> Strike[i] * Opening[i]]
<1>1. Opening \in [PositionId -> Nat] /\ Opening \in [PositionId -> Int] /\ Denominator \in Int
  BY FlowAssumption
<1>2. ASSUME NEW i \in PositionId
      PROVE  f[i] \in Nat /\ k[i] \in Nat /\ k[i] <= e[i]
  <2> DEFINE x == Terms[i].strike * Opening[i]
             y == Engines!ceilMinor(x)
  <2>1. x \in Nat
    BY FlowAssumption
  <2> HIDE DEF x
  <2>2. y \in Nat /\ x <= y * Denominator
    BY <2>1, EngineAssumptions, Engines!CeilBounds
  <2>3. f[i] = y
    BY Zenon DEF Math!ceilMinor, Engines!ceilMinor, x
  <2>4. k[i] = x
    BY FlowAssumption DEF x, Strike
  <2>5. e[i] = Denominator * f[i]
    OBVIOUS
  <2> HIDE DEF y, f, k, e
  <2>6. y * Denominator = Denominator * y /\ Denominator * y \in Int
    BY <2>2, <1>1
  <2>7. e[i] = y * Denominator
    BY <2>3, <2>5, <2>6
  <2>8. QED
    BY <2>1, <2>2, <2>3, <2>4, <2>7, <2>6
<1>3. IsFiniteSet(DOMAIN f) /\ DOMAIN e = DOMAIN f /\ DOMAIN k = DOMAIN f /\ DOMAIN f = PositionId
  BY FinitePositions
<1>4. SetAside = Total(f) /\ Weighted(Strike, Opening) = Total(k)
  BY Zenon DEF SetAside, Weighted
<1>5. \A i \in DOMAIN f : e[i] = Denominator * f[i]
  OBVIOUS
<1> HIDE DEF f, e, k
<1>6. /\ \A i \in DOMAIN f : f[i] \in Nat
      /\ \A i \in DOMAIN f : f[i] \in Int /\ e[i] \in Int /\ k[i] \in Int /\ k[i] <= e[i]
  BY <1>1, <1>2, <1>3, <1>5
<1>7. Total(f) \in Nat
  BY <1>3, <1>6, TotalNat
<1>8. Total(e) = Denominator * Total(f)
  BY <1>1, <1>3, <1>5, <1>6, TotalTimes
<1>9. Total(k) <= Total(e)
  BY <1>3, <1>6, TotalMonotone
<1>10. Total(Opening) \in Nat
  BY <1>1, FinitePositions, TotalNat
<1>11. QED
  BY <1>1, <1>4, <1>7, <1>8, <1>9, <1>10, OneWeighs

\* The journal that funds the wallet.
LEMMA OpeningPosts ==
  /\ LineSum(OpeningEntry.lines, "available", "CREDIT") = Funded - SetAside
  /\ LineSum(OpeningEntry.lines, "reserved", "CREDIT") = SetAside
  /\ LineSum(OpeningEntry.lines, "refund", "CREDIT") = 0
  /\ \A a \in OwnAccount : LineSum(OpeningEntry.lines, a, "DEBIT") = 0
  /\ Moved(OpeningEntry) = Total(Opening)
<1> DEFINE rest == Funded - SetAside
           x1 == [account |-> "cash", side |-> "DEBIT", amount |-> Funded]
           x2 == [account |-> "available", side |-> "CREDIT", amount |-> rest]
           x3 == [account |-> "reserved", side |-> "CREDIT", amount |-> SetAside]
           l0 == << >>
           l1 == Append(l0, x1)
           l2 == Append(l1, x2)
           l3 == Append(l2, x3)
           In(l, account, side) == IF l.account = account /\ l.side = side THEN l.amount ELSE 0
<1>1. Funded \in Nat /\ SetAside \in Nat /\ rest \in Int
  BY SetAsideCovers, FlowAssumption
<1>2. OpeningEntry.lines = l3
  BY DEF OpeningEntry
<1> HIDE DEF rest
<1>3. /\ x1 \in Line /\ x2 \in Line /\ x3 \in Line
      /\ x1.account = "cash" /\ x1.side = "DEBIT" /\ x1.amount = Funded
      /\ x2.account = "available" /\ x2.side = "CREDIT" /\ x2.amount = rest
      /\ x3.account = "reserved" /\ x3.side = "CREDIT" /\ x3.amount = SetAside
  BY <1>1 DEF Line, Sides
<1>4. l0 \in Seq(Line) /\ \A a, s : LineSum(l0, a, s) = 0
  BY NothingPosted
<1> HIDE DEF l0, x1, x2, x3
<1>5. l1 \in Seq(Line) /\ \A a, s : LineSum(l1, a, s) = 0 + In(x1, a, s)
  BY <1>3, <1>4, LineAdds
<1> HIDE DEF l1
<1>6. l2 \in Seq(Line) /\ \A a, s : LineSum(l2, a, s) = LineSum(l1, a, s) + In(x2, a, s)
  BY <1>3, <1>5, LineAdds
<1> HIDE DEF l2
<1>7. \A a, s : LineSum(l3, a, s) = LineSum(l2, a, s) + In(x3, a, s)
  BY <1>3, <1>6, LineAdds
<1> HIDE DEF l3
<1>8. \A a, s : LineSum(l3, a, s) = ((0 + In(x1, a, s)) + In(x2, a, s)) + In(x3, a, s)
  <2> HIDE DEF In
  <2>1. QED
    BY <1>5, <1>6, <1>7
<1>9. Moved(OpeningEntry) = Total(Opening)
  <2> DEFINE mv == OpeningEntry.movements
             own == {n \in DOMAIN mv : mv[n].position \in PositionId}
  <2>1. /\ DOMAIN mv = PositionId
        /\ \A i \in PositionId : mv[i] = [position |-> i, type |-> "PROTECT", quantity |-> Opening[i]]
    BY DEF OpeningEntry
  <2> HIDE DEF mv
  <2>2. /\ \A i \in PositionId : mv[i].position = i
        /\ \A i \in PositionId : mv[i].type = "PROTECT" /\ mv[i].quantity = Opening[i]
    BY <2>1
  <2>8. own = PositionId
    BY <2>1, <2>2
  <2>3. \A i \in PositionId : Books!MovementEffect(mv[i]) = Opening[i]
    BY <2>2, Zenon DEF Books!MovementEffect
  <2> USE DEF mv
  <2>4. Moved(OpeningEntry) = Total([m \in own |-> Books!MovementEffect(mv[m])])
    BY Zenon DEF Moved
  <2> HIDE DEF own, mv
  <2>5. [m \in own |-> Books!MovementEffect(mv[m])] = [m \in PositionId |-> Opening[m]]
    BY <2>8, <2>3, Zenon
  <2>6. [m \in PositionId |-> Opening[m]] = Opening
    BY FlowAssumption
  <2>7. QED
    BY <2>4, <2>5, <2>6
<1>10. QED
  BY <1>1, <1>2, <1>3, <1>8, <1>9 DEF rest, OwnAccount

\* At first, the records and the sums are right: nothing is posted but what was paid in.
LEMMA FlowStart ==
  ASSUME Init
  PROVE  /\ Recorded /\ Sums
         /\ PostedPurchases = {} /\ Value = Funded /\ Volume = Total(Opening)
<1> DEFINE first == [id |-> opening, key |-> <<opening, 1>>, entry |-> OpeningEntry,
                     correctionOf |-> "none"]
<1>1. /\ authorizations = Card!EmptyMap /\ clearings = Card!EmptyMap /\ instructions = Card!EmptyMap
      /\ remaining = Opening /\ allocations = <<>> /\ decisions = <<>> /\ journals = <<first>>
      /\ Alloc!AllocInit
  BY DEF Init, Card!Init, Alloc!AllocInit, Settle!SettleInit
<1>2. /\ DOMAIN authorizations = {} /\ DOMAIN instructions = {} /\ IsFiniteSet({})
      /\ authorizations = [p \in {} |-> authorizations[p]]
  BY <1>1, FS_EmptySet DEF Card!EmptyMap
<1>3. CardsInv
  BY <1>2 DEF CardsInv
<1>4. AllocationsInv
  <2>1. Engines!AllocInit
    BY <1>1, Zenon DEF Alloc!AllocInit, Engines!AllocInit, Alloc!EmptyMap, Engines!EmptyMap
  <2>2. Engines!AllocInv
    BY <2>1, EngineAssumptions, Engines!AllocStart
  <2>3. DOMAIN allocations = {}
    BY <1>1
  <2>4. QED
    BY <2>2, <2>3 DEF AllocationsInv
<1>5. DecisionsInv
  BY <1>1 DEF DecisionsInv
<1>6. /\ DOMAIN journals = {1} /\ journals[1] = first /\ Len(journals) = 1
      /\ first.id = opening /\ first.entry = OpeningEntry /\ first.correctionOf = "none"
  BY <1>1
<1> HIDE DEF first
<1>7. /\ SetAside \in Nat /\ Funded \in Nat /\ Total(Opening) \in Nat /\ Moved(OpeningEntry) \in Int
      /\ \A a \in OwnAccount, s \in Sides : LineSum(OpeningEntry.lines, a, s) \in Int
  <2>1. SetAside \in Nat /\ Funded \in Nat /\ Total(Opening) \in Nat
    BY SetAsideCovers, FlowAssumption
  <2>2. QED
    BY <2>1, OpeningPosts DEF OwnAccount, Sides
<1>8. JournalsInv
  <2>1. journals \in Seq({journals[i] : i \in DOMAIN journals})
    BY <1>1, <1>6
  <2>2. IsPosted(journals[1])
    BY <1>6, <1>7 DEF IsPosted
  <2>3. QED
    BY <1>6, <2>1, <2>2 DEF JournalsInv
<1>9. Recorded
  BY <1>3, <1>4, <1>5, <1>8 DEF Recorded
<1>10. Volume = Total(Opening)
  <2> DEFINE f == [i \in DOMAIN journals |-> Moved(journals[i].entry)]
  <2>1. DOMAIN f = {1} /\ f[1] = Moved(OpeningEntry)
    BY <1>6
  <2>2. Volume = Total(f)
    BY Zenon DEF Volume
  <2> HIDE DEF f
  <2>3. QED
    BY <2>1, <2>2, <1>7, TotalOne, OpeningPosts
<1>11. ASSUME NEW a \in OwnAccount
       PROVE  Balance(a) = LineSum(OpeningEntry.lines, a, "CREDIT") - LineSum(OpeningEntry.lines, a, "DEBIT")
  <2>1. ASSUME NEW s \in Sides PROVE Sum(a, s) = LineSum(OpeningEntry.lines, a, s)
    <3> DEFINE f == [i \in DOMAIN journals |-> LineSum(journals[i].entry.lines, a, s)]
    <3>1. DOMAIN f = {1} /\ f[1] = LineSum(OpeningEntry.lines, a, s)
      BY <1>6
    <3>2. Sum(a, s) = Total(f)
      BY Zenon DEF Sum
    <3> HIDE DEF f
    <3>3. QED
      BY <3>1, <3>2, <1>7, TotalOne
  <2>2. "CREDIT" \in Sides /\ "DEBIT" \in Sides
    BY DEF Sides
  <2>3. QED
    BY <2>1, <2>2, Zenon DEF Balance
<1>12. /\ Balance("available") = Funded - SetAside /\ Balance("reserved") = SetAside
       /\ Balance("refund") = 0
  <2>1. "available" \in OwnAccount /\ "reserved" \in OwnAccount /\ "refund" \in OwnAccount
    BY DEF OwnAccount
  <2> DEFINE a == SetAside
  <2>2. /\ Balance("available") = (Funded - a) - 0 /\ Balance("reserved") = a - 0
        /\ Balance("refund") = 0 - 0
    BY <1>11, <2>1, OpeningPosts
  <2>3. a \in Nat /\ Funded \in Nat
    BY <1>7
  <2> HIDE DEF a
  <2>4. /\ Balance("available") = Funded - a /\ Balance("reserved") = a /\ Balance("refund") = 0
    BY <2>2, <2>3
  <2>5. QED
    BY <2>4 DEF a
<1>13. Spread(One) = Total(Opening) /\ Spread(Strike) = Weighted(Strike, Opening)
  <2>1. \A w : DOMAIN Pending(w) = {}
    BY <1>1 DEF Pending, Unposted
  <2>2. \A w : Total(Pending(w)) = 0
    BY <2>1, TotalEmpty
  <2>3. \A w : Spread(w) = Weighted(w, Opening) + 0
    BY <1>1, <2>2 DEF Spread
  <2>4. Weighted(Strike, Opening) \in Nat
    BY WeightNat, FlowAssumption DEF Weights
  <2>5. QED
    BY <2>3, <2>4, SetAsideCovers
<1>14. Total(Outstanding) = 0 /\ Total(Flying) = 0 /\ Total(Charged) = 0
  <2>1. DOMAIN Outstanding = {} /\ DOMAIN Flying = {} /\ DOMAIN Charged = {}
    BY <1>1, <1>2 DEF Outstanding, Flying, InFlight, Charged, PostedDecisions
  <2>2. QED
    BY <2>1, TotalEmpty
<1>15. Sums
  <2> DEFINE a == SetAside
  <2>1. a \in Nat /\ Funded \in Nat /\ a <= Funded
    BY <1>7, FlowAssumption
  <2>2. /\ Balance("available") = Funded - a /\ Balance("reserved") = a
        /\ Balance("refund") = 0 /\ Weighted(Strike, Opening) <= Denominator * a
    BY <1>12, SetAsideCovers
  <2> HIDE DEF a
  <2>3. QED
    BY <2>1, <2>2, <1>10, <1>13, <1>14 DEF Sums
<1>16. PostedPurchases = {}
  BY <1>6 DEF PostedPurchases
<1>17. Value = Funded
  <2>1. Value = Funded - 0 /\ Funded \in Nat
    BY <1>14, <1>15, FlowAssumption DEF Value, Sums
  <2>2. QED
    BY <2>1
<1>18. QED
  BY <1>9, <1>10, <1>15, <1>16, <1>17

-----------------------------------------------------------------------------
(* The theorems                                                            *)

\* The inductive invariant: the records of the engines go back to one another, and what is
\* on hold, in flight, drawn, posted and set aside adds up.
THEOREM FlowInvariant == Spec => [](Recorded /\ Sums)
<1>1. Init => Recorded /\ Sums
  BY FlowStart
<1>2. Recorded /\ Sums /\ [Next]_vars => (Recorded /\ Sums)'
  BY RecordsStep, SumsStep
<1>3. QED
  BY <1>1, <1>2, PTL DEF Spec

\* The balances that deriveWalletBalance shows are the sums, in every state.
Shown ==
  JournalsInv =>
    /\ Books!TotalCustomerValue = Value /\ Books!ProtectedQuantity = Volume
    /\ Books!WalletBreaks <=> (\E a \in OwnAccount : Balance(a) < 0) \/ Volume < 0

\* It holds whatever the state, so of the next one too.
LEMMA Shows == Shown
<1> SUFFICES ASSUME JournalsInv
             PROVE  /\ Books!TotalCustomerValue = Value /\ Books!ProtectedQuantity = Volume
                    /\ Books!WalletBreaks <=> (\E a \in OwnAccount : Balance(a) < 0) \/ Volume < 0
  BY DEF Shown
<1>1. \A i \in DOMAIN journals : journals[i].correctionOf = "none"
  BY DEF JournalsInv, IsPosted
<1>2. Books!ProtectedQuantity = Volume
  BY <1>1, VolumeIs
<1>3. Books!TotalCustomerValue = Value
  BY BalancesAre DEF Value
<1>4. Books!WalletBreaks <=> (\E a \in OwnAccount : Balance(a) < 0) \/ Volume < 0
  BY <1>2, BalancesAre
<1>5. QED
  BY <1>2, <1>3, <1>4

\* What the sums say of the wallet: nothing is overdrawn, volume and money reconcile.
LEMMA SumsReconcile ==
  ASSUME Recorded, Sums
  PROVE  EnginesReconcile
<1>1. /\ Books!TotalCustomerValue = Value /\ Books!ProtectedQuantity = Volume
      /\ Books!WalletBreaks <=> (\E a \in OwnAccount : Balance(a) < 0) \/ Volume < 0
  BY Shows DEF Shown, Recorded
<1>2. /\ Total(Outstanding) \in Nat /\ Total(Flying) \in Nat
      /\ Spread(One) \in Nat /\ Spread(Strike) \in Nat
  BY Measured DEF Weights
<1>3. \A a \in OwnAccount : Balance(a) \in Int
  BY BalancesInt DEF Recorded
<1>4. Balance("reserved") >= 0
  <2> DEFINE r == Balance("reserved")
             k == Spread(Strike)
  <2>1. r \in Int /\ k \in Nat /\ k <= Denominator * r /\ Denominator \in Nat \ {0}
    BY <1>2, <1>3, FlowAssumption DEF Sums, OwnAccount
  <2> HIDE DEF r, k
  <2>2. ASSUME r <= 0 - 1 PROVE FALSE
    <3>1. r * Denominator <= (0 - 1) * Denominator
      BY <2>1, <2>2, TimesMonotone
    <3>2. Denominator * r = r * Denominator /\ r * Denominator \in Int
      BY <2>1
    <3>3. QED
      BY <2>1, <3>1, <3>2
  <2>3. r >= 0
    BY <2>1, <2>2
  <2>4. QED
    BY <2>3 DEF r
<1>5. WalletNeverBroken
  <2>1. Balance("available") \in Int /\ Balance("available") >= 0 /\ Balance("refund") = 0
    BY <1>2, <1>3 DEF Sums, OwnAccount
  <2>2. Volume \in Nat
    BY <1>2 DEF Sums
  <2>3. \A a \in OwnAccount : ~(Balance(a) < 0)
    BY <1>3, <1>4, <2>1 DEF OwnAccount
  <2>4. ~(Volume < 0)
    BY <2>2
  <2>5. QED
    BY <1>1, <2>3, <2>4 DEF WalletNeverBroken
<1>6. Books!ProtectedQuantity =
        Total([i \in PositionId |-> remaining[i]])
        + Total([n \in {m \in DOMAIN allocations : allocations[m].id \notin PostedPurchases} |->
                   Total([i \in PositionId |-> allocations[n].lines[i]])])
  <2> DEFINE L(q) == [i \in PositionId |-> q[i]]
  <2>1. ASSUME NEW q \in [PositionId -> Nat] PROVE Weighted(One, q) = Total(L(q))
    <3>1. q \in [PositionId -> Int] /\ L(q) = q
      OBVIOUS
    <3>2. Weighted(One, q) = Total(q)
      BY <3>1, OneWeighs
    <3>3. QED
      BY <3>1, <3>2
  <2>2. remaining \in [PositionId -> Nat]
    BY DEF Recorded, AllocationsInv, Engines!AllocInv
  <2>3. \A n \in Unposted : allocations[n].lines \in [PositionId -> Nat]
    BY AllocationSplits DEF Unposted, Splits, Recorded
  <2>4. Pending(One) = [n \in Unposted |-> Total(L(allocations[n].lines))]
    <3>1. \A n \in Unposted : Weighted(One, allocations[n].lines) = Total(L(allocations[n].lines))
      BY <2>1, <2>3
    <3> HIDE DEF L
    <3>2. QED
      BY <3>1, Zenon DEF Pending
  <2>5. Weighted(One, remaining) = Total(L(remaining))
    BY <2>1, <2>2
  <2>6. Spread(One) = Total(L(remaining)) + Total([n \in Unposted |-> Total(L(allocations[n].lines))])
    <3> HIDE DEF L
    <3>1. QED
      BY <2>4, <2>5, Zenon DEF Spread
  <2>7. Books!ProtectedQuantity = Spread(One)
    BY <1>1 DEF Sums
  <2>8. QED
    BY <2>6, <2>7, Zenon DEF Unposted
<1>7. Books!TotalCustomerValue =
        Funded - Total([n \in {m \in DOMAIN decisions : decisions[m].id \in PostedPurchases} |->
                          decisions[n].money.customer])
  <2>1. Value = Funded - Total(Charged)
    BY DEF Value, Sums
  <2>2. Books!TotalCustomerValue = Funded - Total(Charged)
    BY <1>1, <2>1
  <2>3. QED
    BY <2>2, Zenon DEF Charged, PostedDecisions
<1>8. ValueReconciles
  BY <1>6, <1>7, Zenon DEF ValueReconciles
<1>9. QED
  BY <1>5, <1>8 DEF EnginesReconcile

\* However the carrier delivers, the five engines agree on the customer's money and volume,
\* and no account is overdrawn (deriveWalletBalance never breaks).
THEOREM EnginesAlwaysReconcile == Spec => []EnginesReconcile
<1>1. Recorded /\ Sums => EnginesReconcile
  BY SumsReconcile
<1>2. QED
  BY <1>1, FlowInvariant, PTL

\* A purchase is settled once, and only from a clearing the card accepted: every journal,
\* decision and allocation goes back to one instruction, and takes at most its amount.
THEOREM SettledOnce == Spec => []SettledFromClearing
<1>1. ASSUME Recorded PROVE SettledFromClearing
  <2>1. \A n \in DOMAIN allocations : allocations[n].id \in DOMAIN instructions
    BY <1>1 DEF Recorded, AllocationsInv
  <2>2. ASSUME NEW n \in DOMAIN decisions
        PROVE  /\ \E m \in DOMAIN allocations : allocations[m].id = decisions[n].id
               /\ decisions[n].money.customer <= instructions[decisions[n].id].amount
    <3>1. PICK m \in DOMAIN allocations : DecidedOn(decisions[n], allocations[m])
      BY <1>1 DEF Recorded, DecisionsInv
    <3> DEFINE a == allocations[m]
    <3>2. Splits(a) /\ a.id \in DOMAIN instructions
      BY <1>1, <2>1, AllocationSplits DEF Recorded
    <3> HIDE DEF a
    <3>3. MoneyOf(a).customer <= Price(a.id)
      BY <3>2, MoneyDecided
    <3>4. instructions[a.id].amount = Price(a.id)
      BY <1>1, <3>2 DEF Recorded, CardsInv
    <3>5. decisions[n].id = a.id /\ decisions[n].money = MoneyOf(a)
      BY <3>1 DEF DecidedOn, a
    <3>6. QED
      BY <3>3, <3>4, <3>5 DEF a
  <2>3. ASSUME NEW p \in PostedPurchases
        PROVE  Cardinality({i \in DOMAIN journals : journals[i].id = p}) = 1
    <3>1. PICK i \in DOMAIN journals : journals[i].id = p
      BY DEF PostedPurchases
    <3>2. {k \in DOMAIN journals : journals[k].id = p} = {i}
      BY <1>1, <3>1 DEF Recorded, JournalsInv
    <3>3. QED
      BY <3>2, FS_Singleton
  <2>4. PostedPurchases \subseteq {decisions[n].id : n \in DOMAIN decisions}
    BY <1>1, PostedDecided
  <2>5. QED
    BY <2>1, <2>2, <2>3, <2>4 DEF SettledFromClearing
<1>2. Recorded => SettledFromClearing
  BY <1>1
<1>3. QED
  BY <1>2, FlowInvariant, PTL

\* Posting a decision pays for one purchase: at most its price, at most its quantity.
LEMMA PostPays ==
  ASSUME Recorded, Sums, NEW n \in DOMAIN decisions, NEW attempt, Post(n, attempt)
  PROVE  \E p \in Purchase, paid \in Nat, drawn \in Nat :
           /\ p \notin PostedPurchases /\ PostedPurchases' = PostedPurchases \cup {p}
           /\ Value \in Int /\ Value' = Value - paid /\ paid <= Price(p)
           /\ Volume \in Int /\ Volume' = Volume - drawn /\ drawn <= Bought[p].quantity
<1>1. PICK m, j :
        /\ m \in DOMAIN allocations
        /\ DecidedOn(decisions[n], allocations[m]) /\ Splits(allocations[m])
        /\ JournalOf(j, allocations[m]) /\ IsPosted(j) /\ journals' = Append(journals, j)
        /\ \A i \in DOMAIN journals : journals[i].id # j.id
  BY PostAppends DEF Recorded
<1> m \in DOMAIN allocations
  BY <1>1
<1> DEFINE a == allocations[m]
           p == a.id
           x == MoneyOf(a)
           T == Total(a.lines)
           u == Balance("available")
           r == Balance("reserved")
           f == Balance("refund")
<1>2. /\ decisions[n].id = p /\ j.id = p
  BY <1>1 DEF DecidedOn, JournalOf
<1>3. "available" \in OwnAccount /\ "reserved" \in OwnAccount /\ "refund" \in OwnAccount
  BY DEF OwnAccount
<1>4. /\ Volume \in Int /\ Volume' = Volume + Moved(j.entry)
      /\ PostedPurchases' = PostedPurchases \cup ({p} \ {opening})
      /\ u \in Int /\ r \in Int /\ f \in Int
      /\ \A w \in OwnAccount :
           Balance(w)' = Balance(w) + LineSum(j.entry.lines, w, "CREDIT") - LineSum(j.entry.lines, w, "DEBIT")
  BY <1>1, <1>2, <1>3, PostAdds DEF Recorded, IsPosted
<1>5. p # opening /\ p \notin PostedPurchases
  BY <1>1, <1>2 DEF Recorded, JournalsInv, PostedPurchases
<1>6. /\ Balance("available")' = u + x.lower - x.available
      /\ Balance("reserved")' = r + 0 - x.reserved
      /\ Balance("refund")' = f + 0 - 0
      /\ Moved(j.entry) = 0 - T
  BY <1>1, <1>3, <1>4 DEF JournalOf
<1>7. /\ p \in Purchase /\ T \in Nat /\ T <= Bought[p].quantity
  <2>1. a.lines \in [PositionId -> Nat] /\ a.unprotected \in Nat /\ p \in Purchase
        /\ T + a.unprotected = Bought[p].quantity
    BY <1>1 DEF Splits
  <2>2. T \in Nat
    BY <2>1, FinitePositions, TotalNat
  <2> HIDE DEF a, p, T
  <2>3. QED
    BY <2>1, <2>2
<1>8. /\ x.customer \in Nat /\ x.reserved \in Nat /\ x.available \in Nat /\ x.lower \in Nat
      /\ x.customer <= Price(p) /\ x.reserved + x.available = x.customer + x.lower
  BY <1>1, MoneyDecided
<1> HIDE DEF a, p, x, T, u, r, f
<1>9. Volume' = Volume - T
  BY <1>4, <1>6, <1>7
<1>10. Value = u + r + f /\ Value' = Balance("available")' + Balance("reserved")' + Balance("refund")'
  BY Zenon DEF Value, u, r, f
<1>11. Value \in Int /\ Value' = Value - x.customer
  <2> DEFINE customer == x.customer
             lower == x.lower
             taken == x.available
             freed == x.reserved
  <2>1. /\ customer \in Nat /\ lower \in Nat /\ taken \in Nat /\ freed \in Nat
        /\ freed + taken = customer + lower
        /\ Value' = (u + lower - taken) + (r + 0 - freed) + (f + 0 - 0)
    BY <1>6, <1>8, <1>10
  <2> HIDE DEF lower, taken, freed, customer
  <2>2. Value \in Int /\ Value' = Value - customer
    BY <1>4, <1>10, <2>1
  <2>3. QED
    BY <2>2 DEF customer
<1>12. PostedPurchases' = PostedPurchases \cup {p}
  BY <1>4, <1>5
<1>13. QED
  BY <1>4, <1>5, <1>7, <1>8, <1>9, <1>11, <1>12

\* What is left of the money and the volume is never less than nothing.
LEMMA ReconciledNat == Recorded /\ Sums => Value \in Nat /\ Volume \in Nat
<1> SUFFICES ASSUME Recorded, Sums PROVE Value \in Nat /\ Volume \in Nat
  OBVIOUS
<1>1. ~Books!WalletBreaks
  BY SumsReconcile DEF EnginesReconcile, WalletNeverBroken
<1>2. /\ \A a \in OwnAccount : ~(Balance(a) < 0)
      /\ ~(Volume < 0)
  BY <1>1, Shows DEF Shown, Recorded
<1>3. Volume \in Int /\ \A a \in OwnAccount : Balance(a) \in Int
  BY BalancesInt DEF Recorded
<1>4. \A a \in OwnAccount : Balance(a) \in Nat
  BY <1>2, <1>3
<1>5. QED
  BY <1>2, <1>3, <1>4 DEF Value, OwnAccount

\* A step of an engine is a payment of the promise, or nothing at all to the customer.
LEMMA FundsStep ==
  ASSUME Recorded, Sums, [Next]_vars
  PROVE  [Funds!Next]_(Funds!vars)
<1>1. Recorded' /\ Sums'
  BY RecordsStep, SumsStep
<1>2. Books!TotalCustomerValue = Value /\ Books!ProtectedQuantity = Volume
  BY Shows DEF Shown, Recorded
<1>3. Books!TotalCustomerValue' = Value' /\ Books!ProtectedQuantity' = Volume'
  <2>1. Shown'
    BY Shows, PTL
  <2>2. QED
    BY <1>1, <2>1 DEF Shown, Recorded
<1>4. Value' \in Nat /\ Volume' \in Nat
  <2>1. Recorded /\ Sums => Value \in Nat /\ Volume \in Nat
    BY ReconciledNat
  <2>2. (Recorded /\ Sums => Value \in Nat /\ Volume \in Nat)'
    BY ReconciledNat, PTL
  <2>3. QED
    BY <1>1, <2>2
<1>5. ASSUME UNCHANGED journals PROVE UNCHANGED Funds!vars
  <2>1. PostedPurchases' = PostedPurchases /\ Volume' = Volume /\ Value' = Value
    BY <1>5, BalancesStay DEF Value, OwnAccount
  <2>2. QED
    BY <1>2, <1>3, <2>1, Zenon DEF Funds!vars
<1>6. ASSUME NEW n \in DOMAIN decisions, NEW attempt, Post(n, attempt) PROVE Funds!Next
  <2>1. PICK p \in Purchase, paid \in Nat, drawn \in Nat :
           /\ p \notin PostedPurchases /\ PostedPurchases' = PostedPurchases \cup {p}
           /\ Value \in Int /\ Value' = Value - paid /\ paid <= Price(p)
           /\ Volume \in Int /\ Volume' = Volume - drawn /\ drawn <= Bought[p].quantity
    BY <1>6, PostPays
  <2>2. Price(p) \in Nat /\ Bought[p].quantity \in Nat
    BY PriceNat, FlowAssumption
  <2>3. /\ Value' \in 0 .. Value /\ Value - Value' <= Price(p)
        /\ Volume' \in 0 .. Volume /\ Volume - Volume' <= Bought[p].quantity
    BY <1>4, <2>1, <2>2
  <2>4. /\ [q \in Purchase |-> Price(q)][p] = Price(p)
        /\ [q \in Purchase |-> Bought[q].quantity][p] = Bought[p].quantity
    OBVIOUS
  <2>5. Funds!Pay(p)
    BY <1>2, <1>3, <2>1, <2>3, <2>4, Zenon DEF Funds!Pay
  <2>6. QED
    BY <2>5, Zenon DEF Funds!Next
<1>7. CASE Next
  BY <1>5, <1>6, <1>7 DEF Next, Authorize, Clear, Reverse, Allocate, SettleOne, bookVars
<1>8. CASE UNCHANGED vars
  BY <1>5, <1>8 DEF vars, bookVars
<1>9. QED
  BY <1>7, <1>8

\* The engines together implement the promise of CustomerFunds: value and volume leave the
\* wallet in one step per purchase, at most once, at most its price and its quantity.
THEOREM FundsImplemented == Spec => ImplementsFunds
<1>1. Init => Funds!Init
  <2> SUFFICES ASSUME Init PROVE Funds!Init
    OBVIOUS
  <2>1. Recorded /\ PostedPurchases = {} /\ Value = Funded /\ Volume = Total(Opening)
    BY FlowStart
  <2>2. Books!TotalCustomerValue = Value /\ Books!ProtectedQuantity = Volume
    BY <2>1, Shows DEF Shown, Recorded
  <2>3. [i \in PositionId |-> Opening[i]] = Opening
    BY FlowAssumption
  <2>4. QED
    BY <2>1, <2>2, <2>3, Zenon DEF Funds!Init
<1>2. Recorded /\ Sums /\ [Next]_vars => [Funds!Next]_(Funds!vars)
  BY FundsStep
<1>3. QED
  BY <1>1, <1>2, FlowInvariant, PTL DEF Spec, ImplementsFunds, Funds!Spec

=============================================================================
