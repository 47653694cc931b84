------------------------ MODULE CardSimulatorProofs ------------------------
(***************************************************************************)
(* What holds of the card simulator for any cards, limits, ids, keys and   *)
(* amounts: its Maps keep their types, a hold is conserved through any     *)
(* order of clearing and reversal, no retry acts twice, and no step gives  *)
(* a hold back what it has lost.                                           *)
(***************************************************************************)
EXTENDS CardSimulator, BasicLemmas

-----------------------------------------------------------------------------
(* Lemmas                                                                  *)

\* A matching clearing leaves a well-typed hold, takes its amount from what was
\* outstanding and adds it to what is cleared.
LEMMA ConsumedHold ==
  ASSUME NEW a \in Authorization, NEW amount \in Nat \ {0}, amount <= a.outstanding,
         a.cleared + a.released + a.outstanding = a.amount
  PROVE  LET c == Consumed(a, amount) IN
         /\ c \in Authorization
         /\ c.card = a.card /\ c.amount = a.amount /\ c.currency = a.currency /\ c.day = a.day
         /\ c.released = a.released
         /\ c.cleared = a.cleared + amount
         /\ c.outstanding = a.outstanding - amount
         /\ c.status = IF c.outstanding = 0 THEN "CLEARED" ELSE "PARTIALLY_CLEARED"
<1> DEFINE left == a.amount - (a.cleared + amount) - a.released
<1>1. /\ a.amount \in Nat /\ a.cleared \in Nat /\ a.released \in Nat /\ a.outstanding \in Nat
      /\ amount \in Nat
  BY AmountAssumption DEF Authorization
<1>2. left = a.outstanding - amount /\ left \in Nat
  BY <1>1
<1>3. a.cleared + amount \in Nat
  BY <1>1
<1>4. Consumed(a, amount) =
        [a EXCEPT !.cleared = a.cleared + amount, !.outstanding = left,
                  !.status = IF left = 0 THEN "CLEARED" ELSE "PARTIALLY_CLEARED"]
  BY DEF Consumed
<1> HIDE DEF left
<1>5. QED
  BY <1>2, <1>3, <1>4 DEF Authorization, AuthStatus

-----------------------------------------------------------------------------
(* The inductive invariant                                                 *)

\* Each stored clearing and reversal is the one its key leads to, and a reversed hold
\* is reversed by the reversals on record only.
KeysLead ==
  /\ \A c \in DOMAIN clearings :
       /\ clearings[c].key \in DOMAIN clearingKeys
       /\ clearingKeys[clearings[c].key] = c
  /\ \A r \in DOMAIN reversals :
       /\ reversals[r].key \in DOMAIN reversalKeys
       /\ reversalKeys[reversals[r].key] = r
       /\ reversals[r].auth \in DOMAIN authorizations
       /\ authorizations[reversals[r].auth].status = "REVERSED"
  /\ \A r, s \in DOMAIN reversals : reversals[r].auth = reversals[s].auth => r = s

IInv == TypeOK /\ HoldConserved /\ KeysLead

LEMMA InitInv == Init => IInv
  BY EmptyIsMap DEF Init, IInv, TypeOK, HoldConserved, KeysLead

LEMMA AuthorizeInv ==
  ASSUME IInv, NEW key \in Key, NEW id \in AuthId, NEW card \in Card, NEW amount \in Amount,
         NEW currency \in Currency, NEW category \in Category, NEW available \in Value,
         NEW day \in Day, Authorize(key, id, card, amount, currency, category, available, day)
  PROVE  IInv'
<1> DEFINE approved == Approves(card, amount, currency, category, available, day)
           new == [card |-> card, amount |-> amount, currency |-> currency, day |-> day,
                   status |-> IF approved THEN "OPEN" ELSE "DECLINED",
                   cleared |-> 0, released |-> 0,
                   outstanding |-> IF approved THEN amount ELSE 0]
<1>1. authorizations' = Put(authorizations, id, new) /\ id \notin DOMAIN authorizations
  BY DEF Authorize
<1>2. UNCHANGED <<clearings, clearingKeys, instructions, breaks, reversals, reversalKeys>>
  BY DEF Authorize, clearVars, reverseVars
<1>3. authorizationKeys' = Put(authorizationKeys, key, id)
  BY DEF Authorize
<1>4. amount \in Nat \ {0}
  BY AmountAssumption
<1>5. /\ new \in Authorization /\ new.amount = amount
      /\ new.cleared = 0 /\ new.released = 0
      /\ new.status \in {"OPEN", "DECLINED"}
      /\ new.outstanding = IF new.status = "OPEN" THEN amount ELSE 0
  <2>1. CASE approved
    BY <2>1, <1>4 DEF Authorization, AuthStatus
  <2>2. CASE ~approved
    BY <2>2, <1>4 DEF Authorization, AuthStatus
  <2>3. QED
    BY <2>1, <2>2
<1> HIDE DEF new
<1>6. /\ DOMAIN authorizations' = DOMAIN authorizations \cup {id}
      /\ authorizations'[id] = new
      /\ \A x \in DOMAIN authorizations : authorizations'[x] = authorizations[x]
  BY <1>1 DEF Put
<1>7. TypeOK'
  <2>1. IsMap(authorizations, AuthId, Authorization)' /\ IsMap(authorizationKeys, Key, AuthId)'
    BY <1>1, <1>3, <1>5, PutIsMap DEF IInv, TypeOK
  <2>2. QED
    BY <2>1, <1>2 DEF IInv, TypeOK, IsMap
<1>8. HoldConserved'
  BY <1>4, <1>5, <1>6 DEF IInv, HoldConserved, Live
<1>9. KeysLead'
  BY <1>2, <1>6 DEF IInv, KeysLead
<1>10. QED
  BY <1>7, <1>8, <1>9 DEF IInv

LEMMA ClearInv ==
  ASSUME IInv, NEW key \in Key, NEW id \in ClearingId, NEW auth \in AuthId,
         NEW amount \in Amount, NEW currency \in Currency,
         Clear(key, id, auth, amount, currency)
  PROVE  IInv'
<1> DEFINE matched == Matches(auth, amount, currency)
           new == [auth |-> auth, amount |-> amount, currency |-> currency, key |-> key,
                   accepted |-> matched]
<1>1. /\ clearings' = Put(clearings, id, new) /\ id \notin DOMAIN clearings
      /\ clearingKeys' = Put(clearingKeys, key, id) /\ key \notin DOMAIN clearingKeys
      /\ UNCHANGED <<authorizationKeys, reversals, reversalKeys>>
  BY DEF Clear, NewKey, reverseVars
<1>2. new \in Clearing /\ new.key = key
  BY DEF Clearing, Matches
<1> HIDE DEF new
<1>3. /\ DOMAIN clearings' = DOMAIN clearings \cup {id} /\ clearings'[id] = new
      /\ \A x \in DOMAIN clearings : clearings'[x] = clearings[x]
      /\ DOMAIN clearingKeys' = DOMAIN clearingKeys \cup {key} /\ clearingKeys'[key] = id
      /\ \A x \in DOMAIN clearingKeys : clearingKeys'[x] = clearingKeys[x]
  BY <1>1 DEF Put
<1>4. IsMap(clearings, ClearingId, Clearing)' /\ IsMap(clearingKeys, Key, ClearingId)'
  BY <1>1, <1>2, PutIsMap DEF IInv, TypeOK
<1>5. \A c \in DOMAIN clearings' : /\ clearings'[c].key \in DOMAIN clearingKeys'
                                   /\ clearingKeys'[clearings'[c].key] = c
  BY <1>2, <1>3, <1>1 DEF IInv, KeysLead
<1>6. CASE matched
  <2> DEFINE a == authorizations[auth]
             b == Consumed(a, amount)
  <2>1. /\ auth \in DOMAIN authorizations /\ a.status \in Live /\ amount <= a.outstanding
    BY <1>6 DEF Matches
  <2>2. /\ authorizations' = [authorizations EXCEPT ![auth] = b]
        /\ instructions' = Put(instructions, id,
             [auth |-> auth, amount |-> amount, currency |-> currency])
        /\ breaks' = breaks
    BY <1>6 DEF Clear
  <2>3. a \in Authorization /\ amount \in Nat \ {0}
    BY <2>1, AmountAssumption DEF IInv, TypeOK, IsMap
  <2>4. a.cleared + a.released + a.outstanding = a.amount /\ a.released = 0
    BY <2>1 DEF IInv, HoldConserved, Live
  <2>5. /\ b \in Authorization
        /\ b.amount = a.amount /\ b.released = 0
        /\ b.cleared = a.cleared + amount /\ b.outstanding = a.outstanding - amount
        /\ b.status = IF b.outstanding = 0 THEN "CLEARED" ELSE "PARTIALLY_CLEARED"
    BY <2>1, <2>3, <2>4, ConsumedHold
  <2> HIDE DEF b
  <2>6. /\ IsMap(authorizations', AuthId, Authorization)
        /\ DOMAIN authorizations' = DOMAIN authorizations
        /\ authorizations'[auth] = b
        /\ \A x \in DOMAIN authorizations : x # auth => authorizations'[x] = authorizations[x]
    BY <2>1, <2>2, <2>5, ExceptIsMap DEF IInv, TypeOK
  <2>7. TypeOK'
    <3>1. [auth |-> auth, amount |-> amount, currency |-> currency] \in Instruction
      BY DEF Instruction
    <3>2. IsMap(instructions, ClearingId, Instruction)'
      BY <2>2, <3>1, PutIsMap DEF IInv, TypeOK
    <3>3. QED
      BY <1>1, <1>4, <2>2, <2>6, <3>2 DEF IInv, TypeOK, IsMap
  <2>8. HoldConserved'
    <3>1. SUFFICES ASSUME NEW x \in DOMAIN authorizations
                   PROVE  LET h == authorizations'[x] IN
                     IF h.status = "DECLINED"
                     THEN h.cleared = 0 /\ h.released = 0 /\ h.outstanding = 0
                     ELSE /\ h.cleared + h.released + h.outstanding = h.amount
                          /\ h.status = "OPEN" => h.cleared = 0 /\ h.released = 0
                          /\ h.status \in Live => h.outstanding > 0 /\ h.released = 0
                          /\ h.status \in {"CLEARED", "REVERSED"} => h.outstanding = 0
                          /\ h.status = "REVERSED" <=> h.released > 0
      BY <2>6 DEF HoldConserved
    <3>2. CASE x = auth
      <4>1. /\ b.cleared \in Nat /\ b.outstanding \in Nat /\ a.cleared \in Nat
            /\ a.outstanding \in Nat /\ a.amount \in Nat /\ amount \in Nat
        BY <2>3, <2>5, AmountAssumption DEF Authorization
      <4>2. b.cleared + b.released + b.outstanding = b.amount
        BY <4>1, <2>4, <2>5
      <4>3. QED
        BY <3>2, <4>1, <4>2, <2>5, <2>6 DEF Live
    <3>3. CASE x # auth
      BY <3>3, <2>6 DEF IInv, HoldConserved
    <3>4. QED
      BY <3>2, <3>3
  <2>9. KeysLead'
    <3>1. \A r \in DOMAIN reversals : reversals[r].auth # auth
      BY <2>1 DEF IInv, KeysLead, Live
    <3>2. QED
      BY <1>1, <1>5, <2>6, <3>1 DEF IInv, KeysLead
  <2>10. QED
    BY <2>7, <2>8, <2>9 DEF IInv
<1>7. CASE ~matched
  <2>1. UNCHANGED <<authorizations, instructions>> /\ breaks' = breaks \cup {id}
    BY <1>7 DEF Clear
  <2>2. TypeOK'
    BY <1>1, <1>4, <2>1 DEF IInv, TypeOK, IsMap
  <2>3. HoldConserved'
    BY <2>1 DEF IInv, HoldConserved
  <2>4. KeysLead'
    BY <1>1, <1>5, <2>1 DEF IInv, KeysLead
  <2>5. QED
    BY <2>2, <2>3, <2>4 DEF IInv
<1>8. QED
  BY <1>6, <1>7

LEMMA ReverseInv ==
  ASSUME IInv, NEW key \in Key, NEW id \in ReversalId, NEW auth \in AuthId,
         Reverse(key, id, auth)
  PROVE  IInv'
<1> DEFINE a == authorizations[auth]
           b == Released(a)
           new == [auth |-> auth, released |-> a.outstanding, key |-> key]
<1>1. /\ auth \in DOMAIN authorizations /\ a.status \in Live
      /\ authorizations' = [authorizations EXCEPT ![auth] = b]
      /\ reversals' = Put(reversals, id, new) /\ id \notin DOMAIN reversals
      /\ reversalKeys' = Put(reversalKeys, key, id) /\ key \notin DOMAIN reversalKeys
      /\ UNCHANGED <<authorizationKeys, clearings, clearingKeys, instructions, breaks>>
  BY DEF Reverse, Reversible, NewKey, clearVars
<1>2. /\ a \in Authorization /\ a.amount \in Nat /\ a.cleared \in Nat
      /\ a.released \in Nat /\ a.outstanding \in Nat
  BY <1>1, AmountAssumption DEF IInv, TypeOK, IsMap, Authorization
<1>3. /\ a.cleared + a.released + a.outstanding = a.amount
      /\ a.released = 0 /\ a.outstanding > 0
  BY <1>1 DEF IInv, HoldConserved, Live
<1>4. b \in Authorization
  <2>1. a.released + a.outstanding \in Nat
    BY <1>2
  <2>2. QED
    BY <1>2, <2>1 DEF Released, Authorization, AuthStatus
<1>5. /\ b.amount = a.amount /\ b.cleared = a.cleared
      /\ b.released = a.released + a.outstanding /\ b.outstanding = 0
      /\ b.status = "REVERSED"
  BY <1>2 DEF Released, Authorization
<1>6. new \in Reversal /\ new.key = key /\ new.auth = auth
  BY <1>2 DEF Reversal
<1> HIDE DEF b, new
<1>7. /\ IsMap(authorizations', AuthId, Authorization)
      /\ DOMAIN authorizations' = DOMAIN authorizations
      /\ authorizations'[auth] = b
      /\ \A x \in DOMAIN authorizations : x # auth => authorizations'[x] = authorizations[x]
  BY <1>1, <1>4, ExceptIsMap DEF IInv, TypeOK
<1>8. /\ DOMAIN reversals' = DOMAIN reversals \cup {id} /\ reversals'[id] = new
      /\ \A x \in DOMAIN reversals : reversals'[x] = reversals[x]
      /\ DOMAIN reversalKeys' = DOMAIN reversalKeys \cup {key} /\ reversalKeys'[key] = id
      /\ \A x \in DOMAIN reversalKeys : reversalKeys'[x] = reversalKeys[x]
  BY <1>1 DEF Put
<1>9. TypeOK'
  <2>1. IsMap(reversals, ReversalId, Reversal)' /\ IsMap(reversalKeys, Key, ReversalId)'
    BY <1>1, <1>6, PutIsMap DEF IInv, TypeOK
  <2>2. QED
    BY <1>1, <1>7, <2>1 DEF IInv, TypeOK, IsMap
<1>10. HoldConserved'
  <2>1. b.cleared + b.released + b.outstanding = b.amount /\ b.released > 0
    BY <1>2, <1>3, <1>5
  <2>2. QED
    BY <1>5, <1>7, <2>1 DEF IInv, HoldConserved, Live
<1>11. KeysLead'
  <2>1. \A r \in DOMAIN reversals : reversals[r].auth # auth
    BY <1>1 DEF IInv, KeysLead, Live
  <2>2. \A r \in DOMAIN reversals' :
          /\ reversals'[r].key \in DOMAIN reversalKeys'
          /\ reversalKeys'[reversals'[r].key] = r
    BY <1>1, <1>6, <1>8 DEF IInv, KeysLead
  <2>3. \A r \in DOMAIN reversals' :
          /\ reversals'[r].auth \in DOMAIN authorizations'
          /\ authorizations'[reversals'[r].auth].status = "REVERSED"
    BY <1>1, <1>5, <1>6, <1>7, <1>8, <2>1 DEF IInv, KeysLead
  <2>4. \A r, s \in DOMAIN reversals' : reversals'[r].auth = reversals'[s].auth => r = s
    BY <1>6, <1>8, <2>1 DEF IInv, KeysLead
  <2>5. QED
    BY <1>1, <2>2, <2>3, <2>4 DEF IInv, KeysLead
<1>12. QED
  BY <1>9, <1>10, <1>11 DEF IInv

LEMMA StepInv == IInv /\ [Next]_vars => IInv'
<1> SUFFICES ASSUME IInv, [Next]_vars PROVE IInv'
  OBVIOUS
<1>1. ASSUME NEW key \in Key, NEW id \in AuthId, NEW card \in Card, NEW amount \in Amount,
             NEW currency \in Currency, NEW category \in Category, NEW available \in Value,
             NEW day \in Day,
             Authorize(key, id, card, amount, currency, category, available, day)
      PROVE  IInv'
  BY <1>1, AuthorizeInv
<1>2. ASSUME NEW key \in Key, NEW id \in ClearingId, NEW auth \in AuthId,
             NEW amount \in Amount, NEW currency \in Currency,
             Clear(key, id, auth, amount, currency)
      PROVE  IInv'
  BY <1>2, ClearInv
<1>3. ASSUME NEW key \in Key, NEW id \in ReversalId, NEW auth \in AuthId,
             Reverse(key, id, auth)
      PROVE  IInv'
  BY <1>3, ReverseInv
<1>4. CASE UNCHANGED vars
  BY <1>4 DEF IInv, TypeOK, HoldConserved, KeysLead, IsMap, vars, authVars, clearVars,
              reverseVars
<1>5. QED
  BY <1>1, <1>2, <1>3, <1>4 DEF Next

LEMMA Invariance == Spec => []IInv
  BY InitInv, StepInv, PTL DEF Spec

-----------------------------------------------------------------------------
(* The sums                                                                *)

\* The instructions of a hold, and the purchases approved on a card in a day.
Mine(id) == {c \in DOMAIN instructions : instructions[c].auth = id}
Instructed(id) == [c \in Mine(id) |-> instructions[c].amount]

OfThatDay(k, d) == {x \in ApprovedOn(k) : authorizations[x].day = d}
Approved(k, d) == [a \in OfThatDay(k, d) |-> authorizations[a].amount]

\* The Maps are finite, instructions are about holds there are, and only an active card
\* has holds.
Sums ==
  /\ IsFiniteSet(DOMAIN authorizations) /\ IsFiniteSet(DOMAIN instructions)
  /\ \A c \in DOMAIN instructions : instructions[c].auth \in DOMAIN authorizations
  /\ \A a \in DOMAIN authorizations :
       authorizations[a].status # "DECLINED" => Profile[authorizations[a].card].status = "ACTIVE"
  /\ InstructionsMatchHold
  /\ \A k \in Card, d \in Day : ApprovedThatDay(k, d) <= Profile[k].dailyLimit

\* What is approved in a day counts approved holds by card, day and amount only.
LEMMA ApprovedKept ==
  ASSUME DOMAIN authorizations' = DOMAIN authorizations,
         \A x \in DOMAIN authorizations :
           /\ authorizations'[x].card = authorizations[x].card
           /\ authorizations'[x].day = authorizations[x].day
           /\ authorizations'[x].amount = authorizations[x].amount
           /\ authorizations'[x].status = "DECLINED" <=> authorizations[x].status = "DECLINED",
         NEW k, NEW d
  PROVE  ApprovedThatDay(k, d)' = ApprovedThatDay(k, d)
<1>1. OfThatDay(k, d)' = OfThatDay(k, d) /\ OfThatDay(k, d) \subseteq DOMAIN authorizations
  BY DEF OfThatDay, ApprovedOn
<1>2. Approved(k, d)' = Approved(k, d)
  BY <1>1 DEF Approved
<1>3. QED
  BY <1>2 DEF ApprovedThatDay, Approved, OfThatDay

\* What is approved is a finite sum of whole numbers.
LEMMA ApprovedAdds ==
  ASSUME IInv, Sums, NEW k \in Card, NEW d \in Day
  PROVE  /\ OfThatDay(k, d) \subseteq DOMAIN authorizations
         /\ IsFiniteSet(OfThatDay(k, d)) /\ DOMAIN Approved(k, d) = OfThatDay(k, d)
         /\ \A x \in DOMAIN Approved(k, d) : Approved(k, d)[x] \in Int
         /\ ApprovedThatDay(k, d) = Total(Approved(k, d)) /\ ApprovedThatDay(k, d) \in Int
<1>1. OfThatDay(k, d) \subseteq DOMAIN authorizations
  BY DEF OfThatDay, ApprovedOn
<1>2. IsFiniteSet(OfThatDay(k, d)) /\ DOMAIN Approved(k, d) = OfThatDay(k, d)
  BY <1>1, FS_Subset DEF Sums, Approved
<1>3. \A x \in DOMAIN Approved(k, d) : Approved(k, d)[x] \in Int
  BY <1>1, AmountAssumption DEF Approved, IInv, TypeOK, IsMap, Authorization
<1>4. Total(Approved(k, d)) \in Int
  BY <1>2, <1>3, TotalTakes
<1>5. QED
  BY <1>1, <1>2, <1>3, <1>4 DEF ApprovedThatDay, Approved, OfThatDay

\* A sum over one more purchase, or over the same.
LEMMA ApprovedGrows ==
  ASSUME IInv, Sums, NEW id \in AuthId, id \notin DOMAIN authorizations, NEW new \in Authorization,
         authorizations' = Put(authorizations, id, new), NEW k \in Card, NEW d \in Day
  PROVE  ApprovedThatDay(k, d)' = ApprovedThatDay(k, d)
           + IF new.status # "DECLINED" /\ new.card = k /\ new.day = d THEN new.amount ELSE 0
<1>1. /\ DOMAIN authorizations' = DOMAIN authorizations \cup {id}
      /\ authorizations'[id] = new
      /\ \A x \in DOMAIN authorizations : authorizations'[x] = authorizations[x]
  BY DEF Put
<1>2. OfThatDay(k, d) \subseteq DOMAIN authorizations
  BY ApprovedAdds
<1>3. IsFiniteSet(OfThatDay(k, d)) /\ DOMAIN Approved(k, d) = OfThatDay(k, d)
  BY ApprovedAdds
<1>4. \A x \in DOMAIN Approved(k, d) : Approved(k, d)[x] \in Int
  BY ApprovedAdds
<1>5. new.amount \in Int
  <2>1. new.amount \in Amount
    BY DEF Authorization
  <2>2. \A n \in Amount : n \in Int
    BY AmountAssumption
  <2>3. QED
    BY <2>1, <2>2
<1>6. Total(Approved(k, d)) \in Int
  BY <1>3, <1>4, TotalTakes
<1>7. CASE new.status # "DECLINED" /\ new.card = k /\ new.day = d
  <2>1. OfThatDay(k, d)' = OfThatDay(k, d) \cup {id} /\ id \notin OfThatDay(k, d)
    BY <1>1, <1>2, <1>7 DEF OfThatDay, ApprovedOn
  <2>2. /\ DOMAIN Approved(k, d)' = DOMAIN Approved(k, d) \cup {id}
        /\ Approved(k, d)'[id] = new.amount
        /\ \A x \in DOMAIN Approved(k, d) : Approved(k, d)'[x] = Approved(k, d)[x]
    BY <1>1, <1>2, <2>1 DEF Approved
  <2>3. Total(Approved(k, d)') = Total(Approved(k, d)) + new.amount
    BY <1>3, <1>4, <1>5, <2>1, <2>2, TotalPut
  <2>4. QED
    BY <1>7, <2>3 DEF ApprovedThatDay, Approved, OfThatDay
<1>8. CASE ~(new.status # "DECLINED" /\ new.card = k /\ new.day = d)
  <2>1. OfThatDay(k, d)' = OfThatDay(k, d)
    BY <1>1, <1>8 DEF OfThatDay, ApprovedOn
  <2>2. Approved(k, d)' = Approved(k, d)
    BY <1>1, <1>2, <2>1 DEF Approved
  <2>3. Total(Approved(k, d)') = Total(Approved(k, d)) + 0
    BY <1>6, <2>2
  <2>4. QED
    BY <1>8, <2>3 DEF ApprovedThatDay, Approved, OfThatDay
<1>9. QED
  BY <1>7, <1>8

LEMMA AuthorizeSums ==
  ASSUME IInv, Sums, NEW key \in Key, NEW id \in AuthId, NEW card \in Card, NEW amount \in Amount,
         NEW currency \in Currency, NEW category \in Category, NEW available \in Value,
         NEW day \in Day, Authorize(key, id, card, amount, currency, category, available, day)
  PROVE  Sums'
<1> DEFINE approved == Approves(card, amount, currency, category, available, day)
           new == [card |-> card, amount |-> amount, currency |-> currency, day |-> day,
                   status |-> IF approved THEN "OPEN" ELSE "DECLINED",
                   cleared |-> 0, released |-> 0,
                   outstanding |-> IF approved THEN amount ELSE 0]
<1>1. /\ authorizations' = Put(authorizations, id, new) /\ id \notin DOMAIN authorizations
      /\ UNCHANGED <<clearings, instructions, breaks>>
  BY DEF Authorize, clearVars
<1>2. amount \in Nat \ {0}
  BY AmountAssumption
<1>3. /\ new \in Authorization /\ new.cleared = 0 /\ new.card = card /\ new.day = day
      /\ new.amount = amount /\ new.status = IF approved THEN "OPEN" ELSE "DECLINED"
  BY <1>2 DEF Authorization, AuthStatus
<1>4. approved => Profile[card].status = "ACTIVE" /\ ApprovedThatDay(card, day) + amount <= Profile[card].dailyLimit
  BY DEF Approves, WithinDailyLimit
<1> HIDE DEF new, approved
<1>5. /\ DOMAIN authorizations' = DOMAIN authorizations \cup {id}
      /\ authorizations'[id] = new
      /\ \A x \in DOMAIN authorizations : authorizations'[x] = authorizations[x]
  BY <1>1 DEF Put
<1>6. IsFiniteSet(DOMAIN authorizations')
  BY <1>5, FS_AddElement DEF Sums
<1>7. InstructionsMatchHold'
  <2>1. ASSUME NEW x \in DOMAIN authorizations'
        PROVE  /\ Total(Instructed(x)) = authorizations'[x].cleared
               /\ \A c \in Mine(x) : instructions[c].currency = authorizations'[x].currency
    <3>1. CASE x = id
      <4>1. Mine(x) = {}
        BY <1>1, <3>1 DEF Sums, Mine
      <4>2. DOMAIN Instructed(x) = {}
        BY <4>1 DEF Instructed
      <4>3. Total(Instructed(x)) = 0
        BY <4>2, TotalEmpty
      <4>4. QED
        BY <1>3, <1>5, <3>1, <4>1, <4>3
    <3>2. CASE x # id
      <4>1. x \in DOMAIN authorizations /\ authorizations'[x] = authorizations[x]
        BY <1>5, <2>1, <3>2
      <4>2. QED
        BY <4>1 DEF Sums, InstructionsMatchHold, Instructed, Mine
    <3>3. QED
      BY <3>1, <3>2
  <2>2. QED
    BY <1>1, <2>1 DEF Sums, InstructionsMatchHold, Instructed, Mine
<1>8. ASSUME NEW k \in Card, NEW d \in Day
      PROVE  ApprovedThatDay(k, d)' <= Profile[k].dailyLimit
  <2>1. ApprovedThatDay(k, d)' = ApprovedThatDay(k, d)
           + IF new.status # "DECLINED" /\ new.card = k /\ new.day = d THEN new.amount ELSE 0
    BY <1>1, <1>3, ApprovedGrows
  <2>2. ApprovedThatDay(k, d) <= Profile[k].dailyLimit
    BY DEF Sums
  <2>3. ApprovedThatDay(k, d) \in Int
    BY ApprovedAdds
  <2>4. CASE new.status # "DECLINED" /\ new.card = k /\ new.day = d
    BY <1>3, <1>4, <2>1, <2>4
  <2>5. CASE ~(new.status # "DECLINED" /\ new.card = k /\ new.day = d)
    BY <2>1, <2>2, <2>3, <2>5
  <2>6. QED
    BY <2>4, <2>5
<1>9. \A a \in DOMAIN authorizations' :
        authorizations'[a].status # "DECLINED" => Profile[authorizations'[a].card].status = "ACTIVE"
  BY <1>3, <1>4, <1>5 DEF Sums
<1>10. QED
  BY <1>1, <1>5, <1>6, <1>7, <1>8, <1>9 DEF Sums

LEMMA ClearSums ==
  ASSUME IInv, Sums, NEW key \in Key, NEW id \in ClearingId, NEW auth \in AuthId,
         NEW amount \in Amount, NEW currency \in Currency,
         Clear(key, id, auth, amount, currency)
  PROVE  Sums'
<1> DEFINE matched == Matches(auth, amount, currency)
           new == [auth |-> auth, amount |-> amount, currency |-> currency, key |-> key,
                   accepted |-> matched]
<1>1. clearings' = Put(clearings, id, new) /\ id \notin DOMAIN clearings
  BY DEF Clear
<1>2. new.accepted = matched /\ matched \in BOOLEAN
  BY DEF Matches
<1> HIDE DEF new
<1>3. /\ DOMAIN clearings' = DOMAIN clearings \cup {id} /\ clearings'[id].accepted = matched
      /\ \A x \in DOMAIN clearings : clearings'[x] = clearings[x]
  BY <1>1, <1>2 DEF Put
<1>4. /\ DOMAIN instructions = {c \in DOMAIN clearings : clearings[c].accepted}
      /\ breaks = DOMAIN clearings \ DOMAIN instructions
  BY DEF Sums, InstructionsMatchHold
<1>5. CASE matched
  <2> DEFINE a == authorizations[auth]
             b == Consumed(a, amount)
             row == [auth |-> auth, amount |-> amount, currency |-> currency]
  <2>1. /\ auth \in DOMAIN authorizations /\ a.status \in Live /\ amount <= a.outstanding
        /\ a.currency = currency
    BY <1>5 DEF Matches
  <2>2. /\ authorizations' = [authorizations EXCEPT ![auth] = b]
        /\ instructions' = Put(instructions, id, row) /\ breaks' = breaks
    BY <1>5 DEF Clear
  <2>3. a \in Authorization /\ amount \in Nat \ {0}
    BY <2>1, AmountAssumption DEF IInv, TypeOK, IsMap
  <2>4. a.cleared + a.released + a.outstanding = a.amount
    BY <2>1 DEF IInv, HoldConserved, Live
  <2>5. /\ b.card = a.card /\ b.amount = a.amount /\ b.currency = a.currency /\ b.day = a.day
        /\ b.cleared = a.cleared + amount /\ b.status # "DECLINED" /\ a.status # "DECLINED"
    BY <2>1, <2>3, <2>4, ConsumedHold DEF Live
  <2>6. row.auth = auth /\ row.amount = amount /\ row.currency = currency
    OBVIOUS
  <2> HIDE DEF b, row
  <2>7. /\ DOMAIN authorizations' = DOMAIN authorizations
        /\ authorizations'[auth] = b
        /\ \A x \in DOMAIN authorizations : x # auth => authorizations'[x] = authorizations[x]
    BY <2>1, <2>2 DEF IInv, TypeOK, IsMap
  <2>8. /\ id \notin DOMAIN instructions
        /\ DOMAIN instructions' = DOMAIN instructions \cup {id} /\ instructions'[id] = row
        /\ \A x \in DOMAIN instructions : instructions'[x] = instructions[x]
    BY <1>1, <1>4, <2>2 DEF Put
  <2>9. IsFiniteSet(DOMAIN instructions')
    BY <2>8, FS_AddElement DEF Sums
  <2>10. ASSUME NEW x \in DOMAIN authorizations
         PROVE  /\ Total(Instructed(x)') = authorizations'[x].cleared
                /\ \A c \in Mine(x)' : instructions'[c].currency = authorizations'[x].currency
    <3>1. /\ Total(Instructed(x)) = authorizations[x].cleared
          /\ \A c \in Mine(x) : instructions[c].currency = authorizations[x].currency
      BY DEF Sums, InstructionsMatchHold, Instructed, Mine
    <3>2. CASE x = auth
      <4>1. Mine(x)' = Mine(x) \cup {id} /\ id \notin Mine(x) /\ Mine(x) \subseteq DOMAIN instructions
        BY <2>6, <2>8, <3>2 DEF Mine
      <4>2. /\ DOMAIN Instructed(x) = Mine(x) /\ DOMAIN Instructed(x)' = Mine(x) \cup {id}
            /\ Instructed(x)'[id] = amount
            /\ \A c \in Mine(x) : Instructed(x)'[c] = Instructed(x)[c]
        BY <2>6, <2>8, <4>1 DEF Instructed
      <4>3. IsFiniteSet(Mine(x))
        BY <4>1, FS_Subset DEF Sums
      <4>4. \A c \in Mine(x) : Instructed(x)[c] \in Int
        BY <4>1, AmountAssumption DEF Instructed, IInv, TypeOK, IsMap, Instruction
      <4>5. Total(Instructed(x)') = Total(Instructed(x)) + amount
        BY <2>3, <4>1, <4>2, <4>3, <4>4, TotalPut
      <4>6. QED
        BY <2>1, <2>5, <2>6, <2>7, <2>8, <3>1, <3>2, <4>1, <4>5
    <3>3. CASE x # auth
      <4>1. Mine(x)' = Mine(x) /\ Mine(x) \subseteq DOMAIN instructions
        BY <2>6, <2>8, <3>3 DEF Mine
      <4>2. Instructed(x)' = Instructed(x)
        BY <2>8, <4>1 DEF Instructed
      <4>3. QED
        BY <2>7, <2>8, <2>10, <3>1, <3>3, <4>1, <4>2
    <3>4. QED
      BY <3>2, <3>3
  <2>11. InstructionsMatchHold'
    <3>1. /\ DOMAIN instructions' = {c \in DOMAIN clearings' : clearings'[c].accepted}
          /\ breaks' = DOMAIN clearings' \ DOMAIN instructions'
      BY <1>1, <1>3, <1>4, <1>5, <2>2, <2>8
    <3>2. QED
      BY <2>7, <2>10, <3>1 DEF InstructionsMatchHold, Instructed, Mine
  <2>12. \A k \in Card, d \in Day : ApprovedThatDay(k, d)' = ApprovedThatDay(k, d)
    BY <2>5, <2>7, ApprovedKept
  <2>13. /\ \A c \in DOMAIN instructions' : instructions'[c].auth \in DOMAIN authorizations'
         /\ \A x \in DOMAIN authorizations' :
              authorizations'[x].status # "DECLINED" => Profile[authorizations'[x].card].status = "ACTIVE"
    BY <2>1, <2>5, <2>6, <2>7, <2>8 DEF Sums
  <2>14. QED
    BY <2>7, <2>9, <2>11, <2>12, <2>13 DEF Sums
<1>6. CASE ~matched
  <2>1. UNCHANGED <<authorizations, instructions>> /\ breaks' = breaks \cup {id}
    BY <1>6 DEF Clear
  <2>2. /\ DOMAIN instructions' = {c \in DOMAIN clearings' : clearings'[c].accepted}
        /\ breaks' = DOMAIN clearings' \ DOMAIN instructions'
    BY <1>1, <1>3, <1>4, <1>6, <2>1
  <2>3. InstructionsMatchHold'
    BY <2>1, <2>2 DEF Sums, InstructionsMatchHold
  <2>4. \A k \in Card, d \in Day : ApprovedThatDay(k, d)' = ApprovedThatDay(k, d)
    BY <2>1, ApprovedKept
  <2>5. QED
    BY <2>1, <2>3, <2>4 DEF Sums
<1>7. QED
  BY <1>5, <1>6

LEMMA ReverseSums ==
  ASSUME IInv, Sums, NEW key \in Key, NEW id \in ReversalId, NEW auth \in AuthId,
         Reverse(key, id, auth)
  PROVE  Sums'
<1> DEFINE a == authorizations[auth]
           b == Released(a)
<1>1. /\ auth \in DOMAIN authorizations /\ a.status \in Live
      /\ authorizations' = [authorizations EXCEPT ![auth] = b]
      /\ UNCHANGED <<clearings, instructions, breaks>>
  BY DEF Reverse, Reversible, clearVars
<1>2. a \in Authorization
  BY <1>1 DEF IInv, TypeOK, IsMap
<1>3. /\ b.card = a.card /\ b.amount = a.amount /\ b.currency = a.currency /\ b.day = a.day
      /\ b.cleared = a.cleared /\ b.status # "DECLINED" /\ a.status # "DECLINED"
  BY <1>1, <1>2 DEF Released, Authorization, Live
<1> HIDE DEF b
<1>4. /\ DOMAIN authorizations' = DOMAIN authorizations
      /\ authorizations'[auth] = b
      /\ \A x \in DOMAIN authorizations : x # auth => authorizations'[x] = authorizations[x]
  BY <1>1
<1>5. \A x \in DOMAIN authorizations :
        /\ authorizations'[x].cleared = authorizations[x].cleared
        /\ authorizations'[x].currency = authorizations[x].currency
  BY <1>3, <1>4
<1>6. InstructionsMatchHold'
  BY <1>1, <1>4, <1>5 DEF Sums, InstructionsMatchHold
<1>7. \A k \in Card, d \in Day : ApprovedThatDay(k, d)' = ApprovedThatDay(k, d)
  BY <1>3, <1>4, ApprovedKept
<1>8. QED
  BY <1>1, <1>3, <1>4, <1>6, <1>7 DEF Sums

LEMMA InitSums == Init => Sums
<1> SUFFICES ASSUME Init PROVE Sums
  OBVIOUS
<1>1. /\ DOMAIN authorizations = {} /\ DOMAIN instructions = {} /\ DOMAIN clearings = {}
      /\ breaks = {}
  BY EmptyIsMap DEF Init
<1>2. InstructionsMatchHold
  BY <1>1 DEF InstructionsMatchHold
<1>3. ASSUME NEW k \in Card, NEW d \in Day
      PROVE  ApprovedThatDay(k, d) <= Profile[k].dailyLimit
  <2>1. DOMAIN Approved(k, d) = {}
    BY <1>1 DEF Approved, OfThatDay, ApprovedOn
  <2>2. ApprovedThatDay(k, d) = 0
    BY <2>1, TotalEmpty DEF ApprovedThatDay, Approved, OfThatDay
  <2>3. Profile[k].dailyLimit \in Nat
    BY ProfileAssumption DEF CardProfile
  <2>4. QED
    BY <2>2, <2>3
<1>4. QED
  BY <1>1, <1>2, <1>3, FS_EmptySet DEF Sums

LEMMA StepSums == IInv /\ Sums /\ [Next]_vars => Sums'
<1> SUFFICES ASSUME IInv, Sums, [Next]_vars PROVE Sums'
  OBVIOUS
<1>1. ASSUME NEW key \in Key, NEW id \in AuthId, NEW card \in Card, NEW amount \in Amount,
             NEW currency \in Currency, NEW category \in Category, NEW available \in Value,
             NEW day \in Day,
             Authorize(key, id, card, amount, currency, category, available, day)
      PROVE  Sums'
  BY <1>1, AuthorizeSums
<1>2. ASSUME NEW key \in Key, NEW id \in ClearingId, NEW auth \in AuthId,
             NEW amount \in Amount, NEW currency \in Currency,
             Clear(key, id, auth, amount, currency)
      PROVE  Sums'
  BY <1>2, ClearSums
<1>3. ASSUME NEW key \in Key, NEW id \in ReversalId, NEW auth \in AuthId,
             Reverse(key, id, auth)
      PROVE  Sums'
  BY <1>3, ReverseSums
<1>4. CASE UNCHANGED vars
  <2>1. UNCHANGED <<authorizations, instructions, clearings, breaks>>
    BY <1>4 DEF vars, authVars, clearVars
  <2>2. \A k \in Card, d \in Day : ApprovedThatDay(k, d)' = ApprovedThatDay(k, d)
    BY <2>1, ApprovedKept
  <2>3. QED
    BY <2>1, <2>2 DEF Sums, InstructionsMatchHold
<1>5. QED
  BY <1>1, <1>2, <1>3, <1>4 DEF Next

LEMMA SumsHold == Spec => []Sums
  BY Invariance, InitSums, StepSums, PTL DEF Spec

-----------------------------------------------------------------------------
(* The action property                                                     *)

LEMMA AuthorizeShrinks ==
  ASSUME IInv, NEW key \in Key, NEW id \in AuthId, NEW card \in Card, NEW amount \in Amount,
         NEW currency \in Currency, NEW category \in Category, NEW available \in Value,
         NEW day \in Day, Authorize(key, id, card, amount, currency, category, available, day)
  PROVE  Shrinks
<1>1. \A x \in DOMAIN authorizations :
        x \in DOMAIN authorizations' /\ authorizations'[x] = authorizations[x]
  BY DEF Authorize, Put
<1>2. \A x \in DOMAIN authorizations :
        authorizations[x].cleared \in Nat /\ authorizations[x].outstanding \in Nat
  BY DEF IInv, TypeOK, IsMap, Authorization
<1>3. QED
  BY <1>1, <1>2 DEF Shrinks

LEMMA ClearShrinks ==
  ASSUME IInv, NEW key \in Key, NEW id \in ClearingId, NEW auth \in AuthId,
         NEW amount \in Amount, NEW currency \in Currency,
         Clear(key, id, auth, amount, currency)
  PROVE  Shrinks
<1>1. \A x \in DOMAIN authorizations :
        authorizations[x].cleared \in Nat /\ authorizations[x].outstanding \in Nat
  BY DEF IInv, TypeOK, IsMap, Authorization
<1>2. CASE Matches(auth, amount, currency)
  <2> DEFINE a == authorizations[auth]
             b == Consumed(a, amount)
  <2>1. /\ auth \in DOMAIN authorizations /\ a.status \in Live /\ amount <= a.outstanding
        /\ authorizations' = [authorizations EXCEPT ![auth] = b]
    BY <1>2 DEF Matches, Clear
  <2>2. a \in Authorization /\ amount \in Nat \ {0}
    BY <2>1, AmountAssumption DEF IInv, TypeOK, IsMap
  <2>3. a.cleared + a.released + a.outstanding = a.amount
    BY <2>1 DEF IInv, HoldConserved, Live
  <2>4. b.cleared = a.cleared + amount /\ b.outstanding = a.outstanding - amount
    BY <2>1, <2>2, <2>3, ConsumedHold
  <2> HIDE DEF b
  <2>5. /\ DOMAIN authorizations' = DOMAIN authorizations
        /\ authorizations'[auth] = b
        /\ \A x \in DOMAIN authorizations : x # auth => authorizations'[x] = authorizations[x]
    BY <2>1
  <2>6. b.cleared >= a.cleared /\ b.outstanding <= a.outstanding
    BY <1>1, <2>1, <2>2, <2>4
  <2>7. QED
    BY <1>1, <2>1, <2>5, <2>6 DEF Shrinks
<1>3. CASE ~Matches(auth, amount, currency)
  BY <1>1, <1>3 DEF Clear, Shrinks
<1>4. QED
  BY <1>2, <1>3

LEMMA ReverseShrinks ==
  ASSUME IInv, NEW key \in Key, NEW id \in ReversalId, NEW auth \in AuthId,
         Reverse(key, id, auth)
  PROVE  Shrinks
<1> DEFINE a == authorizations[auth]
           b == Released(a)
<1>1. /\ auth \in DOMAIN authorizations /\ a.status \in Live
      /\ authorizations' = [authorizations EXCEPT ![auth] = b]
  BY DEF Reverse, Reversible
<1>2. \A x \in DOMAIN authorizations :
        /\ authorizations[x] \in Authorization
        /\ authorizations[x].cleared \in Nat /\ authorizations[x].outstanding \in Nat
  BY DEF IInv, TypeOK, IsMap, Authorization
<1>3. b.cleared = a.cleared /\ b.outstanding = 0
  BY <1>1, <1>2 DEF Released, Authorization
<1> HIDE DEF b
<1>4. /\ DOMAIN authorizations' = DOMAIN authorizations
      /\ authorizations'[auth] = b
      /\ \A x \in DOMAIN authorizations : x # auth => authorizations'[x] = authorizations[x]
  BY <1>1
<1>5. QED
  BY <1>1, <1>2, <1>3, <1>4 DEF Shrinks

LEMMA StepShrinks == IInv /\ [Next]_vars => [Shrinks]_vars
<1> SUFFICES ASSUME IInv, Next PROVE Shrinks
  OBVIOUS
<1>1. ASSUME NEW key \in Key, NEW id \in AuthId, NEW card \in Card, NEW amount \in Amount,
             NEW currency \in Currency, NEW category \in Category, NEW available \in Value,
             NEW day \in Day,
             Authorize(key, id, card, amount, currency, category, available, day)
      PROVE  Shrinks
  BY <1>1, AuthorizeShrinks
<1>2. ASSUME NEW key \in Key, NEW id \in ClearingId, NEW auth \in AuthId,
             NEW amount \in Amount, NEW currency \in Currency,
             Clear(key, id, auth, amount, currency)
      PROVE  Shrinks
  BY <1>2, ClearShrinks
<1>3. ASSUME NEW key \in Key, NEW id \in ReversalId, NEW auth \in AuthId,
             Reverse(key, id, auth)
      PROVE  Shrinks
  BY <1>3, ReverseShrinks
<1>4. QED
  BY <1>1, <1>2, <1>3 DEF Next

-----------------------------------------------------------------------------
(* Theorems                                                                *)

\* In every behaviour the Maps of the simulator hold values of their types.
THEOREM TypeCorrect == Spec => []TypeOK
<1>1. IInv => TypeOK
  BY DEF IInv
<1>2. QED
  BY <1>1, Invariance, PTL

\* For any limits and amounts, and any order of authorizing, clearing and reversing,
\* what is cleared, released and outstanding of a hold is the amount approved.
THEOREM HoldsConserved == Spec => []HoldConserved
<1>1. IInv => HoldConserved
  BY DEF IInv
<1>2. QED
  BY <1>1, Invariance, PTL

\* However often commands are retried, one key makes one clearing or reversal and a
\* hold is reversed at most once.
THEOREM RetriesActOnce == Spec => []RetryActsOnce
<1>1. IInv => RetryActsOnce
  BY DEF IInv, KeysLead, RetryActsOnce
<1>2. QED
  BY <1>1, Invariance, PTL

\* Whatever is cleared of a hold was passed on to settlement, amount by amount and in
\* its currency, and every clearing that was not is in the break queue (clear).
THEOREM InstructionsMatch == Spec => []InstructionsMatchHold
<1>1. Sums => InstructionsMatchHold
  BY DEF Sums
<1>2. QED
  BY <1>1, SumsHold, PTL

\* For any limits, no day's approvals on a card add up to more than its daily limit, and
\* a card that is not active holds nothing (authorize).
THEOREM DailyLimits == Spec => []DailyLimitHeld
<1>1. IInv /\ Sums => DailyLimitHeld
  <2>1. SUFFICES ASSUME IInv, Sums, NEW k \in Card, Profile[k].status # "ACTIVE"
                 PROVE  Reserved(k) = 0
    BY DEF Sums, DailyLimitHeld
  <2>2. ApprovedOn(k) = {}
    BY <2>1 DEF ApprovedOn, Sums
  <2>3. DOMAIN [a \in ApprovedOn(k) |-> authorizations[a].outstanding] = {}
    BY <2>2
  <2>4. QED
    BY <2>3, TotalEmpty DEF Reserved
<1>2. QED
  BY <1>1, Invariance, SumsHold, PTL

\* No step takes back a presentment, enlarges a hold or touches a closed one.
THEOREM HoldsShrink == Spec => HoldsOnlyShrink
  BY Invariance, StepShrinks, PTL DEF Spec, HoldsOnlyShrink
=============================================================================
