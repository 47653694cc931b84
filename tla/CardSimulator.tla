--------------------------- MODULE CardSimulator ---------------------------
(***************************************************************************)
(* packages/card-simulator: authorization holds on a card, the clearings   *)
(* that consume them and the reversals that release them.                  *)
(*                                                                         *)
(* The three operations are synchronous methods of one object, so each is  *)
(* one action.  A command whose idempotency key is known either returns    *)
(* the stored result (same fingerprint) or throws: both leave every Map    *)
(* alone, so the guard of the action is that the key is new.  Thrown       *)
(* errors are likewise disabled actions.  A timestamp is reduced to its    *)
(* day, all that dateKey keeps of it.                                      *)
(***************************************************************************)
EXTENDS Maps

CONSTANTS
  Card,          \* card ids
  Profile,       \* the card profiles given to the constructor
  AuthId, ClearingId, ReversalId, Key,
  Amount,        \* amountMinor of commands
  Value,         \* availableValueMinor quoted by callers
  Currency, Category, Day

CardStatus == {"ACTIVE", "FROZEN", "CLOSED"}

CardProfile ==
  [currency : Currency, status : CardStatus, categories : SUBSET Category,
   transactionLimit : Nat \ {0}, dailyLimit : Nat \ {0}]

ASSUME ProfileAssumption ==
  /\ Profile \in [Card -> CardProfile]
  /\ \A k \in Card : Profile[k].transactionLimit <= Profile[k].dailyLimit
ASSUME AmountAssumption == Amount \subseteq Nat \ {0} /\ Value \subseteq Nat

VARIABLES
  authorizations,     \* AuthId -> authorization
  authorizationKeys,  \* Key -> AuthId
  clearings,          \* ClearingId -> clearing
  clearingKeys,       \* Key -> ClearingId
  reversals,          \* ReversalId -> reversal
  reversalKeys,       \* Key -> ReversalId
  instructions,       \* ClearingId -> instruction for the settlement side
  breaks              \* the clearings in the reconciliation break queue

authVars == <<authorizations, authorizationKeys>>
clearVars == <<clearings, clearingKeys, instructions, breaks>>
reverseVars == <<reversals, reversalKeys>>
vars == <<authVars, clearVars, reverseVars>>

AuthStatus == {"OPEN", "PARTIALLY_CLEARED", "CLEARED", "REVERSED", "DECLINED"}

Authorization ==
  [card : Card, amount : Amount, currency : Currency, day : Day,
   status : AuthStatus, cleared : Nat, released : Nat, outstanding : Nat]

Clearing ==
  [auth : AuthId, amount : Amount, currency : Currency, key : Key, accepted : BOOLEAN]

Reversal == [auth : AuthId, released : Nat, key : Key]

Instruction == [auth : AuthId, amount : Amount, currency : Currency]

Live == {"OPEN", "PARTIALLY_CLEARED"}

Init ==
  /\ authorizations = EmptyMap /\ authorizationKeys = EmptyMap
  /\ clearings = EmptyMap /\ clearingKeys = EmptyMap
  /\ reversals = EmptyMap /\ reversalKeys = EmptyMap
  /\ instructions = EmptyMap /\ breaks = {}

-----------------------------------------------------------------------------
(* authorize                                                               *)

ApprovedOn(card) ==
  {a \in DOMAIN authorizations : /\ authorizations[a].card = card
                                 /\ authorizations[a].status # "DECLINED"}

\* Mutant of Reserved: open holds are forgotten.
NothingReserved(card) == 0

\* Holds on the card that are neither cleared nor released.
Reserved(card) == Total([a \in ApprovedOn(card) |-> authorizations[a].outstanding])

\* The full amount counts all day, whatever was reversed since.
ApprovedThatDay(card, day) ==
  Total([a \in {x \in ApprovedOn(card) : authorizations[x].day = day} |-> authorizations[a].amount])

\* Mutant of WithinDailyLimit: each purchase is compared with the limit on its own.
EachWithinDailyLimit(card, amount, day) == amount <= Profile[card].dailyLimit

WithinDailyLimit(card, amount, day) ==
  ApprovedThatDay(card, day) + amount <= Profile[card].dailyLimit

\* The six checks whose first failure is the decline reason.
Approves(card, amount, currency, category, available, day) ==
  /\ Profile[card].status = "ACTIVE"
  /\ Profile[card].currency = currency
  /\ category \in Profile[card].categories
  /\ amount <= Profile[card].transactionLimit
  /\ WithinDailyLimit(card, amount, day)
  /\ Reserved(card) + amount <= available

Authorize(key, id, card, amount, currency, category, available, day) ==
  /\ NewKey(authorizationKeys, key)
  /\ id \notin DOMAIN authorizations
  /\ LET approved == Approves(card, amount, currency, category, available, day)
     IN authorizations' = Put(authorizations, id,
          [card |-> card, amount |-> amount, currency |-> currency, day |-> day,
           status |-> IF approved THEN "OPEN" ELSE "DECLINED",
           cleared |-> 0, released |-> 0,
           outstanding |-> IF approved THEN amount ELSE 0])
  /\ authorizationKeys' = Put(authorizationKeys, key, id)
  /\ UNCHANGED <<clearVars, reverseVars>>

-----------------------------------------------------------------------------
(* clear                                                                   *)

\* Mutants of Matches: any amount, any currency.
MatchesAnyAmount(auth, amount, currency) ==
  /\ auth \in DOMAIN authorizations
  /\ authorizations[auth].status \in Live
  /\ authorizations[auth].currency = currency

MatchesAnyCurrency(auth, amount, currency) ==
  /\ auth \in DOMAIN authorizations
  /\ authorizations[auth].status \in Live
  /\ amount <= authorizations[auth].outstanding

\* Reason MATCHED_AUTHORIZATION; any other reason makes the clearing a break.
Matches(auth, amount, currency) ==
  /\ auth \in DOMAIN authorizations
  /\ authorizations[auth].status \in Live
  /\ authorizations[auth].currency = currency
  /\ amount <= authorizations[auth].outstanding

\* The authorization after one of its clearings is accepted.
Consumed(a, amount) ==
  LET outstanding == a.amount - (a.cleared + amount) - a.released
  IN [a EXCEPT !.cleared = @ + amount, !.outstanding = outstanding,
               !.status = IF outstanding = 0 THEN "CLEARED" ELSE "PARTIALLY_CLEARED"]

Clear(key, id, auth, amount, currency) ==
  /\ NewKey(clearingKeys, key)
  /\ id \notin DOMAIN clearings
  /\ clearingKeys' = Put(clearingKeys, key, id)
  /\ clearings' = Put(clearings, id,
       [auth |-> auth, amount |-> amount, currency |-> currency, key |-> key,
        accepted |-> Matches(auth, amount, currency)])
  /\ \/ /\ Matches(auth, amount, currency)
        /\ authorizations' = [authorizations EXCEPT ![auth] = Consumed(@, amount)]
        /\ instructions' = Put(instructions, id,
             [auth |-> auth, amount |-> amount, currency |-> currency])
        /\ UNCHANGED breaks
     \/ /\ ~Matches(auth, amount, currency)
        /\ breaks' = breaks \cup {id}
        /\ UNCHANGED <<authorizations, instructions>>
  /\ UNCHANGED <<authorizationKeys, reverseVars>>

-----------------------------------------------------------------------------
(* reverse                                                                 *)

\* Mutant of Reversible: a hold that is already closed may be reversed.
AnyReversible(auth) == auth \in DOMAIN authorizations

Reversible(auth) ==
  auth \in DOMAIN authorizations /\ authorizations[auth].status \in Live

\* Mutant of Released: the approved amount is released, cleared or not.
ReleasedWhole(a) ==
  [a EXCEPT !.released = @ + a.amount, !.outstanding = 0, !.status = "REVERSED"]

\* The authorization after its reversal.
Released(a) ==
  [a EXCEPT !.released = @ + a.outstanding, !.outstanding = 0, !.status = "REVERSED"]

Reverse(key, id, auth) ==
  /\ NewKey(reversalKeys, key)
  /\ id \notin DOMAIN reversals
  /\ Reversible(auth)
  /\ authorizations' = [authorizations EXCEPT ![auth] = Released(@)]
  /\ reversals' = Put(reversals, id,
       [auth |-> auth, released |-> authorizations[auth].outstanding, key |-> key])
  /\ reversalKeys' = Put(reversalKeys, key, id)
  /\ UNCHANGED <<authorizationKeys, clearVars>>

-----------------------------------------------------------------------------
Next ==
  \/ \E key \in Key, id \in AuthId, card \in Card, amount \in Amount,
        currency \in Currency, category \in Category, available \in Value, day \in Day :
       Authorize(key, id, card, amount, currency, category, available, day)
  \/ \E key \in Key, id \in ClearingId, auth \in AuthId, amount \in Amount,
        currency \in Currency : Clear(key, id, auth, amount, currency)
  \/ \E key \in Key, id \in ReversalId, auth \in AuthId : Reverse(key, id, auth)

Spec == Init /\ [][Next]_vars

-----------------------------------------------------------------------------
(* Properties                                                              *)

\* Every Map holds values of its declared type.
TypeOK ==
  /\ IsMap(authorizations, AuthId, Authorization)
  /\ IsMap(authorizationKeys, Key, AuthId)
  /\ IsMap(clearings, ClearingId, Clearing)
  /\ IsMap(clearingKeys, Key, ClearingId)
  /\ IsMap(reversals, ReversalId, Reversal)
  /\ IsMap(reversalKeys, Key, ReversalId)
  /\ IsMap(instructions, ClearingId, Instruction)
  /\ breaks \subseteq ClearingId

\* What an approved hold is made of: cleared, released and outstanding value add
\* up to the amount approved after any order of clear and reverse, and the status
\* says which of them are left.
HoldConserved ==
  \A id \in DOMAIN authorizations :
    LET a == authorizations[id] IN
    IF a.status = "DECLINED"
    THEN a.cleared = 0 /\ a.released = 0 /\ a.outstanding = 0
    ELSE /\ a.cleared + a.released + a.outstanding = a.amount
         /\ a.status = "OPEN" => a.cleared = 0 /\ a.released = 0
         /\ a.status \in Live => a.outstanding > 0 /\ a.released = 0
         /\ a.status \in {"CLEARED", "REVERSED"} => a.outstanding = 0
         /\ a.status = "REVERSED" <=> a.released > 0

\* Settlement is told of exactly the money that left the hold: the instructions of
\* an authorization sum to its cleared value, in its currency, once per accepted
\* clearing, and every other clearing is in the break queue instead.
InstructionsMatchHold ==
  /\ \A id \in DOMAIN authorizations :
       LET mine == {c \in DOMAIN instructions : instructions[c].auth = id}
       IN /\ Total([c \in mine |-> instructions[c].amount]) = authorizations[id].cleared
          /\ \A c \in mine : instructions[c].currency = authorizations[id].currency
  /\ DOMAIN instructions = {c \in DOMAIN clearings : clearings[c].accepted}
  /\ breaks = DOMAIN clearings \ DOMAIN instructions

\* A retried command never acts a second time: one key, one clearing or reversal,
\* and no hold is released twice.
RetryActsOnce ==
  /\ \A c, d \in DOMAIN clearings : clearings[c].key = clearings[d].key => c = d
  /\ \A r, s \in DOMAIN reversals :
       reversals[r].key = reversals[s].key \/ reversals[r].auth = reversals[s].auth => r = s

\* The value authorized on a card in one day stays within its daily limit, and
\* only an active card holds anything.
DailyLimitHeld ==
  \A k \in Card :
    /\ \A d \in Day : ApprovedThatDay(k, d) <= Profile[k].dailyLimit
    /\ Profile[k].status # "ACTIVE" => Reserved(k) = 0

\* What a step may do to the holds there are.
Shrinks ==
  \A id \in DOMAIN authorizations :
    /\ id \in DOMAIN authorizations'
    /\ authorizations'[id].cleared >= authorizations[id].cleared
    /\ authorizations'[id].outstanding <= authorizations[id].outstanding
    /\ authorizations[id].status \notin Live => authorizations'[id] = authorizations[id]

\* No step undoes a presentment: cleared value only grows, a hold only shrinks,
\* and a closed authorization (cleared, reversed, declined) stays as it is.
HoldsOnlyShrink == [][Shrinks]_vars
=============================================================================
