---------------------------- MODULE LockPricing ----------------------------
(***************************************************************************)
(* What a price lock costs: get_current_lock_options, which the customer   *)
(* app shows and create_scoped_demo_lock prices from, and the older        *)
(* create_demo_lock, which prices from a snapshot.                         *)
(*                                                                         *)
(* A call is one database transaction of several statements: now() is the  *)
(* moment it began, what a statement reads is what is committed when that  *)
(* statement runs.  So the feed and the operators may commit between the   *)
(* page that shows an option, the call, its selection and its commit.  The *)
(* page reads under the row-level-security policies, the call does not.    *)
(*                                                                         *)
(* The volume of a lock and its redemptions are PriceLock's; a market, a   *)
(* grade and a currency are fixed, and prices are whole units.             *)
(***************************************************************************)
EXTENDS Maps, Sequences

CONSTANTS
  Pump, ChainOf,      \* the stations, and station -> provider
  SeedPrice,          \* station -> the price of its first observation
  PumpPrice,          \* prices an observation may have
  SeedSnapshot,       \* the price of the first row of price_snapshots
  SnapshotDiscount,   \* v_discount of the market
  LockCall,           \* calls under way
  LockUser,
  OfferWindow,        \* "24 hours"
  LastTick,           \* bound: the clock
  MaxRows,            \* bound: observations and snapshots beyond the first ones
  MaxBought,          \* bound: locks created or under way
  Suspendable,        \* bound: the stations and providers that an operator suspends
  NotCalling

ASSUME LockPricingAssumption ==
  /\ IsFiniteSet(Pump) /\ DOMAIN ChainOf = Pump
  /\ DOMAIN SeedPrice = Pump /\ \A p \in Pump : SeedPrice[p] \in Nat \ {0}
  /\ PumpPrice \subseteq Nat \ {0} /\ {OfferWindow, LastTick, MaxRows, MaxBought} \subseteq Nat

VARIABLES
  ticks,       \* the clock
  running,     \* the stations and the providers that are active
  sightings,   \* station_price_observations: <<station, observed_at>> -> [price, quality]
  price_snapshots,   \* price_snapshots, in the order of observed_at
  shownOffer,  \* user -> the scopes the page shows a price for
  buying,      \* call -> its progress
  cap_quotes,  \* the rows of cap_quotes
  bought       \* the rows of price_locks, each with its row of transactions

lockPriceVars == <<ticks, running, sightings, price_snapshots, shownOffer, buying, cap_quotes, bought>>
marketVars == <<running, sightings, price_snapshots>>

Chain == {ChainOf[p] : p \in Pump}
Everywhere == <<"country">>
LockScope == {Everywhere} \cup ({"provider"} \X Chain) \cup ({"station"} \X Pump)

\* The stations a lock may be used at.
Within(scope) ==
  {p \in Pump : scope \in {Everywhere, <<"provider", ChainOf[p]>>, <<"station", p>>}}

LockPricingInit ==
  /\ ticks = 0
  /\ running = Pump \cup Chain
  /\ sightings = [k \in Pump \X {0} |-> [price |-> SeedPrice[k[1]], quality |-> "verified"]]
  /\ price_snapshots = <<SeedSnapshot>>
  /\ shownOffer = [u \in LockUser |-> {}]
  /\ buying = [c \in LockCall |-> NotCalling]
  /\ cap_quotes = <<>> /\ bought = <<>>

-----------------------------------------------------------------------------
(* get_current_lock_options                                                *)

\* Mutant of Selling: a station of a suspended provider is still one.
SellingItself(p) == p \in running

Selling(p) == p \in running /\ ChainOf[p] \in running

\* The verified observations of a station within the window of a transaction.
Fresh(p, at) ==
  {k \in DOMAIN sightings : k[1] = p /\ sightings[k].quality = "verified" /\ at - k[2] <= OfferWindow}

\* latest: each station on sale, at its last fresh observation.
LatestOf(on, at) ==
  [p \in {p \in on : Fresh(p, at) # {}} |->
     sightings[CHOOSE k \in Fresh(p, at) : \A l \in Fresh(p, at) : l[2] <= k[2]].price]

\* An option for every scope that has a station: the highest of its prices.
OptionsOf(on, at) ==
  LET latest == LatestOf(on, at) IN
  [s \in {s \in LockScope : Within(s) \cap DOMAIN latest # {}} |->
     CHOOSE m \in {latest[p] : p \in Within(s) \cap DOMAIN latest} :
       \A p \in Within(s) \cap DOMAIN latest : latest[p] <= m]

LockOptions(at) == OptionsOf({p \in Pump : Selling(p)}, at)

\* providers_public_read, stations_public_read: the stations, joined with the providers, of
\* which anyone sees the rows.
Public == {p \in Pump : p \in running /\ ChainOf[p] \in running}
PublicOptions(at) == OptionsOf({p \in Public : Selling(p)}, at)

\* The page asks for the options.
LoadOptions(u) ==
  /\ shownOffer' = [shownOffer EXCEPT ![u] = DOMAIN PublicOptions(ticks)]
  /\ UNCHANGED <<ticks, marketVars, buying, cap_quotes, bought>>

-----------------------------------------------------------------------------
(* create_scoped_demo_lock and create_demo_lock                            *)

Calling == {c \in LockCall : buying[c] # NotCalling}
Room == Len(bought) + Cardinality(Calling) < MaxBought

\* The app locks a scope that it shows; the price that it shows is not an argument.
BeginScoped(c, u, scope) ==
  /\ buying[c] = NotCalling /\ Room
  /\ scope \in shownOffer[u]
  /\ buying' = [buying EXCEPT ![c] = [pc |-> "scoped", user |-> u, scope |-> scope, began |-> ticks]]
  /\ UNCHANGED <<ticks, marketVars, shownOffer, cap_quotes, bought>>

\* The option as it is now, or an exception.
SelectOption(c) ==
  /\ c \in Calling /\ buying[c].pc = "scoped"
  /\ LET options == LockOptions(buying[c].began) IN
     buying' = [buying EXCEPT ![c] =
       IF @.scope \in DOMAIN options
       THEN [pc |-> "priced", user |-> @.user, scope |-> @.scope, began |-> @.began,
             price |-> options[@.scope], quoted |-> TRUE]
       ELSE NotCalling]
  /\ UNCHANGED <<ticks, marketVars, shownOffer, cap_quotes, bought>>

\* create_demo_lock: the last snapshot less the discount, and never nothing.
PriceFromSnapshot(c, u) ==
  /\ buying[c] = NotCalling /\ Room
  /\ buying' = [buying EXCEPT ![c] =
       [pc |-> "priced", user |-> u, scope |-> Everywhere, began |-> ticks, quoted |-> FALSE,
        price |-> Larger(price_snapshots[Len(price_snapshots)] - SnapshotDiscount, 1)]]
  /\ UNCHANGED <<ticks, marketVars, shownOffer, cap_quotes, bought>>

\* The quote, the lock and the transaction are inserted and committed together.
CommitLock(c) ==
  LET b == buying[c] IN
  /\ c \in Calling /\ b.pc = "priced"
  /\ IF b.quoted
     THEN /\ cap_quotes' = Append(cap_quotes, [user |-> b.user, scope |-> b.scope, price |-> b.price, at |-> b.began])
          /\ bought' = Append(bought, [owner |-> b.user, scope |-> b.scope, price |-> b.price,
                                       at |-> b.began, quote |-> Len(cap_quotes) + 1])
     ELSE /\ bought' = Append(bought, [owner |-> b.user, scope |-> b.scope, price |-> b.price,
                                       at |-> b.began, quote |-> 0])
          /\ UNCHANGED cap_quotes
  /\ buying' = [buying EXCEPT ![c] = NotCalling]
  /\ UNCHANGED <<ticks, marketVars, shownOffer>>

\* A lost connection: nothing of the call remains.
RollBack(c) ==
  /\ c \in Calling
  /\ buying' = [buying EXCEPT ![c] = NotCalling]
  /\ UNCHANGED <<ticks, marketVars, shownOffer, cap_quotes, bought>>

-----------------------------------------------------------------------------
(* The feed, the operators and the clock                                   *)

Extra == Cardinality(DOMAIN sightings) - Cardinality(Pump) + Len(price_snapshots) - 1

\* The feed stores an observation, late ones too; one that is there already is kept.
StoreSighting(p, at, price, quality) ==
  /\ Extra < MaxRows /\ <<p, at>> \notin DOMAIN sightings
  /\ sightings' = Put(sightings, <<p, at>>, [price |-> price, quality |-> quality])
  /\ UNCHANGED <<ticks, running, price_snapshots, shownOffer, buying, cap_quotes, bought>>

StoreSnapshot(price) ==
  /\ Extra < MaxRows
  /\ price_snapshots' = Append(price_snapshots, price)
  /\ UNCHANGED <<ticks, running, sightings, shownOffer, buying, cap_quotes, bought>>

\* An operator suspends a station or a provider, or takes it back.
Switch(x) ==
  /\ running' = IF x \in running THEN running \ {x} ELSE running \cup {x}
  /\ UNCHANGED <<ticks, sightings, price_snapshots, shownOffer, buying, cap_quotes, bought>>

ClockTick ==
  /\ ticks < LastTick /\ ticks' = ticks + 1
  /\ UNCHANGED <<marketVars, shownOffer, buying, cap_quotes, bought>>

LockPricingNext ==
  \/ \E c \in LockCall :
       \/ SelectOption(c) \/ CommitLock(c) \/ RollBack(c)
       \/ \E u \in LockUser :
            \/ PriceFromSnapshot(c, u)
            \/ \E scope \in LockScope : BeginScoped(c, u, scope)
  \/ \E u \in LockUser : LoadOptions(u)
  \/ \E p \in Pump, price \in PumpPrice : \E at \in 0 .. ticks, quality \in {"verified", "rejected"} :
       StoreSighting(p, at, price, quality)
  \/ \E price \in PumpPrice : StoreSnapshot(price)
  \/ \E x \in Suspendable : Switch(x)
  \/ ClockTick

-----------------------------------------------------------------------------
(* Properties                                                              *)

\* The page, under the policies, and the call, past them, price alike at every moment.
ShownAsLocked == PublicOptions(ticks) = LockOptions(ticks)

\* A lock that may be used at more stations never costs less.
WiderCostsMore ==
  LET options == LockOptions(ticks) IN
  \A s, t \in DOMAIN options : Within(s) \subseteq Within(t) => options[s] <= options[t]

\* A quote rests on a verified observation of a station of its scope that was fresh when
\* the call began, whatever became of the station since; and no lock is without its own
\* quote, or shares one, except those priced from a snapshot.
QuotesGrounded ==
  /\ \A i \in DOMAIN cap_quotes :
       \E p \in Within(cap_quotes[i].scope), k \in DOMAIN sightings :
         k \in Fresh(p, cap_quotes[i].at) /\ sightings[k].price = cap_quotes[i].price
  /\ \A i \in DOMAIN cap_quotes :
       Cardinality({j \in DOMAIN bought : bought[j].quote = i}) = 1
  /\ \A j \in DOMAIN bought : bought[j].quote # 0 =>
       [user |-> bought[j].owner, scope |-> bought[j].scope, price |-> bought[j].price, at |-> bought[j].at]
         = cap_quotes[bought[j].quote]

LocksPriced == ShownAsLocked /\ WiderCostsMore /\ QuotesGrounded
=============================================================================
