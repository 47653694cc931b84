---------------------------- MODULE CustomerApp ----------------------------
(***************************************************************************)
(* The customer app: first the arithmetic of a protection, then the page.  *)
(*                                                                         *)
(* The protection arithmetic of the customer app: src/lib/protection.ts    *)
(* and the medians of src/lib/price-options.ts.  Prices, held and charged  *)
(* amounts are in ten-thousandths, the wallet and the statement in cents;  *)
(* volumes are whole.  The program computes in binary floating point and   *)
(* adds 1e-7 before it rounds: on these values that is rounding half up.   *)
(***************************************************************************)
EXTENDS Integers, FiniteSets, SequencesExt, Maps

HalfUp(n, d) == (2 * n + d) \div (2 * d)

Cents(amount) == HalfUp(amount, 100)

quoteProtection(reference, volume) ==
  LET strike == HalfUp(105 * reference, 100)
      charge == volume * HalfUp(23 * reference, 1000)
      held   == volume * strike
  IN [strike |-> strike, boundary |-> HalfUp(115 * reference, 100),
      held |-> held, charge |-> charge, total |-> Cents(held) + Cents(charge)]

\* At least 100.00, otherwise the shortfall rounded up to the next 50.00.
topUpFor(total, wallet) ==
  LET fifties == (total - wallet + 4999) \div 5000
  IN IF total <= wallet THEN 0 ELSE IF fifties < 2 THEN 10000 ELSE 5000 * fifties

\* Mutant of fromWalletAbove: the customer bears what is above the maximum price.
fromWalletAboveStrike(volume, pump, strike, boundary) == Cents((pump - strike) * volume)

fromWalletAbove(volume, pump, strike, boundary) == Cents((pump - boundary) * volume)

\* "fall" below the maximum price, "cap" at it, "rise" up to the limit, "spike" above.
settleFill(volume, pump, strike, boundary) ==
  LET fill(outcome, protected, wallet, covered, returned) ==
        [outcome |-> outcome, fromProtected |-> protected, fromWallet |-> wallet,
         covered |-> covered, returned |-> returned, heldReleased |-> volume * strike,
         stationTotal |-> Cents(volume * pump)]
  IN CASE pump < strike  -> fill("fall", Cents(volume * pump), 0, 0,
                                 Cents((strike - pump) * volume))
       [] pump = strike  -> fill("cap", Cents(volume * strike), 0, 0, 0)
       [] pump > strike /\ pump <= boundary ->
                            fill("rise", Cents(volume * strike), 0,
                                 Cents((pump - strike) * volume), 0)
       [] OTHER          -> fill("spike", Cents(volume * strike),
                                 fromWalletAbove(volume, pump, strike, boundary),
                                 Cents((boundary - strike) * volume), 0)

\* The median of a price list: the middle price, or half-way between the two.
median(price) ==
  LET n == Cardinality(DOMAIN price)
      middle == n \div 2
  IN IF n % 2 = 1 THEN Ranked(price, middle + 1)
     ELSE HalfUp(Ranked(price, middle) + Ranked(price, middle + 1), 2)

-----------------------------------------------------------------------------
(***************************************************************************)
(* The customer app: the FuelCapApp component of fuelcap-app.tsx.  Nobody  *)
(* signed in, it is a demonstrator whose wallets and protections live in   *)
(* the page and in localStorage; signed in, it locks and redeems through   *)
(* the database and shows what it loads back.  The price list, the control *)
(* price, the sign-in and every load answer in their own time, and every   *)
(* handler uses what the page holds at that moment.                        *)
(*                                                                         *)
(* A list is kept as its station prices: the medians for a brand and for   *)
(* anywhere follow from them.  An account's transactions are kept as their *)
(* sums.  "synced" and a lock's "market" and "row" are history: where a    *)
(* lock was really created, and that the database has replaced the list.   *)
(***************************************************************************)
CONSTANTS
  Markets, Home,      \* the markets, and the one the page starts in
  Feeds,              \* market -> the station price lists a fetch may return
  Brand,              \* station -> provider
  ControlAnswers,     \* what the control room may answer: [price, paused]
  Baseline,           \* the baseline control price
  CloudPrice,         \* market -> the price the database locks at
  FundAmount, FillSizes, LockSizes,
  Loads,              \* loads of the database that overlap
  MaxLocks, MaxFills, MaxTopUps  \* bounds, over all accounts and rows

\* A list that is published has a station, and the control price moves none below zero.
ASSUME AppAssumption ==
  /\ Home \in Markets /\ "nothing" \notin Markets /\ Baseline \in Int
  /\ {FundAmount} \cup FillSizes \cup LockSizes \subseteq Nat
  /\ \A m \in Markets : \A prices \in Feeds[m] :
       /\ DOMAIN prices # {} /\ IsFiniteSet(DOMAIN prices)
       /\ \A s \in DOMAIN prices : prices[s] \in Nat
  /\ \A answer \in ControlAnswers : answer.price \in Int
  /\ \A answer \in ControlAnswers : \A prices \in Feeds[Home] : \A s \in DOMAIN prices :
       prices[s] + answer.price >= Baseline

VARIABLES page, accounts, disk, cloud, loads

appVars == <<page, accounts, disk, cloud, loads>>

Nothing == "nothing"
Anywhere == <<"country", Nothing>>
EmptyAccount == [wallet |-> 0, locks |-> <<>>, topUps |-> 0, paid |-> 0, covered |-> 0,
                 station |-> 0, fills |-> 0, synced |-> FALSE]
emptyAccounts == [m \in Markets |-> EmptyAccount]
NewPage == [market |-> Home, user |-> FALSE, prices |-> EmptyMap, pricesMarket |-> Nothing,
            control |-> [price |-> Baseline, paused |-> FALSE]]
NotLoading == [pc |-> "idle", awaited |-> {}, profile |-> Home, rows |-> <<>>]

AppInit ==
  /\ page = NewPage
  /\ accounts = emptyAccounts
  /\ disk = [market |-> Home, accounts |-> emptyAccounts]
  /\ \E session \in {"never", "none"} : cloud = [session |-> session, profile |-> Home, rows |-> <<>>, fills |-> 0]
  /\ loads = [l \in Loads |-> NotLoading]

-----------------------------------------------------------------------------
(* What the render derives                                                 *)

\* normalizeOptions: the stations, their brands and anywhere, at median prices.
normalizeOptions(prices) ==
  LET stations == DOMAIN prices
      of(key) == CASE key[1] = "station"  -> {key[2]}
                   [] key[1] = "provider" -> {s \in stations : Brand[s] = key[2]}
                   [] OTHER               -> stations
      keys == {<<"station", s>> : s \in stations} \cup {<<"provider", Brand[s]>> : s \in stations}
                \cup {Anywhere}
  IN [key \in keys |-> median(Restrict(prices, of(key)))]

shiftOptions(prices, shift) == [key \in DOMAIN prices |-> prices[key] + shift]

\* Nothing is offered before the market's own list has come.
options ==
  IF page.pricesMarket # page.market THEN EmptyMap
  ELSE LET shift == IF page.market = Home THEN page.control.price - Baseline ELSE 0
       IN shiftOptions(normalizeOptions(page.prices), shift)

quotesPaused == page.market = Home /\ page.control.paused
account == accounts[page.market]

pumpPriceFor(lock) == IF lock.scope \in DOMAIN options THEN options[lock.scope] ELSE lock.reference

\* The newest lock comes first in the list, and a fill draws on the oldest one left.
activeLocks == {i \in DOMAIN account.locks : account.locks[i].remaining > 0}
activeLock == CHOOSE i \in activeLocks : \A j \in activeLocks : j <= i

-----------------------------------------------------------------------------
(* localStorage: the effect writes what is shown unless somebody is signed *)
(* in, and a page that starts restores it in its first timer, before any   *)
(* answer or click.                                                        *)

Show(next, held) ==
  /\ page' = next /\ accounts' = held
  /\ disk' = IF next.user THEN disk ELSE [market |-> next.market, accounts |-> held]

Reload ==
  /\ Show([NewPage EXCEPT !.market = disk.market], disk.accounts)
  /\ loads' = [l \in Loads |-> NotLoading]
  /\ UNCHANGED cloud

\* Bound: for somebody who signs in the prices stay, the scope is anywhere, and there
\* is one lock, one fill and no money but what the lock lacks.
Varied == cloud.session = "never"
Allowed(max) == IF Varied THEN max ELSE 1

-----------------------------------------------------------------------------
(* Prices and the market                                                   *)

\* publish: fetched at every start and change of the market, and away and back is a
\* change; a fetch begun for a market left since is dropped.
PublishOptions(prices) ==
  /\ page.pricesMarket # page.market \/ Varied
  /\ Show([page EXCEPT !.prices = prices, !.pricesMarket = page.market], accounts)
  /\ UNCHANGED <<cloud, loads>>

\* The route answers the baseline when the control room is out of reach.
ControlRoute == ControlAnswers \cup {[price |-> Baseline, paused |-> FALSE]}

\* Of two polls the later answer stays, whichever was asked first.
ControlAnswer(answer) ==
  /\ page.control # answer /\ Varied
  /\ Show([page EXCEPT !.control = answer], accounts)
  /\ UNCHANGED <<cloud, loads>>

\* The profile's update is not awaited: it may never be sent, or fail.
ChangeMarket(m) ==
  /\ m # page.market
  /\ Show([page EXCEPT !.market = m], accounts)
  /\ \/ page.user /\ cloud' = [cloud EXCEPT !.profile = m]
     \/ UNCHANGED cloud
  /\ UNCHANGED loads

-----------------------------------------------------------------------------
(* The demonstrator's money                                                *)

Sums(field) == Total([m \in Markets |-> accounts[m][field]])
MayLock == Len(cloud.rows) + Total([m \in Markets |-> Len(accounts[m].locks)]) < Allowed(MaxLocks)
MayFill == cloud.fills + Sums("fills") < Allowed(MaxFills)

\* The top-up is also reported to the operations record: see Onboarding.
Funded(a) == [a EXCEPT !.wallet = @ + FundAmount, !.topUps = @ + FundAmount]

AddFunds ==
  /\ Varied /\ Sums("topUps") < MaxTopUps * FundAmount
  /\ Show(page, [accounts EXCEPT ![page.market] = Funded(account)])
  /\ UNCHANGED <<cloud, loads>>

Locked(a, lock, topUp, total) ==
  [a EXCEPT !.wallet = @ + topUp - total, !.locks = <<lock>> \o @, !.topUps = @ + topUp]

ConfirmLock(scope, volume) ==
  /\ ~page.user /\ ~quotesPaused /\ scope \in DOMAIN options
  /\ MayLock /\ (Varied \/ scope = Anywhere)
  /\ LET q     == quoteProtection(options[scope], volume)
         topUp == topUpFor(q.total, account.wallet)
         lock  == [remaining |-> volume, volume |-> volume, reference |-> options[scope],
                   strike |-> q.strike, boundary |-> q.boundary, held |-> q.held,
                   charge |-> q.charge, scope |-> scope,
                   market |-> page.pricesMarket, row |-> 0]
     IN Show(page, [accounts EXCEPT ![page.market] = Locked(account, lock, topUp, q.total)])
  /\ UNCHANGED <<cloud, loads>>

DrawnFrom(lock, amount, released) ==
  [lock EXCEPT !.remaining = @ - amount,
               !.held = IF @ < released THEN 0 ELSE @ - released]

Filled(a, i, amount, fill) ==
  [a EXCEPT !.wallet = @ + fill.returned - fill.fromWallet,
            !.locks[i] = DrawnFrom(a.locks[i], amount, fill.heldReleased),
            !.paid = @ + fill.fromProtected + fill.fromWallet, !.covered = @ + fill.covered,
            !.station = @ + fill.stationTotal, !.fills = @ + 1]

RedeemFuel(requested) ==
  /\ ~page.user /\ activeLocks # {} /\ MayFill
  /\ LET lock   == account.locks[activeLock]
         amount == IF requested < lock.remaining THEN requested ELSE lock.remaining
         fill   == settleFill(amount, pumpPriceFor(lock), lock.strike, lock.boundary)
     IN Show(page, [accounts EXCEPT ![page.market] = Filled(account, activeLock, amount, fill)])
  /\ UNCHANGED <<cloud, loads>>

-----------------------------------------------------------------------------
(* Signed in: the database, and what is loaded back from it                *)

Started == [NotLoading EXCEPT !.pc = "loading", !.awaited = {"profile", "rows"}]

\* getUser and onAuthStateChange each report the session and start a load.
AuthEvent(l) ==
  /\ loads[l].pc = "idle"
  /\ \/ /\ cloud.session = "open"
        /\ Show([page EXCEPT !.user = TRUE], accounts)
        /\ loads' = [loads EXCEPT ![l] = Started]
     \/ /\ cloud.session = "ended" /\ page.user
        /\ Show([page EXCEPT !.user = FALSE], accounts)
        /\ UNCHANGED loads
  /\ UNCHANGED cloud

\* Bound: one session, signed in to once and out of once.
SignInOrOut ==
  /\ \/ cloud.session = "none" /\ cloud' = [cloud EXCEPT !.session = "open"]
     \/ cloud.session = "open" /\ cloud' = [cloud EXCEPT !.session = "ended"]
  /\ UNCHANGED <<page, accounts, disk, loads>>

\* create_scoped_demo_lock: the database takes its own price.  Its answer may be lost.
ConfirmCloudLock(volume, l) ==
  /\ page.user /\ ~quotesPaused /\ options # EmptyMap
  /\ loads[l].pc = "idle" /\ MayLock
  /\ cloud' = [cloud EXCEPT !.rows = Append(@, [market |-> page.market, volume |-> volume,
                                                remaining |-> volume])]
  /\ \/ loads' = [loads EXCEPT ![l] = Started]
     \/ UNCHANGED loads
  /\ UNCHANGED <<page, accounts, disk>>

\* redeem_demo_fuel, on the lock the page shows: a demonstrator's lock is refused.
RedeemCloud(requested, l) ==
  /\ page.user /\ activeLocks # {} /\ MayFill /\ loads[l].pc = "idle"
  /\ LET lock   == account.locks[activeLock]
         amount == IF requested < lock.remaining THEN requested ELSE lock.remaining
     IN /\ lock.row > 0 /\ amount <= cloud.rows[lock.row].remaining
        /\ cloud' = [cloud EXCEPT !.rows[lock.row].remaining = @ - amount, !.fills = @ + 1]
  /\ \/ loads' = [loads EXCEPT ![l] = Started]
     \/ UNCHANGED loads
  /\ UNCHANGED <<page, accounts, disk>>

\* The queries of a load are sent together and answered one by one.
ReadProfile(l) ==
  /\ "profile" \in loads[l].awaited
  /\ loads' = [loads EXCEPT ![l].awaited = @ \ {"profile"}, ![l].profile = cloud.profile]
  /\ UNCHANGED <<page, accounts, disk, cloud>>

ReadRows(l) ==
  /\ "rows" \in loads[l].awaited
  /\ loads' = [loads EXCEPT ![l].awaited = @ \ {"rows"}, ![l].rows = cloud.rows]
  /\ UNCHANGED <<page, accounts, disk, cloud>>

\* A row keeps its price only: the charge is gone, the limit is reckoned back.
Shown(rows) ==
  Reverse([i \in DOMAIN rows |->
    LET strike == CloudPrice[rows[i].market] IN
    [remaining |-> rows[i].remaining, volume |-> rows[i].volume, reference |-> strike,
     strike |-> strike, boundary |-> HalfUp(115 * strike, 105),
     held |-> rows[i].remaining * strike, charge |-> 0, scope |-> Anywhere,
     market |-> rows[i].market, row |-> i]])

\* Every row of the customer is shown, in the market the profile names.
ApplyLoad(l) ==
  /\ loads[l].pc = "loading" /\ loads[l].awaited = {}
  /\ LET code == loads[l].profile IN
     Show([page EXCEPT !.market = code], [accounts EXCEPT ![code] =
            [EmptyAccount EXCEPT !.wallet = accounts[code].wallet,
                                 !.locks = Shown(loads[l].rows), !.synced = TRUE]])
  /\ loads' = [loads EXCEPT ![l] = NotLoading]
  /\ UNCHANGED cloud

AppNext ==
  \/ Reload \/ AddFunds \/ SignInOrOut
  \/ \E prices \in Feeds[page.market] : PublishOptions(prices)
  \/ \E answer \in ControlRoute : ControlAnswer(answer)
  \/ \E m \in Markets : ChangeMarket(m)
  \/ \E scope \in DOMAIN options, volume \in LockSizes : ConfirmLock(scope, volume)
  \/ \E requested \in FillSizes : RedeemFuel(requested)
  \/ \E l \in Loads :
       \/ AuthEvent(l) \/ ReadProfile(l) \/ ReadRows(l) \/ ApplyLoad(l)
       \/ \E volume \in LockSizes : ConfirmCloudLock(volume, l)
       \/ \E requested \in FillSizes : RedeemCloud(requested, l)

AppSpec == AppInit /\ [][AppNext]_appVars

-----------------------------------------------------------------------------
(* Properties                                                              *)

Near(a, b, tolerance) == a - b <= tolerance /\ b - a <= tolerance

LockSum(locks, field) == Total([i \in DOMAIN locks |-> locks[i][field]])

\* What the customer put in is what is left, held, charged and paid, to a cent for
\* every rounding; and what the stations were owed is what customer and FuelCap paid.
MoneyExplained(a) ==
  /\ Near(100 * (a.wallet + a.paid) + LockSum(a.locks, "held") + LockSum(a.locks, "charge"), 100 * a.topUps,
          100 * (Len(a.locks) + a.fills))
  /\ Near(a.station, a.paid + a.covered, a.fills)

\* The demonstrator's books, in the page and in localStorage, after any sequence of
\* top-ups, locks, fills, price moves, market changes and reloads: every account that
\* never showed the database adds up, and its locks were quoted in its own market and
\* hold the money for exactly the fuel that is left.
DemoMoneySound ==
  \A held \in {accounts, disk.accounts} :
  \A m \in Markets : ~held[m].synced =>
    /\ MoneyExplained(held[m])
    /\ \A i \in DOMAIN held[m].locks : LET lock == held[m].locks[i] IN
         /\ lock.market = m /\ lock.remaining >= 0
         /\ lock.held = lock.remaining * lock.strike

\* "Each country has its own wallet and protections" (fuelcap-app.tsx:353): an account
\* lists only locks of its own market.
MarketsApart ==
  \A m \in Markets : \A i \in DOMAIN accounts[m].locks : accounts[m].locks[i].market = m
=============================================================================
