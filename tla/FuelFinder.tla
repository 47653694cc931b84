---------------------------- MODULE FuelFinder ----------------------------
(***************************************************************************)
(* Fetching the UK Fuel Finder's prices: src/lib/fuel-finder.ts and the    *)
(* two routes that call it.  The price list and the list of forecourts are *)
(* read in pages, in parallel, with one access token that all requests of  *)
(* the process share; what comes back is the list of options to lock.      *)
(*                                                                         *)
(* The service is external: it may change its lists between two pages, and *)
(* it refuses a token once its lifetime is over.                           *)
(***************************************************************************)
EXTENDS Maps, Integers, Sequences

CONSTANTS
  Caller,          \* requests to the two routes
  PriceList,       \* price lists: sequences of [id, brand, price]; no price is 0
  ForecourtBrand,  \* what the list of forecourts says: id -> brand
  ProviderId,      \* brand -> the brand in lower case, its other characters dashes
  PageSize,        \* 500 rows
  MaximumBatches,  \* FUEL_FINDER_MAX_BATCHES
  Margin,          \* a token is taken again while it lasts 30 seconds more
  Floor,           \* the 60 seconds a token is trusted at least
  TokenTimeout,    \* the 8 seconds an answer to a token request is waited for
  Lifetime,        \* the lifetimes the service may state
  LastMoment,      \* bound: the last moment of the clock
  MaxSourceChanges,\* bound: replacements of the service's price list
  NoBrand,          \* no brand
  NoToken

ASSUME FuelFinderAssumption ==
  /\ {PageSize, MaximumBatches} \subseteq Nat \ {0}
  /\ {Margin, Floor, TokenTimeout, LastMoment, MaxSourceChanges} \subseteq Nat
  /\ Lifetime \subseteq Nat
  /\ Margin <= Floor
  /\ \A list \in PriceList :
       list \in Seq({list[i] : i \in DOMAIN list}) /\ \A i \in DOMAIN list : list[i].price \in Nat

VARIABLES
  seconds,      \* the clock
  source,       \* the service: its price list, and how often it was replaced
  cachedToken,  \* the token the process keeps: value and expiresAt
  fetch         \* caller -> the progress of its request

finderVars == <<seconds, source, cachedToken, fetch>>

FinderInit ==
  /\ seconds = 0
  /\ source \in [list : PriceList, changes : {0}]
  /\ cachedToken = NoToken
  /\ fetch = [c \in Caller |-> [pc |-> "none"]]

-----------------------------------------------------------------------------
(* The routes.  A refresh is for whoever holds the secret; the app's GET   *)
(* fetches only when no snapshot is stored.                                *)

PostRefresh(c, authorized) ==
  /\ fetch[c].pc = "none"
  /\ fetch' = [fetch EXCEPT ![c] = IF authorized THEN [pc |-> "start", route |-> "refresh"]
                                                 ELSE [pc |-> "unauthorized"]]
  /\ UNCHANGED <<seconds, source, cachedToken>>

GetOptions(c, stored) ==
  /\ fetch[c].pc = "none"
  /\ fetch' = [fetch EXCEPT ![c] = IF stored THEN [pc |-> "persisted"]
                                             ELSE [pc |-> "start", route |-> "get"]]
  /\ UNCHANGED <<seconds, source, cachedToken>>

-----------------------------------------------------------------------------
(* accessToken                                                             *)

\* Mutant of StillGood: a token is taken until it expires.
NotExpired == cachedToken # NoToken /\ cachedToken.expiresAt > seconds

StillGood == cachedToken # NoToken /\ cachedToken.expiresAt > seconds + Margin

\* Both lists are read from their first page.
Taken(c, token) ==
  [pc |-> "reading", route |-> fetch[c].route, token |-> token, taken |-> seconds,
   steady |-> TRUE, garbled |-> FALSE, rows |-> <<>>, batch |-> 1,
   priced |-> FALSE, detailed |-> FALSE]

TakeCached(c) ==
  /\ fetch[c].pc = "start" /\ StillGood
  /\ fetch' = [fetch EXCEPT ![c] = Taken(c, cachedToken.value)]
  /\ UNCHANGED <<seconds, source, cachedToken>>

\* Nothing stops two requests from asking for a token each.  The lifetime runs from when
\* the service issues it.
RequestToken(c, life) ==
  /\ fetch[c].pc = "start" /\ ~StillGood
  /\ fetch' = [fetch EXCEPT ![c] = [pc |-> "token", route |-> fetch[c].route,
                                    value |-> [issued |-> seconds, life |-> life]]]
  /\ UNCHANGED <<seconds, source, cachedToken>>

\* The expiry is counted from the answer, and never less than the floor.
TokenAnswered(c) ==
  /\ fetch[c].pc = "token" /\ seconds - fetch[c].value.issued <= TokenTimeout
  /\ LET token == fetch[c].value IN
     /\ cachedToken' = [value |-> token, expiresAt |-> seconds + Larger(token.life, Floor)]
     /\ fetch' = [fetch EXCEPT ![c] = Taken(c, token)]
  /\ UNCHANGED <<seconds, source>>

Failed(c, why) ==
  /\ fetch' = [fetch EXCEPT ![c] = [pc |-> "failed", why |-> why]]
  /\ UNCHANGED <<seconds, source, cachedToken>>

\* No answer in time, an error, or an answer without a token.
TokenRefused(c) == fetch[c].pc = "token" /\ Failed(c, "token")

-----------------------------------------------------------------------------
(* fetchBatches: each page is one request.                                 *)

Accepted(c) == seconds < fetch[c].token.issued + fetch[c].token.life

Page(list, batch) ==
  SubSeq(list, (batch - 1) * PageSize + 1, Smaller(batch * PageSize, Len(list)))

\* Mutant of LastPage: a full page is taken for the last.
LastPageFull(page) == Len(page) <= PageSize

LastPage(page) == Len(page) < PageSize

\* A page of prices.  An answer of an unknown form counts as an empty page.
PricePage(c, garbled) ==
  /\ fetch[c].pc = "reading" /\ ~fetch[c].priced /\ Accepted(c)
  /\ LET page == IF garbled THEN <<>> ELSE Page(source.list, fetch[c].batch) IN
     IF ~LastPage(page) /\ fetch[c].batch = MaximumBatches
     THEN Failed(c, "BATCH_LIMIT")
     ELSE /\ fetch' = [fetch EXCEPT ![c].rows = @ \o page, ![c].batch = @ + 1,
                                    ![c].priced = LastPage(page), ![c].garbled = @ \/ garbled]
          /\ UNCHANGED <<seconds, source, cachedToken>>

\* The pages of forecourts: one list that does not change, read in one step.
ForecourtPages(c) ==
  /\ fetch[c].pc = "reading" /\ ~fetch[c].detailed /\ Accepted(c)
  /\ fetch' = [fetch EXCEPT ![c].detailed = TRUE]
  /\ UNCHANGED <<seconds, source, cachedToken>>

\* The service refuses the token (FUEL_FINDER_DATA_401); or a page is not answered, in 60
\* seconds or at all.
PageRefused(c) ==
  /\ fetch[c].pc = "reading" /\ ~Accepted(c)
  /\ fetch' = [fetch EXCEPT ![c] =
                 [pc |-> "refused", life |-> @.token.life, after |-> seconds - @.taken]]
  /\ UNCHANGED <<seconds, source, cachedToken>>

PageFails(c) == fetch[c].pc = "reading" /\ Failed(c, "TIMEOUT")

-----------------------------------------------------------------------------
(* buildFuelFinderOptions, of the prices joined to the forecourts          *)

\* The price row's own brand wins over the forecourt's.
BrandOf(row) ==
  IF row.brand # NoBrand THEN row.brand
  ELSE IF row.id \in DOMAIN ForecourtBrand THEN ForecourtBrand[row.id] ELSE "Independent"

\* The rows that have a price, each in its place among the rows.
Stations(rows) ==
  [i \in {j \in DOMAIN rows : rows[j].price > 0} |->
     [id |-> rows[i].id, price |-> rows[i].price, provider |-> ProviderId[BrandOf(rows[i])]]]

\* Every station, the dearest price and the number of stations of every provider, and of
\* the country.
Options(rows) ==
  LET all == Stations(rows)
      Of(p) == {i \in DOMAIN all : all[i].provider = p}
      Dearest(S) == CHOOSE price \in {all[i].price : i \in S} : \A i \in S : all[i].price <= price
      Offer(S) == [price |-> Dearest(S), stations |-> Cardinality(S)]
  IN [stations |-> all,
      providers |-> [p \in {all[i].provider : i \in DOMAIN all} |-> Offer(Of(p))],
      country |-> IF DOMAIN all = {} THEN NoBrand ELSE Offer(DOMAIN all)]

\* The snapshot goes to the database (FeedIngestion) or straight to the app, which gets
\* none of no prices.
Assemble(c) ==
  /\ fetch[c].pc = "reading" /\ fetch[c].priced /\ fetch[c].detailed
  /\ LET options == Options(fetch[c].rows) IN
     fetch' = [fetch EXCEPT ![c] =
       [pc |-> IF @.route = "get" /\ DOMAIN options.stations = {} THEN "no prices" ELSE "answered",
        options |-> options, list |-> source.list,
        whole |-> @.steady /\ ~@.garbled]]
  /\ UNCHANGED <<seconds, source, cachedToken>>

-----------------------------------------------------------------------------
\* The service replaces its price list.
SourceChanges(list) ==
  /\ source.changes < MaxSourceChanges /\ list # source.list
  /\ source' = [list |-> list, changes |-> source.changes + 1]
  /\ fetch' = [c \in Caller |-> IF fetch[c].pc = "reading" THEN [fetch[c] EXCEPT !.steady = FALSE]
                                                          ELSE fetch[c]]
  /\ UNCHANGED <<seconds, cachedToken>>

Second ==
  /\ seconds < LastMoment
  /\ seconds' = seconds + 1
  /\ UNCHANGED <<source, cachedToken, fetch>>

FinderNext ==
  \/ \E c \in Caller :
       \/ \E yes \in BOOLEAN : PostRefresh(c, yes) \/ GetOptions(c, yes) \/ PricePage(c, yes)
       \/ \E life \in Lifetime : RequestToken(c, life)
       \/ TakeCached(c) \/ TokenAnswered(c) \/ TokenRefused(c)
       \/ ForecourtPages(c) \/ PageRefused(c) \/ PageFails(c) \/ Assemble(c)
  \/ \E list \in PriceList : SourceChanges(list)
  \/ Second

FinderSpec == FinderInit /\ [][FinderNext]_finderVars

-----------------------------------------------------------------------------
(* Properties                                                              *)

\* Paging loses and doubles nothing: of a list that stayed as it was and was read to its
\* end, every station with a price is offered once, its provider and the country offer it
\* at no less than its price, and their stations are all there are.
SnapshotWhole ==
  \A c \in Caller : fetch[c].pc = "answered" /\ fetch[c].whole =>
    LET options == fetch[c].options
        Priced == {i \in DOMAIN fetch[c].list : fetch[c].list[i].price > 0}
    IN /\ {options.stations[i].id : i \in DOMAIN options.stations} = {fetch[c].list[i].id : i \in Priced}
       /\ Cardinality(DOMAIN options.stations) = Cardinality(Priced)
       /\ \A i \in DOMAIN options.stations :
            LET s == options.stations[i] IN
            /\ s.price <= options.providers[s.provider].price
            /\ options.providers[s.provider].price <= options.country.price
       /\ Cardinality(Priced) =
            Total([p \in DOMAIN options.providers |-> options.providers[p].stations])

\* A request that takes over a token is not refused at once: the token lasts the margin,
\* less what its own answer took.  Only a token stated to last less than the floor may
\* be refused sooner.
RefusedLate ==
  \A c \in Caller : fetch[c].pc = "refused" =>
    fetch[c].life < Floor \/ fetch[c].after >= Margin - TokenTimeout

\* A fetch is whole, or says that it is refused.
FetchesWhole == SnapshotWhole /\ RefusedLate
=============================================================================
