----------------------------- MODULE MCEngines -----------------------------
(* The allocation, settlement and reconciliation engines and the ledger with *)
(* the wallet for TLC, one at a time: the one that moves is chosen at the     *)
(* start.                                                                    *)
EXTENDS Allocation, Settlement, Wallet, Reconciliation, TLC

-----------------------------------------------------------------------------
\* The protection of one customer, a vehicle and a pool, two products, three purchases.
Mine    == <<"CUSTOMER", "me">>
Van     == <<"VEHICLE", "van">>
Other   == <<"CUSTOMER", "other">>
Here    == <<"STATION", "here">>
Brand   == <<"PROVIDER", "brand">>

\* Expiries in UTC are numbered alike as strings and instants; one at instant 2 is written
\* with another offset, and its string stands after those of instant 4.
Utc(n) == [at |-> n, text |-> n, form |-> "UTC"]
Offset == [at |-> 2, text |-> 5, form |-> "offset"]

Protection(owner, scope, product, status, starts, expires, accepted) ==
  [owner |-> owner, scope |-> scope, product |-> product, status |-> status,
   starts |-> starts, expires |-> expires, accepted |-> accepted]

Positions ==
  << Protection(Mine,  Here,  "petrol", "ACTIVE",   0, Utc(4), 1),
     Protection(Van,   Brand, "petrol", "ACTIVE",   0, Utc(2), 2),
     Protection(Mine,  Brand, "petrol", "ACTIVE",   1, Utc(4), 0),
     Protection(Mine,  Here,  "petrol", "CANCELED", 0, Utc(3), 0),
     Protection(Other, Here,  "petrol", "ACTIVE",   0, Utc(4), 0),
     Protection(Mine,  Here,  "diesel", "ACTIVE",   0, Utc(4), 0),
     Protection(Mine,  Brand, "petrol", "ACTIVE",   0, Offset, 0) >>

Opened == <<2, 1, 1, 1, 1, 1, 1>>

\* Purchases by me, with or without the van, here or at another station of the
\* brand, of petrol or diesel, at the instants where eligibility changes.
Purchases ==
  [owners : {{Mine}, {Mine, Van}}, scopes : {{Here, Brand}, {Brand}},
   product : {"petrol"}, quantity : {1, 3}, at : {0, 2},
   evidenceMatches : {TRUE}]
  \cup
  [owners : {{Mine}}, scopes : {{Here}}, product : {"diesel"}, quantity : {2}, at : {1},
   evidenceMatches : BOOLEAN]

-----------------------------------------------------------------------------
\* Two protections with odd terms, allocations over them and every pump price around
\* their strikes and boundaries, with eight numerator units to the minor unit.
PinnedTerms == << [strike |-> 5, boundary |-> 9], [strike |-> 7, boundary |-> 7] >>

Line(p, q) == [position |-> p, quantity |-> q]

Alloc(id, lines, unprotected, confirmed) ==
  [id |-> id, lines |-> lines, unprotected |-> unprotected, confirmed |-> confirmed]

\* The last two are one allocation with other facts, and one that is refused.
Allocated ==
  { Alloc("a", <<Line(1, 5)>>, 0, 5),
    Alloc("b", <<Line(1, 2), Line(2, 5)>>, 1, 8),
    Alloc("c", <<>>, 4, 4),
    Alloc("c", <<Line(2, 1)>>, 3, 4),
    Alloc("d", <<Line(2, 3)>>, 1, 5) }

-----------------------------------------------------------------------------
\* One customer's three accounts, the cash account beside them, a euro account and an
\* account of another entity that no valid entry may mix with them.
CONSTANTS avail, resv, refund, cash, euro, foreign, pos, otherPos

Acc(entity, currency, normal) == [entity |-> entity, currency |-> currency, normal |-> normal]

Chart ==
  avail :> Acc("e", "usd", "CREDIT") @@ resv :> Acc("e", "usd", "CREDIT") @@
  refund :> Acc("e", "usd", "CREDIT") @@ cash :> Acc("e", "usd", "DEBIT") @@
  euro :> Acc("e", "eur", "DEBIT") @@ foreign :> Acc("f", "usd", "DEBIT")

MyWallet == [available |-> avail, reserved |-> resv, refund |-> refund, positions |-> {pos}]

Dr(a, n) == [account |-> a, side |-> "DEBIT", amount |-> n]
Cr(a, n) == [account |-> a, side |-> "CREDIT", amount |-> n]
Move(p, t, n) == [position |-> p, type |-> t, quantity |-> n]
Ent(lines, moves) == [event |-> "POSTING", entity |-> "e", lines |-> lines, movements |-> moves]

Funding   == Ent(<<Dr(cash, 2), Cr(avail, 2)>>, <<>>)
Protect   == Ent(<<Dr(avail, 2), Cr(resv, 2)>>, <<Move(pos, "PROTECT", 3)>>)
Redeem    == Ent(<<Dr(resv, 1), Dr(avail, 1), Cr(cash, 2)>>,
                 <<Move(pos, "REDEEM", 2), Move(otherPos, "REDEEM", 1)>>)
Release   == Ent(<<Dr(resv, 1), Cr(refund, 1)>>, <<Move(pos, "RELEASE", 1)>>)
Nothing   == Ent(<<Dr(cash, 0), Cr(avail, 0)>>, <<>>)
OneLegged == Ent(<<Dr(cash, 2)>>, <<>>)
Uneven    == Ent(<<Dr(cash, 2), Cr(avail, 1)>>, <<>>)
Crossed   == Ent(<<Dr(euro, 2), Cr(avail, 2)>>, <<>>)
Alien     == Ent(<<Dr(foreign, 2), Cr(avail, 2)>>, <<>>)

Entries == {Funding, Protect, Redeem, Release, Nothing, OneLegged, Uneven, Crossed, Alien}

-----------------------------------------------------------------------------
CONSTANTS us, gb

Item(amount, identified) == [amount |-> amount, identified |-> identified]
Matched(internal, external) == [internal |-> internal, external |-> external]
Run(scope, held, items, matches) ==
  [scope |-> scope, cash |-> held, liabilities |-> 3, integrity |-> TRUE,
   items |-> items, matches |-> matches]

\* Two that pass, one for each scope; an identified item, an unidentified one, a
\* shortfall with a missing and a wrong external record, and a broken ledger.
Inputs ==
  { Run(us, 3, <<>>, <<Matched(1, 1)>>),
    Run(gb, 2, <<Item(1, TRUE)>>, <<>>),
    Run(us, 2, <<Item(1, FALSE)>>, <<>>),
    Run(us, 3, <<Item(-1, FALSE)>>, <<>>),
    Run(gb, 4, <<Item(-1, TRUE)>>, <<Matched(2, Missing), Matched(2, 1)>>),
    [Run(us, 3, <<>>, <<>>) EXCEPT !.integrity = FALSE] }

-----------------------------------------------------------------------------
\* The machines share their ids and keys.
Ids ==
  Permutations(AllocationId) \cup Permutations(PurchaseId) \cup Permutations(AllocationKey)
  \cup Permutations(Principal)

VARIABLE machine   \* the one that moves

Init ==
  /\ machine \in {"allocation", "settlement", "books", "reconciliation"}
  /\ AllocInit /\ SettleInit /\ BooksInit /\ ReconInit

Next ==
  \/ /\ machine = "allocation" /\ AllocNext
     /\ UNCHANGED <<machine, settleVars, bookVars, reconVars>>
  \/ /\ machine = "settlement" /\ SettleNext
     /\ UNCHANGED <<machine, allocVars, bookVars, reconVars>>
  \/ /\ machine = "books" /\ BooksNext
     /\ UNCHANGED <<machine, allocVars, settleVars, reconVars>>
  \/ /\ machine = "reconciliation" /\ ReconNext
     /\ UNCHANGED <<machine, allocVars, settleVars, bookVars>>

vars == <<machine, allocVars, settleVars, bookVars, reconVars>>
Spec == Init /\ [][Next]_vars
=============================================================================
