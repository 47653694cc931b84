--------------------------- MODULE MCPurchaseFlow ---------------------------
(* Three purchases against two protections: one within the first, one that   *)
(* spans both, one that overflows into unprotected volume, at pump prices     *)
(* below a strike, between strike and boundary and above the boundary.        *)
EXTENDS PurchaseFlow

Purchases == << [quantity |-> 1, pump |-> 7], [quantity |-> 2, pump |-> 3],
                [quantity |-> 2, pump |-> 11] >>
Pinned == << [strike |-> 5, boundary |-> 9], [strike |-> 6, boundary |-> 8] >>
Volumes == <<1, 1>>
=============================================================================
