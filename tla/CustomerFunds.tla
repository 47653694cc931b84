---------------------------- MODULE CustomerFunds ----------------------------
(***************************************************************************)
(* What a customer is promised about the money in their wallet and the     *)
(* fuel they have protected: a purchase takes money and volume once,       *)
(* together, never more than its forecourt price and its quantity, and     *)
(* never more than there is.  PurchaseFlow, in which four engines hand a   *)
(* purchase on one after the other, implements it.                         *)
(***************************************************************************)
EXTENDS Naturals

CONSTANTS
  Purchase,   \* the purchases that may be made
  Charge,      \* what the forecourt charges for each, in minor units
  Quantity,   \* how much fuel each is
  Funded,     \* minor units paid in
  Protected   \* volume protected

VARIABLES value, volume, paid
vars == <<value, volume, paid>>

Init == value = Funded /\ volume = Protected /\ paid = {}

Pay(p) ==
  /\ p \notin paid
  /\ paid' = paid \cup {p}
  /\ value' \in 0 .. value /\ value - value' <= Charge[p]
  /\ volume' \in 0 .. volume /\ volume - volume' <= Quantity[p]

Next == \E p \in Purchase : Pay(p)

Spec == Init /\ [][Next]_vars
=============================================================================
