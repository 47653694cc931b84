-------------------------- MODULE MCCardSimulator --------------------------
(* An instance of CardSimulator for TLC.                                    *)
EXTENDS CardSimulator, TLC

CONSTANTS c1, c2, usd, gbp, fuel, other

\* An active card with room for two authorizations a day, and a frozen card beside it.
TwoCards ==
  c1 :> [currency |-> usd, status |-> "ACTIVE", categories |-> {fuel},
         transactionLimit |-> 3, dailyLimit |-> 4] @@
  c2 :> [currency |-> usd, status |-> "FROZEN", categories |-> {fuel},
         transactionLimit |-> 3, dailyLimit |-> 3]

Ids == Permutations(AuthId) \cup Permutations(ClearingId) \cup Permutations(ReversalId)
         \cup Permutations(Key)
=============================================================================
