------------------------------- MODULE Wallet -------------------------------
(***************************************************************************)
(* packages/wallet: a customer's money and protected volume, derived from  *)
(* the journal each time they are asked for.  The wallet keeps no state of *)
(* its own, so the module adds projections to Ledger and no action.        *)
(***************************************************************************)
EXTENDS Ledger

CONSTANT Definition   \* available, reserved and refund account, and positions

WalletAccounts == {Definition.available, Definition.reserved, Definition.refund}

\* validateDefinition: three distinct liability accounts of one entity and currency.
ASSUME DefinitionAssumption ==
  /\ Cardinality(WalletAccounts) = 3 /\ WalletAccounts \subseteq DOMAIN Account
  /\ \A a, b \in WalletAccounts : /\ Account[a].normal = "CREDIT"
                                  /\ Account[a].entity = Account[b].entity
                                  /\ Account[a].currency = Account[b].currency

MovementEffect(m) ==
  CASE m.type = "PROTECT"               -> m.quantity
    [] m.type \in {"REDEEM", "RELEASE"} -> -m.quantity
    [] OTHER                            -> 0

\* The effect of an entry's movements on the positions of the wallet.
OwnEffect(entry) ==
  Total([m \in {n \in DOMAIN entry.movements : entry.movements[n].position \in Definition.positions} |->
           MovementEffect(entry.movements[m])])

\* positionDeltaForJournal: a correction whose movements are all REVERSE takes back
\* the effect of the journal it corrects; any other journal has its own.
PositionDelta(i) ==
  LET j == journals[i] IN
  IF j.correctionOf # NoJournal
       /\ \A m \in DOMAIN j.entry.movements : j.entry.movements[m].type = "REVERSE"
  THEN -OwnEffect(JournalNamed(j.correctionOf).entry)
  ELSE OwnEffect(j.entry)

-----------------------------------------------------------------------------
(* deriveWalletBalance                                                     *)

AvailableMinor     == BalanceMinor(Definition.available)
ReservedMinor      == BalanceMinor(Definition.reserved)
RefundPayableMinor == BalanceMinor(Definition.refund)
TotalCustomerValue == AvailableMinor + ReservedMinor + RefundPayableMinor
ProtectedQuantity  == Total([i \in DOMAIN journals |-> PositionDelta(i)])

WalletBreaks ==
  \/ \E a \in WalletAccounts : BalanceMinor(a) < 0
  \/ ProtectedQuantity < 0

(* deriveWalletActivity: the journals that touch the wallet, with their     *)
(* deltas.                                                                  *)
LiabilityDelta(i, account) == Posted(i, account, "CREDIT") - Posted(i, account, "DEBIT")

\* Mutant of Activity: only the available balance counts as touching the wallet.
AvailableActivity ==
  {i \in DOMAIN journals : LiabilityDelta(i, Definition.available) # 0}

Activity ==
  {i \in DOMAIN journals : \/ \E a \in WalletAccounts : LiabilityDelta(i, a) # 0
                           \/ PositionDelta(i) # 0}

-----------------------------------------------------------------------------
(* Properties                                                              *)

\* The timeline a customer sees explains the balance they see: the deltas of the
\* listed activity alone add up to each derived balance and to the volume.
ActivityExplainsBalance ==
  /\ \A a \in WalletAccounts :
       Total([i \in Activity |-> LiabilityDelta(i, a)]) = BalanceMinor(a)
  /\ Total([i \in Activity |-> PositionDelta(i)]) = ProtectedQuantity

Reverses(i, j) == /\ journals[i].correctionOf = journals[j].id
                  /\ journals[i].entry.event = "REVERSAL"

\* "Reverses both monetary and position effects through linked correction lineage"
\* (packages/wallet/src/index.test.ts:25), said of every reversal: reversing a
\* reversal brings the volume back with the money.
EveryReversalUndoesVolume ==
  \A i, j \in DOMAIN journals : Reverses(i, j) => PositionDelta(i) = -PositionDelta(j)
=============================================================================
