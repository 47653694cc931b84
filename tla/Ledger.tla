------------------------------- MODULE Ledger -------------------------------
(***************************************************************************)
(* packages/ledger: the append-only double-entry journal.  Balances are    *)
(* never stored: every one is a fold of the journal.                       *)
(*                                                                         *)
(* postJournal maps a state and a command to the next state.  A known      *)
(* journalKeys key returns the stored journal or throws, and a command     *)
(* that fails validation throws: disabled actions.  The hash chain only    *)
(* makes edits of the stored journal evident; no operation edits it, so    *)
(* the chain is the journal's order.                                       *)
(***************************************************************************)
EXTENDS Maps, Sequences, Integers

CONSTANTS
  Account,     \* the chart of accounts: account id -> entity, currency, normal side
  JournalId, JournalKey,
  Entry,       \* the journals callers may ask for: event, entity, lines, movements
  Corrector,   \* makers and checkers of corrections
  NoJournal    \* correctionOf = null

Side == {"DEBIT", "CREDIT"}
Opposite(side) == IF side = "DEBIT" THEN "CREDIT" ELSE "DEBIT"

ASSUME AccountAssumption ==
  \A a \in DOMAIN Account : Account[a].normal \in Side
ASSUME NoJournalAssumption == NoJournal \notin JournalId

\* JournalLine, PositionMovement and the part of PostJournalCommand that is posted.
IsLine(l) ==
  DOMAIN l = {"account", "side", "amount"} /\ l.side \in Side /\ l.amount \in Int
IsMovement(m) == DOMAIN m = {"position", "type", "quantity"} /\ m.quantity \in Int
IsEntry(e) ==
  /\ DOMAIN e = {"event", "entity", "lines", "movements"}
  /\ IsFiniteSet(DOMAIN e.lines) /\ \A i \in DOMAIN e.lines : IsLine(e.lines[i])
  /\ IsFiniteSet(DOMAIN e.movements) /\ \A m \in DOMAIN e.movements : IsMovement(e.movements[m])

\* Only createReversalCommand calls an event a reversal.
ASSUME EntryAssumption == \A e \in Entry : IsEntry(e) /\ e.event # "REVERSAL"

VARIABLES
  journals,     \* the posted journals, in order
  journalKeys   \* JournalKey -> JournalId

bookVars == <<journals, journalKeys>>

BooksInit == journals = <<>> /\ journalKeys = EmptyMap

JournalIds == {journals[i].id : i \in DOMAIN journals}
JournalNamed(id) == CHOOSE j \in {journals[i] : i \in DOMAIN journals} : j.id = id

-----------------------------------------------------------------------------
(* postJournal                                                             *)

Signed(line) == IF line.side = "DEBIT" THEN line.amount ELSE -line.amount

\* Debits less credits of some lines in one currency.
NetIn(lines, currency) ==
  Total([i \in {n \in DOMAIN lines : Account[lines[n].account].currency = currency} |->
           Signed(lines[i])])

PositiveAmount(line) == line.amount > 0

\* validateCommand: two lines or more on accounts of the journal's legal entity,
\* positive amounts and quantities, and balance in each currency on its own.
ValidEntry(entry) ==
  /\ Len(entry.lines) >= 2
  /\ \A i \in DOMAIN entry.lines :
       /\ entry.lines[i].account \in DOMAIN Account
       /\ Account[entry.lines[i].account].entity = entry.entity
       /\ PositiveAmount(entry.lines[i])
  /\ \A i \in DOMAIN entry.lines :
       NetIn(entry.lines, Account[entry.lines[i].account].currency) = 0
  /\ \A m \in DOMAIN entry.movements : entry.movements[m].quantity > 0

\* Mutant of NewJournal: the journal id is not compared.
AnyJournal(id) == TRUE

NewJournal(id) == id \notin JournalIds

Chained(journal) == Append(journals, journal)

PostJournal(key, id, entry, correctionOf) ==
  /\ NewKey(journalKeys, key)
  /\ ValidEntry(entry)
  /\ NewJournal(id)
  /\ correctionOf # NoJournal => correctionOf \in JournalIds
  /\ journals' = Chained([id |-> id, key |-> key, entry |-> entry,
                           correctionOf |-> correctionOf])
  /\ journalKeys' = Put(journalKeys, key, id)

\* Mutant of Reversed: the sides are not exchanged.
ReversedMovements(entry) ==
  [entry EXCEPT
     !.event = "REVERSAL",
     !.movements = [m \in DOMAIN entry.movements |->
                      [entry.movements[m] EXCEPT !.type = "REVERSE"]]]

\* createReversalCommand: the lines of the original with their sides exchanged and
\* its movements retyped REVERSE, under an event type that says so.
Reversed(entry) ==
  [entry EXCEPT
     !.event = "REVERSAL",
     !.lines = [i \in DOMAIN entry.lines |->
                  [entry.lines[i] EXCEPT !.side = Opposite(@)]],
     !.movements = [m \in DOMAIN entry.movements |->
                      [entry.movements[m] EXCEPT !.type = "REVERSE"]]]

PostReversal(key, id, original, maker, checker) ==
  /\ maker # checker
  /\ original \in JournalIds
  /\ PostJournal(key, id, Reversed(JournalNamed(original).entry), original)

BooksNext ==
  \/ \E key \in JournalKey, id \in JournalId, entry \in Entry,
        correctionOf \in JournalId \cup {NoJournal} :
       PostJournal(key, id, entry, correctionOf)
  \/ \E key \in JournalKey, id, original \in JournalId, maker, checker \in Corrector :
       PostReversal(key, id, original, maker, checker)

BooksSpec == BooksInit /\ [][BooksNext]_bookVars

-----------------------------------------------------------------------------
(* projectAccounts                                                         *)

\* The amounts posted to one side of an account by one journal, and by all of them.
Posted(i, account, side) ==
  LET lines == journals[i].entry.lines
  IN Total([n \in {m \in DOMAIN lines : lines[m].account = account /\ lines[m].side = side} |->
              lines[n].amount])

DebitsMinor(account) ==
  Total([i \in DOMAIN journals |-> Posted(i, account, "DEBIT")])
CreditsMinor(account) ==
  Total([i \in DOMAIN journals |-> Posted(i, account, "CREDIT")])

BalanceMinor(account) ==
  IF Account[account].normal = "DEBIT"
  THEN DebitsMinor(account) - CreditsMinor(account)
  ELSE CreditsMinor(account) - DebitsMinor(account)

-----------------------------------------------------------------------------
(* Properties                                                              *)

\* A correction follows what it corrects, and a reversal takes back exactly its money
\* on every account, also when the journal reversed is itself a reversal.
ReversalsUndoMoney ==
  \A i \in DOMAIN journals :
    journals[i].correctionOf # NoJournal =>
      \E j \in 1 .. i - 1 :
        /\ journals[j].id = journals[i].correctionOf
        /\ journals[i].entry.event = "REVERSAL" => \A a \in DOMAIN Account :
             /\ Posted(i, a, "DEBIT") = Posted(j, a, "CREDIT")
             /\ Posted(i, a, "CREDIT") = Posted(j, a, "DEBIT")
=============================================================================
