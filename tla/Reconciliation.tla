--------------------------- MODULE Reconciliation ---------------------------
(***************************************************************************)
(* packages/reconciliation: a run compares safeguarded cash with what      *)
(* customers are owed and external records with internal ones; each        *)
(* difference opens a break that blocks payments, settlement, withdrawals  *)
(* and account closure until two people clear it.                          *)
(*                                                                         *)
(* runReconciliation and clearBreak map a state to the next one; replays   *)
(* and thrown errors are disabled actions.                                 *)
(***************************************************************************)
EXTENDS Maps, Sequences, Integers

CONSTANTS
  RunId, RunKey,
  Input,      \* the evidence of runs: scope, money, in-flight items, external matches
  Principal,
  Missing     \* an external reference or amount that is null

\* Money is in integer minor units; customer balances and cash are not negative.
ASSUME InputAssumption ==
  /\ Missing \notin Int
  /\ \A input \in Input :
       /\ input.cash \in Nat /\ input.liabilities \in Nat
       /\ input.integrity \in BOOLEAN
       /\ IsFiniteSet(DOMAIN input.items)
       /\ \A i \in DOMAIN input.items :
            input.items[i].amount \in Int /\ input.items[i].identified \in BOOLEAN
       /\ \A i \in DOMAIN input.matches :
            input.matches[i].internal \in Int /\ input.matches[i].external \in Int \cup {Missing}

VARIABLES
  reports,      \* the reports, in order
  breaks,       \* <<run, finding>> -> what became of it
  runKeys   \* RunKey -> RunId

reconVars == <<reports, breaks, runKeys>>

ReconInit == reports = <<>> /\ breaks = EmptyMap /\ runKeys = EmptyMap

-----------------------------------------------------------------------------
\* Only in-flight items that are identified explain a difference.
Difference(input) ==
  input.cash - input.liabilities
    + Total([i \in {n \in DOMAIN input.items : input.items[n].identified} |-> input.items[i].amount])

\* The findings of a run; at is the place of the item or match in its list.
Finding(reason, at, difference) == [reason |-> reason, at |-> at, difference |-> difference]

Findings(input) ==
  LET items == input.items
      matches == input.matches
      unidentified == {n \in DOMAIN items : ~items[n].identified}
      missing == {n \in DOMAIN matches : matches[n].external = Missing}
      wrong == {n \in DOMAIN matches : matches[n].external \notin {Missing, matches[n].internal}}
  IN {f \in {Finding("LEDGER_INTEGRITY_FAILED", 0, 0)} : ~input.integrity}
     \cup {f \in {Finding("SAFEGUARDING_MISMATCH", 0, Difference(input))} : Difference(input) # 0}
     \cup {Finding("UNIDENTIFIED_IN_FLIGHT_ITEM", n, items[n].amount) : n \in unidentified}
     \cup {Finding("EXTERNAL_ITEM_MISSING", n, matches[n].internal) : n \in missing}
     \cup {Finding("EXTERNAL_AMOUNT_MISMATCH", n, matches[n].external - matches[n].internal) :
              n \in wrong}

\* The breaks of a run: one for each finding.
BreaksOf(run, findings) == {run} \X findings

WithBreaks(new) ==
  [b \in DOMAIN breaks \cup new |-> IF b \in DOMAIN breaks THEN breaks[b] ELSE [status |-> "OPEN"]]

runReconciliation(key, run, input) ==
  /\ NewKey(runKeys, key)
  /\ \A i \in DOMAIN reports : reports[i].run # run
  /\ LET found == BreaksOf(run, Findings(input)) IN
     /\ breaks' = WithBreaks(found)
     /\ reports' = Append(reports,
          [run |-> run, input |-> input, breaks |-> found,
           status |-> IF found = {} THEN "PASS" ELSE "BREAK"])
  /\ runKeys' = Put(runKeys, key, run)

ReportOf(run) == CHOOSE r \in {reports[i] : i \in DOMAIN reports} : r.run = run
Reported == {reports[i].run : i \in DOMAIN reports}

\* A run of the same entity and currency as the one that found the break, and it passed.
Corrects(corrected, run) ==
  /\ corrected \in Reported
  /\ ReportOf(corrected).status = "PASS"
  /\ ReportOf(corrected).input.scope = ReportOf(run).input.scope

\* Two people, step-up and evidence, no break-glass, and a run that corrects.
clearBreak(b, maker, checker, corrected, stepUp, breakGlass) ==
  /\ b \in DOMAIN breaks /\ breaks[b].status = "OPEN"
  /\ maker # checker /\ stepUp /\ ~breakGlass
  /\ Corrects(corrected, b[1])
  /\ breaks' = [breaks EXCEPT ![b] =
       [status |-> "CLEARED", corrected |-> corrected, maker |-> maker, checker |-> checker]]
  /\ UNCHANGED <<reports, runKeys>>

\* Mutant of isActionBlocked: only the last run counts.
isLastRunBlocked ==
  reports # <<>> /\ \E b \in reports[Len(reports)].breaks : breaks[b].status = "OPEN"

\* Every break blocks the same four actions, of every entity and currency.
isActionBlocked == \E b \in DOMAIN breaks : breaks[b].status = "OPEN"

ReconNext ==
  \/ \E key \in RunKey, run \in RunId, input \in Input : runReconciliation(key, run, input)
  \/ \E b \in DOMAIN breaks, maker, checker \in Principal, corrected \in RunId,
        stepUp, breakGlass \in BOOLEAN :
       clearBreak(b, maker, checker, corrected, stepUp, breakGlass)

ReconSpec == ReconInit /\ [][ReconNext]_reconVars

-----------------------------------------------------------------------------
(* Properties                                                              *)

\* A run passes only if the cash and what is identified as under way cover the
\* liabilities to the penny and nothing else disagrees: no unidentified item is ever
\* the plug, and while any run's differences are not all cleared, money is stopped.  Two
\* people and a passing run of the same entity and currency stand behind every clearance,
\* whatever runs came in between.
BreaksBlock ==
  /\ \A i \in DOMAIN reports :
    LET input == reports[i].input
        clean == /\ input.integrity
                 /\ input.cash + Total([n \in DOMAIN input.items |-> input.items[n].amount])
                      = input.liabilities
                 /\ \A n \in DOMAIN input.items : input.items[n].identified
                 /\ \A n \in DOMAIN input.matches :
                      input.matches[n].external = input.matches[n].internal
    IN /\ reports[i].status = "PASS" <=> clean
       /\ ~clean /\ ~isActionBlocked =>
            /\ reports[i].breaks # {}
            /\ \A b \in reports[i].breaks : breaks[b].status = "CLEARED"
  /\ \A b \in DOMAIN breaks : breaks[b].status = "CLEARED" =>
       /\ breaks[b].maker # breaks[b].checker
       /\ \E i, j \in DOMAIN reports :
            /\ reports[i].run = breaks[b].corrected /\ reports[i].status = "PASS"
            /\ b \in reports[j].breaks /\ reports[j].status = "BREAK"
            /\ reports[i].input.scope = reports[j].input.scope
=============================================================================
