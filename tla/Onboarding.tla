----------------------------- MODULE Onboarding -----------------------------
(***************************************************************************)
(* Creating the customer profile: OnboardingView, the app's route          *)
(* /api/customer-lifecycle and the stores behind it.  Every visitor is the *)
(* one demonstration customer, so all sign-ups write the same record: in   *)
(* the control room when the route reaches it, else in a copy of the app's *)
(* own server.  As deployed the control room refuses calls without a staff *)
(* session (docs/ADMIN_AUTH.md), so "linked" is chosen at the start.       *)
(*                                                                         *)
(* A sign-up is one mount of the view.  Its calls answer in their own time *)
(* and a view that was left is not cancelled: the three-second timer of    *)
(* the identity check fires, and what is under way is served.              *)
(***************************************************************************)
EXTENDS Maps, Integers

CONSTANTS
  SignUp,        \* the mounts of the view, in any browser
  Plans,
  MaxRestarts,   \* bound: restarts of the servers
  MaxAfter       \* bound: commands of registered customers

VARIABLES
  linked,        \* the route reaches the control room
  record,        \* store -> the record of FC-DEMO-1042, or Absent
  view,          \* sign-up -> [step, busy, timer, left]
  calls,         \* <<sign-up, command>> under way
  completed,     \* sign-up -> the record complete() was given
  disturbed,     \* history: sign-ups another one wrote over, or that changed stores
  counted        \* restarts and later commands so far

onboardVars == <<linked, record, view, calls, completed, disturbed, counted>>

Absent == [kyc |-> "absent", licence |-> FALSE, pin |-> FALSE, plan |-> "none", funds |-> 0]
Registered(plan) ==
  [kyc |-> "NOT_STARTED", licence |-> FALSE, pin |-> FALSE, plan |-> plan, funds |-> 0]

OnboardInit ==
  /\ linked \in BOOLEAN
  /\ record = [store \in {"local", "upstream"} |-> Absent]
  /\ view = [i \in SignUp |-> [step |-> "unmounted", busy |-> FALSE, timer |-> FALSE, left |-> FALSE]]
  /\ calls = {} /\ completed = EmptyMap /\ disturbed = {}
  /\ counted = [restarts |-> 0, after |-> 0]

-----------------------------------------------------------------------------
(* applyLifecycleCommand                                                   *)

verified(r) == [r EXCEPT !.kyc = "VERIFIED"]

\* Everything but a registration changes a record that is there, and nothing else.
applyLifecycleCommand(r, command) ==
  CASE command[1] = "REGISTER_CUSTOMER"                    -> Registered(command[2])
    [] r # Absent /\ command[1] = "START_KYC"              -> [r EXCEPT !.kyc = "PENDING", !.licence = TRUE]
    [] r # Absent /\ command[1] = "VERIFY_KYC"             -> verified(r)
    [] r # Absent /\ command[1] = "SET_PIN"                -> [r EXCEPT !.pin = TRUE]
    [] r # Absent /\ command[1] = "CHANGE_PLAN"            -> [r EXCEPT !.plan = command[2]]
    [] r # Absent /\ command[1] = "FUND_WALLET"            -> [r EXCEPT !.funds = @ + 1]
    [] OTHER                                               -> r

-----------------------------------------------------------------------------
(* OnboardingView: register, verify, finish                                *)

\* Mutant of Showing: the next step is offered before the check has answered.
ShowingEarly(i, step) ==
  (view[i].step = step \/ <<step, view[i].step>> = <<"pin", "checking">>) /\ ~view[i].left

Showing(i, step) == view[i].step = step /\ ~view[i].left

Send(i, command) ==
  /\ calls' = calls \cup {<<i, command>>}
  /\ UNCHANGED <<linked, record, completed, disturbed, counted>>

Mount(i) ==
  /\ view[i].step = "unmounted"
  /\ view' = [view EXCEPT ![i].step = "profile"]
  /\ UNCHANGED <<linked, record, calls, completed, disturbed, counted>>

\* The buttons are disabled while a call is under way.
Press(i, step, command) ==
  /\ Showing(i, step) /\ ~view[i].busy
  /\ view' = [view EXCEPT ![i].busy = TRUE]
  /\ Send(i, command)

register(i) == \E plan \in Plans : Press(i, "profile", <<"REGISTER_CUSTOMER", plan>>)
verify(i) == Press(i, "licence", <<"START_KYC", "none">>)
finish(i) == Press(i, "pin", <<"SET_PIN", "none">>)

TimerFires(i) ==
  /\ view[i].timer
  /\ view' = [view EXCEPT ![i].timer = FALSE]
  /\ Send(i, <<"VERIFY_KYC", "none">>)

Leave(i) ==
  /\ view[i].step # "unmounted" /\ ~view[i].left
  /\ view' = [view EXCEPT ![i].left = TRUE]
  /\ UNCHANGED <<linked, record, calls, completed, disturbed, counted>>

\* A registered customer tops up or changes the plan: CustomerApp's recordFunding.
Afterwards(i) ==
  /\ i \in DOMAIN completed /\ counted.after < MaxAfter
  /\ \E command \in {<<"FUND_WALLET", "none">>} \cup {<<"CHANGE_PLAN", plan>> : plan \in Plans} :
       calls' = calls \cup {<<i, command>>}
  /\ counted' = [counted EXCEPT !.after = @ + 1]
  /\ UNCHANGED <<linked, record, view, completed, disturbed>>

-----------------------------------------------------------------------------
(* POST /api/customer-lifecycle, and what the view does with the answer    *)

\* The step after each command; a check that was submitted starts the timer.
Answered(v, command) ==
  CASE command = "REGISTER_CUSTOMER" -> [v EXCEPT !.step = "licence", !.busy = FALSE]
    [] command = "START_KYC"         -> [v EXCEPT !.step = "checking", !.busy = FALSE, !.timer = TRUE]
    [] command = "VERIFY_KYC"        -> [v EXCEPT !.step = "pin"]
    [] command = "SET_PIN"           -> [v EXCEPT !.busy = FALSE]
    [] OTHER                         -> v

\* The sign-ups that are between their registration and their end, but for i.
OthersOpen(i) ==
  {j \in SignUp \ {i} : view[j].step \in {"licence", "checking", "pin"} /\ j \notin DOMAIN completed}

\* complete() is called only when the answer has a record, and leads to the wallet.  A
\* view that was left goes on all the same: the app's state is still there.
Serve(i, command, stores, answering) ==
  LET completes == command[1] = "SET_PIN" /\ record'[answering] # Absent
      answered  == Answered(view[i], command[1])
  IN
  /\ record' = [s \in DOMAIN record |->
       IF s \in stores THEN applyLifecycleCommand(record[s], command) ELSE record[s]]
  /\ calls' = calls \ {<<i, command>>}
  /\ view' = [view EXCEPT ![i] = [answered EXCEPT !.left = @ \/ completes]]
  /\ completed' = IF completes THEN Put(completed, i, record'[answering]) ELSE completed
  /\ disturbed' = disturbed
       \cup (IF command[1] \in {"REGISTER_CUSTOMER", "START_KYC"} THEN OthersOpen(i) ELSE {})
       \cup (IF linked /\ answering = "local" THEN {i} ELSE {})
  /\ UNCHANGED <<linked, counted>>

Post(call) ==
  IF linked THEN Serve(call[1], call[2], {"upstream"}, "upstream")
            ELSE Serve(call[1], call[2], {"local"}, "local")

\* The control room is down, or slower than four seconds: then both copies change.
Fallback(call) ==
  /\ linked
  /\ \E stores \in {{"local"}, {"local", "upstream"}} : Serve(call[1], call[2], stores, "local")

\* The call never reaches the app's server: the handler throws and stays busy.
Throw(call) ==
  /\ calls' = calls \ {call}
  /\ UNCHANGED <<linked, record, view, completed, disturbed, counted>>

\* The stores are kept in memory.
Restart(store) ==
  /\ counted.restarts < MaxRestarts /\ record[store] # Absent
  /\ record' = [record EXCEPT ![store] = Absent]
  /\ counted' = [counted EXCEPT !.restarts = @ + 1]
  /\ UNCHANGED <<linked, view, calls, completed, disturbed>>

OnboardNext ==
  \/ \E i \in SignUp : Mount(i) \/ register(i) \/ verify(i) \/ finish(i) \/ TimerFires(i)
                         \/ Leave(i) \/ Afterwards(i)
  \/ \E call \in calls : Post(call) \/ Fallback(call) \/ Throw(call)
  \/ \E store \in DOMAIN record : Restart(store)

OnboardSpec == OnboardInit /\ [][OnboardNext]_onboardVars

-----------------------------------------------------------------------------
(* Property                                                                *)

\* Whoever is let into the wallet has a verified identity, from a licence, and a PIN:
\* with late timers of views that were left, calls of others that do not register,
\* servers that restart and calls that fail; unless another sign-up has registered the
\* same customer or submitted a licence meanwhile, or a call fell back to the copy.
OnboardedVerified ==
  \A i \in DOMAIN completed \ disturbed :
    completed[i].kyc = "VERIFIED" /\ completed[i].licence /\ completed[i].pin
=============================================================================
