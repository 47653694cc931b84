----------------------------- MODULE AdminAuth -----------------------------
(***************************************************************************)
(* apps/admin sign-in: Supabase sessions raised by an authenticator code,  *)
(* the signed cookies of the idle clock and of the step-up grant, the staff *)
(* table, and the step-up-protected routes with the dialog that asks for a *)
(* code.  A protected call is judged when it arrives and takes effect      *)
(* later, after other calls: every await of the route lies in between.     *)
(*                                                                         *)
(* Audit records are left out: the code never reads them back to decide.   *)
(***************************************************************************)
EXTENDS Authz, Maps, Sequences

CONSTANTS
  User,            \* the people with, or invited to, an account
  SeededStaff,     \* user -> roles, the staff table at the start
  InviteRoles,     \* the role sets an invite may ask for
  Browser, SessionId, FactorId, CallId,
  SeededFactor,    \* user -> the authenticator enrolled at the start
  IdleTimeout,     \* thirty minutes
  StepUpWindow,    \* five minutes
  Environment, None

ASSUME AuthAssumption ==
  {IdleTimeout, StepUpWindow} \subseteq Nat /\ None \notin SessionId

VARIABLES
  staffRows,   \* admin_staff: user -> [roles, active]
  passwords,   \* users who have chosen a password
  verified,    \* account -> verified authenticators
  unverified,  \* account -> the pending enrolment
  links,       \* accounts with an unspent invite or reset email
  sessions,    \* Supabase: id -> [user, aal2, fromLink, code, stepUp]: the ages of
               \* its last code and of its last step-up
  jars,        \* browser -> its cookies [session, idle, grant]
  calls,       \* protected calls under way
  dialogs      \* browser -> the call its one step-up dialog will answer

authVars == <<staffRows, passwords, verified, unverified, links, sessions, jars, calls, dialogs>>
accountVars == <<staffRows, passwords, verified, unverified, links>>

\* Time is kept as ages in units of the model; past the longest limit, all are the same.
Forever == IdleTimeout + 1
Older(age) == Smaller(age + 1, Forever)

AuthInit ==
  /\ staffRows = [u \in DOMAIN SeededStaff |-> [roles |-> SeededStaff[u], active |-> TRUE]]
  /\ passwords = DOMAIN SeededStaff
  /\ verified = [u \in DOMAIN SeededStaff |-> {SeededFactor[u]}]
  /\ unverified = [u \in DOMAIN SeededStaff |-> {}]
  /\ links = {} /\ sessions = EmptyMap
  /\ jars = [b \in Browser |-> [session |-> None, idle |-> None, grant |-> None]]
  /\ calls = EmptyMap /\ dialogs = [b \in Browser |-> None]

-----------------------------------------------------------------------------
\* What a request carries.
SignedIn(b) == jars[b].session # None
Claims(b) == sessions[jars[b].session]

\* The idle clock is of this session and was restarted at most thirty minutes ago.
Awake(b) ==
  /\ jars[b].idle # None /\ jars[b].idle.sid = jars[b].session
  /\ jars[b].idle.age <= IdleTimeout

\* proxy.ts lets a request of a live session through; the rest of the control room also
\* needs the authenticator.
proxy(b, preMfa) == SignedIn(b) /\ Awake(b) /\ (preMfa \/ Claims(b).aal2)

touchIdleClock(b, sid) == [jars EXCEPT ![b].session = sid, ![b].idle = [sid |-> sid, age |-> 0]]

\* Signed in with a code, an active member of staff, no conflict of roles.
resolveStaff(b) ==
  /\ proxy(b, FALSE)
  /\ Claims(b).user \in DOMAIN staffRows
  /\ staffRows[Claims(b).user].active
  /\ ~assignmentConflict(staffRows[Claims(b).user].roles, Environment)

\* Mutant of hasFreshStepUp: a grant counts for any later session of the person.
hasStepUp(b) ==
  LET g == jars[b].grant  s == Claims(b)
  IN /\ g # None /\ g.sub = s.user
     /\ g.age <= StepUpWindow
     /\ s.code <= g.age /\ s.code <= StepUpWindow

\* A grant of this person and session, at most five minutes old, and a code since.
hasFreshStepUp(b) ==
  LET g == jars[b].grant  s == Claims(b)
  IN /\ g # None /\ g.sub = s.user /\ g.sid = jars[b].session
     /\ g.age <= StepUpWindow
     /\ s.code <= g.age /\ s.code <= StepUpWindow

-----------------------------------------------------------------------------
\* Supabase opens a session.
Opened(sid, u, fromLink) ==
  Put(sessions, sid,
    [user |-> u, aal2 |-> FALSE, fromLink |-> fromLink, code |-> Forever, stepUp |-> Forever])

\* Staff sign in with a password; anyone else is signed out again at once, which leaves the
\* other cookies of the browser as they were.
SignIn(b, u, sid) ==
  /\ u \in passwords /\ NewKey(sessions, sid)
  /\ sessions' = Opened(sid, u, FALSE)
  /\ jars' = IF u \in DOMAIN staffRows /\ staffRows[u].active THEN touchIdleClock(b, sid)
             ELSE [jars EXCEPT ![b].session = None]
  /\ UNCHANGED <<accountVars, calls, dialogs>>

\* The email link works once and opens a password-only session.
Confirm(b, u, sid) ==
  /\ u \in links /\ NewKey(sessions, sid)
  /\ links' = links \ {u}
  /\ sessions' = Opened(sid, u, TRUE)
  /\ jars' = touchIdleClock(b, sid)
  /\ UNCHANGED <<staffRows, passwords, verified, unverified, calls, dialogs>>

SetPassword(b) ==
  /\ proxy(b, TRUE)
  /\ Claims(b).aal2 \/ verified[Claims(b).user] = {} \/ Claims(b).fromLink
  /\ passwords' = passwords \cup {Claims(b).user}
  /\ jars' = touchIdleClock(b, jars[b].session)
  /\ UNCHANGED <<staffRows, verified, unverified, links, sessions, calls, dialogs>>

Factors == UNION {verified[u] \cup unverified[u] : u \in DOMAIN verified}

\* A first authenticator, or a backup from a session that passed one; the abandoned
\* enrolments go.
EnrolAuthenticator(b, f) ==
  /\ proxy(b, TRUE) /\ f \notin Factors
  /\ verified[Claims(b).user] # {} => Claims(b).aal2
  /\ unverified' = [unverified EXCEPT ![Claims(b).user] = {f}]
  /\ jars' = touchIdleClock(b, jars[b].session)
  /\ UNCHANGED <<staffRows, passwords, verified, links, sessions, calls, dialogs>>

\* A right code of the pending authenticator, or of any verified one, raises the session.
VerifyAuthenticator(b, f) ==
  LET u == Claims(b).user IN
  /\ proxy(b, TRUE) /\ f \in verified[u] \cup unverified[u]
  /\ verified' = [verified EXCEPT ![u] = @ \cup {f}]
  /\ unverified' = [unverified EXCEPT ![u] = @ \ {f}]
  /\ sessions' = [sessions EXCEPT ![jars[b].session].aal2 = TRUE, ![jars[b].session].code = 0]
  /\ jars' = touchIdleClock(b, jars[b].session)
  /\ UNCHANGED <<staffRows, passwords, links, calls, dialogs>>

clearAdminCookies(b) == [jars EXCEPT ![b] = [session |-> None, idle |-> None, grant |-> None]]

\* The person signs out, or the browser's idle timer does it for them.
SignOut(b) ==
  /\ proxy(b, TRUE)
  /\ jars' = clearAdminCookies(b)
  /\ UNCHANGED <<accountVars, sessions, calls, dialogs>>

\* The first request after thirty quiet minutes ends the session.
ExpireSession(b) ==
  /\ SignedIn(b) /\ ~Awake(b)
  /\ jars' = clearAdminCookies(b)
  /\ UNCHANGED <<accountVars, sessions, calls, dialogs>>

\* A page load, or the ping the browser sends at most once a minute while someone is there.
\* Background polling restarts nothing.
Activity(b) ==
  /\ proxy(b, FALSE)
  /\ jars' = touchIdleClock(b, jars[b].session)
  /\ UNCHANGED <<accountVars, sessions, calls, dialogs>>

OlderCookie(cookie) == IF cookie = None THEN None ELSE [cookie EXCEPT !.age = Older(@)]

Tick ==
  /\ sessions' = [s \in DOMAIN sessions |->
       [sessions[s] EXCEPT !.code = Older(@), !.stepUp = Older(@)]]
  /\ jars' = [b \in Browser |->
       [jars[b] EXCEPT !.idle = OlderCookie(@), !.grant = OlderCookie(@)]]
  /\ UNCHANGED <<accountVars, calls, dialogs>>

-----------------------------------------------------------------------------
\* Protected calls: [browser, by, sid, kind, target, phase, stepUp].
OnOthers == {"disable", "enable", "reset-mfa", "password-reset"}

Principal(u) == [id |-> u, roles |-> staffRows[u].roles, organisations |-> {"org-fuelcap-global"}]
Request(u, verb) ==
  [principal |-> Principal(u), environment |-> Environment, organisation |-> "org-fuelcap-global",
   workspace |-> "risk-hedging", verb |-> verb, owner |-> "principal-risk-maker"]

requirePlatformAdminAction(u, target) == "PA" \in staffRows[u].roles /\ target # u

\* Judged before anyone is asked for a code.
MayAsk(u, kind, target) ==
  CASE kind = "invite" -> "PA" \in staffRows[u].roles
    [] kind \in OnOthers -> requirePlatformAdminAction(u, target)
    [] kind = "initiate-hedge" ->
         authorize(Principal(u), Environment, "org-fuelcap-global", "risk-hedging", "initiate", None)
    [] kind \in {"remove", "emergency-access"} -> TRUE

\* Judged after it.
MayDo(u, kind, target) ==
  CASE kind = "remove" -> target \in verified[u] /\ Cardinality(verified[u]) >= 2
    [] kind = "invite" -> target \notin DOMAIN verified
    [] kind = "initiate-hedge" -> evaluateGovernedAction(Request(u, "initiate"), TRUE, TRUE, TRUE, TRUE)
    [] kind = "emergency-access" -> evaluateBreakGlass(Principal(u), "temporary-support-access", TRUE)
    [] kind = "password-reset" -> target \in DOMAIN staffRows
    [] kind \in OnOthers \ {"password-reset"} -> TRUE

Targets(u, kind) ==
  CASE kind = "remove" -> verified[u]
    [] kind = "invite" -> User
    [] kind \in OnOthers -> DOMAIN staffRows
    [] OTHER -> {None}

\* The button, and the resend after the code: refused, answered 428 with the dialog of the
\* page asking for a code (whoever waited for one before is forgotten), or taken up.
Sent(b, kind, target, phase) ==
  [browser |-> b, by |-> Claims(b).user, sid |-> jars[b].session, kind |-> kind, target |-> target,
   phase |-> phase, stepUp |-> Claims(b).stepUp]

Send(c, b, kind, target) ==
  /\ resolveStaff(b) /\ MayAsk(Claims(b).user, kind, target)
  /\ IF hasFreshStepUp(b)
     THEN /\ MayDo(Claims(b).user, kind, target)
          /\ calls' = Put(calls, c, Sent(b, kind, target, "taken"))
          /\ UNCHANGED dialogs
     ELSE /\ calls' = Put(calls, c, Sent(b, kind, target, "asking"))
          /\ dialogs' = [dialogs EXCEPT ![b] = c]
  /\ jars' = touchIdleClock(b, jars[b].session)
  /\ UNCHANGED <<accountVars, sessions>>

Click(c, b) ==
  /\ NewKey(calls, c) /\ resolveStaff(b)
  /\ \E kind \in OnOthers \cup {"invite", "remove", "initiate-hedge", "emergency-access"} :
       \E target \in Targets(Claims(b).user, kind) : Send(c, b, kind, target)

\* A right code for any verified authenticator: five minutes are granted, and the call the
\* dialog is for goes out again.
StepUp(b) ==
  LET sid == jars[b].session IN
  /\ dialogs[b] # None /\ resolveStaff(b) /\ verified[Claims(b).user] # {}
  /\ sessions' = [sessions EXCEPT ![sid].code = 0, ![sid].stepUp = 0]
  /\ jars' = [touchIdleClock(b, sid) EXCEPT ![b].grant = [sub |-> Claims(b).user, sid |-> sid, age |-> 0]]
  /\ calls' = [calls EXCEPT ![dialogs[b]].phase = "confirmed"]
  /\ dialogs' = [dialogs EXCEPT ![b] = None]
  /\ UNCHANGED <<accountVars>>

Resend(c) ==
  /\ c \in DOMAIN calls /\ calls[c].phase = "confirmed"
  /\ Send(c, calls[c].browser, calls[c].kind, calls[c].target)

Ended(c) == [x \in DOMAIN calls \ {c} |-> calls[x]]

\* Cancel, Escape, or a resend that was refused.
Cancel(c) ==
  /\ c \in DOMAIN calls /\ calls[c].phase \in {"asking", "confirmed"}
  /\ calls' = Ended(c)
  /\ dialogs' = [b \in Browser |-> IF dialogs[b] = c THEN None ELSE dialogs[b]]
  /\ UNCHANGED <<accountVars, sessions, jars>>

-----------------------------------------------------------------------------
Taken(c, kinds) == c \in DOMAIN calls /\ calls[c].phase = "taken" /\ calls[c].kind \in kinds
Answered(c) == calls' = Ended(c) /\ UNCHANGED <<sessions, jars, dialogs>>

\* The invite creates the account and its link, then the staff row; the row may fail to be
\* written, and then the account is nobody's.
Invite(c, roles) ==
  LET u == calls[c].target IN
  /\ Taken(c, {"invite"}) /\ ~assignmentConflict(roles, Environment) /\ Answered(c)
  /\ IF u \in DOMAIN verified THEN UNCHANGED accountVars
     ELSE /\ verified' = Put(verified, u, {}) /\ unverified' = Put(unverified, u, {})
          /\ links' = links \cup {u}
          /\ \/ staffRows' = Put(staffRows, u, [roles |-> roles, active |-> TRUE])
             \/ UNCHANGED staffRows
          /\ UNCHANGED passwords

setStaffActive(c) ==
  /\ Taken(c, {"disable", "enable"}) /\ Answered(c)
  /\ staffRows' = [staffRows EXCEPT ![calls[c].target].active = (calls[c].kind = "enable")]
  /\ UNCHANGED <<passwords, verified, unverified, links>>

\* Every authenticator goes, one at a time; an error leaves the rest.
ResetMfa(c) ==
  LET u == calls[c].target IN
  /\ Taken(c, {"reset-mfa"}) /\ Answered(c)
  /\ \E gone \in SUBSET (verified[u] \cup unverified[u]) :
       /\ verified' = [verified EXCEPT ![u] = @ \ gone]
       /\ unverified' = [unverified EXCEPT ![u] = @ \ gone]
  /\ UNCHANGED <<staffRows, passwords, links>>

PasswordReset(c) ==
  /\ Taken(c, {"password-reset"}) /\ Answered(c)
  /\ links' = links \cup {calls[c].target}
  /\ UNCHANGED <<staffRows, passwords, verified, unverified>>

\* One of your own: the count was taken when the call arrived.
RemoveFactor(c) ==
  /\ Taken(c, {"remove"}) /\ Answered(c)
  /\ verified' = [verified EXCEPT ![calls[c].by] = @ \ {calls[c].target}]
  /\ UNCHANGED <<staffRows, passwords, unverified, links>>

\* Hedging and emergency access are decided and recorded; nothing else changes.
Governed(c) ==
  /\ Taken(c, {"initiate-hedge", "emergency-access"}) /\ Answered(c)
  /\ UNCHANGED accountVars

AuthNext ==
  \/ Tick
  \/ \E b \in Browser :
       \/ \E u \in User, sid \in SessionId : SignIn(b, u, sid) \/ Confirm(b, u, sid)
       \/ SetPassword(b) \/ SignOut(b) \/ ExpireSession(b) \/ Activity(b) \/ StepUp(b)
       \/ \E f \in FactorId : EnrolAuthenticator(b, f) \/ VerifyAuthenticator(b, f)
       \/ \E c \in CallId : Click(c, b)
  \/ \E c \in CallId :
       \/ Resend(c) \/ Cancel(c) \/ setStaffActive(c) \/ ResetMfa(c) \/ PasswordReset(c)
       \/ RemoveFactor(c) \/ Governed(c)
       \/ \E roles \in InviteRoles : Invite(c, roles)

AuthSpec == AuthInit /\ [][AuthNext]_authVars

-----------------------------------------------------------------------------
\* Whatever is taken up was asked for under a step-up: the same person, in the same session,
\* passed the step-up endpoint within the last five minutes (the code of the sign-in, of an
\* earlier session or of a later re-check never counts), and never on an account of their own
\* unless it is their own authenticator.  (That the session was awake is asked at the arrival
\* of a call; it may fall asleep before the call takes effect.)
PrivilegedUnderStepUp ==
  \A c \in DOMAIN calls : calls[c].phase = "taken" =>
    /\ sessions[calls[c].sid].user = calls[c].by /\ sessions[calls[c].sid].aal2
    /\ calls[c].stepUp <= StepUpWindow
    /\ calls[c].kind \in OnOthers => calls[c].target # calls[c].by

\* "Needs a fresh step-up; never the last one": only a reset by an administrator leaves
\* someone without an authenticator.
OwnRemovalKeepsOne ==
  [][\A u \in DOMAIN verified : verified[u] # {} /\ verified'[u] = {} =>
       \E c \in DOMAIN calls \ DOMAIN calls' : calls[c].kind = "reset-mfa"]_authVars

-----------------------------------------------------------------------------
(***************************************************************************)
(* The staff table and the security log of the administration application: *)
(* what the row-level-security rules of its migration let a signed-in      *)
(* person read, and how the server writes both tables with the service     *)
(* role (lib/auth/store.ts and audit.ts, the staff routes, the script that *)
(* invites the first administrator).                                       *)
(*                                                                         *)
(* A route changes the table, and then records it: the process may end in  *)
(* between, and a record that cannot be written is dropped.  The step-up   *)
(* that the routes ask for is the subject of the first part.               *)
(***************************************************************************)

CONSTANTS
  StaffPerson,      \* people with, or without, an account
  FirstStaff,       \* user -> roles, the staff table at the start
  RoleChoices,      \* the role sets an invite may ask for
  Writer,           \* requests, or runs of the script, under way
  StaffEnvironment,
  LogPage,          \* the records a page of the log shows
  MaxStaffChanges,  \* bound: changes of the staff table and the invites refused
  NothingShown, Free

\* What the log records a change as.
StaffEvent == {"STAFF_INVITE_FAILED", "STAFF_INVITED", "STAFF_ENABLED", "STAFF_DISABLED"}

ASSUME StaffAccessAssumption ==
  /\ {LogPage, MaxStaffChanges} \subseteq Nat \ {0} /\ IsFiniteSet(Writer)
  /\ Free \notin [pc : {"done"}, change : [event : StaffEvent, about : StaffPerson]]

VARIABLES
  accounts,         \* auth.users
  admin_staff,      \* user -> [roles, active]
  admin_audit_log,  \* the records [event, about], in the order they were written
  writing,          \* writer -> the progress of its request
  made,             \* the changes made and the invites refused, in order
  dropped,          \* those that were never recorded
  shownRows         \* the rows that the last step showed

staffVars == <<accounts, admin_staff, admin_audit_log, writing, made, dropped, shownRows>>

StaffInit ==
  /\ accounts = DOMAIN FirstStaff
  /\ admin_staff = [u \in DOMAIN FirstStaff |-> [roles |-> FirstStaff[u], active |-> TRUE]]
  /\ admin_audit_log = <<>> /\ made = <<>> /\ dropped = <<>>
  /\ writing = [w \in Writer |-> Free]
  /\ shownRows = NothingShown

-----------------------------------------------------------------------------
(* The rules of the tables                                                 *)

\* admin_staff_exclusive_roles: auditors and presenters hold a single role.
admin_staff_exclusive_roles(roles) ==
  /\ roles # {}
  /\ "AU" \in roles => roles = {"AU"}
  /\ "DP" \in roles => roles = {"DP"}

\* It is a constraint of the table: no row is there without it.
ASSUME FirstStaffAllowed == \A u \in DOMAIN FirstStaff : admin_staff_exclusive_roles(FirstStaff[u])

admin_has_role(u, wanted) ==
  u \in DOMAIN admin_staff /\ admin_staff[u].active /\ admin_staff[u].roles \cap wanted # {}

\* Mutant of StaffVisible: the rule on the code is one more permission, not a restriction.
StaffVisibleAnyhow(u, aal2) ==
  {r \in DOMAIN admin_staff : aal2 \/ r = u \/ admin_has_role(u, {"PA", "AU"})}

\* A session that passed a code sees its own row; administrators and auditors see all.
StaffVisible(u, aal2) ==
  {r \in DOMAIN admin_staff : aal2 /\ (r = u \/ admin_has_role(u, {"PA", "AU"}))}

LogVisible(u, aal2) ==
  IF aal2 /\ admin_has_role(u, {"PA", "AU"}) THEN admin_audit_log ELSE <<>>

Standing(u) == IF u \in DOMAIN admin_staff THEN admin_staff[u] ELSE [roles |-> {}, active |-> FALSE]
Show(u, aal2, rows, log) ==
  /\ shownRows' = [to |-> u, as |-> Standing(u), aal2 |-> aal2, staff |-> rows, log |-> log]
  /\ UNCHANGED <<accounts, admin_staff, admin_audit_log, writing, made, dropped>>

\* A client with the person's own token reads the tables.
SelectOwn(u, aal2) == Show(u, aal2, StaffVisible(u, aal2), LogVisible(u, aal2))

\* The staff page: the own row is read as that person, everything else with the service role.
StaffPage(u, aal2) ==
  /\ u \in StaffVisible(u, aal2) /\ admin_staff[u].active
  /\ ~assignmentConflict(admin_staff[u].roles, StaffEnvironment)
  /\ admin_staff[u].roles \cap {"PA", "AU"} # {}
  /\ LET n == Len(admin_audit_log) IN
     Show(u, aal2, DOMAIN admin_staff, SubSeq(admin_audit_log, Larger(1, n - LogPage + 1), n))

-----------------------------------------------------------------------------
(* The routes                                                              *)

ShowsNothing == shownRows' = NothingShown
Busy == {w \in Writer : writing[w] # Free}
MoveOn(w, pc) == writing' = [writing EXCEPT ![w] = pc]
Start(w) == writing[w] = Free /\ Len(made) + Cardinality(Busy) < MaxStaffChanges
Administrator(u) == admin_has_role(u, {"PA"}) /\ ~assignmentConflict(admin_staff[u].roles, StaffEnvironment)

\* POST: an administrator, and roles that do not conflict.
InviteStaff(w, by, u, roles) ==
  /\ Start(w) /\ Administrator(by)
  /\ roles # {} /\ ~assignmentConflict(roles, StaffEnvironment)
  /\ MoveOn(w, [pc |-> "checked", user |-> u, roles |-> roles])
  /\ UNCHANGED <<accounts, admin_staff, admin_audit_log, made, dropped>> /\ ShowsNothing

\* The script looks for an active administrator first; of the roles it takes those that
\* are not exclusive.
LookForAdministrator(w, u, roles) ==
  /\ Start(w) /\ "PA" \in roles /\ roles \cap {"AU", "DP"} = {}
  /\ ~ \E s \in DOMAIN admin_staff : admin_has_role(s, {"PA"})
  /\ MoveOn(w, [pc |-> "checked", user |-> u, roles |-> roles])
  /\ UNCHANGED <<accounts, admin_staff, admin_audit_log, made, dropped>> /\ ShowsNothing

\* An account for the address, unless there is one: then the refusal is recorded.
inviteUserByEmail(w) ==
  LET u == writing[w].user  refusal == [event |-> "STAFF_INVITE_FAILED", about |-> u] IN
  /\ writing[w] # Free /\ writing[w].pc = "checked"
  /\ IF u \in accounts
     THEN MoveOn(w, [pc |-> "done", change |-> refusal]) /\ made' = Append(made, refusal) /\ UNCHANGED accounts
     ELSE MoveOn(w, [writing[w] EXCEPT !.pc = "invited"]) /\ accounts' = accounts \cup {u} /\ UNCHANGED made
  /\ UNCHANGED <<admin_staff, admin_audit_log, dropped>> /\ ShowsNothing

Done(w, event, u) ==
  /\ MoveOn(w, [pc |-> "done", change |-> [event |-> event, about |-> u]])
  /\ made' = Append(made, [event |-> event, about |-> u])

\* The row of the account; a row there may be is overwritten.  The table refuses roles it
\* does not allow, and an account that has gone meanwhile.
insertStaff(w) ==
  LET u == writing[w].user IN
  /\ writing[w] # Free /\ writing[w].pc = "invited"
  /\ IF u \in accounts /\ admin_staff_exclusive_roles(writing[w].roles)
     THEN /\ admin_staff' = Put(admin_staff, u, [roles |-> writing[w].roles, active |-> TRUE])
          /\ Done(w, "STAFF_INVITED", u)
     ELSE MoveOn(w, Free) /\ UNCHANGED <<admin_staff, made>>
  /\ UNCHANGED <<accounts, admin_audit_log, dropped>> /\ ShowsNothing

\* PATCH: an administrator, and not on their own row.
PatchStaff(w, by, u, active) ==
  /\ Start(w) /\ Administrator(by) /\ by # u
  /\ MoveOn(w, [pc |-> "patching", user |-> u, active |-> active])
  /\ UNCHANGED <<accounts, admin_staff, admin_audit_log, made, dropped>> /\ ShowsNothing

\* A row that is not there is not found, and nothing is recorded.
updateActive(w) ==
  LET u == writing[w].user  active == writing[w].active IN
  /\ writing[w] # Free /\ writing[w].pc = "patching"
  /\ IF u \in DOMAIN admin_staff
     THEN /\ admin_staff' = [admin_staff EXCEPT ![u].active = active]
          /\ Done(w, IF active THEN "STAFF_ENABLED" ELSE "STAFF_DISABLED", u)
     ELSE MoveOn(w, Free) /\ UNCHANGED <<admin_staff, made>>
  /\ UNCHANGED <<accounts, admin_audit_log, dropped>> /\ ShowsNothing

\* The record, which only ever goes to the end of the log.
appendAudit(w) ==
  /\ writing[w] # Free /\ writing[w].pc = "done"
  /\ admin_audit_log' = Append(admin_audit_log, writing[w].change)
  /\ MoveOn(w, Free)
  /\ UNCHANGED <<accounts, admin_staff, made, dropped>> /\ ShowsNothing

\* The record cannot be written, or the process ends before it is.
Drop(w) ==
  /\ writing[w] # Free
  /\ dropped' = IF writing[w].pc = "done" THEN Append(dropped, writing[w].change) ELSE dropped
  /\ MoveOn(w, Free)
  /\ UNCHANGED <<accounts, admin_staff, admin_audit_log, made>> /\ ShowsNothing

\* An account is deleted; its row goes with it, its records stay.
DeleteAccount(u) ==
  /\ u \in accounts
  /\ accounts' = accounts \ {u}
  /\ admin_staff' = [s \in DOMAIN admin_staff \ {u} |-> admin_staff[s]]
  /\ UNCHANGED <<admin_audit_log, writing, made, dropped>> /\ ShowsNothing

StaffNext ==
  \/ \E w \in Writer :
       \/ inviteUserByEmail(w) \/ insertStaff(w) \/ updateActive(w) \/ appendAudit(w) \/ Drop(w)
       \/ \E u \in StaffPerson :
            \/ \E roles \in RoleChoices :
                 \/ LookForAdministrator(w, u, roles)
                 \/ \E by \in StaffPerson : InviteStaff(w, by, u, roles)
            \/ \E by \in StaffPerson, active \in BOOLEAN : PatchStaff(w, by, u, active)
  \/ \E u \in StaffPerson :
       \/ DeleteAccount(u)
       \/ \E aal2 \in BOOLEAN : SelectOwn(u, aal2) \/ StaffPage(u, aal2)

StaffSpec == StaffInit /\ [][StaffNext]_staffVars

-----------------------------------------------------------------------------
(* Properties                                                              *)

\* A session that passed no code reads nothing, by whatever way; other rows than one's own,
\* and the log, are read only by who was an active administrator or auditor then.
ReadsGuarded ==
  shownRows # NothingShown =>
    LET privileged == shownRows.as.active /\ shownRows.as.roles \cap {"PA", "AU"} # {} IN
    /\ shownRows.staff # {} \/ shownRows.log # <<>> => shownRows.aal2
    /\ shownRows.staff \subseteq {shownRows.to} \/ privileged
    /\ shownRows.log = <<>> \/ privileged

Times(list, change) == Cardinality({i \in DOMAIN list : list[i] = change})

\* The log tells of no change that was not made, and of each change once, except those whose
\* record was dropped or is still to be written, whatever the requests do to the table
\* meanwhile.
LogTruthful ==
  \A change \in {made[i] : i \in DOMAIN made} \cup {admin_audit_log[i] : i \in DOMAIN admin_audit_log} :
    Times(made, change) =
      Times(admin_audit_log, change) + Times(dropped, change)
        + Cardinality({w \in Busy : writing[w].pc = "done" /\ writing[w].change = change})

\* The table mirrors the policy: it never refuses the roles of an invite that was let
\* through, which would leave an account that is nobody's; nor does it hold roles that
\* conflict wherever presenters are allowed.
InvitesFit ==
  /\ \A w \in Busy : writing[w].pc = "invited" => admin_staff_exclusive_roles(writing[w].roles)
  /\ \A u \in DOMAIN admin_staff : ~assignmentConflict(admin_staff[u].roles, "demo")

StaffTablesSound == ReadsGuarded /\ LogTruthful /\ InvitesFit
=============================================================================
