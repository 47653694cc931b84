---------------------------- MODULE LandingPage ----------------------------
(***************************************************************************)
(* The landing page: first the waiting list, then its store and dashboard. *)
(*                                                                         *)
(* The waiting list of the landing page: the overlay asks step by step and *)
(* posts every advance without waiting (SignupOverlay.tsx), the route      *)
(* merges each post into the row of the session (lib/store.ts), the        *)
(* dashboard counts the rows (lib/analytics.ts).  Posts travel on their    *)
(* own: they may be lost, and arrive in any order.  The session id is kept *)
(* in localStorage, so a reopened overlay and a second tab go on with the  *)
(* same row; one session is modelled, rows do not touch one another.       *)
(* Beside it, the contact form and the page view beacon, which only insert.*)
(***************************************************************************)
EXTENDS Maps, SequencesExt, Integers, Sequences

CONSTANTS
  Backends,      \* the stores to try: "file", and "supabase" when it is configured
  Tab,
  STEP_ORDER,    \* the steps, the last two typed in; bound: fewer choices than the code's
  Answers,        \* step -> the values offered, or typed in and accepted as well-formed
  States,        \* country -> its states to choose from, none for most
  Postal,        \* country -> the postcodes its pattern accepts
  LandingMarket, PageMarkets,
  MaxPosts,      \* bound: store -> posts of the session
  MaxMessages    \* bound: submissions of the contact form

\* Each step is asked once, the country first and the address last.
ASSUME StepAssumption ==
  /\ STEP_ORDER \in Seq(STRING) /\ STEP_ORDER[1] = "country" /\ Last(STEP_ORDER) = "email"
  /\ \A i, j \in DOMAIN STEP_ORDER : STEP_ORDER[i] = STEP_ORDER[j] => i = j
  /\ "zip" \in Range(STEP_ORDER) /\ {"none", "started", "state"} \cap Range(STEP_ORDER) = {}

VARIABLES
  backend,   \* supabaseConfigured(): one store for the life of the process
  overlay,   \* tab -> the component: open, stepIndex, answers, phase
  posts,     \* the requests under way, what the supabase handler has read with them; two
             \* equal ones are one, to merge twice is to merge once
  posted, lost,
  row,       \* the submission of the session; its absence is "started" < every step
  site       \* page views sent and stored, the contact form and the stored messages

overlayVars == <<backend, overlay, posts, posted, lost, row>>
signupVars == <<overlayVars, site>>

FUNNEL_STEPS == <<"none", "started">> \o STEP_ORDER   \* "none": there is no row yet
stepIndex(step) == CHOOSE i \in DOMAIN FUNNEL_STEPS : FUNNEL_STEPS[i] = step
NoRow == [furthest |-> "none", completed |-> FALSE, market |-> "none", answers |-> EmptyMap]
Closed == [open |-> FALSE, step |-> 1, answers |-> EmptyMap, phase |-> "form"]

SignupInit ==
  /\ backend \in Backends
  /\ overlay = [t \in Tab |-> Closed]
  /\ posts = {} /\ posted = 0 /\ lost = FALSE
  /\ row = NoRow
  /\ site = [fired |-> {}, sent |-> 0, views |-> 0, status |-> "idle", tries |-> 0, pending |-> FALSE, messages |-> 0]

-----------------------------------------------------------------------------
(* The overlay: every handler posts what it has gathered and moves on      *)

postProgress(step, answers, completed) ==
  /\ posted < MaxPosts[backend]
  /\ posted' = posted + 1
  /\ posts' = posts \cup {[step |-> step, answers |-> answers, completed |-> completed,
                           read |-> FALSE, row |-> NoRow]}

Moves(t, next) ==
  /\ overlay' = [overlay EXCEPT ![t] = next]
  /\ UNCHANGED <<backend, lost, row, site>>

Open(t) ==
  /\ ~overlay[t].open
  /\ Moves(t, [Closed EXCEPT !.open = TRUE])
  /\ postProgress("started", EmptyMap, FALSE)

OnStep(t) == overlay[t].open /\ overlay[t].phase = "form"
stepKey(t) == STEP_ORDER[overlay[t].step]
nextAnswers(t, key, value) == Put(overlay[t].answers, key, value)

\* A country with states asks for the state before the next step.
handleCountryChoice(t, value) ==
  /\ OnStep(t) /\ stepKey(t) = "country"
  /\ LET answers == nextAnswers(t, "country", value)
         asked   == [overlay[t] EXCEPT !.answers = answers] IN
     /\ Moves(t, IF States[value] # {} THEN [asked EXCEPT !.phase = "awaiting-state"]
                                       ELSE [asked EXCEPT !.step = @ + 1])
     /\ postProgress("country", answers, FALSE)

handleStateChoice(t, value) ==
  /\ overlay[t].open /\ overlay[t].phase = "awaiting-state"
  /\ value \in States[overlay[t].answers["country"]]
  /\ LET answers == nextAnswers(t, "state", value) IN
     /\ Moves(t, [overlay[t] EXCEPT !.answers = answers, !.phase = "form", !.step = @ + 1])
     /\ postProgress("country", answers, FALSE)

handleChoice(t, value) ==
  /\ OnStep(t) /\ stepKey(t) \notin {"country", "zip", "email"}
  /\ LET answers == nextAnswers(t, stepKey(t), value) IN
     /\ Moves(t, [overlay[t] EXCEPT !.answers = answers, !.step = @ + 1])
     /\ postProgress(stepKey(t), answers, FALSE)

\* The postcode is checked against the country picked.
validateText(t, value) == stepKey(t) = "zip" => value \in Postal[overlay[t].answers["country"]]

handleTextSubmit(t, value) ==
  /\ OnStep(t) /\ stepKey(t) \in {"zip", "email"}
  /\ validateText(t, value)
  /\ LET answers == nextAnswers(t, stepKey(t), value)
         last    == overlay[t].step = Len(STEP_ORDER)
         typed   == [overlay[t] EXCEPT !.answers = answers] IN
     /\ Moves(t, IF last THEN [typed EXCEPT !.phase = "success"] ELSE [typed EXCEPT !.step = @ + 1])
     /\ postProgress(stepKey(t), answers, last)

\* Back on the first step closes; the success screen keeps its back button.
handleBack(t) ==
  /\ overlay[t].open
  /\ Moves(t, CASE overlay[t].phase = "awaiting-state" -> [overlay[t] EXCEPT !.phase = "form"]
                [] overlay[t].phase # "awaiting-state" /\ overlay[t].step = 1 -> Closed
                [] OTHER -> [overlay[t] EXCEPT !.step = @ - 1])
  /\ UNCHANGED <<posts, posted>>

\* The success screen's button, or the page is left.
Close(t) ==
  /\ overlay[t].open
  /\ Moves(t, Closed)
  /\ UNCHANGED <<posts, posted>>

-----------------------------------------------------------------------------
(* POST /api/signup                                                        *)

\* Mutant of merge: the last post decides, as an update of the row would.
mergeLast(existing, p) ==
  [furthest |-> p.step, completed |-> p.completed, market |-> LandingMarket, answers |-> p.answers]

\* Completion and the furthest step are kept, the first market too; answers overlay.
merge(existing, p) ==
  [furthest  |-> IF stepIndex(p.step) > stepIndex(existing.furthest) THEN p.step ELSE existing.furthest,
   completed |-> existing.completed \/ p.completed,
   market    |-> IF existing.market = "none" THEN LandingMarket ELSE existing.market,
   answers   |-> [k \in DOMAIN p.answers \cup DOMAIN existing.answers |->
                    IF k \in DOMAIN p.answers THEN p.answers[k] ELSE existing.answers[k]]]

\* The file store handles one post at a time.
UpsertFile(p) ==
  /\ backend = "file"
  /\ row' = merge(row, p)
  /\ posts' = posts \ {p}
  /\ UNCHANGED <<backend, overlay, posted, lost, site>>

\* With Supabase the row is read with one request and written back with another.
SelectRow(p) ==
  /\ backend = "supabase" /\ ~p.read
  /\ posts' = (posts \ {p}) \cup {[p EXCEPT !.read = TRUE, !.row = row]}
  /\ UNCHANGED <<backend, overlay, posted, lost, row, site>>

UpsertRow(p) ==
  /\ backend = "supabase" /\ p.read
  /\ row' = merge(p.row, p)
  /\ posts' = posts \ {p}
  /\ UNCHANGED <<backend, overlay, posted, lost, site>>

\* The network, or the store, fails: nobody is told.
Lose(p) ==
  /\ posts' = posts \ {p}
  /\ lost' = TRUE
  /\ UNCHANGED <<backend, overlay, posted, row, site>>

-----------------------------------------------------------------------------
(* The page view beacon and the contact form                               *)

\* Once for each market in a browser session; nobody waits for the answer.
PageView(m) ==
  /\ m \notin site.fired
  /\ site' = [site EXCEPT !.fired = @ \cup {m}, !.sent = @ + 1]
  /\ UNCHANGED overlayVars

addPageView ==
  /\ site.sent > 0
  /\ site' = [site EXCEPT !.sent = @ - 1, !.views = @ + 1]
  /\ UNCHANGED overlayVars

\* The beacon does not arrive, or the store refuses it: it is not sent again.
LoseView ==
  /\ site.sent > 0
  /\ site' = [site EXCEPT !.sent = @ - 1]
  /\ UNCHANGED overlayVars

SubmitContact ==
  /\ site.status \in {"idle", "error"} /\ site.tries < MaxMessages
  /\ site' = [site EXCEPT !.status = "sending", !.tries = @ + 1, !.pending = TRUE]
  /\ UNCHANGED overlayVars

AddContact ==
  /\ site.pending
  /\ site' = [site EXCEPT !.pending = FALSE, !.messages = @ + 1]
  /\ UNCHANGED overlayVars

\* An answer, or an error: of the store, or of the network before or after it.
ContactAnswer ==
  /\ site.status = "sending"
  /\ \/ ~site.pending /\ site' = [site EXCEPT !.status = "sent"]
     \/ site' = [site EXCEPT !.status = "error", !.pending = FALSE]
  /\ UNCHANGED overlayVars

OverlayNext ==
  \/ \E t \in Tab :
       \/ Open(t) \/ handleBack(t) \/ Close(t)
       \/ \E value \in Answers["country"] : handleCountryChoice(t, value)
       \/ \E value \in UNION {States[c] : c \in DOMAIN States} : handleStateChoice(t, value)
       \/ OnStep(t) /\ \E value \in Answers[stepKey(t)] : handleChoice(t, value) \/ handleTextSubmit(t, value)
  \/ \E p \in posts : UpsertFile(p) \/ SelectRow(p) \/ UpsertRow(p) \/ Lose(p)

SiteNext ==
  \/ \E m \in PageMarkets : PageView(m)
  \/ addPageView \/ LoseView \/ SubmitContact \/ AddContact \/ ContactAnswer

SignupNext == OverlayNext \/ SiteNext

SignupSpec == SignupInit /\ [][SignupNext]_signupVars

-----------------------------------------------------------------------------
(* The dashboard                                                           *)

totalStarts == IF row = NoRow THEN 0 ELSE 1
totalCompleted == IF row.completed THEN 1 ELSE 0

\* computeFunnelCounts: a completed row counts for every step.
reached == IF row.completed THEN "email" ELSE row.furthest
computeFunnelCounts ==
  [step \in Range(Tail(FUNNEL_STEPS)) |-> IF stepIndex(step) <= stepIndex(reached) THEN 1 ELSE 0]

-----------------------------------------------------------------------------
(* Properties                                                              *)

\* "Every step advance posts ..., upserting a record keyed by a client-generated
\* sessionId ... partial/dropped signups are captured too, not just completions"
\* (landing-page/README.md:59): once the posts of a visitor who was thanked have arrived,
\* the row is completed and has an answer of the visitor's for every step.
AdvancesKept ==
  (\E t \in Tab : overlay[t].phase = "success") /\ posts = {} /\ ~lost =>
    /\ row.completed /\ row.furthest = "email"
    /\ \A step \in Range(STEP_ORDER) :
         step \in DOMAIN row.answers /\ row.answers[step] \in Answers[step]

\* With the file store whatever was thanked for is recorded, in whatever order and from
\* however many tabs the posts come.  With either, the dashboard's two counts of
\* completions agree, the postcode sent is one of the country sent, a contact message
\* shown as sent is stored, and a market counts one view of a session at most.
CompletionRecorded ==
  /\ backend = "file" => AdvancesKept
  /\ \A t \in Tab : overlay[t].phase = "success" =>
       overlay[t].answers["zip"] \in Postal[overlay[t].answers["country"]]
  /\ computeFunnelCounts["email"] = totalCompleted
  /\ computeFunnelCounts["started"] = totalStarts
  /\ site.status = "sent" => site.messages > 0
  /\ site.views + site.sent <= Cardinality(site.fired)

-----------------------------------------------------------------------------
(***************************************************************************)
(* The landing page's own store and who may look into it: the JSON files   *)
(* of landing-page/lib/store.ts, written by one queue for each file and    *)
(* read by the dashboard and its export outside the queue, and the session *)
(* of the dashboard (lib/session.ts, lib/actions.ts).                      *)
(*                                                                         *)
(* A write empties the file before it fills it.  The process may end at    *)
(* any moment, and a write may fail: the file stays as it is then.  One    *)
(* file is modelled, the submissions: the others only ever add a row.      *)
(***************************************************************************)
CONSTANTS
  Task,          \* requests to store something
  RowOf,         \* task -> its row: [key, market, completed]; a row of the same key is replaced
  Visitor,       \* browsers that open the dashboard
  SessionDays,   \* the 7 days a session lasts
  LastDate,      \* bound: the last day
  MaxCuts,       \* bound: ends of the process and failed writes
  NoView, NoSession

ASSUME DashboardAssumption ==
  /\ {SessionDays, LastDate, MaxCuts} \subseteq Nat
  /\ \A t \in Task :
       /\ RowOf[t] = [key |-> RowOf[t].key, market |-> RowOf[t].market, completed |-> RowOf[t].completed]
       /\ RowOf[t].completed \in BOOLEAN

VARIABLES
  file,          \* what is on the disk: state and rows
  queue,         \* the tasks waiting or running, in order
  task,          \* task -> its progress, and what it has read
  cuts,          \* writes cut short, and ends of the process
  date,          \* the day
  cookie,        \* visitor -> the session: the day it was signed, or NoSession
  signedIn,      \* visitor -> the day of the last correct password
  shownPage           \* what was last shown, to whom and when

dashboardVars == <<file, queue, task, cuts, date, cookie, signedIn, shownPage>>

Waiting == [pc |-> "none", rows |-> <<>>]

DashboardInit ==
  /\ file = [state |-> "absent", rows |-> <<>>]
  /\ queue = <<>> /\ task = [t \in Task |-> Waiting] /\ cuts = [writes |-> 0, ends |-> 0]
  /\ date = 0
  /\ cookie = [v \in Visitor |-> NoSession] /\ signedIn = [v \in Visitor |-> NoSession]
  /\ shownPage = NoView

storeVars == <<file, queue, task, cuts>>
visitVars == <<date, cookie, signedIn, shownPage>>

-----------------------------------------------------------------------------
(* The file store                                                          *)

Enqueue(t) ==
  /\ task[t].pc = "none"
  /\ queue' = Append(queue, t)
  /\ task' = [task EXCEPT ![t].pc = "queued"]
  /\ UNCHANGED <<file, cuts, visitVars>>

\* Mutant of Turn: tasks do not wait for one another.
AnyTurn(t) == \E i \in DOMAIN queue : queue[i] = t

\* A task runs when the one before it has ended, well or not.
Turn(t) == queue # <<>> /\ queue[1] = t

\* The queue once a task has ended.
Without(t) ==
  LET place == CHOOSE i \in DOMAIN queue : queue[i] = t
  IN [i \in 1 .. (Len(queue) - 1) |-> IF i < place THEN queue[i] ELSE queue[i + 1]]

\* readJsonFile: no file and a blank one are an empty list, what cannot be parsed throws.
Readable == file.state # "torn"
Content == IF file.state = "whole" THEN file.rows ELSE <<>>

ReadFile(t) ==
  /\ task[t].pc = "queued" /\ Turn(t)
  /\ IF Readable
     THEN task' = [task EXCEPT ![t] = [pc |-> "read", rows |-> Content]] /\ UNCHANGED queue
     ELSE task' = [task EXCEPT ![t].pc = "failed"] /\ queue' = Without(t)
  /\ UNCHANGED <<file, cuts, visitVars>>

\* The row replaces the one of its session, or goes to the end.
Merged(rows, newRow) ==
  IF \E i \in DOMAIN rows : rows[i].key = newRow.key
  THEN [i \in DOMAIN rows |-> IF rows[i].key = newRow.key
                              THEN [newRow EXCEPT !.completed = @ \/ rows[i].completed] ELSE rows[i]]
  ELSE Append(rows, newRow)

\* writeFile: the file is emptied, then filled, perhaps in parts.
Empty(t) ==
  /\ task[t].pc = "read"
  /\ file' = [state |-> "blank", rows |-> <<>>]
  /\ task' = [task EXCEPT ![t] = [pc |-> "writing", rows |-> Merged(@.rows, RowOf[t])]]
  /\ UNCHANGED <<queue, cuts, visitVars>>

Part(t) ==
  /\ task[t].pc = "writing" /\ file.state = "blank"
  /\ file' = [file EXCEPT !.state = "torn"]
  /\ UNCHANGED <<queue, task, cuts, visitVars>>

Written(t) ==
  /\ task[t].pc = "writing"
  /\ file' = [state |-> "whole", rows |-> task[t].rows]
  /\ task' = [task EXCEPT ![t] = [pc |-> "answered", rows |-> <<>>]]
  /\ queue' = Without(t)
  /\ UNCHANGED <<cuts, visitVars>>

\* The write fails, and the next task has its turn.
WriteFails(t) ==
  /\ task[t].pc = "writing" /\ cuts.writes < MaxCuts
  /\ task' = [task EXCEPT ![t] = [pc |-> "failed", rows |-> <<>>]]
  /\ queue' = Without(t)
  /\ cuts' = [cuts EXCEPT !.writes = @ + 1]
  /\ UNCHANGED <<file, visitVars>>

\* The process ends: the queue is lost, and the file stays as it is.
Ends ==
  /\ cuts.ends < MaxCuts
  /\ cuts' = [ends |-> cuts.ends + 1,
              writes |-> cuts.writes + Cardinality({t \in Task : task[t].pc = "writing"})]
  /\ task' = [t \in Task |-> IF task[t].pc \in {"queued", "read", "writing"}
                             THEN [pc |-> "failed", rows |-> <<>>] ELSE task[t]]
  /\ queue' = <<>>
  /\ UNCHANGED <<file, visitVars>>

-----------------------------------------------------------------------------
(* The dashboard                                                           *)

NewDay ==
  /\ date < LastDate /\ date' = date + 1
  /\ UNCHANGED <<storeVars, cookie, signedIn, shownPage>>

\* loginAction: the right password signs a session for seven days.
loginAction(v, correct) ==
  /\ cookie' = [cookie EXCEPT ![v] = IF correct THEN date ELSE @]
  /\ signedIn' = [signedIn EXCEPT ![v] = IF correct THEN date ELSE @]
  /\ UNCHANGED <<storeVars, date, shownPage>>

logoutAction(v) ==
  /\ cookie' = [cookie EXCEPT ![v] = NoSession]
  /\ UNCHANGED <<storeVars, date, signedIn, shownPage>>

verifyDashboardSession(v) == cookie[v] # NoSession /\ date - cookie[v] < SessionDays

\* computeMarketBreakdown: the sign-ups begun and completed, of each market.
computeMarketBreakdown(rows) ==
  [m \in {rows[i].market : i \in DOMAIN rows} |->
     LET of == {i \in DOMAIN rows : rows[i].market = m} IN
     [starts |-> Cardinality(of), completions |-> Cardinality({i \in of : rows[i].completed})]]

computeSummary(rows) ==
  [starts |-> Len(rows), completions |-> Cardinality({i \in DOMAIN rows : rows[i].completed})]

\* The page shows the breakdown, the export the rows; neither waits for the queue.  A torn
\* file is an error.
DashboardPage(v) ==
  /\ verifyDashboardSession(v) /\ Readable
  /\ shownPage' = [to |-> v, on |-> date, signed |-> signedIn[v], rows |-> Content,
              markets |-> computeMarketBreakdown(Content), summary |-> computeSummary(Content)]
  /\ UNCHANGED <<storeVars, date, cookie, signedIn>>

DashboardNext ==
  \/ \E t \in Task :
       Enqueue(t) \/ ReadFile(t) \/ Empty(t) \/ Part(t) \/ Written(t) \/ WriteFails(t)
  \/ Ends \/ NewDay
  \/ \E v \in Visitor :
       (\E correct \in BOOLEAN : loginAction(v, correct)) \/ logoutAction(v) \/ DashboardPage(v)

DashboardSpec == DashboardInit /\ [][DashboardNext]_dashboardVars

-----------------------------------------------------------------------------
(* Properties                                                              *)

AnsweredTasks == {t \in Task : task[t].pc = "answered"}

\* As long as no write is cut short, the file between two writes holds one row for each
\* session that was answered, completed if any of its requests was, whatever the order of
\* the requests and however often the process ended between them.
AnsweredIsStored ==
  cuts.writes = 0 /\ (\A t \in Task : task[t].pc # "writing") =>
    /\ {Content[i].key : i \in DOMAIN Content} = {RowOf[t].key : t \in AnsweredTasks}
    /\ \A i, j \in DOMAIN Content : Content[i].key = Content[j].key => i = j
    /\ \A i \in DOMAIN Content :
         Content[i].completed <=> \E t \in AnsweredTasks : RowOf[t].key = Content[i].key /\ RowOf[t].completed

\* The dashboard is shown only to who gave the password within the days a session lasts,
\* and its tables add up to its rows.
ShownToSignedIn ==
  shownPage # NoView =>
    /\ shownPage.signed # NoSession /\ shownPage.on - shownPage.signed < SessionDays
    /\ shownPage.summary.starts = Total([m \in DOMAIN shownPage.markets |-> shownPage.markets[m].starts])
    /\ shownPage.summary.completions = Total([m \in DOMAIN shownPage.markets |-> shownPage.markets[m].completions])

StoreAnswers == AnsweredIsStored /\ ShownToSignedIn
=============================================================================
