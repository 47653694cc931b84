--------------------------- MODULE FeedIngestion ---------------------------
(***************************************************************************)
(* The UK Fuel Finder feed: src/lib/fuel-finder-persistence.ts writes each *)
(* snapshot to the database in steps, one request after the other, and     *)
(* reads the newest run and the current prices back for the app.           *)
(*                                                                         *)
(* Every await is a place where another run, a reader, an error or the end *)
(* of the process can come in between: the workflow retries a refresh      *)
(* whose answer it did not wait for, so runs overlap.  Each database       *)
(* request is one action; a batch of 500 rows is any part of what is left. *)
(* A station stands for its provider too: both are upserted as active and  *)
(* both must be active to be offered.                                      *)
(***************************************************************************)
EXTENDS Maps, Integers

CONSTANTS
  Run, Station,
  Snapshot,      \* what a fetch may return: station -> [price, observed, plausible]
  ObservationAge,\* the 24 hours a price stays current
  RunAge,        \* the 15 minutes a completed run counts as current
  Skew,          \* the 5 minutes an observation may be ahead of the clock
  MaxTime,       \* bound: the last moment of the clock
  MaxSuspensions,\* bound: suspensions of stations by operators
  None

ASSUME TimeAssumption == {ObservationAge, RunAge, Skew, MaxTime, MaxSuspensions} \subseteq Nat
ASSUME SnapshotAssumption ==
  \A f \in Snapshot : /\ DOMAIN f \subseteq Station
                      /\ \A s \in DOMAIN f : f[s].observed \in Nat /\ f[s].plausible \in BOOLEAN

VARIABLES
  now,
  runs,          \* pricing_ingestion_runs: run -> status, started, completed, accepted
  active,        \* the stations with status 'active'
  suspended,     \* the stations an operator has suspended, and how often that was done
  observations,  \* <<station, observed>> -> [price, quality]
  job,           \* run -> the progress of persistFuelFinderSnapshot
  reader         \* the progress of readPersistedFuelFinderSnapshot

feedVars == <<now, runs, active, suspended, observations, job, reader>>

NotReading == [pc |-> "idle"]

FeedInit ==
  /\ now = 1
  /\ runs = EmptyMap /\ observations = EmptyMap
  /\ active = {} /\ suspended = [stations |-> {}, times |-> 0]
  /\ job = [r \in Run |-> [pc |-> "none"]]
  /\ reader = NotReading

-----------------------------------------------------------------------------
(* persistFuelFinderSnapshot                                               *)

qualityOf(reading) ==
  IF ~reading.plausible \/ reading.observed > now + Skew THEN "rejected"
  ELSE IF now - reading.observed > ObservationAge THEN "pending" ELSE "verified"

StartRun(r, f) ==
  /\ job[r].pc = "none"
  /\ job' = [job EXCEPT ![r] = [pc |-> "stations", snapshot |-> f, todo |-> DOMAIN f]]
  /\ runs' = Put(runs, r, [status |-> "running", started |-> now, completed |-> None,
                           accepted |-> 0])
  /\ UNCHANGED <<now, active, suspended, observations, reader>>

\* The providers and then the stations, batch by batch, are upserted as active.
UpsertStations(r, batch) ==
  /\ job[r].pc = "stations"
  /\ batch \subseteq job[r].todo /\ batch # {}
  /\ active' = active \cup batch
  /\ job' = [job EXCEPT ![r].todo = @ \ batch]
  /\ UNCHANGED <<now, runs, suspended, observations, reader>>

\* The clock is read once, and every observation is judged by that reading.
JudgeObservations(r) ==
  /\ job[r].pc = "stations" /\ job[r].todo = {}
  /\ LET f == job[r].snapshot IN
     job' = [job EXCEPT ![r] = [pc |-> "observations", snapshot |-> f, todo |-> DOMAIN f,
                                quality |-> [s \in DOMAIN f |-> qualityOf(f[s])]]]
  /\ UNCHANGED <<now, runs, active, suspended, observations, reader>>

KeptRow(k, row) == IF k \in DOMAIN observations THEN observations[k] ELSE row

\* ignoreDuplicates: an observation that is already stored stays as it is.
UpsertObservations(r, batch) ==
  /\ job[r].pc = "observations"
  /\ batch \subseteq job[r].todo /\ batch # {}
  /\ LET f == job[r].snapshot
         rows == {<<s, f[s].observed>> : s \in batch}
     IN observations' = [k \in DOMAIN observations \cup rows |->
          IF k \in rows
          THEN KeptRow(k, [price |-> f[k[1]].price, quality |-> job[r].quality[k[1]]])
          ELSE observations[k]]
  /\ job' = [job EXCEPT ![r].todo = @ \ batch]
  /\ UNCHANGED <<now, runs, active, suspended, reader>>

\* Mutant of AllStored: the last batches are not awaited.
SomeStored(r) == job[r].pc = "observations"

AllStored(r) == job[r].pc = "observations" /\ job[r].todo = {}

Ended(run, status) == [run EXCEPT !.status = status, !.completed = now]

\* The run is marked completed with its counts.  The result of this update is not
\* looked at: it may have failed.
Complete(r) ==
  /\ AllStored(r)
  /\ \/ runs' = [runs EXCEPT ![r] =
          [Ended(@, "completed") EXCEPT
                    !.accepted = Cardinality({s \in DOMAIN job[r].quality :
                                                job[r].quality[s] = "verified"})]]
     \/ UNCHANGED runs
  /\ job' = [job EXCEPT ![r].pc = "returned"]
  /\ UNCHANGED <<now, active, suspended, observations, reader>>

\* A request fails: the catch block marks the run, if it can, and throws on.
Fail(r) ==
  /\ job[r].pc \in {"stations", "observations"}
  /\ \/ runs' = [runs EXCEPT ![r] = Ended(@, "failed")]
     \/ UNCHANGED runs
  /\ job' = [job EXCEPT ![r].pc = "threw"]
  /\ UNCHANGED <<now, active, suspended, observations, reader>>

\* The process ends: a deployment, or the 300 seconds of maxDuration.
Crash(r) ==
  /\ job[r].pc \in {"stations", "observations"}
  /\ job' = [job EXCEPT ![r].pc = "crashed"]
  /\ UNCHANGED <<now, runs, active, suspended, observations, reader>>

-----------------------------------------------------------------------------
(* The database functions                                                  *)

Finished == {r \in DOMAIN runs : runs[r].status \in {"completed", "failed"}}

\* Mutant of FeedHealth: the run that finished last.
LastFinished ==
  {r \in Finished : \A q \in Finished : runs[q].completed <= runs[r].completed}

\* get_pricing_feed_health: the finished run that started last.
FeedHealth ==
  {r \in Finished : \A q \in Finished : runs[q].started <= runs[r].started}

Current(s) ==
  {t \in 0 .. now + Skew : /\ <<s, t>> \in DOMAIN observations
                           /\ observations[<<s, t>>].quality = "verified"
                           /\ now - t <= ObservationAge}

\* get_current_lock_options: the last verified observation of every active station.
Offered(s) == IF s \in active THEN Current(s) ELSE {}
Observed(s) == CHOOSE t \in Offered(s) : \A u \in Offered(s) : u <= t
Offers == [s \in {s \in Station : Offered(s) # {}} |-> Observed(s)]

-----------------------------------------------------------------------------
(* readPersistedFuelFinderSnapshot: the two functions are called in        *)
(* parallel, so either may be evaluated first.                             *)

ReadHealth ==
  \/ /\ reader.pc = "idle"
     /\ \E r \in FeedHealth : reader' = [pc |-> "health", run |-> r, state |-> runs[r],
                                         optionsFirst |-> FALSE]
     /\ UNCHANGED <<now, runs, active, suspended, observations, job>>
  \/ /\ reader.pc = "options"
     /\ \E r \in FeedHealth : reader' = [pc |-> "both", run |-> r, state |-> runs[r],
                                         offers |-> reader.offers, optionsFirst |-> TRUE]
     /\ UNCHANGED <<now, runs, active, suspended, observations, job>>

ReadOptions ==
  /\ \/ /\ reader.pc = "idle"
        /\ reader' = [pc |-> "options", offers |-> Offers]
     \/ /\ reader.pc = "health"
        /\ reader' = [pc |-> "both", run |-> reader.run, state |-> reader.state,
                      offers |-> Offers, optionsFirst |-> FALSE]
  /\ UNCHANGED <<now, runs, active, suspended, observations, job>>

\* Mutant of Serves: a failed run serves too.
ServesAnyRun ==
  now - reader.state.completed <= RunAge /\ DOMAIN reader.offers # {}

\* A snapshot is served only from a run that completed lately, and with prices.
Serves ==
  /\ reader.state.status = "completed"
  /\ now - reader.state.completed <= RunAge
  /\ DOMAIN reader.offers # {}

Answer ==
  /\ reader.pc = "both"
  /\ reader' = IF Serves THEN [reader EXCEPT !.pc = "served"] ELSE NotReading
  /\ UNCHANGED <<now, runs, active, suspended, observations, job>>

NextRequest ==
  /\ reader.pc = "served"
  /\ reader' = NotReading
  /\ UNCHANGED <<now, runs, active, suspended, observations, job>>

-----------------------------------------------------------------------------
\* An operator suspends a station: nothing in the repository does, the schema and the
\* query provide for it.
Suspend(s) ==
  /\ s \in active /\ suspended.times < MaxSuspensions
  /\ active' = active \ {s}
  /\ suspended' = [stations |-> suspended.stations \cup {s}, times |-> suspended.times + 1]
  /\ UNCHANGED <<now, runs, observations, job, reader>>

Tick ==
  /\ now < MaxTime
  /\ now' = now + 1
  /\ UNCHANGED <<runs, active, suspended, observations, job, reader>>

FeedNext ==
  \/ \E r \in Run :
       \/ \E f \in Snapshot : StartRun(r, f)
       \/ \E batch \in SUBSET Station :
            UpsertStations(r, batch) \/ UpsertObservations(r, batch)
       \/ JudgeObservations(r) \/ Complete(r) \/ Fail(r) \/ Crash(r)
  \/ ReadHealth \/ ReadOptions \/ Answer \/ NextRequest
  \/ \E s \in Station : Suspend(s)
  \/ Tick

FeedSpec == FeedInit /\ [][FeedNext]_feedVars

-----------------------------------------------------------------------------
(* Properties                                                              *)

\* A run is called completed only when everything it fetched is in the database,
\* whatever other runs did meanwhile.
CompletedMeansStored ==
  \A r \in DOMAIN runs : runs[r].status = "completed" =>
    LET f == job[r].snapshot IN
    \A s \in DOMAIN f : /\ s \in active \cup suspended.stations
                        /\ <<s, f[s].observed>> \in DOMAIN observations

\* Overlapping runs never turn the clock back: while a station is offered, the price
\* offered is never replaced by one observed earlier, and the run that reports the
\* feed's health never by one that started earlier.
NeverOlder ==
  [][/\ \A s \in DOMAIN Offers \cap DOMAIN Offers' : Offers'[s] >= Offers[s]
     /\ \A r \in FeedHealth, q \in FeedHealth' : runs'[q].started >= runs[r].started]_feedVars

\* A served snapshot shows at least what the run it is attributed to fetched: each
\* price that run stored as verified and that is still current, or a later one.  Only
\* when the health was read first: the prices may be older than the run otherwise.
ServedShowsItsRun ==
  reader.pc = "served" /\ ~reader.optionsFirst =>
    LET f == job[reader.run].snapshot IN
    \A s \in DOMAIN f :
      \/ s \in DOMAIN reader.offers /\ reader.offers[s] >= f[s].observed
      \/ /\ <<s, f[s].observed>> \in DOMAIN observations
         /\ observations[<<s, f[s].observed>>].quality # "verified"
      \/ now - f[s].observed > ObservationAge
      \/ s \in suspended.stations

\* The feed shows what it stored, and stored what it fetched.
FeedShowsWhatItStored == CompletedMeansStored /\ ServedShowsItsRun
=============================================================================
