--------------------------- MODULE CustomerProofs ---------------------------
(***************************************************************************)
(* For any runs, stations, snapshots and ages: however runs overlap, fail  *)
(* or crash, a run that says completed stored what it fetched, a reader is *)
(* shown no less than that, and what the app is offered never turns back.  *)
(* And for any sign-ups and plans: whoever is let into the wallet without  *)
(* another registering the same customer has been verified; and what the   *)
(* waiting list thanked for is recorded, what its store answered is in the *)
(* file.  And for any prices, control prices and amounts: the              *)
(* demonstrator's books add up.  And for any lists, pages and lifetimes of *)
(* tokens: what is fetched of the forecourts' prices is whole.             *)
(***************************************************************************)
EXTENDS FeedIngestion, FuelFinder, CustomerApp, Onboarding, LandingPage, BasicLemmas, SequenceTheorems

-----------------------------------------------------------------------------
(* The inductive invariant                                                 *)

Quality == {"verified", "pending", "rejected"}
Judgement == UNION {[D -> Quality] : D \in SUBSET Station}
Offering == UNION {[D -> Nat] : D \in SUBSET Station}

JobRecord ==
  [pc : {"none"}]
  \cup [pc : {"stations", "threw", "crashed"}, snapshot : Snapshot, todo : SUBSET Station]
  \cup [pc : {"observations", "returned", "threw", "crashed"}, snapshot : Snapshot,
        todo : SUBSET Station, quality : Judgement]

\* What is left to write is a part of what was fetched.
Jobs == {j \in JobRecord : j.pc # "none" => j.todo \subseteq DOMAIN j.snapshot}

RunRow ==
  [status : {"running", "completed", "failed"}, started : Nat, completed : Nat \cup {None},
   accepted : {0} \cup {Cardinality(S) : S \in SUBSET Station}]

Readers ==
  [pc : {"idle"}]
  \cup [pc : {"health"}, run : Run, state : RunRow, optionsFirst : {FALSE}]
  \cup [pc : {"options"}, offers : Offering]
  \cup [pc : {"both", "served"}, run : Run, state : RunRow, offers : Offering, optionsFirst : BOOLEAN]

FeedTyped ==
  /\ now \in Nat /\ suspended \in [stations : SUBSET Station, times : Nat]
  /\ job \in [Run -> Jobs] /\ IsMap(runs, Run, RunRow) /\ reader \in Readers

Known == active \cup suspended.stations

\* What is left to do is all that is not in the database.
JobsProgress ==
  \A r \in Run :
    /\ job[r].pc = "stations" => DOMAIN job[r].snapshot \ job[r].todo \subseteq Known
    /\ job[r].pc \in {"observations", "returned"} =>
         /\ DOMAIN job[r].snapshot \subseteq Known
         /\ \A s \in DOMAIN job[r].snapshot :
              /\ s \notin job[r].todo => <<s, job[r].snapshot[s].observed>> \in DOMAIN observations
              /\ job[r].quality[s] = "verified" => job[r].snapshot[s].observed <= now + Skew
    /\ job[r].pc = "returned" => job[r].todo = {}

\* A row ends as its run does, and only then.
RunsFollow ==
  \A r \in DOMAIN runs :
    /\ job[r].pc # "none"
    /\ runs[r].status = "completed" => job[r].pc = "returned"
    /\ runs[r].status = "failed" => job[r].pc = "threw"

\* The verified observations of a station: none is ahead of the clock, and one is the last.
Verified(s) == {t \in Nat : <<s, t>> \in DOMAIN observations /\ observations[<<s, t>>].quality = "verified"}

LastVerified ==
  \A s \in Station :
    /\ \A t \in Verified(s) : t <= now + Skew
    /\ Verified(s) # {} => \E t \in Verified(s) : \A u \in Verified(s) : u <= t

\* What the reader holds shows a station that its run fetched, unless its price is not
\* verified, too old by now, or was suspended.
Shows(f, offers) ==
  \A s \in DOMAIN f :
    \/ s \in DOMAIN offers /\ offers[s] >= f[s].observed
    \/ /\ <<s, f[s].observed>> \in DOMAIN observations
       /\ observations[<<s, f[s].observed>>].quality # "verified"
    \/ now - f[s].observed > ObservationAge
    \/ s \in suspended.stations

ReaderFollows ==
  /\ reader.pc \in {"health", "both", "served"} /\ reader.state.status = "completed" =>
       job[reader.run].pc = "returned"
  /\ reader.pc \in {"both", "served"} /\ reader.state.status = "completed" /\ ~reader.optionsFirst =>
       Shows(job[reader.run].snapshot, reader.offers)
  /\ reader.pc = "served" => reader.state.status = "completed"

IInv == FeedTyped /\ JobsProgress /\ RunsFollow /\ LastVerified /\ ReaderFollows

-----------------------------------------------------------------------------
(* Lemmas                                                                  *)

\* A bound may only move up.
LEMMA BoundMoves ==
  ASSUME NEW t \in Int, NEW n \in Int, NEW m \in Int, NEW k \in Int, t <= n + k, n <= m
  PROVE  t <= m + k
  OBVIOUS

\* The price offered is the last one verified, whatever else may be too old to be shown.
LEMMA OfferedIsLast ==
  ASSUME FeedTyped, LastVerified, NEW s \in Station, Offered(s) # {}
  PROVE  /\ s \in active /\ Observed(s) \in Verified(s) /\ Observed(s) \in Nat
         /\ \A u \in Verified(s) : u <= Observed(s)
<1>0. now \in Nat /\ Skew \in Nat /\ ObservationAge \in Nat
  BY TimeAssumption DEF FeedTyped
<1>1. s \in active /\ Offered(s) = Current(s)
  BY DEF Offered
<1>2. Current(s) \subseteq Verified(s)
  BY <1>0 DEF Current, Verified
<1>3. PICK t \in Current(s) : TRUE
  BY <1>1
<1>4. PICK m \in Verified(s) : \A u \in Verified(s) : u <= m
  BY <1>2, <1>3 DEF LastVerified
<1>5. m \in Nat /\ t \in Nat /\ t <= m /\ m <= now + Skew /\ now - t <= ObservationAge
  BY <1>0, <1>2, <1>3, <1>4 DEF Current, Verified, LastVerified
<1>6. m \in Current(s)
  <2>1. m \in 0 .. now + Skew /\ now - m <= ObservationAge
    BY <1>0, <1>5
  <2>2. QED
    BY <1>4, <2>1 DEF Current, Verified
<1>7. \A u \in Offered(s) : u <= m
  BY <1>1, <1>2, <1>4
<1>8. Observed(s) \in Offered(s) /\ \A u \in Offered(s) : u <= Observed(s)
  BY <1>1, <1>6, <1>7 DEF Observed
<1>9. Observed(s) \in Nat /\ m <= Observed(s) /\ Observed(s) \in Verified(s)
  BY <1>1, <1>2, <1>6, <1>8 DEF Verified
<1>10. \A u \in Verified(s) : u <= Observed(s)
  <2>1. ASSUME NEW u \in Verified(s)
        PROVE  u <= Observed(s)
    <3>1. u \in Nat /\ u <= m
      BY <1>4, <2>1 DEF Verified
    <3>2. QED
      BY <1>5, <1>9, <3>1
  <2>2. QED
    BY <2>1
<1>11. QED
  BY <1>1, <1>9, <1>10

\* What is offered is a function from stations to instants.
LEMMA OffersTyped ==
  ASSUME FeedTyped, LastVerified
  PROVE  Offers \in Offering
<1>1. \A s \in Station : Offered(s) # {} => Observed(s) \in Nat
  BY OfferedIsLast
<1>2. Offers \in [{s \in Station : Offered(s) # {}} -> Nat]
  BY <1>1 DEF Offers
<1>3. QED
  BY <1>2 DEF Offering

\* Whoever reads after a run completed is shown all of it.
LEMMA OffersShow ==
  ASSUME IInv, NEW r \in Run, job[r].pc = "returned"
  PROVE  Shows(job[r].snapshot, Offers)
<1> DEFINE f == job[r].snapshot
<1>1. f \in Snapshot /\ job[r].todo = {}
  BY DEF IInv, FeedTyped, Jobs, JobRecord, JobsProgress
<1>2. SUFFICES ASSUME NEW s \in DOMAIN f, s \notin suspended.stations, ~(now - f[s].observed > ObservationAge),
                      <<s, f[s].observed>> \in DOMAIN observations => observations[<<s, f[s].observed>>].quality = "verified"
               PROVE  s \in DOMAIN Offers /\ Offers[s] >= f[s].observed
  BY DEF Shows
<1>3. s \in Station /\ f[s].observed \in Nat
  BY <1>1, SnapshotAssumption
<1>4. s \in active /\ <<s, f[s].observed>> \in DOMAIN observations
  BY <1>1, <1>2 DEF IInv, JobsProgress, Known
<1>5. f[s].observed \in Verified(s)
  BY <1>2, <1>3, <1>4 DEF Verified
<1>6. f[s].observed <= now + Skew
  BY <1>3, <1>5 DEF IInv, LastVerified
<1>7. f[s].observed \in Current(s)
  <2>1. now \in Nat /\ Skew \in Nat /\ ObservationAge \in Nat
    BY TimeAssumption DEF IInv, FeedTyped
  <2>2. f[s].observed \in 0 .. now + Skew /\ now - f[s].observed <= ObservationAge
    BY <1>2, <1>3, <1>6, <2>1
  <2>3. QED
    BY <1>2, <1>4, <2>2 DEF Current
<1>8. Offered(s) # {}
  BY <1>4, <1>7 DEF Offered
<1>9. f[s].observed <= Observed(s) /\ Observed(s) \in Nat
  BY <1>3, <1>5, <1>8, OfferedIsLast DEF IInv
<1>10. QED
  BY <1>3, <1>8, <1>9 DEF Offers

-----------------------------------------------------------------------------
(* What every step keeps                                                   *)

\* Time goes on, rows stay, and a station that was written stays known.
Growth ==
  /\ now' \in Nat /\ now <= now'
  /\ Known \subseteq Known' /\ suspended.stations \subseteq suspended'.stations
  /\ \A k \in DOMAIN observations : k \in DOMAIN observations' /\ observations'[k] = observations[k]

\* A job that is as before has done at least what it had done.
LEMMA JobKept ==
  ASSUME IInv, Growth, NEW r \in Run, job'[r] = job[r]
  PROVE  /\ job'[r].pc = "stations" => DOMAIN job'[r].snapshot \ job'[r].todo \subseteq Known'
         /\ job'[r].pc \in {"observations", "returned"} =>
              /\ DOMAIN job'[r].snapshot \subseteq Known'
              /\ \A s \in DOMAIN job'[r].snapshot :
                   /\ s \notin job'[r].todo => <<s, job'[r].snapshot[s].observed>> \in DOMAIN observations'
                   /\ job'[r].quality[s] = "verified" => job'[r].snapshot[s].observed <= now' + Skew
         /\ job'[r].pc = "returned" => job'[r].todo = {}
<1>1. /\ job[r].pc = "stations" => DOMAIN job[r].snapshot \ job[r].todo \subseteq Known
      /\ job[r].pc = "returned" => job[r].todo = {}
  BY DEF IInv, JobsProgress
<1>2. ASSUME job[r].pc \in {"observations", "returned"}
      PROVE  /\ DOMAIN job[r].snapshot \subseteq Known
             /\ \A s \in DOMAIN job[r].snapshot :
                  /\ s \notin job[r].todo => <<s, job[r].snapshot[s].observed>> \in DOMAIN observations'
                  /\ job[r].quality[s] = "verified" => job[r].snapshot[s].observed <= now' + Skew
  <2>1. SUFFICES ASSUME NEW s \in DOMAIN job[r].snapshot
                 PROVE  /\ s \notin job[r].todo => <<s, job[r].snapshot[s].observed>> \in DOMAIN observations'
                        /\ job[r].quality[s] = "verified" => job[r].snapshot[s].observed <= now' + Skew
    BY <1>2 DEF IInv, JobsProgress
  <2>2. s \notin job[r].todo => <<s, job[r].snapshot[s].observed>> \in DOMAIN observations'
    BY <1>2 DEF IInv, JobsProgress, Growth
  <2>3. job[r].snapshot[s].observed \in Nat /\ now \in Nat /\ now' \in Nat /\ now <= now' /\ Skew \in Nat
    BY <1>2, SnapshotAssumption, TimeAssumption DEF IInv, FeedTyped, Jobs, JobRecord, Growth
  <2>4. job[r].quality[s] = "verified" => job[r].snapshot[s].observed <= now + Skew
    BY <1>2 DEF IInv, JobsProgress
  <2>5. QED
    BY <2>2, <2>3, <2>4
<1>3. Known \subseteq Known'
  BY DEF Growth
<1>4. QED
  BY <1>1, <1>2, <1>3

\* Where no job moves, all have done what they had done.
LEMMA JobsKept ==
  ASSUME IInv, Growth, UNCHANGED job
  PROVE  JobsProgress'
  BY JobKept DEF JobsProgress

\* Where one job moves, it is the one to look at.
LEMMA OneJobMoves ==
  ASSUME IInv, Growth, NEW r \in Run, NEW j, job' = [job EXCEPT ![r] = j],
         j.pc = "stations" => DOMAIN j.snapshot \ j.todo \subseteq Known',
         j.pc \in {"observations", "returned"} =>
           /\ DOMAIN j.snapshot \subseteq Known'
           /\ \A s \in DOMAIN j.snapshot :
                /\ s \notin j.todo => <<s, j.snapshot[s].observed>> \in DOMAIN observations'
                /\ j.quality[s] = "verified" => j.snapshot[s].observed <= now' + Skew,
         j.pc = "returned" => j.todo = {}
  PROVE  JobsProgress'
<1>1. \A q \in Run : IF q = r THEN job'[q] = j ELSE job'[q] = job[q]
  BY DEF IInv, FeedTyped
<1>2. SUFFICES ASSUME NEW q \in Run
      PROVE  /\ job'[q].pc = "stations" => DOMAIN job'[q].snapshot \ job'[q].todo \subseteq Known'
             /\ job'[q].pc \in {"observations", "returned"} =>
                  /\ DOMAIN job'[q].snapshot \subseteq Known'
                  /\ \A s \in DOMAIN job'[q].snapshot :
                       /\ s \notin job'[q].todo => <<s, job'[q].snapshot[s].observed>> \in DOMAIN observations'
                       /\ job'[q].quality[s] = "verified" => job'[q].snapshot[s].observed <= now' + Skew
             /\ job'[q].pc = "returned" => job'[q].todo = {}
  BY DEF JobsProgress
<1>3. CASE q = r
  <2>1. job'[q] = j
    BY <1>1, <1>3
  <2>2. QED
    BY <2>1
<1>4. CASE q # r
  <2>1. job'[q] = job[q]
    BY <1>1, <1>4
  <2>2. QED
    BY <2>1, JobKept
<1>5. QED
  BY <1>3, <1>4

\* Where no observation is written, the last ones stay.
LEMMA LastKept ==
  ASSUME IInv, Growth, UNCHANGED observations
  PROVE  LastVerified'
<1>1. \A s \in Station : Verified(s)' = Verified(s)
  BY DEF Verified
<1>2. ASSUME NEW s \in Station, NEW t \in Nat, t \in Verified(s)
      PROVE  t <= now' + Skew
  <2>1. t <= now + Skew
    BY <1>2 DEF IInv, LastVerified
  <2>2. t \in Int /\ now \in Int /\ now' \in Int /\ Skew \in Int
    BY <1>2, TimeAssumption DEF IInv, FeedTyped, Growth
  <2>3. now <= now'
    BY DEF Growth
  <2>4. QED
    BY <2>1, <2>2, <2>3, BoundMoves
<1>3. \A s \in Station : Verified(s) \subseteq Nat
  BY DEF Verified
<1>4. QED
  BY <1>1, <1>2, <1>3 DEF IInv, LastVerified

\* What a reader was shown goes on to show the run.
LEMMA ShowsKept ==
  ASSUME IInv, Growth, NEW f \in Snapshot, NEW offers, Shows(f, offers),
         NEW s \in DOMAIN f
  PROVE  \/ s \in DOMAIN offers /\ offers[s] >= f[s].observed
         \/ /\ <<s, f[s].observed>> \in DOMAIN observations'
            /\ observations'[<<s, f[s].observed>>].quality # "verified"
         \/ now' - f[s].observed > ObservationAge
         \/ s \in suspended'.stations
<1>1. f[s].observed \in Nat /\ now \in Nat /\ now' \in Nat /\ now <= now' /\ ObservationAge \in Nat
  BY SnapshotAssumption, TimeAssumption DEF IInv, FeedTyped, Growth
<1>2. CASE s \in DOMAIN offers /\ offers[s] >= f[s].observed
  BY <1>2
<1>3. CASE /\ <<s, f[s].observed>> \in DOMAIN observations
           /\ observations[<<s, f[s].observed>>].quality # "verified"
  BY <1>3 DEF Growth
<1>4. CASE now - f[s].observed > ObservationAge
  BY <1>1, <1>4
<1>5. CASE s \in suspended.stations
  BY <1>5 DEF Growth
<1>6. QED
  BY <1>2, <1>3, <1>4, <1>5 DEF Shows

\* A run that returned stays as it is, so a reader that does not move knows what it knew.
LEMMA ReaderKept ==
  ASSUME IInv, Growth, UNCHANGED reader,
         \A r \in Run : job[r].pc = "returned" => job'[r] = job[r]
  PROVE  ReaderFollows'
<1>1. reader.pc = "served" => reader.state.status = "completed"
  BY DEF IInv, ReaderFollows
<1>2. ASSUME reader.pc \in {"health", "both", "served"}, reader.state.status = "completed"
      PROVE  reader.run \in Run /\ job[reader.run].pc = "returned" /\ job'[reader.run] = job[reader.run]
  BY <1>2 DEF IInv, FeedTyped, Readers, ReaderFollows
<1>3. ASSUME reader.pc \in {"both", "served"}, reader.state.status = "completed", ~reader.optionsFirst
      PROVE  Shows(job[reader.run].snapshot, reader.offers)'
  <2>1. job[reader.run].snapshot \in Snapshot /\ Shows(job[reader.run].snapshot, reader.offers)
    BY <1>2, <1>3 DEF IInv, FeedTyped, Jobs, JobRecord, ReaderFollows
  <2>2. job'[reader.run].snapshot = job[reader.run].snapshot /\ reader' = reader
    BY <1>2, <1>3
  <2>3. QED
    BY <2>1, <2>2, ShowsKept DEF Shows
<1>4. QED
  BY <1>1, <1>2, <1>3 DEF ReaderFollows

-----------------------------------------------------------------------------
(* The steps                                                               *)

\* A run that has finished keeps its place.
FinishedStay == Finished \subseteq Finished' /\ \A r \in Finished : runs'[r].started = runs[r].started

Advances == Growth /\ FinishedStay

LEMMA RunsUntouched ==
  ASSUME UNCHANGED runs
  PROVE  FinishedStay
  BY DEF FinishedStay, Finished

LEMMA StartStep ==
  ASSUME IInv, NEW r \in Run, NEW f \in Snapshot, StartRun(r, f)
  PROVE  IInv' /\ Advances
<1> DEFINE j == [pc |-> "stations", snapshot |-> f, todo |-> DOMAIN f]
           newRow == [status |-> "running", started |-> now, completed |-> None, accepted |-> 0]
<1>1. /\ job[r].pc = "none" /\ job' = [job EXCEPT ![r] = j] /\ runs' = Put(runs, r, newRow)
      /\ UNCHANGED <<now, active, suspended, observations, reader>>
  BY DEF StartRun
<1>2. Growth
  BY <1>1 DEF IInv, FeedTyped, Growth, Known
<1>3. DOMAIN f \subseteq Station
  BY SnapshotAssumption
<1>4. FeedTyped'
  <2>1. j \in Jobs
    BY <1>3 DEF Jobs, JobRecord
  <2>2. newRow \in RunRow
    BY DEF IInv, FeedTyped, RunRow
  <2>3. job' \in [Run -> Jobs]
    BY <1>1, <2>1 DEF IInv, FeedTyped
  <2>4. IsMap(runs', Run, RunRow)
    BY <1>1, <2>2, PutIsMap DEF IInv, FeedTyped
  <2>5. QED
    BY <1>1, <2>3, <2>4 DEF IInv, FeedTyped
<1>5. JobsProgress'
  <2> HIDE DEF j
  <2>1. j.pc = "stations" /\ j.snapshot = f /\ j.todo = DOMAIN f
    BY DEF j
  <2>2. QED
    BY <1>1, <1>2, <2>1, OneJobMoves
<1>6. r \notin DOMAIN runs
  BY <1>1 DEF IInv, RunsFollow
<1>7. RunsFollow'
  <2>1. ASSUME NEW q \in DOMAIN runs'
        PROVE  /\ job'[q].pc # "none"
               /\ runs'[q].status = "completed" => job'[q].pc = "returned"
               /\ runs'[q].status = "failed" => job'[q].pc = "threw"
    <3>1. CASE q = r
      BY <1>1, <3>1 DEF Put, IInv, FeedTyped
    <3>2. CASE q # r
      <4>1. q \in DOMAIN runs /\ runs'[q] = runs[q] /\ q \in Run /\ job'[q] = job[q]
        BY <1>1, <2>1, <3>2 DEF Put, IInv, FeedTyped, IsMap
      <4>2. QED
        BY <4>1 DEF IInv, RunsFollow
    <3>3. QED
      BY <3>1, <3>2
  <2>2. QED
    BY <2>1 DEF RunsFollow
<1>8. LastVerified'
  BY <1>1, <1>2, LastKept
<1>9. ReaderFollows'
  <2>1. \A q \in Run : job[q].pc = "returned" => job'[q] = job[q]
    BY <1>1 DEF IInv, FeedTyped
  <2>2. QED
    BY <1>1, <1>2, <2>1, ReaderKept
<1>10. FinishedStay
  BY <1>1, <1>6 DEF FinishedStay, Finished, Put
<1>11. QED
  BY <1>2, <1>4, <1>5, <1>7, <1>8, <1>9, <1>10 DEF IInv, Advances

\* A step of a run that is under way, and of nothing but its job.
LEMMA JobMoves ==
  ASSUME IInv, NEW r \in Run, job[r].pc \in {"stations", "observations"}, NEW j \in Jobs,
         job' = [job EXCEPT ![r] = j], j.pc # "none", UNCHANGED runs
  PROVE  /\ job' \in [Run -> Jobs] /\ RunsFollow'
         /\ \A q \in Run : job[q].pc = "returned" => job'[q] = job[q]
<1>1. job' \in [Run -> Jobs] /\ \A q \in Run : IF q = r THEN job'[q] = j ELSE job'[q] = job[q]
  BY DEF IInv, FeedTyped
<1>2. \A q \in DOMAIN runs : q \in Run
  BY DEF IInv, FeedTyped, IsMap
<1>3. RunsFollow'
  <2>1. ASSUME NEW q \in DOMAIN runs
        PROVE  /\ job'[q].pc # "none"
               /\ runs[q].status = "completed" => job'[q].pc = "returned"
               /\ runs[q].status = "failed" => job'[q].pc = "threw"
    <3>1. q \in Run
      BY <1>2, <2>1
    <3>2. CASE q = r
      BY <1>1, <2>1, <3>1, <3>2 DEF IInv, RunsFollow
    <3>3. CASE q # r
      BY <1>1, <2>1, <3>1, <3>3 DEF IInv, RunsFollow
    <3>4. QED
      BY <3>2, <3>3
  <2>2. QED
    BY <2>1 DEF RunsFollow
<1>4. QED
  BY <1>1, <1>3

LEMMA StationsStep ==
  ASSUME IInv, NEW r \in Run, NEW batch \in SUBSET Station, UpsertStations(r, batch)
  PROVE  IInv' /\ Advances
<1> DEFINE j == [job[r] EXCEPT !.todo = @ \ batch]
<1>1. /\ job[r].pc = "stations" /\ batch \subseteq job[r].todo /\ active' = active \cup batch
      /\ job' = [job EXCEPT ![r] = j]
      /\ UNCHANGED <<now, runs, suspended, observations, reader>>
  <2>1. job' = [job EXCEPT ![r].todo = @ \ batch]
    BY DEF UpsertStations
  <2>2. QED
    BY <2>1 DEF UpsertStations
<1>2. /\ j \in Jobs /\ j.pc = "stations" /\ j.snapshot = job[r].snapshot /\ j.todo = job[r].todo \ batch
  <2>1. job[r] \in [pc : {"stations", "threw", "crashed"}, snapshot : Snapshot, todo : SUBSET Station]
    BY <1>1 DEF IInv, FeedTyped, Jobs, JobRecord
  <2>2. /\ j \in [pc : {"stations", "threw", "crashed"}, snapshot : Snapshot, todo : SUBSET Station]
        /\ j.pc = job[r].pc /\ j.snapshot = job[r].snapshot /\ j.todo = job[r].todo \ batch
    BY <2>1
  <2>3. job[r].todo \subseteq DOMAIN job[r].snapshot
    BY <1>1 DEF IInv, FeedTyped, Jobs
  <2> HIDE DEF j
  <2>4. QED
    BY <1>1, <2>2, <2>3 DEF Jobs, JobRecord
<1>3. Growth
  BY <1>1 DEF IInv, FeedTyped, Growth, Known
<1> HIDE DEF j
<1>4. /\ job' \in [Run -> Jobs] /\ RunsFollow'
      /\ \A q \in Run : job[q].pc = "returned" => job'[q] = job[q]
  BY <1>1, <1>2, JobMoves
<1>5. FeedTyped'
  BY <1>1, <1>4 DEF IInv, FeedTyped
<1>6. JobsProgress'
  <2>1. DOMAIN j.snapshot \ j.todo \subseteq Known'
    BY <1>1, <1>2 DEF IInv, JobsProgress, Known
  <2>2. QED
    BY <1>1, <1>2, <1>3, <2>1, OneJobMoves
<1>7. LastVerified' /\ ReaderFollows' /\ FinishedStay
  BY <1>1, <1>3, <1>4, LastKept, ReaderKept, RunsUntouched
<1>8. QED
  BY <1>3, <1>4, <1>5, <1>6, <1>7 DEF IInv, Advances

LEMMA JudgeStep ==
  ASSUME IInv, NEW r \in Run, JudgeObservations(r)
  PROVE  IInv' /\ Advances
<1> DEFINE f == job[r].snapshot
           j == [pc |-> "observations", snapshot |-> f, todo |-> DOMAIN f,
                 quality |-> [s \in DOMAIN f |-> qualityOf(f[s])]]
<1>1. /\ job[r].pc = "stations" /\ job[r].todo = {} /\ job' = [job EXCEPT ![r] = j]
      /\ UNCHANGED <<now, runs, active, suspended, observations, reader>>
  BY DEF JudgeObservations
<1>2. f \in Snapshot /\ DOMAIN f \subseteq Station
  BY <1>1, SnapshotAssumption DEF IInv, FeedTyped, Jobs, JobRecord
<1>3. j \in Jobs
  <2>1. [s \in DOMAIN f |-> qualityOf(f[s])] \in [DOMAIN f -> Quality]
    BY DEF qualityOf, Quality
  <2>2. [s \in DOMAIN f |-> qualityOf(f[s])] \in Judgement
    BY <1>2, <2>1 DEF Judgement
  <2>3. QED
    BY <1>2, <2>2 DEF Jobs, JobRecord
<1>4. Growth
  BY <1>1 DEF IInv, FeedTyped, Growth, Known
<1>5. \A s \in DOMAIN f : qualityOf(f[s]) = "verified" => f[s].observed <= now' + Skew
  <2>1. SUFFICES ASSUME NEW s \in DOMAIN f, qualityOf(f[s]) = "verified"
                 PROVE  f[s].observed <= now + Skew
    BY <1>1
  <2>2. ~(f[s].observed > now + Skew)
    BY <2>1 DEF qualityOf
  <2>3. f[s].observed \in Int /\ now \in Int /\ Skew \in Int
    BY <1>2, SnapshotAssumption, TimeAssumption DEF IInv, FeedTyped
  <2>4. QED
    BY <2>2, <2>3
<1>6. DOMAIN f \subseteq Known'
  BY <1>1 DEF IInv, JobsProgress, Known
<1>7. /\ j.pc = "observations" /\ j.snapshot = f /\ j.todo = DOMAIN f
      /\ \A s \in DOMAIN f : j.quality[s] = qualityOf(f[s])
  OBVIOUS
<1> HIDE DEF j
<1>8. /\ job' \in [Run -> Jobs] /\ RunsFollow'
      /\ \A q \in Run : job[q].pc = "returned" => job'[q] = job[q]
  BY <1>1, <1>3, <1>7, JobMoves
<1>9. FeedTyped'
  BY <1>1, <1>8 DEF IInv, FeedTyped
<1>10. JobsProgress'
  BY <1>1, <1>4, <1>5, <1>6, <1>7, OneJobMoves
<1>11. LastVerified' /\ ReaderFollows' /\ FinishedStay
  BY <1>1, <1>4, <1>8, LastKept, ReaderKept, RunsUntouched
<1>12. QED
  BY <1>4, <1>8, <1>9, <1>10, <1>11 DEF IInv, Advances

LEMMA ObservationsStep ==
  ASSUME IInv, NEW r \in Run, NEW batch \in SUBSET Station, UpsertObservations(r, batch)
  PROVE  IInv' /\ Advances
<1> DEFINE f == job[r].snapshot
           rows == {<<s, f[s].observed>> : s \in batch}
           newRow(k) == [price |-> f[k[1]].price, quality |-> job[r].quality[k[1]]]
           j == [job[r] EXCEPT !.todo = @ \ batch]
<1>1. /\ job[r].pc = "observations" /\ batch \subseteq job[r].todo
      /\ observations' = [k \in DOMAIN observations \cup rows |->
           IF k \in rows THEN KeptRow(k, newRow(k)) ELSE observations[k]]
      /\ job' = [job EXCEPT ![r] = j]
      /\ UNCHANGED <<now, runs, active, suspended, reader>>
  <2>1. job' = [job EXCEPT ![r].todo = @ \ batch]
    BY DEF UpsertObservations
  <2>2. QED
    BY <2>1 DEF UpsertObservations
<1>2. /\ j \in Jobs /\ j.pc = "observations" /\ j.snapshot = f /\ j.todo = job[r].todo \ batch
      /\ j.quality = job[r].quality /\ f \in Snapshot /\ batch \subseteq Station
  <2> DEFINE J == [pc : {"observations", "returned", "threw", "crashed"}, snapshot : Snapshot,
                   todo : SUBSET Station, quality : Judgement]
  <2>1. job[r] \in J
    BY <1>1 DEF IInv, FeedTyped, Jobs, JobRecord
  <2>2. /\ j \in J /\ j.pc = job[r].pc /\ j.snapshot = f /\ j.todo = job[r].todo \ batch
        /\ j.quality = job[r].quality /\ f \in Snapshot
    BY <2>1
  <2>3. job[r].todo \subseteq DOMAIN f
    BY <1>1 DEF IInv, FeedTyped, Jobs
  <2> HIDE DEF j
  <2>4. QED
    BY <1>1, <2>2, <2>3 DEF Jobs, JobRecord
<1> HIDE DEF j
<1>3. \A k \in DOMAIN observations : k \in DOMAIN observations' /\ observations'[k] = observations[k]
  BY <1>1 DEF KeptRow
<1>4. \A s \in batch : <<s, f[s].observed>> \in DOMAIN observations'
  BY <1>1
<1>5. Growth
  BY <1>1, <1>3 DEF IInv, FeedTyped, Growth, Known
<1>6. /\ job' \in [Run -> Jobs] /\ RunsFollow'
      /\ \A q \in Run : job[q].pc = "returned" => job'[q] = job[q]
  BY <1>1, <1>2, JobMoves
<1>7. FeedTyped'
  BY <1>1, <1>6 DEF IInv, FeedTyped
<1>8. JobsProgress'
  <2>1. DOMAIN j.snapshot \subseteq Known'
    BY <1>1, <1>2 DEF IInv, JobsProgress, Known
  <2>2. ASSUME NEW s \in DOMAIN j.snapshot
        PROVE  /\ s \notin j.todo => <<s, j.snapshot[s].observed>> \in DOMAIN observations'
               /\ j.quality[s] = "verified" => j.snapshot[s].observed <= now' + Skew
    <3>1. /\ s \notin job[r].todo => <<s, f[s].observed>> \in DOMAIN observations
          /\ job[r].quality[s] = "verified" => f[s].observed <= now + Skew
      BY <1>1, <1>2, <2>2 DEF IInv, JobsProgress
    <3>2. QED
      BY <1>1, <1>2, <1>3, <1>4, <3>1
  <2>3. QED
    BY <1>1, <1>2, <1>5, <2>1, <2>2, OneJobMoves
<1>9. ASSUME NEW s \in Station, NEW t \in Verified(s)', t \notin Verified(s)
      PROVE  s \in batch /\ t = f[s].observed /\ job[r].quality[s] = "verified"
  <2> DEFINE k == <<s, t>>
  <2>1. t \in Nat /\ k \in DOMAIN observations' /\ observations'[k].quality = "verified"
    BY <1>9 DEF Verified
  <2>2. k \notin DOMAIN observations
    BY <1>3, <1>9, <2>1 DEF Verified
  <2>3. k \in rows
    BY <1>1, <2>1, <2>2
  <2>4. s \in batch /\ t = f[s].observed
    BY <2>3
  <2>5. observations'[k] = newRow(k)
    BY <1>1, <2>1, <2>2, <2>3 DEF KeptRow
  <2>6. QED
    BY <2>1, <2>4, <2>5
<1>10. LastVerified'
  <2>1. ASSUME NEW s \in Station, NEW t \in Verified(s)'
        PROVE  t \in Nat /\ t <= now + Skew
    <3>1. CASE t \in Verified(s)
      BY <3>1 DEF IInv, LastVerified, Verified
    <3>2. CASE t \notin Verified(s)
      <4>1. s \in batch /\ t = f[s].observed /\ job[r].quality[s] = "verified"
        BY <1>9, <3>2
      <4>2. s \in DOMAIN f
        BY <1>1, <1>2, <4>1 DEF IInv, FeedTyped, Jobs
      <4>3. t <= now + Skew
        BY <1>1, <4>1, <4>2 DEF IInv, JobsProgress
      <4>4. t \in Nat
        BY <2>1 DEF Verified
      <4>5. QED
        BY <4>3, <4>4
    <3>3. QED
      BY <3>1, <3>2
  <2>2. ASSUME NEW s \in Station, Verified(s)' # {}
        PROVE  \E t \in Verified(s)' : \A u \in Verified(s)' : u <= t
    <3>1. \A t \in Verified(s) : t \in Verified(s)'
      BY <1>3 DEF Verified
    <3>2. \A t \in Verified(s)' : t \in Nat
      BY <2>1, <2>2
    <3>3. CASE \A t \in Verified(s)' : t \in Verified(s)
      <4>1. Verified(s) # {}
        BY <2>2, <3>3
      <4>2. PICK t \in Verified(s) : \A u \in Verified(s) : u <= t
        BY <4>1, <2>2 DEF IInv, LastVerified
      <4>3. QED
        BY <3>1, <3>3, <4>2
    <3>4. CASE \E n \in Verified(s)' : n \notin Verified(s)
      <4>1. PICK n \in Verified(s)' : n \notin Verified(s)
        BY <3>4
      <4>2. \A u \in Verified(s)' : u = n \/ u \in Verified(s)
        BY <1>9, <2>2, <4>1
      <4>3. n \in Nat
        BY <3>2, <4>1
      <4>4. CASE Verified(s) = {}
        BY <4>1, <4>2, <4>3, <4>4
      <4>5. CASE Verified(s) # {}
        <5>1. PICK m \in Verified(s) : \A u \in Verified(s) : u <= m
          BY <4>5, <2>2 DEF IInv, LastVerified
        <5>2. m \in Nat /\ \A u \in Verified(s) : u \in Nat
          BY <5>1 DEF Verified
        <5>3. CASE n <= m
          BY <3>1, <4>2, <5>1, <5>3
        <5>4. CASE ~(n <= m)
          <6>1. m <= n
            BY <4>3, <5>2, <5>4
          <6>2. \A u \in Verified(s) : u <= n
            BY <4>3, <5>1, <5>2, <6>1
          <6>3. n <= n
            BY <4>3
          <6>4. QED
            BY <4>1, <4>2, <6>2, <6>3
        <5>5. QED
          BY <5>3, <5>4
      <4>6. QED
        BY <4>4, <4>5
    <3>5. QED
      BY <3>3, <3>4
  <2>3. QED
    BY <1>1, <2>1, <2>2 DEF LastVerified
<1>11. ReaderFollows' /\ FinishedStay
  BY <1>1, <1>5, <1>6, ReaderKept, RunsUntouched
<1>12. QED
  BY <1>5, <1>6, <1>7, <1>8, <1>10, <1>11 DEF IInv, Advances

\* A run ends: it returns or throws, and its row says so or stays as it was.
LEMMA EndStep ==
  ASSUME IInv, NEW r \in Run, job[r].pc \in {"stations", "observations"},
         NEW p \in {"returned", "threw"},
         p = "returned" => job[r].pc = "observations" /\ job[r].todo = {},
         NEW newRow,
         r \in DOMAIN runs => /\ newRow \in RunRow /\ newRow.started = runs[r].started
                              /\ newRow.status = IF p = "returned" THEN "completed" ELSE "failed",
         runs' = runs \/ runs' = [runs EXCEPT ![r] = newRow],
         job' = [job EXCEPT ![r].pc = p],
         UNCHANGED <<now, active, suspended, observations, reader>>
  PROVE  IInv' /\ Advances
<1> DEFINE j == [job[r] EXCEPT !.pc = p]
<1>1. Growth
  BY DEF IInv, FeedTyped, Growth, Known
<1>2. /\ j \in Jobs /\ j.pc = p /\ j.snapshot = job[r].snapshot /\ j.todo = job[r].todo
      /\ p = "returned" => j.quality = job[r].quality
  <2>1. job[r] \in Jobs
    BY DEF IInv, FeedTyped
  <2>2. job[r].todo \subseteq DOMAIN job[r].snapshot
    BY <2>1 DEF Jobs
  <2>3. CASE job[r].pc = "stations"
    <3>1. job[r] \in [pc : {"stations", "threw", "crashed"}, snapshot : Snapshot, todo : SUBSET Station]
      BY <2>1, <2>3 DEF Jobs, JobRecord
    <3>2. p = "threw"
      BY <2>3
    <3>3. /\ j \in [pc : {"stations", "threw", "crashed"}, snapshot : Snapshot, todo : SUBSET Station]
          /\ j.pc = p /\ j.snapshot = job[r].snapshot /\ j.todo = job[r].todo
      BY <3>1, <3>2
    <3> HIDE DEF j
    <3>4. QED
      BY <2>2, <3>2, <3>3 DEF Jobs, JobRecord
  <2>4. CASE job[r].pc = "observations"
    <3> DEFINE J == [pc : {"observations", "returned", "threw", "crashed"}, snapshot : Snapshot,
                     todo : SUBSET Station, quality : Judgement]
    <3>1. job[r] \in J
      BY <2>1, <2>4 DEF Jobs, JobRecord
    <3>2. /\ j \in J /\ j.pc = p /\ j.snapshot = job[r].snapshot /\ j.todo = job[r].todo
          /\ j.quality = job[r].quality
      BY <3>1
    <3> HIDE DEF j
    <3>3. QED
      BY <2>2, <3>2 DEF Jobs, JobRecord
  <2>5. QED
    BY <2>3, <2>4
<1>3. job' = [job EXCEPT ![r] = j]
  OBVIOUS
<1> HIDE DEF j
<1>4. \A q \in Run : IF q = r THEN job'[q] = j ELSE job'[q] = job[q]
  BY <1>3 DEF IInv, FeedTyped
<1>5. IsMap(runs', Run, RunRow) /\ DOMAIN runs' = DOMAIN runs /\ \A q \in DOMAIN runs : q # r => runs'[q] = runs[q]
  <2>1. IsMap(runs, Run, RunRow)
    BY DEF IInv, FeedTyped
  <2>2. CASE runs' = runs
    BY <2>1, <2>2
  <2>3. CASE runs' = [runs EXCEPT ![r] = newRow] /\ r \in DOMAIN runs
    BY <2>1, <2>3, ExceptIsMap
  <2>4. CASE runs' = [runs EXCEPT ![r] = newRow] /\ r \notin DOMAIN runs
    <3>1. runs' = runs
      BY <2>1, <2>4 DEF IsMap
    <3>2. QED
      BY <2>1, <3>1
  <2>5. QED
    BY <2>2, <2>3, <2>4
<1>6. r \in DOMAIN runs => runs[r].status \notin {"completed", "failed"}
  BY DEF IInv, RunsFollow
<1>7. r \in DOMAIN runs => runs'[r] = runs[r] \/ runs'[r] = newRow
  BY DEF IInv, FeedTyped, IsMap
<1>8. FeedTyped'
  <2>1. job' \in [Run -> Jobs]
    BY <1>2, <1>3 DEF IInv, FeedTyped
  <2>2. QED
    BY <1>5, <2>1 DEF IInv, FeedTyped
<1>9. JobsProgress'
  <2>1. p = "returned" =>
          /\ DOMAIN j.snapshot \subseteq Known'
          /\ \A s \in DOMAIN j.snapshot :
               /\ s \notin j.todo => <<s, j.snapshot[s].observed>> \in DOMAIN observations'
               /\ j.quality[s] = "verified" => j.snapshot[s].observed <= now' + Skew
          /\ j.todo = {}
    BY <1>2 DEF IInv, JobsProgress, Known
  <2>2. QED
    BY <1>1, <1>2, <1>3, <2>1, OneJobMoves
<1>10. RunsFollow'
  <2>1. ASSUME NEW q \in DOMAIN runs
        PROVE  /\ job'[q].pc # "none"
               /\ runs'[q].status = "completed" => job'[q].pc = "returned"
               /\ runs'[q].status = "failed" => job'[q].pc = "threw"
    <3>1. q \in Run
      BY <2>1 DEF IInv, FeedTyped, IsMap
    <3>2. CASE q = r
      <4>1. job'[q].pc = p
        BY <1>2, <1>4, <3>2
      <4>2. CASE runs'[q] = runs[q]
        BY <1>6, <2>1, <3>2, <4>1, <4>2
      <4>3. CASE runs'[q] = newRow
        BY <2>1, <3>2, <4>1, <4>3
      <4>4. QED
        BY <1>7, <2>1, <3>2, <4>2, <4>3
    <3>3. CASE q # r
      BY <1>4, <1>5, <2>1, <3>1, <3>3 DEF IInv, RunsFollow
    <3>4. QED
      BY <3>2, <3>3
  <2>2. QED
    BY <1>5, <2>1 DEF RunsFollow
<1>11. LastVerified'
  BY <1>1, LastKept
<1>12. ReaderFollows'
  <2>1. \A q \in Run : job[q].pc = "returned" => job'[q] = job[q]
    BY <1>4
  <2>2. QED
    BY <1>1, <2>1, ReaderKept
<1>13. FinishedStay
  <2>1. r \notin Finished
    BY <1>6 DEF Finished
  <2>2. QED
    BY <1>5, <2>1 DEF FinishedStay, Finished
<1>14. QED
  BY <1>1, <1>8, <1>9, <1>10, <1>11, <1>12, <1>13 DEF IInv, Advances

LEMMA CompleteStep ==
  ASSUME IInv, NEW r \in Run, Complete(r)
  PROVE  IInv' /\ Advances
<1> DEFINE done == {s \in DOMAIN job[r].quality : job[r].quality[s] = "verified"}
           newRow == [Ended(runs[r], "completed") EXCEPT !.accepted = Cardinality(done)]
<1>1. /\ job[r].pc = "observations" /\ job[r].todo = {}
      /\ runs' = runs \/ runs' = [runs EXCEPT ![r] = newRow]
      /\ job' = [job EXCEPT ![r].pc = "returned"]
      /\ UNCHANGED <<now, active, suspended, observations, reader>>
  BY DEF Complete, AllStored
<1>2. Cardinality(done) \in {Cardinality(S) : S \in SUBSET Station}
  <2>1. job[r].quality \in Judgement
    BY <1>1 DEF IInv, FeedTyped, Jobs, JobRecord
  <2>2. done \in SUBSET Station
    BY <2>1 DEF Judgement
  <2> HIDE DEF done
  <2>3. QED
    BY <2>2
<1> HIDE DEF done
<1>3. r \in DOMAIN runs => newRow \in RunRow /\ newRow.started = runs[r].started /\ newRow.status = "completed"
  <2>1. SUFFICES ASSUME r \in DOMAIN runs
                 PROVE  newRow \in RunRow /\ newRow.started = runs[r].started /\ newRow.status = "completed"
    OBVIOUS
  <2>2. runs[r] \in RunRow /\ now \in Nat
    BY <2>1 DEF IInv, FeedTyped, IsMap
  <2>3. QED
    BY <1>2, <2>2 DEF RunRow, Ended
<1> HIDE DEF newRow
<1>4. QED
  BY <1>1, <1>3, EndStep

LEMMA FailStep ==
  ASSUME IInv, NEW r \in Run, Fail(r)
  PROVE  IInv' /\ Advances
<1> DEFINE newRow == Ended(runs[r], "failed")
<1>1. /\ job[r].pc \in {"stations", "observations"}
      /\ runs' = runs \/ runs' = [runs EXCEPT ![r] = newRow]
      /\ job' = [job EXCEPT ![r].pc = "threw"]
      /\ UNCHANGED <<now, active, suspended, observations, reader>>
  BY DEF Fail
<1>2. r \in DOMAIN runs => newRow \in RunRow /\ newRow.started = runs[r].started /\ newRow.status = "failed"
  <2>1. SUFFICES ASSUME r \in DOMAIN runs
                 PROVE  newRow \in RunRow /\ newRow.started = runs[r].started /\ newRow.status = "failed"
    OBVIOUS
  <2>2. runs[r] \in RunRow /\ now \in Nat
    BY <2>1 DEF IInv, FeedTyped, IsMap
  <2>3. QED
    BY <2>2 DEF RunRow, Ended
<1> HIDE DEF newRow
<1>3. QED
  BY <1>1, <1>2, EndStep

LEMMA CrashStep ==
  ASSUME IInv, NEW r \in Run, Crash(r)
  PROVE  IInv' /\ Advances
<1> DEFINE j == [job[r] EXCEPT !.pc = "crashed"]
<1>1. /\ job[r].pc \in {"stations", "observations"} /\ job' = [job EXCEPT ![r] = j]
      /\ UNCHANGED <<now, runs, active, suspended, observations, reader>>
  BY DEF Crash
<1>2. Growth
  BY <1>1 DEF IInv, FeedTyped, Growth, Known
<1>3. j \in Jobs /\ j.pc = "crashed"
  <2>1. job[r] \in Jobs
    BY DEF IInv, FeedTyped
  <2>2. j \in JobRecord /\ j.pc = "crashed" /\ j.todo = job[r].todo /\ j.snapshot = job[r].snapshot
    BY <1>1, <2>1 DEF Jobs, JobRecord
  <2>3. job[r].todo \subseteq DOMAIN job[r].snapshot
    BY <1>1, <2>1 DEF Jobs
  <2> HIDE DEF j
  <2>4. QED
    BY <2>2, <2>3 DEF Jobs
<1> HIDE DEF j
<1>4. /\ job' \in [Run -> Jobs] /\ RunsFollow'
      /\ \A q \in Run : job[q].pc = "returned" => job'[q] = job[q]
  BY <1>1, <1>3, JobMoves
<1>5. FeedTyped'
  BY <1>1, <1>4 DEF IInv, FeedTyped
<1>6. JobsProgress'
  BY <1>1, <1>2, <1>3, OneJobMoves
<1>7. LastVerified' /\ ReaderFollows' /\ FinishedStay
  BY <1>1, <1>2, <1>4, LastKept, ReaderKept, RunsUntouched
<1>8. QED
  BY <1>2, <1>4, <1>5, <1>6, <1>7 DEF IInv, Advances

\* A step that moves the reader only, and to where it follows the runs.
LEMMA ReaderMoves ==
  ASSUME IInv, UNCHANGED <<now, runs, active, suspended, observations, job>>,
         reader' \in Readers, ReaderFollows'
  PROVE  IInv' /\ Advances
<1>1. Growth
  BY DEF IInv, FeedTyped, Growth, Known
<1>2. FeedTyped' /\ RunsFollow'
  BY DEF IInv, FeedTyped, RunsFollow
<1>3. JobsProgress' /\ LastVerified' /\ FinishedStay
  BY <1>1, JobsKept, LastKept, RunsUntouched
<1>4. QED
  BY <1>1, <1>2, <1>3 DEF IInv, Advances

\* The run that is said to be the latest has its row, and its job is done if it says so.
LEMMA HealthIsKnown ==
  ASSUME IInv, NEW r \in FeedHealth
  PROVE  /\ r \in Run /\ runs[r] \in RunRow
         /\ runs[r].status = "completed" => job[r].pc = "returned"
  BY DEF IInv, FeedTyped, IsMap, RunsFollow, FeedHealth, Finished

LEMMA ReadHealthStep ==
  ASSUME IInv, ReadHealth
  PROVE  IInv' /\ Advances
<1>1. UNCHANGED <<now, runs, active, suspended, observations, job>>
  BY DEF ReadHealth
<1>2. CASE reader.pc = "idle"
  <2>1. PICK r \in FeedHealth : reader' = [pc |-> "health", run |-> r, state |-> runs[r],
                                          optionsFirst |-> FALSE]
    BY <1>2 DEF ReadHealth
  <2>2. reader' \in Readers
    BY <2>1, HealthIsKnown DEF Readers
  <2>3. ReaderFollows'
    BY <1>1, <2>1, HealthIsKnown DEF ReaderFollows
  <2>4. QED
    BY <1>1, <2>2, <2>3, ReaderMoves
<1>3. CASE reader.pc = "options"
  <2>1. PICK r \in FeedHealth : reader' = [pc |-> "both", run |-> r, state |-> runs[r],
                                          offers |-> reader.offers, optionsFirst |-> TRUE]
    BY <1>3 DEF ReadHealth
  <2>2. reader.offers \in Offering
    BY <1>3 DEF IInv, FeedTyped, Readers
  <2>3. reader' \in Readers
    BY <2>1, <2>2, HealthIsKnown DEF Readers
  <2>4. ReaderFollows'
    BY <1>1, <2>1, HealthIsKnown DEF ReaderFollows
  <2>5. QED
    BY <1>1, <2>3, <2>4, ReaderMoves
<1>4. QED
  BY <1>2, <1>3 DEF ReadHealth

LEMMA ReadOptionsStep ==
  ASSUME IInv, ReadOptions
  PROVE  IInv' /\ Advances
<1>1. UNCHANGED <<now, runs, active, suspended, observations, job>>
  BY DEF ReadOptions
<1>2. Offers \in Offering
  BY OffersTyped DEF IInv
<1>3. CASE reader' = [pc |-> "options", offers |-> Offers]
  <2>1. reader' \in Readers
    BY <1>2, <1>3 DEF Readers
  <2>2. ReaderFollows'
    BY <1>3 DEF ReaderFollows
  <2>3. QED
    BY <1>1, <2>1, <2>2, ReaderMoves
<1>4. CASE /\ reader.pc = "health"
           /\ reader' = [pc |-> "both", run |-> reader.run, state |-> reader.state,
                         offers |-> Offers, optionsFirst |-> FALSE]
  <2>1. reader.run \in Run /\ reader.state \in RunRow
    BY <1>4 DEF IInv, FeedTyped, Readers
  <2>2. reader' \in Readers
    BY <1>2, <1>4, <2>1 DEF Readers
  <2>3. ASSUME reader.state.status = "completed"
        PROVE  job[reader.run].pc = "returned" /\ Shows(job[reader.run].snapshot, Offers)
    <3>1. job[reader.run].pc = "returned"
      BY <1>4, <2>3 DEF IInv, ReaderFollows
    <3>2. QED
      BY <2>1, <3>1, OffersShow
  <2>4. /\ reader'.pc = "both" /\ reader'.run = reader.run /\ reader'.state = reader.state
        /\ reader'.offers = Offers /\ reader'.optionsFirst = FALSE
    BY <1>4
  <2>5. job[reader.run].snapshot = (job[reader.run].snapshot)'
    BY <1>1, <2>4
  <2>6. ASSUME reader.state.status = "completed"
        PROVE  Shows(job[reader.run].snapshot, reader.offers)'
    BY <1>1, <2>3, <2>4, <2>5, <2>6 DEF Shows
  <2>7. ReaderFollows'
    BY <1>1, <2>3, <2>4, <2>6 DEF ReaderFollows
  <2>8. QED
    BY <1>1, <2>2, <2>7, ReaderMoves
<1>5. QED
  BY <1>3, <1>4 DEF ReadOptions

LEMMA AnswerStep ==
  ASSUME IInv, Answer
  PROVE  IInv' /\ Advances
<1>1. UNCHANGED <<now, runs, active, suspended, observations, job>> /\ reader.pc = "both"
  BY DEF Answer
<1>2. CASE Serves
  <2>1. reader' = [reader EXCEPT !.pc = "served"] /\ reader.state.status = "completed"
    BY <1>2 DEF Answer, Serves
  <2>2. reader \in [pc : {"both", "served"}, run : Run, state : RunRow, offers : Offering,
                   optionsFirst : BOOLEAN]
    BY <1>1 DEF IInv, FeedTyped, Readers
  <2>3. /\ reader' \in [pc : {"both", "served"}, run : Run, state : RunRow, offers : Offering,
                        optionsFirst : BOOLEAN]
        /\ reader'.run = reader.run /\ reader'.state = reader.state /\ reader'.offers = reader.offers
        /\ reader'.optionsFirst = reader.optionsFirst /\ reader'.pc = "served"
    BY <2>1, <2>2
  <2>4. Shows(job[reader.run].snapshot, reader.offers) => Shows(job[reader.run].snapshot, reader.offers)'
    BY <1>1, <2>3 DEF Shows
  <2>5. ReaderFollows'
    BY <1>1, <2>1, <2>3, <2>4 DEF IInv, ReaderFollows
  <2>6. QED
    BY <1>1, <2>3, <2>5, ReaderMoves DEF Readers
<1>3. CASE ~Serves
  <2>1. reader' = [pc |-> "idle"]
    BY <1>3 DEF Answer, NotReading
  <2>2. QED
    BY <1>1, <2>1, ReaderMoves DEF Readers, ReaderFollows
<1>4. QED
  BY <1>2, <1>3

LEMMA NextRequestStep ==
  ASSUME IInv, NextRequest
  PROVE  IInv' /\ Advances
  BY ReaderMoves DEF NextRequest, NotReading, Readers, ReaderFollows

LEMMA SuspendStep ==
  ASSUME IInv, NEW s \in Station, Suspend(s)
  PROVE  IInv' /\ Advances
<1>1. /\ active' = active \ {s}
      /\ suspended' = [stations |-> suspended.stations \cup {s}, times |-> suspended.times + 1]
      /\ UNCHANGED <<now, runs, observations, job, reader>>
  BY DEF Suspend
<1>2. Growth
  BY <1>1 DEF IInv, FeedTyped, Growth, Known
<1>3. FeedTyped' /\ RunsFollow'
  BY <1>1 DEF IInv, FeedTyped, RunsFollow
<1>4. JobsProgress' /\ LastVerified' /\ ReaderFollows' /\ FinishedStay
  BY <1>1, <1>2, JobsKept, LastKept, ReaderKept, RunsUntouched
<1>5. QED
  BY <1>2, <1>3, <1>4 DEF IInv, Advances

LEMMA TickStep ==
  ASSUME IInv, Tick
  PROVE  IInv' /\ Advances
<1>1. now' = now + 1 /\ UNCHANGED <<runs, active, suspended, observations, job, reader>>
  BY DEF Tick
<1>2. Growth
  BY <1>1 DEF IInv, FeedTyped, Growth, Known
<1>3. FeedTyped' /\ RunsFollow'
  BY <1>1 DEF IInv, FeedTyped, RunsFollow
<1>4. JobsProgress' /\ LastVerified' /\ ReaderFollows' /\ FinishedStay
  BY <1>1, <1>2, JobsKept, LastKept, ReaderKept, RunsUntouched
<1>5. QED
  BY <1>2, <1>3, <1>4 DEF IInv, Advances

LEMMA StutterStep ==
  ASSUME IInv, UNCHANGED feedVars
  PROVE  IInv' /\ Advances
<1>1. UNCHANGED <<now, runs, active, suspended, observations, job, reader>>
  BY DEF feedVars
<1>2. Growth
  BY <1>1 DEF IInv, FeedTyped, Growth, Known
<1>3. FeedTyped' /\ RunsFollow'
  BY <1>1 DEF IInv, FeedTyped, RunsFollow
<1>4. JobsProgress' /\ LastVerified' /\ ReaderFollows' /\ FinishedStay
  BY <1>1, <1>2, JobsKept, LastKept, ReaderKept, RunsUntouched
<1>5. QED
  BY <1>2, <1>3, <1>4 DEF IInv, Advances

-----------------------------------------------------------------------------
(* The theorems                                                            *)

LEMMA InitInv ==
  ASSUME FeedInit
  PROVE  IInv
<1>1. /\ now = 1 /\ runs = EmptyMap /\ observations = EmptyMap /\ active = {}
      /\ suspended = [stations |-> {}, times |-> 0]
      /\ job = [r \in Run |-> [pc |-> "none"]] /\ reader = [pc |-> "idle"]
  BY DEF FeedInit, NotReading
<1>2. FeedTyped
  <2>1. [pc |-> "none"] \in Jobs
    BY DEF Jobs, JobRecord
  <2>2. reader \in Readers
    BY <1>1 DEF Readers
  <2>3. IsMap(runs, Run, RunRow)
    BY <1>1 DEF IsMap, EmptyMap
  <2>4. QED
    BY <1>1, <2>1, <2>2, <2>3 DEF FeedTyped
<1>3. JobsProgress
  BY <1>1 DEF JobsProgress
<1>4. RunsFollow /\ DOMAIN observations = {}
  BY <1>1 DEF RunsFollow, EmptyMap
<1>5. LastVerified
  BY <1>4 DEF LastVerified, Verified
<1>6. ReaderFollows
  BY <1>1 DEF ReaderFollows
<1>7. QED
  BY <1>2, <1>3, <1>4, <1>5, <1>6 DEF IInv

LEMMA StepInv ==
  ASSUME IInv, [FeedNext]_feedVars
  PROVE  IInv' /\ Advances
<1>1. ASSUME NEW r \in Run, NEW f \in Snapshot, StartRun(r, f)
      PROVE  IInv' /\ Advances
  BY <1>1, StartStep
<1>2. ASSUME NEW r \in Run, NEW batch \in SUBSET Station,
             UpsertStations(r, batch) \/ UpsertObservations(r, batch)
      PROVE  IInv' /\ Advances
  BY <1>2, StationsStep, ObservationsStep
<1>3. ASSUME NEW r \in Run, JudgeObservations(r) \/ Complete(r) \/ Fail(r) \/ Crash(r)
      PROVE  IInv' /\ Advances
  BY <1>3, JudgeStep, CompleteStep, FailStep, CrashStep
<1>4. ASSUME ReadHealth \/ ReadOptions \/ Answer \/ NextRequest \/ Tick
      PROVE  IInv' /\ Advances
  BY <1>4, ReadHealthStep, ReadOptionsStep, AnswerStep, NextRequestStep, TickStep
<1>5. ASSUME NEW s \in Station, Suspend(s)
      PROVE  IInv' /\ Advances
  BY <1>5, SuspendStep
<1>6. QED
  BY <1>1, <1>2, <1>3, <1>4, <1>5, StutterStep DEF FeedNext

\* The invariant holds in every state, whatever runs overlap, fail or crash.
THEOREM FeedInvariant == FeedSpec => []IInv
<1>1. FeedInit => IInv
  BY InitInv
<1>2. IInv /\ [FeedNext]_feedVars => IInv'
  BY StepInv
<1>3. QED
  BY <1>1, <1>2, PTL DEF FeedSpec

\* A run says completed only when all that it fetched is in the database, and a served
\* snapshot shows it (persistFuelFinderSnapshot, readPersistedFuelFinderSnapshot).
THEOREM FeedSound == FeedSpec => []FeedShowsWhatItStored
<1>1. IInv => CompletedMeansStored
  <2>1. SUFFICES ASSUME IInv, NEW r \in DOMAIN runs, runs[r].status = "completed"
                 PROVE  LET f == job[r].snapshot IN
                        \A s \in DOMAIN f : /\ s \in active \cup suspended.stations
                                            /\ <<s, f[s].observed>> \in DOMAIN observations
    BY DEF CompletedMeansStored
  <2>2. r \in Run /\ job[r].pc = "returned"
    BY <2>1 DEF IInv, FeedTyped, IsMap, RunsFollow
  <2>3. /\ job[r].todo = {} /\ DOMAIN job[r].snapshot \subseteq Known
        /\ \A s \in DOMAIN job[r].snapshot :
             s \notin job[r].todo => <<s, job[r].snapshot[s].observed>> \in DOMAIN observations
    BY <2>1, <2>2 DEF IInv, JobsProgress
  <2>4. QED
    BY <2>3 DEF Known
<1>2. IInv => ServedShowsItsRun
  BY DEF IInv, ReaderFollows, ServedShowsItsRun, Shows
<1>3. QED
  BY <1>1, <1>2, FeedInvariant, PTL DEF FeedShowsWhatItStored

\* What a step may never do: offer a station at a price observed before the one it is
\* offered at, or report an earlier run than the one reported (get_current_lock_options,
\* get_pricing_feed_health).
THEOREM FeedNeverOlder == FeedSpec => NeverOlder
<1>1. ASSUME IInv, [FeedNext]_feedVars
      PROVE  \A s \in DOMAIN Offers \cap DOMAIN Offers' : Offers'[s] >= Offers[s]
  <2>1. IInv' /\ Growth
    BY <1>1, StepInv DEF Advances
  <2>2. SUFFICES ASSUME NEW s \in Station, s \in DOMAIN Offers, s \in DOMAIN Offers'
                 PROVE  Offers'[s] >= Offers[s]
    BY DEF Offers
  <2>3. Offers[s] = Observed(s) /\ Offered(s) # {}
    BY <2>2 DEF Offers
  <2>4. Offers'[s] = Observed(s)' /\ Offered(s)' # {}
    BY <2>2 DEF Offers
  <2>5. Observed(s) \in Verified(s) /\ Observed(s) \in Nat
    BY <1>1, <2>3, OfferedIsLast DEF IInv
  <2>6. FeedTyped /\ LastVerified /\ Offered(s) # {} =>
          Observed(s) \in Nat /\ \A u \in Verified(s) : u <= Observed(s)
    BY OfferedIsLast
  <2>7. Observed(s)' \in Nat /\ \A u \in Verified(s)' : u <= Observed(s)'
    <3>1. (FeedTyped /\ LastVerified /\ Offered(s) # {} =>
             Observed(s) \in Nat /\ \A u \in Verified(s) : u <= Observed(s))'
      BY OfferedIsLast, PTL
    <3>2. QED
      BY <2>1, <2>4, <3>1 DEF IInv
  <2>8. Observed(s) \in Verified(s)'
    BY <2>1, <2>5 DEF Growth, Verified
  <2>9. QED
    BY <2>3, <2>4, <2>5, <2>7, <2>8
<1>2. ASSUME IInv, [FeedNext]_feedVars
      PROVE  \A r \in FeedHealth, q \in FeedHealth' : runs'[q].started >= runs[r].started
  <2>1. FinishedStay
    BY <1>1, <1>2, StepInv DEF Advances
  <2>2. SUFFICES ASSUME NEW r \in FeedHealth, NEW q \in FeedHealth'
                 PROVE  runs'[q].started >= runs[r].started
    OBVIOUS
  <2>3. r \in Finished /\ runs'[r].started = runs[r].started /\ r \in Finished'
    BY <2>1, <2>2 DEF FeedHealth, FinishedStay
  <2>4. runs'[r].started <= runs'[q].started
    BY <2>2, <2>3 DEF FeedHealth
  <2>5. runs[r].started \in Nat /\ runs'[q].started \in Nat
    <3>1. IInv'
      BY <1>2, StepInv
    <3>2. q \in DOMAIN runs' /\ r \in DOMAIN runs
      BY <2>2 DEF FeedHealth, Finished
    <3>3. QED
      BY <1>2, <3>1, <3>2 DEF IInv, FeedTyped, IsMap, RunRow
  <2>6. QED
    BY <2>3, <2>4, <2>5
<1>3. IInv /\ [FeedNext]_feedVars =>
        [/\ \A s \in DOMAIN Offers \cap DOMAIN Offers' : Offers'[s] >= Offers[s]
         /\ \A r \in FeedHealth, q \in FeedHealth' : runs'[q].started >= runs[r].started]_feedVars
  BY <1>1, <1>2
<1>4. QED
  BY <1>3, FeedInvariant, PTL DEF FeedSpec, NeverOlder

-----------------------------------------------------------------------------
(* Creating the customer profile                                           *)

Stores == {"local", "upstream"}

IsRecord(r) ==
  r = [kyc |-> r.kyc, licence |-> r.licence, pin |-> r.pin, plan |-> r.plan, funds |-> r.funds]
IsView(v) == v = [step |-> v.step, busy |-> v.busy, timer |-> v.timer, left |-> v.left]

Commands ==
  ({"REGISTER_CUSTOMER", "CHANGE_PLAN"} \X Plans)
  \cup ({"START_KYC", "VERIFY_KYC", "SET_PIN", "FUND_WALLET"} \X {"none"})

\* What a view can have asked for at each step.
Asked(step) ==
  CASE step = "profile"  -> {"REGISTER_CUSTOMER"}
    [] step = "licence"  -> {"START_KYC"}
    [] step = "checking" -> {"VERIFY_KYC"}
    [] step = "pin"      -> {"VERIFY_KYC", "SET_PIN", "FUND_WALLET", "CHANGE_PLAN"}
    [] OTHER             -> {}

\* One registration at a time, and none once the wallet is reached.
ViewSound(i) ==
  /\ IsView(view[i])
  /\ view[i].step \in {"unmounted", "profile", "licence", "checking", "pin"}
  /\ \A c \in Commands : <<i, c>> \in calls => c[1] \in Asked(view[i].step)
  /\ view[i].timer => view[i].step \in {"checking", "pin"}
  /\ view[i].step = "profile" =>
       \A c \in Commands : <<i, c>> \in calls =>
         view[i].busy /\ \A d \in Commands : <<i, d>> \in calls => d = c
  /\ i \in DOMAIN completed =>
       view[i].left /\ view[i].step = "pin" /\ <<i, <<"SET_PIN", "none">>>> \notin calls

\* The store whose answer a sign-up that is not disturbed gets.
HomeStore == IF linked THEN "upstream" ELSE "local"

\* A record that is there tells how far an undisturbed sign-up has come.
Reached(step, r) ==
  r = Absent \/ /\ step \in {"checking", "pin"} => r.licence
                /\ step = "pin" => r.kyc = "VERIFIED"

WasVerified(r) == r.kyc = "VERIFIED" /\ r.licence /\ r.pin

OnboardInv ==
  /\ linked \in BOOLEAN /\ calls \subseteq SignUp \X Commands
  /\ DOMAIN view = SignUp /\ DOMAIN record = Stores /\ DOMAIN completed \subseteq SignUp
  /\ \A s \in Stores : IsRecord(record[s])
  /\ \A i \in SignUp : ViewSound(i)
  /\ \A i \in SignUp \ disturbed :
       IF i \in DOMAIN completed THEN WasVerified(completed[i])
       ELSE Reached(view[i].step, record[HomeStore])

\* What each command does to a record: only a registration takes back what was verified.
LEMMA CommandEffect ==
  ASSUME NEW r, IsRecord(r), NEW c \in Commands
  PROVE  LET q == applyLifecycleCommand(r, c) IN
         /\ IsRecord(q)
         /\ c[1] \in {"VERIFY_KYC", "SET_PIN", "FUND_WALLET", "CHANGE_PLAN"} =>
              \A step : Reached(step, r) => Reached(step, q)
         /\ c[1] = "START_KYC" => Reached("checking", q)
         /\ c[1] = "VERIFY_KYC" => (Reached("checking", r) => Reached("pin", q))
         /\ c[1] = "SET_PIN" => q = Absent \/ (q.pin /\ (Reached("pin", r) => WasVerified(q)))
<1> DEFINE q == applyLifecycleCommand(r, c)
<1>1. c[1] \in {"REGISTER_CUSTOMER", "CHANGE_PLAN", "START_KYC", "VERIFY_KYC", "SET_PIN", "FUND_WALLET"}
  BY DEF Commands
<1>2. CASE c[1] = "REGISTER_CUSTOMER"
  <2>1. q = Registered(c[2])
    BY <1>2 DEF applyLifecycleCommand
  <2> QED
    BY <1>2, <2>1 DEF Registered, IsRecord
<1>3. CASE r = Absent /\ c[1] # "REGISTER_CUSTOMER"
  <2>1. q = r
    BY <1>1, <1>3 DEF applyLifecycleCommand
  <2> QED
    BY <1>3, <2>1 DEF Reached
<1>4. CASE r # Absent /\ c[1] = "START_KYC"
  <2>1. q = [r EXCEPT !.kyc = "PENDING", !.licence = TRUE]
    BY <1>4 DEF applyLifecycleCommand
  <2> QED
    BY <1>4, <2>1 DEF Reached, IsRecord
<1>5. CASE r # Absent /\ c[1] = "VERIFY_KYC"
  <2>1. q = [r EXCEPT !.kyc = "VERIFIED"]
    BY <1>5 DEF applyLifecycleCommand, verified
  <2> QED
    BY <1>5, <2>1 DEF Reached, IsRecord
<1>6. CASE r # Absent /\ c[1] = "SET_PIN"
  <2>1. q = [r EXCEPT !.pin = TRUE]
    BY <1>6 DEF applyLifecycleCommand
  <2> QED
    BY <1>6, <2>1 DEF Reached, IsRecord, WasVerified
<1>7. CASE r # Absent /\ c[1] = "CHANGE_PLAN"
  <2>1. q = [r EXCEPT !.plan = c[2]]
    BY <1>7 DEF applyLifecycleCommand
  <2> QED
    BY <1>7, <2>1 DEF Reached, IsRecord
<1>8. CASE r # Absent /\ c[1] = "FUND_WALLET"
  <2>1. q = [r EXCEPT !.funds = @ + 1]
    BY <1>8 DEF applyLifecycleCommand
  <2> QED
    BY <1>8, <2>1 DEF Reached, IsRecord
<1> QED
  BY <1>1, <1>2, <1>3, <1>4, <1>5, <1>6, <1>7, <1>8

\* A view moves on only by the answer to what it asked for.
LEMMA AnswerMoves ==
  ASSUME NEW v, IsView(v), NEW command
  PROVE  LET w == Answered(v, command) IN
         /\ IsView(w) /\ w.left = v.left
         /\ w.step = IF command = "REGISTER_CUSTOMER" THEN "licence"
                     ELSE IF command = "START_KYC" THEN "checking"
                     ELSE IF command = "VERIFY_KYC" THEN "pin" ELSE v.step
         /\ w.timer => v.timer \/ command = "START_KYC"
BY DEF Answered, IsView

\* A call that is served, by whatever stores, brings the view and the record on together.
LEMMA ServeStep ==
  ASSUME OnboardInv, NEW i \in SignUp, NEW c \in Commands, <<i, c>> \in calls,
         NEW stores \in SUBSET Stores, NEW answering \in stores, Serve(i, c, stores, answering),
         linked => answering = "upstream" \/ i \in disturbed', ~linked => answering = "local"
  PROVE  OnboardInv'
<1> DEFINE completes == c[1] = "SET_PIN" /\ record'[answering] # Absent
           w == Answered(view[i], c[1])
<1>1. /\ record' = [s \in Stores |-> IF s \in stores THEN applyLifecycleCommand(record[s], c) ELSE record[s]]
      /\ calls' = calls \ {<<i, c>>}
      /\ view' = [view EXCEPT ![i] = [w EXCEPT !.left = @ \/ completes]]
      /\ completed' = IF completes THEN Put(completed, i, record'[answering]) ELSE completed
      /\ disturbed \subseteq disturbed'
      /\ c[1] \in {"REGISTER_CUSTOMER", "START_KYC"} => OthersOpen(i) \subseteq disturbed'
      /\ linked' = linked
  <2>1. DOMAIN record = Stores
    BY DEF OnboardInv
  <2> QED
    BY <2>1 DEF Serve
<1>2. IsView(w) /\ w.left = view[i].left
  BY AnswerMoves DEF OnboardInv, ViewSound
<1>3. /\ w.step = IF c[1] = "REGISTER_CUSTOMER" THEN "licence"
                  ELSE IF c[1] = "START_KYC" THEN "checking"
                  ELSE IF c[1] = "VERIFY_KYC" THEN "pin" ELSE view[i].step
      /\ w.timer => view[i].timer \/ c[1] = "START_KYC"
  BY AnswerMoves DEF OnboardInv, ViewSound
<1>4. c[1] \in Asked(view[i].step)
  BY DEF OnboardInv, ViewSound
<1>5. view[i].step = "unmounted" => FALSE
  BY <1>4 DEF Asked
<1>6. /\ c[1] = "REGISTER_CUSTOMER" => view[i].step = "profile"
      /\ c[1] = "START_KYC" => view[i].step = "licence"
      /\ c[1] = "VERIFY_KYC" => view[i].step \in {"checking", "pin"}
      /\ c[1] \in {"SET_PIN", "FUND_WALLET", "CHANGE_PLAN"} => view[i].step = "pin"
  BY <1>4 DEF Asked, OnboardInv, ViewSound
<1>7. c[1] \in {"REGISTER_CUSTOMER", "START_KYC", "VERIFY_KYC", "SET_PIN", "FUND_WALLET", "CHANGE_PLAN"}
  BY DEF Commands
<1> DEFINE u == view'[i]
<1>8. /\ DOMAIN view' = SignUp /\ \A j \in SignUp : j # i => view'[j] = view[j]
      /\ IsView(u) /\ u.step = w.step /\ u.timer = w.timer /\ u.busy = w.busy
      /\ u.left = (view[i].left \/ completes)
  BY <1>1, <1>2 DEF OnboardInv, IsView
<1>9. /\ DOMAIN completed' = IF completes THEN DOMAIN completed \cup {i} ELSE DOMAIN completed
      /\ \A j \in DOMAIN completed : (j # i \/ ~completes) => completed'[j] = completed[j]
      /\ completes => completed'[i] = record'[answering]
  BY <1>1 DEF Put
<1> HIDE DEF u, w
<1>10. \A s \in Stores : IsRecord(record'[s])
  BY <1>1, CommandEffect DEF OnboardInv
<1>11. ViewSound(i)'
  <2>1. u.step \in {"licence", "checking", "pin"}
    BY <1>3, <1>6, <1>7, <1>8
  <2>2. \A d \in Commands : <<i, d>> \in calls' => d[1] \in Asked(u.step)
    <3>1. ASSUME NEW d \in Commands, <<i, d>> \in calls' PROVE d[1] \in Asked(u.step)
      <4>1. <<i, d>> \in calls /\ d # c /\ d[1] \in Asked(view[i].step)
        BY <1>1, <3>1 DEF OnboardInv, ViewSound
      <4>2. CASE c[1] = "REGISTER_CUSTOMER"
        BY <1>6, <4>1, <4>2 DEF OnboardInv, ViewSound
      <4>3. CASE c[1] = "START_KYC"
        <5>1. d[1] = "START_KYC"
          BY <1>6, <4>1, <4>3 DEF Asked
        <5>2. d = c
          BY <4>3, <5>1 DEF Commands
        <5> QED
          BY <4>1, <5>2
      <4>4. CASE c[1] = "VERIFY_KYC"
        <5>1. d[1] \in Asked("pin")
          BY <1>6, <4>1, <4>4 DEF Asked
        <5> QED
          BY <1>3, <1>8, <4>4, <5>1
      <4>5. CASE c[1] \in {"SET_PIN", "FUND_WALLET", "CHANGE_PLAN"}
        BY <1>3, <1>8, <4>1, <4>5
      <4> QED
        BY <1>7, <4>2, <4>3, <4>4, <4>5
    <3> QED
      BY <3>1
  <2>3. u.timer => u.step \in {"checking", "pin"}
    <3>1. view[i].timer => view[i].step \in {"checking", "pin"}
      BY DEF OnboardInv, ViewSound
    <3> QED
      BY <1>3, <1>6, <1>7, <1>8, <3>1
  <2>4. i \in DOMAIN completed' => u.left /\ u.step = "pin" /\ <<i, <<"SET_PIN", "none">>>> \notin calls'
    <3>1. CASE completes
      <4>1. c = <<"SET_PIN", "none">>
        BY <3>1 DEF Commands
      <4> QED
        BY <1>1, <1>3, <1>6, <1>8, <3>1, <4>1
    <3>2. CASE i \in DOMAIN completed
      <4>1. view[i].left /\ view[i].step = "pin" /\ <<i, <<"SET_PIN", "none">>>> \notin calls
        BY <3>2 DEF OnboardInv, ViewSound
      <4> QED
        BY <1>1, <1>3, <1>6, <1>7, <1>8, <4>1
    <3> QED
      BY <1>9, <3>1, <3>2
  <2> QED
    BY <1>8, <2>1, <2>2, <2>3, <2>4 DEF ViewSound, u
<1>12. ASSUME NEW j \in SignUp, j # i PROVE ViewSound(j)'
  <2>1. /\ view'[j] = view[j] /\ (j \in DOMAIN completed' <=> j \in DOMAIN completed)
        /\ \A d : <<j, d>> \in calls' <=> <<j, d>> \in calls
    BY <1>1, <1>8, <1>9, <1>12
  <2> QED
    BY <2>1 DEF OnboardInv, ViewSound
<1>13. HomeStore' = HomeStore /\ HomeStore \in Stores
  BY <1>1 DEF HomeStore, Stores
<1>14. ASSUME NEW j \in SignUp \ disturbed', j # i, j \notin DOMAIN completed
       PROVE  Reached(view[j].step, record'[HomeStore])
  <2>1. j \notin disturbed /\ Reached(view[j].step, record[HomeStore])
    BY <1>1, <1>14 DEF OnboardInv
  <2>2. CASE HomeStore \notin stores
    BY <1>1, <1>13, <2>1, <2>2
  <2>3. CASE HomeStore \in stores /\ c[1] \in {"REGISTER_CUSTOMER", "START_KYC"}
    <3>1. view[j].step \notin {"licence", "checking", "pin"}
      BY <1>1, <1>14, <2>3 DEF OthersOpen
    <3> QED
      BY <3>1 DEF Reached
  <2>4. CASE HomeStore \in stores /\ c[1] \notin {"REGISTER_CUSTOMER", "START_KYC"}
    <3>1. record'[HomeStore] = applyLifecycleCommand(record[HomeStore], c)
      BY <1>1, <1>13, <2>4
    <3> QED
      BY <1>7, <1>13, <2>1, <2>4, <3>1, CommandEffect DEF OnboardInv
  <2> QED
    BY <2>2, <2>3, <2>4
<1>15. ASSUME i \notin disturbed'
       PROVE  IF i \in DOMAIN completed' THEN WasVerified(completed'[i])
              ELSE Reached(u.step, record'[HomeStore])
  <2>1. answering = HomeStore /\ i \notin disturbed
    BY <1>1, <1>15 DEF HomeStore, OnboardInv
  <2>2. record'[HomeStore] = applyLifecycleCommand(record[HomeStore], c) /\ IsRecord(record[HomeStore])
    BY <1>1, <1>13, <2>1 DEF OnboardInv
  <2>3. CASE i \in DOMAIN completed
    <3>1. WasVerified(completed[i]) /\ c # <<"SET_PIN", "none">>
      BY <2>1, <2>3 DEF OnboardInv, ViewSound
    <3>2. c[1] # "SET_PIN"
      BY <3>1 DEF Commands
    <3> QED
      BY <1>9, <2>3, <3>1, <3>2
  <2>4. CASE i \notin DOMAIN completed
    <3>1. Reached(view[i].step, record[HomeStore])
      BY <2>1, <2>4 DEF OnboardInv
    <3>2. CASE c[1] = "REGISTER_CUSTOMER"
      BY <1>3, <1>8, <1>9, <2>4, <3>2 DEF Reached
    <3>3. CASE c[1] = "START_KYC"
      BY <1>3, <1>8, <1>9, <2>2, <2>4, <3>3, CommandEffect
    <3>4. CASE c[1] = "VERIFY_KYC"
      <4>1. Reached("checking", record[HomeStore])
        BY <1>6, <3>1, <3>4 DEF Reached
      <4> QED
        BY <1>3, <1>8, <1>9, <2>2, <2>4, <3>4, <4>1, CommandEffect
    <3>5. CASE c[1] = "SET_PIN"
      <4>1. Reached("pin", record[HomeStore])
        BY <1>6, <3>1, <3>5
      <4>2. record'[HomeStore] = Absent \/ WasVerified(record'[HomeStore])
        BY <2>2, <3>5, <4>1, CommandEffect
      <4>3. CASE completes
        BY <1>9, <2>1, <4>2, <4>3
      <4>4. CASE ~completes
        <5>1. record'[HomeStore] = Absent
          BY <2>1, <3>5, <4>4
        <5> QED
          BY <1>9, <2>4, <4>4, <5>1 DEF Reached
      <4> QED
        BY <4>3, <4>4
    <3>6. CASE c[1] \in {"FUND_WALLET", "CHANGE_PLAN"}
      BY <1>3, <1>8, <1>9, <2>2, <2>4, <3>1, <3>6, CommandEffect
    <3> QED
      BY <1>7, <3>2, <3>3, <3>4, <3>5, <3>6
  <2> QED
    BY <2>3, <2>4
<1>16. \A j \in SignUp \ disturbed' :
         IF j \in DOMAIN completed' THEN WasVerified(completed'[j])
         ELSE Reached(view'[j].step, record'[HomeStore])
  <2>1. ASSUME NEW j \in SignUp \ disturbed', j # i
        PROVE  IF j \in DOMAIN completed' THEN WasVerified(completed'[j])
               ELSE Reached(view'[j].step, record'[HomeStore])
    <3>1. j \in DOMAIN completed => WasVerified(completed[j])
      BY <1>1, <2>1 DEF OnboardInv
    <3> QED
      BY <1>8, <1>9, <1>14, <2>1, <3>1
  <2> QED
    BY <1>15, <2>1 DEF u
<1>17. DOMAIN record' = Stores
  BY <1>1
<1>18. linked' \in BOOLEAN /\ calls' \subseteq SignUp \X Commands /\ DOMAIN completed' \subseteq SignUp
  BY <1>1, <1>9 DEF OnboardInv
<1> QED
  BY <1>8, <1>10, <1>11, <1>12, <1>13, <1>16, <1>17, <1>18 DEF OnboardInv

\* A step of the page by itself leaves records, completions and disturbances alone.
LEMMA PageStep ==
  ASSUME OnboardInv, NEW i \in SignUp,
         UNCHANGED <<linked, record, completed, disturbed>>,
         calls \subseteq calls',
         \A call \in calls' \ calls : \E c \in Commands : call = <<i, c>>,
         DOMAIN view' = SignUp, \A j \in SignUp : j # i => view'[j] = view[j],
         ViewSound(i)', view'[i].step \in {view[i].step, "profile"}
  PROVE  OnboardInv'
<1>1. HomeStore' = HomeStore
  BY DEF HomeStore
<1>2. ASSUME NEW j \in SignUp PROVE ViewSound(j)'
  <2>1. CASE j # i
    <3>1. \A d : <<j, d>> \in calls' <=> <<j, d>> \in calls
      BY <2>1
    <3> QED
      BY <2>1, <3>1 DEF OnboardInv, ViewSound
  <2> QED
    BY <2>1
<1>3. ASSUME NEW j \in SignUp \ disturbed', j \notin DOMAIN completed'
      PROVE  Reached(view'[j].step, record'[HomeStore'])
  <2>1. Reached(view[j].step, record[HomeStore])
    BY <1>3 DEF OnboardInv
  <2> QED
    BY <1>1, <2>1 DEF Reached
<1> QED
  BY <1>2, <1>3 DEF OnboardInv

\* No step breaks the invariant.
LEMMA OnboardStep == OnboardInv /\ [OnboardNext]_onboardVars => OnboardInv'
<1> SUFFICES ASSUME OnboardInv, [OnboardNext]_onboardVars PROVE OnboardInv'
  OBVIOUS
<1>0. /\ DOMAIN view = SignUp /\ DOMAIN record = Stores /\ calls \subseteq SignUp \X Commands
      /\ \A i \in SignUp : ViewSound(i)
  BY DEF OnboardInv
<1>1. ASSUME NEW i \in SignUp, Mount(i) PROVE OnboardInv'
  <2>1. ViewSound(i)'
    <3>1. /\ IsView(view[i]) /\ view[i].step = "unmounted" /\ ~view[i].timer /\ i \notin DOMAIN completed
          /\ \A c \in Commands : <<i, c>> \notin calls
      BY <1>0, <1>1 DEF Mount, ViewSound, Asked
    <3>2. view' = [view EXCEPT ![i].step = "profile"] /\ UNCHANGED <<calls, completed>>
      BY <1>1 DEF Mount
    <3>3. view'[i] = [view[i] EXCEPT !.step = "profile"]
      BY <1>0, <3>2
    <3>4. IsView(view'[i]) /\ view'[i].step = "profile" /\ ~view'[i].timer
      BY <3>1, <3>3 DEF IsView
    <3> QED
      BY <3>1, <3>2, <3>4 DEF ViewSound
  <2>2. DOMAIN view' = SignUp /\ (\A j \in SignUp : j # i => view'[j] = view[j]) /\ view'[i].step = "profile"
    BY <1>0, <1>1 DEF Mount, ViewSound, IsView
  <2>3. UNCHANGED <<linked, record, calls, completed, disturbed>>
    BY <1>1 DEF Mount
  <2> QED
    BY <2>1, <2>2, <2>3, PageStep
<1>2. ASSUME NEW i \in SignUp, NEW step, NEW command \in Commands, Press(i, step, command),
             command[1] \in Asked(step)
      PROVE  OnboardInv'
  <2>1. /\ view' = [view EXCEPT ![i].busy = TRUE] /\ calls' = calls \cup {<<i, command>>}
        /\ view[i].step = step /\ ~view[i].left /\ ~view[i].busy
        /\ UNCHANGED <<linked, record, completed, disturbed>>
    BY <1>2 DEF Press, Send, Showing
  <2>2. ViewSound(i)'
    <3>1. view'[i] = [view[i] EXCEPT !.busy = TRUE] /\ ViewSound(i)
      BY <1>0, <2>1
    <3>2. /\ IsView(view'[i]) /\ view'[i].step = step /\ view'[i].timer = view[i].timer /\ view'[i].busy
          /\ view'[i].left = view[i].left
      BY <2>1, <3>1 DEF ViewSound, IsView
    <3>3. i \notin DOMAIN completed'
      BY <2>1, <3>1 DEF ViewSound
    <3>4. \A c \in Commands : <<i, c>> \in calls' => c = command \/ <<i, c>> \in calls
      BY <2>1
    <3>5. \A c \in Commands : <<i, c>> \in calls' => c[1] \in Asked(step)
      BY <1>2, <2>1, <3>1, <3>4 DEF ViewSound
    <3>6. step = "profile" => \A c \in Commands : <<i, c>> \in calls' => c = command
      BY <2>1, <3>1, <3>4 DEF ViewSound
    <3> QED
      BY <2>1, <3>1, <3>2, <3>3, <3>5, <3>6 DEF ViewSound
  <2>3. DOMAIN view' = SignUp /\ (\A j \in SignUp : j # i => view'[j] = view[j]) /\ view'[i].step = view[i].step
    BY <1>0, <2>1 DEF ViewSound, IsView
  <2> QED
    BY <1>2, <2>1, <2>2, <2>3, PageStep
<1>3. ASSUME NEW i \in SignUp, register(i) PROVE OnboardInv'
  BY <1>2, <1>3 DEF register, Commands, Asked
<1>4. ASSUME NEW i \in SignUp, verify(i) PROVE OnboardInv'
  BY <1>2, <1>4 DEF verify, Commands, Asked
<1>5. ASSUME NEW i \in SignUp, finish(i) PROVE OnboardInv'
  BY <1>2, <1>5 DEF finish, Commands, Asked
<1>6. ASSUME NEW i \in SignUp, TimerFires(i) PROVE OnboardInv'
  <2>1. /\ view' = [view EXCEPT ![i].timer = FALSE]
        /\ calls' = calls \cup {<<i, <<"VERIFY_KYC", "none">>>>}
        /\ view[i].timer /\ UNCHANGED <<linked, record, completed, disturbed>>
    BY <1>6 DEF TimerFires, Send
  <2>2. ViewSound(i)'
    <3>1. view'[i] = [view[i] EXCEPT !.timer = FALSE] /\ ViewSound(i)
      BY <1>0, <2>1
    <3>2. /\ IsView(view'[i]) /\ view'[i].step = view[i].step /\ ~view'[i].timer
          /\ view'[i].left = view[i].left /\ view[i].step \in {"checking", "pin"}
      BY <2>1, <3>1 DEF ViewSound, IsView
    <3>3. \A c : <<i, c>> \in calls' => c = <<"VERIFY_KYC", "none">> \/ <<i, c>> \in calls
      BY <2>1
    <3>4. \A c \in Commands : <<i, c>> \in calls' => c[1] \in Asked(view[i].step)
      BY <3>1, <3>2, <3>3 DEF ViewSound, Asked
    <3>5. <<"SET_PIN", "none">> # <<"VERIFY_KYC", "none">>
      OBVIOUS
    <3> QED
      BY <2>1, <3>1, <3>2, <3>3, <3>4, <3>5 DEF ViewSound
  <2>3. DOMAIN view' = SignUp /\ (\A j \in SignUp : j # i => view'[j] = view[j]) /\ view'[i].step = view[i].step
    BY <1>0, <2>1 DEF ViewSound, IsView
  <2>4. <<"VERIFY_KYC", "none">> \in Commands
    BY DEF Commands
  <2> QED
    BY <2>1, <2>2, <2>3, <2>4, PageStep
<1>7. ASSUME NEW i \in SignUp, Leave(i) PROVE OnboardInv'
  <2>1. /\ view' = [view EXCEPT ![i].left = TRUE] /\ UNCHANGED <<linked, record, calls, completed, disturbed>>
    BY <1>7 DEF Leave
  <2>2. ViewSound(i)'
    <3>1. view'[i] = [view[i] EXCEPT !.left = TRUE] /\ ViewSound(i)
      BY <1>0, <2>1
    <3>2. /\ IsView(view'[i]) /\ view'[i].step = view[i].step /\ view'[i].timer = view[i].timer
          /\ view'[i].busy = view[i].busy /\ view'[i].left
      BY <3>1 DEF ViewSound, IsView
    <3> QED
      BY <2>1, <3>1, <3>2 DEF ViewSound
  <2>3. DOMAIN view' = SignUp /\ (\A j \in SignUp : j # i => view'[j] = view[j]) /\ view'[i].step = view[i].step
    BY <1>0, <2>1 DEF ViewSound, IsView
  <2> QED
    BY <2>1, <2>2, <2>3, PageStep
<1>8. ASSUME NEW i \in SignUp, Afterwards(i) PROVE OnboardInv'
  <2>1. PICK command \in {<<"FUND_WALLET", "none">>} \cup {<<"CHANGE_PLAN", plan>> : plan \in Plans} :
          calls' = calls \cup {<<i, command>>}
    BY <1>8 DEF Afterwards
  <2>2. command \in Commands /\ command[1] \in {"FUND_WALLET", "CHANGE_PLAN"}
    BY <2>1 DEF Commands
  <2>3. /\ i \in DOMAIN completed /\ UNCHANGED <<linked, record, view, completed, disturbed>>
        /\ view[i].step = "pin"
    BY <1>0, <1>8 DEF Afterwards, ViewSound
  <2>4. ViewSound(i)'
    BY <1>0, <2>1, <2>2, <2>3 DEF ViewSound, Asked
  <2> QED
    BY <2>1, <2>2, <2>3, <2>4, <1>0, PageStep
<1>9. ASSUME NEW call \in calls, Post(call) \/ Fallback(call) PROVE OnboardInv'
  <2>1. PICK i \in SignUp, c \in Commands : call = <<i, c>>
    BY <1>0
  <2>2. call[1] = i /\ call[2] = c /\ <<i, c>> \in calls
    BY <2>1
  <2>3. ASSUME NEW stores \in SUBSET Stores, NEW answering \in stores, Serve(i, c, stores, answering),
               answering = HomeStore \/ (linked /\ answering = "local")
        PROVE  OnboardInv'
    <3>1. linked /\ answering = "local" => i \in disturbed'
      BY <2>3 DEF Serve
    <3> QED
      BY <2>2, <2>3, <3>1, ServeStep DEF HomeStore
  <2>4. /\ {"upstream"} \in SUBSET Stores /\ {"local"} \in SUBSET Stores /\ {"local", "upstream"} \in SUBSET Stores
    BY DEF Stores
  <2>5. CASE Post(call)
    <3>1. CASE linked
      <4>1. Serve(i, c, {"upstream"}, "upstream") /\ HomeStore = "upstream"
        BY <2>2, <2>5, <3>1 DEF Post, HomeStore
      <4> QED
        BY <2>3, <2>4, <4>1
    <3>2. CASE ~linked
      <4>1. Serve(i, c, {"local"}, "local") /\ HomeStore = "local"
        BY <2>2, <2>5, <3>2 DEF Post, HomeStore
      <4> QED
        BY <2>3, <2>4, <4>1
    <3> QED
      BY <3>1, <3>2
  <2>6. CASE Fallback(call)
    <3>1. PICK stores \in {{"local"}, {"local", "upstream"}} : linked /\ Serve(i, c, stores, "local")
      BY <2>2, <2>6 DEF Fallback
    <3> QED
      BY <2>3, <2>4, <3>1
  <2> QED
    BY <1>9, <2>5, <2>6
<1>10. ASSUME NEW call \in calls, Throw(call) PROVE OnboardInv'
  <2>1. calls' \subseteq calls /\ UNCHANGED <<linked, record, view, completed, disturbed>>
    BY <1>10 DEF Throw
  <2> QED
    BY <2>1 DEF OnboardInv, ViewSound, HomeStore
<1>11. ASSUME NEW store \in DOMAIN record, Restart(store) PROVE OnboardInv'
  <2>1. record' = [record EXCEPT ![store] = Absent] /\ UNCHANGED <<linked, view, calls, completed, disturbed>>
    BY <1>11 DEF Restart
  <2>2. DOMAIN record' = Stores /\ \A s \in Stores : record'[s] = record[s] \/ record'[s] = Absent
    BY <1>0, <2>1
  <2>3. IsRecord(Absent) /\ \A step : Reached(step, Absent)
    BY DEF IsRecord, Absent, Reached
  <2>4. HomeStore' = HomeStore /\ HomeStore \in Stores
    BY <2>1 DEF HomeStore, Stores
  <2>5. \A s \in Stores : IsRecord(record'[s])
    BY <2>2, <2>3 DEF OnboardInv
  <2>6. \A i \in SignUp \ disturbed' :
          IF i \in DOMAIN completed' THEN WasVerified(completed'[i]) ELSE Reached(view'[i].step, record'[HomeStore'])
    BY <2>1, <2>2, <2>3, <2>4 DEF OnboardInv
  <2>7. \A i \in SignUp : ViewSound(i)'
    BY <1>0, <2>1 DEF ViewSound
  <2> QED
    BY <2>1, <2>2, <2>5, <2>6, <2>7 DEF OnboardInv
<1>12. CASE UNCHANGED onboardVars
  BY <1>12 DEF OnboardInv, onboardVars, ViewSound, HomeStore
<1> QED
  BY <1>1, <1>3, <1>4, <1>5, <1>6, <1>7, <1>8, <1>9, <1>10, <1>11, <1>12 DEF OnboardNext

\* For any sign-ups, plans and restarts: whoever reaches the wallet undisturbed has a
\* verified identity, from a licence, and a PIN (OnboardingView, /api/customer-lifecycle).
THEOREM RegisteredVerified == OnboardSpec => []OnboardedVerified
<1>1. OnboardInit => OnboardInv
  <2> SUFFICES ASSUME OnboardInit PROVE OnboardInv
    OBVIOUS
  <2>1. DOMAIN completed = {}
    BY EmptyIsMap DEF OnboardInit
  <2>2. /\ DOMAIN record = Stores /\ \A s \in Stores : IsRecord(record[s]) /\ record[s] = Absent
    BY DEF OnboardInit, Stores, IsRecord, Absent
  <2>3. \A i \in SignUp : ViewSound(i) /\ view[i].step = "unmounted"
    BY <2>1 DEF OnboardInit, ViewSound, IsView
  <2>4. HomeStore \in Stores
    BY DEF HomeStore, Stores
  <2> QED
    BY <2>1, <2>2, <2>3, <2>4 DEF OnboardInit, OnboardInv, Reached
<1>2. OnboardInv => OnboardedVerified
  BY DEF OnboardInv, OnboardedVerified, WasVerified
<1> QED
  BY <1>1, <1>2, OnboardStep, PTL DEF OnboardSpec

-----------------------------------------------------------------------------
(***************************************************************************)
(* The waiting list: what was thanked for arrives.                         *)
(***************************************************************************)
Steps == Range(STEP_ORDER)
Told == {"started"} \cup Steps
Words == {"none", "started"} \cup STRING

\* The steps are numbered as they are asked, the address last.
LEMMA StepNumbers ==
  /\ Len(STEP_ORDER) \in Nat \ {0} /\ DOMAIN STEP_ORDER = 1 .. Len(STEP_ORDER)
  /\ Steps = {STEP_ORDER[i] : i \in 1 .. Len(STEP_ORDER)}
  /\ STEP_ORDER[Len(STEP_ORDER)] = "email" /\ "email" \in Steps /\ "country" \in Steps
<1>1. Len(STEP_ORDER) \in Nat /\ DOMAIN STEP_ORDER = 1 .. Len(STEP_ORDER)
  BY StepAssumption
<1>2. Steps = {STEP_ORDER[i] : i \in 1 .. Len(STEP_ORDER)}
  BY <1>1 DEF Steps, Range
<1>3. "zip" \in Steps
  BY StepAssumption DEF Steps
<1>4. Len(STEP_ORDER) # 0
  BY <1>1, <1>2, <1>3
<1>5. STEP_ORDER[Len(STEP_ORDER)] = "email" /\ STEP_ORDER[1] = "country"
  BY StepAssumption DEF Last
<1> QED
  BY <1>1, <1>2, <1>4, <1>5

\* Two elements are a sequence.
LEMMA PairSeq ==
  ASSUME NEW T, NEW a \in T, NEW b \in T
  PROVE  <<a, b>> \in Seq(T) /\ Len(<<a, b>>) = 2 /\ <<a, b>>[1] = a /\ <<a, b>>[2] = b
  OBVIOUS

\* A sequence with two more before it.
LEMMA TwoBefore ==
  ASSUME NEW T, NEW b, b \in Seq(T), Len(b) = 2, NEW s, s \in Seq(T)
  PROVE  /\ b \o s \in Seq(T) /\ Len(s) \in Nat /\ DOMAIN (b \o s) = 1 .. Len(s) + 2
         /\ (b \o s)[1] = b[1] /\ (b \o s)[2] = b[2]
         /\ \A i \in 1 .. Len(s) : (b \o s)[i + 2] = s[i]
<1>1. Len(s) \in Nat
  BY LenProperties
<1>2. /\ b \o s \in Seq(T) /\ Len(b \o s) = Len(b) + Len(s)
      /\ \A i \in 1 .. Len(b) + Len(s) : (b \o s)[i] = IF i <= Len(b) THEN b[i] ELSE s[i - Len(b)]
  BY ConcatProperties, Zenon
<1>3. b \o s \in Seq(T) /\ Len(b \o s) = Len(s) + 2
  BY <1>1, <1>2
<1>4. DOMAIN (b \o s) = 1 .. Len(s) + 2
  BY <1>3, LenProperties
<1>5. \A i \in 1 .. Len(s) + 2 : (b \o s)[i] = IF i <= 2 THEN b[i] ELSE s[i - 2]
  BY <1>1, <1>2
<1>6. \A i \in 1 .. Len(s) : (b \o s)[i + 2] = s[i]
  <2> TAKE i \in 1 .. Len(s)
  <2>1. i + 2 \in 1 .. Len(s) + 2 /\ ~(i + 2 <= 2) /\ (i + 2) - 2 = i
    BY <1>1
  <2> QED
    BY <1>5, <2>1
<1> QED
  BY <1>1, <1>3, <1>4, <1>5, <1>6

\* A sequence without its first element.
LEMMA TailOf ==
  ASSUME NEW T, NEW s, s \in Seq(T), NEW n \in Nat \ {0}, DOMAIN s = 1 .. n + 1
  PROVE  DOMAIN Tail(s) = 1 .. n /\ \A i \in 1 .. n : Tail(s)[i] = s[i + 1]
<1>1. Len(s) = n + 1 /\ s # <<>>
  BY LenProperties
<1>2. Tail(s) \in Seq(T) /\ Len(Tail(s)) = n /\ \A i \in 1 .. n : Tail(s)[i] = s[i + 1]
  BY <1>1, HeadTailProperties
<1> QED
  BY <1>2, LenProperties

LEMMA FunnelNumbers ==
  /\ stepIndex("none") = 1 /\ stepIndex("started") = 2
  /\ \A i \in 1 .. Len(STEP_ORDER) : stepIndex(STEP_ORDER[i]) = i + 2
  /\ {"started", "email"} \subseteq Range(Tail(FUNNEL_STEPS))
<1> DEFINE N == Len(STEP_ORDER)
<1>1. N \in Nat \ {0} /\ STEP_ORDER \in Seq(STRING) /\ DOMAIN STEP_ORDER = 1 .. N
  BY StepNumbers, StepAssumption
<1>2. /\ FUNNEL_STEPS \in Seq(Words)
      /\ DOMAIN FUNNEL_STEPS = 1 .. N + 2 /\ FUNNEL_STEPS[1] = "none" /\ FUNNEL_STEPS[2] = "started"
      /\ \A i \in 1 .. N : FUNNEL_STEPS[i + 2] = STEP_ORDER[i]
  <2> DEFINE before == <<"none", "started">>
  <2>1. FUNNEL_STEPS = before \o STEP_ORDER
    BY DEF FUNNEL_STEPS
  <2>2. STEP_ORDER \in Seq(Words) /\ "none" \in Words /\ "started" \in Words
    BY <1>1, SeqMonotonic DEF Words
  <2>3. before \in Seq(Words) /\ Len(before) = 2 /\ before[1] = "none" /\ before[2] = "started"
    BY <2>2, PairSeq
  <2> HIDE DEF before
  <2> HIDE DEF N
  <2> QED
    BY <1>1, <2>1, <2>2, <2>3, TwoBefore DEF N
<1>3. \A i \in 1 .. N : STEP_ORDER[i] \notin {"none", "started"}
  BY StepNumbers, StepAssumption DEF Steps
<1>4. \A i, j \in 1 .. N + 2 : FUNNEL_STEPS[i] = FUNNEL_STEPS[j] => i = j
  <2> SUFFICES ASSUME NEW i \in 1 .. N + 2, NEW j \in 1 .. N + 2, FUNNEL_STEPS[i] = FUNNEL_STEPS[j]
               PROVE  i = j
    OBVIOUS
  <2>1. \A k \in 1 .. N + 2 : k \notin {1, 2} => k - 2 \in 1 .. N /\ FUNNEL_STEPS[k] = STEP_ORDER[k - 2]
    <3> SUFFICES ASSUME NEW k \in 1 .. N + 2, k \notin {1, 2}
                 PROVE  k - 2 \in 1 .. N /\ FUNNEL_STEPS[k] = STEP_ORDER[k - 2]
      OBVIOUS
    <3>1. k - 2 \in 1 .. N /\ (k - 2) + 2 = k
      BY <1>1
    <3> QED
      BY <1>2, <3>1
  <2>2. CASE i \in {1, 2} \/ j \in {1, 2}
    BY <1>2, <1>3, <2>1, <2>2
  <2>3. CASE i \notin {1, 2} /\ j \notin {1, 2}
    <3>1. i - 2 = j - 2
      BY <1>1, <2>1, <2>3, StepAssumption
    <3> QED
      BY <1>1, <3>1
  <2> QED
    BY <2>2, <2>3
<1>5. \A i \in 1 .. N + 2 : stepIndex(FUNNEL_STEPS[i]) = i
  BY <1>2, <1>4 DEF stepIndex
<1>6. 1 \in 1 .. N + 2 /\ 2 \in 1 .. N + 2 /\ \A i \in 1 .. N : i + 2 \in 1 .. N + 2
  BY <1>1
<1>7. {"started", "email"} \subseteq Range(Tail(FUNNEL_STEPS))
  <2> DEFINE tail == Tail(FUNNEL_STEPS)
  <2>1. DOMAIN tail = 1 .. N + 1 /\ \A i \in 1 .. N + 1 : tail[i] = FUNNEL_STEPS[i + 1]
    <3>1. N + 1 \in Nat \ {0} /\ DOMAIN FUNNEL_STEPS = 1 .. (N + 1) + 1
      BY <1>1, <1>2
    <3> HIDE DEF N
    <3> QED
      BY <1>2, <3>1, TailOf
  <2> HIDE DEF tail
  <2>2. 1 \in 1 .. N + 1 /\ N + 1 \in 1 .. N + 1 /\ 1 + 1 = 2 /\ (N + 1) + 1 = N + 2 /\ N \in 1 .. N
    BY <1>1
  <2>3. STEP_ORDER[N] = "email"
    BY StepNumbers
  <2>4. tail[1] = "started" /\ tail[N + 1] = "email" /\ 1 \in DOMAIN tail /\ N + 1 \in DOMAIN tail
    BY <1>2, <2>1, <2>2, <2>3
  <2> HIDE DEF N
  <2> QED
    BY <2>4 DEF Range, tail
<1> QED
  BY <1>2, <1>5, <1>6, <1>7

\* Whoever tells has started, and the address comes after all.
LEMMA ToldNumbers ==
  /\ stepIndex("none") = 1 /\ stepIndex("started") = 2 /\ stepIndex("email") \in Nat
  /\ "email" \in Told /\ "none" \notin Told /\ "started" # "email"
  /\ \A s \in Told : /\ stepIndex(s) \in Nat /\ stepIndex(s) >= 2 /\ stepIndex(s) <= stepIndex("email")
                     /\ s # "email" => stepIndex(s) < stepIndex("email")
<1>1. stepIndex("email") = Len(STEP_ORDER) + 2
  BY StepNumbers, FunnelNumbers
<1>2. ASSUME NEW i \in 1 .. Len(STEP_ORDER), STEP_ORDER[i] # "email"
      PROVE  i < Len(STEP_ORDER)
  BY <1>2, StepNumbers
<1>3. ASSUME NEW s \in Steps
      PROVE  /\ stepIndex(s) \in Nat /\ stepIndex(s) >= 2 /\ stepIndex(s) <= stepIndex("email")
             /\ s # "email" => stepIndex(s) < stepIndex("email")
  <2>1. PICK i \in 1 .. Len(STEP_ORDER) : s = STEP_ORDER[i]
    BY StepNumbers
  <2> QED
    BY <1>1, <1>2, <2>1, StepNumbers, FunnelNumbers
<1>4. "none" \notin Told
  BY StepAssumption DEF Told, Steps
<1> QED
  BY <1>1, <1>3, <1>4, StepNumbers, FunnelNumbers DEF Told

-----------------------------------------------------------------------------
\* Every answer is one that was offered, or accepted; every step has one; and the postcode is
\* one of the country.
AsOffered(answers) == \A s \in Steps \cap DOMAIN answers : answers[s] \in Answers[s]
AllAnswered(answers) == AsOffered(answers) /\ Steps \subseteq DOMAIN answers
PlaceAgrees(answers) == answers["zip"] \in Postal[answers["country"]]

\* The fields of the overlay.
IsOverlay(v) == v = [open |-> v.open, step |-> v.step, answers |-> v.answers, phase |-> v.phase]

\* What is asked now comes after answers to all before.
OverlaySound(v) ==
  /\ IsOverlay(v) /\ v.step \in 1 .. Len(STEP_ORDER) /\ AsOffered(v.answers)
  /\ v.phase = "awaiting-state" => v.step = 1 /\ "country" \in DOMAIN v.answers
  /\ IF v.phase = "success" THEN AllAnswered(v.answers) /\ PlaceAgrees(v.answers)
     ELSE \A i \in 1 .. v.step - 1 : /\ STEP_ORDER[i] \in DOMAIN v.answers
                                     /\ STEP_ORDER[i] = "zip" => PlaceAgrees(v.answers)

\* A row is completed with the last step, and then has an answer to each.
RowSound(r) ==
  /\ r = [furthest |-> r.furthest, completed |-> r.completed, market |-> r.market, answers |-> r.answers]
  /\ r.completed \in BOOLEAN
  /\ r.completed <=> r.furthest = "email"
  /\ r = NoRow \/ r.furthest \in Told
  /\ AsOffered(r.answers)
  /\ r.completed => AllAnswered(r.answers)

PostSound(p) ==
  /\ p = [step |-> p.step, answers |-> p.answers, completed |-> p.completed, read |-> p.read, row |-> p.row]
  /\ p.step \in Told /\ p.completed \in BOOLEAN
  /\ p.completed <=> p.step = "email"
  /\ AsOffered(p.answers)
  /\ p.completed => AllAnswered(p.answers)
  /\ RowSound(p.row)

\* With the file store what was thanked for is in the row, or on its way.
ThankedKept ==
  backend = "file" /\ ~lost /\ (\E t \in Tab : overlay[t].phase = "success") =>
    row.completed \/ \E p \in posts : p.completed

IsSite(s) == s = [fired |-> s.fired, sent |-> s.sent, views |-> s.views, status |-> s.status,
                  tries |-> s.tries, pending |-> s.pending, messages |-> s.messages]

SiteSound ==
  /\ IsSite(site)
  /\ IsFiniteSet(site.fired) /\ site.sent \in Nat /\ site.views \in Nat /\ site.messages \in Nat
  /\ site.views + site.sent <= Cardinality(site.fired)
  /\ site.status = "sent" \/ (site.status = "sending" /\ ~site.pending) => site.messages > 0

SignupInv ==
  /\ overlay = [t \in Tab |-> overlay[t]] /\ \A t \in Tab : OverlaySound(overlay[t])
  /\ \A p \in posts : PostSound(p)
  /\ RowSound(row) /\ ThankedKept /\ SiteSound

\* An answer that was offered keeps the answers such.
LEMMA AnswerGiven ==
  ASSUME NEW answers, AsOffered(answers), NEW key, NEW value, key \in Steps => value \in Answers[key]
  PROVE  /\ AsOffered(Put(answers, key, value))
         /\ DOMAIN Put(answers, key, value) = DOMAIN answers \cup {key}
         /\ Put(answers, key, value)[key] = value
         /\ \A k \in DOMAIN answers : k # key => Put(answers, key, value)[k] = answers[k]
  BY DEF AsOffered, Put

\* One more answer of a step that is asked now.
LEMMA StepAnswered ==
  ASSUME NEW v, OverlaySound(v), v.phase = "form", NEW value, value \in Answers[STEP_ORDER[v.step]],
         NEW answers, answers = Put(v.answers, STEP_ORDER[v.step], value),
         STEP_ORDER[v.step] = "zip" => PlaceAgrees(answers)
  PROVE  /\ AsOffered(answers)
         /\ \A i \in 1 .. v.step : /\ STEP_ORDER[i] \in DOMAIN answers
                                   /\ STEP_ORDER[i] = "zip" => PlaceAgrees(answers)
<1> DEFINE key == STEP_ORDER[v.step]
<1>0. AsOffered(v.answers) /\ answers = Put(v.answers, key, value) /\ (key \in Steps => value \in Answers[key])
  BY DEF OverlaySound
<1>k. key = STEP_ORDER[v.step]
  OBVIOUS
<1> HIDE DEF key
<1>1. /\ AsOffered(answers) /\ DOMAIN answers = DOMAIN v.answers \cup {key}
      /\ \A k \in DOMAIN v.answers : k # key => answers[k] = v.answers[k]
  BY <1>0 DEF AsOffered, Put
<1>2. v.step \in 1 .. Len(STEP_ORDER) /\ Len(STEP_ORDER) \in Nat
  BY StepNumbers DEF OverlaySound
<1>3. ASSUME NEW i \in 1 .. v.step, i # v.step
      PROVE  /\ STEP_ORDER[i] \in DOMAIN answers
             /\ STEP_ORDER[i] = "zip" => PlaceAgrees(answers)
  <2>1. /\ STEP_ORDER[i] \in DOMAIN v.answers
        /\ STEP_ORDER[i] = "zip" => PlaceAgrees(v.answers)
    BY <1>2, <1>3 DEF OverlaySound
  <2>2. ASSUME STEP_ORDER[i] = "zip" PROVE PlaceAgrees(answers)
    <3>1. i # 1
      BY <2>2, StepAssumption
    <3>2. STEP_ORDER[1] \in DOMAIN v.answers /\ STEP_ORDER[1] = "country"
      BY <1>2, <1>3, <3>1, StepAssumption DEF OverlaySound
    <3>3. STEP_ORDER[v.step] # "zip" /\ STEP_ORDER[v.step] # "country"
      BY <1>2, <1>3, <2>2, <3>1, <3>2, StepAssumption, StepNumbers
    <3>4. answers["zip"] = v.answers["zip"] /\ answers["country"] = v.answers["country"]
      BY <1>1, <1>k, <2>1, <2>2, <3>2, <3>3
    <3> QED
      BY <2>1, <2>2, <3>4 DEF PlaceAgrees
  <2> QED
    BY <1>1, <2>1, <2>2
<1> QED
  BY <1>1, <1>k, <1>2, <1>3

\* A handler that posts keeps everything sound, if what it shows and posts is.
LEMMA Tells ==
  ASSUME SignupInv, NEW t \in Tab, NEW next, OverlaySound(next), Moves(t, next),
         NEW step \in Told, NEW answers, AsOffered(answers), NEW final \in BOOLEAN,
         final <=> step = "email", final => AllAnswered(answers),
         postProgress(step, answers, final),
         next.phase = "success" => final
  PROVE  SignupInv'
<1> DEFINE p == [step |-> step, answers |-> answers, completed |-> final, read |-> FALSE, row |-> NoRow]
<1>1. posts' = posts \cup {p}
  BY DEF postProgress
<1>2. RowSound(NoRow)
  BY ToldNumbers DEF RowSound, NoRow, EmptyMap, AsOffered
<1>3. PostSound(p)
  BY <1>2 DEF PostSound
<1>4. /\ p.completed = final
      /\ overlay' = [overlay EXCEPT ![t] = next] /\ UNCHANGED <<backend, lost, row, site>>
  BY DEF Moves
<1> HIDE DEF p
<1>5. /\ overlay' = [x \in Tab |-> overlay'[x]] /\ \A x \in Tab : OverlaySound(overlay'[x])
      /\ \A x \in Tab : overlay'[x] = IF x = t THEN next ELSE overlay[x]
  BY <1>4 DEF SignupInv
<1>6. ThankedKept'
  BY <1>1, <1>4, <1>5 DEF SignupInv, ThankedKept
<1> QED
  BY <1>1, <1>3, <1>4, <1>5, <1>6 DEF SignupInv, SiteSound

\* So does one that does not.
LEMMA Turns ==
  ASSUME SignupInv, NEW t \in Tab, NEW next, OverlaySound(next), Moves(t, next), UNCHANGED posts,
         next.phase = "success" => overlay[t].phase = "success"
  PROVE  SignupInv'
<1>1. overlay' = [overlay EXCEPT ![t] = next] /\ UNCHANGED <<backend, lost, row, site>>
  BY DEF Moves
<1>2. /\ overlay' = [x \in Tab |-> overlay'[x]] /\ \A x \in Tab : OverlaySound(overlay'[x])
      /\ \A x \in Tab : overlay'[x] = IF x = t THEN next ELSE overlay[x]
  BY <1>1 DEF SignupInv
<1>3. ThankedKept'
  BY <1>1, <1>2 DEF SignupInv, ThankedKept
<1> QED
  BY <1>1, <1>2, <1>3 DEF SignupInv, SiteSound

-----------------------------------------------------------------------------
\* The place of the last step, and of the step after one that is not the last.
LEMMA NotLast ==
  ASSUME NEW i \in 1 .. Len(STEP_ORDER), STEP_ORDER[i] # "email"
  PROVE  i + 1 \in 1 .. Len(STEP_ORDER)
  BY StepNumbers

\* Nothing is asked yet.
LEMMA ClosedSound ==
  ASSUME NEW b, NEW v, v = [Closed EXCEPT !.open = b]
  PROVE  /\ OverlaySound(Closed) /\ Closed.phase = "form"
         /\ OverlaySound(v) /\ v.phase = "form"
<1>1. IsOverlay(Closed) /\ Closed.answers = EmptyMap /\ Closed.step = 1 /\ Closed.phase = "form"
  BY DEF Closed, IsOverlay
<1>2. IsOverlay(v) /\ v.answers = EmptyMap /\ v.step = 1 /\ v.phase = "form"
  BY <1>1 DEF IsOverlay
<1>3. AsOffered(EmptyMap)
  BY DEF AsOffered, EmptyMap
<1> QED
  BY <1>1, <1>2, <1>3, StepNumbers DEF OverlaySound

LEMMA OpenKeeps ==
  ASSUME SignupInv, NEW t \in Tab, Open(t)
  PROVE  SignupInv'
<1> DEFINE next == [Closed EXCEPT !.open = TRUE]
<1>1. Moves(t, next) /\ postProgress("started", EmptyMap, FALSE)
  BY DEF Open
<1> HIDE DEF next
<1>2. OverlaySound(next) /\ next.phase = "form"
  BY ClosedSound DEF next
<1>3. "started" \in Told /\ "started" # "email" /\ AsOffered(EmptyMap)
  BY ToldNumbers DEF Told, AsOffered, EmptyMap
<1> QED
  BY <1>1, <1>2, <1>3, Tells

\* An answer to the step that is asked leads to the next one.
LEMMA Advanced ==
  ASSUME NEW v, OverlaySound(v), v.phase = "form", NEW answers, AsOffered(answers),
         \A i \in 1 .. v.step : /\ STEP_ORDER[i] \in DOMAIN answers
                                /\ STEP_ORDER[i] = "zip" => PlaceAgrees(answers),
         STEP_ORDER[v.step] # "email", NEW w, w = [v EXCEPT !.answers = answers, !.step = @ + 1]
  PROVE  OverlaySound(w) /\ w.phase = "form"
<1>1. v.step \in 1 .. Len(STEP_ORDER) /\ IsOverlay(v)
  BY DEF OverlaySound
<1>2. IsOverlay(w) /\ w.step = v.step + 1 /\ w.answers = answers /\ w.phase = "form"
  BY <1>1 DEF IsOverlay
<1>3. w.step \in 1 .. Len(STEP_ORDER) /\ w.step - 1 = v.step
  BY <1>1, <1>2, NotLast, StepNumbers
<1> QED
  BY <1>2, <1>3 DEF OverlaySound

LEMMA CountryKeeps ==
  ASSUME SignupInv, NEW t \in Tab, NEW value \in Answers["country"], handleCountryChoice(t, value)
  PROVE  SignupInv'
<1> DEFINE v == overlay[t]
           answers == nextAnswers(t, "country", value)
           asked == [v EXCEPT !.answers = answers]
           next == IF States[value] # {} THEN [asked EXCEPT !.phase = "awaiting-state"]
                                         ELSE [asked EXCEPT !.step = @ + 1]
<1>1. /\ OverlaySound(v) /\ v.phase = "form" /\ STEP_ORDER[v.step] = "country"
      /\ Moves(t, next) /\ postProgress("country", answers, FALSE)
  BY DEF handleCountryChoice, OnStep, stepKey, SignupInv
<1>2. /\ answers = Put(v.answers, STEP_ORDER[v.step], value) /\ STEP_ORDER[v.step] # "zip"
      /\ STEP_ORDER[v.step] # "email" /\ v.step \in 1 .. Len(STEP_ORDER) /\ IsOverlay(v)
  BY <1>1 DEF nextAnswers, OverlaySound
<1> HIDE DEF answers, v
<1>3. /\ AsOffered(answers)
      /\ \A i \in 1 .. v.step : /\ STEP_ORDER[i] \in DOMAIN answers
                                /\ STEP_ORDER[i] = "zip" => PlaceAgrees(answers)
  BY <1>1, <1>2, StepAnswered
<1>4. v.step = 1 /\ "country" \in Told /\ "country" # "email"
  BY <1>1, <1>2, StepNumbers, StepAssumption DEF Told
<1>5. OverlaySound(next) /\ next.phase # "success"
  <2>1. CASE States[value] # {}
    <3> DEFINE w == [v EXCEPT !.answers = answers, !.phase = "awaiting-state"]
    <3>1. next = w /\ w = [v EXCEPT !.answers = answers, !.phase = "awaiting-state"]
      BY <1>2, <2>1 DEF IsOverlay
    <3> HIDE DEF w, next
    <3>2. IsOverlay(w) /\ w.answers = answers /\ w.step = v.step /\ w.phase = "awaiting-state"
      BY <1>2, <3>1 DEF IsOverlay
    <3> QED
      BY <1>1, <1>3, <1>4, <3>1, <3>2, StepNumbers DEF OverlaySound
  <2>2. CASE States[value] = {}
    <3> DEFINE w == [v EXCEPT !.answers = answers, !.step = @ + 1]
    <3>1. next = w
      BY <1>2, <2>2 DEF IsOverlay
    <3> HIDE DEF next
    <3>2. OverlaySound(w) /\ w.phase = "form"
      BY <1>1, <1>2, <1>3, Advanced
    <3> QED
      BY <3>1, <3>2
  <2> QED
    BY <2>1, <2>2
<1> HIDE DEF next
<1> QED
  BY <1>1, <1>3, <1>4, <1>5, Tells

LEMMA StateKeeps ==
  ASSUME SignupInv, NEW t \in Tab, NEW value, handleStateChoice(t, value)
  PROVE  SignupInv'
<1> DEFINE v == overlay[t]
           answers == nextAnswers(t, "state", value)
           next == [v EXCEPT !.answers = answers, !.phase = "form", !.step = @ + 1]
<1>1. /\ OverlaySound(v) /\ v.phase = "awaiting-state" /\ v.step = 1
      /\ Moves(t, next) /\ postProgress("country", answers, FALSE)
  BY DEF handleStateChoice, OnStep, stepKey, SignupInv, OverlaySound
<1>2. answers = Put(v.answers, "state", value) /\ "state" \notin Steps
  BY StepAssumption DEF nextAnswers, Steps
<1>a. next = [v EXCEPT !.answers = answers, !.phase = "form", !.step = @ + 1]
  OBVIOUS
<1> HIDE DEF answers, v
<1>3. AsOffered(answers) /\ DOMAIN answers = DOMAIN v.answers \cup {"state"}
  <2>1. AsOffered(v.answers)
    BY <1>1 DEF OverlaySound
  <2> QED
    BY <1>2, <2>1, AnswerGiven
<1> HIDE DEF next
<1>4. IsOverlay(next) /\ next.answers = answers /\ next.step = v.step + 1 /\ next.phase = "form"
  <2>1. IsOverlay(v)
    BY <1>1 DEF OverlaySound
  <2> QED
    BY <1>a, <2>1 DEF IsOverlay
<1>5. 2 \in 1 .. Len(STEP_ORDER) /\ STEP_ORDER[1] = "country" /\ "country" \in DOMAIN answers
  BY <1>1, <1>3, NotLast, StepNumbers, StepAssumption DEF OverlaySound
<1>6. OverlaySound(next) /\ next.phase # "success" /\ "country" \in Told /\ "country" # "email"
  BY <1>1, <1>3, <1>4, <1>5, StepNumbers DEF OverlaySound, Told
<1> QED
  BY <1>1, <1>3, <1>6, Tells

LEMMA ChoiceKeeps ==
  ASSUME SignupInv, NEW t \in Tab, OnStep(t), NEW value \in Answers[stepKey(t)], handleChoice(t, value)
  PROVE  SignupInv'
<1> DEFINE v == overlay[t]
           key == STEP_ORDER[v.step]
           answers == nextAnswers(t, key, value)
           next == [v EXCEPT !.answers = answers, !.step = @ + 1]
<1>1. /\ OverlaySound(v) /\ v.phase = "form" /\ key \notin {"country", "zip", "email"}
      /\ Moves(t, next) /\ postProgress(key, answers, FALSE) /\ value \in Answers[key]
  BY DEF handleChoice, OnStep, stepKey, SignupInv
<1>2. answers = Put(v.answers, key, value) /\ v.step \in 1 .. Len(STEP_ORDER)
  BY <1>1 DEF nextAnswers, OverlaySound
<1> HIDE DEF answers, v
<1>3. /\ AsOffered(answers)
      /\ \A i \in 1 .. v.step : /\ STEP_ORDER[i] \in DOMAIN answers
                                /\ STEP_ORDER[i] = "zip" => PlaceAgrees(answers)
  BY <1>1, <1>2, StepAnswered
<1>4. OverlaySound(next) /\ next.phase = "form" /\ key \in Told /\ key # "email"
  <2>1. key \in Told
    BY <1>2, StepNumbers DEF Told
  <2> HIDE DEF next
  <2>2. OverlaySound(next) /\ next.phase = "form"
    BY <1>1, <1>2, <1>3, Advanced DEF next
  <2> QED
    BY <1>1, <2>1, <2>2
<1> HIDE DEF next, key
<1> QED
  BY <1>1, <1>3, <1>4, Tells

LEMMA TextKeeps ==
  ASSUME SignupInv, NEW t \in Tab, OnStep(t), NEW value \in Answers[stepKey(t)], handleTextSubmit(t, value)
  PROVE  SignupInv'
<1> DEFINE v == overlay[t]
           key == STEP_ORDER[v.step]
           answers == nextAnswers(t, key, value)
           last == v.step = Len(STEP_ORDER)
           typed == [v EXCEPT !.answers = answers]
           next == IF last THEN [typed EXCEPT !.phase = "success"] ELSE [typed EXCEPT !.step = @ + 1]
<1>1. /\ OverlaySound(v) /\ v.phase = "form" /\ key \in {"zip", "email"}
      /\ Moves(t, next) /\ postProgress(key, answers, last) /\ value \in Answers[key]
      /\ key = "zip" => value \in Postal[v.answers["country"]]
  BY DEF handleTextSubmit, validateText, OnStep, stepKey, SignupInv
<1>2. /\ answers = Put(v.answers, key, value) /\ v.step \in 1 .. Len(STEP_ORDER)
      /\ IsOverlay(v)
  BY <1>1 DEF nextAnswers, OverlaySound
<1> HIDE DEF answers, v
<1>3. key = "zip" => PlaceAgrees(answers)
  <2> SUFFICES ASSUME key = "zip" PROVE PlaceAgrees(answers)
    OBVIOUS
  <2>1. v.step # 1 /\ 1 \in 1 .. v.step - 1
    BY <1>2, StepAssumption
  <2>2. "country" \in DOMAIN v.answers
    BY <1>1, <2>1, StepAssumption DEF OverlaySound
  <2>3. answers["zip"] = value /\ answers["country"] = v.answers["country"]
    BY <1>2, <2>2 DEF Put
  <2> QED
    BY <1>1, <2>3 DEF PlaceAgrees
<1>4. /\ AsOffered(answers)
      /\ \A i \in 1 .. v.step : /\ STEP_ORDER[i] \in DOMAIN answers
                                /\ STEP_ORDER[i] = "zip" => PlaceAgrees(answers)
  BY <1>1, <1>2, <1>3, StepAnswered
<1>5. last <=> key = "email"
  BY <1>2, StepNumbers, StepAssumption
<1>6. CASE last
  <2> DEFINE w == [v EXCEPT !.answers = answers, !.phase = "success"]
  <2>1. next = w /\ w = [v EXCEPT !.answers = answers, !.phase = "success"]
    BY <1>2, <1>6 DEF IsOverlay
  <2>2. AllAnswered(answers) /\ PlaceAgrees(answers)
    <3>1. Steps \subseteq DOMAIN answers
      BY <1>4, <1>6, StepNumbers
    <3>2. PICK i \in 1 .. v.step : STEP_ORDER[i] = "zip"
      BY <1>6, StepNumbers, StepAssumption DEF Steps
    <3> QED
      BY <1>4, <3>1, <3>2 DEF AllAnswered
  <2> HIDE DEF next, w
  <2>3. IsOverlay(w) /\ w.answers = answers /\ w.step = v.step /\ w.phase = "success"
    BY <1>2, <2>1 DEF IsOverlay
  <2>4. OverlaySound(next)
    BY <1>2, <1>4, <2>1, <2>2, <2>3 DEF OverlaySound
  <2>5. last /\ last \in BOOLEAN /\ key = "email" /\ key \in Told
    BY <1>5, <1>6, ToldNumbers
  <2> HIDE DEF last, key
  <2> QED
    BY <1>1, <1>4, <2>2, <2>4, <2>5, Tells
<1>7. CASE ~last
  <2> DEFINE w == [v EXCEPT !.answers = answers, !.step = @ + 1]
  <2>1. next = w
    BY <1>2, <1>7 DEF IsOverlay
  <2> HIDE DEF next
  <2>2. key # "email" /\ key \in Told
    BY <1>2, <1>5, <1>7, StepNumbers DEF Told
  <2>3. OverlaySound(w) /\ w.phase = "form"
    BY <1>1, <1>2, <1>4, <2>2, Advanced
  <2>4. OverlaySound(next) /\ next.phase = "form" /\ ~last /\ last \in BOOLEAN
    BY <1>7, <2>1, <2>3
  <2> HIDE DEF key, last
  <2> QED
    BY <1>1, <1>4, <2>2, <2>4, Tells
<1> QED
  BY <1>6, <1>7

LEMMA BackKeeps ==
  ASSUME SignupInv, NEW t \in Tab, handleBack(t) \/ Close(t)
  PROVE  SignupInv'
<1> DEFINE v == overlay[t]
<1>1. OverlaySound(v) /\ UNCHANGED posts /\ IsOverlay(v) /\ v.step \in 1 .. Len(STEP_ORDER)
  BY DEF SignupInv, OverlaySound, handleBack, Close
<1>2. OverlaySound(Closed) /\ Closed.phase = "form"
  BY ClosedSound
<1>3. CASE Moves(t, Closed)
  BY <1>1, <1>2, <1>3, Turns
<1>4. CASE v.phase = "awaiting-state" /\ Moves(t, [v EXCEPT !.phase = "form"])
  <2> DEFINE w == [v EXCEPT !.phase = "form"]
  <2>0. w = [v EXCEPT !.phase = "form"]
    OBVIOUS
  <2> HIDE DEF w, v
  <2>1. IsOverlay(w) /\ w.answers = v.answers /\ w.step = v.step /\ w.phase = "form"
    BY <1>1, <2>0 DEF IsOverlay
  <2>2. OverlaySound(w)
    BY <1>1, <1>4, <2>1 DEF OverlaySound
  <2> QED
    BY <1>1, <1>4, <2>1, <2>2, Turns DEF w, v
<1>5. CASE v.phase # "awaiting-state" /\ v.step # 1 /\ Moves(t, [v EXCEPT !.step = @ - 1])
  <2> DEFINE w == [v EXCEPT !.step = @ - 1]
  <2>0. w = [v EXCEPT !.step = @ - 1]
    OBVIOUS
  <2> HIDE DEF w, v
  <2>1. IsOverlay(w) /\ w.answers = v.answers /\ w.step = v.step - 1 /\ w.phase = v.phase
    BY <1>1, <2>0 DEF IsOverlay
  <2>2. w.step \in 1 .. Len(STEP_ORDER) /\ \A i \in 1 .. w.step - 1 : i \in 1 .. v.step - 1
    BY <1>1, <1>5, <2>1, StepNumbers
  <2>3. OverlaySound(w)
    BY <1>1, <1>5, <2>1, <2>2 DEF OverlaySound
  <2> QED
    BY <1>1, <1>5, <2>1, <2>3, Turns DEF w, v
<1> QED
  BY <1>3, <1>4, <1>5 DEF handleBack, Close

-----------------------------------------------------------------------------
\* What is merged is as sound as its parts, and completed if one of them is.
LEMMA MergeSound ==
  ASSUME NEW r, RowSound(r), NEW p, PostSound(p)
  PROVE  RowSound(merge(r, p)) /\ (merge(r, p).completed <=> r.completed \/ p.completed)
<1> DEFINE m == merge(r, p)
<1>1. /\ m.completed = (r.completed \/ p.completed)
      /\ m.furthest = IF stepIndex(p.step) > stepIndex(r.furthest) THEN p.step ELSE r.furthest
      /\ m.answers = [k \in DOMAIN p.answers \cup DOMAIN r.answers |->
                       IF k \in DOMAIN p.answers THEN p.answers[k] ELSE r.answers[k]]
      /\ m = [furthest |-> m.furthest, completed |-> m.completed, market |-> m.market, answers |-> m.answers]
  BY DEF merge
<1> HIDE DEF m
<1>2. /\ DOMAIN m.answers = DOMAIN p.answers \cup DOMAIN r.answers
      /\ \A k \in DOMAIN p.answers : m.answers[k] = p.answers[k]
      /\ \A k \in DOMAIN r.answers \ DOMAIN p.answers : m.answers[k] = r.answers[k]
  BY <1>1
<1>3. /\ p.step \in Told /\ (p.completed <=> p.step = "email") /\ p.completed \in BOOLEAN
      /\ AsOffered(p.answers) /\ (p.completed => AllAnswered(p.answers))
  BY DEF PostSound
<1>4. /\ r.completed \in BOOLEAN /\ (r.completed <=> r.furthest = "email")
      /\ AsOffered(r.answers) /\ (r.completed => AllAnswered(r.answers))
      /\ r.furthest \in Told \cup {"none"}
  BY DEF RowSound, NoRow
<1>5. /\ stepIndex(p.step) \in Nat /\ stepIndex(r.furthest) \in Nat
      /\ stepIndex(p.step) > stepIndex("none") /\ stepIndex(p.step) <= stepIndex("email")
      /\ r.furthest # "email" => stepIndex(r.furthest) < stepIndex("email")
  BY <1>3, <1>4, ToldNumbers
<1>6. m.furthest \in Told /\ (m.completed <=> m.furthest = "email")
  BY <1>1, <1>3, <1>4, <1>5
<1>7. AsOffered(m.answers) /\ (m.completed => AllAnswered(m.answers))
  <2>1. AsOffered(m.answers)
    BY <1>2, <1>3, <1>4 DEF AsOffered
  <2>2. m.completed => Steps \subseteq DOMAIN m.answers
    BY <1>1, <1>2, <1>3, <1>4 DEF AllAnswered
  <2> QED
    BY <2>1, <2>2 DEF AllAnswered
<1> QED
  BY <1>1, <1>3, <1>4, <1>6, <1>7 DEF RowSound, m

LEMMA PostsKeep ==
  ASSUME SignupInv, NEW p \in posts, UpsertFile(p) \/ SelectRow(p) \/ UpsertRow(p) \/ Lose(p)
  PROVE  SignupInv'
<1>1. PostSound(p) /\ RowSound(row) /\ RowSound(p.row)
  BY DEF SignupInv, PostSound
<1>2. CASE UpsertFile(p)
  <2>1. /\ RowSound(row') /\ (row'.completed <=> row.completed \/ p.completed)
        /\ posts' = posts \ {p} /\ UNCHANGED <<backend, overlay, posted, lost, site>>
    BY <1>1, <1>2, MergeSound DEF UpsertFile
  <2> QED
    BY <2>1 DEF SignupInv, ThankedKept, SiteSound
<1>3. CASE SelectRow(p)
  <2> DEFINE q == [p EXCEPT !.read = TRUE, !.row = row]
  <2>1. PostSound(q)
    <3>1. q = [p EXCEPT !.read = TRUE, !.row = row]
      OBVIOUS
    <3> HIDE DEF q
    <3>2. /\ q = [step |-> q.step, answers |-> q.answers, completed |-> q.completed, read |-> q.read, row |-> q.row]
          /\ q.step = p.step /\ q.answers = p.answers /\ q.completed = p.completed /\ q.row = row
      BY <1>1, <3>1 DEF PostSound
    <3> QED
      BY <1>1, <3>2 DEF PostSound
  <2>2. backend = "supabase" /\ posts' = (posts \ {p}) \cup {q} /\ UNCHANGED <<backend, overlay, posted, lost, row, site>>
    BY <1>3 DEF SelectRow
  <2> HIDE DEF q
  <2> QED
    BY <2>1, <2>2 DEF SignupInv, ThankedKept, SiteSound
<1>4. CASE UpsertRow(p)
  <2>1. /\ RowSound(row') /\ backend = "supabase"
        /\ posts' = posts \ {p} /\ UNCHANGED <<backend, overlay, posted, lost, site>>
    BY <1>1, <1>4, MergeSound DEF UpsertRow
  <2> QED
    BY <2>1 DEF SignupInv, ThankedKept, SiteSound
<1>5. CASE Lose(p)
  BY <1>5 DEF Lose, SignupInv, ThankedKept, SiteSound
<1> QED
  BY <1>2, <1>3, <1>4, <1>5

LEMMA SiteKeeps ==
  ASSUME SignupInv, SiteNext
  PROVE  SignupInv'
<1>1. UNCHANGED overlayVars
  BY DEF SiteNext, PageView, addPageView, LoseView, SubmitContact, AddContact, ContactAnswer
<1>2. IsSite(site) /\ SiteSound /\ Cardinality(site.fired) \in Nat
  BY FS_CardinalityType DEF SignupInv, SiteSound
<1>3. ASSUME \E m \in PageMarkets : PageView(m) PROVE SiteSound'
  <2>1. PICK m : m \notin site.fired /\ site' = [site EXCEPT !.fired = @ \cup {m}, !.sent = @ + 1]
    BY <1>3 DEF PageView
  <2>2. /\ IsFiniteSet(site.fired \cup {m})
        /\ Cardinality(site.fired \cup {m}) = Cardinality(site.fired) + 1
    BY <2>1, FS_AddElement DEF SignupInv, SiteSound
  <2>3. /\ IsSite(site') /\ site'.fired = site.fired \cup {m} /\ site'.sent = site.sent + 1
        /\ site'.views = site.views /\ site'.status = site.status
        /\ site'.pending = site.pending /\ site'.messages = site.messages
    BY <1>2, <2>1 DEF IsSite
  <2>4. IsFiniteSet(site'.fired) /\ Cardinality(site'.fired) = Cardinality(site.fired) + 1
    BY <2>2, <2>3
  <2> QED
    BY <1>2, <2>3, <2>4 DEF SiteSound
<1>4. ASSUME IsSite(site'), site'.fired = site.fired, site'.sent = site.sent - 1, site.sent > 0,
             site'.views = site.views \/ site'.views = site.views + 1,
             site'.status = site.status, site'.pending = site.pending, site'.messages = site.messages
      PROVE  SiteSound'
  BY <1>2, <1>4 DEF SiteSound
<1>5. ASSUME addPageView PROVE SiteSound'
  <2>1. site.sent > 0 /\ site' = [site EXCEPT !.sent = @ - 1, !.views = @ + 1]
    BY <1>5 DEF addPageView
  <2>2. /\ IsSite(site') /\ site'.fired = site.fired /\ site'.sent = site.sent - 1
        /\ site'.views = site.views + 1 /\ site'.status = site.status
        /\ site'.pending = site.pending /\ site'.messages = site.messages
    BY <1>2, <2>1 DEF IsSite
  <2> QED
    BY <1>4, <2>1, <2>2
<1>6. ASSUME LoseView PROVE SiteSound'
  <2>1. site.sent > 0 /\ site' = [site EXCEPT !.sent = @ - 1]
    BY <1>6 DEF LoseView
  <2>2. /\ IsSite(site') /\ site'.fired = site.fired /\ site'.sent = site.sent - 1
        /\ site'.views = site.views /\ site'.status = site.status
        /\ site'.pending = site.pending /\ site'.messages = site.messages
    BY <1>2, <2>1 DEF IsSite
  <2> QED
    BY <1>4, <2>1, <2>2
<1>7. ASSUME IsSite(site'), site'.fired = site.fired, site'.sent = site.sent, site'.views = site.views,
             site'.messages = site.messages \/ site'.messages = site.messages + 1,
             site'.status = "sent" \/ (site'.status = "sending" /\ ~site'.pending) => site'.messages > 0
      PROVE  SiteSound'
  BY <1>2, <1>7 DEF SiteSound
<1>8. ASSUME SubmitContact PROVE SiteSound'
  <2>1. site' = [site EXCEPT !.status = "sending", !.tries = @ + 1, !.pending = TRUE]
    BY <1>8 DEF SubmitContact
  <2>2. /\ IsSite(site') /\ site'.fired = site.fired /\ site'.sent = site.sent /\ site'.views = site.views
        /\ site'.status = "sending" /\ site'.pending = TRUE /\ site'.messages = site.messages
    BY <1>2, <2>1 DEF IsSite
  <2> QED
    BY <1>7, <2>2
<1>9. ASSUME AddContact PROVE SiteSound'
  <2>1. site' = [site EXCEPT !.pending = FALSE, !.messages = @ + 1]
    BY <1>9 DEF AddContact
  <2>2. /\ IsSite(site') /\ site'.fired = site.fired /\ site'.sent = site.sent /\ site'.views = site.views
        /\ site'.status = site.status /\ site'.pending = FALSE /\ site'.messages = site.messages + 1
    BY <1>2, <2>1 DEF IsSite
  <2>3. site'.messages > 0
    BY <1>2, <2>2 DEF SiteSound
  <2> QED
    BY <1>7, <2>2, <2>3
<1>10. ASSUME ContactAnswer PROVE SiteSound'
  <2>1. CASE ~site.pending /\ site' = [site EXCEPT !.status = "sent"]
    <3>1. site' = [site EXCEPT !.status = "sent"]
      BY <2>1
    <3>2. /\ IsSite(site') /\ site'.fired = site.fired /\ site'.sent = site.sent /\ site'.views = site.views
          /\ site'.status = "sent" /\ site'.pending = site.pending /\ site'.messages = site.messages
      BY <1>2, <3>1 DEF IsSite
    <3>3. site'.messages > 0
      BY <1>2, <1>10, <2>1, <3>2 DEF SiteSound, ContactAnswer
    <3> QED
      BY <1>7, <3>2, <3>3
  <2>2. CASE site' = [site EXCEPT !.status = "error", !.pending = FALSE]
    <3>1. site' = [site EXCEPT !.status = "error", !.pending = FALSE]
      BY <2>2
    <3>2. /\ IsSite(site') /\ site'.fired = site.fired /\ site'.sent = site.sent /\ site'.views = site.views
          /\ site'.status = "error" /\ site'.pending = FALSE /\ site'.messages = site.messages
      BY <1>2, <3>1 DEF IsSite
    <3> QED
      BY <1>7, <3>2
  <2> QED
    BY <1>10, <2>1, <2>2 DEF ContactAnswer
<1>11. SiteSound'
  BY <1>3, <1>5, <1>6, <1>8, <1>9, <1>10 DEF SiteNext
<1> QED
  BY <1>1, <1>11 DEF overlayVars, SignupInv, ThankedKept

\* What a sound state shows.
LEMMA RecordedWhenSound == SignupInv => CompletionRecorded
<1> SUFFICES ASSUME SignupInv PROVE CompletionRecorded
  OBVIOUS
<1>1. backend = "file" => AdvancesKept
  BY DEF SignupInv, ThankedKept, RowSound, AllAnswered, AsOffered, AdvancesKept, Steps
<1>2. \A t \in Tab : overlay[t].phase = "success" =>
        overlay[t].answers["zip"] \in Postal[overlay[t].answers["country"]]
  BY DEF SignupInv, OverlaySound, PlaceAgrees
<1>3. /\ row.completed \in BOOLEAN /\ (row.completed <=> row.furthest = "email")
      /\ row = NoRow \/ row.furthest \in Told
  BY DEF SignupInv, RowSound
<1>4. {"started", "email"} \subseteq Range(Tail(FUNNEL_STEPS))
  BY FunnelNumbers
<1>5. /\ computeFunnelCounts["email"] = IF stepIndex("email") <= stepIndex(reached) THEN 1 ELSE 0
      /\ computeFunnelCounts["started"] = IF stepIndex("started") <= stepIndex(reached) THEN 1 ELSE 0
  BY <1>4 DEF computeFunnelCounts
<1>6. computeFunnelCounts["email"] = totalCompleted
  <2>1. CASE row.completed
    BY <1>5, <2>1, ToldNumbers DEF reached, totalCompleted
  <2>2. CASE ~row.completed
    <3>1. reached \in (Told \cup {"none"}) \ {"email"}
      BY <1>3, <2>2 DEF reached, NoRow
    <3>2. stepIndex(reached) \in Nat /\ stepIndex(reached) < stepIndex("email") /\ stepIndex("email") \in Nat
      BY <3>1, ToldNumbers
    <3> QED
      BY <1>5, <2>2, <3>2 DEF totalCompleted
  <2> QED
    BY <2>1, <2>2
<1>7. computeFunnelCounts["started"] = totalStarts
  <2>1. CASE row = NoRow
    <3>1. stepIndex(reached) = 1
      BY <2>1, ToldNumbers DEF reached, NoRow
    <3> QED
      BY <1>5, <2>1, <3>1, ToldNumbers DEF totalStarts
  <2>2. CASE row # NoRow
    <3>1. reached \in Told
      BY <1>3, <2>2, ToldNumbers DEF reached
    <3> QED
      BY <1>5, <2>2, <3>1, ToldNumbers DEF totalStarts
  <2> QED
    BY <2>1, <2>2
<1> QED
  BY <1>1, <1>2, <1>6, <1>7 DEF CompletionRecorded, SignupInv, SiteSound

\* With the file store whatever was thanked for is recorded, from any number of tabs and in
\* any order of the posts; the dashboard's counts agree, and what is shown as sent is stored
\* (SignupOverlay.tsx, lib/store.ts), for any steps, answers and countries.
THEOREM CompletionsRecorded == SignupSpec => []CompletionRecorded
<1>1. SignupInit => SignupInv
  <2> SUFFICES ASSUME SignupInit PROVE SignupInv
    OBVIOUS
  <2>1. OverlaySound(Closed) /\ Closed.phase = "form"
    BY ClosedSound
  <2>2. RowSound(NoRow)
    BY ToldNumbers DEF RowSound, NoRow, EmptyMap, AsOffered
  <2>3. SiteSound
    BY FS_EmptySet DEF SignupInit, SiteSound, IsSite
  <2> QED
    BY <2>1, <2>2, <2>3 DEF SignupInit, SignupInv, ThankedKept
<1>2. SignupInv /\ [SignupNext]_signupVars => SignupInv'
  <2> SUFFICES ASSUME SignupInv, [SignupNext]_signupVars PROVE SignupInv'
    OBVIOUS
  <2>1. ASSUME NEW t \in Tab, Open(t) PROVE SignupInv'
    BY <2>1, OpenKeeps
  <2>2. ASSUME NEW t \in Tab, handleBack(t) \/ Close(t) PROVE SignupInv'
    BY <2>2, BackKeeps
  <2>3. ASSUME NEW t \in Tab, NEW value \in Answers["country"], handleCountryChoice(t, value) PROVE SignupInv'
    BY <2>3, CountryKeeps
  <2>4. ASSUME NEW t \in Tab, NEW value, handleStateChoice(t, value) PROVE SignupInv'
    BY <2>4, StateKeeps
  <2>5. ASSUME NEW t \in Tab, OnStep(t), NEW value \in Answers[stepKey(t)],
               handleChoice(t, value) \/ handleTextSubmit(t, value)
        PROVE  SignupInv'
    BY <2>5, ChoiceKeeps, TextKeeps
  <2>6. ASSUME NEW p \in posts, UpsertFile(p) \/ SelectRow(p) \/ UpsertRow(p) \/ Lose(p) PROVE SignupInv'
    BY <2>6, PostsKeep
  <2>7. CASE SiteNext
    BY <2>7, SiteKeeps
  <2>8. CASE UNCHANGED signupVars
    BY <2>8 DEF signupVars, overlayVars, SignupInv, ThankedKept, SiteSound
  <2> QED
    BY <2>1, <2>2, <2>3, <2>4, <2>5, <2>6, <2>7, <2>8 DEF SignupNext, OverlayNext
<1> QED
  BY <1>1, <1>2, RecordedWhenSound, PTL DEF SignupSpec

-----------------------------------------------------------------------------
(***************************************************************************)
(* The customer app: the demonstrator's books add up.                      *)
(***************************************************************************)
\* Cents are off by half a cent at most.
Halved(c, x) == c \in Int /\ 100 * c > x - 50 /\ 100 * c <= x + 50

LEMMA CentsNear ==
  ASSUME NEW x \in Int
  PROVE  Halved(Cents(x), x)
  BY DEF Cents, HalfUp, Halved

\* A median is no lower than what no price is below.
LEMMA MedianLies ==
  ASSUME NEW price, DOMAIN price # {}, IsFiniteSet(DOMAIN price), NEW low \in Int,
         \A s \in DOMAIN price : price[s] \in Nat /\ price[s] >= low
  PROVE  median(price) \in Nat /\ median(price) >= low
<1> DEFINE n == Cardinality(DOMAIN price)
           middle == n \div 2
<1>1. n \in Nat /\ n # 0
  BY FS_CardinalityType, FS_EmptySet
<1>2. ASSUME NEW k \in 1 .. n
      PROVE  Ranked(price, k) \in Nat /\ Ranked(price, k) >= low
  <2>1. \A s \in DOMAIN price : price[s] \in Int
    OBVIOUS
  <2>2. \E s \in DOMAIN price : Ranked(price, k) = price[s]
    BY ONLY <1>2, <2>1, IsFiniteSet(DOMAIN price), RankedListed
  <2> QED
    BY <2>2
<1>3. median(price) = IF n % 2 = 1 THEN Ranked(price, middle + 1)
                      ELSE HalfUp(Ranked(price, middle) + Ranked(price, middle + 1), 2)
  BY DEF median
<1> HIDE DEF n
<1>4. middle + 1 \in 1 .. n /\ (n % 2 # 1 => middle \in 1 .. n)
  BY <1>1
<1> HIDE DEF middle
<1>5. CASE n % 2 = 1
  BY <1>2, <1>3, <1>4, <1>5
<1>6. CASE n % 2 # 1
  <2> DEFINE a == Ranked(price, middle)
             b == Ranked(price, middle + 1)
  <2>1. a \in Nat /\ b \in Nat /\ a >= low /\ b >= low
    BY <1>2, <1>4, <1>6
  <2>2. median(price) = (2 * (a + b) + 2) \div 4
    BY <1>3, <1>6 DEF HalfUp
  <2> HIDE DEF a, b
  <2> QED
    BY <2>1, <2>2
<1> QED
  BY <1>5, <1>6

\* What a fill takes, returns and owes, by how it ends.
Balanced(fill, held) ==
  /\ {fill.fromProtected, fill.fromWallet, fill.covered, fill.returned, fill.stationTotal} \subseteq Int
  /\ fill.heldReleased = held
  /\ Near(100 * (fill.returned + fill.fromProtected), held, 100)
  /\ Near(fill.stationTotal, fill.fromProtected + fill.fromWallet + fill.covered, 1)

LEMMA FillAddsUp ==
  ASSUME NEW v \in Nat, NEW p \in Nat, NEW s \in Nat, NEW b \in Nat
  PROVE  Balanced(settleFill(v, p, s, b), v * s)
<1> DEFINE vp == v * p
           vs == v * s
           vb == v * b
           fill == settleFill(v, p, s, b)
<1>1. vp \in Nat /\ vs \in Nat /\ vb \in Nat
  OBVIOUS
<1>2. /\ (s - p) * v = vs - vp /\ (p - s) * v = vp - vs
      /\ (p - b) * v = vp - vb /\ (b - s) * v = vb - vs
  OBVIOUS
<1>3. ASSUME NEW c1, NEW c2, NEW c3, NEW c4,
             Halved(c1, vs), Halved(c2, vp), Halved(c3, vs - vp), Halved(c4, vp - vs)
      PROVE  /\ {c1, c2, c3, c4} \subseteq Int
             /\ Near(100 * (c3 + c2), vs, 100) /\ Near(100 * (0 + c1), vs, 100)
             /\ Near(c2, c2 + 0 + 0, 1) /\ Near(c1, c1 + 0 + 0, 1) /\ Near(c2, c1 + 0 + c4, 1)
  <2> HIDE DEF vp, vs
  <2> QED
    BY <1>1, <1>3 DEF Near, Halved
<1>4. ASSUME NEW c1, NEW c2, NEW c5, NEW c6,
             Halved(c1, vs), Halved(c2, vp), Halved(c5, vp - vb), Halved(c6, vb - vs)
      PROVE  {c5, c6} \subseteq Int /\ Near(c2, c1 + c5 + c6, 1)
  <2> HIDE DEF vp, vs, vb
  <2> QED
    BY <1>1, <1>4 DEF Near, Halved
<1>5. /\ Halved(Cents(vs), vs) /\ Halved(Cents(vp), vp) /\ Halved(Cents(vs - vp), vs - vp)
      /\ Halved(Cents(vp - vs), vp - vs) /\ Halved(Cents(vp - vb), vp - vb) /\ Halved(Cents(vb - vs), vb - vs)
  <2> HIDE DEF vp, vs, vb
  <2>1. {vs, vp, vs - vp, vp - vs, vp - vb, vb - vs} \subseteq Int
    BY <1>1
  <2> QED
    BY <2>1, CentsNear
<1>6. /\ {0, Cents(vs), Cents(vp), Cents(vs - vp), Cents(vp - vs), Cents(vp - vb), Cents(vb - vs)} \subseteq Int
      /\ Near(100 * (Cents(vs - vp) + Cents(vp)), vs, 100) /\ Near(100 * (0 + Cents(vs)), vs, 100)
      /\ Near(Cents(vp), Cents(vp) + 0 + 0, 1) /\ Near(Cents(vs), Cents(vs) + 0 + 0, 1)
      /\ Near(Cents(vp), Cents(vs) + 0 + Cents(vp - vs), 1)
      /\ Near(Cents(vp), Cents(vs) + Cents(vp - vb) + Cents(vb - vs), 1)
  <2> DEFINE c1 == Cents(vs)
             c2 == Cents(vp)
             c3 == Cents(vs - vp)
             c4 == Cents(vp - vs)
             c5 == Cents(vp - vb)
             c6 == Cents(vb - vs)
  <2>1. /\ Halved(c1, vs) /\ Halved(c2, vp) /\ Halved(c3, vs - vp)
        /\ Halved(c4, vp - vs) /\ Halved(c5, vp - vb) /\ Halved(c6, vb - vs)
    BY <1>5
  <2> HIDE DEF c1, c2, c3, c4, c5, c6
  <2>2. /\ {c1, c2, c3, c4} \subseteq Int
        /\ Near(100 * (c3 + c2), vs, 100) /\ Near(100 * (0 + c1), vs, 100)
        /\ Near(c2, c2 + 0 + 0, 1) /\ Near(c1, c1 + 0 + 0, 1) /\ Near(c2, c1 + 0 + c4, 1)
    BY <1>3, <2>1
  <2>3. {c5, c6} \subseteq Int /\ Near(c2, c1 + c5 + c6, 1)
    BY <1>4, <2>1
  <2>4. {0, c1, c2, c3, c4, c5, c6} \subseteq Int
    BY <2>2, <2>3
  <2> QED
    BY <2>2, <2>3, <2>4 DEF c1, c2, c3, c4, c5, c6
<1>7. \/ /\ fill.fromProtected = Cents(vp) /\ fill.fromWallet = 0 /\ fill.covered = 0
         /\ fill.returned = Cents(vs - vp) /\ fill.heldReleased = vs /\ fill.stationTotal = Cents(vp)
      \/ /\ fill.fromProtected = Cents(vs) /\ fill.fromWallet = 0 /\ fill.covered = 0
         /\ fill.returned = 0 /\ fill.heldReleased = vs /\ fill.stationTotal = Cents(vs)
      \/ /\ fill.fromProtected = Cents(vs) /\ fill.fromWallet = 0 /\ fill.covered = Cents(vp - vs)
         /\ fill.returned = 0 /\ fill.heldReleased = vs /\ fill.stationTotal = Cents(vp)
      \/ /\ fill.fromProtected = Cents(vs) /\ fill.fromWallet = Cents(vp - vb) /\ fill.covered = Cents(vb - vs)
         /\ fill.returned = 0 /\ fill.heldReleased = vs /\ fill.stationTotal = Cents(vp)
  <2>1. CASE p < s
    BY <1>2, <2>1 DEF settleFill
  <2>2. CASE p = s
    BY <1>2, <2>2 DEF settleFill
  <2>3. CASE p > s /\ p <= b
    BY <1>2, <2>3 DEF settleFill
  <2>4. CASE p > s /\ p > b
    BY <1>2, <2>4 DEF settleFill, fromWalletAbove
  <2> QED
    BY <2>1, <2>2, <2>3, <2>4
<1> QED
  <2> HIDE DEF vp, vs, vb, fill
  <2>1. Balanced(fill, vs)
    BY <1>6, <1>7, Zenon DEF Balanced
  <2> QED
    BY <2>1 DEF fill, vs

-----------------------------------------------------------------------------
(* A demonstrator's account                                                *)

\* Scopes that some list offers.
Scopes == UNION {DOMAIN normalizeOptions(prices) : prices \in UNION {Feeds[m] : m \in Markets}}

OwnLocks(m) ==
  {l \in [remaining : Nat, volume : Nat, reference : Nat, strike : Nat, boundary : Nat, held : Nat,
          charge : Nat, scope : Scopes, market : {m}, row : {0}] : l.held = l.remaining * l.strike}

Own(m) ==
  [wallet : Int, locks : Seq(OwnLocks(m)), topUps : Int, paid : Int, covered : Int, station : Int,
   fills : Nat, synced : {FALSE}]

\* The database has replaced the list.
Replaced(a) ==
  /\ DOMAIN a = {"wallet", "locks", "topUps", "paid", "covered", "station", "fills", "synced"}
  /\ a.synced = TRUE

BookSound(a, m) == Replaced(a) \/ (a \in Own(m) /\ MoneyExplained(a))

\* What a lock more, and a lock less full, do to the sums.
LEMMA LockSumAdds ==
  ASSUME NEW m, NEW L \in Seq(OwnLocks(m)), NEW lock \in OwnLocks(m), NEW field \in {"held", "charge"}
  PROVE  /\ <<lock>> \o L \in Seq(OwnLocks(m)) /\ Len(<<lock>> \o L) = Len(L) + 1
         /\ LockSum(L, field) \in Int
         /\ LockSum(<<lock>> \o L, field) = lock[field] + LockSum(L, field)
<1> DEFINE S == OwnLocks(m)
           n == Len(L)
           M == <<lock>> \o L
           f == [i \in DOMAIN L |-> L[i][field]]
           e == [i \in DOMAIN M |-> M[i][field]]
<1>1. \A l \in S : l[field] \in Int
  <2>1. \A l \in S : l["held"] \in Int /\ l["charge"] \in Int
    BY DEF OwnLocks
  <2> QED
    BY <2>1
<1>2. lock \in S /\ L \in Seq(S)
  OBVIOUS
<1> HIDE DEF S
<1>3. n \in Nat /\ DOMAIN L = 1 .. n /\ \A i \in 1 .. n : L[i] \in S
  BY <1>2, LenProperties
<1>4. <<lock>> \in Seq(S) /\ Len(<<lock>>) = 1 /\ <<lock>>[1] = lock
  BY <1>2
<1>5. /\ M \in Seq(S) /\ Len(M) = 1 + n
      /\ \A i \in 1 .. 1 + n : M[i] = IF i <= 1 THEN lock ELSE L[i - 1]
  BY <1>2, <1>4, ConcatProperties
<1> HIDE DEF M, n
<1>6. DOMAIN M = 1 .. n + 1 /\ Len(M) = n + 1 /\ \A i \in 1 .. n + 1 : M[i] \in S
  BY <1>3, <1>5, LenProperties
<1>7. M[1] = lock /\ \A i \in 1 .. n : M[i + 1] = L[i]
  BY <1>3, <1>5
<1>8. /\ DOMAIN f = 1 .. n /\ DOMAIN e = 1 .. n + 1
      /\ \A i \in 1 .. n + 1 : e[i] \in Int
      /\ \A i \in 1 .. n : f[i] = e[i + 1]
      /\ e[1] = lock[field]
  BY <1>1, <1>3, <1>6, <1>7
<1>9. LockSum(L, field) = Total(f) /\ LockSum(M, field) = Total(e)
  BY Zenon DEF LockSum
<1> HIDE DEF f, e
<1>10. Total(f) \in Int /\ Total(e) = e[1] + Total(f)
  BY <1>3, <1>8, TotalHead
<1> QED
  BY <1>5, <1>6, <1>8, <1>9, <1>10 DEF M, S, n

LEMMA LockSumChanges ==
  ASSUME NEW m, NEW L \in Seq(OwnLocks(m)), NEW k \in DOMAIN L, NEW lock \in OwnLocks(m),
         NEW field \in {"held", "charge"}
  PROVE  /\ [L EXCEPT ![k] = lock] \in Seq(OwnLocks(m)) /\ Len([L EXCEPT ![k] = lock]) = Len(L)
         /\ LockSum(L, field) \in Int
         /\ LockSum([L EXCEPT ![k] = lock], field) = LockSum(L, field) - L[k][field] + lock[field]
<1> DEFINE S == OwnLocks(m)
           n == Len(L)
           M == [L EXCEPT ![k] = lock]
           f == [i \in DOMAIN L |-> L[i][field]]
           e == [i \in DOMAIN M |-> M[i][field]]
<1>1. \A l \in S : l[field] \in Int
  <2>1. \A l \in S : l["held"] \in Int /\ l["charge"] \in Int
    BY DEF OwnLocks
  <2> QED
    BY <2>1
<1>2. lock \in S /\ L \in Seq(S)
  OBVIOUS
<1> HIDE DEF S
<1>3. n \in Nat /\ DOMAIN L = 1 .. n /\ \A i \in 1 .. n : L[i] \in S
  BY <1>2, LenProperties
<1>4. M \in Seq(S) /\ Len(M) = n /\ \A j \in 1 .. n : M[j] = IF j = k THEN lock ELSE L[j]
  BY <1>2, <1>3, ExceptSeq
<1> HIDE DEF M, n
<1>5. /\ DOMAIN f = 1 .. n /\ DOMAIN e = 1 .. n /\ DOMAIN M = 1 .. n
      /\ \A i \in 1 .. n : f[i] \in Int /\ e[i] \in Int /\ (i # k => e[i] = f[i])
      /\ k \in 1 .. n /\ f[k] = L[k][field] /\ e[k] = lock[field]
  <2>1. DOMAIN M = 1 .. n
    BY <1>3, <1>4, LenProperties
  <2> QED
    BY <1>1, <1>2, <1>3, <1>4, <2>1
<1>6. LockSum(L, field) = Total(f) /\ LockSum(M, field) = Total(e)
  BY Zenon DEF LockSum
<1>7. IsFiniteSet(1 .. n)
  BY <1>3, FS_Interval
<1> HIDE DEF f, e
<1>8. Total(f) \in Int
  BY <1>5, <1>7, TotalTakes
<1>9. Total(e) = Total(f) - f[k] + e[k]
  <2>1. IsFiniteSet(DOMAIN f) /\ DOMAIN e = DOMAIN f /\ k \in DOMAIN f /\ e[k] \in Int
    BY <1>5, <1>7
  <2>2. (\A x \in DOMAIN f : f[x] \in Int) /\ \A x \in DOMAIN f : x # k => e[x] = f[x]
    BY <1>5
  <2> QED
    BY ONLY <2>1, <2>2, TotalReplace
<1> QED
  BY <1>4, <1>5, <1>6, <1>8, <1>9 DEF M, S, n

\* Of the locks that have some left, one is the oldest.
LEMMA OldestIsActive ==
  ASSUME NEW n \in Nat, DOMAIN account.locks = 1 .. n, activeLocks # {}
  PROVE  activeLock \in activeLocks
<1>1. activeLocks \in SUBSET (0 .. n)
  BY DEF activeLocks
<1>2. \E i \in activeLocks : \A j \in activeLocks : i >= j
  BY <1>1, GreatestNumber
<1>3. \A i, j \in activeLocks : i >= j <=> j <= i
  BY <1>1
<1>4. \E i \in activeLocks : \A j \in activeLocks : j <= i
  BY <1>2, <1>3
<1> QED
  BY <1>4, Zenon DEF activeLock

\* An account by its fields.
Account(w, l, t, p, c, s, f) ==
  [wallet |-> w, locks |-> l, topUps |-> t, paid |-> p, covered |-> c, station |-> s, fills |-> f,
   synced |-> FALSE]

LEMMA OwnIsAccount ==
  ASSUME NEW m, NEW a \in Own(m)
  PROVE  /\ a = Account(a.wallet, a.locks, a.topUps, a.paid, a.covered, a.station, a.fills)
         /\ {a.wallet, a.topUps, a.paid, a.covered, a.station} \subseteq Int /\ a.fills \in Nat
         /\ a.locks \in Seq(OwnLocks(m))
  BY DEF Own, Account

LEMMA AccountIsOwn ==
  ASSUME NEW m, NEW w \in Int, NEW l \in Seq(OwnLocks(m)), NEW t \in Int, NEW p \in Int, NEW c \in Int,
         NEW s \in Int, NEW f \in Nat
  PROVE  Account(w, l, t, p, c, s, f) \in Own(m)
  BY DEF Own, Account

LEMMA AccountLocked ==
  ASSUME NEW w, NEW l, NEW t, NEW p, NEW c, NEW s, NEW f, NEW lock, NEW topUp, NEW total
  PROVE  Locked(Account(w, l, t, p, c, s, f), lock, topUp, total)
           = Account(w + topUp - total, <<lock>> \o l, t + topUp, p, c, s, f)
<1> DEFINE a == Account(w, l, t, p, c, s, f)
<1>1. a.wallet = w /\ a.locks = l /\ a.topUps = t
  BY DEF Account
<1>2. Locked(a, lock, topUp, total)
        = [a EXCEPT !.wallet = w + topUp - total, !.locks = <<lock>> \o l, !.topUps = t + topUp]
  BY <1>1 DEF Locked, Account
<1> DEFINE x == w + topUp - total
           y == <<lock>> \o l
           z == t + topUp
<1>3. Locked(a, lock, topUp, total) = [a EXCEPT !.wallet = x, !.locks = y, !.topUps = z]
  BY <1>2
<1> HIDE DEF x, y, z
<1>4. Locked(a, lock, topUp, total) = Account(x, y, z, p, c, s, f)
  BY <1>3 DEF Account
<1> QED
  BY <1>4 DEF x, y, z

LEMMA AccountFilled ==
  ASSUME NEW w, NEW l, NEW t, NEW p, NEW c, NEW s, NEW f, NEW i, NEW amount, NEW fill
  PROVE  Filled(Account(w, l, t, p, c, s, f), i, amount, fill)
           = Account(w + fill.returned - fill.fromWallet,
                     [l EXCEPT ![i] = DrawnFrom(l[i], amount, fill.heldReleased)], t,
                     p + fill.fromProtected + fill.fromWallet, c + fill.covered, s + fill.stationTotal, f + 1)
<1> DEFINE a == Account(w, l, t, p, c, s, f)
           x == w + fill.returned - fill.fromWallet
           drawn == DrawnFrom(l[i], amount, fill.heldReleased)
           y == [l EXCEPT ![i] = drawn]
           q == p + fill.fromProtected + fill.fromWallet
           d == c + fill.covered
           u == s + fill.stationTotal
           g == f + 1
<1>1. a.wallet = w /\ a.locks = l /\ a.paid = p /\ a.covered = c /\ a.station = s /\ a.fills = f
  BY DEF Account
<1>2. Filled(a, i, amount, fill)
        = [a EXCEPT !.wallet = x, !.locks = y, !.paid = q, !.covered = d, !.station = u, !.fills = g]
  BY <1>1 DEF Filled, Account
<1> HIDE DEF x, y, q, d, u, g
<1>3. Filled(a, i, amount, fill) = Account(x, y, t, q, d, u, g)
  BY <1>2 DEF Account
<1> QED
  BY <1>3 DEF x, y, q, d, u, g

LEMMA AccountExplained ==
  ASSUME NEW w, NEW l, NEW t, NEW p, NEW c, NEW s, NEW f
  PROVE  MoneyExplained(Account(w, l, t, p, c, s, f)) <=>
           /\ Near(100 * (w + p) + LockSum(l, "held") + LockSum(l, "charge"), 100 * t, 100 * (Len(l) + f))
           /\ Near(s, p + c, f)
  BY DEF Account, MoneyExplained

\* A lock is paid for from the wallet and what is topped up.
LEMMA LockedSound ==
  ASSUME NEW m, NEW a \in Own(m), MoneyExplained(a), NEW lock \in OwnLocks(m), NEW topUp \in Int,
         NEW total, total = Cents(lock.held) + Cents(lock.charge)
  PROVE  Locked(a, lock, topUp, total) \in Own(m) /\ MoneyExplained(Locked(a, lock, topUp, total))
<1> DEFINE w == a.wallet
           l == a.locks
           t == a.topUps
           p == a.paid
           c == a.covered
           s == a.station
           f == a.fills
<1>1. /\ a = Account(w, l, t, p, c, s, f) /\ w \in Int /\ t \in Int /\ p \in Int /\ c \in Int /\ s \in Int
      /\ f \in Nat /\ l \in Seq(OwnLocks(m)) /\ a.locks = l
  BY OwnIsAccount
<1> HIDE DEF w, l, t, p, c, s, f
<1> DEFINE M == <<lock>> \o l
           h == LockSum(l, "held")
           g == LockSum(l, "charge")
           spent == topUp - total
           x == Cents(lock.held)
           y == Cents(lock.charge)
<1>2. Locked(a, lock, topUp, total) = Account(w + topUp - total, M, t + topUp, p, c, s, f)
  BY <1>1, AccountLocked
<1>3. /\ Near(100 * (w + p) + h + g, 100 * t, 100 * (Len(l) + f)) /\ Near(s, p + c, f)
  BY <1>1, AccountExplained, Zenon
<1>4. /\ M \in Seq(OwnLocks(m)) /\ Len(M) = Len(l) + 1 /\ h \in Int /\ g \in Int
      /\ LockSum(M, "held") = lock.held + h /\ LockSum(M, "charge") = lock.charge + g
  <2>1. l \in Seq(OwnLocks(m))
    BY <1>1
  <2> QED
    BY <2>1, LockSumAdds
<1>5. Len(l) \in Nat
  BY <1>1, LenProperties
<1>6. lock.held \in Int /\ lock.charge \in Int
  BY DEF OwnLocks
<1>7. Halved(x, lock.held) /\ Halved(y, lock.charge) /\ total = x + y
  BY <1>6, CentsNear
<1> HIDE DEF M, h, g, x, y
<1>8. total \in Int
  BY <1>7 DEF Halved
<1>9. spent \in Int /\ Near(100 * (spent + 0) + lock.held + lock.charge, 100 * topUp, 100)
  BY <1>6, <1>7 DEF Near, Halved
<1>10. w + topUp - total \in Int /\ t + topUp \in Int /\ Len(l) + f \in Nat /\ w + topUp - total = w + spent
       /\ p = p + 0 /\ 0 \in Int
  BY <1>1, <1>5, <1>8
<1>11. Account(w + topUp - total, M, t + topUp, p, c, s, f) \in Own(m)
  BY <1>1, <1>4, <1>10, AccountIsOwn
<1>12. Near(100 * ((w + spent) + (p + 0)) + (h + lock.held) + (g + lock.charge),
            100 * (t + topUp), 100 * ((Len(l) + f) + 1))
  <2> DEFINE k == Len(l) + f
             dh == lock.held
             dc == lock.charge
  <2>1. /\ w \in Int /\ p \in Int /\ h \in Int /\ g \in Int /\ t \in Int /\ k \in Nat
        /\ spent \in Int /\ 0 \in Int /\ dh \in Int /\ dc \in Int /\ topUp \in Int
        /\ Near(100 * (w + p) + h + g, 100 * t, 100 * k)
        /\ Near(100 * (spent + 0) + dh + dc, 100 * topUp, 100)
    BY <1>1, <1>3, <1>4, <1>6, <1>9, <1>10
  <2> HIDE DEF k, dh, dc, spent
  <2>2. Near(100 * ((w + spent) + (p + 0)) + (h + dh) + (g + dc), 100 * (t + topUp), 100 * (k + 1))
    BY <2>1 DEF Near
  <2> QED
    BY <2>2 DEF k, dh, dc
<1>13. Near(100 * ((w + topUp - total) + p) + LockSum(M, "held") + LockSum(M, "charge"),
            100 * (t + topUp), 100 * (Len(M) + f))
  <2>1. (w + spent) + (p + 0) = (w + topUp - total) + p
    BY <1>1, <1>8
  <2>2. (Len(l) + f) + 1 = Len(M) + f
    BY <1>1, <1>4, <1>5
  <2>3. h + lock.held = LockSum(M, "held") /\ g + lock.charge = LockSum(M, "charge")
    BY <1>4, <1>6
  <2> QED
    BY <1>12, <2>1, <2>2, <2>3
<1>14. MoneyExplained(Account(w + topUp - total, M, t + topUp, p, c, s, f))
  BY <1>3, <1>13, AccountExplained, Zenon
<1> QED
  BY <1>2, <1>11, <1>14

\* A fill takes what it releases and pays, to a cent.
LEMMA FilledSound ==
  ASSUME NEW m, NEW a \in Own(m), MoneyExplained(a), NEW i \in DOMAIN a.locks,
         NEW amount \in Nat, amount <= a.locks[i].remaining,
         NEW fill, Balanced(fill, amount * a.locks[i].strike)
  PROVE  Filled(a, i, amount, fill) \in Own(m) /\ MoneyExplained(Filled(a, i, amount, fill))
<1> DEFINE w == a.wallet
           l == a.locks
           t == a.topUps
           p == a.paid
           c == a.covered
           s == a.station
           f == a.fills
<1>1. /\ a = Account(w, l, t, p, c, s, f) /\ w \in Int /\ t \in Int /\ p \in Int /\ c \in Int /\ s \in Int
      /\ f \in Nat /\ l \in Seq(OwnLocks(m)) /\ a.locks = l
  BY OwnIsAccount
<1> HIDE DEF w, l, t, p, c, s, f
<1> DEFINE lock == l[i]
           drawn == DrawnFrom(lock, amount, fill.heldReleased)
           released == amount * lock.strike
           M == [l EXCEPT ![i] = drawn]
           h == LockSum(l, "held")
           g == LockSum(l, "charge")
           back == fill.returned - fill.fromWallet
           paid == fill.fromProtected + fill.fromWallet
           gone == -released
<1>2. Filled(a, i, amount, fill)
        = Account(w + fill.returned - fill.fromWallet, M, t, p + fill.fromProtected + fill.fromWallet,
                  c + fill.covered, s + fill.stationTotal, f + 1)
  BY <1>1, AccountFilled
<1>3. /\ Near(100 * (w + p) + h + g, 100 * t, 100 * (Len(l) + f)) /\ Near(s, p + c, f)
  BY <1>1, AccountExplained, Zenon
<1>4. i \in DOMAIN l /\ amount <= lock.remaining /\ Balanced(fill, released)
  BY <1>1
<1>5. lock \in OwnLocks(m) /\ Len(l) \in Nat
  BY <1>1, <1>4, LenProperties
<1>6. /\ {lock.remaining, lock.strike, lock.held, lock.charge} \subseteq Nat
      /\ lock.held = lock.remaining * lock.strike
  BY <1>5 DEF OwnLocks
<1> HIDE DEF lock
<1>7. released \in Nat /\ released <= lock.held
      /\ lock.held - released = (lock.remaining - amount) * lock.strike
  <2>1. amount * lock.strike <= lock.remaining * lock.strike
    BY <1>4, <1>6, TimesMonotone
  <2> QED
    BY <1>6, <2>1
<1>8. /\ drawn.held = lock.held - released /\ drawn.charge = lock.charge /\ drawn \in OwnLocks(m)
  <2>1. fill.heldReleased = released
    BY <1>4 DEF Balanced
  <2>2. drawn = [lock EXCEPT !.remaining = lock.remaining - amount, !.held = lock.held - released]
    <3>1. ~(lock.held < released)
      BY <1>6, <1>7
    <3>2. "held" \in DOMAIN lock
      BY <1>5 DEF OwnLocks
    <3> HIDE DEF released
    <3> QED
      BY <2>1, <3>1, <3>2 DEF DrawnFrom
  <2> DEFINE r == lock.remaining - amount
             d == lock.held - released
  <2>3. r \in Nat /\ d \in Nat /\ d = r * lock.strike
    BY <1>4, <1>6, <1>7
  <2>4. drawn = [lock EXCEPT !.remaining = r, !.held = d]
    BY <2>2
  <2> HIDE DEF drawn, r, d
  <2>5. drawn.held = d /\ drawn.charge = lock.charge /\ drawn \in OwnLocks(m)
    BY <1>5, <2>3, <2>4 DEF OwnLocks
  <2> QED
    BY <2>5 DEF d
<1>9. /\ {fill.returned, fill.fromProtected, fill.fromWallet, fill.covered, fill.stationTotal} \subseteq Int
      /\ Near(100 * (fill.returned + fill.fromProtected), released, 100)
      /\ Near(fill.stationTotal, fill.fromProtected + fill.fromWallet + fill.covered, 1)
  BY <1>4 DEF Balanced
<1> HIDE DEF drawn, released
<1>10. /\ M \in Seq(OwnLocks(m)) /\ Len(M) = Len(l) /\ h \in Int /\ g \in Int
       /\ LockSum(M, "held") = h - lock.held + drawn.held
       /\ LockSum(M, "charge") = g - lock.charge + drawn.charge
  <2>1. l \in Seq(OwnLocks(m)) /\ i \in DOMAIN l /\ drawn \in OwnLocks(m)
    BY <1>1, <1>4, <1>8
  <2> QED
    BY <2>1, LockSumChanges DEF lock
<1> HIDE DEF M, h, g
<1>11. /\ w + fill.returned - fill.fromWallet \in Int /\ w + fill.returned - fill.fromWallet = w + back
       /\ p + fill.fromProtected + fill.fromWallet \in Int
       /\ p + fill.fromProtected + fill.fromWallet = p + paid
       /\ c + fill.covered \in Int /\ s + fill.stationTotal \in Int /\ f + 1 \in Nat
       /\ back \in Int /\ paid \in Int /\ gone \in Int /\ Len(l) + f \in Nat /\ t + 0 = t
  <2> DEFINE e1 == fill.returned
             e2 == fill.fromWallet
             e3 == fill.fromProtected
             e4 == fill.covered
             e5 == fill.stationTotal
             n == Len(l)
  <2>1. /\ e1 \in Int /\ e2 \in Int /\ e3 \in Int /\ e4 \in Int /\ e5 \in Int /\ n \in Nat
    BY <1>5, <1>9
  <2> HIDE DEF e1, e2, e3, e4, e5, n
  <2>2. /\ w + e1 - e2 \in Int /\ w + e1 - e2 = w + (e1 - e2)
        /\ p + e3 + e2 \in Int /\ p + e3 + e2 = p + (e3 + e2)
        /\ c + e4 \in Int /\ s + e5 \in Int /\ f + 1 \in Nat
        /\ e1 - e2 \in Int /\ e3 + e2 \in Int /\ n + f \in Nat /\ t + 0 = t
    BY <1>1, <2>1
  <2>3. gone \in Int
    BY <1>7
  <2> QED
    BY <2>2, <2>3 DEF e1, e2, e3, e4, e5, n
<1>12. LockSum(M, "held") = h + gone /\ LockSum(M, "charge") = g + 0 /\ Len(M) + (f + 1) = (Len(l) + f) + 1
  BY <1>1, <1>5, <1>6, <1>7, <1>8, <1>10
<1>13. Near(100 * (back + paid) + gone + 0, 100 * 0, 100)
  BY <1>7, <1>9 DEF Near
<1>14. Near(s + fill.stationTotal, (p + paid) + (c + fill.covered), f + 1)
  <2> DEFINE e2 == fill.fromWallet
             e3 == fill.fromProtected
             e4 == fill.covered
             e5 == fill.stationTotal
  <2>1. e2 \in Int /\ e3 \in Int /\ e4 \in Int /\ e5 \in Int /\ Near(e5, e3 + e2 + e4, 1)
    BY <1>9
  <2> HIDE DEF e2, e3, e4, e5
  <2>2. Near(s + e5, (p + (e3 + e2)) + (c + e4), f + 1)
    BY <1>1, <1>3, <2>1 DEF Near
  <2> QED
    BY <2>2 DEF e2, e3, e4, e5
<1>15. Near(100 * ((w + back) + (p + paid)) + (h + gone) + (g + 0), 100 * (t + 0), 100 * ((Len(l) + f) + 1))
  <2> DEFINE k == Len(l) + f
  <2>1. /\ w \in Int /\ p \in Int /\ h \in Int /\ g \in Int /\ t \in Int /\ k \in Nat
        /\ back \in Int /\ paid \in Int /\ gone \in Int /\ 0 \in Int
        /\ Near(100 * (w + p) + h + g, 100 * t, 100 * k)
    BY <1>1, <1>3, <1>10, <1>11
  <2> HIDE DEF k, back, paid, gone
  <2>2. Near(100 * ((w + back) + (p + paid)) + (h + gone) + (g + 0), 100 * (t + 0), 100 * (k + 1))
    BY <1>13, <2>1 DEF Near
  <2> QED
    BY <2>2 DEF k
<1> DEFINE b == Account(w + back, M, t, p + paid, c + fill.covered, s + fill.stationTotal, f + 1)
<1>16. Filled(a, i, amount, fill) = b
  BY <1>2, <1>11
<1> HIDE DEF back, paid, gone
<1>17. b \in Own(m)
  BY <1>1, <1>10, <1>11, AccountIsOwn
<1>18. MoneyExplained(b)
  <2>1. Near(100 * ((w + back) + (p + paid)) + LockSum(M, "held") + LockSum(M, "charge"), 100 * t,
             100 * (Len(M) + (f + 1)))
    BY <1>11, <1>12, <1>15
  <2> QED
    BY <1>14, <2>1, AccountExplained, Zenon
<1> HIDE DEF b
<1> QED
  BY <1>16, <1>17, <1>18

-----------------------------------------------------------------------------
(* The page, and what rests on it                                          *)

PageSound(p) ==
  /\ DOMAIN p = {"market", "user", "prices", "pricesMarket", "control"}
  /\ p.market \in Markets /\ p.control \in ControlRoute
  /\ p.pricesMarket \in Markets => p.prices \in Feeds[p.pricesMarket]

BooksSound(books) == DOMAIN books = Markets /\ \A m \in Markets : BookSound(books[m], m)

LoadSound(l) == DOMAIN l = {"pc", "awaited", "profile", "rows"} /\ l.profile \in Markets

AppInv ==
  /\ PageSound(page) /\ BooksSound(accounts)
  /\ disk.market \in Markets /\ BooksSound(disk.accounts)
  /\ DOMAIN cloud = {"session", "profile", "rows", "fills"} /\ cloud.profile \in Markets
  /\ DOMAIN loads = Loads /\ \A l \in Loads : LoadSound(loads[l])

\* What is offered lies in the prices of its list.
LEMMA Normalized ==
  ASSUME NEW m \in Markets, NEW prices \in Feeds[m], NEW low \in Int,
         \A s \in DOMAIN prices : prices[s] >= low, NEW key \in DOMAIN normalizeOptions(prices)
  PROVE  /\ normalizeOptions(prices)[key] \in Nat /\ normalizeOptions(prices)[key] >= low
         /\ key \in Scopes
<1> DEFINE stations == DOMAIN prices
           of == CASE key[1] = "station"  -> {key[2]}
                   [] key[1] = "provider" -> {s \in stations : Brand[s] = key[2]}
                   [] OTHER               -> stations
           part == Restrict(prices, of)
<1>1. /\ stations # {} /\ IsFiniteSet(stations) /\ \A s \in stations : prices[s] \in Nat
  BY AppAssumption
<1>2. \/ \E s \in stations : key = <<"station", s>>
      \/ \E s \in stations : key = <<"provider", Brand[s]>>
      \/ key = <<"country", "nothing">>
  BY DEF normalizeOptions, Anywhere, Nothing
<1>3. normalizeOptions(prices)[key] = median(part)
  BY DEF normalizeOptions
<1>4. of \subseteq stations /\ of # {}
  <2>1. CASE \E s \in stations : key = <<"station", s>>
    <3>1. PICK s \in stations : key = <<"station", s>>
      BY <2>1
    <3>2. key[1] = "station" /\ key[2] = s
      BY <3>1
    <3>3. of = {s}
      BY <3>2
    <3> QED
      BY <3>3
  <2>2. CASE \E s \in stations : key = <<"provider", Brand[s]>>
    <3>1. PICK s \in stations : key = <<"provider", Brand[s]>>
      BY <2>2
    <3>2. key[1] = "provider" /\ key[2] = Brand[s]
      BY <3>1
    <3>3. of = {t \in stations : Brand[t] = Brand[s]}
      BY <3>2
    <3> QED
      BY <3>3
  <2>3. CASE key = <<"country", "nothing">>
    <3>1. key[1] = "country"
      BY <2>3
    <3>2. of = stations
      BY <3>1
    <3> QED
      BY <1>1, <3>2
  <2> QED
    BY <1>2, <2>1, <2>2, <2>3
<1> HIDE DEF of
<1>5. DOMAIN part = of /\ \A s \in of : part[s] = prices[s]
  BY DEF Restrict
<1> HIDE DEF part
<1>6. IsFiniteSet(of)
  BY <1>1, <1>4, FS_Subset
<1>7. DOMAIN part # {} /\ IsFiniteSet(DOMAIN part) /\ \A s \in DOMAIN part : part[s] \in Nat /\ part[s] >= low
  BY <1>1, <1>4, <1>5, <1>6
<1>8. median(part) \in Nat /\ median(part) >= low
  BY <1>7, MedianLies
<1>9. key \in Scopes
  BY DEF Scopes
<1> QED
  BY <1>3, <1>8, <1>9

LEMMA OptionLies ==
  ASSUME PageSound(page), NEW key \in DOMAIN options
  PROVE  page.pricesMarket = page.market /\ options[key] \in Nat /\ key \in Scopes
<1> DEFINE m == page.market
           prices == page.prices
           shift == IF m = Home THEN page.control.price - Baseline ELSE 0
           list == normalizeOptions(prices)
<1>1. page.pricesMarket = m
  BY DEF options, EmptyMap
<1>2. m \in Markets /\ prices \in Feeds[m] /\ page.control \in ControlRoute
  BY <1>1 DEF PageSound
<1>3. options = shiftOptions(list, shift)
  BY <1>1 DEF options
<1>4. key \in DOMAIN list /\ options[key] = list[key] + shift
  <2> HIDE DEF list, shift
  <2> QED
    BY <1>3 DEF shiftOptions
<1>5. shift \in Int /\ \A s \in DOMAIN prices : prices[s] \in Nat /\ prices[s] >= -shift
  <2>1. \A s \in DOMAIN prices : prices[s] \in Nat
    BY <1>2, AppAssumption
  <2>2. CASE m # Home
    BY <2>1, <2>2
  <2>3. CASE m = Home /\ page.control \in ControlAnswers
    <3> DEFINE price == page.control.price
    <3>1. price \in Int /\ Baseline \in Int /\ \A s \in DOMAIN prices : prices[s] + price >= Baseline
      BY <1>2, <2>3, AppAssumption
    <3>2. shift = price - Baseline
      BY <2>3
    <3> HIDE DEF price, shift
    <3> QED
      BY <2>1, <3>1, <3>2
  <2>4. CASE m = Home /\ page.control = [price |-> Baseline, paused |-> FALSE]
    <3>1. Baseline \in Int
      BY AppAssumption
    <3>2. shift = 0
      BY <2>4, <3>1
    <3> HIDE DEF shift
    <3> QED
      BY <2>1, <3>2
  <2> QED
    BY <1>2, <2>2, <2>3, <2>4 DEF ControlRoute
<1> DEFINE low == -shift
<1>6. low \in Int /\ \A s \in DOMAIN prices : prices[s] >= low
  BY <1>5
<1> HIDE DEF low, list, shift, m, prices
<1>7. list[key] \in Nat /\ list[key] >= low /\ key \in Scopes
  BY <1>2, <1>4, <1>6, Normalized DEF list
<1>8. list[key] + shift \in Nat
  BY <1>5, <1>7 DEF low
<1> QED
  BY <1>1, <1>4, <1>7, <1>8 DEF m

\* A lock as it is quoted.
LEMMA QuotedLock ==
  ASSUME NEW r \in Nat, NEW v \in Nat, NEW m, NEW scope \in Scopes
  PROVE  LET q == quoteProtection(r, v)
             lock == [remaining |-> v, volume |-> v, reference |-> r, strike |-> q.strike,
                      boundary |-> q.boundary, held |-> q.held, charge |-> q.charge, scope |-> scope,
                      market |-> m, row |-> 0]
         IN lock \in OwnLocks(m) /\ q.total = Cents(lock.held) + Cents(lock.charge) /\ q.total \in Int
<1> DEFINE q == quoteProtection(r, v)
           lock == [remaining |-> v, volume |-> v, reference |-> r, strike |-> q.strike,
                    boundary |-> q.boundary, held |-> q.held, charge |-> q.charge, scope |-> scope,
                    market |-> m, row |-> 0]
           a == HalfUp(105 * r, 100)
           b == HalfUp(115 * r, 100)
           c == HalfUp(23 * r, 1000)
<1>1. a \in Nat /\ b \in Nat /\ c \in Nat
  BY DEF HalfUp
<1>2. q = [strike |-> a, boundary |-> b, held |-> v * a, charge |-> v * c, total |-> Cents(v * a) + Cents(v * c)]
  BY DEF quoteProtection
<1> HIDE DEF a, b, c
<1>3. v * a \in Nat /\ v * c \in Nat
  BY <1>1
<1>4. Cents(v * a) \in Int /\ Cents(v * c) \in Int
  <2>1. v * a \in Int /\ v * c \in Int
    BY <1>3
  <2> QED
    BY <2>1, CentsNear DEF Halved
<1>5. lock = [remaining |-> v, volume |-> v, reference |-> r, strike |-> a, boundary |-> b, held |-> v * a,
              charge |-> v * c, scope |-> scope, market |-> m, row |-> 0]
  BY <1>2
<1>6. q.total = Cents(v * a) + Cents(v * c) /\ lock.held = v * a /\ lock.charge = v * c /\ q.total \in Int
  BY <1>2, <1>4
<1>7. lock \in OwnLocks(m)
  BY <1>1, <1>3, <1>5 DEF OwnLocks
<1> QED
  BY <1>6, <1>7

\* One account of sound books changes.
LEMMA OneBook ==
  ASSUME NEW books, BooksSound(books), NEW m \in Markets, NEW a, BookSound(a, m)
  PROVE  BooksSound([books EXCEPT ![m] = a])
  BY DEF BooksSound

\* What is shown is stored, unless somebody is signed in.
LEMMA ShownIsStored ==
  ASSUME AppInv, NEW next, NEW held, PageSound(next), BooksSound(held), Show(next, held)
  PROVE  /\ PageSound(page') /\ BooksSound(accounts')
         /\ disk'.market \in Markets /\ BooksSound(disk'.accounts)
  BY DEF AppInv, Show, PageSound

\* The page alone moves, or the books do.
LEMMA PageMoves ==
  ASSUME AppInv, NEW next, PageSound(next), Show(next, accounts),
         DOMAIN cloud' = DOMAIN cloud, cloud'.profile \in Markets, loads' = loads
  PROVE  AppInv'
<1>1. /\ PageSound(page') /\ BooksSound(accounts')
      /\ disk'.market \in Markets /\ BooksSound(disk'.accounts)
  BY ShownIsStored DEF AppInv
<1> QED
  BY <1>1 DEF AppInv

LEMMA BookMoves ==
  ASSUME AppInv, NEW a, BookSound(a, page.market),
         Show(page, [accounts EXCEPT ![page.market] = a]), UNCHANGED <<cloud, loads>>
  PROVE  AppInv'
<1>1. BooksSound([accounts EXCEPT ![page.market] = a]) /\ PageSound(page)
  BY OneBook DEF AppInv, PageSound
<1>2. /\ PageSound(page') /\ BooksSound(accounts')
      /\ disk'.market \in Markets /\ BooksSound(disk'.accounts)
  BY <1>1, ShownIsStored
<1> QED
  BY <1>2 DEF AppInv

LEMMA ReloadKeeps == ASSUME AppInv, Reload PROVE AppInv'
<1> DEFINE next == [NewPage EXCEPT !.market = disk.market]
<1>1. Show(next, disk.accounts) /\ loads' = [l \in Loads |-> NotLoading] /\ UNCHANGED cloud
  BY DEF Reload
<1>2. disk.market \in Markets /\ "nothing" \notin Markets /\ Home \in Markets
  BY AppAssumption DEF AppInv
<1>3. PageSound(next)
  BY <1>2 DEF PageSound, NewPage, ControlRoute, Nothing
<1> HIDE DEF next
<1>4. /\ PageSound(page') /\ BooksSound(accounts')
      /\ disk'.market \in Markets /\ BooksSound(disk'.accounts)
  BY <1>1, <1>3, ShownIsStored DEF AppInv
<1>5. LoadSound(NotLoading)
  BY <1>2 DEF LoadSound, NotLoading
<1>6. DOMAIN loads' = Loads /\ \A l \in Loads : LoadSound(loads[l])'
  BY <1>1, <1>5 DEF LoadSound
<1> QED
  BY <1>1, <1>4, <1>6 DEF AppInv

LEMMA PricesKeep == ASSUME AppInv, NEW prices \in Feeds[page.market], PublishOptions(prices) PROVE AppInv'
<1> DEFINE next == [page EXCEPT !.prices = prices, !.pricesMarket = page.market]
<1>1. Show(next, accounts) /\ UNCHANGED <<cloud, loads>>
  BY DEF PublishOptions
<1>2. PageSound(next)
  BY DEF AppInv, PageSound
<1> HIDE DEF next
<1> QED
  BY <1>1, <1>2, PageMoves DEF AppInv

LEMMA ControlKeeps == ASSUME AppInv, NEW answer \in ControlRoute, ControlAnswer(answer) PROVE AppInv'
<1> DEFINE next == [page EXCEPT !.control = answer]
<1>1. Show(next, accounts) /\ UNCHANGED <<cloud, loads>>
  BY DEF ControlAnswer
<1>2. PageSound(next)
  BY DEF AppInv, PageSound
<1> HIDE DEF next
<1> QED
  BY <1>1, <1>2, PageMoves DEF AppInv

LEMMA MarketKeeps == ASSUME AppInv, NEW m \in Markets, ChangeMarket(m) PROVE AppInv'
<1> DEFINE next == [page EXCEPT !.market = m]
<1>1. Show(next, accounts) /\ loads' = loads /\ (cloud' = [cloud EXCEPT !.profile = m] \/ cloud' = cloud)
  BY DEF ChangeMarket
<1>2. PageSound(next)
  BY DEF AppInv, PageSound
<1>3. DOMAIN cloud' = DOMAIN cloud /\ cloud'.profile \in Markets
  BY <1>1 DEF AppInv
<1> HIDE DEF next
<1> QED
  BY <1>1, <1>2, <1>3, PageMoves

LEMMA FundsKeep == ASSUME AppInv, AddFunds PROVE AppInv'
<1> DEFINE m == page.market
           a == accounts[m]
           b == Funded(a)
<1>1. Show(page, [accounts EXCEPT ![m] = b]) /\ UNCHANGED <<cloud, loads>>
  BY DEF AddFunds, account
<1>2. BookSound(a, m) /\ FundAmount \in Nat
  BY AppAssumption DEF AppInv, PageSound, BooksSound
<1>3. CASE Replaced(a)
  <2>1. Replaced(b)
    BY <1>3 DEF Replaced, Funded
  <2> HIDE DEF b
  <2> QED
    BY <1>1, <2>1, BookMoves DEF BookSound
<1>4. CASE a \in Own(m) /\ MoneyExplained(a)
  <2> DEFINE w == a.wallet
             l == a.locks
             t == a.topUps
             p == a.paid
             c == a.covered
             s == a.station
             f == a.fills
  <2>1. /\ a = Account(w, l, t, p, c, s, f) /\ w \in Int /\ t \in Int /\ p \in Int /\ c \in Int /\ s \in Int
        /\ f \in Nat /\ l \in Seq(OwnLocks(m))
    BY <1>4, OwnIsAccount
  <2> HIDE DEF m, a, w, l, t, p, c, s, f
  <2>2. b = Account(w + FundAmount, l, t + FundAmount, p, c, s, f)
    <3> DEFINE x == w + FundAmount
               y == t + FundAmount
    <3>1. a.wallet = w /\ a.topUps = t
      BY <2>1 DEF Account
    <3>2. b = [a EXCEPT !.wallet = x, !.topUps = y]
      BY <2>1, <3>1 DEF Funded, Account
    <3> HIDE DEF x, y, b
    <3>3. b = Account(x, l, y, p, c, s, f)
      BY <2>1, <3>2 DEF Account
    <3> QED
      BY <3>3 DEF x, y
  <2>3. b \in Own(m)
    <3>1. w + FundAmount \in Int /\ t + FundAmount \in Int
      BY <1>2, <2>1
    <3> QED
      BY <2>1, <2>2, <3>1, AccountIsOwn
  <2>4. MoneyExplained(b)
    <3> DEFINE h == LockSum(l, "held")
               g == LockSum(l, "charge")
               n == Len(l)
    <3>1. Near(100 * (w + p) + h + g, 100 * t, 100 * (n + f)) /\ Near(s, p + c, f)
      BY <1>4, <2>1, AccountExplained, Zenon
    <3>2. h \in Int /\ g \in Int /\ n \in Nat
      <4>1. n \in Nat /\ DOMAIN l = 1 .. n /\ \A i \in 1 .. n : l[i] \in OwnLocks(m)
        BY <2>1, LenProperties
      <4>2. \A i \in DOMAIN l : l[i]["held"] \in Int /\ l[i]["charge"] \in Int
        BY <4>1 DEF OwnLocks
      <4>3. IsFiniteSet(DOMAIN l)
        BY <4>1, FS_Interval
      <4> DEFINE e == [i \in DOMAIN l |-> l[i]["held"]]
                 k == [i \in DOMAIN l |-> l[i]["charge"]]
      <4>4. DOMAIN e = DOMAIN l /\ DOMAIN k = DOMAIN l /\ \A i \in DOMAIN l : e[i] \in Int /\ k[i] \in Int
        BY <4>2
      <4>5. h = Total(e) /\ g = Total(k)
        BY Zenon DEF LockSum
      <4> HIDE DEF e, k, h, g
      <4>6. Total(e) \in Int /\ Total(k) \in Int
        BY <4>3, <4>4, TotalTakes
      <4> QED
        BY <4>1, <4>5, <4>6
    <3> HIDE DEF h, g, n
    <3>3. Near(100 * ((w + FundAmount) + p) + h + g, 100 * (t + FundAmount), 100 * (n + f))
      BY <1>2, <2>1, <3>1, <3>2 DEF Near
    <3>4. MoneyExplained(Account(w + FundAmount, l, t + FundAmount, p, c, s, f))
      BY <3>1, <3>3, AccountExplained DEF h, g, n
    <3> QED
      BY <2>2, <3>4
  <2> HIDE DEF b
  <2> QED
    BY <1>1, <2>3, <2>4, BookMoves DEF BookSound, m
<1> QED
  BY <1>2, <1>3, <1>4 DEF BookSound

LEMMA LockKeeps ==
  ASSUME AppInv, NEW scope \in DOMAIN options, NEW volume \in LockSizes, ConfirmLock(scope, volume)
  PROVE  AppInv'
<1> DEFINE m == page.market
           a == accounts[m]
           r == options[scope]
           q == quoteProtection(r, volume)
           topUp == topUpFor(q.total, a.wallet)
           lock == [remaining |-> volume, volume |-> volume, reference |-> r, strike |-> q.strike,
                    boundary |-> q.boundary, held |-> q.held, charge |-> q.charge, scope |-> scope,
                    market |-> m, row |-> 0]
           b == Locked(a, lock, topUp, q.total)
<1>1. page.pricesMarket = m /\ r \in Nat /\ scope \in Scopes /\ volume \in Nat
  BY OptionLies, AppAssumption DEF AppInv
<1>2. Show(page, [accounts EXCEPT ![m] = b]) /\ UNCHANGED <<cloud, loads>>
  BY <1>1 DEF ConfirmLock, account
<1>3. lock \in OwnLocks(m) /\ q.total = Cents(lock.held) + Cents(lock.charge) /\ q.total \in Int
  BY <1>1, QuotedLock
<1>4. BookSound(a, m)
  BY DEF AppInv, PageSound, BooksSound
<1> HIDE DEF r, q, lock
<1>5. BookSound(b, m)
  <2>1. CASE Replaced(a)
    <3>1. Replaced(b)
      BY <2>1 DEF Replaced, Locked
    <3> QED
      BY <3>1 DEF BookSound
  <2>2. CASE a \in Own(m) /\ MoneyExplained(a)
    <3>1. a.wallet \in Int
      BY <2>2 DEF Own
    <3>2. topUp \in Int
      <4> DEFINE fifties == (q.total - a.wallet + 4999) \div 5000
      <4>1. fifties \in Int
        BY <1>3, <3>1
      <4>2. topUp = IF q.total <= a.wallet THEN 0 ELSE IF fifties < 2 THEN 10000 ELSE 5000 * fifties
        BY DEF topUpFor
      <4> HIDE DEF fifties, topUp
      <4> QED
        BY <4>1, <4>2
    <3> HIDE DEF topUp, a
    <3>3. b \in Own(m) /\ MoneyExplained(b)
      BY <1>3, <2>2, <3>2, LockedSound
    <3> QED
      BY <3>3 DEF BookSound
  <2> QED
    BY <1>4, <2>1, <2>2 DEF BookSound
<1> HIDE DEF b
<1> QED
  BY <1>2, <1>5, BookMoves

LEMMA RedeemKeeps == ASSUME AppInv, NEW requested \in FillSizes, RedeemFuel(requested) PROVE AppInv'
<1> DEFINE m == page.market
           a == accounts[m]
           i == activeLock
           lock == a.locks[i]
           amount == IF requested < lock.remaining THEN requested ELSE lock.remaining
           pump == pumpPriceFor(lock)
           fill == settleFill(amount, pump, lock.strike, lock.boundary)
           b == Filled(a, i, amount, fill)
<1>1. Show(page, [accounts EXCEPT ![m] = b]) /\ UNCHANGED <<cloud, loads>> /\ activeLocks # {}
  BY DEF RedeemFuel, account
<1>2. BookSound(a, m)
  BY DEF AppInv, PageSound, BooksSound
<1>3. BookSound(b, m)
  <2>1. CASE Replaced(a)
    <3>1. Replaced(b)
      BY <2>1 DEF Replaced, Filled
    <3> QED
      BY <3>1 DEF BookSound
  <2>2. CASE a \in Own(m) /\ MoneyExplained(a)
    <3>1. a.locks \in Seq(OwnLocks(m)) /\ account = a
      BY <2>2 DEF Own, account
    <3>2. Len(a.locks) \in Nat /\ DOMAIN a.locks = 1 .. Len(a.locks)
          /\ \A j \in DOMAIN a.locks : a.locks[j] \in OwnLocks(m)
      BY <3>1, LenProperties
    <3>3. i \in activeLocks
      BY <1>1, <3>1, <3>2, OldestIsActive
    <3>4. i \in DOMAIN a.locks
      BY <3>1, <3>3 DEF activeLocks
    <3>5. lock \in OwnLocks(m)
      BY <3>2, <3>4
    <3>6. {lock.remaining, lock.strike, lock.boundary, lock.reference} \subseteq Nat /\ requested \in Nat
      BY <3>5, AppAssumption DEF OwnLocks
    <3> HIDE DEF lock
    <3>7. pump \in Nat
      BY <3>6, OptionLies DEF pumpPriceFor, AppInv
    <3>8. amount \in Nat /\ amount <= lock.remaining
      BY <3>6
    <3> HIDE DEF pump, amount
    <3>9. Balanced(fill, amount * lock.strike)
      BY <3>6, <3>7, <3>8, FillAddsUp
    <3> HIDE DEF fill, a, i
    <3>10. b \in Own(m) /\ MoneyExplained(b)
      BY <2>2, <3>4, <3>8, <3>9, FilledSound DEF lock
    <3> QED
      BY <3>10 DEF BookSound
  <2> QED
    BY <1>2, <2>1, <2>2 DEF BookSound
<1> HIDE DEF b
<1> QED
  BY <1>1, <1>3, BookMoves

\* The page and the books stay, and the database and its loads move on.
LEMMA CloudMoves ==
  ASSUME AppInv, UNCHANGED <<page, accounts, disk>>,
         DOMAIN cloud' = DOMAIN cloud, cloud'.profile \in Markets,
         DOMAIN loads' = Loads, \A l \in Loads : LoadSound(loads[l])'
  PROVE  AppInv'
  BY DEF AppInv

LEMMA LoadStarts ==
  ASSUME AppInv, NEW l \in Loads, loads' = [loads EXCEPT ![l] = Started] \/ loads' = loads
  PROVE  DOMAIN loads' = Loads /\ \A k \in Loads : LoadSound(loads[k])'
<1>1. Home \in Markets
  BY AppAssumption
<1>2. LoadSound(Started)
  BY <1>1 DEF LoadSound, Started, NotLoading
<1> QED
  BY <1>2 DEF AppInv, LoadSound

LEMMA SessionKeeps == ASSUME AppInv, SignInOrOut PROVE AppInv'
<1>1. DOMAIN cloud' = DOMAIN cloud /\ cloud'.profile \in Markets /\ UNCHANGED <<page, accounts, disk, loads>>
  BY DEF AppInv, SignInOrOut
<1> QED
  BY <1>1 DEF AppInv

LEMMA AuthKeeps == ASSUME AppInv, NEW l \in Loads, AuthEvent(l) PROVE AppInv'
<1>1. PICK user \in BOOLEAN : Show([page EXCEPT !.user = user], accounts)
  BY DEF AuthEvent
<1> DEFINE next == [page EXCEPT !.user = user]
<1>2. PageSound(next)
  BY DEF AppInv, PageSound
<1>3. Show(next, accounts)
  BY <1>1
<1> HIDE DEF next
<1>4. /\ PageSound(page') /\ BooksSound(accounts')
      /\ disk'.market \in Markets /\ BooksSound(disk'.accounts)
  BY <1>2, <1>3, ShownIsStored DEF AppInv
<1>5. cloud' = cloud /\ (loads' = [loads EXCEPT ![l] = Started] \/ loads' = loads)
  BY DEF AuthEvent
<1>6. DOMAIN loads' = Loads /\ \A k \in Loads : LoadSound(loads[k])'
  BY <1>5, LoadStarts
<1> QED
  BY <1>4, <1>5, <1>6 DEF AppInv

LEMMA CloudKeeps ==
  ASSUME AppInv, NEW l \in Loads, NEW size, ConfirmCloudLock(size, l) \/ RedeemCloud(size, l)
  PROVE  AppInv'
<1>1. /\ UNCHANGED <<page, accounts, disk>>
      /\ loads' = [loads EXCEPT ![l] = Started] \/ loads' = loads
  BY DEF ConfirmCloudLock, RedeemCloud
<1>2. DOMAIN cloud' = DOMAIN cloud /\ cloud'.profile \in Markets
  BY DEF ConfirmCloudLock, RedeemCloud, AppInv
<1>3. DOMAIN loads' = Loads /\ \A k \in Loads : LoadSound(loads[k])'
  BY <1>1, LoadStarts
<1> QED
  BY <1>1, <1>2, <1>3, CloudMoves

LEMMA ReadsKeep == ASSUME AppInv, NEW l \in Loads, ReadProfile(l) \/ ReadRows(l) PROVE AppInv'
<1>1. UNCHANGED <<page, accounts, disk, cloud>>
  BY DEF ReadProfile, ReadRows
<1>2. DOMAIN loads' = Loads /\ \A k \in Loads : LoadSound(loads[k])'
  BY DEF ReadProfile, ReadRows, AppInv, LoadSound
<1> QED
  BY <1>1, <1>2, CloudMoves DEF AppInv

LEMMA ApplyKeeps == ASSUME AppInv, NEW l \in Loads, ApplyLoad(l) PROVE AppInv'
<1> DEFINE code == loads[l].profile
           next == [page EXCEPT !.market = code]
           a == [EmptyAccount EXCEPT !.wallet = accounts[code].wallet,
                                     !.locks = Shown(loads[l].rows), !.synced = TRUE]
           books == [accounts EXCEPT ![code] = a]
<1>1. Show(next, books) /\ loads' = [loads EXCEPT ![l] = NotLoading] /\ UNCHANGED cloud
  BY DEF ApplyLoad
<1>2. code \in Markets /\ Home \in Markets
  BY AppAssumption DEF AppInv, LoadSound
<1>3. PageSound(next)
  BY <1>2 DEF AppInv, PageSound
<1>4. BookSound(a, code)
  BY DEF BookSound, Replaced, EmptyAccount
<1> HIDE DEF a
<1>5. BooksSound(books)
  BY <1>2, <1>4, OneBook DEF AppInv
<1> HIDE DEF next, books
<1>6. /\ PageSound(page') /\ BooksSound(accounts')
      /\ disk'.market \in Markets /\ BooksSound(disk'.accounts)
  BY <1>1, <1>3, <1>5, ShownIsStored
<1>7. LoadSound(NotLoading)
  BY <1>2 DEF LoadSound, NotLoading
<1>8. DOMAIN loads' = Loads /\ \A k \in Loads : LoadSound(loads[k])'
  BY <1>1, <1>7 DEF AppInv, LoadSound
<1> QED
  BY <1>1, <1>6, <1>8 DEF AppInv

LEMMA AppStarts == AppInit => AppInv
<1> SUFFICES ASSUME AppInit PROVE AppInv
  OBVIOUS
<1>1. Home \in Markets /\ "nothing" \notin Markets
  BY AppAssumption
<1>2. PageSound(page)
  BY <1>1 DEF AppInit, PageSound, NewPage, ControlRoute, Nothing
<1>3. ASSUME NEW m
      PROVE  EmptyAccount \in Own(m) /\ MoneyExplained(EmptyAccount)
  <2>1. EmptyAccount = Account(0, <<>>, 0, 0, 0, 0, 0)
    BY DEF EmptyAccount, Account
  <2>2. <<>> \in Seq(OwnLocks(m)) /\ Len(<<>>) = 0
    BY EmptySeq
  <2>3. LockSum(<<>>, "held") = 0 /\ LockSum(<<>>, "charge") = 0
    <3>1. DOMAIN <<>> = {}
      OBVIOUS
    <3> QED
      BY <3>1, TotalEmpty DEF LockSum
  <2>4. EmptyAccount \in Own(m)
    BY <2>1, <2>2 DEF Own, Account
  <2>5. Near(100 * (0 + 0) + 0 + 0, 100 * 0, 100 * (0 + 0)) /\ Near(0, 0 + 0, 0)
    BY DEF Near
  <2> QED
    BY <2>1, <2>2, <2>3, <2>4, <2>5, AccountExplained
<1>4. BooksSound(emptyAccounts)
  BY <1>3 DEF BooksSound, BookSound, emptyAccounts
<1>5. LoadSound(NotLoading)
  BY <1>1 DEF LoadSound, NotLoading
<1> QED
  BY <1>1, <1>2, <1>4, <1>5 DEF AppInit, AppInv, LoadSound

LEMMA AppStep == AppInv /\ [AppNext]_appVars => AppInv'
<1> SUFFICES ASSUME AppInv, [AppNext]_appVars PROVE AppInv'
  OBVIOUS
<1>1. CASE Reload
  BY <1>1, ReloadKeeps
<1>2. CASE AddFunds
  BY <1>2, FundsKeep
<1>3. CASE SignInOrOut
  BY <1>3, SessionKeeps
<1>4. CASE \E prices \in Feeds[page.market] : PublishOptions(prices)
  BY <1>4, PricesKeep
<1>5. CASE \E answer \in ControlRoute : ControlAnswer(answer)
  BY <1>5, ControlKeeps
<1>6. CASE \E m \in Markets : ChangeMarket(m)
  BY <1>6, MarketKeeps
<1>7. CASE \E scope \in DOMAIN options, volume \in LockSizes : ConfirmLock(scope, volume)
  BY <1>7, LockKeeps
<1>8. CASE \E requested \in FillSizes : RedeemFuel(requested)
  BY <1>8, RedeemKeeps
<1>9. CASE \E l \in Loads :
             \/ AuthEvent(l) \/ ReadProfile(l) \/ ReadRows(l) \/ ApplyLoad(l)
             \/ \E volume \in LockSizes : ConfirmCloudLock(volume, l)
             \/ \E requested \in FillSizes : RedeemCloud(requested, l)
  BY <1>9, AuthKeeps, ReadsKeep, ApplyKeeps, CloudKeeps
<1>10. CASE UNCHANGED appVars
  BY <1>10 DEF AppInv, appVars, PageSound, LoadSound
<1> QED
  BY <1>1, <1>2, <1>3, <1>4, <1>5, <1>6, <1>7, <1>8, <1>9, <1>10 DEF AppNext

LEMMA SoundBooksAddUp == AppInv => DemoMoneySound
<1> SUFFICES ASSUME AppInv, NEW held \in {accounts, disk.accounts}, NEW m \in Markets, ~held[m].synced
             PROVE  /\ MoneyExplained(held[m])
                    /\ \A i \in DOMAIN held[m].locks : LET lock == held[m].locks[i] IN
                         /\ lock.market = m /\ lock.remaining >= 0
                         /\ lock.held = lock.remaining * lock.strike
  BY DEF DemoMoneySound
<1>1. BookSound(held[m], m)
  BY DEF AppInv, BooksSound
<1>2. held[m] \in Own(m) /\ MoneyExplained(held[m])
  BY <1>1 DEF BookSound, Replaced
<1>3. held[m].locks \in Seq(OwnLocks(m))
  BY <1>2 DEF Own
<1>4. \A i \in DOMAIN held[m].locks : held[m].locks[i] \in OwnLocks(m)
  BY <1>3, LenProperties
<1> QED
  BY <1>2, <1>4 DEF OwnLocks

\* A theorem: however top-ups, locks, fills, prices, markets, reloads and sign-ins follow
\* one another, the books of every account the database has not replaced add up.
THEOREM DemoMoneyAddsUp == AppSpec => []DemoMoneySound
<1> QED
  BY AppStarts, AppStep, SoundBooksAddUp, PTL DEF AppSpec
-----------------------------------------------------------------------------
(***************************************************************************)
(* The landing page's store: what was answered is in the file.             *)
(***************************************************************************)
\* One row for each session of the requests, completed if one of them was.
Stored(rows, requests) ==
  /\ {rows[i].key : i \in DOMAIN rows} = {RowOf[t].key : t \in requests}
  /\ \A i, j \in DOMAIN rows : rows[i].key = rows[j].key => i = j
  /\ \A i \in DOMAIN rows :
       /\ rows[i].completed \in BOOLEAN
       /\ rows[i].completed <=> \E t \in requests : RowOf[t].key = rows[i].key /\ RowOf[t].completed

Busy == {"queued", "read", "writing"}
Writing == {t \in Task : task[t].pc = "writing"}

\* Each task waits in one place, and only the first has begun.
QueueSound ==
  /\ IsList(queue)
  /\ \A i \in DOMAIN queue :
       /\ queue[i] \in Task /\ task[queue[i]].pc \in Busy
       /\ i # 1 => task[queue[i]].pc = "queued"
  /\ \A i, j \in DOMAIN queue : queue[i] = queue[j] => i = j
  /\ \A t \in Task : task[t].pc \in Busy => \E i \in DOMAIN queue : queue[i] = t

\* What is read is what is on the disk, and what is being written adds its own row.
DiskSound ==
  /\ Writing = {} => file.state \in {"absent", "whole"} /\ Stored(Content, AnsweredTasks)
  /\ \A t \in Task : task[t].pc = "read" => task[t].rows = Content
  /\ \A t \in Writing : Stored(task[t].rows, AnsweredTasks \cup {t})

StoreTyped ==
  /\ DOMAIN task = Task /\ \A t \in Task : task[t] = [pc |-> task[t].pc, rows |-> task[t].rows]
  /\ file = [state |-> file.state, rows |-> file.rows]
  /\ cuts = [writes |-> cuts.writes, ends |-> cuts.ends] /\ cuts.writes \in Nat
  /\ IsList(file.rows) /\ \A t \in Task : IsList(task[t].rows)

StoreInv == StoreTyped /\ QueueSound /\ (cuts.writes = 0 => DiskSound)

\* A function on the first numbers is a list.
LEMMA FunctionIsList ==
  ASSUME NEW n \in Nat, NEW f, f = [i \in 1 .. n |-> f[i]]
  PROVE  IsList(f) /\ Len(f) = n /\ DOMAIN f = 1 .. n
<1>1. DOMAIN f = 1 .. n
  OBVIOUS
<1>2. f \in [1 .. n -> {f[i] : i \in DOMAIN f}]
  BY <1>1
<1>3. f \in Seq({f[i] : i \in DOMAIN f}) /\ Len(f) = n
  BY <1>2
<1> QED
  BY <1>1, <1>3 DEF IsList

\* So is the empty one.
LEMMA EmptyIsList == IsList(<<>>) /\ DOMAIN <<>> = {}
  BY DEF IsList

\* A row that replaces the one of its session, or goes to the end, leaves a list.
LEMMA MergedIsList ==
  ASSUME NEW rows, IsList(rows), NEW newRow
  PROVE  IsList(Merged(rows, newRow))
<1> DEFINE r == [i \in DOMAIN rows |-> IF rows[i].key = newRow.key
                                       THEN [newRow EXCEPT !.completed = @ \/ rows[i].completed] ELSE rows[i]]
<1>1. DOMAIN rows = 1 .. Len(rows) /\ Len(rows) \in Nat
  BY DEF IsList
<1>2. IsList(r)
  <2>1. DOMAIN r = 1 .. Len(rows) /\ r = [i \in 1 .. Len(rows) |-> r[i]]
    BY <1>1
  <2> HIDE DEF r
  <2> QED
    BY <1>1, <2>1, FunctionIsList
<1>3. IsList(Append(rows, newRow))
  BY AppendIsList
<1> HIDE DEF r
<1>4. Merged(rows, newRow) \in {r, Append(rows, newRow)}
  BY DEF Merged, r
<1> QED
  BY <1>2, <1>3, <1>4

\* Merging the row of one more request is storing that request as well.
LEMMA MergedStores ==
  ASSUME NEW rows, IsList(rows), NEW requests \in SUBSET Task, Stored(rows, requests), NEW t \in Task
  PROVE  Stored(Merged(rows, RowOf[t]), requests \cup {t})
<1> DEFINE new == RowOf[t]
           r == [i \in DOMAIN rows |-> IF rows[i].key = new.key
                                       THEN [new EXCEPT !.completed = @ \/ rows[i].completed] ELSE rows[i]]
           all == requests \cup {t}
<1>1. /\ new = [key |-> new.key, market |-> new.market, completed |-> new.completed]
      /\ new.completed \in BOOLEAN
  BY DashboardAssumption
<1>2. CASE \E i \in DOMAIN rows : rows[i].key = new.key
  <2>1. Merged(rows, new) = r
    BY <1>2 DEF Merged
  <2>2. ASSUME NEW i \in DOMAIN rows
        PROVE  /\ r[i].key = rows[i].key
               /\ rows[i].key = new.key => (r[i].completed <=> new.completed \/ rows[i].completed)
               /\ rows[i].key # new.key => (r[i].completed <=> rows[i].completed)
               /\ r[i].completed \in BOOLEAN /\ rows[i].completed \in BOOLEAN
    <3>1. rows[i].completed \in BOOLEAN
      BY DEF Stored
    <3> DEFINE k == new.key
               c == new.completed
               d == rows[i].completed
               m == new.market
    <3>2. new = [key |-> k, market |-> m, completed |-> c] /\ c \in BOOLEAN /\ d \in BOOLEAN
      BY <1>1, <3>1
    <3>3. [new EXCEPT !.completed = @ \/ d] = [key |-> k, market |-> m, completed |-> c \/ d]
      <4> HIDE DEF new
      <4> HIDE DEF k, c, d, m
      <4> QED
        BY <3>2
    <3>4. r[i] = IF rows[i].key = k THEN [key |-> k, market |-> m, completed |-> c \/ d] ELSE rows[i]
      BY <3>3
    <3> HIDE DEF r, new
    <3> QED
      BY <3>2, <3>4
  <2>3. DOMAIN r = DOMAIN rows
    OBVIOUS
  <2> HIDE DEF r
  <2>4. {r[i].key : i \in DOMAIN r} = {RowOf[s].key : s \in all}
    <3>1. {r[i].key : i \in DOMAIN r} = {rows[i].key : i \in DOMAIN rows}
      BY <2>2, <2>3
    <3>2. {rows[i].key : i \in DOMAIN rows} = {RowOf[s].key : s \in requests}
      BY DEF Stored
    <3>3. RowOf[t].key \in {rows[i].key : i \in DOMAIN rows}
      BY <1>2
    <3> QED
      BY <3>1, <3>2, <3>3
  <2>5. \A i, j \in DOMAIN r : r[i].key = r[j].key => i = j
    BY <2>2, <2>3 DEF Stored
  <2>6. ASSUME NEW i \in DOMAIN r
        PROVE  r[i].completed <=> \E s \in all : RowOf[s].key = r[i].key /\ RowOf[s].completed
    <3>1. rows[i].completed <=> \E s \in requests : RowOf[s].key = rows[i].key /\ RowOf[s].completed
      BY <2>3 DEF Stored
    <3>2. CASE rows[i].key = RowOf[t].key
      BY <2>2, <2>3, <3>1, <3>2
    <3>3. CASE rows[i].key # RowOf[t].key
      BY <2>2, <2>3, <3>1, <3>3
    <3> QED
      BY <3>2, <3>3
  <2> QED
    BY <2>1, <2>2, <2>3, <2>4, <2>5, <2>6 DEF Stored
<1>3. CASE ~ \E i \in DOMAIN rows : rows[i].key = new.key
  <2> DEFINE a == Append(rows, new)
             n == Len(rows) + 1
  <2>1. Merged(rows, new) = a
    BY <1>3 DEF Merged
  <2>2. /\ DOMAIN a = DOMAIN rows \cup {n} /\ n \notin DOMAIN rows /\ a[n] = new
        /\ \A i \in DOMAIN rows : a[i] = rows[i]
    BY AppendIsList
  <2> HIDE DEF a, n
  <2>3. {a[i].key : i \in DOMAIN a} = {RowOf[s].key : s \in all}
    <3>1. {a[i].key : i \in DOMAIN a} = {rows[i].key : i \in DOMAIN rows} \cup {new.key}
      BY <2>2
    <3>2. {rows[i].key : i \in DOMAIN rows} = {RowOf[s].key : s \in requests}
      BY DEF Stored
    <3> QED
      BY <3>1, <3>2
  <2>4. \A i, j \in DOMAIN a : a[i].key = a[j].key => i = j
    BY <1>3, <2>2 DEF Stored
  <2>5. \A s \in requests : RowOf[s].key # new.key
    <3>1. {rows[i].key : i \in DOMAIN rows} = {RowOf[s].key : s \in requests}
      BY DEF Stored
    <3> QED
      BY <1>3, <3>1
  <2>6. ASSUME NEW i \in DOMAIN a
        PROVE  /\ a[i].completed \in BOOLEAN
               /\ a[i].completed <=> \E s \in all : RowOf[s].key = a[i].key /\ RowOf[s].completed
    <3>1. CASE i = n
      BY <1>1, <2>2, <2>5, <3>1
    <3>2. CASE i # n
      <4>1. i \in DOMAIN rows /\ a[i] = rows[i] /\ rows[i].key # new.key
        BY <1>3, <2>2, <3>2
      <4>2. /\ rows[i].completed \in BOOLEAN
            /\ rows[i].completed <=> \E s \in requests : RowOf[s].key = rows[i].key /\ RowOf[s].completed
        BY <4>1 DEF Stored
      <4> QED
        BY <4>1, <4>2
    <3> QED
      BY <3>1, <3>2
  <2> QED
    BY <2>1, <2>3, <2>4, <2>6 DEF Stored
<1> QED
  BY <1>2, <1>3

-----------------------------------------------------------------------------
\* Who is next has the only place of its own; the others keep theirs, one nearer.
LEMMA FirstLeaves ==
  ASSUME QueueSound, NEW t \in Task, Turn(t)
  PROVE  /\ IsList(Without(t)) /\ DOMAIN Without(t) = 1 .. (Len(queue) - 1)
         /\ \A i \in DOMAIN Without(t) : i + 1 \in DOMAIN queue /\ Without(t)[i] = queue[i + 1]
         /\ DOMAIN queue = 1 .. Len(queue) /\ Len(queue) \in Nat /\ 1 \in DOMAIN queue
<1> DEFINE n == Len(queue) - 1
           w == [i \in 1 .. n |-> queue[i + 1]]
<1>1. DOMAIN queue = 1 .. Len(queue) /\ Len(queue) \in Nat /\ queue # <<>> /\ queue[1] = t
  BY DEF QueueSound, IsList, Turn
<1>2. Len(queue) # 0
  BY <1>1, EmptySeq DEF QueueSound, IsList
<1>3. 1 \in DOMAIN queue /\ n \in Nat /\ \A i \in 1 .. n : i + 1 \in DOMAIN queue
  BY <1>1, <1>2
<1>4. (CHOOSE i \in DOMAIN queue : queue[i] = t) = 1
  BY <1>1, <1>3 DEF QueueSound
<1>5. Without(t) = w
  <2>1. Without(t) = [i \in 1 .. (Len(queue) - 1) |-> IF i < 1 THEN queue[i] ELSE queue[i + 1]]
    BY <1>4 DEF Without
  <2>2. \A i \in 1 .. n : ~(i < 1)
    BY <1>3
  <2> QED
    BY <2>1, <2>2
<1>6. IsList(w)
  <2>1. w = [i \in 1 .. n |-> w[i]]
    OBVIOUS
  <2> HIDE DEF w, n
  <2> QED
    BY <1>3, <2>1, FunctionIsList
<1> QED
  BY <1>1, <1>3, <1>5, <1>6

\* Only the first has begun.
LEMMA BegunIsFirst ==
  ASSUME QueueSound, NEW t \in Task, task[t].pc \in {"read", "writing"}
  PROVE  Turn(t) /\ \A s \in Task : s # t => task[s].pc \notin {"read", "writing"}
<1>1. PICK i \in DOMAIN queue : queue[i] = t
  BY DEF QueueSound, Busy
<1>2. i = 1
  BY <1>1 DEF QueueSound
<1>3. queue # <<>>
  BY <1>1
<1>4. ASSUME NEW s \in Task, s # t, task[s].pc \in {"read", "writing"} PROVE FALSE
  <2>1. PICK j \in DOMAIN queue : queue[j] = s
    BY <1>4 DEF QueueSound, Busy
  <2>2. j = 1
    BY <1>4, <2>1 DEF QueueSound
  <2> QED
    BY <1>1, <1>2, <1>4, <2>1, <2>2
<1> QED
  BY <1>1, <1>2, <1>3, <1>4 DEF Turn

\* The queue stays sound when the first task ends and the others stay as they are.
LEMMA EndsTurn ==
  ASSUME QueueSound, NEW t \in Task, Turn(t), queue' = Without(t), task'[t].pc \notin Busy,
         \A s \in Task : s # t => task'[s].pc = task[s].pc
  PROVE  QueueSound'
<1>1. /\ IsList(queue') /\ DOMAIN queue' = 1 .. (Len(queue) - 1)
      /\ \A i \in DOMAIN queue' : i + 1 \in DOMAIN queue /\ queue'[i] = queue[i + 1]
      /\ DOMAIN queue = 1 .. Len(queue) /\ Len(queue) \in Nat /\ 1 \in DOMAIN queue
  BY FirstLeaves
<1>2. queue[1] = t /\ \A i \in DOMAIN queue : i # 1 => queue[i] # t
  BY <1>1 DEF QueueSound, Turn
<1>3. ASSUME NEW i \in DOMAIN queue'
      PROVE  queue'[i] \in Task /\ task'[queue'[i]].pc = "queued"
  <2>1. i + 1 \in DOMAIN queue /\ i + 1 # 1 /\ queue'[i] = queue[i + 1]
    BY <1>1
  <2> QED
    BY <1>2, <2>1 DEF QueueSound
<1>4. ASSUME NEW i \in DOMAIN queue', NEW j \in DOMAIN queue', queue'[i] = queue'[j] PROVE i = j
  BY <1>1, <1>4 DEF QueueSound
<1>5. ASSUME NEW s \in Task, task'[s].pc \in Busy PROVE \E i \in DOMAIN queue' : queue'[i] = s
  <2>1. s # t /\ task[s].pc \in Busy
    BY <1>5
  <2>2. PICK i \in DOMAIN queue : queue[i] = s
    BY <2>1 DEF QueueSound
  <2>3. i # 1
    BY <1>2, <2>1, <2>2
  <2>4. i - 1 \in DOMAIN queue' /\ (i - 1) + 1 = i
    BY <1>1, <2>3
  <2> QED
    BY <1>1, <2>2, <2>4
<1> QED
  BY <1>1, <1>3, <1>4, <1>5 DEF QueueSound, Busy

\* It stays sound when the first goes on.
LEMMA GoesOn ==
  ASSUME QueueSound, NEW t \in Task, Turn(t), UNCHANGED queue, task[t].pc \in Busy, task'[t].pc \in Busy,
         \A s \in Task : s # t => task'[s].pc = task[s].pc
  PROVE  QueueSound'
<1>1. queue[1] = t /\ 1 \in DOMAIN queue
  BY FirstLeaves DEF Turn
<1>2. \A i \in DOMAIN queue : i # 1 => queue[i] # t
  BY <1>1 DEF QueueSound
<1> QED
  BY <1>1, <1>2 DEF QueueSound

-----------------------------------------------------------------------------
\* What a step that changes one task leaves of the others.
LEMMA OneTask ==
  ASSUME StoreTyped, NEW t \in Task, NEW r, task' = [task EXCEPT ![t] = r]
  PROVE  /\ DOMAIN task' = Task /\ task'[t] = r
         /\ \A s \in Task : s # t => task'[s] = task[s]
  BY DEF StoreTyped

\* What a step has to show of the disk.
LEMMA DiskAfter ==
  ASSUME Writing' = {} => file'.state \in {"absent", "whole"} /\ Stored(Content', AnsweredTasks'),
         \A t \in Task : task'[t].pc = "read" => task'[t].rows = Content',
         \A t \in Writing' : Stored(task'[t].rows, AnsweredTasks' \cup {t})
  PROVE  DiskSound'
<1>1. (Writing = {} => file.state \in {"absent", "whole"} /\ Stored(Content, AnsweredTasks))'
  BY DEF Stored
<1>2. (\A t \in Task : task[t].pc = "read" => task[t].rows = Content)'
  OBVIOUS
<1>3. (\A t \in Writing : Stored(task[t].rows, AnsweredTasks \cup {t}))'
  BY DEF Stored
<1> QED
  BY <1>1, <1>2, <1>3 DEF DiskSound

LEMMA EnqueueKeeps == ASSUME StoreInv, NEW t \in Task, Enqueue(t) PROVE StoreInv'
<1> DEFINE r == [pc |-> "queued", rows |-> task[t].rows]
<1>0. StoreTyped /\ QueueSound
  BY DEF StoreInv
<1>1. /\ task[t].pc = "none" /\ queue' = Append(queue, t) /\ UNCHANGED <<file, cuts>>
      /\ task' = [task EXCEPT ![t] = r]
  <2>1. task[t] = [pc |-> task[t].pc, rows |-> task[t].rows] /\ t \in DOMAIN task
    BY <1>0 DEF StoreTyped
  <2>2. [task[t] EXCEPT !.pc = "queued"] = r
    BY <2>1
  <2> HIDE DEF r
  <2> QED
    BY <2>2 DEF Enqueue
<1>2. r.pc = "queued" /\ r.rows = task[t].rows /\ r = [pc |-> r.pc, rows |-> r.rows]
  OBVIOUS
<1> HIDE DEF r
<1>3. /\ DOMAIN task' = Task /\ task'[t] = r
      /\ \A s \in Task : s # t => task'[s] = task[s]
  BY <1>0, <1>1, OneTask
<1>4. QueueSound'
  <2> DEFINE n == Len(queue) + 1
  <2>1. /\ IsList(queue') /\ DOMAIN queue' = DOMAIN queue \cup {n}
        /\ \A i \in DOMAIN queue : queue'[i] = queue[i]
        /\ queue'[n] = t /\ n \notin DOMAIN queue
    BY <1>0, <1>1, AppendIsList DEF QueueSound
  <2> HIDE DEF n
  <2>2. \A i \in DOMAIN queue : queue[i] # t
    BY <1>0, <1>1 DEF QueueSound, Busy
  <2>3. ASSUME NEW i \in DOMAIN queue'
        PROVE  queue'[i] \in Task /\ task'[queue'[i]].pc \in Busy /\ (i # 1 => task'[queue'[i]].pc = "queued")
    <3>1. CASE i = n
      BY <1>2, <1>3, <2>1, <3>1 DEF Busy
    <3>2. CASE i # n
      BY <1>0, <1>3, <2>1, <2>2, <3>2 DEF QueueSound
    <3> QED
      BY <3>1, <3>2
  <2>4. \A i, j \in DOMAIN queue' : queue'[i] = queue'[j] => i = j
    BY <1>0, <2>1, <2>2 DEF QueueSound
  <2>5. ASSUME NEW s \in Task, task'[s].pc \in Busy PROVE \E i \in DOMAIN queue' : queue'[i] = s
    <3>1. CASE s = t
      BY <2>1, <3>1
    <3>2. CASE s # t
      BY <1>0, <1>3, <2>1, <2>5, <3>2 DEF QueueSound
    <3> QED
      BY <3>1, <3>2
  <2> QED
    BY <2>1, <2>3, <2>4, <2>5 DEF QueueSound
<1>5. StoreTyped'
  BY <1>0, <1>1, <1>2, <1>3 DEF StoreTyped
<1>6. ASSUME DiskSound PROVE DiskSound'
  <2>1. Writing' = Writing /\ AnsweredTasks' = AnsweredTasks
    BY <1>1, <1>2, <1>3 DEF Writing, AnsweredTasks
  <2>2. Content' = Content /\ UNCHANGED file
    BY <1>1 DEF Content
  <2>3. \A s \in Task : task'[s].pc = "read" => task[s].pc = "read" /\ task'[s].rows = task[s].rows
    BY <1>2, <1>3
  <2>4. \A s \in Writing : task'[s].rows = task[s].rows
    BY <1>1, <1>2, <1>3 DEF Writing
  <2>5. Writing = {} => file.state \in {"absent", "whole"} /\ Stored(Content, AnsweredTasks)
    BY <1>6 DEF DiskSound
  <2>6. Writing' = {} => file'.state \in {"absent", "whole"} /\ Stored(Content', AnsweredTasks')
    BY <2>1, <2>2, <2>5
  <2>7. \A s \in Task : task'[s].pc = "read" => task'[s].rows = Content'
    BY <1>6, <2>2, <2>3 DEF DiskSound
  <2>8. \A s \in Writing' : Stored(task'[s].rows, AnsweredTasks' \cup {s})
    BY <1>6, <2>1, <2>4 DEF DiskSound
  <2> QED
    BY <2>6, <2>7, <2>8, DiskAfter
<1> QED
  BY <1>1, <1>4, <1>5, <1>6 DEF StoreInv

LEMMA ReadFileKeeps == ASSUME StoreInv, NEW t \in Task, ReadFile(t) PROVE StoreInv'
<1>0. StoreTyped /\ QueueSound
  BY DEF StoreInv
<1>1. task[t].pc = "queued" /\ Turn(t) /\ UNCHANGED <<file, cuts>>
  BY DEF ReadFile
<1>2. \A s \in Task : task[s].pc \notin {"read", "writing"}
  BY <1>0, <1>1, BegunIsFirst DEF Turn
<1>3. CASE Readable
  <2> DEFINE r == [pc |-> "read", rows |-> Content]
  <2>1. task' = [task EXCEPT ![t] = r] /\ UNCHANGED queue
    BY <1>3 DEF ReadFile
  <2>2. r.pc = "read" /\ r.rows = Content /\ r = [pc |-> r.pc, rows |-> r.rows]
    OBVIOUS
  <2> HIDE DEF r
  <2>3. /\ DOMAIN task' = Task /\ task'[t] = r
        /\ \A s \in Task : s # t => task'[s] = task[s]
    BY <1>0, <2>1, OneTask
  <2>4. QueueSound'
    BY <1>0, <1>1, <2>1, <2>2, <2>3, GoesOn DEF Busy
  <2>5. IsList(Content)
    BY <1>0, EmptyIsList DEF Content, StoreTyped
  <2>6. StoreTyped'
    BY <1>0, <1>1, <2>2, <2>3, <2>5 DEF StoreTyped
  <2>7. ASSUME DiskSound PROVE DiskSound'
    <3>1. Writing' = {} /\ Writing = {} /\ AnsweredTasks' = AnsweredTasks
      BY <1>1, <1>2, <2>2, <2>3 DEF Writing, AnsweredTasks
    <3>2. Content' = Content /\ UNCHANGED file
      BY <1>1 DEF Content
    <3>3. \A s \in Task : task'[s].pc = "read" => task'[s].rows = Content
      BY <1>2, <2>2, <2>3
    <3>4. file'.state \in {"absent", "whole"} /\ Stored(Content', AnsweredTasks')
      <4>1. file.state \in {"absent", "whole"} /\ Stored(Content, AnsweredTasks)
        BY <2>7, <3>1 DEF DiskSound
      <4> QED
        BY <3>1, <3>2, <4>1
    <3> QED
      BY <3>1, <3>2, <3>3, <3>4, DiskAfter
  <2> QED
    BY <1>1, <2>4, <2>6, <2>7 DEF StoreInv
<1>4. CASE ~Readable
  <2> DEFINE r == [pc |-> "failed", rows |-> task[t].rows]
  <2>1. task' = [task EXCEPT ![t] = r] /\ queue' = Without(t)
    <3>1. task[t] = [pc |-> task[t].pc, rows |-> task[t].rows] /\ t \in DOMAIN task
      BY <1>0 DEF StoreTyped
    <3>2. [task[t] EXCEPT !.pc = "failed"] = r
      BY <3>1
    <3> HIDE DEF r
    <3> QED
      BY <1>4, <3>2 DEF ReadFile
  <2>2. r.pc = "failed" /\ r.rows = task[t].rows /\ r = [pc |-> r.pc, rows |-> r.rows]
    OBVIOUS
  <2> HIDE DEF r
  <2>3. /\ DOMAIN task' = Task /\ task'[t] = r
        /\ \A s \in Task : s # t => task'[s] = task[s]
    BY <1>0, <2>1, OneTask
  <2>4. QueueSound'
    BY <1>0, <1>1, <2>1, <2>2, <2>3, EndsTurn DEF Busy
  <2>5. StoreTyped'
    BY <1>0, <1>1, <2>2, <2>3 DEF StoreTyped
  <2>6. ASSUME DiskSound PROVE DiskSound'
    <3>1. Writing' = {} /\ Writing = {} /\ AnsweredTasks' = AnsweredTasks
      BY <1>1, <1>2, <2>2, <2>3 DEF Writing, AnsweredTasks
    <3>2. Content' = Content /\ UNCHANGED file
      BY <1>1 DEF Content
    <3>3. \A s \in Task : task'[s].pc # "read"
      BY <1>2, <2>2, <2>3
    <3>4. file'.state \in {"absent", "whole"} /\ Stored(Content', AnsweredTasks')
      <4>1. file.state \in {"absent", "whole"} /\ Stored(Content, AnsweredTasks)
        BY <2>6, <3>1 DEF DiskSound
      <4> QED
        BY <3>1, <3>2, <4>1
    <3> QED
      BY <3>1, <3>3, <3>4, DiskAfter
  <2> QED
    BY <1>1, <2>4, <2>5, <2>6 DEF StoreInv
<1> QED
  BY <1>3, <1>4

LEMMA EmptyKeeps == ASSUME StoreInv, NEW t \in Task, Empty(t) PROVE StoreInv'
<1> DEFINE r == [pc |-> "writing", rows |-> Merged(task[t].rows, RowOf[t])]
<1>0. StoreTyped /\ QueueSound
  BY DEF StoreInv
<1>1. /\ task[t].pc = "read" /\ UNCHANGED <<queue, cuts>> /\ task' = [task EXCEPT ![t] = r]
      /\ file' = [state |-> "blank", rows |-> <<>>]
  BY DEF Empty
<1>2. r.pc = "writing" /\ r.rows = Merged(task[t].rows, RowOf[t]) /\ r = [pc |-> r.pc, rows |-> r.rows]
  OBVIOUS
<1> HIDE DEF r
<1>3. /\ DOMAIN task' = Task /\ task'[t] = r
      /\ \A s \in Task : s # t => task'[s] = task[s]
  BY <1>0, <1>1, OneTask
<1>4. Turn(t) /\ \A s \in Task : s # t => task[s].pc \notin {"read", "writing"}
  BY <1>0, <1>1, BegunIsFirst
<1>5. QueueSound'
  BY <1>0, <1>1, <1>2, <1>3, <1>4, GoesOn DEF Busy
<1>6. IsList(task[t].rows) /\ IsList(r.rows)
  BY <1>0, <1>2, MergedIsList DEF StoreTyped
<1>7. StoreTyped'
  BY <1>0, <1>1, <1>2, <1>3, <1>6, EmptyIsList DEF StoreTyped
<1>8. ASSUME DiskSound PROVE DiskSound'
  <2>1. Writing = {} /\ Writing' = {t} /\ AnsweredTasks' = AnsweredTasks
    BY <1>1, <1>2, <1>3, <1>4 DEF Writing, AnsweredTasks
  <2>2. Stored(task[t].rows, AnsweredTasks)
    <3>1. task[t].rows = Content /\ Stored(Content, AnsweredTasks)
      BY <1>1, <1>8, <2>1 DEF DiskSound
    <3> QED
      BY <3>1
  <2>3. AnsweredTasks \in SUBSET Task
    BY DEF AnsweredTasks
  <2>4. Stored(r.rows, AnsweredTasks \cup {t})
    BY <1>2, <1>6, <2>2, <2>3, MergedStores
  <2>5. \A s \in Task : task'[s].pc # "read"
    BY <1>2, <1>3, <1>4
  <2>6. task'[t].rows = r.rows
    BY <1>3
  <2>7. \A s \in Writing' : Stored(task'[s].rows, AnsweredTasks' \cup {s})
    BY <2>1, <2>4, <2>6
  <2> QED
    BY <2>1, <2>5, <2>7, DiskAfter
<1> QED
  BY <1>1, <1>5, <1>7, <1>8 DEF StoreInv

LEMMA PartKeeps == ASSUME StoreInv, NEW t \in Task, Part(t) PROVE StoreInv'
<1>0. StoreTyped /\ QueueSound
  BY DEF StoreInv
<1>1. /\ task[t].pc = "writing" /\ UNCHANGED <<queue, cuts, task>>
      /\ file' = [state |-> "torn", rows |-> file.rows]
  <2>1. file = [state |-> file.state, rows |-> file.rows]
    BY <1>0 DEF StoreTyped
  <2>2. [file EXCEPT !.state = "torn"] = [state |-> "torn", rows |-> file.rows]
    BY <2>1
  <2> QED
    BY <2>2 DEF Part
<1>2. \A s \in Task : task[s].pc # "read"
  BY <1>0, <1>1, BegunIsFirst
<1>3. StoreTyped'
  BY <1>0, <1>1 DEF StoreTyped
<1>4. QueueSound'
  BY <1>0, <1>1 DEF QueueSound
<1>5. ASSUME DiskSound PROVE DiskSound'
  <2>1. Writing' = Writing /\ AnsweredTasks' = AnsweredTasks /\ t \in Writing
    BY <1>1 DEF Writing, AnsweredTasks
  <2>2. \A s \in Writing' : Stored(task'[s].rows, AnsweredTasks' \cup {s})
    BY <1>1, <1>5, <2>1 DEF DiskSound
  <2>3. \A s \in Task : task'[s].pc # "read"
    BY <1>1, <1>2
  <2> QED
    BY <2>1, <2>2, <2>3, DiskAfter
<1> QED
  BY <1>1, <1>3, <1>4, <1>5 DEF StoreInv

LEMMA WrittenKeeps == ASSUME StoreInv, NEW t \in Task, Written(t) PROVE StoreInv'
<1> DEFINE r == [pc |-> "answered", rows |-> <<>>]
<1>0. StoreTyped /\ QueueSound
  BY DEF StoreInv
<1>1. /\ task[t].pc = "writing" /\ UNCHANGED cuts /\ task' = [task EXCEPT ![t] = r]
      /\ file' = [state |-> "whole", rows |-> task[t].rows] /\ queue' = Without(t)
  BY DEF Written
<1>2. r.pc = "answered" /\ r.rows = <<>> /\ r = [pc |-> r.pc, rows |-> r.rows]
  OBVIOUS
<1> HIDE DEF r
<1>3. /\ DOMAIN task' = Task /\ task'[t] = r
      /\ \A s \in Task : s # t => task'[s] = task[s]
  BY <1>0, <1>1, OneTask
<1>4. Turn(t) /\ \A s \in Task : s # t => task[s].pc \notin {"read", "writing"}
  BY <1>0, <1>1, BegunIsFirst
<1>5. QueueSound'
  BY <1>0, <1>1, <1>2, <1>3, <1>4, EndsTurn DEF Busy
<1>6. StoreTyped'
  BY <1>0, <1>1, <1>2, <1>3, EmptyIsList DEF StoreTyped
<1>7. ASSUME DiskSound PROVE DiskSound'
  <2>1. t \in Writing /\ Writing' = {} /\ AnsweredTasks' = AnsweredTasks \cup {t}
    BY <1>1, <1>2, <1>3, <1>4 DEF Writing, AnsweredTasks
  <2>2. Content' = task[t].rows /\ file'.state = "whole"
    BY <1>1 DEF Content
  <2>3. Stored(task[t].rows, AnsweredTasks \cup {t})
    BY <1>7, <2>1 DEF DiskSound
  <2>4. \A s \in Task : task'[s].pc # "read"
    BY <1>2, <1>3, <1>4
  <2>5. Stored(Content', AnsweredTasks')
    BY <2>1, <2>2, <2>3
  <2> QED
    BY <2>1, <2>2, <2>4, <2>5, DiskAfter
<1> QED
  BY <1>1, <1>5, <1>6, <1>7 DEF StoreInv

LEMMA WriteFailsKeeps == ASSUME StoreInv, NEW t \in Task, WriteFails(t) PROVE StoreInv'
<1> DEFINE r == [pc |-> "failed", rows |-> <<>>]
<1>0. StoreTyped /\ QueueSound
  BY DEF StoreInv
<1>1. /\ task[t].pc = "writing" /\ UNCHANGED file /\ task' = [task EXCEPT ![t] = r]
      /\ queue' = Without(t) /\ cuts' = [writes |-> cuts.writes + 1, ends |-> cuts.ends]
  <2>1. cuts = [writes |-> cuts.writes, ends |-> cuts.ends]
    BY <1>0 DEF StoreTyped
  <2>2. [cuts EXCEPT !.writes = @ + 1] = [writes |-> cuts.writes + 1, ends |-> cuts.ends]
    BY <2>1
  <2> HIDE DEF r
  <2> QED
    BY <2>2 DEF WriteFails, r
<1>2. r.pc = "failed" /\ r.rows = <<>> /\ r = [pc |-> r.pc, rows |-> r.rows]
  OBVIOUS
<1> HIDE DEF r
<1>3. /\ DOMAIN task' = Task /\ task'[t] = r
      /\ \A s \in Task : s # t => task'[s] = task[s]
  BY <1>0, <1>1, OneTask
<1>4. Turn(t)
  BY <1>0, <1>1, BegunIsFirst
<1>5. QueueSound'
  BY <1>0, <1>1, <1>2, <1>3, <1>4, EndsTurn DEF Busy
<1>6. cuts.writes \in Nat /\ cuts'.writes = cuts.writes + 1
  BY <1>0, <1>1 DEF StoreTyped
<1>7. StoreTyped'
  BY <1>0, <1>1, <1>2, <1>3, <1>6, EmptyIsList DEF StoreTyped
<1> QED
  BY <1>5, <1>6, <1>7 DEF StoreInv

LEMMA EndsKeeps == ASSUME StoreInv, Ends PROVE StoreInv'
<1>0. StoreTyped /\ QueueSound
  BY DEF StoreInv
<1>1. /\ cuts' = [ends |-> cuts.ends + 1, writes |-> cuts.writes + Cardinality(Writing)]
      /\ queue' = <<>> /\ UNCHANGED file
      /\ task' = [s \in Task |-> IF task[s].pc \in Busy THEN [pc |-> "failed", rows |-> <<>>] ELSE task[s]]
  BY DEF Ends, Writing, Busy
<1>2. \A s \in Task : task[s].pc \in Busy => task'[s] = [pc |-> "failed", rows |-> <<>>]
  BY <1>1
<1>3. \A s \in Task : task[s].pc \notin Busy => task'[s] = task[s]
  BY <1>1
<1>4. \A s \in Task : task'[s].pc \notin Busy
  BY <1>2, <1>3 DEF Busy
<1>5. Cardinality(Writing) \in Nat /\ (Writing # {} => Cardinality(Writing) = 1)
  <2>1. CASE Writing = {}
    BY <2>1, FS_EmptySet
  <2>2. CASE Writing # {}
    <3>1. PICK t \in Task : t \in Writing
      BY <2>2 DEF Writing
    <3>2. Writing = {t}
      BY <1>0, <3>1, BegunIsFirst DEF Writing
    <3> QED
      BY <3>2, FS_Singleton
  <2> QED
    BY <2>1, <2>2
<1>6. cuts.writes \in Nat /\ cuts'.writes = cuts.writes + Cardinality(Writing)
  BY <1>0, <1>1 DEF StoreTyped
<1>7. StoreTyped'
  <2>1. cuts' = [writes |-> cuts'.writes, ends |-> cuts'.ends] /\ cuts'.writes \in Nat
    BY <1>1, <1>5, <1>6
  <2>2. DOMAIN task' = Task
    BY <1>1
  <2>3. ASSUME NEW s \in Task
        PROVE  task'[s] = [pc |-> task'[s].pc, rows |-> task'[s].rows] /\ IsList(task'[s].rows)
    <3>1. CASE task[s].pc \in Busy
      BY <1>2, <3>1, EmptyIsList
    <3>2. CASE task[s].pc \notin Busy
      BY <1>0, <1>3, <3>2 DEF StoreTyped
    <3> QED
      BY <3>1, <3>2
  <2> QED
    BY <1>0, <1>1, <2>1, <2>2, <2>3 DEF StoreTyped
<1>8. QueueSound'
  BY <1>1, <1>4, EmptyIsList DEF QueueSound
<1>9. ASSUME cuts'.writes = 0 PROVE DiskSound'
  <2>1. cuts.writes = 0 /\ Writing = {}
    BY <1>5, <1>6, <1>9
  <2>2. DiskSound
    BY <2>1 DEF StoreInv
  <2>3. Writing' = {} /\ AnsweredTasks' = AnsweredTasks
    BY <1>2, <1>3, <1>4 DEF Writing, AnsweredTasks, Busy
  <2>4. Content' = Content /\ UNCHANGED file
    BY <1>1 DEF Content
  <2>5. \A s \in Task : task'[s].pc # "read"
    BY <1>4 DEF Busy
  <2>6. file.state \in {"absent", "whole"} /\ Stored(Content, AnsweredTasks)
    BY <2>1, <2>2 DEF DiskSound
  <2>7. file'.state \in {"absent", "whole"} /\ Stored(Content', AnsweredTasks')
    BY <2>3, <2>4, <2>6
  <2> QED
    BY <2>3, <2>5, <2>7, DiskAfter
<1> QED
  BY <1>7, <1>8, <1>9 DEF StoreInv

LEMMA StoreRests == ASSUME StoreInv, UNCHANGED storeVars PROVE StoreInv'
<1>1. UNCHANGED <<file, queue, task, cuts>>
  BY DEF storeVars
<1>2. StoreTyped' /\ QueueSound'
  BY <1>1 DEF StoreInv, StoreTyped, QueueSound
<1>3. ASSUME DiskSound PROVE DiskSound'
  <2>1. Writing' = Writing /\ AnsweredTasks' = AnsweredTasks /\ Content' = Content
    BY <1>1 DEF Writing, AnsweredTasks, Content
  <2>2. Writing' = {} => file'.state \in {"absent", "whole"} /\ Stored(Content', AnsweredTasks')
    BY <1>1, <1>3, <2>1 DEF DiskSound
  <2>3. \A t \in Task : task'[t].pc = "read" => task'[t].rows = Content'
    BY <1>1, <1>3, <2>1 DEF DiskSound
  <2>4. \A t \in Writing' : Stored(task'[t].rows, AnsweredTasks' \cup {t})
    BY <1>1, <1>3, <2>1 DEF DiskSound
  <2> QED
    BY <2>2, <2>3, <2>4, DiskAfter
<1> QED
  BY <1>1, <1>2, <1>3 DEF StoreInv

-----------------------------------------------------------------------------
\* A session is the last correct password's.
ViewInv ==
  /\ DOMAIN cookie = Visitor /\ DOMAIN signedIn = Visitor
  /\ \A v \in Visitor : cookie[v] # NoSession => signedIn[v] = cookie[v]
  /\ ShownToSignedIn

\* The table of the markets adds up to the rows, and to the completed ones.
LEMMA BreakdownAddsUp ==
  ASSUME NEW rows, IsList(rows)
  PROVE  LET markets == computeMarketBreakdown(rows)
             summary == computeSummary(rows)
         IN /\ summary.starts = Total([m \in DOMAIN markets |-> markets[m].starts])
            /\ summary.completions = Total([m \in DOMAIN markets |-> markets[m].completions])
<1> DEFINE D == DOMAIN rows
           done == {i \in D : rows[i].completed}
           M == {rows[i].market : i \in D}
           label == [i \in D |-> rows[i].market]
           markets == computeMarketBreakdown(rows)
           s == [m \in M |-> Cardinality({i \in D : label[i] = m})]
           c == [m \in M |-> Cardinality({i \in done : label[i] = m})]
<1>1. PICK n \in Nat : n = Len(rows)
  BY DEF IsList
<1>2. D = 1 .. n
  BY <1>1 DEF IsList
<1>3. IsFiniteSet(D) /\ Cardinality(D) = n
  <2> HIDE DEF D
  <2>1. n \in Int /\ 1 \in Int
    OBVIOUS
  <2>2. IsFiniteSet(1 .. n) /\ Cardinality(1 .. n) = IF 1 > n THEN 0 ELSE n - 1 + 1
    BY <2>1, FS_Interval
  <2>3. (IF 1 > n THEN 0 ELSE n - 1 + 1) = n
    OBVIOUS
  <2> QED
    BY <1>2, <2>2, <2>3
<1>4. M = {label[i] : i \in D} /\ \A i \in D : label[i] \in M
  OBVIOUS
<1>5. IsFiniteSet(M)
  <2>1. label \in [D -> M] /\ \A m \in M : \E i \in D : label[i] = m
    BY <1>4
  <2> HIDE DEF D, label, M
  <2>2. label \in Surjection(D, M)
    BY <2>1 DEF Surjection
  <2> QED
    BY <1>3, <2>2, FS_Surjection
<1>6. IsFiniteSet(done) /\ done \in SUBSET D
  <2>1. done \in SUBSET D
    OBVIOUS
  <2> HIDE DEF done, D
  <2> QED
    BY <1>3, <2>1, FS_Subset
<1>7. Total(s) = Cardinality(D)
  <2>1. DOMAIN s = M /\ \A m \in DOMAIN s : s[m] = Cardinality({i \in D : label[i] = m})
    OBVIOUS
  <2> HIDE DEF s, M, label, D
  <2> QED
    BY <1>3, <1>4, <1>5, <2>1, LabelsCount
<1>8. Total(c) = Cardinality(done)
  <2>1. DOMAIN c = M /\ \A m \in DOMAIN c : c[m] = Cardinality({i \in done : label[i] = m})
    OBVIOUS
  <2>2. \A i \in done : label[i] \in M
    BY <1>4, <1>6
  <2> HIDE DEF c, M, label, D, done
  <2> QED
    BY <1>5, <1>6, <2>1, <2>2, LabelsCount
<1>9. DOMAIN markets = M
  BY DEF computeMarketBreakdown
<1>10. ASSUME NEW m \in M
       PROVE  markets[m].starts = s[m] /\ markets[m].completions = c[m]
  <2>1. {i \in D : rows[i].market = m} = {i \in D : label[i] = m}
    OBVIOUS
  <2>2. {i \in {j \in D : rows[j].market = m} : rows[i].completed} = {i \in done : label[i] = m}
    OBVIOUS
  <2>3. markets[m] = [starts      |-> Cardinality({i \in D : rows[i].market = m}),
                      completions |-> Cardinality({i \in {j \in D : rows[j].market = m} : rows[i].completed})]
    BY DEF computeMarketBreakdown
  <2>4. s[m] = Cardinality({i \in D : label[i] = m}) /\ c[m] = Cardinality({i \in done : label[i] = m})
    OBVIOUS
  <2> DEFINE a == {i \in D : rows[i].market = m}
             b == {i \in {j \in D : rows[j].market = m} : rows[i].completed}
  <2>5. markets[m].starts = Cardinality(a) /\ markets[m].completions = Cardinality(b)
    <3>1. markets[m] = [starts |-> Cardinality(a), completions |-> Cardinality(b)]
      BY <2>3
    <3> HIDE DEF a, b, markets
    <3> QED
      BY <3>1
  <2>6. s[m] = Cardinality(a) /\ c[m] = Cardinality(b)
    BY <2>1, <2>2, <2>4
  <2> HIDE DEF a, b, markets, s, c
  <2> QED
    BY <2>5, <2>6
<1>11. [m \in DOMAIN markets |-> markets[m].starts] = s /\ [m \in DOMAIN markets |-> markets[m].completions] = c
  <2>1. s = [m \in M |-> s[m]] /\ c = [m \in M |-> c[m]]
    OBVIOUS
  <2> HIDE DEF D, done, M, label, markets, s, c
  <2> QED
    BY <1>9, <1>10, <2>1
<1>12. computeSummary(rows) = [starts |-> n, completions |-> Cardinality(done)]
  BY <1>1 DEF computeSummary
<1> HIDE DEF D, done, s, c, label
<1> QED
  BY <1>3, <1>7, <1>8, <1>11, <1>12

LEMMA LoginKeeps ==
  ASSUME ViewInv, NEW v \in Visitor, NEW correct \in BOOLEAN, loginAction(v, correct)
  PROVE  ViewInv'
<1>1. UNCHANGED shownPage
  BY DEF loginAction
<1>2. ShownToSignedIn'
  BY <1>1 DEF ViewInv, ShownToSignedIn
<1>3. CASE correct
  <2>1. cookie' = [cookie EXCEPT ![v] = date] /\ signedIn' = [signedIn EXCEPT ![v] = date]
    BY <1>3 DEF loginAction
  <2> QED
    BY <1>2, <2>1 DEF ViewInv
<1>4. CASE ~correct
  <2>1. cookie' = [cookie EXCEPT ![v] = cookie[v]] /\ signedIn' = [signedIn EXCEPT ![v] = signedIn[v]]
    BY <1>4 DEF loginAction
  <2> QED
    BY <1>2, <2>1 DEF ViewInv
<1> QED
  BY <1>3, <1>4

LEMMA LogoutKeeps == ASSUME ViewInv, NEW v \in Visitor, logoutAction(v) PROVE ViewInv'
<1>1. cookie' = [cookie EXCEPT ![v] = NoSession] /\ UNCHANGED <<signedIn, shownPage>>
  BY DEF logoutAction
<1>2. ShownToSignedIn'
  BY <1>1 DEF ViewInv, ShownToSignedIn
<1> QED
  BY <1>1, <1>2 DEF ViewInv

LEMMA PageKeeps == ASSUME StoreInv, ViewInv, NEW v \in Visitor, DashboardPage(v) PROVE ViewInv'
<1> DEFINE rows == Content
           markets == computeMarketBreakdown(rows)
           summary == computeSummary(rows)
<1>1. /\ shownPage' = [to |-> v, on |-> date, signed |-> signedIn[v], rows |-> rows,
                       markets |-> markets, summary |-> summary]
      /\ UNCHANGED <<cookie, signedIn>>
      /\ cookie[v] # NoSession /\ date - cookie[v] < SessionDays
  BY DEF DashboardPage, verifyDashboardSession
<1>2. signedIn[v] = cookie[v]
  BY <1>1 DEF ViewInv
<1>3. IsList(rows)
  BY EmptyIsList DEF Content, StoreInv, StoreTyped
<1> HIDE DEF rows
<1>4. /\ summary.starts = Total([m \in DOMAIN markets |-> markets[m].starts])
      /\ summary.completions = Total([m \in DOMAIN markets |-> markets[m].completions])
  BY <1>3, BreakdownAddsUp
<1> HIDE DEF markets, summary
<1>5. ShownToSignedIn'
  BY <1>1, <1>2, <1>4 DEF ShownToSignedIn
<1> QED
  BY <1>1, <1>5 DEF ViewInv

LEMMA ViewRests == ASSUME ViewInv, UNCHANGED <<cookie, signedIn, shownPage>> PROVE ViewInv'
  BY DEF ViewInv, ShownToSignedIn

LEMMA DashboardStarts == DashboardInit => StoreInv /\ ViewInv
<1> SUFFICES ASSUME DashboardInit PROVE StoreInv /\ ViewInv
  OBVIOUS
<1>1. /\ file = [state |-> "absent", rows |-> <<>>] /\ queue = <<>> /\ cuts = [writes |-> 0, ends |-> 0]
      /\ task = [t \in Task |-> Waiting]
  BY DEF DashboardInit
<1>2. \A t \in Task : task[t] = [pc |-> "none", rows |-> <<>>]
  BY <1>1 DEF Waiting
<1>3. StoreTyped
  BY <1>1, <1>2, EmptyIsList DEF StoreTyped
<1>4. QueueSound
  BY <1>1, <1>2, EmptyIsList DEF QueueSound, Busy
<1>5. DiskSound
  <2>1. Writing = {} /\ AnsweredTasks = {} /\ Content = <<>> /\ file.state = "absent"
    BY <1>1, <1>2 DEF Writing, AnsweredTasks, Content
  <2>2. Stored(<<>>, {})
    BY EmptyIsList DEF Stored
  <2>3. \A t \in Task : task[t].pc # "read"
    BY <1>2
  <2> QED
    BY <2>1, <2>2, <2>3 DEF DiskSound
<1>6. ViewInv
  BY DEF DashboardInit, ViewInv, ShownToSignedIn
<1> QED
  BY <1>3, <1>4, <1>5, <1>6 DEF StoreInv

LEMMA DashboardStep == StoreInv /\ ViewInv /\ [DashboardNext]_dashboardVars => (StoreInv /\ ViewInv)'
<1> SUFFICES ASSUME StoreInv, ViewInv, [DashboardNext]_dashboardVars PROVE StoreInv' /\ ViewInv'
  OBVIOUS
<1>1. ASSUME NEW t \in Task,
             Enqueue(t) \/ ReadFile(t) \/ Empty(t) \/ Part(t) \/ Written(t) \/ WriteFails(t)
      PROVE  StoreInv' /\ ViewInv'
  <2>1. StoreInv'
    BY <1>1, EnqueueKeeps, ReadFileKeeps, EmptyKeeps, PartKeeps, WrittenKeeps, WriteFailsKeeps
  <2>2. UNCHANGED <<cookie, signedIn, shownPage>>
    BY <1>1 DEF Enqueue, ReadFile, Empty, Part, Written, WriteFails, visitVars
  <2> QED
    BY <2>1, <2>2, ViewRests
<1>2. CASE Ends
  <2>1. UNCHANGED <<cookie, signedIn, shownPage>>
    BY <1>2 DEF Ends, visitVars
  <2> QED
    BY <1>2, <2>1, EndsKeeps, ViewRests
<1>3. CASE NewDay
  <2>1. UNCHANGED storeVars /\ UNCHANGED <<cookie, signedIn, shownPage>>
    BY <1>3 DEF NewDay
  <2> QED
    BY <2>1, StoreRests, ViewRests
<1>4. ASSUME NEW v \in Visitor,
             (\E correct \in BOOLEAN : loginAction(v, correct)) \/ logoutAction(v) \/ DashboardPage(v)
      PROVE  StoreInv' /\ ViewInv'
  <2>1. UNCHANGED storeVars
    BY <1>4 DEF loginAction, logoutAction, DashboardPage
  <2> QED
    BY <1>4, <2>1, StoreRests, LoginKeeps, LogoutKeeps, PageKeeps
<1>5. CASE UNCHANGED dashboardVars
  <2>1. UNCHANGED storeVars /\ UNCHANGED <<cookie, signedIn, shownPage>>
    BY <1>5 DEF dashboardVars, storeVars
  <2> QED
    BY <2>1, StoreRests, ViewRests
<1> QED
  BY <1>1, <1>2, <1>3, <1>4, <1>5 DEF DashboardNext

LEMMA StoredIsAnswered == StoreInv /\ ViewInv => StoreAnswers
<1> SUFFICES ASSUME StoreInv, ViewInv PROVE StoreAnswers
  OBVIOUS
<1>1. ASSUME cuts.writes = 0, \A t \in Task : task[t].pc # "writing"
      PROVE  Stored(Content, AnsweredTasks)
  <2>1. DiskSound /\ Writing = {}
    BY <1>1 DEF StoreInv, Writing
  <2> QED
    BY <2>1 DEF DiskSound
<1>2. AnsweredIsStored
  BY <1>1 DEF AnsweredIsStored, Stored
<1> QED
  BY <1>2 DEF StoreAnswers, ViewInv

\* A theorem: in whatever order requests wait, are read, written, fail or are lost with the
\* process, what was answered is in the file until a write is cut short; and the dashboard
\* is shown to who signed in, with tables that add up.
THEOREM StoreAlwaysAnswers == DashboardSpec => []StoreAnswers
<1> QED
  BY DashboardStarts, DashboardStep, StoredIsAnswered, PTL DEF DashboardSpec
-----------------------------------------------------------------------------
(***************************************************************************)
(* Fetching the prices: the pages read are the beginning of the list, and  *)
(* a token lasts the margin.                                               *)
(***************************************************************************)
\* What a request has read of a list that stays as it is.
PagesRead(f, list) ==
  IF f.priced THEN f.rows = list
  ELSE (f.batch - 1) * PageSize <= Len(list) /\ f.rows = SubSeq(list, 1, (f.batch - 1) * PageSize)

TokenSound(token) == token.issued \in Nat /\ token.life \in Nat

\* A request under way: its token lasts the margin from when it was taken, less what the
\* token's answer took.
Reading(f, list) ==
  /\ f = [pc |-> "reading", route |-> f.route, token |-> f.token, taken |-> f.taken,
          steady |-> f.steady, garbled |-> f.garbled, rows |-> f.rows, batch |-> f.batch,
          priced |-> f.priced, detailed |-> f.detailed]
  /\ TokenSound(f.token) /\ f.taken \in Nat /\ f.batch \in Nat \ {0}
  /\ f.token.life >= Floor => f.taken + Margin <= f.token.issued + f.token.life + TokenTimeout
  /\ {f.steady, f.garbled, f.priced} \subseteq BOOLEAN
  /\ f.steady /\ ~f.garbled => PagesRead(f, list)

\* SnapshotWhole of one request.
WholeOffer(offered, list) ==
  LET Priced == {i \in DOMAIN list : list[i].price > 0}
  IN /\ {offered.stations[i].id : i \in DOMAIN offered.stations} = {list[i].id : i \in Priced}
     /\ Cardinality(DOMAIN offered.stations) = Cardinality(Priced)
     /\ \A i \in DOMAIN offered.stations :
          LET s == offered.stations[i] IN
          /\ s.price <= offered.providers[s.provider].price
          /\ offered.providers[s.provider].price <= offered.country.price
     /\ Cardinality(Priced) =
          Total([p \in DOMAIN offered.providers |-> offered.providers[p].stations])

CallSound(f, list) ==
  /\ f.pc = "token" => TokenSound(f.value)
  /\ f.pc = "reading" => Reading(f, list)
  /\ f.pc = "answered" /\ f.whole => WholeOffer(f.options, f.list)
  /\ f.pc = "refused" => f.life < Floor \/ f.after >= Margin - TokenTimeout

CachedSound(cached) ==
  cached # NoToken =>
    /\ TokenSound(cached.value) /\ cached.expiresAt \in Nat
    /\ cached.value.life >= Floor =>
         cached.expiresAt <= cached.value.issued + cached.value.life + TokenTimeout

FetchInv ==
  /\ seconds \in Nat /\ source.list \in PriceList /\ DOMAIN fetch = Caller
  /\ CachedSound(cachedToken)
  /\ \A c \in Caller : CallSound(fetch[c], source.list)

-----------------------------------------------------------------------------
\* The dearest of some stations is one of theirs, and none is dearer.
LEMMA DearestIs ==
  ASSUME NEW S, IsFiniteSet(S), S # {}, NEW all, \A i \in S : all[i].price \in Nat
  PROVE  LET d == CHOOSE price \in {all[i].price : i \in S} : \A i \in S : all[i].price <= price
         IN d \in {all[i].price : i \in S} /\ \A i \in S : all[i].price <= d
<1> DEFINE f == [i \in S |-> all[i].price]
<1>1. \A i \in S : f[i] \in Int /\ f[i] = all[i].price
  OBVIOUS
<1> HIDE DEF f
<1>2. PICK m \in S : \A i \in S : f[i] <= f[m]
  BY <1>1, GreatestOfFinite
<1>3. \E price \in {all[i].price : i \in S} : \A i \in S : all[i].price <= price
  BY <1>1, <1>2
<1> QED
  BY <1>3

\* The offer made of a list is whole.
LEMMA OfferIsWhole == ASSUME NEW list \in PriceList PROVE WholeOffer(Options(list), list)
<1> DEFINE Priced == {i \in DOMAIN list : list[i].price > 0}
           all == Stations(list)
           Of(p) == {i \in DOMAIN all : all[i].provider = p}
           Dearest(S) == CHOOSE price \in {all[i].price : i \in S} : \A i \in S : all[i].price <= price
           Offer(S) == [price |-> Dearest(S), stations |-> Cardinality(S)]
           P == {all[i].provider : i \in DOMAIN all}
           providers == [p \in P |-> Offer(Of(p))]
           label == [i \in Priced |-> all[i].provider]
           count == [p \in P |-> Cardinality(Of(p))]
           offered == Options(list)
<1>1. IsFiniteSet(Priced)
  <2>1. PICK n \in Nat : n = Len(list)
    BY FuelFinderAssumption, LenProperties
  <2>2. DOMAIN list = 1 .. n
    BY <2>1, FuelFinderAssumption, LenProperties
  <2>3. n \in Int /\ 1 \in Int
    OBVIOUS
  <2>4. IsFiniteSet(1 .. n)
    BY <2>3, FS_Interval
  <2>5. Priced \in SUBSET (1 .. n)
    BY <2>2
  <2> HIDE DEF Priced
  <2> QED
    BY <2>4, <2>5, FS_Subset
<1>2. /\ DOMAIN all = Priced
      /\ \A i \in Priced : all[i].id = list[i].id /\ all[i].price = list[i].price /\ all[i].price \in Nat
  BY FuelFinderAssumption DEF Stations
<1>3. /\ offered.stations = all /\ offered.providers = providers
      /\ offered.country = IF DOMAIN all = {} THEN NoBrand ELSE Offer(DOMAIN all)
  BY DEF Options
<1> HIDE DEF all, offered, Priced
<1>4. {all[i].id : i \in DOMAIN all} = {list[i].id : i \in Priced}
  BY <1>2
<1>5. ASSUME NEW i \in Priced
      PROVE  LET p == all[i].provider IN
             all[i].price <= providers[p].price /\ providers[p].price <= Offer(Priced).price
  <2> DEFINE p == all[i].provider
             S == Of(p)
  <2>1. p \in P /\ i \in S /\ S \in SUBSET Priced
    BY <1>2
  <2>2. providers[p].price = Dearest(S) /\ Offer(Priced).price = Dearest(Priced)
    <3>1. providers[p] = Offer(S)
      BY <2>1
    <3> HIDE DEF S, Dearest, providers
    <3> QED
      BY <3>1
  <2> HIDE DEF S, P, providers
  <2>3. IsFiniteSet(S) /\ S # {} /\ \A j \in S : all[j].price \in Nat
    BY <1>1, <1>2, <2>1, FS_Subset
  <2>4. Dearest(S) \in {all[j].price : j \in S} /\ \A j \in S : all[j].price <= Dearest(S)
    BY ONLY <2>3, DearestIs
  <2>5. \A j \in Priced : all[j].price <= Dearest(Priced)
    <3>1. \A j \in Priced : all[j].price \in Nat
      BY <1>2
    <3>2. Priced # {}
      OBVIOUS
    <3> QED
      BY ONLY <1>1, <3>1, <3>2, DearestIs
  <2> HIDE DEF Dearest
  <2>6. PICK j \in S : Dearest(S) = all[j].price
    BY <2>4
  <2> QED
    BY <2>1, <2>2, <2>4, <2>5, <2>6
<1>6. Total(count) = Cardinality(Priced)
  <2>1. DOMAIN count = P /\ \A p \in DOMAIN count : count[p] = Cardinality({i \in Priced : label[i] = p})
    <3>1. ASSUME NEW p \in P PROVE Of(p) = {i \in Priced : label[i] = p}
      BY <1>2
    <3>2. \A p \in P : count[p] = Cardinality(Of(p))
      OBVIOUS
    <3> HIDE DEF Of, P, label
    <3> QED
      BY <3>1, <3>2
  <2>2. \A i \in Priced : label[i] \in P
    BY <1>2
  <2>3. label \in Surjection(Priced, P)
    <3>1. label \in [Priced -> P] /\ \A p \in P : \E i \in Priced : label[i] = p
      BY <1>2
    <3> HIDE DEF label, P
    <3> QED
      BY <3>1 DEF Surjection
  <2> HIDE DEF label, P, count
  <2>4. IsFiniteSet(P)
    BY <1>1, <2>3, FS_Surjection
  <2> QED
    BY <1>1, <2>1, <2>2, <2>4, LabelsCount
<1>7. [p \in DOMAIN providers |-> providers[p].stations] = count
  <2>1. \A p \in P : providers[p].stations = Cardinality(Of(p))
    <3> HIDE DEF Dearest, Of, P
    <3> QED
      OBVIOUS
  <2>2. DOMAIN providers = P
    OBVIOUS
  <2> HIDE DEF P, providers, Of
  <2> QED
    BY <2>1, <2>2
<1>8. ASSUME NEW i \in DOMAIN all
      PROVE  LET s == all[i] IN
             /\ s.price <= offered.providers[s.provider].price
             /\ offered.providers[s.provider].price <= offered.country.price
  <2>1. i \in Priced /\ DOMAIN all # {}
    BY <1>2
  <2>2. offered.country = Offer(Priced)
    BY <1>2, <1>3, <2>1
  <2> HIDE DEF Offer, providers
  <2> QED
    BY <1>3, <1>5, <2>1, <2>2
<1> HIDE DEF providers, Offer, count
<1>9. Cardinality(Priced) = Total([p \in DOMAIN offered.providers |-> offered.providers[p].stations])
  BY <1>3, <1>6, <1>7
<1>10. DOMAIN offered.stations = Priced /\ \A i \in DOMAIN offered.stations : offered.stations[i] = all[i]
  BY <1>2, <1>3
<1>11. {offered.stations[i].id : i \in DOMAIN offered.stations} = {list[i].id : i \in Priced}
  BY <1>3, <1>4
<1>12. \A i \in DOMAIN offered.stations :
         LET s == offered.stations[i] IN
         /\ s.price <= offered.providers[s.provider].price
         /\ offered.providers[s.provider].price <= offered.country.price
  BY <1>2, <1>3, <1>8
<1>13. Cardinality(DOMAIN offered.stations) = Cardinality(Priced)
  BY <1>10
<1>14. WholeOffer(offered, list)
  BY <1>9, <1>11, <1>12, <1>13 DEF WholeOffer, Priced
<1> QED
  BY <1>14 DEF offered

-----------------------------------------------------------------------------
\* One more page of a list goes on where the pages before it ended.
LEMMA NextPage ==
  ASSUME NEW list \in PriceList, NEW batch \in Nat \ {0}, (batch - 1) * PageSize <= Len(list)
  PROVE  LET more == Page(list, batch)
             rows == SubSeq(list, 1, (batch - 1) * PageSize) \o more
         IN IF LastPage(more) THEN rows = list
            ELSE batch * PageSize <= Len(list) /\ rows = SubSeq(list, 1, batch * PageSize)
<1> DEFINE k == (batch - 1) * PageSize
           e == batch * PageSize
           n == Len(list)
           m == Smaller(e, n)
           S == {list[i] : i \in DOMAIN list}
<1>1. list \in Seq(S) /\ n \in Nat /\ DOMAIN list = 1 .. n
  BY FuelFinderAssumption, LenProperties
<1>2. PageSize \in Nat /\ PageSize > 0
  BY FuelFinderAssumption
<1>3. k \in Nat /\ e \in Nat /\ e = k + PageSize
  BY <1>2
<1>4. k <= n
  OBVIOUS
<1>5. Page(list, batch) = SubSeq(list, k + 1, m)
  BY DEF Page
<1> HIDE DEF k, e, n
<1>6. m \in k .. n /\ (e <= n => m = e) /\ (e > n => m = n)
  BY <1>1, <1>2, <1>3, <1>4 DEF Smaller
<1> HIDE DEF m, S
<1>7. SubSeq(list, 1, k) \o SubSeq(list, k + 1, m) = SubSeq(list, 1, m)
  <2>1. 1 \in 1 .. n + 1 /\ k \in 0 .. n /\ m \in k .. n /\ k \in 1 - 1 .. n
    BY <1>1, <1>3, <1>4, <1>6
  <2> QED
    BY <1>1, <2>1, ConcatAdjacentSubSeq DEF n
<1>8. Len(SubSeq(list, k + 1, m)) = m - k
  <2>1. k + 1 \in Int /\ m \in Int /\ \A i \in k + 1 .. m : list[i] \in S
    BY <1>1, <1>3, <1>4, <1>6 DEF S
  <2>2. Len(SubSeq(list, k + 1, m)) = IF k + 1 <= m THEN m - (k + 1) + 1 ELSE 0
    BY ONLY <2>1, SubSeqProperties
  <2> QED
    BY <1>1, <1>3, <1>6, <2>2
<1>9. SubSeq(list, 1, n) = list
  BY <1>1, SubSeqFull DEF n
<1>10. CASE e <= n
  <2>1. m = e /\ ~LastPage(Page(list, batch))
    BY <1>2, <1>3, <1>5, <1>6, <1>8, <1>10 DEF LastPage
  <2> QED
    BY <1>5, <1>7, <1>10, <2>1 DEF e, n, k
<1>11. CASE e > n
  <2>1. m = n /\ LastPage(Page(list, batch))
    BY <1>1, <1>2, <1>3, <1>4, <1>5, <1>6, <1>8, <1>11 DEF LastPage
  <2> QED
    BY <1>5, <1>7, <1>9, <2>1 DEF k
<1>12. e <= n \/ e > n
  BY <1>1, <1>3
<1> QED
  BY <1>10, <1>11, <1>12

\* What the steps of a request under way leave of it.
LEMMA SteadyMoves ==
  ASSUME NEW f,
         f = [pc |-> "reading", route |-> f.route, token |-> f.token, taken |-> f.taken, steady |-> f.steady,
              garbled |-> f.garbled, rows |-> f.rows, batch |-> f.batch, priced |-> f.priced, detailed |-> f.detailed],
         NEW v
  PROVE  [f EXCEPT !.steady = v] =
              [pc |-> "reading", route |-> f.route, token |-> f.token, taken |-> f.taken, steady |-> v,
               garbled |-> f.garbled, rows |-> f.rows, batch |-> f.batch, priced |-> f.priced, detailed |-> f.detailed]
  OBVIOUS

LEMMA DetailedMoves ==
  ASSUME NEW f,
         f = [pc |-> "reading", route |-> f.route, token |-> f.token, taken |-> f.taken, steady |-> f.steady,
              garbled |-> f.garbled, rows |-> f.rows, batch |-> f.batch, priced |-> f.priced, detailed |-> f.detailed],
         NEW v
  PROVE  [f EXCEPT !.detailed = v] =
              [pc |-> "reading", route |-> f.route, token |-> f.token, taken |-> f.taken, steady |-> f.steady,
               garbled |-> f.garbled, rows |-> f.rows, batch |-> f.batch, priced |-> f.priced, detailed |-> v]
  OBVIOUS

-----------------------------------------------------------------------------
\* A step of one request.
LEMMA CallGoesOn ==
  ASSUME FetchInv, NEW c \in Caller, NEW r, fetch' = [fetch EXCEPT ![c] = r],
         UNCHANGED <<seconds, source>>, CallSound(r, source.list), CachedSound(cachedToken')
  PROVE  FetchInv'
<1>1. DOMAIN fetch' = Caller /\ seconds' \in Nat /\ source'.list \in PriceList
  BY DEF FetchInv
<1>2. CachedSound(cachedToken)'
  BY DEF CachedSound
<1>3. ASSUME NEW d \in Caller PROVE CallSound(fetch'[d], source'.list)
  <2>1. fetch'[d] = IF d = c THEN r ELSE fetch[d]
    BY DEF FetchInv
  <2> QED
    BY <2>1 DEF FetchInv
<1>4. \A d \in Caller : CallSound(fetch[d], source.list)'
  BY <1>3 DEF CallSound
<1> QED
  BY <1>1, <1>2, <1>4 DEF FetchInv

\* Steps that end or begin a request promise nothing of it.
LEMMA CallIsElsewhere ==
  ASSUME FetchInv, NEW c \in Caller, NEW r, fetch' = [fetch EXCEPT ![c] = r],
         UNCHANGED <<seconds, source, cachedToken>>,
         r.pc \notin {"token", "reading", "answered", "refused"}
  PROVE  FetchInv'
<1>1. CallSound(r, source.list)
  BY DEF CallSound
<1>2. CachedSound(cachedToken')
  BY DEF FetchInv
<1> QED
  BY <1>1, <1>2, CallGoesOn

LEMMA BeginKeeps ==
  ASSUME FetchInv, NEW c \in Caller, NEW yes \in BOOLEAN, PostRefresh(c, yes) \/ GetOptions(c, yes)
  PROVE  FetchInv'
<1> DEFINE r == IF yes THEN [pc |-> "start", route |-> "refresh"] ELSE [pc |-> "unauthorized"]
           g == IF yes THEN [pc |-> "persisted"] ELSE [pc |-> "start", route |-> "get"]
<1>1. r.pc \in {"start", "unauthorized"} /\ g.pc \in {"start", "persisted"}
  OBVIOUS
<1>2. fetch' \in {[fetch EXCEPT ![c] = r], [fetch EXCEPT ![c] = g]} /\ UNCHANGED <<seconds, source, cachedToken>>
  BY DEF PostRefresh, GetOptions
<1> HIDE DEF r, g
<1> QED
  BY <1>1, <1>2, CallIsElsewhere

LEMMA EndKeeps ==
  ASSUME FetchInv, NEW c \in Caller, TokenRefused(c) \/ PageFails(c)
  PROVE  FetchInv'
<1>1. PICK why : Failed(c, why)
  BY DEF TokenRefused, PageFails
<1> DEFINE r == [pc |-> "failed", why |-> why]
<1>2. r.pc = "failed"
  OBVIOUS
<1>3. fetch' = [fetch EXCEPT ![c] = r] /\ UNCHANGED <<seconds, source, cachedToken>>
  BY <1>1 DEF Failed
<1> HIDE DEF r
<1> QED
  BY <1>2, <1>3, CallIsElsewhere

LEMMA RequestKeeps ==
  ASSUME FetchInv, NEW c \in Caller, NEW life \in Lifetime, RequestToken(c, life)
  PROVE  FetchInv'
<1> DEFINE t == [issued |-> seconds, life |-> life]
           r == [pc |-> "token", route |-> fetch[c].route, value |-> t]
<1>1. fetch' = [fetch EXCEPT ![c] = r] /\ UNCHANGED <<seconds, source, cachedToken>>
  BY DEF RequestToken
<1>2. TokenSound(t)
  BY FuelFinderAssumption DEF FetchInv, TokenSound
<1>3. CallSound(r, source.list)
  <2> HIDE DEF t
  <2> QED
    BY <1>2 DEF CallSound
<1> HIDE DEF r
<1>4. CachedSound(cachedToken')
  BY <1>1 DEF FetchInv
<1> QED
  BY <1>1, <1>3, <1>4, CallGoesOn

\* Both lists are read from their beginning.
LEMMA TakenIsReading ==
  ASSUME FetchInv, NEW c \in Caller, NEW token, TokenSound(token),
         token.life >= Floor => seconds + Margin <= token.issued + token.life + TokenTimeout
  PROVE  CallSound(Taken(c, token), source.list)
<1> DEFINE f == Taken(c, token)
<1>1. f = [pc |-> "reading", route |-> fetch[c].route, token |-> token, taken |-> seconds,
           steady |-> TRUE, garbled |-> FALSE, rows |-> <<>>, batch |-> 1,
           priced |-> FALSE, detailed |-> FALSE]
  BY DEF Taken
<1> HIDE DEF f
<1>2. PagesRead(f, source.list)
  <2>1. source.list \in PriceList /\ PageSize \in Nat
    BY FuelFinderAssumption DEF FetchInv
  <2>2. (f.batch - 1) * PageSize = 0 /\ ~f.priced /\ f.rows = <<>>
    BY <1>1, <2>1
  <2>3. Len(source.list) \in Nat
    BY <2>1, FuelFinderAssumption, LenProperties
  <2>4. 1 \in Int /\ 0 \in Int /\ 0 < 1
    OBVIOUS
  <2>5. SubSeq(source.list, 1, 0) = <<>>
    BY ONLY <2>4, SubSeqEmpty
  <2> QED
    BY <2>2, <2>3, <2>5 DEF PagesRead
<1>3. Reading(f, source.list)
  BY <1>1, <1>2 DEF Reading, FetchInv
<1> QED
  BY <1>1, <1>3 DEF CallSound, f

LEMMA TakeKeeps == ASSUME FetchInv, NEW c \in Caller, TakeCached(c) PROVE FetchInv'
<1> DEFINE r == Taken(c, cachedToken.value)
<1>1. /\ fetch' = [fetch EXCEPT ![c] = r] /\ UNCHANGED <<seconds, source, cachedToken>>
      /\ cachedToken # NoToken /\ cachedToken.expiresAt > seconds + Margin
  BY DEF TakeCached, StillGood
<1>2. CachedSound(cachedToken) /\ CachedSound(cachedToken') /\ seconds \in Nat
  BY <1>1 DEF FetchInv
<1> DEFINE token == cachedToken.value
<1>3. TokenSound(token)
  BY <1>1, <1>2 DEF CachedSound
<1>4. token.life >= Floor => seconds + Margin <= token.issued + token.life + TokenTimeout
  BY <1>1, <1>2, FuelFinderAssumption DEF CachedSound, TokenSound
<1> HIDE DEF token
<1>5. CallSound(Taken(c, token), source.list)
  BY <1>3, <1>4, TakenIsReading
<1> HIDE DEF r
<1> QED
  BY <1>1, <1>2, <1>5, CallGoesOn DEF r, token

LEMMA AnswerKeeps == ASSUME FetchInv, NEW c \in Caller, TokenAnswered(c) PROVE FetchInv'
<1> DEFINE token == fetch[c].value
           cached == [value |-> token, expiresAt |-> seconds + Larger(token.life, Floor)]
           r == Taken(c, token)
<1>1. /\ fetch' = [fetch EXCEPT ![c] = r] /\ UNCHANGED <<seconds, source>> /\ cachedToken' = cached
      /\ fetch[c].pc = "token" /\ seconds - token.issued <= TokenTimeout
  BY DEF TokenAnswered
<1>2. TokenSound(token) /\ seconds \in Nat
  BY <1>1 DEF FetchInv, CallSound
<1>3. cached.value = token /\ cached.expiresAt = seconds + Larger(token.life, Floor)
  OBVIOUS
<1> HIDE DEF token, cached
<1>4. Floor \in Nat /\ Margin \in Nat /\ TokenTimeout \in Nat /\ Margin <= Floor
  BY FuelFinderAssumption
<1>5. CachedSound(cached)
  BY <1>1, <1>2, <1>3, <1>4 DEF CachedSound, TokenSound, Larger
<1>6. token.life >= Floor => seconds + Margin <= token.issued + token.life + TokenTimeout
  BY <1>1, <1>2, <1>4 DEF TokenSound
<1>7. CallSound(r, source.list)
  BY <1>2, <1>6, TakenIsReading
<1> HIDE DEF r
<1> QED
  BY <1>1, <1>5, <1>7, CallGoesOn

LEMMA PriceKeeps == ASSUME FetchInv, NEW c \in Caller, NEW garbled \in BOOLEAN, PricePage(c, garbled) PROVE FetchInv'
<1> DEFINE f == fetch[c]
           list == source.list
           more == IF garbled THEN <<>> ELSE Page(list, f.batch)
           rows == f.rows \o more
           r == [pc |-> "reading", route |-> f.route, token |-> f.token, taken |-> f.taken,
                 steady |-> f.steady, garbled |-> f.garbled \/ garbled, rows |-> rows,
                 batch |-> f.batch + 1, priced |-> LastPage(more), detailed |-> f.detailed]
<1>1. f.pc = "reading" /\ ~f.priced
  BY DEF PricePage
<1>2. Reading(f, list) /\ list \in PriceList /\ CachedSound(cachedToken)
  BY <1>1 DEF FetchInv, CallSound
<1>3. CASE ~LastPage(more) /\ f.batch = MaximumBatches
  <2> DEFINE b == [pc |-> "failed", why |-> "BATCH_LIMIT"]
  <2>1. b.pc = "failed"
    OBVIOUS
  <2>2. fetch' = [fetch EXCEPT ![c] = b] /\ UNCHANGED <<seconds, source, cachedToken>>
    BY <1>3 DEF PricePage, Failed
  <2> HIDE DEF b
  <2> QED
    BY <2>1, <2>2, CallIsElsewhere
<1>4. CASE ~(~LastPage(more) /\ f.batch = MaximumBatches)
  <2> DEFINE e == [f EXCEPT !.rows = @ \o more, !.batch = @ + 1, !.priced = LastPage(more),
                            !.garbled = @ \/ garbled]
  <2>1. UNCHANGED <<seconds, source, cachedToken>> /\ c \in DOMAIN fetch
    BY <1>4 DEF PricePage, FetchInv
  <2>2. fetch' = [fetch EXCEPT ![c] = e]
    <3>1. fetch' = [fetch EXCEPT ![c].rows = @ \o more, ![c].batch = @ + 1,
                                 ![c].priced = LastPage(more), ![c].garbled = @ \/ garbled]
      BY <1>4 DEF PricePage
    <3> HIDE DEF more
    <3> QED
      BY <2>1, <3>1
  <2>3. e = r
    <3> HIDE DEF more
    <3>1. f = [pc |-> "reading", route |-> f.route, token |-> f.token, taken |-> f.taken,
               steady |-> f.steady, garbled |-> f.garbled, rows |-> f.rows, batch |-> f.batch,
               priced |-> f.priced, detailed |-> f.detailed]
      BY <1>2 DEF Reading
    <3>2. PICK last, g, b : last = LastPage(more) /\ g = (f.garbled \/ garbled) /\ b = f.batch + 1
      OBVIOUS
    <3>3. e = [f EXCEPT !.rows = rows, !.batch = b, !.priced = last, !.garbled = g]
      BY <3>2, Zenon
    <3>4. r = [pc |-> "reading", route |-> f.route, token |-> f.token, taken |-> f.taken,
               steady |-> f.steady, garbled |-> g, rows |-> rows,
               batch |-> b, priced |-> last, detailed |-> f.detailed]
      BY <3>2, Zenon
    <3> HIDE DEF e, f, rows, r
    <3>5. [f EXCEPT !.rows = rows, !.batch = b, !.priced = last, !.garbled = g] =
          [pc |-> "reading", route |-> f.route, token |-> f.token, taken |-> f.taken,
           steady |-> f.steady, garbled |-> g, rows |-> rows,
           batch |-> b, priced |-> last, detailed |-> f.detailed]
      <4> DEFINE g4 == [f EXCEPT !.rows = rows, !.batch = b, !.priced = last, !.garbled = g]
                 r4 == [pc |-> "reading", route |-> f.route, token |-> f.token, taken |-> f.taken,
                        steady |-> f.steady, garbled |-> g, rows |-> rows,
                        batch |-> b, priced |-> last, detailed |-> f.detailed]
      <4>1. DOMAIN f = {"pc", "route", "token", "taken", "steady", "garbled", "rows", "batch", "priced", "detailed"}
        BY <3>1, Zenon
      <4>2. DOMAIN g4 = DOMAIN f
        OBVIOUS
      <4>3. DOMAIN r4 = {"pc", "route", "token", "taken", "steady", "garbled", "rows", "batch", "priced", "detailed"}
        BY Zenon
      <4>4. g4.rows = r4.rows /\ g4.batch = r4.batch /\ g4.priced = r4.priced /\ g4.garbled = r4.garbled
        BY <4>1
      <4>5. g4.pc = r4.pc /\ g4.route = r4.route /\ g4.token = r4.token
        BY <3>1, <4>1
      <4>6. g4.taken = r4.taken /\ g4.steady = r4.steady /\ g4.detailed = r4.detailed
        BY <3>1, <4>1
      <4>7. g4 = [k \in DOMAIN g4 |-> g4[k]] /\ r4 = [k \in DOMAIN r4 |-> r4[k]]
        OBVIOUS
      <4> HIDE DEF g4, r4
      <4>8. \A k \in DOMAIN g4 : g4[k] = r4[k]
        BY <4>1, <4>2, <4>4, <4>5, <4>6
      <4>9. g4 = r4
        BY <4>1, <4>2, <4>3, <4>7, <4>8
      <4> QED
        BY <4>9 DEF g4, r4
    <3> QED
      BY <3>3, <3>4, <3>5
  <2>4. /\ r.pc = "reading" /\ r.token = f.token /\ r.taken = f.taken /\ r.steady = f.steady
        /\ r.garbled = (f.garbled \/ garbled) /\ r.rows = rows /\ r.batch = f.batch + 1
        /\ r.priced = LastPage(more)
        /\ r = [pc |-> "reading", route |-> r.route, token |-> r.token, taken |-> r.taken,
                steady |-> r.steady, garbled |-> r.garbled, rows |-> r.rows, batch |-> r.batch,
                priced |-> r.priced, detailed |-> r.detailed]
    <3> HIDE DEF more, rows
    <3> QED
      OBVIOUS
  <2>5. LastPage(more) \in BOOLEAN
    BY DEF LastPage
  <2> HIDE DEF r, rows, e
  <2>6. ASSUME r.steady, ~r.garbled PROVE PagesRead(r, list)
    <3>1. f.steady /\ ~f.garbled /\ ~garbled
      BY <1>2, <2>4, <2>6 DEF Reading
    <3>2. /\ (f.batch - 1) * PageSize <= Len(list)
          /\ f.rows = SubSeq(list, 1, (f.batch - 1) * PageSize)
      BY <1>1, <1>2, <3>1 DEF Reading, PagesRead
    <3>3. more = Page(list, f.batch) /\ f.batch \in Nat \ {0}
      BY <1>2, <3>1 DEF Reading
    <3>4. rows = SubSeq(list, 1, (f.batch - 1) * PageSize) \o Page(list, f.batch)
      BY <3>2, <3>3 DEF rows
    <3> HIDE DEF more, f, list
    <3>5. IF LastPage(more) THEN rows = list
          ELSE f.batch * PageSize <= Len(list) /\ rows = SubSeq(list, 1, f.batch * PageSize)
      BY <1>2, <3>2, <3>3, <3>4, NextPage
    <3>6. r.batch - 1 = f.batch
      BY <2>4, <3>3
    <3> QED
      BY <2>4, <3>5, <3>6 DEF PagesRead
  <2>7. Reading(r, list)
    <3>1. TokenSound(r.token) /\ r.taken \in Nat /\ r.batch \in Nat \ {0}
      BY <1>2, <2>4 DEF Reading
    <3>2. r.token.life >= Floor => r.taken + Margin <= r.token.issued + r.token.life + TokenTimeout
      BY <1>2, <2>4 DEF Reading
    <3>3. {r.steady, r.garbled, r.priced} \subseteq BOOLEAN
      <4>1. r.steady \in BOOLEAN /\ r.garbled \in BOOLEAN /\ r.priced \in BOOLEAN
        BY <1>2, <2>4, <2>5 DEF Reading
      <4> QED
        BY <4>1
    <3> HIDE DEF more, f, list
    <3> QED
      BY <2>4, <2>6, <3>1, <3>2, <3>3 DEF Reading
  <2>8. CallSound(r, list)
    BY <2>4, <2>7 DEF CallSound
  <2>9. CachedSound(cachedToken')
    BY <1>2, <2>1
  <2> QED
    BY <2>1, <2>2, <2>3, <2>8, <2>9, CallGoesOn
<1> QED
  BY <1>3, <1>4

LEMMA ForecourtsKeep == ASSUME FetchInv, NEW c \in Caller, ForecourtPages(c) PROVE FetchInv'
<1> DEFINE f == fetch[c]
           r == [pc |-> "reading", route |-> f.route, token |-> f.token, taken |-> f.taken,
                 steady |-> f.steady, garbled |-> f.garbled, rows |-> f.rows,
                 batch |-> f.batch, priced |-> f.priced, detailed |-> TRUE]
<1>1. f.pc = "reading" /\ UNCHANGED <<seconds, source, cachedToken>>
  BY DEF ForecourtPages
<1>2. Reading(f, source.list) /\ CachedSound(cachedToken')
  BY <1>1 DEF FetchInv, CallSound
<1>3. fetch' = [fetch EXCEPT ![c] = r]
  <2>1. f = [pc |-> "reading", route |-> f.route, token |-> f.token, taken |-> f.taken,
             steady |-> f.steady, garbled |-> f.garbled, rows |-> f.rows, batch |-> f.batch,
             priced |-> f.priced, detailed |-> f.detailed]
    BY <1>2 DEF Reading
  <2>2. PICK yes : yes = TRUE
    OBVIOUS
  <2>3. r = [pc |-> "reading", route |-> f.route, token |-> f.token, taken |-> f.taken,
             steady |-> f.steady, garbled |-> f.garbled, rows |-> f.rows,
             batch |-> f.batch, priced |-> f.priced, detailed |-> yes]
    BY <2>2, Zenon
  <2>4. fetch' = [fetch EXCEPT ![c] = [f EXCEPT !.detailed = yes]]
    BY <2>2 DEF ForecourtPages, FetchInv
  <2> HIDE DEF f, r
  <2>5. [f EXCEPT !.detailed = yes] = r
    BY ONLY <2>1, <2>3, DetailedMoves
  <2> QED
    BY <2>4, <2>5
<1>4. Reading(r, source.list)
  <2>1. /\ r.token = f.token /\ r.taken = f.taken /\ r.steady = f.steady /\ r.garbled = f.garbled
        /\ r.rows = f.rows /\ r.batch = f.batch /\ r.priced = f.priced
        /\ r = [pc |-> "reading", route |-> r.route, token |-> r.token, taken |-> r.taken,
                steady |-> r.steady, garbled |-> r.garbled, rows |-> r.rows, batch |-> r.batch,
                priced |-> r.priced, detailed |-> r.detailed]
    OBVIOUS
  <2> HIDE DEF r, f
  <2>2. PagesRead(f, source.list) => PagesRead(r, source.list)
    BY <2>1 DEF PagesRead
  <2> QED
    BY <1>2, <2>1, <2>2 DEF Reading
<1>5. CallSound(r, source.list)
  BY <1>4 DEF CallSound
<1> HIDE DEF r
<1> QED
  BY <1>1, <1>2, <1>3, <1>5, CallGoesOn

LEMMA RefuseKeeps == ASSUME FetchInv, NEW c \in Caller, PageRefused(c) PROVE FetchInv'
<1> DEFINE f == fetch[c]
           r == [pc |-> "refused", life |-> f.token.life, after |-> seconds - f.taken]
<1>1. /\ f.pc = "reading" /\ ~(seconds < f.token.issued + f.token.life)
      /\ fetch' = [fetch EXCEPT ![c] = r] /\ UNCHANGED <<seconds, source, cachedToken>>
  BY DEF PageRefused, Accepted
<1>2. Reading(f, source.list) /\ CachedSound(cachedToken') /\ seconds \in Nat
  BY <1>1 DEF FetchInv, CallSound
<1>3. r.life < Floor \/ r.after >= Margin - TokenTimeout
  <2> DEFINE i == f.token.issued
             l == f.token.life
             t == f.taken
  <2>1. i \in Nat /\ l \in Nat /\ t \in Nat /\ (l >= Floor => t + Margin <= i + l + TokenTimeout)
    BY <1>2 DEF Reading, TokenSound
  <2>2. ~(seconds < i + l) /\ r.life = l /\ r.after = seconds - t
    BY <1>1
  <2> HIDE DEF i, l, t, r, f
  <2>3. Margin \in Nat /\ TokenTimeout \in Nat /\ Floor \in Nat
    BY FuelFinderAssumption
  <2> QED
    BY <1>2, <2>1, <2>2, <2>3
<1>4. CallSound(r, source.list)
  BY <1>3 DEF CallSound
<1> HIDE DEF r
<1> QED
  BY <1>1, <1>2, <1>4, CallGoesOn

LEMMA AssembleKeeps == ASSUME FetchInv, NEW c \in Caller, Assemble(c) PROVE FetchInv'
<1> DEFINE f == fetch[c]
           offered == Options(f.rows)
           pc == IF f.route = "get" /\ DOMAIN offered.stations = {} THEN "no prices" ELSE "answered"
           r == [pc |-> pc, options |-> offered, list |-> source.list, whole |-> f.steady /\ ~f.garbled]
<1>1. f.pc = "reading" /\ f.priced /\ UNCHANGED <<seconds, source, cachedToken>>
  BY DEF Assemble
<1>2. fetch' = [fetch EXCEPT ![c] = r]
  BY DEF Assemble, FetchInv
<1>3. Reading(f, source.list) /\ CachedSound(cachedToken') /\ source.list \in PriceList
  BY <1>1 DEF FetchInv, CallSound
<1>4. /\ r.pc = pc /\ r.options = offered /\ r.list = source.list
      /\ r.whole = (f.steady /\ ~f.garbled) /\ r.pc \in {"no prices", "answered"}
  <2> HIDE DEF offered
  <2> QED
    OBVIOUS
<1> HIDE DEF r, offered, pc
<1>5. ASSUME r.whole PROVE WholeOffer(r.options, r.list)
  <2>1. f.rows = source.list
    BY <1>1, <1>3, <1>4, <1>5 DEF Reading, PagesRead
  <2>2. offered = Options(source.list)
    BY <2>1 DEF offered
  <2> QED
    BY <1>3, <1>4, <2>2, OfferIsWhole
<1>6. CallSound(r, source.list)
  BY <1>4, <1>5 DEF CallSound
<1> QED
  BY <1>1, <1>2, <1>3, <1>6, CallGoesOn

LEMMA SourceKeeps == ASSUME FetchInv, NEW list \in PriceList, SourceChanges(list) PROVE FetchInv'
<1>1. /\ source'.list = list /\ UNCHANGED <<seconds, cachedToken>>
      /\ fetch' = [c \in Caller |-> IF fetch[c].pc = "reading" THEN [fetch[c] EXCEPT !.steady = FALSE]
                                                              ELSE fetch[c]]
  BY DEF SourceChanges
<1>2. ASSUME NEW c \in Caller PROVE CallSound(fetch'[c], source'.list)
  <2>1. CallSound(fetch[c], source.list)
    BY DEF FetchInv
  <2>2. CASE fetch[c].pc # "reading"
    BY <1>1, <2>1, <2>2 DEF CallSound
  <2>3. CASE fetch[c].pc = "reading"
    <3> DEFINE f == fetch[c]
               r == [pc |-> "reading", route |-> f.route, token |-> f.token, taken |-> f.taken,
                     steady |-> FALSE, garbled |-> f.garbled, rows |-> f.rows,
                     batch |-> f.batch, priced |-> f.priced, detailed |-> f.detailed]
    <3>1. Reading(f, source.list)
      BY <2>1, <2>3 DEF CallSound
    <3>2. fetch'[c] = r
      <4>1. f = [pc |-> "reading", route |-> f.route, token |-> f.token, taken |-> f.taken,
                 steady |-> f.steady, garbled |-> f.garbled, rows |-> f.rows, batch |-> f.batch,
                 priced |-> f.priced, detailed |-> f.detailed]
        BY <3>1 DEF Reading
      <4>2. PICK no : no = FALSE
        OBVIOUS
      <4>3. r = [pc |-> "reading", route |-> f.route, token |-> f.token, taken |-> f.taken,
                 steady |-> no, garbled |-> f.garbled, rows |-> f.rows, batch |-> f.batch,
                 priced |-> f.priced, detailed |-> f.detailed]
        BY <4>2, Zenon
      <4>4. fetch'[c] = [f EXCEPT !.steady = no]
        BY <1>1, <2>3, <4>2
      <4> HIDE DEF f, r
      <4>5. [f EXCEPT !.steady = no] = r
        BY ONLY <4>1, <4>3, SteadyMoves
      <4> QED
        BY <4>4, <4>5
    <3>3. Reading(r, list)
      <4>1. /\ r.token = f.token /\ r.taken = f.taken /\ ~r.steady /\ r.steady \in BOOLEAN
            /\ r.garbled = f.garbled /\ r.batch = f.batch /\ r.priced = f.priced
            /\ r = [pc |-> "reading", route |-> r.route, token |-> r.token, taken |-> r.taken,
                    steady |-> r.steady, garbled |-> r.garbled, rows |-> r.rows, batch |-> r.batch,
                    priced |-> r.priced, detailed |-> r.detailed]
        OBVIOUS
      <4> HIDE DEF r, f
      <4> QED
        BY <3>1, <4>1 DEF Reading
    <3>4. CallSound(r, list)
      BY <3>3 DEF CallSound
    <3> QED
      BY <1>1, <3>2, <3>4
  <2> QED
    BY <2>2, <2>3
<1>3. \A c \in Caller : CallSound(fetch[c], source.list)'
  BY <1>2 DEF CallSound
<1>4. CachedSound(cachedToken)'
  BY <1>1 DEF FetchInv, CachedSound
<1> QED
  BY <1>1, <1>3, <1>4 DEF FetchInv

LEMMA ClockKeeps ==
  ASSUME FetchInv, seconds' \in Nat, UNCHANGED <<source, cachedToken, fetch>>
  PROVE  FetchInv'
<1>1. \A c \in Caller : CallSound(fetch[c], source.list)'
  BY DEF FetchInv, CallSound
<1>2. CachedSound(cachedToken)'
  BY DEF FetchInv, CachedSound
<1> QED
  BY <1>1, <1>2 DEF FetchInv

LEMMA FinderStarts == FinderInit => FetchInv
<1> SUFFICES ASSUME FinderInit PROVE FetchInv
  OBVIOUS
<1>1. /\ seconds = 0 /\ source \in [list : PriceList, changes : {0}] /\ cachedToken = NoToken
      /\ fetch = [c \in Caller |-> [pc |-> "none"]]
  BY DEF FinderInit
<1>2. \A c \in Caller : fetch[c].pc = "none"
  BY <1>1
<1> QED
  BY <1>1, <1>2 DEF FetchInv, CallSound, CachedSound

LEMMA FinderStep == FetchInv /\ [FinderNext]_finderVars => FetchInv'
<1> SUFFICES ASSUME FetchInv, [FinderNext]_finderVars PROVE FetchInv'
  OBVIOUS
<1>1. ASSUME NEW c \in Caller,
             \/ \E yes \in BOOLEAN : PostRefresh(c, yes) \/ GetOptions(c, yes) \/ PricePage(c, yes)
             \/ \E life \in Lifetime : RequestToken(c, life)
             \/ TakeCached(c) \/ TokenAnswered(c) \/ TokenRefused(c)
             \/ ForecourtPages(c) \/ PageRefused(c) \/ PageFails(c) \/ Assemble(c)
      PROVE  FetchInv'
  BY <1>1, BeginKeeps, PriceKeeps, RequestKeeps, TakeKeeps, AnswerKeeps, EndKeeps, ForecourtsKeep,
     RefuseKeeps, AssembleKeeps
<1>2. CASE \E list \in PriceList : SourceChanges(list)
  BY <1>2, SourceKeeps
<1>3. CASE Second \/ UNCHANGED finderVars
  <2>1. seconds' \in Nat /\ UNCHANGED <<source, cachedToken, fetch>>
    BY <1>3 DEF Second, finderVars, FetchInv
  <2> QED
    BY <2>1, ClockKeeps
<1> QED
  BY <1>1, <1>2, <1>3 DEF FinderNext

LEMMA FetchesAreWhole == FetchInv => FetchesWhole
<1> SUFFICES ASSUME FetchInv PROVE SnapshotWhole /\ RefusedLate
  BY DEF FetchesWhole
<1>1. \A c \in Caller : fetch[c].pc = "answered" /\ fetch[c].whole => WholeOffer(fetch[c].options, fetch[c].list)
  BY DEF FetchInv, CallSound
<1>2. SnapshotWhole
  BY <1>1 DEF SnapshotWhole, WholeOffer
<1>3. RefusedLate
  BY DEF FetchInv, CallSound, RefusedLate
<1> QED
  BY <1>2, <1>3

\* A theorem: however requests share tokens, pages are answered, refused or garbled and the
\* lists change, what was read of a list that stayed is offered whole, and a token of an
\* ordinary lifetime is not refused at once.
THEOREM FetchesAlwaysWhole == FinderSpec => []FetchesWhole
<1> QED
  BY FinderStarts, FinderStep, FetchesAreWhole, PTL DEF FinderSpec
=============================================================================
