----------------------------- MODULE TvtvCache -----------------------------
(***************************************************************************)
(* The nightly cache of tvtv.us guide data: refresh_tvtv_cache() of        *)
(* app/tvtv_cache.py and those who start it.  Time is counted in slots of  *)
(* the guide, TvDay to a day, which begins at 04:00 UTC; every airing of a *)
(* station fills one slot, and a row is known by its station and slot, as  *)
(* for the UNIQUE constraint: inserting it again is ignored.               *)
(***************************************************************************)
EXTENDS Naturals, FiniteSets

CONSTANTS
    TvStations,     \* Gracenote IDs, of Nat
    TvLineup,       \* the first lineup of each, of Nat; 0 where the index has none
    TvBatch,        \* _BATCH_SIZE
    TvDays,         \* _DAYS
    TvDay,          \* slots in a day
    TvLastTime,     \* bound on time
    TvRunners,      \* the job of the maintenance queue, and threads of the web process
    MaxTvRuns       \* bound: runs

ASSUME TvAssumption ==
    /\ TvStations \subseteq Nat /\ IsFiniteSet(TvStations)
    /\ TvLineup \in [TvStations -> Nat]
    /\ {TvBatch, TvDays, TvDay} \subseteq Nat \ {0}
    /\ {TvLastTime, MaxTvRuns} \subseteq Nat /\ TvDay <= TvLastTime

VARIABLES
    tvNow,
    tvRows,      \* the slots of the rows of each station
    tvRun,       \* for each runner when its run began, the batches that are left, the
                 \* stations asked for, and those that some batch brought nothing for
    tvComplete,  \* history: when the last run began that fetched all of a station's days
    tvRuns       \* runs so far

tvVars == <<tvNow, tvRows, tvRun, tvComplete, tvRuns>>

\* Faulty variant: a day of the guide begins at the 04:00 of the calendar day.
GridWindowOfDate(day, time) ==
    LET first == TvDay * ((time + 1) \div TvDay + day)
    IN  first .. first + TvDay - 1

TvIdle == [on |-> FALSE, since |-> 0, left |-> {}, wanted |-> {}, missed |-> {}]
NeverYet == TvLastTime + 1

TvInit ==
    /\ tvNow = TvDay - 1
    /\ tvRows = [s \in TvStations |-> {}]
    /\ tvRun = [r \in TvRunners |-> TvIdle]
    /\ tvComplete = [s \in TvStations |-> NeverYet]
    /\ tvRuns = 0

\* _grid_window(): the day of the guide that time is in, and those after it
GridWindow(day, time) ==
    LET first == TvDay * (time \div TvDay + day)
    IN  first .. first + TvDay - 1

\* The place of a station among those of its lineup in S, and its batch
TvPlace(s, S) == Cardinality({t \in S : TvLineup[t] = TvLineup[s] /\ t < s})
TvPart(s, S) == TvPlace(s, S) \div TvBatch

\* The requests of a run for the stations S, and the stations of one of them
TvPlan(S) ==
    {[lineup |-> TvLineup[s], day |-> day, part |-> TvPart(s, S)] :
        s \in {t \in S : TvLineup[t] # 0}, day \in 0 .. TvDays - 1}
TvAsked(b, S) == {s \in S : TvLineup[s] = b.lineup /\ TvPart(s, S) = b.part}

\* Their order: lineup by lineup, each day by day, the batches of a day in order
TvFirst(b, left) ==
    \A c \in left :
        \/ b.lineup < c.lineup
        \/ b.lineup = c.lineup /\ b.day < c.day
        \/ b.lineup = c.lineup /\ b.day = c.day /\ b.part <= c.part

\* run_tvtv_cache_refresh() for the IDs in use, in the channels or in the
\* community map: at night, when the scheduler starts and the newest row is old,
\* or on demand.  The id of the job keeps a second one out of the queue; where
\* Redis is down a thread runs beside it.
TvStart(r, S) ==
    /\ ~tvRun[r].on /\ tvRuns < MaxTvRuns
    /\ tvRuns' = tvRuns + 1
    /\ tvRun' = [tvRun EXCEPT ![r] = [on |-> TRUE, since |-> tvNow, left |-> TvPlan(S),
                                      wanted |-> S, missed |-> {}]]
    /\ UNCHANGED <<tvNow, tvRows, tvComplete>>

\* _fetch_batch(), _upsert_rows() and the commit: the answer has a list for the
\* first n stations of the batch; a request that fails brings nothing.
TvFetch(r) ==
    /\ tvRun[r].on
    /\ \E batch \in tvRun[r].left, n \in 0 .. TvBatch :
          LET asked == TvAsked(batch, tvRun[r].wanted)
              brought == {s \in asked : TvPlace(s, tvRun[r].wanted) % TvBatch < n}
          IN  /\ TvFirst(batch, tvRun[r].left)
              /\ tvRows' = [s \in TvStations |->
                               IF s \in brought
                               THEN tvRows[s] \cup GridWindow(batch.day, tvRun[r].since)
                               ELSE tvRows[s]]
              /\ tvRun' = [tvRun EXCEPT ![r] =
                              [on |-> TRUE, since |-> tvRun[r].since,
                               left |-> tvRun[r].left \ {batch}, wanted |-> tvRun[r].wanted,
                               missed |-> tvRun[r].missed \cup (asked \ brought)]]
    /\ UNCHANGED <<tvNow, tvComplete, tvRuns>>

\* _delete_expired(), by the time at which the run began: rows whose slot ended
\* more than an hour, that is, at least a slot before.
TvFinish(r) ==
    /\ tvRun[r].on /\ tvRun[r].left = {}
    /\ tvRows' = [s \in TvStations |-> {t \in tvRows[s] : t + 1 >= tvRun[r].since}]
    /\ tvComplete' = [s \in TvStations |->
                         IF s \in tvRun[r].wanted \ tvRun[r].missed /\ TvLineup[s] # 0
                         THEN tvRun[r].since ELSE tvComplete[s]]
    /\ tvRun' = [tvRun EXCEPT ![r] = TvIdle]
    /\ UNCHANGED <<tvNow, tvRuns>>

\* The job runs into its timeout, or its process dies: batches are committed one
\* by one, and nothing is deleted.
TvDie(r) ==
    /\ tvRun[r].on
    /\ tvRun' = [tvRun EXCEPT ![r] = TvIdle]
    /\ UNCHANGED <<tvNow, tvRows, tvComplete, tvRuns>>

TvTick ==
    /\ tvNow < TvLastTime
    /\ tvNow' = tvNow + 1
    /\ UNCHANGED <<tvRows, tvRun, tvComplete, tvRuns>>

TvNext ==
    \/ TvTick
    \/ \E r \in TvRunners :
          \/ \E S \in SUBSET TvStations \ {{}} : TvStart(r, S)
          \/ TvFetch(r) \/ TvFinish(r) \/ TvDie(r)

TvSpec == TvInit /\ [][TvNext]_tvVars

-----------------------------------------------------------------------------
\* Type invariant
TvTypeOK ==
    /\ tvNow \in 0 .. TvLastTime
    /\ \A s \in TvStations : tvRows[s] \subseteq 0 .. TvLastTime + TvDay * TvDays
    /\ \A r \in TvRunners :
          /\ tvRun[r].on \in BOOLEAN
          /\ tvRun[r].since \in 0 .. tvNow
          /\ tvRun[r].missed \subseteq tvRun[r].wanted /\ tvRun[r].wanted \subseteq TvStations
    /\ tvComplete \in [TvStations -> 0 .. NeverYet]
    /\ tvRuns \in 0 .. MaxTvRuns

\* The cache bridges a missed night: from a complete run on, whenever in its day
\* it began, and whatever other runs did since, it has what is on for as long as
\* all its days but one.
TvBridged ==
    \A s \in TvStations :
        tvComplete[s] <= tvNow /\ tvNow <= tvComplete[s] + TvDay * (TvDays - 1) =>
            tvNow \in tvRows[s]

TvtvInv == TvTypeOK /\ TvBridged
=============================================================================
