----------------------------- MODULE ScrapeJobs -----------------------------
(***************************************************************************)
(* Scheduling and running scrapes: _schedule_due_scrapes() of the          *)
(* scheduler process, trigger_scrape() of the web process, the queue       *)
(* "scraper" of RQ with its registry of started jobs, and run_scraper() in *)
(* the one process that works this queue.                                  *)
(*                                                                         *)
(* The job is followed through the SQLAlchemy session, because a commit    *)
(* that finds SQLite locked is rolled back and tried again, and because    *)
(* persist_source_config_updates() commits in the middle.                  *)
(***************************************************************************)
EXTENDS Naturals, Sequences, FiniteSets

CONSTANTS
    ScrapeSources,      \* enabled sources
    Rotating,           \* those whose scraper queues configuration updates
    Askers,             \* requests that may be inside trigger_scrape() at once
    MaxScrapeCrashes,   \* bound: processes killed
    MaxScrapeLocks,     \* bound: commits that find the database locked
    MaxScrapeFailures,  \* bound: phases that raise or run out of time
    NoSource            \* stands for None

ASSUME ScrapeAssumption ==
    /\ Rotating \subseteq ScrapeSources
    /\ NoSource \notin ScrapeSources
    /\ IsFiniteSet(Askers)
    /\ MaxScrapeCrashes \in Nat /\ MaxScrapeLocks \in Nat /\ MaxScrapeFailures \in Nat

VARIABLES
    recent,     \* sources whose last_scraped_at is within their interval
    noted,      \* sources whose _last_enqueued is within their interval
    round,      \* what the tick of the scheduler still has to do
    asking,     \* the source a request has found not active
    waiting,      \* job ids in the queue
    jobHash,       \* status of the job hash of a source
    started,   \* sources in StartedJobRegistry
    run,        \* the job the worker runs
    session,    \* what its session holds and has not committed
    committed,  \* what this run has committed
    unpublished,\* sources whose data changed after the last invalidation
    crashes, locks, failures

scrapeQueue == <<noted, round, asking, waiting, jobHash, started>>
scrapeBounds == <<crashes, locks, failures>>
scrapeJobVars == <<recent, scrapeQueue, run, session, committed, unpublished, scrapeBounds>>

ScrapeIdle == [source |-> NoSource, at |-> "idle", tries |-> 0]
ScrapeNoRound == [left |-> {}, found |-> NoSource]

ScrapeInit ==
    /\ recent \in SUBSET ScrapeSources
    /\ noted = {}
    /\ round = ScrapeNoRound
    /\ asking = [a \in Askers |-> NoSource]
    /\ waiting = <<>>
    /\ jobHash = [s \in ScrapeSources |-> "none"]
    /\ started = {}
    /\ run = ScrapeIdle
    /\ session = {} /\ committed = {} /\ unpublished = {}
    /\ crashes = 0 /\ locks = 0 /\ failures = 0

-----------------------------------------------------------------------------
\* Faulty variant: what a dead worker left counts for ever.
ScrapeStaleNever(s) == FALSE

\* A started job nobody runs has lost its heartbeat.
ScrapeStale(s) == s \in started /\ run.source # s

\* What _cleanup_stale_started_job() leaves of registry and hash.
ScrapeCleanRegistry(s) == IF ScrapeStale(s) THEN started \ {s} ELSE started
ScrapeCleanHash(s) == IF ScrapeStale(s) THEN [jobHash EXCEPT ![s] = "none"] ELSE jobHash

\* _scrape_job_already_active(), _job_already_active()
ScrapeActive(s) ==
    \/ \E i \in 1 .. Len(waiting) : waiting[i] = s
    \/ s \in ScrapeCleanRegistry(s)
    \/ ScrapeCleanHash(s)[s] \in {"queued", "started"}

ScrapeEnqueue(s) ==
    /\ waiting' = Append(waiting, s)
    /\ jobHash' = [jobHash EXCEPT ![s] = "queued"]

\* _schedule_due_scrapes() every minute: the sources that are due ...
ScrapeTick ==
    /\ round = ScrapeNoRound
    /\ round' = [round EXCEPT !.left = ScrapeSources \ (recent \cup noted)]
    /\ UNCHANGED <<recent, noted, asking, waiting, jobHash, started, run, session,
                   committed, unpublished, scrapeBounds>>

\* ... are looked at one after the other ...
ScrapeLook(s) ==
    /\ round.found = NoSource
    /\ s \in round.left
    /\ started' = ScrapeCleanRegistry(s)
    /\ jobHash' = ScrapeCleanHash(s)
    /\ IF ScrapeActive(s)
       THEN noted' = noted \cup {s} /\ round' = [round EXCEPT !.left = @ \ {s}]
       ELSE noted' = noted /\ round' = [left |-> round.left \ {s}, found |-> s]
    /\ UNCHANGED <<recent, asking, waiting, run, session, committed, unpublished, scrapeBounds>>

\* ... and enqueued.
ScrapeSchedule ==
    /\ round.found # NoSource
    /\ ScrapeEnqueue(round.found)
    /\ noted' = noted \cup {round.found}
    /\ round' = [round EXCEPT !.found = NoSource]
    /\ UNCHANGED <<recent, asking, started, run, session, committed, unpublished, scrapeBounds>>

\* trigger_scrape() looks, then enqueues.
ScrapeAsk(a, s) ==
    /\ asking[a] = NoSource
    /\ ~ScrapeActive(s)
    /\ started' = ScrapeCleanRegistry(s)
    /\ jobHash' = ScrapeCleanHash(s)
    /\ asking' = [asking EXCEPT ![a] = s]
    /\ UNCHANGED <<recent, noted, round, waiting, run, session, committed, unpublished, scrapeBounds>>

ScrapeTrigger(a) ==
    /\ asking[a] # NoSource
    /\ ScrapeEnqueue(asking[a])
    /\ asking' = [asking EXCEPT ![a] = NoSource]
    /\ UNCHANGED <<recent, noted, round, started, run, session, committed, unpublished, scrapeBounds>>

\* The interval of a source runs out.
ScrapeDue(s) ==
    /\ s \in recent
    /\ recent' = recent \ {s}
    /\ UNCHANGED <<scrapeQueue, run, session, committed, unpublished, scrapeBounds>>

ScrapeForget(s) ==
    /\ s \in noted
    /\ noted' = noted \ {s}
    /\ UNCHANGED <<recent, round, asking, waiting, jobHash, started, run, session,
                   committed, unpublished, scrapeBounds>>

-----------------------------------------------------------------------------
\* The worker takes a job: run_scraper() up to the end of the phase "init".
ScrapeStart ==
    /\ run = ScrapeIdle /\ waiting # <<>>
    /\ run' = [source |-> Head(waiting), at |-> "bootstrap", tries |-> 0]
    /\ waiting' = Tail(waiting)
    /\ jobHash' = [jobHash EXCEPT ![Head(waiting)] = "started"]
    /\ started' = started \cup {Head(waiting)}
    /\ session' = {} /\ committed' = {}
    /\ UNCHANGED <<recent, noted, round, asking, unpublished, scrapeBounds>>

\* A step of the job that only the job sees
ScrapeOwn(from, to) ==
    /\ run.at = from
    /\ run' = [run EXCEPT !.at = to]
    /\ UNCHANGED <<scrapeQueue, scrapeBounds>>

ScrapeCommitted ==
    /\ session' = {}
    /\ committed' = committed \cup session
    /\ unpublished' = IF "data" \in session THEN unpublished \cup {run.source} ELSE unpublished
    /\ recent' = IF "mark" \in session THEN recent \cup {run.source} ELSE recent

\* SQLite runs in WAL mode: the first write of a transaction may find the
\* database locked, a commit after it may not.
ScrapeMayLock == "data" \notin session

\* The commit of persist_source_config_updates(), which takes all the session
\* holds.  Locked, it is rolled back and tried again, up to three times: a
\* second try has nothing left to commit, succeeds, and is taken for done.
ScrapePersist(from, to) ==
    \/ ScrapeOwn(from, to) /\ ScrapeCommitted
    \/ \E k \in 1 .. 3 :
          /\ run.at = from /\ session # {} /\ ScrapeMayLock
          /\ locks + k <= MaxScrapeLocks
          /\ locks' = locks + k
          /\ session' = {}
          /\ run' = [run EXCEPT !.at = IF k < 3 THEN to
                                       ELSE IF from = "record" THEN "failed" ELSE "error"]
          /\ UNCHANGED <<recent, scrapeQueue, committed, unpublished, crashes, failures>>

\* pre_run_setup(), and the commit of what it queued
ScrapeBootstrap ==
    /\ ScrapeOwn("bootstrap", "tokens")
    /\ session' = IF run.source \in Rotating THEN {"config"} ELSE {}
    /\ UNCHANGED <<recent, committed, unpublished>>

ScrapeTokens == ScrapePersist("tokens", "fetch")

\* fetch_channels() and fetch_epg(), or fetch_epg() alone
ScrapeFetch ==
    /\ ScrapeOwn("fetch", "upsert")
    /\ UNCHANGED <<recent, session, committed, unpublished>>

\* _upsert_channels(), _upsert_programs(), _apply_scraper_config_updates()
ScrapeUpsert ==
    /\ ScrapeOwn("upsert", IF run.source \in Rotating THEN "apply" ELSE "mark")
    /\ session' = {"data"} \cup IF run.source \in Rotating THEN {"config"} ELSE {}
    /\ UNCHANGED <<recent, committed, unpublished>>

ScrapeApply == ScrapePersist("apply", "mark")

\* last_scraped_at, last_error and the commit
ScrapeMark ==
    /\ ScrapeOwn("mark", "commit")
    /\ session' = session \cup {"mark"}
    /\ UNCHANGED <<recent, committed, unpublished>>

ScrapeSave == ScrapeOwn("commit", "announce") /\ ScrapeCommitted

\* Faulty variant: only the commit is tried again.
ScrapeSaveLockedOnce ==
    /\ run.at \in {"upsert", "commit"} /\ ScrapeMayLock
    /\ locks < MaxScrapeLocks
    /\ locks' = locks + 1
    /\ session' = {}
    /\ run' = [source |-> run.source, tries |-> run.tries + 1,
               at |-> IF run.tries = 2 THEN "error" ELSE "mark"]
    /\ UNCHANGED <<recent, scrapeQueue, committed, unpublished, crashes, failures>>

\* Where they find the database locked, all is done again from the upserts
\* on, twice at most.
ScrapeSaveLocked ==
    /\ run.at \in {"upsert", "commit"} /\ ScrapeMayLock
    /\ locks < MaxScrapeLocks
    /\ locks' = locks + 1
    /\ session' = {}
    /\ run' = [source |-> run.source, tries |-> run.tries + 1,
               at |-> IF run.tries = 2 THEN "error" ELSE "upsert"]
    /\ UNCHANGED <<recent, scrapeQueue, committed, unpublished, crashes, failures>>

\* A phase raises, is timed out, or the whole job is.
ScrapeFails ==
    /\ run.at \in {"bootstrap", "fetch", "upsert", "announce"}
    /\ failures < MaxScrapeFailures
    /\ failures' = failures + 1
    /\ run' = [run EXCEPT !.at = "error"]
    /\ UNCHANGED <<recent, scrapeQueue, session, committed, unpublished, crashes, locks>>

\* The handlers: roll back, queue the updates again, record the error.
ScrapeRollBack ==
    /\ ScrapeOwn("error", "record")
    /\ session' = IF run.source \in Rotating THEN {"config"} ELSE {}
    /\ UNCHANGED <<recent, committed, unpublished>>

ScrapeRecord == ScrapePersist("record", "failed")

\* The job leaves the registry.
ScrapeOver ==
    /\ run' = ScrapeIdle
    /\ jobHash' = [jobHash EXCEPT ![run.source] = "ended"]
    /\ started' = started \ {run.source}
    /\ session' = {} /\ committed' = {}

\* invalidate_xml_cache() and _enqueue_xml_refresh_job(): what the database
\* holds by now is published.
ScrapeAnnounce ==
    /\ run.at = "announce"
    /\ unpublished' = {}
    /\ ScrapeOver
    /\ UNCHANGED <<recent, noted, round, asking, waiting, scrapeBounds>>

ScrapeEnd ==
    /\ run.at = "failed"
    /\ ScrapeOver
    /\ UNCHANGED <<recent, noted, round, asking, waiting, unpublished, scrapeBounds>>

-----------------------------------------------------------------------------
ScrapeCrash ==
    /\ crashes < MaxScrapeCrashes
    /\ crashes' = crashes + 1

\* The work horse is killed: the worker sees it and fails the job.
ScrapeKillHorse ==
    /\ run # ScrapeIdle
    /\ ScrapeCrash
    /\ ScrapeOver
    /\ UNCHANGED <<recent, noted, round, asking, waiting, unpublished, locks, failures>>

\* The worker is killed with it: the job stays started.
ScrapeKillWorker ==
    /\ run # ScrapeIdle
    /\ ScrapeCrash
    /\ run' = ScrapeIdle
    /\ session' = {} /\ committed' = {}
    /\ UNCHANGED <<recent, scrapeQueue, unpublished, locks, failures>>

\* The scheduler is killed and forgets what it has enqueued.
ScrapeKillScheduler ==
    /\ ScrapeCrash
    /\ noted' = {}
    /\ round' = ScrapeNoRound
    /\ UNCHANGED <<recent, asking, waiting, jobHash, started, run, session, committed,
                   unpublished, locks, failures>>

ScrapeJob ==
    \/ ScrapeBootstrap \/ ScrapeTokens \/ ScrapeFetch \/ ScrapeUpsert \/ ScrapeApply
    \/ ScrapeMark \/ ScrapeSave \/ ScrapeRollBack \/ ScrapeRecord \/ ScrapeAnnounce \/ ScrapeEnd

ScrapeScheduler == ScrapeTick \/ ScrapeSchedule \/ \E s \in ScrapeSources : ScrapeLook(s)

ScrapeNext ==
    \/ ScrapeScheduler \/ ScrapeStart \/ ScrapeJob
    \/ ScrapeSaveLocked \/ ScrapeFails
    \/ ScrapeKillHorse \/ ScrapeKillWorker \/ ScrapeKillScheduler
    \/ \E a \in Askers : ScrapeTrigger(a) \/ \E s \in ScrapeSources : ScrapeAsk(a, s)
    \/ \E s \in ScrapeSources : ScrapeDue(s) \/ ScrapeForget(s)

\* The watchdogs restart scheduler and worker, and time passes.
ScrapeFairness ==
    /\ WF_scrapeJobVars(ScrapeScheduler)
    /\ WF_scrapeJobVars(ScrapeStart)
    /\ WF_scrapeJobVars(ScrapeJob)
    /\ \A a \in Askers : WF_scrapeJobVars(ScrapeTrigger(a))
    /\ \A s \in ScrapeSources :
          /\ WF_scrapeJobVars(ScrapeDue(s))
          /\ WF_scrapeJobVars(ScrapeForget(s))

ScrapeSpec == ScrapeInit /\ [][ScrapeNext]_scrapeJobVars /\ ScrapeFairness

-----------------------------------------------------------------------------
ScrapeTypeOK ==
    /\ recent \subseteq ScrapeSources /\ noted \subseteq ScrapeSources
    /\ round.left \subseteq ScrapeSources /\ round.found \in ScrapeSources \cup {NoSource}
    /\ asking \in [Askers -> ScrapeSources \cup {NoSource}]
    /\ waiting \in Seq(ScrapeSources)
    /\ jobHash \in [ScrapeSources -> {"none", "queued", "started", "ended"}]
    /\ started \subseteq ScrapeSources
    /\ run.source \in ScrapeSources \cup {NoSource} /\ run.tries \in 0 .. 3
    /\ run.source = NoSource <=> run.at = "idle"
    /\ session \subseteq {"config", "data", "mark"}
    /\ committed \subseteq {"config", "data", "mark"}
    /\ unpublished \subseteq ScrapeSources
    /\ crashes \in 0 .. MaxScrapeCrashes
    /\ locks \in 0 .. MaxScrapeLocks
    /\ failures \in 0 .. MaxScrapeFailures

\* The places of a source in the queue
ScrapePlaces(s) == {i \in 1 .. Len(waiting) : waiting[i] = s}

\* However often the processes are restarted, a source is in the queue once,
\* and once more for each request that was between looking and enqueueing.
ScrapeNoFlood ==
    \A s \in ScrapeSources :
        Cardinality(ScrapePlaces(s)) <= 1 + Cardinality(Askers)

\* A scrape is recorded as done only with its channels and programmes in the
\* database: a retry after a locked commit does all of the work again.
ScrapeDoneIsSaved ==
    "mark" \in committed => "data" \in committed

\* The comment before the bootstrap commit of run_scraper(), "persist any config
\* updates (like tokens) immediately": they are persisted, as long as
\* no commit has found the database locked, which loses them for good.
ScrapeTokensPersisted ==
    locks = 0 /\ run.at = "fetch" /\ run.source \in Rotating => "config" \in committed

\* Every enabled source that is due is scraped in the end: neither a job that
\* died with its worker nor a restarted scheduler stops that.
ScrapeGoesOn ==
    \A s \in ScrapeSources : s \notin recent ~> run.source = s

\* What a scrape has committed is published in the end, even if its job fails
\* between the commit and the invalidation.
ScrapeIsPublished ==
    \A s \in ScrapeSources : s \in unpublished ~> s \notin unpublished

\* Types, the queue, and what the database holds when
ScrapeInv == ScrapeTypeOK /\ ScrapeNoFlood /\ ScrapeDoneIsSaved /\ ScrapeTokensPersisted

\* Sources are scraped and their data published.
ScrapeProgress == ScrapeGoesOn /\ ScrapeIsPublished
=============================================================================
