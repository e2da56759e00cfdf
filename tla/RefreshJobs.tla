---------------------------- MODULE RefreshJobs ----------------------------
(***************************************************************************)
(* How an edit reaches the M3U files: who asks for a refresh, which of     *)
(* those requests become a job, and who rewrites the files.                *)
(*                                                                         *)
(* The refresh is one RQ job with the fixed id `xml-refresh' in the queue  *)
(* `fast'.  A request looks at Redis in several round trips and is dropped *)
(* when the job seems to be queued or running.  The web handlers           *)
(* (app/routes/tasks.py) and the scraper and scheduler processes           *)
(* (app/worker.py) do so in different ways.  Besides that job, the jobs    *)
(* that edit channels in the fast and maintenance workers rewrite the      *)
(* files in-process when they are done, and so do the threads a web        *)
(* process starts when Redis fails.  No lock protects an M3U file, unlike  *)
(* the XML artifacts of XmlCache.                                          *)
(*                                                                         *)
(* One M3U file stands for all.  Its content is abstracted to the versions *)
(* of the two kinds of data it is made from: the feed definitions, read    *)
(* when a refresh begins, and the channels, read when the M3U is written   *)
(* after every XML artifact.                                               *)
(***************************************************************************)
EXTENDS Integers, FiniteSets

CONSTANTS
    Web,         \* web request handlers
    Scrapers,    \* scraper and scheduler processes
    Refreshers,  \* who can rewrite the files: "fast", "maintenance", "thread"
    MaxVersion,  \* bound: versions of each kind of data
    MaxFaults    \* bound: crashes, failing writers and Redis failures

ASSUME RefresherAssumption ==
    /\ Refreshers \subseteq {"fast", "maintenance", "thread"}
    /\ "fast" \in Refreshers
ASSUME RequesterAssumption == /\ IsFiniteSet(Web)
                              /\ IsFiniteSet(Scrapers)
                              /\ Web \intersect Scrapers = {}
ASSUME BoundAssumption == MaxVersion \in Nat /\ MaxFaults \in Nat

VARIABLES
    data,      \* version of the committed feeds and channels
    m3u,       \* the versions the M3U file was made from, 0 while it is missing
    queue,     \* how many times the queue holds the id xml-refresh
    stuck,     \* 1 if the intermediate queue holds one a dead worker left
    hash,      \* status in the job's hash
    registry,  \* the id's entry in the started-job registry: none, or its 
               \* as the fast worker never renews it
    debounce,  \* 1 while lock:xml-refresh exists in Redis
    pc,        \* where each requester is
    stage,     \* where each refresher is
    task,      \* whether it refreshes for the job or after an edit
    pass,      \* 1, or 2 when files were missing after the first
    seen,      \* the versions it has read
    faults,    \* how many faults happened so far
    forgotten, \* history: the tables whose last edit lost its request
    alone      \* history: 1 if nobody else refreshed since a refresher began

redis == <<queue, stuck, hash, registry>>
refreshVars == <<stage, task, pass, seen, alone>>
vars == <<data, m3u, redis, debounce, pc, refreshVars, faults, forgotten>>

Requesters == Web \union Scrapers
Tables == {"feeds", "channels"}
NoFile == [t \in Tables |-> 0]

Refreshing == {r \in Refreshers : stage[r] \in {"begin", "xml", "read", "written"}}

\* Requesters that found the queue empty and may yet enqueue the job.
Pending == {p \in Requesters : pc[p] \in {"registry", "hash", "zombie", "enqueue"}}

\* The tables a refresher has not read yet.
Unread(r) == CASE stage[r] = "begin" -> Tables
               [] stage[r] = "xml" -> {"channels"}
               [] OTHER -> {}

-----------------------------------------------------------------------------
\* The files of an earlier run of the program are there, or none.
Init ==
    /\ data = [t \in Tables |-> 1]
    /\ m3u \in {NoFile, data}
    /\ queue = 0
    /\ stuck = 0
    /\ hash = "none"
    /\ registry = "none"
    /\ debounce = 0
    /\ pc = [p \in Requesters |-> "idle"]
    /\ stage = [r \in Refreshers |-> "idle"]
    /\ task = [r \in Refreshers |-> "refresh"]
    /\ pass = [r \in Refreshers |-> 1]
    /\ seen = [r \in Refreshers |-> NoFile]
    /\ faults = 0
    /\ forgotten = Tables
    /\ alone = [r \in Refreshers |-> 0]

Goto(p, label) == pc' = [pc EXCEPT ![p] = label]

\* History: no refresh may be coming for what was edited in these tables.
Forget(tables) == forgotten' = forgotten \union tables

\* The tables whose edits the running job will not show: those it has read,
\* or all when it only seems to be running.
ReadAlready ==
    IF task["fast"] = "refresh" THEN Tables \ Unread("fast") ELSE Tables

Fault == faults < MaxFaults /\ faults' = faults + 1

\* A refresher that was at `from' starts to rewrite the files.
Begin(r, from, why) ==
    /\ stage[r] = from
    /\ stage' = [stage EXCEPT ![r] = "begin"]
    /\ task' = [task EXCEPT ![r] = why]
    /\ pass' = [pass EXCEPT ![r] = 1]
    /\ seen' = [seen EXCEPT ![r] = NoFile]
    /\ alone' = [x \in Refreshers |-> IF x = r /\ Refreshing = {} THEN 1 ELSE 0]

-----------------------------------------------------------------------------
(* Requests. *)

\* An edit, or a scrape, commits, invalidates the XML artifacts and asks for a
\* refresh.  Feed definitions are edited by web handlers only.  The scheduler
\* asks when it starts, without an edit.
Edit(p, tables) ==
    /\ pc[p] = "idle"
    /\ p \in Scrapers => "feeds" \notin tables
    /\ \A t \in tables : data[t] < MaxVersion
    /\ data' = [t \in Tables |-> IF t \in tables THEN data[t] + 1 ELSE data[t]]
    /\ forgotten' = forgotten \ tables
    /\ Goto(p, IF p \in Web THEN "debounce" ELSE "live")
    /\ UNCHANGED <<m3u, redis, debounce, refreshVars, faults>>

\* trigger_xml_refresh: SET NX EX 10 on lock:xml-refresh.
Debounce(p) ==
    /\ pc[p] = "debounce"
    /\ debounce' = 1
    /\ IF debounce = 1
       THEN Goto(p, "idle") /\ Forget(Tables)
       ELSE Goto(p, "cleanup") /\ UNCHANGED forgotten
    /\ UNCHANGED <<data, m3u, redis, refreshVars, faults>>

DebounceExpires ==
    /\ debounce = 1
    /\ debounce' = 0
    /\ UNCHANGED <<data, m3u, redis, pc, refreshVars, faults, forgotten>>

\* _cleanup_stale_started_job: is the entry in the registry stale?  One whose
\* job is gone is removed on the spot.
CleanUp(p) ==
    /\ pc[p] = "cleanup"
    /\ Goto(p, IF registry # "none" /\ hash # "none" /\ (hash # "started" \/ registry # "fresh")
               THEN "remove" ELSE "queue")
    /\ registry' = IF hash = "none" THEN "none" ELSE registry
    /\ UNCHANGED <<data, m3u, queue, stuck, hash, debounce, refreshVars, faults, forgotten>>

\* Job.delete drops the hash, and takes one entry out of the queue with it and,
\* if the job is started, that of the registry.
DeleteJob ==
    /\ hash' = "none"
    /\ queue' = IF queue > 0 THEN queue - 1 ELSE 0

\* ... if so the entry goes, and the job with it.
Remove(p) ==
    /\ pc[p] = "remove"
    /\ DeleteJob
    /\ registry' = "none"
    /\ Goto(p, "queue")
    /\ UNCHANGED <<data, m3u, stuck, debounce, refreshVars, faults, forgotten>>

\* Faulty variant: the entry of a dead worker is never dropped.
LookAtLiveForEver(p) ==
    /\ pc[p] = "live"
    /\ IF registry # "none"
       THEN Goto(p, "idle") /\ Forget(ReadAlready)
       ELSE Goto(p, "queue") /\ UNCHANGED forgotten
    /\ UNCHANGED <<data, m3u, redis, debounce, refreshVars, faults>>

\* _enqueue_xml_refresh_job: reading the registry drops an expired entry, and
\* marks its job failed.  The request is dropped if an entry is left, unless no
\* live worker serves the queue; the dead one's registration lasts as long as
\* the entry does.
LookAtLive(p) ==
    /\ pc[p] = "live"
    /\ IF registry \in {"fresh", "old"}
       THEN /\ Goto(p, "idle")
            /\ Forget(ReadAlready)
            /\ UNCHANGED <<registry, hash>>
       ELSE /\ Goto(p, "queue")
            /\ registry' = "none"
            /\ hash' = IF registry # "none" /\ hash # "none" THEN "ended" ELSE hash
            /\ UNCHANGED forgotten
    /\ UNCHANGED <<data, m3u, queue, stuck, debounce, refreshVars, faults>>

\* Both: dropped if the queue holds the id.  An entry whose hash was deleted
\* will be skipped by the worker.
LookAtQueue(p) ==
    /\ pc[p] = "queue"
    /\ IF queue > 0
       THEN Goto(p, "idle") /\ Forget(IF hash = "none" THEN Tables ELSE {})
       ELSE /\ Goto(p, IF p \in Web THEN "registry" ELSE "hash")
            /\ UNCHANGED forgotten
    /\ UNCHANGED <<data, m3u, redis, debounce, refreshVars, faults>>

\* _job_already_active, second registry: the same for the registry.
LookAtRegistry(p) ==
    /\ pc[p] = "registry"
    /\ IF registry \in {"fresh", "old"}
       THEN /\ Goto(p, "idle")
            /\ Forget(ReadAlready)
            /\ UNCHANGED <<registry, hash>>
       ELSE /\ Goto(p, "hash")
            /\ registry' = "none"
            /\ hash' = IF registry # "none" /\ hash # "none" THEN "ended" ELSE hash
            /\ UNCHANGED forgotten
    /\ UNCHANGED <<data, m3u, queue, stuck, debounce, refreshVars, faults>>

\* Faulty variant: the hash of the last job, which RQ keeps for a while, counts.
LookAtHashEnded(p) ==
    /\ pc[p] = "hash"
    /\ Goto(p, CASE hash \in {"queued", "ended"} -> "idle"
                 [] hash = "started" -> "zombie"
                 [] OTHER -> "enqueue")
    /\ Forget(IF hash = "queued" /\ queue = 0 /\ stage["fast"] # "popped"
              THEN Tables ELSE {})
    /\ UNCHANGED <<data, m3u, redis, debounce, refreshVars, faults>>

\* Both: a hash without an entry is a job the worker has just popped (or left
\* stuck when it died), or a zombie.
LookAtHash(p) ==
    /\ pc[p] = "hash"
    /\ Goto(p, CASE hash = "queued" -> "idle"
                 [] hash = "started" -> "zombie"
                 [] OTHER -> "enqueue")
    /\ Forget(IF hash = "queued" /\ queue = 0 /\ stage["fast"] # "popped"
              THEN Tables ELSE {})
    /\ UNCHANGED <<data, m3u, redis, debounce, refreshVars, faults>>

DeleteZombie(p) ==
    /\ pc[p] = "zombie"
    /\ DeleteJob
    /\ registry' = IF hash = "started" THEN "none" ELSE registry
    /\ Goto(p, "enqueue")
    /\ UNCHANGED <<data, m3u, stuck, debounce, refreshVars, faults, forgotten>>

\* Queue.enqueue writes the hash and pushes the id, whatever is there by now.
Enqueue(p) ==
    /\ pc[p] = "enqueue"
    /\ queue' = queue + 1
    /\ hash' = "queued"
    /\ Goto(p, "idle")
    /\ UNCHANGED <<data, m3u, stuck, registry, debounce, refreshVars, faults, forgotten>>

\* Redis fails: a web handler refreshes in a thread, the others give up.
RedisFails(p) ==
    /\ pc[p] # "idle"
    /\ Fault
    /\ Goto(p, "idle")
    /\ IF p \in Web /\ "thread" \in Refreshers
       THEN Begin("thread", "idle", "refresh") /\ UNCHANGED forgotten
       ELSE Forget(Tables) /\ UNCHANGED refreshVars
    /\ UNCHANGED <<data, m3u, redis, debounce>>

-----------------------------------------------------------------------------
(* The fast worker and the job. *)

\* The next id moves to the intermediate queue ...
Dequeue ==
    /\ stage["fast"] = "idle"
    /\ queue > 0
    /\ queue' = queue - 1
    /\ stage' = [stage EXCEPT !["fast"] = "popped"]
    /\ UNCHANGED <<data, m3u, stuck, hash, registry, debounce, pc, task, pass, seen,
                   alone, faults, forgotten>>

\* ... and its job is started ...
Start ==
    /\ stage["fast"] = "popped"
    /\ hash # "none"
    /\ hash' = "started"
    /\ registry' = "fresh"
    /\ Begin("fast", "popped", "refresh")
    /\ UNCHANGED <<data, m3u, queue, stuck, debounce, pc, faults, forgotten>>

\* ... unless it was deleted: the id is skipped.
Skip ==
    /\ stage["fast"] = "popped"
    /\ hash = "none"
    /\ stage' = [stage EXCEPT !["fast"] = "idle"]
    /\ stuck' = 1
    /\ UNCHANGED <<data, m3u, queue, hash, registry, debounce, pc, task, pass, seen,
                   alone, faults, forgotten>>

\* A refresher that is done has no local state.
End(r, label) ==
    /\ stage' = [stage EXCEPT ![r] = label]
    /\ task' = [task EXCEPT ![r] = "refresh"]
    /\ pass' = [pass EXCEPT ![r] = 1]
    /\ seen' = [seen EXCEPT ![r] = NoFile]
    /\ alone' = [alone EXCEPT ![r] = 0]

\* The job ends: its entry goes, and its hash is written again even if it was
\* deleted or meanwhile belongs to a job queued later.
Finish(r) ==
    /\ stage[r] = "written"
    /\ End(r, "idle")
    /\ IF r = "fast" /\ task[r] = "refresh"
       THEN registry' = "none" /\ hash' = "ended"
       ELSE UNCHANGED <<registry, hash>>
    /\ UNCHANGED <<data, m3u, queue, stuck, debounce, pc, faults, forgotten>>

-----------------------------------------------------------------------------
(* _refresh_xml_artifacts, by whoever runs it. *)

\* Auto-disable (fast), bulk updates and purges (maintenance) commit and then
\* refresh in the same job.
EditJob(r) ==
    /\ r # "thread"
    /\ data["channels"] < MaxVersion
    /\ data' = [data EXCEPT !["channels"] = @ + 1]
    /\ forgotten' = forgotten \ {"channels"}
    /\ Begin(r, "idle", "edit")
    /\ UNCHANGED <<m3u, redis, debounce, pc, faults>>

\* The feeds, their filters and their start numbers are read once.
ReadFeeds(r) ==
    /\ stage[r] = "begin"
    /\ stage' = [stage EXCEPT ![r] = "xml"]
    /\ seen' = [seen EXCEPT ![r]["feeds"] = data["feeds"]]
    /\ UNCHANGED <<data, m3u, redis, debounce, pc, task, pass, alone, faults, forgotten>>

\* Faulty variant: the fast worker, whose jobs share one process, keeps the channels
\* its session read first; the others start with a new session.
ReadChannelsOncePerProcess(r) ==
    /\ stage[r] = "xml"
    /\ stage' = [stage EXCEPT ![r] = "read"]
    /\ seen' = [seen EXCEPT ![r]["channels"] = IF r = "fast" THEN 1 ELSE data["channels"]]
    /\ UNCHANGED <<data, m3u, redis, debounce, pc, task, pass, alone, faults, forgotten>>

\* After the XML artifacts, write_artifact lets generate_m3u read the channels ...
ReadChannels(r) ==
    /\ stage[r] = "xml"
    /\ stage' = [stage EXCEPT ![r] = "read"]
    /\ seen' = [seen EXCEPT ![r]["channels"] = data["channels"]]
    /\ UNCHANGED <<data, m3u, redis, debounce, pc, task, pass, alone, faults, forgotten>>

\* ... and renames the temporary file, whatever is there by now.
Write(r) ==
    /\ stage[r] = "read"
    /\ stage' = [stage EXCEPT ![r] = "written"]
    /\ m3u' = seen[r]
    /\ forgotten' = {t \in Tables : \/ t \in forgotten /\ seen[r][t] # data[t]
                                \/ seen[r][t] < m3u[t]}
    /\ UNCHANGED <<data, redis, debounce, pc, task, pass, seen, alone, faults>>

\* The writer raises, which is logged; if the file is missing altogether there is
\* one more pass.
WriteFails(r) ==
    /\ stage[r] = "read"
    /\ Fault
    /\ IF m3u = NoFile /\ pass[r] = 1
       THEN /\ stage' = [stage EXCEPT ![r] = "begin"]
            /\ pass' = [pass EXCEPT ![r] = 2]
            /\ seen' = [seen EXCEPT ![r] = NoFile]
            /\ UNCHANGED forgotten
       ELSE /\ stage' = [stage EXCEPT ![r] = "written"]
            /\ UNCHANGED <<pass, seen>>
            /\ Forget(Tables)
    /\ UNCHANGED <<data, m3u, redis, debounce, pc, task, alone>>

-----------------------------------------------------------------------------
(* Deaths. *)

\* The fast worker dies and leaves its entry and hash behind; the process of
\* another refresher dies, or a web process is recycled under its thread.
Crash(r) ==
    /\ stage[r] \notin {"idle", "down"}
    /\ Fault
    /\ End(r, IF r = "fast" THEN "down" ELSE "idle")
    /\ stuck' = IF stage[r] = "popped" THEN 1 ELSE stuck
    /\ Forget(Tables)
    /\ UNCHANGED <<data, m3u, queue, hash, registry, debounce, pc>>

\* entrypoint.sh starts the fast worker again after 5 s.
Restart ==
    /\ stage["fast"] = "down"
    /\ stage' = [stage EXCEPT !["fast"] = "idle"]
    /\ UNCHANGED <<data, m3u, redis, debounce, pc, task, pass, seen, alone, faults, forgotten>>

\* The entry gets 300 s old, then 60 s older than the job's timeout of 1800 s:
\* the fast worker runs jobs in its own process and sends no heartbeat meanwhile.
Grow ==
    /\ registry \in {"fresh", "old"}
    /\ registry' = IF registry = "fresh" THEN "old" ELSE "expired"
    /\ UNCHANGED <<data, m3u, queue, stuck, hash, debounce, pc, refreshVars,
                   faults, forgotten>>

\* Between jobs the worker fails what is left in the intermediate queue.
Sweep ==
    /\ stage["fast"] = "idle"
    /\ registry = "none"
    /\ stuck = 1
    /\ stuck' = 0
    /\ hash' = IF hash = "none" THEN "none" ELSE "ended"
    /\ UNCHANGED <<data, m3u, queue, registry, debounce, pc, refreshVars, faults,
                   forgotten>>

-----------------------------------------------------------------------------
Asking(p) ==
    \/ Debounce(p) \/ CleanUp(p) \/ Remove(p) \/ LookAtLive(p) \/ LookAtQueue(p)
    \/ LookAtRegistry(p) \/ LookAtHash(p) \/ DeleteZombie(p) \/ Enqueue(p)

Rewriting(r) == ReadFeeds(r) \/ ReadChannels(r) \/ Write(r) \/ Finish(r)

Next ==
    \/ \E p \in Requesters :
        \/ \E tables \in SUBSET Tables : Edit(p, tables)
        \/ Asking(p)
        \/ RedisFails(p)
    \/ \E r \in Refreshers :
        Rewriting(r) \/ EditJob(r) \/ WriteFails(r) \/ Crash(r)
    \/ DebounceExpires \/ Dequeue \/ Start \/ Skip \/ Restart \/ Grow \/ Sweep

Spec == Init /\ [][Next]_vars

\* Processes go on with what they started, a dead worker is restarted, times
\* pass, and scrapes are scheduled for ever.  Edits and faults need not happen.
FairSpec ==
    /\ Spec
    /\ \A p \in Requesters : WF_vars(Asking(p))
    /\ \A p \in Scrapers : WF_vars(Edit(p, {}))
    /\ \A r \in Refreshers : WF_vars(Rewriting(r))
    /\ WF_vars(Dequeue)
    /\ WF_vars(Start \/ Skip)
    /\ WF_vars(Restart)
    /\ WF_vars(Grow)
    /\ SF_vars(Sweep)

-----------------------------------------------------------------------------
TypeOK ==
    /\ data \in [Tables -> Nat \ {0}]
    /\ m3u \in [Tables -> Nat]
    /\ queue \in Nat
    /\ stuck \in 0..1
    /\ hash \in {"none", "queued", "started", "ended"}
    /\ registry \in {"none", "fresh", "old", "expired"}
    /\ debounce \in 0..1
    /\ pc \in [Requesters -> {"idle", "debounce", "cleanup", "remove", "live", "queue",
                              "registry", "hash", "zombie", "enqueue"}]
    /\ stage \in [Refreshers -> {"idle", "popped", "begin", "xml", "read", "written",
                                 "down"}]
    /\ task \in [Refreshers -> {"refresh", "edit"}]
    /\ pass \in [Refreshers -> 1..2]
    /\ seen \in [Refreshers -> [Tables -> Nat]]
    /\ faults \in 0..MaxFaults
    /\ forgotten \subseteq Tables
    /\ alone \in [Refreshers -> 0..1]

\* Somebody is going to put the current version of table t into the file.
Coming(t) ==
    \/ \E p \in Requesters : pc[p] # "idle"
    \/ hash # "none" /\ (queue > 0 \/ stage["fast"] = "popped")
    \/ \E r \in Refreshers :
        \/ t \in Unread(r)
        \/ stage[r] \in {"xml", "read"} /\ seen[r][t] = data[t]

\* An edit reaches the file, or is going to, unless its request was lost to one of
\* the causes that `forgotten' records.  In particular no request is lost by
\* finding the job queued or popped, or running and not yet at the data, although
\* every look at Redis is out of date when the next one is taken.
EditsArrive == \A t \in Tables :
    m3u[t] = data[t] \/ t \in forgotten \/ Coming(t)

\* However many requests find the queue empty at the same time, the queue never
\* holds more entries than there are requesters.
NoFlood == queue + Cardinality(Pending) <= Cardinality(Requesters)

\* A refresh that no other one overlapped never puts older data in the file, though
\* nothing locks the file.
NeverOlderAlone ==
    [][\A r \in Refreshers : stage[r] = "read" /\ stage'[r] = "written" /\ alone[r] = 1
            => \A t \in Tables : m3u'[t] >= m3u[t]]_vars

\* Nobody has read, and the file does not hold, a version that is not committed.
VersionInv == \A t \in Tables :
    /\ m3u[t] <= data[t]
    /\ \A r \in Refreshers : seen[r][t] <= data[t]

\* A refresher that is alone is the only one, and has read what is newer than the
\* file.
AloneInv == \A r \in Refreshers : alone[r] = 1 =>
    /\ Refreshing = {r}
    /\ stage[r] \in {"xml", "read"} => m3u["feeds"] <= seen[r]["feeds"]
    /\ stage[r] = "read" => m3u["channels"] <= seen[r]["channels"]

\* The inductive invariant behind EditsArrive and NeverOlderAlone.
IInv == VersionInv /\ AloneInv /\ EditsArrive

\* Types, what refreshers have read, and the length of the queue.
Inv == TypeOK /\ IInv /\ NoFlood

\* After the last edit the file catches up, whatever requests were lost and
\* whatever died: the request of some later scrape gets through.
FeedsCatchUp == <>[](m3u = data)
=============================================================================
