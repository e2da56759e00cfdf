------------------------------ MODULE XmlCache ------------------------------
(***************************************************************************)
(* One XMLTV artifact of app/xml_cache.py: the file clients download, the  *)
(* stale marker that invalidates it, and ensure_xml_artifact, the lock-    *)
(* protected rebuild run by several processes at once (the fast worker,    *)
(* the maintenance worker and, when Redis is down, threads of the web      *)
(* processes).                                                             *)
(*                                                                         *)
(* The content of a document is abstracted to the database version each of *)
(* its parts was read from: generate_xmltv_stream reads the channels, then *)
(* the programmes page by page, and every SELECT sees its own snapshot.    *)
(* File times are compared by the code, so `now' is a clock of file-system *)
(* timestamp ticks.  The age of a lock only matters against the 600 s      *)
(* limit and is a flag.                                                    *)
(***************************************************************************)
EXTENDS Integers, Sequences

CONSTANTS
    Builders,    \* the processes that may call ensure_xml_artifact
    Chunks,      \* how many database reads one document takes
    MaxTime,     \* bound: timestamp ticks explored
    MaxVersion,  \* bound: committed database versions explored
    MaxFaults    \* bound: crashes, writer failures, slow builds, feed deletions

ASSUME ChunksAssumption == Chunks \in Nat \ {0}
ASSUME BoundsAssumption == /\ MaxTime \in Nat
                           /\ MaxVersion \in Nat
                           /\ MaxFaults \in Nat

VARIABLES
    now,      \* the current file-system timestamp
    db,       \* the version of the committed channel and programme data
    marker,   \* mtime of .xml-stale, 0 while nothing was ever invalidated
    file,     \* the published document, or NoFile
    lock,     \* the lock file: none, young, or old (600 s and more)
    pc,       \* where each process is inside ensure_xml_artifact
    attempt,  \* which of its two attempts to take the lock a process is at
    doc,      \* the parts each process has written to its temporary file
    mtime,    \* the mtime of each process's temporary file once closed
    linked,   \* the processes whose temporary file is still on disk
    faults,   \* how many faults happened so far
    voided,   \* history: why locks may not exclude: one got old, one was deleted
    due,      \* history: db at the last invalidation
    quiet     \* history: db at the last invalidation no build overlapped

fileVars == <<file, lock, linked>>
buildVars == <<pc, attempt, doc, mtime>>
history == <<voided, due, quiet>>
vars == <<now, db, marker, fileVars, buildVars, faults, history>>

NoFile == [mtime |-> 0, doc |-> <<>>]
Exists == file # NoFile

\* Faulty variant: an invalidation in the tick the file was written does not count.
StaleStrictly == ~Exists \/ (marker # 0 /\ marker > file.mtime)

\* _xml_is_stale: missing, or invalidated at or after the time it was written.
\* No caller passes a key to invalidate_xml_cache, so only .xml-stale counts.
Stale == ~Exists \/ (marker # 0 /\ marker >= file.mtime)

\* The processes that hold, or believe they hold, the lock.
Building == {p \in Builders : pc[p] \in {"mkstemp", "write", "replace", "release"}}

-----------------------------------------------------------------------------
Init ==
    /\ now = 1
    /\ db = 0
    /\ marker = 0
    /\ file = NoFile
    /\ lock = "none"
    /\ pc = [p \in Builders |-> "idle"]
    /\ attempt = [p \in Builders |-> 1]
    /\ doc = [p \in Builders |-> <<>>]
    /\ mtime = [p \in Builders |-> 0]
    /\ linked = {}
    /\ faults = 0
    /\ voided = {}
    /\ due = 0
    /\ quiet = 0

Goto(p, label) == pc' = [pc EXCEPT ![p] = label]

\* The process is done with its temporary file.
DropTmp(p) ==
    /\ linked' = linked \ {p}
    /\ doc' = [doc EXCEPT ![p] = <<>>]
    /\ mtime' = [mtime EXCEPT ![p] = 0]

-----------------------------------------------------------------------------
\* Faulty variants of the operations below, for the mutation runs.

\* The age of the lock is not looked at ...
CheckLockIgnoringAge(p) ==
    /\ pc[p] = "check"
    /\ Goto(p, IF lock # "none" THEN "unlink" ELSE "open")
    /\ UNCHANGED <<now, db, marker, fileVars, attempt, doc, mtime, faults, history>>

\* ... or is, and nothing is done about it.
CheckLockKeepingIt(p) ==
    /\ pc[p] = "check"
    /\ Goto(p, "open")
    /\ UNCHANGED <<now, db, marker, fileVars, attempt, doc, mtime, faults, history>>

\* A process that did not get the lock builds all the same.
BuildAnyway(p) ==
    /\ pc[p] = "locked"
    /\ Goto(p, "mkstemp")
    /\ attempt' = [attempt EXCEPT ![p] = 1]
    /\ UNCHANGED <<now, db, marker, fileVars, doc, mtime, faults, history>>

\* The document is written in place.
WriteChunkInPlace(p) ==
    /\ pc[p] = "write"
    /\ Len(doc[p]) < Chunks
    /\ doc' = [doc EXCEPT ![p] = Append(@, db)]
    /\ file' = [mtime |-> now, doc |-> doc'[p]]
    /\ UNCHANGED <<now, db, marker, lock, linked, pc, attempt, mtime, faults, history>>

-----------------------------------------------------------------------------
\* A call returns at once on a fresh artifact, else goes for the lock.
Call(p) ==
    /\ pc[p] = "idle"
    /\ Goto(p, IF Stale THEN "check" ELSE "idle")
    /\ UNCHANGED <<now, db, marker, fileVars, attempt, doc, mtime, faults,
                   history>>

\* _clear_stale_lock_if_needed looks at the age of the lock ...
CheckLock(p) ==
    /\ pc[p] = "check"
    /\ Goto(p, IF lock = "old" THEN "unlink" ELSE "open")
    /\ UNCHANGED <<now, db, marker, fileVars, attempt, doc, mtime, faults,
                   history>>

\* ... then unlinks whatever lock is there by now ...
UnlinkStaleLock(p) ==
    /\ pc[p] = "unlink"
    /\ lock' = "none"
    /\ Goto(p, "sweep")
    /\ UNCHANGED <<now, db, marker, file, linked, attempt, doc, mtime, faults,
                   history>>

\* ... and every temporary file of this artifact, a live builder's included.
SweepTmp(p) ==
    /\ pc[p] = "sweep"
    /\ linked' = {}
    /\ Goto(p, "open")
    /\ UNCHANGED <<now, db, marker, file, lock, attempt, doc, mtime, faults,
                   history>>

\* O_CREAT | O_EXCL creates the lock ...
TakeLock(p) ==
    /\ pc[p] = "open"
    /\ lock = "none"
    /\ lock' = "young"
    /\ attempt' = [attempt EXCEPT ![p] = 1]
    /\ Goto(p, "mkstemp")
    /\ UNCHANGED <<now, db, marker, file, linked, doc, mtime, faults, history>>

\* ... or finds one, once looking at its age again, then giving up.
FindLock(p) ==
    /\ pc[p] = "open"
    /\ lock # "none"
    /\ attempt' = [attempt EXCEPT ![p] = 2]
    /\ Goto(p, IF attempt[p] = 1 THEN "check" ELSE "locked")
    /\ UNCHANGED <<now, db, marker, fileVars, doc, mtime, faults, history>>

\* Somebody else is building: the old file is good enough, none means waiting.
GiveUp(p) ==
    /\ pc[p] = "locked"
    /\ Goto(p, IF Exists THEN "idle" ELSE "wait")
    /\ attempt' = [attempt EXCEPT ![p] = 1]
    /\ UNCHANGED <<now, db, marker, fileVars, doc, mtime, faults, history>>

\* The wait ends with a fresh artifact, or after 10 s with any or none
\* (TimeoutError): the caller gets on in every case.
EndWait(p) ==
    /\ pc[p] = "wait"
    /\ Goto(p, "idle")
    /\ UNCHANGED <<now, db, marker, fileVars, attempt, doc, mtime, faults,
                   history>>

\* write_xml_artifact: a temporary file next to the artifact ...
MakeTmp(p) ==
    /\ pc[p] = "mkstemp"
    /\ linked' = linked \union {p}
    /\ Goto(p, "write")
    /\ UNCHANGED <<now, db, marker, file, lock, attempt, doc, mtime, faults,
                   history>>

\* ... the writer's next database read, written through the open descriptor ...
WriteChunk(p) ==
    /\ pc[p] = "write"
    /\ Len(doc[p]) < Chunks
    /\ doc' = [doc EXCEPT ![p] = Append(@, db)]
    /\ UNCHANGED <<now, db, marker, fileVars, pc, attempt, mtime, faults,
                   history>>

\* ... closing the finished file, which flushes it and sets its mtime ...
CloseTmp(p) ==
    /\ pc[p] = "write"
    /\ Len(doc[p]) = Chunks
    /\ mtime' = [mtime EXCEPT ![p] = now]
    /\ Goto(p, "replace")
    /\ UNCHANGED <<now, db, marker, fileVars, attempt, doc, faults, history>>

\* ... the writer raises (database locked, disk full): the temporary file goes ...
WriterFails(p) ==
    /\ pc[p] = "write"
    /\ faults < MaxFaults
    /\ faults' = faults + 1
    /\ DropTmp(p)
    /\ Goto(p, "release")
    /\ UNCHANGED <<now, db, marker, file, lock, attempt, history>>

\* ... the atomic rename, which raises when the temporary file was swept away.
Replace(p) ==
    /\ pc[p] = "replace"
    /\ file' = IF p \in linked THEN [mtime |-> mtime[p], doc |-> doc[p]] ELSE file
    /\ DropTmp(p)
    /\ Goto(p, "release")
    /\ UNCHANGED <<now, db, marker, lock, attempt, faults, history>>

\* finally: the lock is unlinked, whoever created the one that is there.
Release(p) ==
    /\ pc[p] = "release"
    /\ lock' = "none"
    /\ Goto(p, "idle")
    /\ UNCHANGED <<now, db, marker, file, linked, attempt, doc, mtime, faults,
                   history>>

\* The process is killed and restarted by its watchdog: its lock and its
\* temporary file stay behind (the file is under no live name and never read).
Crash(p) ==
    /\ pc[p] # "idle"
    /\ faults < MaxFaults
    /\ faults' = faults + 1
    /\ DropTmp(p)
    /\ attempt' = [attempt EXCEPT ![p] = 1]
    /\ Goto(p, "idle")
    /\ UNCHANGED <<now, db, marker, file, lock, history>>

-----------------------------------------------------------------------------
\* A scrape, an audit or an edit commits.
Commit ==
    /\ db < MaxVersion
    /\ db' = db + 1
    /\ UNCHANGED <<now, marker, fileVars, buildVars, faults, history>>

\* A build that already read something and whose file is not closed yet.
Overlapped == \E p \in Builders : pc[p] = "write" /\ doc[p] # <<>>

\* invalidate_xml_cache() touches the global marker.
Invalidate ==
    /\ now < MaxTime
    /\ marker' = now
    /\ due' = db
    /\ quiet' = IF Overlapped THEN quiet ELSE db
    /\ UNCHANGED <<now, db, fileVars, buildVars, faults, voided>>

\* delete_xml_artifact, called when a feed is deleted, removes the lock too.
DeleteArtifact ==
    /\ faults < MaxFaults
    /\ faults' = faults + 1
    /\ file' = NoFile
    /\ lock' = "none"
    /\ voided' = IF lock = "none" THEN voided ELSE voided \union {"deleted"}
    /\ UNCHANGED <<now, db, marker, linked, buildVars, due, quiet>>

Tick ==
    /\ now < MaxTime
    /\ now' = now + 1
    /\ UNCHANGED <<db, marker, fileVars, buildVars, faults, history>>

\* 600 s pass over the lock of a process that died: nobody is building.
OrphanAges ==
    /\ lock = "young"
    /\ Building = {}
    /\ lock' = "old"
    /\ voided' = voided \union {"aged"}
    /\ UNCHANGED <<now, db, marker, file, linked, buildVars, faults, due, quiet>>

\* 600 s pass over the lock of a build that is just slow.
SlowBuild ==
    /\ lock = "young"
    /\ Building # {}
    /\ faults < MaxFaults
    /\ faults' = faults + 1
    /\ lock' = "old"
    /\ voided' = voided \union {"aged"}
    /\ UNCHANGED <<now, db, marker, file, linked, buildVars, due, quiet>>

\* What the code of a call does next, failures apart.
Step(p) ==
    \/ CheckLock(p) \/ UnlinkStaleLock(p) \/ SweepTmp(p) \/ TakeLock(p) \/ FindLock(p)
    \/ GiveUp(p) \/ EndWait(p)
    \/ MakeTmp(p) \/ WriteChunk(p) \/ CloseTmp(p) \/ Replace(p) \/ Release(p)

Next ==
    \/ \E p \in Builders : Call(p) \/ Step(p) \/ WriterFails(p) \/ Crash(p)
    \/ Commit \/ Invalidate \/ DeleteArtifact \/ Tick \/ OrphanAges \/ SlowBuild

Spec == Init /\ [][Next]_vars

\* Processes that run keep running, time passes, and refresh jobs keep coming
\* (scrapes and most edits enqueue one); commits, invalidations, crashes and
\* deletions need not happen, and only finitely many do.
Fairness ==
    /\ \A p \in Builders : WF_vars(Call(p)) /\ WF_vars(Step(p))
    /\ WF_vars(Tick)
    /\ WF_vars(OrphanAges)

FairSpec == Spec /\ Fairness

-----------------------------------------------------------------------------
\* The parts a document has, and that all of them are committed data.
Parts(d) == 1..Len(d)
Committed(d) == \A i \in Parts(d) : d[i] <= db
AtLeast(d, v) == \A i \in Parts(d) : d[i] >= v
Ordered(d) == \A i, j \in Parts(d) : i <= j => d[i] <= d[j]

TypeOK ==
    /\ now \in Nat \ {0}
    /\ db \in Nat
    /\ marker \in 0..now
    /\ file \in [mtime : 0..now, doc : Seq(Nat)]
    /\ lock \in {"none", "young", "old"}
    /\ pc \in [Builders -> {"idle", "check", "unlink", "sweep", "open", "locked",
                            "wait", "mkstemp", "write", "replace", "release"}]
    /\ attempt \in [Builders -> 1..2]
    /\ doc \in [Builders -> Seq(Nat)]
    /\ mtime \in [Builders -> 0..now]
    /\ linked \in SUBSET Builders
    /\ faults \in 0..MaxFaults
    /\ voided \in SUBSET {"aged", "deleted"}
    /\ due \in 0..db
    /\ quiet \in 0..db

\* A client that downloads the artifact gets a whole document, whatever
\* crashes, steals the lock or fails: xml_cache.py's "atomic tmp->rename write
\* ensures clients never see a partial file".
WholeDocument == Exists => Len(file.doc) = Chunks

\* The lock file does its job as long as it is neither older than 600 s nor
\* deleted with its feed: one process at a time rebuilds the artifact.
MutualExclusion ==
    voided = {} => \A p, q \in Building : p = q

\* While the lock does its job, a rebuild never publishes a document any part
\* of which is older than what it replaces: no slow build overwrites a newer
\* one (the writer reads the database after it has taken the lock).
NeverOlder ==
    [][ (voided' = {} /\ Exists /\ Exists')
          => \A i \in Parts(file.doc) : file'.doc[i] >= file.doc[i] ]_vars

\* An artifact that passes for fresh holds everything committed before the
\* last invalidation that did not overlap a build, also when file and marker
\* were written within one timestamp tick.
QuietInvalidation ==
    (Exists /\ ~Stale) => AtLeast(file.doc, quiet)

\* What ensure_xml_artifact ("rebuilding if missing or stale") and the README
\* ("The cache is invalidated automatically after each scrape") promise of every
\* invalidation: the code loses one that arrives while a build is reading,
\* because the file it overtakes is stamped when the build ends.
EveryInvalidation ==
    (Exists /\ ~Stale) => AtLeast(file.doc, due)

\* A stale or missing artifact is eventually rebuilt, crashes, orphaned locks
\* and failing writers notwithstanding.
StaleIsRebuilt == Stale ~> ~Stale

\* Every call returns, also one that waits for a builder that died.
CallsReturn == \A p \in Builders : pc[p] # "idle" ~> pc[p] = "idle"

-----------------------------------------------------------------------------
\* Liveness, whatever crashes and fails: what is stale does not stay stale, and
\* no call of the web process hangs.
NothingHangs == StaleIsRebuilt /\ CallsReturn

\* Why the properties above hold, part by part.

\* What a process is about to publish is complete, and only a build in
\* progress has written anything.
DocumentInv ==
    /\ Exists => Len(file.doc) = Chunks
    /\ \A p \in Builders :
          /\ pc[p] = "replace" => Len(doc[p]) = Chunks
          /\ pc[p] \notin {"write", "replace"} => doc[p] = <<>>

\* Parts are committed data, read in order.
PartsInv ==
    /\ Committed(file.doc) /\ Ordered(file.doc)
    /\ \A p \in Builders : Committed(doc[p]) /\ Ordered(doc[p])

\* While no lock got old or was deleted, nobody is stealing one and the one
\* process that builds is covered by the lock on disk.
LockInv ==
    voided = {} =>
        /\ lock # "old"
        /\ \A p \in Builders : pc[p] \notin {"unlink", "sweep"}
        /\ Building # {} => lock = "young"
        /\ \A p, q \in Building : p = q

\* Then what it has read is no older than what is published.
NewerInv ==
    voided = {} =>
        \A p \in Builders : \A i \in Parts(doc[p]) :
            i \in Parts(file.doc) => doc[p][i] >= file.doc[i]

\* What was read before a quiet invalidation is stamped no later than it.
QuietInv ==
    /\ Exists /\ marker < file.mtime => AtLeast(file.doc, quiet)
    /\ \A p \in Builders :
          /\ pc[p] = "write" => AtLeast(doc[p], quiet)
          /\ pc[p] = "replace" /\ marker < mtime[p] => AtLeast(doc[p], quiet)

\* Without a marker nothing was invalidated.
StampInv == marker = 0 => quiet = 0

\* The inductive invariant.
IInv == DocumentInv /\ PartsInv /\ LockInv /\ NewerInv /\ QuietInv /\ StampInv

\* Types and all of the above: what every reachable state satisfies.
Inv == TypeOK /\ IInv

\* What all of this is for: a register clients read whole documents from,
\* whoever builds them and however the builders interleave or die.
Published == INSTANCE PublishedDocument WITH published <- file.doc
Implements == Published!Spec
=============================================================================
