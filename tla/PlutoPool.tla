------------------------------ MODULE PlutoPool ------------------------------
(***************************************************************************)
(* The pool of screen-grab sessions of app/scrapers/pluto_x11.py, as one   *)
(* web process keeps it: the table _sessions and its lock, the launch lock *)
(* of each channel, the viewers inside stream_channel(), the threads that  *)
(* run _ensure_resting_session(), and the reaper.                          *)
(*                                                                         *)
(* A session is an identity; its processes (Xvfb, browser, ffmpeg) run as  *)
(* one.  A step is what happens under one hold of _sessions_lock, or       *)
(* between two: launching takes seconds and holds only the launch lock.    *)
(***************************************************************************)
EXTENDS Naturals, FiniteSets

CONSTANTS
    Channels,      \* channels viewers ask for
    Viewers,       \* requests that may be inside stream_channel()
    Resters,       \* threads that may be inside _ensure_resting_session():
                   \* the pool manager and the refill threads, as many as at once
    MaxSessions,   \* POOL_MAX_SESSIONS
    NoSession      \* stands for None

ASSUME PoolAssumption ==
    /\ IsFiniteSet(Channels) /\ IsFiniteSet(Viewers) /\ IsFiniteSet(Resters)
    /\ MaxSessions \in Nat \ {0}
    /\ NoSession \notin Channels

VARIABLES
    active,        \* _sessions[channel] of every channel
    resting,       \* the sessions in _sessions under a resting key
    running,       \* sessions whose processes run
    alive,         \* sessions whose broadcast.is_alive()
    readers,       \* sess.readers
    viewer,        \* where each request is in stream_channel(), and its session
    told,          \* viewers whose queue holds the end-of-stream mark
    rester,        \* where each refill thread is, its session, its calls to make
    condemned,        \* to_evict, of the reaper
    reaping,       \* the session the reaper has popped and is terminating
    crowded,       \* history: a viewer launched while somebody else did
    leftover       \* Xvfb, PulseAudio or a browser of a launch that failed runs on

poolVars == <<active, resting, running, alive, readers, viewer, told,
              rester, condemned, reaping, crowded, leftover>>

\* Names for sessions, by what they were launched for.
PoolNames == (Channels \cup {NoSession}) \X (1 .. Cardinality(Viewers) + MaxSessions + 1)

ASSUME PoolNameAssumption == NoSession \notin PoolNames

PoolActive == {active[c] : c \in Channels} \ {NoSession}

\* len(_sessions)
PoolTotal == Cardinality(PoolActive) + Cardinality(resting)

\* The names something refers to
PoolUsed ==
    PoolActive \cup resting \cup running \cup {viewer[v].sess : v \in Viewers}

\* The least name for c (NoSession: for resting) that nothing refers to
PoolFresh(c) ==
    CHOOSE s \in PoolNames \ PoolUsed :
        s[1] = c /\ \A t \in PoolNames \ PoolUsed : t[1] = c => s[2] <= t[2]

PoolOut == [at |-> "out", channel |-> NoSession, sess |-> NoSession]
PoolHome(n) == [at |-> "home", calls |-> n]

PoolInit ==
    /\ active = [c \in Channels |-> NoSession]
    /\ resting = {}
    /\ running = {}
    /\ alive = {}
    /\ readers = [s \in PoolNames |-> 0]
    /\ viewer = [v \in Viewers |-> PoolOut]
    /\ told = {}
    /\ rester = [r \in Resters |-> PoolHome(0)]
    /\ condemned = {}
    /\ reaping = NoSession
    /\ crowded = FALSE /\ leftover = FALSE

-----------------------------------------------------------------------------
\* Viewers, in stream_channel()

\* Faulty variant: launches for one channel do not wait for each other.
PoolLockFreeAlways(c) == TRUE

PoolLockFree(c) ==
    \A w \in Viewers :
        ~(viewer[w].channel = c /\ viewer[w].at \in {"full", "launch"})

\* Nothing runs of sessions S any more; every reader that has room in its
\* queue finds the end-of-stream mark in it, those in "slow" do not.
PoolStop(S, slow) ==
    /\ running' = running \ S
    /\ alive' = alive \ S
    /\ told' = told \cup {v \in Viewers \ slow : /\ viewer[v].at = "reading"
                                                 /\ viewer[v].sess \in S \cap alive}

\* The launch lock is taken and the table read: attach to a live session, or
\* bury a dead one, take a resting one out of the table and terminate it.
\* Both tables are read in one step: the launch lock keeps other requests for
\* the channel away, and a resting session taken a moment later is the same.
PoolAttach(v, c) ==
    /\ viewer[v].at = "out"
    /\ PoolLockFree(c)
    /\ active[c] \in alive
    /\ readers' = [readers EXCEPT ![active[c]] = @ + 1]
    /\ viewer' = [viewer EXCEPT ![v] = [at |-> "reading", channel |-> c, sess |-> active[c]]]
    /\ UNCHANGED <<active, resting, running, alive, told, rester, condemned, reaping, crowded, leftover>>

PoolMiss(v, c) ==
    /\ viewer[v].at = "out"
    /\ PoolLockFree(c)
    /\ active[c] \notin alive
    /\ viewer' = [viewer EXCEPT ![v] = [at |-> "full", channel |-> c, sess |-> NoSession]]
    /\ active' = [active EXCEPT ![c] = NoSession]
    /\ \E popped \in {{}} \cup {{s} : s \in resting \cap alive} :
          /\ popped = {} => resting \cap alive = {}
          /\ resting' = resting \ popped
          /\ PoolStop({active[c]} \cup popped, {})
    /\ UNCHANGED <<readers, rester, condemned, reaping, crowded, leftover>>

\* The capacity check.  A full pool is looked at three times, 3 s apart,
\* and then the request is turned away.
PoolAdmit(v) ==
    /\ viewer[v].at = "full"
    /\ PoolTotal < MaxSessions
    /\ viewer' = [viewer EXCEPT ![v] =
                     [at |-> "launch", channel |-> @.channel, sess |-> NoSession]]
    /\ crowded' = (\/ crowded
                   \/ \E w \in Viewers : viewer[w].at = "launch"
                   \/ \E r \in Resters : rester[r].at = "launch")
    /\ UNCHANGED <<active, resting, running, alive, readers, told, rester,
                   condemned, reaping, leftover>>

PoolReject(v) ==
    /\ viewer[v].at = "full"
    /\ PoolTotal >= MaxSessions
    /\ viewer' = [viewer EXCEPT ![v] = PoolOut]
    /\ UNCHANGED <<active, resting, running, alive, readers, told, rester,
                   condemned, reaping, crowded, leftover>>

\* A refill thread is started, unless as many as the bound allows run.
PoolSpawn ==
    \/ \E r \in Resters :
          /\ rester[r] = PoolHome(0)
          /\ rester' = [rester EXCEPT ![r] = PoolHome(1)]
    \/ /\ \A r \in Resters : rester[r] # PoolHome(0)
       /\ UNCHANGED rester

\* _launch_session() has returned a session whose pump runs: it is put in the
\* table, whatever the table holds by now.
PoolLaunch(v) ==
    /\ viewer[v].at = "launch"
    /\ LET c == viewer[v].channel
           s == PoolFresh(c)
       IN  /\ running' = running \cup {s}
           /\ alive' = alive \cup {s}
           /\ active' = [active EXCEPT ![c] = s]
           /\ readers' = [readers EXCEPT ![s] = 1]
           /\ viewer' = [viewer EXCEPT ![v] = [at |-> "reading", channel |-> c, sess |-> s]]
    /\ PoolSpawn
    /\ UNCHANGED <<resting, told, condemned, reaping, crowded, leftover>>

\* ... or it has raised: what it had started by then runs on, known to nobody.
PoolLaunchFails(v) ==
    /\ viewer[v].at = "launch"
    /\ viewer' = [viewer EXCEPT ![v] = PoolOut]
    /\ leftover' \in {leftover, TRUE}
    /\ UNCHANGED <<active, resting, running, alive, readers, told, rester,
                   condemned, reaping, crowded>>

\* The generator ends: at the end-of-stream mark, or because the client has
\* gone, which it notices only when it hands out a chunk.
PoolLeave(v) ==
    /\ viewer[v].at = "reading"
    /\ v \in told \/ viewer[v].sess \in alive
    /\ readers' = [readers EXCEPT ![viewer[v].sess] = IF @ > 0 THEN @ - 1 ELSE 0]
    /\ told' = told \ {v}
    /\ viewer' = [viewer EXCEPT ![v] = PoolOut]
    /\ UNCHANGED <<active, resting, running, alive, rester, condemned, reaping, crowded, leftover>>

-----------------------------------------------------------------------------
\* Refill threads and the pool manager, in _ensure_resting_session()

\* A resting session may be added: one slot stays free for viewers.
PoolRoom ==
    /\ PoolTotal < MaxSessions
    /\ Cardinality(resting) < MaxSessions - 1

\* What the manager wants, every 10 s
PoolNeed ==
    LET free == MaxSessions - PoolTotal
        most == IF MaxSessions - 1 < free THEN MaxSessions - 1 ELSE free
    IN  IF PoolTotal >= MaxSessions \/ most <= Cardinality(resting) THEN 0
        ELSE most - Cardinality(resting)

PoolManage(r) ==
    /\ rester[r] = PoolHome(0)
    /\ PoolNeed > 0
    /\ rester' = [rester EXCEPT ![r] = PoolHome(PoolNeed)]
    /\ UNCHANGED <<active, resting, running, alive, readers, viewer, told,
                   condemned, reaping, crowded, leftover>>

PoolEnsure(r) ==
    /\ rester[r].at = "home"
    /\ rester[r].calls > 0
    /\ rester' = [rester EXCEPT ![r] =
                     IF PoolRoom THEN [at |-> "launch", calls |-> @.calls] ELSE PoolHome(@.calls - 1)]
    /\ crowded' = (crowded \/ (PoolRoom /\ \E v \in Viewers : viewer[v].at = "launch"))
    /\ UNCHANGED <<active, resting, running, alive, readers, viewer, told,
                   condemned, reaping, leftover>>

\* Faulty variant: capacity is not looked at again.
PoolRestBlindly(r) ==
    /\ rester[r].at = "launch"
    /\ LET s == PoolFresh(NoSession) IN
         /\ resting' = resting \cup {s}
         /\ running' = running \cup {s}
         /\ alive' = alive \cup {s}
         /\ readers' = [readers EXCEPT ![s] = 0]
    /\ rester' = [rester EXCEPT ![r] = PoolHome(@.calls - 1)]
    /\ UNCHANGED <<active, viewer, told, condemned, reaping, crowded, leftover>>

\* The launch has taken seconds: capacity is checked again, and a session
\* that is not needed any more is terminated at once.
PoolRest(r) ==
    /\ rester[r].at = "launch"
    /\ \/ /\ PoolRoom
          /\ LET s == PoolFresh(NoSession) IN
               /\ resting' = resting \cup {s}
               /\ running' = running \cup {s}
               /\ alive' = alive \cup {s}
               /\ readers' = [readers EXCEPT ![s] = 0]
       \/ ~PoolRoom /\ UNCHANGED <<resting, running, alive, readers>>
    /\ rester' = [rester EXCEPT ![r] = PoolHome(@.calls - 1)]
    /\ UNCHANGED <<active, viewer, told, condemned, reaping, crowded, leftover>>

PoolRestFails(r) ==
    /\ rester[r].at = "launch"
    /\ rester' = [rester EXCEPT ![r] = PoolHome(@.calls - 1)]
    /\ leftover' \in {leftover, TRUE}
    /\ UNCHANGED <<active, resting, running, alive, readers, viewer, told,
                   condemned, reaping, crowded>>

-----------------------------------------------------------------------------
\* The reaper, and what happens by itself

\* Faulty variant: only dead sessions are reaped.
PoolScanDead(idle) ==
    /\ condemned = {}
    /\ reaping = NoSession
    /\ \A c \in idle : active[c] # NoSession /\ readers[active[c]] = 0
    /\ condemned' = {c \in Channels : active[c] \in PoolActive \ alive}
    /\ condemned' # {}
    /\ UNCHANGED <<active, resting, running, alive, readers, viewer, told,
                   rester, reaping, crowded, leftover>>

\* Every 5 s, under the lock: dead sessions, and of those without readers
\* the ones whose last_read is more than IDLE_TIMEOUT ago.
PoolScan(idle) ==
    /\ condemned = {}
    /\ reaping = NoSession
    /\ \A c \in idle : active[c] # NoSession /\ readers[active[c]] = 0
    /\ condemned' = idle \cup {c \in Channels : active[c] \in PoolActive \ alive}
    /\ condemned' # {}
    /\ UNCHANGED <<active, resting, running, alive, readers, viewer, told,
                   rester, reaping, crowded, leftover>>

\* Each of them is popped by its key, whatever has happened to it since.
PoolPop(c) ==
    /\ c \in condemned
    /\ reaping = NoSession
    /\ condemned' = condemned \ {c}
    /\ reaping' = active[c]
    /\ active' = [active EXCEPT ![c] = NoSession]
    /\ UNCHANGED <<resting, running, alive, readers, viewer, told, rester,
                   crowded, leftover>>

\* ... and terminated outside the lock; then a refill thread is started.
PoolReap ==
    /\ reaping # NoSession
    /\ \E slow \in SUBSET {v \in Viewers : viewer[v].sess = reaping /\ viewer[v].at = "reading"} :
          PoolStop({reaping}, slow)
    /\ reaping' = NoSession
    /\ PoolSpawn
    /\ UNCHANGED <<active, resting, readers, viewer, condemned, crowded, leftover>>

\* ffmpeg dies: the pump ends and marks the queues that have room.
PoolDies(s) ==
    /\ s \in alive
    /\ alive' = alive \ {s}
    /\ \E slow \in SUBSET {v \in Viewers : viewer[v].sess = s /\ viewer[v].at = "reading"} :
          told' = told \cup {v \in Viewers \ slow : viewer[v].sess = s /\ viewer[v].at = "reading"}
    /\ UNCHANGED <<active, resting, running, readers, viewer, rester,
                   condemned, reaping, crowded, leftover>>

PoolViewerStep(v) ==
    \/ PoolAdmit(v) \/ PoolReject(v) \/ PoolLaunch(v)

PoolResterStep(r) == PoolEnsure(r) \/ PoolRest(r)

PoolReaperStep == PoolReap \/ \E c \in Channels : PoolPop(c)

PoolNext ==
    \/ \E v \in Viewers : \/ \E c \in Channels : PoolAttach(v, c) \/ PoolMiss(v, c)
                          \/ PoolViewerStep(v) \/ PoolLaunchFails(v) \/ PoolLeave(v)
    \/ \E r \in Resters : PoolManage(r) \/ PoolResterStep(r) \/ PoolRestFails(r)
    \/ PoolReaperStep \/ \E idle \in SUBSET Channels : PoolScan(idle)
    \/ \E s \in PoolNames : PoolDies(s)

\* The reaper keeps running, and time goes by: what stays without a reader
\* is found idle.  Nothing says that a viewer comes or leaves, that the pool
\* is refilled, or that ffmpeg dies.
PoolFairness ==
    /\ WF_poolVars(PoolReaperStep)
    /\ \A c \in Channels :
          SF_poolVars(\E idle \in SUBSET Channels : c \in idle /\ PoolScan(idle))
    /\ WF_poolVars(PoolScan({}))

PoolSpec == PoolInit /\ [][PoolNext]_poolVars /\ PoolFairness

-----------------------------------------------------------------------------
PoolTypeOK ==
    /\ active \in [Channels -> PoolNames \cup {NoSession}]
    /\ resting \subseteq PoolNames
    /\ running \subseteq PoolNames
    /\ alive \subseteq running
    /\ readers \in [PoolNames -> 0 .. Cardinality(Viewers)]
    /\ viewer \in [Viewers -> [at : {"out", "full", "launch", "reading"},
                               channel : Channels \cup {NoSession},
                               sess : PoolNames \cup {NoSession}]]
    /\ told \subseteq Viewers
    /\ rester \in [Resters -> [at : {"home", "launch"}, calls : 0 .. MaxSessions]]
    /\ condemned \subseteq Channels
    /\ reaping \in PoolNames \cup {NoSession}
    /\ crowded \in BOOLEAN /\ leftover \in BOOLEAN

\* A session whose launch succeeded is in the table, its processes are stopped,
\* or the reaper is about to stop them: none runs on behind its back, unlike what
\* a failed launch has left.
PoolNothingLost == running \subseteq PoolActive \cup resting \cup {reaping}

\* The requests that read from a session
PoolReaders(s) == {v \in Viewers : viewer[v].at = "reading" /\ viewer[v].sess = s}

\* readers is the number of requests that read from the session, whatever has
\* become of the session: the reaper may trust a zero.
PoolReadersCounted == \A s \in PoolNames : readers[s] = Cardinality(PoolReaders(s))

\* A session that is set to rest never takes the slot that is kept for
\* viewers, nor the pool over its limit, however long it took to launch.
PoolRestersYield ==
    [][resting' \ resting # {} =>
          /\ Cardinality(resting') <= MaxSessions - 1
          /\ PoolTotal' <= MaxSessions]_poolVars

\* A session nobody reads from is taken out of the pool in the end, or found
\* a reader.
PoolIdleReaped ==
    \A c \in Channels :
        (active[c] # NoSession /\ readers[active[c]] = 0)
            ~> (active[c] = NoSession \/ readers[active[c]] > 0)

\* A session whose ffmpeg has died leaves the pool in the end, even when a
\* reader that missed the end-of-stream mark still waits for a chunk.
PoolDeadReaped ==
    \A c \in Channels : (active[c] \in PoolActive \ alive) ~> (active[c] \notin PoolActive \ alive)

\* The comment at POOL_MAX_SESSIONS, "active + resting combined": the pool is
\* within its limit unless two launches have overlapped, because a launch in
\* progress counts for nothing in the capacity check.
PoolWithinLimit == ~crowded => PoolTotal <= MaxSessions

\* What the pool's own books must say at any time.
PoolInv == PoolTypeOK /\ PoolNothingLost /\ PoolReadersCounted /\ PoolWithinLimit

\* A session nobody watches, or nobody can, does not stay.
PoolReaped == PoolIdleReaped /\ PoolDeadReaped
=============================================================================
