------------------------ MODULE RefreshJobsProofs ------------------------
(***************************************************************************)
(* What RefreshJobs guarantees for any number of requesters, any set of    *)
(* refreshers and any bounds: its types, that the queue stays short, that  *)
(* an edit is only forgotten for the recorded causes, and that a refresh   *)
(* no other one overlaps never goes back in time.                          *)
(***************************************************************************)
EXTENDS RefreshJobs, FiniteSetTheorems, TLAPS

-----------------------------------------------------------------------------
\* A file of which nothing has been read has versions too.
LEMMA NoFileType == NoFile \in [Tables -> Nat]
  BY DEF NoFile

\* Begin keeps the types of what belongs to the refreshers.
LEMMA BeginType ==
  ASSUME TypeOK, NEW r \in Refreshers, NEW from, NEW why \in {"refresh", "edit"},
         Begin(r, from, why)
  PROVE  /\ stage' \in [Refreshers -> {"idle", "popped", "begin", "xml", "read",
                                       "written", "down"}]
         /\ task' \in [Refreshers -> {"refresh", "edit"}]
         /\ pass' \in [Refreshers -> 1..2]
         /\ seen' \in [Refreshers -> [Tables -> Nat]]
         /\ alone' \in [Refreshers -> 0..1]
  BY NoFileType DEF TypeOK, Begin

\* End does too.
LEMMA EndType ==
  ASSUME TypeOK, NEW r \in Refreshers, NEW label \in {"idle", "down"}, End(r, label)
  PROVE  /\ stage' \in [Refreshers -> {"idle", "popped", "begin", "xml", "read",
                                       "written", "down"}]
         /\ task' \in [Refreshers -> {"refresh", "edit"}]
         /\ pass' \in [Refreshers -> 1..2]
         /\ seen' \in [Refreshers -> [Tables -> Nat]]
         /\ alone' \in [Refreshers -> 0..1]
  BY NoFileType DEF TypeOK, End

\* What a refresher has read of one table changes, the rest does not.
LEMMA ReadOne ==
  ASSUME TypeOK, NEW r \in Refreshers, NEW t \in Tables,
         seen' = [seen EXCEPT ![r][t] = data[t]]
  PROVE  /\ seen' \in [Refreshers -> [Tables -> Nat]]
         /\ seen'[r][t] = data[t]
         /\ \A u \in Tables : u # t => seen'[r][u] = seen[r][u]
         /\ \A x \in Refreshers : x # r => seen'[x] = seen[x]
<1>1. data[t] \in Nat
  BY DEF TypeOK
<1>2. seen \in [Refreshers -> [Tables -> Nat]]
  BY DEF TypeOK
<1>3. seen' = [seen EXCEPT ![r] = [seen[r] EXCEPT ![t] = data[t]]]
  OBVIOUS
<1>4. [seen[r] EXCEPT ![t] = data[t]] \in [Tables -> Nat]
  BY <1>1, <1>2
<1> QED
  BY <1>2, <1>3, <1>4

\* Every variable keeps its type.
THEOREM Typing == Spec => []TypeOK
<1>1. Init => TypeOK
  BY BoundAssumption, NoFileType DEF Init, TypeOK
<1>2. TypeOK /\ [Next]_vars => TypeOK'
  <2> SUFFICES ASSUME TypeOK, [Next]_vars
               PROVE  TypeOK'
    OBVIOUS
  <2> "fast" \in Refreshers
    BY RefresherAssumption
  <2> USE BoundAssumption
  <2>1. ASSUME NEW p \in Requesters, NEW tables \in SUBSET Tables, Edit(p, tables)
        PROVE  TypeOK'
    BY <2>1 DEF Edit, Goto, redis, refreshVars, TypeOK
  <2>2. ASSUME NEW p \in Requesters, Debounce(p)  PROVE TypeOK'
    BY <2>2 DEF Debounce, Goto, Forget, redis, refreshVars, TypeOK
  <2>3. ASSUME NEW p \in Requesters, CleanUp(p)  PROVE TypeOK'
    BY <2>3 DEF CleanUp, Goto, redis, refreshVars, TypeOK
  <2>4. ASSUME NEW p \in Requesters, Remove(p)  PROVE TypeOK'
    BY <2>4 DEF Remove, Goto, DeleteJob, redis, refreshVars, TypeOK
  <2>5. ASSUME NEW p \in Requesters, LookAtLive(p)  PROVE TypeOK'
    BY <2>5 DEF LookAtLive, Goto, Forget, ReadAlready, redis, refreshVars, TypeOK
  <2>6. ASSUME NEW p \in Requesters, LookAtQueue(p)  PROVE TypeOK'
    BY <2>6 DEF LookAtQueue, Goto, Forget, redis, refreshVars, TypeOK
  <2>7. ASSUME NEW p \in Requesters, LookAtRegistry(p)  PROVE TypeOK'
    BY <2>7 DEF LookAtRegistry, Goto, Forget, ReadAlready, redis, refreshVars, TypeOK
  <2>8. ASSUME NEW p \in Requesters, LookAtHash(p)  PROVE TypeOK'
    BY <2>8 DEF LookAtHash, Goto, Forget, redis, refreshVars, TypeOK
  <2>9. ASSUME NEW p \in Requesters, DeleteZombie(p)  PROVE TypeOK'
    BY <2>9 DEF DeleteZombie, Goto, DeleteJob, redis, refreshVars, TypeOK
  <2>10. ASSUME NEW p \in Requesters, Enqueue(p)  PROVE TypeOK'
    BY <2>10 DEF Enqueue, Goto, redis, refreshVars, TypeOK
  <2>11. ASSUME NEW p \in Requesters, RedisFails(p)  PROVE TypeOK'
    <3>1. CASE p \in Web /\ "thread" \in Refreshers
      <4>1. Begin("thread", "idle", "refresh")
        BY <2>11, <3>1 DEF RedisFails
      <4> HIDE DEF Begin
      <4> QED
        BY <2>11, <3>1, <4>1, BeginType DEF RedisFails, Goto, Fault, redis, TypeOK
    <3>2. CASE ~(p \in Web /\ "thread" \in Refreshers)
      BY <2>11, <3>2 DEF RedisFails, Goto, Forget, Fault, redis, refreshVars, TypeOK
    <3> QED
      BY <3>1, <3>2
  <2>12. ASSUME NEW r \in Refreshers, ReadFeeds(r)  PROVE TypeOK'
    <3>1. "feeds" \in Tables
      BY DEF Tables
    <3>2. seen' \in [Refreshers -> [Tables -> Nat]]
      BY <2>12, <3>1, ReadOne DEF ReadFeeds
    <3> QED
      BY <2>12, <3>2 DEF ReadFeeds, redis, TypeOK
  <2>13. ASSUME NEW r \in Refreshers, ReadChannels(r)  PROVE TypeOK'
    <3>1. "channels" \in Tables
      BY DEF Tables
    <3>2. seen' \in [Refreshers -> [Tables -> Nat]]
      BY <2>13, <3>1, ReadOne DEF ReadChannels
    <3> QED
      BY <2>13, <3>2 DEF ReadChannels, redis, TypeOK
  <2>14. ASSUME NEW r \in Refreshers, Write(r)  PROVE TypeOK'
    BY <2>14 DEF Write, redis, refreshVars, TypeOK
  <2>15. ASSUME NEW r \in Refreshers, Finish(r)  PROVE TypeOK'
    <3>1. End(r, "idle")
      BY <2>15 DEF Finish
    <3> QED
      BY <2>15, <3>1, EndType DEF Finish, TypeOK
  <2>16. ASSUME NEW r \in Refreshers, EditJob(r)  PROVE TypeOK'
    <3>1. Begin(r, "idle", "edit")
      BY <2>16 DEF EditJob
    <3>2. "channels" \in Tables
      BY DEF Tables
    <3>3. data' \in [Tables -> Nat \ {0}]
      BY <2>16, <3>2 DEF EditJob, TypeOK
    <3>4. /\ UNCHANGED <<m3u, queue, stuck, hash, registry, debounce, pc, faults>>
          /\ forgotten' \subseteq Tables
      BY <2>16 DEF EditJob, redis, TypeOK
    <3> QED
      BY <3>1, <3>3, <3>4, BeginType DEF TypeOK
  <2>17. ASSUME NEW r \in Refreshers, WriteFails(r)  PROVE TypeOK'
    <3>1. CASE m3u = NoFile /\ pass[r] = 1
      <4>1. /\ stage' = [stage EXCEPT ![r] = "begin"]
            /\ pass' = [pass EXCEPT ![r] = 2]
            /\ seen' = [seen EXCEPT ![r] = NoFile]
            /\ forgotten' = forgotten
        BY <2>17, <3>1 DEF WriteFails
      <4>2. seen' \in [Refreshers -> [Tables -> Nat]]
        BY <4>1, NoFileType DEF TypeOK
      <4> QED
        BY <2>17, <4>1, <4>2 DEF WriteFails, Fault, redis, TypeOK
    <3>2. CASE ~(m3u = NoFile /\ pass[r] = 1)
      BY <2>17, <3>2 DEF WriteFails, Fault, Forget, redis, TypeOK
    <3> QED
      BY <3>1, <3>2
  <2>18. ASSUME NEW r \in Refreshers, Crash(r)  PROVE TypeOK'
    <3>1. End(r, IF r = "fast" THEN "down" ELSE "idle")
      BY <2>18 DEF Crash
    <3>2. (IF r = "fast" THEN "down" ELSE "idle") \in {"idle", "down"}
      OBVIOUS
    <3> QED
      BY <2>18, <3>1, <3>2, EndType DEF Crash, Fault, Forget, TypeOK
  <2>19. CASE DebounceExpires
    BY <2>19 DEF DebounceExpires, redis, refreshVars, TypeOK
  <2>20. CASE Dequeue
    BY <2>20 DEF Dequeue, redis, refreshVars, TypeOK
  <2>21. CASE Start
    <3>1. Begin("fast", "popped", "refresh")
      BY <2>21 DEF Start
    <3> QED
      BY <2>21, <3>1, BeginType DEF Start, TypeOK
  <2>22. CASE Skip
    BY <2>22 DEF Skip, redis, refreshVars, TypeOK
  <2>23. CASE Restart
    BY <2>23 DEF Restart, redis, refreshVars, TypeOK
  <2>24. CASE Grow
    BY <2>24 DEF Grow, redis, refreshVars, TypeOK
  <2>25. CASE Sweep
    BY <2>25 DEF Sweep, redis, refreshVars, TypeOK
  <2>26. CASE UNCHANGED vars
    BY <2>26 DEF vars, redis, refreshVars, TypeOK
  <2> QED
    BY <2>1, <2>2, <2>3, <2>4, <2>5, <2>6, <2>7, <2>8, <2>9, <2>10, <2>11,
       <2>12, <2>13, <2>14, <2>15, <2>16, <2>17, <2>18, <2>19, <2>20, <2>21,
       <2>22, <2>23, <2>24, <2>25, <2>26
       DEF Next, Asking, Rewriting
<1> QED
  BY <1>1, <1>2, PTL DEF Spec

-----------------------------------------------------------------------------
\* NoFlood: a requester becomes pending only while the queue is empty, and adds an
\* entry only by being pending no longer.

\* Requesters are finitely many.
LEMMA RequestersFinite ==
  /\ IsFiniteSet(Requesters)
  /\ Cardinality(Requesters) \in Nat
  /\ \A S \in SUBSET Requesters :
        IsFiniteSet(S) /\ Cardinality(S) \in Nat /\ Cardinality(S) <= Cardinality(Requesters)
<1>1. IsFiniteSet(Requesters)
  BY RequesterAssumption, FS_Union DEF Requesters
<1> QED
  BY <1>1, FS_Subset, FS_CardinalityType

\* Fewer pending requesters and no longer a queue keep the bound.
LEMMA NoMore ==
  ASSUME TypeOK, NoFlood, queue' \in Nat, queue' <= queue, Pending' \subseteq Pending
  PROVE  NoFlood'
<1>1. Pending \subseteq Requesters
  BY DEF Pending
<1>2. /\ IsFiniteSet(Pending)
      /\ Cardinality(Pending) \in Nat
      /\ Cardinality(Requesters) \in Nat
  BY <1>1, RequestersFinite
<1>3. Cardinality(Pending') \in Nat /\ Cardinality(Pending') <= Cardinality(Pending)
  BY <1>2, FS_Subset, FS_CardinalityType
<1>4. queue \in Nat
  BY DEF TypeOK
<1> QED
  BY <1>2, <1>3, <1>4 DEF NoFlood

\* No step breaks the bound.
LEMMA FloodStep ==
  ASSUME TypeOK, NoFlood, [Next]_vars
  PROVE  NoFlood'
<1>1. ASSUME NEW p \in Requesters, NEW tables \in SUBSET Tables, Edit(p, tables)
      PROVE  NoFlood'
  <2>1. queue' = queue /\ Pending' \subseteq Pending
    BY <1>1 DEF Pending, TypeOK, Edit, Goto, redis, refreshVars
  <2> QED
    BY <2>1, NoMore DEF TypeOK
<1>2. ASSUME NEW p \in Requesters, Debounce(p)  PROVE NoFlood'
  <2>1. queue' = queue /\ Pending' \subseteq Pending
    BY <1>2 DEF Pending, TypeOK, Debounce, Goto, Forget, redis, refreshVars
  <2> QED
    BY <2>1, NoMore DEF TypeOK
<1>3. ASSUME NEW p \in Requesters, CleanUp(p)  PROVE NoFlood'
  <2>1. queue' = queue /\ Pending' \subseteq Pending
    BY <1>3 DEF Pending, TypeOK, CleanUp, Goto, redis, refreshVars
  <2> QED
    BY <2>1, NoMore DEF TypeOK
<1>4. ASSUME NEW p \in Requesters, Remove(p)  PROVE NoFlood'
  <2>1. /\ queue' \in Nat /\ queue' <= queue
        /\ Pending' \subseteq Pending
    BY <1>4 DEF Pending, TypeOK, Remove, Goto, DeleteJob
  <2> QED
    BY <2>1, NoMore
<1>5. ASSUME NEW p \in Requesters, LookAtLive(p)  PROVE NoFlood'
  <2>1. queue' = queue /\ Pending' \subseteq Pending
    BY <1>5 DEF Pending, TypeOK, LookAtLive, Goto, Forget, ReadAlready, redis, refreshVars
  <2> QED
    BY <2>1, NoMore DEF TypeOK
<1>6. ASSUME NEW p \in Requesters, LookAtQueue(p)  PROVE NoFlood'
  <2>1. CASE queue > 0
    <3>1. queue' = queue /\ Pending' \subseteq Pending
      BY <1>6, <2>1 DEF Pending, TypeOK, LookAtQueue, Goto, redis
    <3> QED
      BY <3>1, NoMore DEF TypeOK
  <2>2. CASE ~(queue > 0)
    <3>1. queue' = 0
      BY <1>6, <2>2 DEF TypeOK, LookAtQueue, redis
    <3>2. Pending' \subseteq Requesters
      BY DEF Pending
    <3> QED
      BY <3>1, <3>2, RequestersFinite DEF NoFlood
  <2> QED
    BY <2>1, <2>2
<1>7. ASSUME NEW p \in Requesters, LookAtRegistry(p)  PROVE NoFlood'
  <2>1. queue' = queue /\ Pending' \subseteq Pending
    BY <1>7 DEF Pending, TypeOK, LookAtRegistry, Goto, Forget, ReadAlready, redis, refreshVars
  <2> QED
    BY <2>1, NoMore DEF TypeOK
<1>8. ASSUME NEW p \in Requesters, LookAtHash(p)  PROVE NoFlood'
  <2>1. queue' = queue /\ Pending' \subseteq Pending
    BY <1>8 DEF Pending, TypeOK, LookAtHash, Goto, Forget, redis, refreshVars
  <2> QED
    BY <2>1, NoMore DEF TypeOK
<1>9. ASSUME NEW p \in Requesters, DeleteZombie(p)  PROVE NoFlood'
  <2>1. /\ queue' \in Nat /\ queue' <= queue
        /\ Pending' \subseteq Pending
    BY <1>9 DEF Pending, TypeOK, DeleteZombie, Goto, DeleteJob
  <2> QED
    BY <2>1, NoMore
<1>10. ASSUME NEW p \in Requesters, Enqueue(p)  PROVE NoFlood'
  <2>1. p \in Pending /\ Pending' = Pending \ {p} /\ queue' = queue + 1
    BY <1>10 DEF Pending, TypeOK, Enqueue, Goto
  <2>2. IsFiniteSet(Pending)
    BY RequestersFinite DEF Pending
  <2>3. Cardinality(Pending') = Cardinality(Pending) - 1
    BY <2>1, <2>2, FS_RemoveElement
  <2>4. Cardinality(Pending) \in Nat /\ Cardinality(Requesters) \in Nat /\ queue \in Nat
    BY <2>2, RequestersFinite, FS_CardinalityType DEF TypeOK
  <2> QED
    BY <2>1, <2>3, <2>4 DEF NoFlood
<1>11. ASSUME NEW p \in Requesters, RedisFails(p)  PROVE NoFlood'
  <2>1. queue' = queue /\ Pending' \subseteq Pending
    BY <1>11 DEF Pending, TypeOK, RedisFails, Goto, Forget, Fault, Begin, redis, refreshVars
  <2> QED
    BY <2>1, NoMore DEF TypeOK
<1>12. ASSUME NEW r \in Refreshers, ReadFeeds(r)  PROVE NoFlood'
  <2>1. queue' = queue /\ Pending' = Pending
    BY <1>12 DEF Pending, TypeOK, ReadFeeds, redis, refreshVars
  <2> QED
    BY <2>1, NoMore DEF TypeOK
<1>13. ASSUME NEW r \in Refreshers, ReadChannels(r)  PROVE NoFlood'
  <2>1. queue' = queue /\ Pending' = Pending
    BY <1>13 DEF Pending, TypeOK, ReadChannels, redis, refreshVars
  <2> QED
    BY <2>1, NoMore DEF TypeOK
<1>14. ASSUME NEW r \in Refreshers, Write(r)  PROVE NoFlood'
  <2>1. queue' = queue /\ Pending' = Pending
    BY <1>14 DEF Pending, TypeOK, Write, redis, refreshVars
  <2> QED
    BY <2>1, NoMore DEF TypeOK
<1>15. ASSUME NEW r \in Refreshers, Finish(r)  PROVE NoFlood'
  <2>1. queue' = queue /\ Pending' = Pending
    BY <1>15 DEF Pending, TypeOK, Finish, End, redis, refreshVars
  <2> QED
    BY <2>1, NoMore DEF TypeOK
<1>16. ASSUME NEW r \in Refreshers, EditJob(r)  PROVE NoFlood'
  <2>1. queue' = queue /\ Pending' = Pending
    BY <1>16 DEF Pending, TypeOK, EditJob, Begin, redis, refreshVars
  <2> QED
    BY <2>1, NoMore DEF TypeOK
<1>17. ASSUME NEW r \in Refreshers, WriteFails(r)  PROVE NoFlood'
  <2>1. queue' = queue /\ Pending' = Pending
    BY <1>17 DEF Pending, TypeOK, WriteFails, Fault, Forget, redis, refreshVars
  <2> QED
    BY <2>1, NoMore DEF TypeOK
<1>18. ASSUME NEW r \in Refreshers, Crash(r)  PROVE NoFlood'
  <2>1. queue' = queue /\ Pending' = Pending
    BY <1>18 DEF Pending, TypeOK, Crash, Fault, Forget, End, redis, refreshVars
  <2> QED
    BY <2>1, NoMore DEF TypeOK
<1>19. CASE DebounceExpires
  <2>1. queue' = queue /\ Pending' = Pending
    BY <1>19 DEF Pending, TypeOK, DebounceExpires, redis, refreshVars
  <2> QED
    BY <2>1, NoMore DEF TypeOK
<1>20. CASE Dequeue
  <2>1. queue' \in Nat /\ queue' <= queue /\ Pending' = Pending
    BY <1>20 DEF Pending, TypeOK, Dequeue
  <2> QED
    BY <2>1, NoMore
<1>21. CASE Start
  <2>1. queue' = queue /\ Pending' = Pending
    BY <1>21 DEF Pending, TypeOK, Start, Begin, redis, refreshVars
  <2> QED
    BY <2>1, NoMore DEF TypeOK
<1>22. CASE Skip
  <2>1. queue' = queue /\ Pending' = Pending
    BY <1>22 DEF Pending, TypeOK, Skip, redis, refreshVars
  <2> QED
    BY <2>1, NoMore DEF TypeOK
<1>23. CASE Restart
  <2>1. queue' = queue /\ Pending' = Pending
    BY <1>23 DEF Pending, TypeOK, Restart, redis, refreshVars
  <2> QED
    BY <2>1, NoMore DEF TypeOK
<1>24. CASE Grow
  <2>1. queue' = queue /\ Pending' = Pending
    BY <1>24 DEF Pending, TypeOK, Grow, redis, refreshVars
  <2> QED
    BY <2>1, NoMore DEF TypeOK
<1>25. CASE Sweep
  <2>1. queue' = queue /\ Pending' = Pending
    BY <1>25 DEF Pending, TypeOK, Sweep, redis, refreshVars
  <2> QED
    BY <2>1, NoMore DEF TypeOK
<1>26. CASE UNCHANGED vars
  <2>1. queue' = queue /\ Pending' = Pending
    BY <1>26 DEF Pending, vars, redis
  <2> QED
    BY <2>1, NoMore DEF TypeOK
<1> QED
  BY <1>1, <1>2, <1>3, <1>4, <1>5, <1>6, <1>7, <1>8, <1>9, <1>10, <1>11,
     <1>12, <1>13, <1>14, <1>15, <1>16, <1>17, <1>18, <1>19, <1>20, <1>21,
     <1>22, <1>23, <1>24, <1>25, <1>26
     DEF Next, Asking, Rewriting

\* The queue never holds more entries than there are requesters.
THEOREM QueueStaysShort == Spec => []NoFlood
<1>1. Init => NoFlood
  <2> SUFFICES ASSUME Init PROVE NoFlood
    OBVIOUS
  <2>1. Pending = {}
    BY DEF Init, Pending
  <2>2. Cardinality({}) = 0
    BY FS_EmptySet
  <2> QED
    BY <2>1, <2>2, RequestersFinite DEF Init, NoFlood
<1>2. TypeOK /\ NoFlood /\ [Next]_vars => NoFlood'
  BY FloodStep
<1> QED
  BY <1>1, <1>2, Typing, PTL DEF Spec

-----------------------------------------------------------------------------
\* VersionInv: versions are committed before anybody reads them.

\* Requests touch neither the data nor the files nor a refresher.
LEMMA AskingLeaves ==
  ASSUME NEW p \in Requesters, Asking(p)
  PROVE  UNCHANGED <<data, m3u, stage, task, pass, seen, alone>>
  BY DEF Asking, Debounce, CleanUp, Remove, LookAtLive, LookAtQueue, LookAtRegistry,
         LookAtHash, DeleteZombie, Enqueue, refreshVars

\* Newer data, and refreshers that forget what they have read, keep VersionInv.
LEMMA VersionsGrow ==
  ASSUME TypeOK, TypeOK', VersionInv, m3u' = m3u,
         \A t \in Tables : data[t] <= data'[t],
         \A r \in Refreshers : seen'[r] = seen[r] \/ seen'[r] = NoFile
  PROVE  VersionInv'
<1> SUFFICES ASSUME NEW t \in Tables
             PROVE  /\ m3u'[t] <= data'[t]
                    /\ \A r \in Refreshers : seen'[r][t] <= data'[t]
  BY DEF VersionInv
<1>1. data[t] \in Nat /\ data'[t] \in Nat /\ m3u[t] \in Nat /\ NoFile[t] = 0
  BY DEF TypeOK, NoFile
<1>2. m3u[t] <= data[t] /\ data[t] <= data'[t]
  BY DEF VersionInv
<1>3. ASSUME NEW r \in Refreshers  PROVE seen'[r][t] <= data'[t]
  <2>1. seen[r][t] \in Nat /\ seen[r][t] <= data[t]
    BY DEF TypeOK, VersionInv
  <2>2. seen'[r][t] = seen[r][t] \/ seen'[r][t] = 0
    BY <1>1
  <2> QED
    BY <1>1, <1>2, <2>1, <2>2
<1> QED
  BY <1>1, <1>2, <1>3

\* No step breaks VersionInv.
LEMMA VersionStep ==
  ASSUME TypeOK, TypeOK', VersionInv, [Next]_vars
  PROVE  VersionInv'
<1> "fast" \in Refreshers /\ "feeds" \in Tables /\ "channels" \in Tables
  BY RefresherAssumption DEF Tables
<1>0. ASSUME data' = data  PROVE \A t \in Tables : data[t] <= data'[t]
  BY <1>0 DEF TypeOK
<1>1. ASSUME NEW p \in Requesters, NEW tables \in SUBSET Tables, Edit(p, tables)
      PROVE  VersionInv'
  <2>1. \A t \in Tables : data[t] <= data'[t]
    BY <1>1 DEF Edit, TypeOK
  <2> QED
    BY <1>1, <2>1, VersionsGrow DEF Edit, refreshVars
<1>2. ASSUME NEW p \in Requesters, Asking(p)  PROVE VersionInv'
  BY <1>0, <1>2, AskingLeaves, VersionsGrow
<1>3. ASSUME NEW p \in Requesters, RedisFails(p)  PROVE VersionInv'
  <2>1. \A r \in Refreshers : seen'[r] = seen[r] \/ seen'[r] = NoFile
    BY <1>3 DEF RedisFails, Begin, refreshVars, TypeOK
  <2> QED
    BY <1>0, <1>3, <2>1, VersionsGrow DEF RedisFails
<1>4. ASSUME NEW r \in Refreshers, NEW t \in Tables, data' = data, m3u' = m3u,
             seen' = [seen EXCEPT ![r][t] = data[t]]
      PROVE  VersionInv'
  <2>1. \A u \in Tables, x \in Refreshers : seen'[x][u] \in {seen[x][u], data[u]}
    BY <1>4, ReadOne
  <2>2. \A u \in Tables : data[u] <= data[u]
    BY DEF TypeOK
  <2> QED
    BY <1>4, <2>1, <2>2 DEF VersionInv
<1>5. ASSUME NEW r \in Refreshers, ReadFeeds(r)  PROVE VersionInv'
  BY <1>4, <1>5 DEF ReadFeeds
<1>6. ASSUME NEW r \in Refreshers, ReadChannels(r)  PROVE VersionInv'
  BY <1>4, <1>6 DEF ReadChannels
<1>7. ASSUME NEW r \in Refreshers, Write(r)  PROVE VersionInv'
  BY <1>7 DEF Write, VersionInv
<1>8. ASSUME NEW r \in Refreshers, Finish(r)  PROVE VersionInv'
  BY <1>0, <1>8, VersionsGrow DEF Finish, End, TypeOK
<1>9. ASSUME NEW r \in Refreshers, EditJob(r)  PROVE VersionInv'
  <2>1. \A t \in Tables : data[t] <= data'[t]
    BY <1>9 DEF EditJob, TypeOK
  <2>2. \A x \in Refreshers : seen'[x] = seen[x] \/ seen'[x] = NoFile
    BY <1>9 DEF EditJob, Begin, TypeOK
  <2> QED
    BY <1>9, <2>1, <2>2, VersionsGrow DEF EditJob
<1>10. ASSUME NEW r \in Refreshers, WriteFails(r)  PROVE VersionInv'
  <2>1. \A x \in Refreshers : seen'[x] = seen[x] \/ seen'[x] = NoFile
    BY <1>10 DEF WriteFails, TypeOK
  <2> QED
    BY <1>0, <1>10, <2>1, VersionsGrow DEF WriteFails
<1>11. ASSUME NEW r \in Refreshers, Crash(r)  PROVE VersionInv'
  <2>1. \A x \in Refreshers : seen'[x] = seen[x] \/ seen'[x] = NoFile
    BY <1>11 DEF Crash, End, TypeOK
  <2> QED
    BY <1>0, <1>11, <2>1, VersionsGrow DEF Crash
<1>12. CASE Start
  <2>1. \A x \in Refreshers : seen'[x] = seen[x] \/ seen'[x] = NoFile
    BY <1>12 DEF Start, Begin, TypeOK
  <2> QED
    BY <1>0, <1>12, <2>1, VersionsGrow DEF Start
<1>13. CASE DebounceExpires \/ Dequeue \/ Skip \/ Restart \/ Grow \/ Sweep \/ UNCHANGED vars
  <2>1. UNCHANGED <<data, m3u, seen>>
    BY <1>13 DEF DebounceExpires, Dequeue, Skip, Restart, Grow, Sweep, vars, refreshVars
  <2> QED
    BY <1>0, <2>1, VersionsGrow
<1> QED
  BY <1>1, <1>2, <1>3, <1>5, <1>6, <1>7, <1>8, <1>9, <1>10, <1>11, <1>12, <1>13
     DEF Next, Rewriting

-----------------------------------------------------------------------------
\* AloneInv: who is alone is overtaken by nobody.

\* Beginning takes being alone from everybody else.
LEMMA BeginAlone ==
  ASSUME TypeOK, NEW r \in Refreshers, NEW from, NEW why, Begin(r, from, why)
  PROVE  AloneInv'
<1>1. alone' = [x \in Refreshers |-> IF x = r /\ Refreshing = {} THEN 1 ELSE 0]
  BY DEF Begin
<1>2. stage' = [stage EXCEPT ![r] = "begin"]
  BY DEF Begin
<1> SUFFICES ASSUME NEW x \in Refreshers, alone'[x] = 1
             PROVE  Refreshing' = {x} /\ stage'[x] = "begin"
  BY DEF AloneInv
<1>3. x = r /\ Refreshing = {}
  BY <1>1
<1> QED
  BY <1>2, <1>3 DEF Refreshing, TypeOK

\* Ending takes it from nobody else.
LEMMA EndAlone ==
  ASSUME TypeOK, AloneInv, m3u' = m3u,
         NEW r \in Refreshers, NEW label \in {"idle", "down"}, End(r, label)
  PROVE  AloneInv'
<1>1. /\ alone'[r] = 0
      /\ \A x \in Refreshers \ {r} :
            alone'[x] = alone[x] /\ stage'[x] = stage[x] /\ seen'[x] = seen[x]
  BY DEF End, TypeOK
<1>2. Refreshing' = Refreshing \ {r}
  BY DEF End, Refreshing, TypeOK
<1> SUFFICES ASSUME NEW x \in Refreshers, alone'[x] = 1
             PROVE  /\ Refreshing' = {x}
                    /\ stage'[x] \in {"xml", "read"} => m3u'["feeds"] <= seen'[x]["feeds"]
                    /\ stage'[x] = "read" => m3u'["channels"] <= seen'[x]["channels"]
  BY DEF AloneInv
<1>3. x # r /\ alone[x] = 1
  BY <1>1
<1> QED
  BY <1>1, <1>2, <1>3 DEF AloneInv

\* A step of one refresher within its refresh leaves the others alone, or not.
LEMMA RowAlone ==
  ASSUME TypeOK, AloneInv, NEW r \in Refreshing, alone' = alone, Refreshing' = Refreshing,
         alone[r] = 1 =>
           /\ stage'[r] \in {"xml", "read"} => m3u'["feeds"] <= seen'[r]["feeds"]
           /\ stage'[r] = "read" => m3u'["channels"] <= seen'[r]["channels"]
  PROVE  AloneInv'
<1>1. ASSUME NEW x \in Refreshers, alone[x] = 1  PROVE x = r
  BY <1>1 DEF AloneInv
<1> QED
  BY <1>1 DEF AloneInv

\* A step of one refresher within its refresh.
LEMMA StillRefreshing ==
  ASSUME TypeOK, NEW r \in Refreshing, NEW label \in {"begin", "xml", "read", "written"},
         stage' = [stage EXCEPT ![r] = label]
  PROVE  Refreshing' = Refreshing /\ stage'[r] = label
  BY DEF TypeOK, Refreshing

\* No step breaks AloneInv.
LEMMA AloneStep ==
  ASSUME TypeOK, TypeOK', VersionInv, AloneInv, [Next]_vars
  PROVE  AloneInv'
<1> "fast" \in Refreshers /\ "feeds" \in Tables /\ "channels" \in Tables
  BY RefresherAssumption DEF Tables
<1>0. ASSUME UNCHANGED <<m3u, stage, seen, alone>>  PROVE AloneInv'
  BY <1>0 DEF AloneInv, Refreshing
<1>1. ASSUME NEW p \in Requesters, NEW tables \in SUBSET Tables, Edit(p, tables)
      PROVE  AloneInv'
  BY <1>0, <1>1 DEF Edit, refreshVars
<1>2. ASSUME NEW p \in Requesters, Asking(p)  PROVE AloneInv'
  BY <1>0, <1>2, AskingLeaves
<1>3. ASSUME NEW p \in Requesters, RedisFails(p)  PROVE AloneInv'
  <2>1. CASE p \in Web /\ "thread" \in Refreshers
    BY <1>3, <2>1, BeginAlone DEF RedisFails
  <2>2. CASE ~(p \in Web /\ "thread" \in Refreshers)
    BY <1>0, <1>3, <2>2 DEF RedisFails, refreshVars
  <2> QED
    BY <2>1, <2>2
<1>4. ASSUME NEW r \in Refreshers, ReadFeeds(r)  PROVE AloneInv'
  <2>1. r \in Refreshing /\ Refreshing' = Refreshing /\ stage'[r] = "xml"
    BY <1>4, StillRefreshing DEF ReadFeeds, Refreshing
  <2>2. seen'[r]["feeds"] = data["feeds"]
    BY <1>4, ReadOne DEF ReadFeeds
  <2>3. m3u["feeds"] <= data["feeds"]
    BY DEF VersionInv
  <2> QED
    BY <1>4, <2>1, <2>2, <2>3, RowAlone DEF ReadFeeds
<1>5. ASSUME NEW r \in Refreshers, ReadChannels(r)  PROVE AloneInv'
  <2>1. r \in Refreshing /\ Refreshing' = Refreshing
    BY <1>5, StillRefreshing DEF ReadChannels, Refreshing
  <2>2. seen'[r]["channels"] = data["channels"] /\ seen'[r]["feeds"] = seen[r]["feeds"]
    BY <1>5, ReadOne DEF ReadChannels
  <2>3. m3u["channels"] <= data["channels"]
    BY DEF VersionInv
  <2>4. alone[r] = 1 => m3u["feeds"] <= seen[r]["feeds"]
    BY <1>5 DEF ReadChannels, AloneInv
  <2> QED
    BY <1>5, <2>1, <2>2, <2>3, <2>4, RowAlone DEF ReadChannels
<1>6. ASSUME NEW r \in Refreshers, Write(r)  PROVE AloneInv'
  <2>1. r \in Refreshing /\ Refreshing' = Refreshing /\ stage'[r] = "written"
    BY <1>6, StillRefreshing DEF Write, Refreshing
  <2> QED
    BY <1>6, <2>1, RowAlone DEF Write
<1>7. ASSUME NEW r \in Refreshers, Finish(r)  PROVE AloneInv'
  BY <1>7, EndAlone DEF Finish
<1>8. ASSUME NEW r \in Refreshers, EditJob(r)  PROVE AloneInv'
  BY <1>8, BeginAlone DEF EditJob
<1>9. ASSUME NEW r \in Refreshers, WriteFails(r)  PROVE AloneInv'
  <2>1. \E label \in {"begin", "written"} : stage' = [stage EXCEPT ![r] = label]
    BY <1>9 DEF WriteFails
  <2>2. r \in Refreshing
    BY <1>9 DEF WriteFails, Refreshing
  <2>3. Refreshing' = Refreshing /\ stage'[r] \in {"begin", "written"}
    BY <2>1, <2>2, StillRefreshing
  <2> QED
    BY <1>9, <2>2, <2>3, RowAlone DEF WriteFails
<1>10. ASSUME NEW r \in Refreshers, Crash(r)  PROVE AloneInv'
  <2>1. (IF r = "fast" THEN "down" ELSE "idle") \in {"idle", "down"}
    OBVIOUS
  <2> QED
    BY <1>10, <2>1, EndAlone DEF Crash
<1>11. CASE Start
  BY <1>11, BeginAlone DEF Start
<1>12. CASE Dequeue \/ Skip \/ Restart
  <2>1. /\ UNCHANGED <<m3u, seen, alone>>
        /\ \A x \in Refreshers : x # "fast" => stage'[x] = stage[x]
        /\ stage'["fast"] \in {"idle", "popped"}
        /\ stage["fast"] \in {"idle", "popped", "down"}
    BY <1>12 DEF Dequeue, Skip, Restart, TypeOK
  <2>2. Refreshing' = Refreshing
    BY <2>1 DEF Refreshing
  <2> QED
    BY <2>1, <2>2 DEF AloneInv, Refreshing
<1>13. CASE DebounceExpires \/ Grow \/ Sweep \/ UNCHANGED vars
  BY <1>0, <1>13 DEF DebounceExpires, Grow, Sweep, vars, refreshVars
<1> QED
  BY <1>1, <1>2, <1>3, <1>4, <1>5, <1>6, <1>7, <1>8, <1>9, <1>10, <1>11, <1>12, <1>13
     DEF Next, Rewriting

-----------------------------------------------------------------------------
\* EditsArrive: what keeps an edit in sight until the file shows it.

\* The job is queued, or about to start.
Queued == hash # "none" /\ (queue > 0 \/ stage["fast"] = "popped")

\* Somebody has still to look at Redis.
SomebodyAsks == \E p \in Requesters : pc[p] # "idle"

\* Refresher r is going to write the current version of table t.
Brings(r, t) ==
  \/ stage[r] = "begin"
  \/ stage[r] = "xml" /\ t = "channels"
  \/ stage[r] \in {"xml", "read"} /\ seen[r][t] = data[t]

Covered(t) ==
  \/ m3u[t] = data[t]
  \/ t \in forgotten
  \/ SomebodyAsks
  \/ Queued
  \/ \E r \in Refreshers : Brings(r, t)

\* The four ways are those of Coming.
LEMMA CoveredIs ==
  /\ EditsArrive <=> \A t \in Tables : Covered(t)
  /\ EditsArrive' <=> \A t \in Tables : Covered(t)'
<1>1. ASSUME NEW r \in Refreshers, NEW t \in Tables
      PROVE  t \in Unread(r) <=> (stage[r] = "begin" \/ (stage[r] = "xml" /\ t = "channels"))
  BY DEF Unread, Tables
<1>2. ASSUME NEW r \in Refreshers, NEW t \in Tables
      PROVE  t \in Unread(r)' <=> (stage'[r] = "begin" \/ (stage'[r] = "xml" /\ t = "channels"))
  BY DEF Unread, Tables
<1> HIDE DEF Unread
<1>3. ASSUME NEW t \in Tables
      PROVE  Covered(t) <=> (m3u[t] = data[t] \/ t \in forgotten \/ Coming(t))
  BY <1>1 DEF Covered, Coming, SomebodyAsks, Queued, Brings
<1>4. ASSUME NEW t \in Tables
      PROVE  Covered(t)' <=> (m3u'[t] = data'[t] \/ t \in forgotten' \/ Coming(t)')
  BY <1>2 DEF Covered, Coming, SomebodyAsks, Queued, Brings
<1> QED
  BY <1>3, <1>4 DEF EditsArrive

\* While a requester goes on asking every edit is covered.
LEMMA AskingCovers ==
  ASSUME TypeOK, NEW p \in Requesters, NEW label, label # "idle", Goto(p, label),
         NEW t \in Tables
  PROVE  Covered(t)'
<1>1. pc'[p] # "idle"
  BY DEF Goto, TypeOK
<1> QED
  BY <1>1 DEF Covered, SomebodyAsks

\* A refresher that begins covers every edit.
LEMMA BeginCovers ==
  ASSUME TypeOK, NEW r \in Refreshers, NEW from, NEW why, Begin(r, from, why),
         NEW t \in Tables
  PROVE  Covered(t)'
<1>1. stage'[r] = "begin"
  BY DEF Begin, TypeOK
<1> QED
  BY <1>1 DEF Covered, Brings

\* What the running job has not read, it brings.
LEMMA RunningCovers ==
  ASSUME TypeOK, NEW t \in Tables, Forget(ReadAlready), UNCHANGED <<stage, task>>
  PROVE  Covered(t)'
<1> "fast" \in Refreshers
  BY RefresherAssumption
<1>1. t \in forgotten' \/ t \in Unread("fast")
  BY DEF Forget, ReadAlready
<1>2. t \in Unread("fast") => stage["fast"] = "begin" \/ (stage["fast"] = "xml" /\ t = "channels")
  BY DEF Unread, Tables
<1> QED
  BY <1>1, <1>2 DEF Covered, Brings

\* A request keeps every table covered.
LEMMA AskingArrives ==
  ASSUME TypeOK, NEW t \in Tables, Covered(t), NEW p \in Requesters, Asking(p)
  PROVE  Covered(t)'
<1>0. UNCHANGED <<data, m3u, stage, task, pass, seen, alone>>
  BY AskingLeaves
<1>1. CASE Debounce(p)
  <2>1. CASE debounce = 1
    BY <1>1, <2>1 DEF Debounce, Forget, Covered
  <2>2. CASE debounce # 1
    BY <1>1, <2>2, AskingCovers DEF Debounce
  <2> QED
    BY <2>1, <2>2
<1>2. CASE CleanUp(p)
  <2>1. \E label \in {"remove", "queue"} : Goto(p, label)
    BY <1>2 DEF CleanUp, Goto
  <2> QED
    BY <2>1, AskingCovers
<1>3. CASE Remove(p)
  BY <1>3, AskingCovers DEF Remove
<1>4. CASE LookAtLive(p)
  <2>1. CASE registry \in {"fresh", "old"}
    BY <1>0, <1>4, <2>1, RunningCovers DEF LookAtLive
  <2>2. CASE registry \notin {"fresh", "old"}
    BY <1>4, <2>2, AskingCovers DEF LookAtLive
  <2> QED
    BY <2>1, <2>2
<1>5. CASE LookAtQueue(p)
  <2>1. CASE queue > 0 /\ hash = "none"
    BY <1>5, <2>1 DEF LookAtQueue, Forget, Covered
  <2>2. CASE queue > 0 /\ hash # "none"
    BY <1>5, <2>2 DEF LookAtQueue, redis, Covered, Queued
  <2>3. CASE ~(queue > 0)
    <3>1. \E label \in {"registry", "hash"} : Goto(p, label)
      BY <1>5, <2>3 DEF LookAtQueue, Goto
    <3> QED
      BY <3>1, AskingCovers
  <2> QED
    BY <2>1, <2>2, <2>3
<1>6. CASE LookAtRegistry(p)
  <2>1. CASE registry \in {"fresh", "old"}
    BY <1>0, <1>6, <2>1, RunningCovers DEF LookAtRegistry
  <2>2. CASE registry \notin {"fresh", "old"}
    BY <1>6, <2>2, AskingCovers DEF LookAtRegistry
  <2> QED
    BY <2>1, <2>2
<1>7. CASE LookAtHash(p)
  <2>1. CASE hash = "queued"
    <3>1. CASE queue = 0 /\ stage["fast"] # "popped"
      BY <1>7, <2>1, <3>1 DEF LookAtHash, Forget, Covered
    <3>2. CASE queue # 0 \/ stage["fast"] = "popped"
      <4>1. queue > 0 \/ stage["fast"] = "popped"
        BY <3>2 DEF TypeOK
      <4>2. queue' = queue /\ hash' = hash /\ stage' = stage
        BY <1>0, <1>7 DEF LookAtHash, redis
      <4>3. Queued'
        BY <2>1, <4>1, <4>2 DEF Queued
      <4> QED
        BY <4>3 DEF Covered
    <3> QED
      BY <3>1, <3>2
  <2>2. CASE hash # "queued"
    <3>1. \E label \in {"zombie", "enqueue"} : Goto(p, label)
      BY <1>7, <2>2 DEF LookAtHash, Goto
    <3> QED
      BY <3>1, AskingCovers
  <2> QED
    BY <2>1, <2>2
<1>8. CASE DeleteZombie(p)
  BY <1>8, AskingCovers DEF DeleteZombie
<1>9. CASE Enqueue(p)
  BY <1>9 DEF Enqueue, Covered, Queued, TypeOK
<1> QED
  BY <1>1, <1>2, <1>3, <1>4, <1>5, <1>6, <1>7, <1>8, <1>9 DEF Asking

\* A refresher's own steps keep every table covered: in particular, a file that is
\* written from older data was not covered by its writer, and is forgotten if it
\* went back.
LEMMA RewritingArrives ==
  ASSUME TypeOK, TypeOK', VersionInv, NEW t \in Tables, Covered(t),
         NEW r \in Refreshers, Rewriting(r)
  PROVE  Covered(t)'
<1> "feeds" \in Tables /\ "channels" \in Tables /\ "fast" \in Refreshers
  BY RefresherAssumption DEF Tables
<1>0. ASSUME NEW label \in {"idle", "xml", "read", "written"}, stage[r] # "popped",
             stage' = [stage EXCEPT ![r] = label], UNCHANGED <<data, m3u, pc, queue>>,
             hash' # "none" \/ hash' = hash, forgotten' = forgotten,
             \A x \in Refreshers \ {r} : seen'[x] = seen[x],
             Brings(r, t) => Brings(r, t)'
      PROVE  Covered(t)'
  <2>1. ASSUME NEW x \in Refreshers \ {r}, Brings(x, t)  PROVE Brings(x, t)'
    BY <1>0, <2>1 DEF Brings, TypeOK
  <2>2. Queued => Queued'
    BY <1>0 DEF Queued, TypeOK
  <2> QED
    BY <1>0, <2>1, <2>2 DEF Covered, SomebodyAsks
<1>1. CASE ReadFeeds(r)
  <2>1. stage'[r] = "xml"
    BY <1>1 DEF ReadFeeds, TypeOK
  <2>2. /\ seen'[r]["feeds"] = data["feeds"]
        /\ \A x \in Refreshers : x # r => seen'[x] = seen[x]
    BY <1>1, ReadOne DEF ReadFeeds
  <2>3. Brings(r, t)'
    BY <1>1, <2>1, <2>2 DEF Brings, Tables, ReadFeeds
  <2> QED
    BY <2>3 DEF Covered
<1>2. CASE ReadChannels(r)
  <2>1. stage'[r] = "read"
    BY <1>2 DEF ReadChannels, TypeOK
  <2>2. /\ seen'[r]["channels"] = data["channels"]
        /\ seen'[r]["feeds"] = seen[r]["feeds"]
        /\ \A x \in Refreshers : x # r => seen'[x] = seen[x]
    BY <1>2, ReadOne DEF ReadChannels
  <2>3. Brings(r, t) => Brings(r, t)'
    BY <1>2, <2>1, <2>2 DEF Brings, Tables, ReadChannels
  <2> QED
    BY <1>0, <1>2, <2>2, <2>3 DEF ReadChannels, redis
<1>3. CASE Write(r)
  <2>1. CASE seen[r][t] = data[t]
    BY <1>3, <2>1 DEF Write, Covered
  <2>2. CASE seen[r][t] # data[t]
    <3>1. /\ seen[r][t] \in Nat /\ data[t] \in Nat /\ m3u[t] \in Nat
          /\ seen[r][t] <= data[t]
      BY DEF TypeOK, VersionInv
    <3>2. CASE m3u[t] = data[t] \/ t \in forgotten
      <4>1. t \in forgotten \/ seen[r][t] < m3u[t]
        BY <2>2, <3>1, <3>2
      <4>2. t \in forgotten'
        BY <1>3, <2>2, <4>1 DEF Write
      <4> QED
        BY <4>2 DEF Covered
    <3>3. CASE SomebodyAsks \/ Queued
      <4>1. Queued => Queued'
        BY <1>3 DEF Write, redis, Queued, TypeOK
      <4> QED
        BY <1>3, <3>3, <4>1 DEF Write, Covered, SomebodyAsks
    <3>4. ASSUME NEW x \in Refreshers, Brings(x, t)  PROVE Covered(t)'
      <4>1. x # r
        BY <1>3, <2>2, <3>4 DEF Brings, Write
      <4>2. stage'[x] = stage[x] /\ seen' = seen /\ data' = data
        BY <1>3, <4>1 DEF Write, TypeOK
      <4> QED
        BY <3>4, <4>2 DEF Brings, Covered
    <3> QED
      BY <3>2, <3>3, <3>4 DEF Covered
  <2> QED
    BY <2>1, <2>2
<1>4. CASE Finish(r)
  <2>1. ~Brings(r, t) /\ stage[r] # "popped"
    BY <1>4 DEF Brings, Finish
  <2>2. \A x \in Refreshers \ {r} : seen'[x] = seen[x]
    BY <1>4 DEF Finish, End, TypeOK
  <2>3. hash' # "none" \/ hash' = hash
    BY <1>4 DEF Finish
  <2>4. stage' = [stage EXCEPT ![r] = "idle"]
    BY <1>4 DEF Finish, End
  <2> QED
    BY <1>0, <1>4, <2>1, <2>2, <2>3, <2>4 DEF Finish
<1> QED
  BY <1>1, <1>2, <1>3, <1>4 DEF Rewriting

\* No step breaks EditsArrive.
LEMMA ArriveStep ==
  ASSUME TypeOK, TypeOK', VersionInv, EditsArrive, [Next]_vars
  PROVE  EditsArrive'
<1> SUFFICES ASSUME NEW t \in Tables, Covered(t)
             PROVE  Covered(t)'
  BY CoveredIs
<1> "fast" \in Refreshers
  BY RefresherAssumption
<1>1. ASSUME NEW p \in Requesters, NEW tables \in SUBSET Tables, Edit(p, tables)
      PROVE  Covered(t)'
  <2>1. \E label \in {"debounce", "live"} : Goto(p, label)
    BY <1>1 DEF Edit, Goto
  <2> QED
    BY <2>1, AskingCovers
<1>2. ASSUME NEW p \in Requesters, Asking(p)  PROVE Covered(t)'
  BY <1>2, AskingArrives
<1>3. ASSUME NEW p \in Requesters, RedisFails(p)  PROVE Covered(t)'
  <2>1. CASE p \in Web /\ "thread" \in Refreshers
    BY <1>3, <2>1, BeginCovers DEF RedisFails
  <2>2. CASE ~(p \in Web /\ "thread" \in Refreshers)
    BY <1>3, <2>2 DEF RedisFails, Forget, Covered
  <2> QED
    BY <2>1, <2>2
<1>4. ASSUME NEW r \in Refreshers, Rewriting(r)  PROVE Covered(t)'
  BY <1>4, RewritingArrives
<1>5. ASSUME NEW r \in Refreshers, EditJob(r)  PROVE Covered(t)'
  BY <1>5, BeginCovers DEF EditJob
<1>6. ASSUME NEW r \in Refreshers, WriteFails(r)  PROVE Covered(t)'
  <2>1. CASE m3u = NoFile /\ pass[r] = 1
    <3>1. stage'[r] = "begin"
      BY <1>6, <2>1 DEF WriteFails, TypeOK
    <3> QED
      BY <3>1 DEF Covered, Brings
  <2>2. CASE ~(m3u = NoFile /\ pass[r] = 1)
    BY <1>6, <2>2 DEF WriteFails, Forget, Covered
  <2> QED
    BY <2>1, <2>2
<1>7. ASSUME NEW r \in Refreshers, Crash(r)  PROVE Covered(t)'
  BY <1>7 DEF Crash, Forget, Covered
<1>8. CASE Start
  BY <1>8, BeginCovers DEF Start
<1>9. CASE Dequeue \/ Skip \/ Restart \/ Grow \/ Sweep \/ DebounceExpires \/ UNCHANGED vars
  <2>1. UNCHANGED <<data, m3u, pc, seen, forgotten>>
    BY <1>9 DEF Dequeue, Skip, Restart, Grow, Sweep, DebounceExpires, vars, refreshVars
  <2>2. \A x \in Refreshers : stage[x] \in {"begin", "xml", "read"} => stage'[x] = stage[x]
    BY <1>9 DEF Dequeue, Skip, Restart, Grow, Sweep, DebounceExpires, vars, refreshVars,
                TypeOK
  <2>3. Queued => Queued'
    <3>1. CASE Dequeue
      BY <3>1 DEF Dequeue, Queued, TypeOK
    <3>2. CASE Skip
      BY <3>2 DEF Skip, Queued
    <3>3. CASE Restart
      BY <3>3 DEF Restart, Queued, redis, TypeOK
    <3>4. CASE Grow \/ Sweep \/ DebounceExpires \/ UNCHANGED vars
      BY <3>4 DEF Grow, Sweep, DebounceExpires, vars, redis, refreshVars, Queued
    <3> QED
      BY <1>9, <3>1, <3>2, <3>3, <3>4
  <2>4. ASSUME NEW x \in Refreshers, Brings(x, t)  PROVE Brings(x, t)'
    BY <2>1, <2>2, <2>4 DEF Brings
  <2> QED
    BY <2>1, <2>3, <2>4 DEF Covered, SomebodyAsks
<1> QED
  BY <1>1, <1>2, <1>3, <1>4, <1>5, <1>6, <1>7, <1>8, <1>9 DEF Next

-----------------------------------------------------------------------------
\* The inductive invariant: versions, who is alone, and what is coming.
THEOREM Invariance == Spec => []IInv
<1>1. Init => IInv
  <2> SUFFICES ASSUME Init  PROVE IInv
    OBVIOUS
  <2>1. VersionInv
    BY DEF Init, VersionInv, NoFile
  <2>2. AloneInv
    BY DEF Init, AloneInv
  <2>3. EditsArrive
    BY DEF Init, EditsArrive
  <2> QED
    BY <2>1, <2>2, <2>3 DEF IInv
<1>2. TypeOK /\ TypeOK' /\ IInv /\ [Next]_vars => IInv'
  BY VersionStep, AloneStep, ArriveStep DEF IInv
<1> QED
  BY <1>1, <1>2, Typing, PTL DEF Spec

\* What every reachable state of the requests and the workers satisfies.
THEOREM Invariant == Spec => []Inv
BY Typing, QueueStaysShort, Invariance, PTL DEF Inv

\* Every edit reaches the M3U file, or is going to, or its request was lost to one
\* of the recorded causes, however many requesters look at Redis at the same time.
THEOREM EditsReachTheFile == Spec => []EditsArrive
<1>1. IInv => EditsArrive
  BY DEF IInv
<1> QED
  BY <1>1, Invariance, PTL

\* A refresh that no other one overlaps never puts older data in the file.
THEOREM NothingOlderAlone == Spec => NeverOlderAlone
<1>1. TypeOK /\ IInv /\ [Next]_vars =>
        [\A r \in Refreshers : stage[r] = "read" /\ stage'[r] = "written" /\ alone[r] = 1
            => \A t \in Tables : m3u'[t] >= m3u[t]]_vars
  <2> SUFFICES ASSUME TypeOK, IInv, Next, NEW r \in Refreshers,
                      stage[r] = "read", stage'[r] = "written", alone[r] = 1,
                      NEW t \in Tables
               PROVE  m3u'[t] >= m3u[t]
    BY DEF NeverOlderAlone
  <2>1. m3u[t] \in Nat /\ seen[r][t] \in Nat
    BY DEF TypeOK
  <2>2. CASE m3u' = m3u
    BY <2>1, <2>2
  <2>3. CASE m3u' # m3u
    <3>1. PICK x \in Refreshers : Write(x)
      BY <2>3, AskingLeaves DEF Next, Rewriting, Edit, RedisFails, ReadFeeds, ReadChannels,
         Finish, EditJob, WriteFails, Crash, DebounceExpires, Dequeue, Start, Skip, Restart,
         Grow, Sweep
    <3>2. x = r
      BY <3>1 DEF Write, TypeOK
    <3>3. m3u[t] <= seen[r][t]
      BY DEF IInv, AloneInv, Tables
    <3> QED
      BY <2>1, <3>1, <3>2, <3>3 DEF Write
  <2> QED
    BY <2>2, <2>3
<1> QED
  BY <1>1, Typing, Invariance, PTL DEF Spec, NeverOlderAlone

=============================================================================
