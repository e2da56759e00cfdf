--------------------------- MODULE XmlCacheProofs ---------------------------
(***************************************************************************)
(* What XmlCache guarantees for any set of processes, any number of parts  *)
(* and any bounds: its types, that readers only see whole documents, that  *)
(* a young lock excludes, and that a rebuild under a young lock never goes *)
(* back in time.                                                           *)
(***************************************************************************)
EXTENDS XmlCache, TLAPS

-----------------------------------------------------------------------------
\* Every variable keeps its type.
THEOREM Typing == Spec => []TypeOK
<1>1. Init => TypeOK
  BY BoundsAssumption DEF Init, TypeOK, NoFile
<1>2. TypeOK /\ [Next]_vars => TypeOK'
  <2> SUFFICES ASSUME TypeOK, [Next]_vars
               PROVE  TypeOK'
    OBVIOUS
  <2> USE BoundsAssumption, ChunksAssumption DEF TypeOK
  <2>1. ASSUME NEW p \in Builders, Call(p)  PROVE TypeOK'
    BY <2>1 DEF Call, Goto, fileVars, history
  <2>2. ASSUME NEW p \in Builders, CheckLock(p)  PROVE TypeOK'
    BY <2>2 DEF CheckLock, Goto, fileVars, history
  <2>3. ASSUME NEW p \in Builders, UnlinkStaleLock(p)  PROVE TypeOK'
    BY <2>3 DEF UnlinkStaleLock, Goto, fileVars, history
  <2>4. ASSUME NEW p \in Builders, SweepTmp(p)  PROVE TypeOK'
    BY <2>4 DEF SweepTmp, Goto, fileVars, history
  <2>5. ASSUME NEW p \in Builders, TakeLock(p)  PROVE TypeOK'
    BY <2>5 DEF TakeLock, Goto, fileVars, history
  <2>22. ASSUME NEW p \in Builders, FindLock(p)  PROVE TypeOK'
    BY <2>22 DEF FindLock, Goto, fileVars, history
  <2>6. ASSUME NEW p \in Builders, GiveUp(p)  PROVE TypeOK'
    BY <2>6 DEF GiveUp, Goto, fileVars, history
  <2>7. ASSUME NEW p \in Builders, EndWait(p)  PROVE TypeOK'
    BY <2>7 DEF EndWait, Goto, fileVars, history
  <2>8. ASSUME NEW p \in Builders, MakeTmp(p)  PROVE TypeOK'
    BY <2>8 DEF MakeTmp, Goto, fileVars, history
  <2>9. ASSUME NEW p \in Builders, WriteChunk(p)  PROVE TypeOK'
    BY <2>9 DEF WriteChunk, Goto, fileVars, history
  <2>10. ASSUME NEW p \in Builders, CloseTmp(p)  PROVE TypeOK'
    BY <2>10 DEF CloseTmp, Goto, fileVars, history
  <2>11. ASSUME NEW p \in Builders, WriterFails(p)  PROVE TypeOK'
    BY <2>11 DEF WriterFails, DropTmp, Goto, fileVars, history
  <2>12. ASSUME NEW p \in Builders, Replace(p)  PROVE TypeOK'
    BY <2>12 DEF Replace, DropTmp, Goto, fileVars, history
  <2>13. ASSUME NEW p \in Builders, Release(p)  PROVE TypeOK'
    BY <2>13 DEF Release, Goto, fileVars, history
  <2>14. ASSUME NEW p \in Builders, Crash(p)  PROVE TypeOK'
    BY <2>14 DEF Crash, DropTmp, Goto, fileVars, history
  <2>15. CASE Commit
    BY <2>15 DEF Commit, fileVars, buildVars, history
  <2>16. CASE Invalidate
    BY <2>16 DEF Invalidate, fileVars, buildVars, history
  <2>17. CASE DeleteArtifact
    BY <2>17 DEF DeleteArtifact, NoFile, fileVars, buildVars, history
  <2>18. CASE Tick
    BY <2>18 DEF Tick, fileVars, buildVars, history
  <2>19. CASE OrphanAges
    BY <2>19 DEF OrphanAges, fileVars, buildVars, history
  <2>20. CASE SlowBuild
    BY <2>20 DEF SlowBuild, fileVars, buildVars, history
  <2>21. CASE UNCHANGED vars
    BY <2>21 DEF vars, fileVars, buildVars, history
  <2> QED
    BY <2>1, <2>2, <2>3, <2>4, <2>5, <2>6, <2>7, <2>8, <2>9, <2>10, <2>11,
       <2>12, <2>13, <2>14, <2>15, <2>16, <2>17, <2>18, <2>19, <2>20, <2>21, <2>22
       DEF Next, Step
<1> QED
  BY <1>1, <1>2, PTL DEF Spec


-----------------------------------------------------------------------------
\* Documents are complete before they are published.
LEMMA DocumentStep ==
  ASSUME TypeOK, DocumentInv, [Next]_vars
  PROVE  DocumentInv'
  <1> USE BoundsAssumption, ChunksAssumption DEF TypeOK
  <1>1. ASSUME NEW p \in Builders, Call(p)  PROVE DocumentInv'
    BY <1>1 DEF Call, Goto, fileVars, history, DocumentInv, Exists, NoFile
  <1>2. ASSUME NEW p \in Builders, CheckLock(p)  PROVE DocumentInv'
    BY <1>2 DEF CheckLock, Goto, fileVars, history, DocumentInv, Exists, NoFile
  <1>3. ASSUME NEW p \in Builders, UnlinkStaleLock(p)  PROVE DocumentInv'
    BY <1>3 DEF UnlinkStaleLock, Goto, history, DocumentInv, Exists, NoFile
  <1>4. ASSUME NEW p \in Builders, SweepTmp(p)  PROVE DocumentInv'
    BY <1>4 DEF SweepTmp, Goto, history, DocumentInv, Exists, NoFile
  <1>5. ASSUME NEW p \in Builders, TakeLock(p)  PROVE DocumentInv'
    BY <1>5 DEF TakeLock, Goto, history, DocumentInv, Exists, NoFile
  <1>6. ASSUME NEW p \in Builders, FindLock(p)  PROVE DocumentInv'
    BY <1>6 DEF FindLock, Goto, fileVars, history, DocumentInv, Exists, NoFile
  <1>7. ASSUME NEW p \in Builders, GiveUp(p)  PROVE DocumentInv'
    BY <1>7 DEF GiveUp, Goto, fileVars, history, DocumentInv, Exists, NoFile
  <1>8. ASSUME NEW p \in Builders, EndWait(p)  PROVE DocumentInv'
    BY <1>8 DEF EndWait, Goto, fileVars, history, DocumentInv, Exists, NoFile
  <1>9. ASSUME NEW p \in Builders, MakeTmp(p)  PROVE DocumentInv'
    BY <1>9 DEF MakeTmp, Goto, history, DocumentInv, Exists, NoFile
  <1>10. ASSUME NEW p \in Builders, WriteChunk(p)  PROVE DocumentInv'
    BY <1>10 DEF WriteChunk, Goto, fileVars, history, DocumentInv, Exists, NoFile
  <1>11. ASSUME NEW p \in Builders, CloseTmp(p)  PROVE DocumentInv'
    BY <1>11 DEF CloseTmp, Goto, fileVars, history, DocumentInv, Exists, NoFile
  <1>12. ASSUME NEW p \in Builders, WriterFails(p)  PROVE DocumentInv'
    BY <1>12 DEF WriterFails, DropTmp, Goto, history, DocumentInv, Exists, NoFile
  <1>13. ASSUME NEW p \in Builders, Replace(p)  PROVE DocumentInv'
    BY <1>13 DEF Replace, DropTmp, Goto, history, DocumentInv, Exists, NoFile
  <1>14. ASSUME NEW p \in Builders, Release(p)  PROVE DocumentInv'
    BY <1>14 DEF Release, Goto, history, DocumentInv, Exists, NoFile
  <1>15. ASSUME NEW p \in Builders, Crash(p)  PROVE DocumentInv'
    BY <1>15 DEF Crash, DropTmp, Goto, history, DocumentInv, Exists, NoFile
  <1>16. CASE Commit
    BY <1>16 DEF Commit, fileVars, buildVars, history, DocumentInv, Exists, NoFile
  <1>17. CASE Invalidate
    BY <1>17 DEF Invalidate, fileVars, buildVars, DocumentInv, Exists, NoFile
  <1>18. CASE DeleteArtifact
    BY <1>18 DEF DeleteArtifact, NoFile, buildVars, DocumentInv, Exists, NoFile
  <1>19. CASE Tick
    BY <1>19 DEF Tick, fileVars, buildVars, history, DocumentInv, Exists, NoFile
  <1>20. CASE OrphanAges
    BY <1>20 DEF OrphanAges, buildVars, DocumentInv, Exists, NoFile
  <1>21. CASE SlowBuild
    BY <1>21 DEF SlowBuild, buildVars, DocumentInv, Exists, NoFile
  <1>22. CASE UNCHANGED vars
    BY <1>22 DEF vars, fileVars, buildVars, history, DocumentInv, Exists, NoFile
  <1> QED
    BY <1>1, <1>2, <1>3, <1>4, <1>5, <1>6, <1>7, <1>8, <1>9, <1>10, <1>11,
       <1>12, <1>13, <1>14, <1>15, <1>16, <1>17, <1>18, <1>19, <1>20, <1>21, <1>22
       DEF Next, Step

-----------------------------------------------------------------------------
\* Parts are committed data, in the order they were read.
LEMMA PartsStep ==
  ASSUME TypeOK, PartsInv, [Next]_vars
  PROVE  PartsInv'
  <1> USE BoundsAssumption, ChunksAssumption DEF TypeOK
  <1>1. ASSUME NEW p \in Builders, Call(p)  PROVE PartsInv'
    BY <1>1 DEF Call, Goto, fileVars, history, PartsInv, Committed, Ordered, Parts
  <1>2. ASSUME NEW p \in Builders, CheckLock(p)  PROVE PartsInv'
    BY <1>2 DEF CheckLock, Goto, fileVars, history, PartsInv, Committed, Ordered, Parts
  <1>3. ASSUME NEW p \in Builders, UnlinkStaleLock(p)  PROVE PartsInv'
    BY <1>3 DEF UnlinkStaleLock, Goto, history, PartsInv, Committed, Ordered, Parts
  <1>4. ASSUME NEW p \in Builders, SweepTmp(p)  PROVE PartsInv'
    BY <1>4 DEF SweepTmp, Goto, history, PartsInv, Committed, Ordered, Parts
  <1>5. ASSUME NEW p \in Builders, TakeLock(p)  PROVE PartsInv'
    BY <1>5 DEF TakeLock, Goto, history, PartsInv, Committed, Ordered, Parts
  <1>6. ASSUME NEW p \in Builders, FindLock(p)  PROVE PartsInv'
    BY <1>6 DEF FindLock, Goto, fileVars, history, PartsInv, Committed, Ordered, Parts
  <1>7. ASSUME NEW p \in Builders, GiveUp(p)  PROVE PartsInv'
    BY <1>7 DEF GiveUp, Goto, fileVars, history, PartsInv, Committed, Ordered, Parts
  <1>8. ASSUME NEW p \in Builders, EndWait(p)  PROVE PartsInv'
    BY <1>8 DEF EndWait, Goto, fileVars, history, PartsInv, Committed, Ordered, Parts
  <1>9. ASSUME NEW p \in Builders, MakeTmp(p)  PROVE PartsInv'
    BY <1>9 DEF MakeTmp, Goto, history, PartsInv, Committed, Ordered, Parts
  <1>10. ASSUME NEW p \in Builders, WriteChunk(p)  PROVE PartsInv'
    BY <1>10 DEF WriteChunk, Goto, fileVars, history, PartsInv, Committed, Ordered, Parts
  <1>11. ASSUME NEW p \in Builders, CloseTmp(p)  PROVE PartsInv'
    BY <1>11 DEF CloseTmp, Goto, fileVars, history, PartsInv, Committed, Ordered, Parts
  <1>12. ASSUME NEW p \in Builders, WriterFails(p)  PROVE PartsInv'
    BY <1>12 DEF WriterFails, DropTmp, Goto, history, PartsInv, Committed, Ordered, Parts
  <1>13. ASSUME NEW p \in Builders, Replace(p)  PROVE PartsInv'
    BY <1>13 DEF Replace, DropTmp, Goto, history, PartsInv, Committed, Ordered, Parts
  <1>14. ASSUME NEW p \in Builders, Release(p)  PROVE PartsInv'
    BY <1>14 DEF Release, Goto, history, PartsInv, Committed, Ordered, Parts
  <1>15. ASSUME NEW p \in Builders, Crash(p)  PROVE PartsInv'
    BY <1>15 DEF Crash, DropTmp, Goto, history, PartsInv, Committed, Ordered, Parts
  <1>16. CASE Commit
    BY <1>16 DEF Commit, fileVars, buildVars, history, PartsInv, Committed, Ordered, Parts
  <1>17. CASE Invalidate
    BY <1>17 DEF Invalidate, fileVars, buildVars, PartsInv, Committed, Ordered, Parts
  <1>18. CASE DeleteArtifact
    BY <1>18 DEF DeleteArtifact, NoFile, buildVars, PartsInv, Committed, Ordered, Parts
  <1>19. CASE Tick
    BY <1>19 DEF Tick, fileVars, buildVars, history, PartsInv, Committed, Ordered, Parts
  <1>20. CASE OrphanAges
    BY <1>20 DEF OrphanAges, buildVars, PartsInv, Committed, Ordered, Parts
  <1>21. CASE SlowBuild
    BY <1>21 DEF SlowBuild, buildVars, PartsInv, Committed, Ordered, Parts
  <1>22. CASE UNCHANGED vars
    BY <1>22 DEF vars, fileVars, buildVars, history, PartsInv, Committed, Ordered, Parts
  <1> QED
    BY <1>1, <1>2, <1>3, <1>4, <1>5, <1>6, <1>7, <1>8, <1>9, <1>10, <1>11,
       <1>12, <1>13, <1>14, <1>15, <1>16, <1>17, <1>18, <1>19, <1>20, <1>21, <1>22
       DEF Next, Step

-----------------------------------------------------------------------------
\* A lock that is neither old nor deleted covers the one process that builds.
LEMMA LockStep ==
  ASSUME TypeOK, LockInv, [Next]_vars
  PROVE  LockInv'
  <1> USE BoundsAssumption, ChunksAssumption DEF TypeOK
  <1>1. ASSUME NEW p \in Builders, Call(p)  PROVE LockInv'
    BY <1>1 DEF Call, Goto, fileVars, history, LockInv, Building
  <1>2. ASSUME NEW p \in Builders, CheckLock(p)  PROVE LockInv'
    BY <1>2 DEF CheckLock, Goto, fileVars, history, LockInv, Building
  <1>3. ASSUME NEW p \in Builders, UnlinkStaleLock(p)  PROVE LockInv'
    BY <1>3 DEF UnlinkStaleLock, Goto, history, LockInv, Building
  <1>4. ASSUME NEW p \in Builders, SweepTmp(p)  PROVE LockInv'
    BY <1>4 DEF SweepTmp, Goto, history, LockInv, Building
  <1>5. ASSUME NEW p \in Builders, TakeLock(p)  PROVE LockInv'
    BY <1>5 DEF TakeLock, Goto, history, LockInv, Building
  <1>6. ASSUME NEW p \in Builders, FindLock(p)  PROVE LockInv'
    BY <1>6 DEF FindLock, Goto, fileVars, history, LockInv, Building
  <1>7. ASSUME NEW p \in Builders, GiveUp(p)  PROVE LockInv'
    BY <1>7 DEF GiveUp, Goto, fileVars, history, LockInv, Building
  <1>8. ASSUME NEW p \in Builders, EndWait(p)  PROVE LockInv'
    BY <1>8 DEF EndWait, Goto, fileVars, history, LockInv, Building
  <1>9. ASSUME NEW p \in Builders, MakeTmp(p)  PROVE LockInv'
    BY <1>9 DEF MakeTmp, Goto, history, LockInv, Building
  <1>10. ASSUME NEW p \in Builders, WriteChunk(p)  PROVE LockInv'
    BY <1>10 DEF WriteChunk, Goto, fileVars, history, LockInv, Building
  <1>11. ASSUME NEW p \in Builders, CloseTmp(p)  PROVE LockInv'
    BY <1>11 DEF CloseTmp, Goto, fileVars, history, LockInv, Building
  <1>12. ASSUME NEW p \in Builders, WriterFails(p)  PROVE LockInv'
    BY <1>12 DEF WriterFails, DropTmp, Goto, history, LockInv, Building
  <1>13. ASSUME NEW p \in Builders, Replace(p)  PROVE LockInv'
    BY <1>13 DEF Replace, DropTmp, Goto, history, LockInv, Building
  <1>14. ASSUME NEW p \in Builders, Release(p)  PROVE LockInv'
    BY <1>14 DEF Release, Goto, history, LockInv, Building
  <1>15. ASSUME NEW p \in Builders, Crash(p)  PROVE LockInv'
    BY <1>15 DEF Crash, DropTmp, Goto, history, LockInv, Building
  <1>16. CASE Commit
    BY <1>16 DEF Commit, fileVars, buildVars, history, LockInv, Building
  <1>17. CASE Invalidate
    BY <1>17 DEF Invalidate, fileVars, buildVars, LockInv, Building
  <1>18. CASE DeleteArtifact
    BY <1>18 DEF DeleteArtifact, NoFile, buildVars, LockInv, Building
  <1>19. CASE Tick
    BY <1>19 DEF Tick, fileVars, buildVars, history, LockInv, Building
  <1>20. CASE OrphanAges
    BY <1>20 DEF OrphanAges, buildVars, LockInv, Building
  <1>21. CASE SlowBuild
    BY <1>21 DEF SlowBuild, buildVars, LockInv, Building
  <1>22. CASE UNCHANGED vars
    BY <1>22 DEF vars, fileVars, buildVars, history, LockInv, Building
  <1> QED
    BY <1>1, <1>2, <1>3, <1>4, <1>5, <1>6, <1>7, <1>8, <1>9, <1>10, <1>11,
       <1>12, <1>13, <1>14, <1>15, <1>16, <1>17, <1>18, <1>19, <1>20, <1>21, <1>22
       DEF Next, Step

-----------------------------------------------------------------------------
\* Under such a lock a build is no older than what it replaces: it reads what is
\* committed by then, and nobody else publishes meanwhile.
LEMMA NewerStep ==
  ASSUME TypeOK, DocumentInv, PartsInv, LockInv, NewerInv, [Next]_vars
  PROVE  NewerInv'
  <1> USE BoundsAssumption, ChunksAssumption DEF TypeOK
  <1>1. ASSUME NEW p \in Builders, Call(p)  PROVE NewerInv'
    BY <1>1 DEF Call, Goto, fileVars, history, NewerInv, Parts
  <1>2. ASSUME NEW p \in Builders, CheckLock(p)  PROVE NewerInv'
    BY <1>2 DEF CheckLock, Goto, fileVars, history, NewerInv, Parts
  <1>3. ASSUME NEW p \in Builders, UnlinkStaleLock(p)  PROVE NewerInv'
    BY <1>3 DEF UnlinkStaleLock, Goto, history, NewerInv, Parts
  <1>4. ASSUME NEW p \in Builders, SweepTmp(p)  PROVE NewerInv'
    BY <1>4 DEF SweepTmp, Goto, history, NewerInv, Parts
  <1>5. ASSUME NEW p \in Builders, TakeLock(p)  PROVE NewerInv'
    BY <1>5 DEF TakeLock, Goto, history, NewerInv, Parts
  <1>6. ASSUME NEW p \in Builders, FindLock(p)  PROVE NewerInv'
    BY <1>6 DEF FindLock, Goto, fileVars, history, NewerInv, Parts
  <1>7. ASSUME NEW p \in Builders, GiveUp(p)  PROVE NewerInv'
    BY <1>7 DEF GiveUp, Goto, fileVars, history, NewerInv, Parts
  <1>8. ASSUME NEW p \in Builders, EndWait(p)  PROVE NewerInv'
    BY <1>8 DEF EndWait, Goto, fileVars, history, NewerInv, Parts
  <1>9. ASSUME NEW p \in Builders, MakeTmp(p)  PROVE NewerInv'
    BY <1>9 DEF MakeTmp, Goto, history, NewerInv, Parts
  <1>10. ASSUME NEW p \in Builders, WriteChunk(p)  PROVE NewerInv'
    <2>1. /\ doc'[p] = Append(doc[p], db)
          /\ \A q \in Builders \ {p} : doc'[q] = doc[q]
          /\ file' = file /\ voided' = voided
      BY <1>10 DEF WriteChunk, fileVars, history
    <2>2. \A i \in Parts(doc'[p]) : doc'[p][i] = IF i <= Len(doc[p]) THEN doc[p][i] ELSE db
      BY <2>1 DEF Parts
    <2>3. \A i \in Parts(file.doc) : db >= file.doc[i]
      BY DEF PartsInv, Committed, Parts
    <2>4. ASSUME NEW i \in Parts(doc'[p]), i \in Parts(file.doc), voided = {}
          PROVE  doc'[p][i] >= file.doc[i]
      <3>1. CASE i <= Len(doc[p])
        BY <3>1, <2>2, <2>4 DEF NewerInv, Parts
      <3>2. CASE i > Len(doc[p])
        BY <3>2, <2>2, <2>3, <2>4 DEF Parts
      <3> QED
        BY <3>1, <3>2, <2>1 DEF Parts
    <2> QED
      BY <2>1, <2>4 DEF NewerInv
  <1>11. ASSUME NEW p \in Builders, CloseTmp(p)  PROVE NewerInv'
    BY <1>11 DEF CloseTmp, Goto, fileVars, history, NewerInv, Parts
  <1>12. ASSUME NEW p \in Builders, WriterFails(p)  PROVE NewerInv'
    BY <1>12 DEF WriterFails, DropTmp, Goto, history, NewerInv, Parts
  <1>13. ASSUME NEW p \in Builders, Replace(p)  PROVE NewerInv'
    <2>1. voided = {} => \A q \in Builders \ {p} : doc[q] = <<>>
      BY <1>13 DEF Replace, LockInv, Building, DocumentInv
    <2>2. doc'[p] = <<>> /\ \A q \in Builders \ {p} : doc'[q] = doc[q]
      BY <1>13 DEF Replace, DropTmp
    <2>3. voided' = voided
      BY <1>13 DEF Replace, history
    <2>4. voided' = {} => \A q \in Builders : doc'[q] = <<>>
      BY <2>1, <2>2, <2>3
    <2>5. Parts(<<>>) = {}
      BY DEF Parts
    <2> QED
      BY <2>4, <2>5 DEF NewerInv
  <1>14. ASSUME NEW p \in Builders, Release(p)  PROVE NewerInv'
    BY <1>14 DEF Release, Goto, history, NewerInv, Parts
  <1>15. ASSUME NEW p \in Builders, Crash(p)  PROVE NewerInv'
    BY <1>15 DEF Crash, DropTmp, Goto, history, NewerInv, Parts
  <1>16. CASE Commit
    BY <1>16 DEF Commit, fileVars, buildVars, history, NewerInv, Parts
  <1>17. CASE Invalidate
    BY <1>17 DEF Invalidate, fileVars, buildVars, NewerInv, Parts
  <1>18. CASE DeleteArtifact
    BY <1>18 DEF DeleteArtifact, NoFile, buildVars, NewerInv, Parts
  <1>19. CASE Tick
    BY <1>19 DEF Tick, fileVars, buildVars, history, NewerInv, Parts
  <1>20. CASE OrphanAges
    BY <1>20 DEF OrphanAges, buildVars, NewerInv, Parts
  <1>21. CASE SlowBuild
    BY <1>21 DEF SlowBuild, buildVars, NewerInv, Parts
  <1>22. CASE UNCHANGED vars
    BY <1>22 DEF vars, fileVars, buildVars, history, NewerInv, Parts
  <1> QED
    BY <1>1, <1>2, <1>3, <1>4, <1>5, <1>6, <1>7, <1>8, <1>9, <1>10, <1>11,
       <1>12, <1>13, <1>14, <1>15, <1>16, <1>17, <1>18, <1>19, <1>20, <1>21, <1>22
       DEF Next, Step

-----------------------------------------------------------------------------
\* What a build read before a quiet invalidation is stamped no later than it.
LEMMA QuietStep ==
  ASSUME TypeOK, DocumentInv, QuietInv, [Next]_vars
  PROVE  QuietInv'
  <1> USE BoundsAssumption, ChunksAssumption DEF TypeOK
  <1>1. ASSUME NEW p \in Builders, Call(p)  PROVE QuietInv'
    BY <1>1 DEF Call, Goto, fileVars, history, QuietInv, AtLeast, Parts, Exists, NoFile
  <1>2. ASSUME NEW p \in Builders, CheckLock(p)  PROVE QuietInv'
    BY <1>2 DEF CheckLock, Goto, fileVars, history, QuietInv, AtLeast, Parts, Exists, NoFile
  <1>3. ASSUME NEW p \in Builders, UnlinkStaleLock(p)  PROVE QuietInv'
    BY <1>3 DEF UnlinkStaleLock, Goto, history, QuietInv, AtLeast, Parts, Exists, NoFile
  <1>4. ASSUME NEW p \in Builders, SweepTmp(p)  PROVE QuietInv'
    BY <1>4 DEF SweepTmp, Goto, history, QuietInv, AtLeast, Parts, Exists, NoFile
  <1>5. ASSUME NEW p \in Builders, TakeLock(p)  PROVE QuietInv'
    BY <1>5 DEF TakeLock, Goto, history, QuietInv, AtLeast, Parts, Exists, NoFile
  <1>6. ASSUME NEW p \in Builders, FindLock(p)  PROVE QuietInv'
    BY <1>6 DEF FindLock, Goto, fileVars, history, QuietInv, AtLeast, Parts, Exists, NoFile
  <1>7. ASSUME NEW p \in Builders, GiveUp(p)  PROVE QuietInv'
    BY <1>7 DEF GiveUp, Goto, fileVars, history, QuietInv, AtLeast, Parts, Exists, NoFile
  <1>8. ASSUME NEW p \in Builders, EndWait(p)  PROVE QuietInv'
    BY <1>8 DEF EndWait, Goto, fileVars, history, QuietInv, AtLeast, Parts, Exists, NoFile
  <1>9. ASSUME NEW p \in Builders, MakeTmp(p)  PROVE QuietInv'
    BY <1>9 DEF MakeTmp, Goto, history, DocumentInv, QuietInv, AtLeast, Parts, Exists, NoFile
  <1>10. ASSUME NEW p \in Builders, WriteChunk(p)  PROVE QuietInv'
    <2>1. /\ pc[p] = "write"
          /\ doc'[p] = Append(doc[p], db)
          /\ \A q \in Builders \ {p} : doc'[q] = doc[q]
          /\ UNCHANGED <<file, marker, pc, mtime, quiet>>
      BY <1>10 DEF WriteChunk, fileVars, history
    <2>2. AtLeast(doc'[p], quiet)
      BY <2>1 DEF QuietInv, AtLeast, Parts
    <2>3. Exists' /\ marker' < file'.mtime => AtLeast(file'.doc, quiet')
      BY <2>1 DEF QuietInv, Exists, NoFile
    <2>4. ASSUME NEW q \in Builders
          PROVE  /\ pc'[q] = "write" => AtLeast(doc'[q], quiet')
                 /\ pc'[q] = "replace" /\ marker' < mtime'[q] => AtLeast(doc'[q], quiet')
      BY <2>1, <2>2 DEF QuietInv
    <2> QED
      BY <2>3, <2>4 DEF QuietInv
  <1>11. ASSUME NEW p \in Builders, CloseTmp(p)  PROVE QuietInv'
    BY <1>11 DEF CloseTmp, Goto, fileVars, history, QuietInv, AtLeast, Parts, Exists, NoFile
  <1>12. ASSUME NEW p \in Builders, WriterFails(p)  PROVE QuietInv'
    BY <1>12 DEF WriterFails, DropTmp, Goto, history, QuietInv, AtLeast, Parts, Exists, NoFile
  <1>13. ASSUME NEW p \in Builders, Replace(p)  PROVE QuietInv'
    BY <1>13 DEF Replace, DropTmp, Goto, history, QuietInv, AtLeast, Parts, Exists, NoFile
  <1>14. ASSUME NEW p \in Builders, Release(p)  PROVE QuietInv'
    BY <1>14 DEF Release, Goto, history, QuietInv, AtLeast, Parts, Exists, NoFile
  <1>15. ASSUME NEW p \in Builders, Crash(p)  PROVE QuietInv'
    BY <1>15 DEF Crash, DropTmp, Goto, history, QuietInv, AtLeast, Parts, Exists, NoFile
  <1>16. CASE Commit
    BY <1>16 DEF Commit, fileVars, buildVars, history, QuietInv, AtLeast, Parts, Exists, NoFile
  <1>17. CASE Invalidate
    <2>1. UNCHANGED <<file, pc, doc, mtime>> /\ marker' = now
      BY <1>17 DEF Invalidate, fileVars, buildVars
    <2>2. ~Exists' \/ marker' >= file'.mtime
      BY <2>1
    <2>3. ASSUME NEW p \in Builders, pc'[p] = "replace"  PROVE marker' >= mtime'[p]
      BY <2>1
    <2>4. ASSUME NEW p \in Builders, pc'[p] = "write"  PROVE AtLeast(doc'[p], quiet')
      BY <2>1, <2>4, <1>17 DEF Invalidate, Overlapped, QuietInv, AtLeast, Parts
    <2> QED
      BY <2>1, <2>2, <2>3, <2>4 DEF QuietInv
  <1>18. CASE DeleteArtifact
    BY <1>18 DEF DeleteArtifact, NoFile, buildVars, QuietInv, AtLeast, Parts, Exists, NoFile
  <1>19. CASE Tick
    BY <1>19 DEF Tick, fileVars, buildVars, history, QuietInv, AtLeast, Parts, Exists, NoFile
  <1>20. CASE OrphanAges
    BY <1>20 DEF OrphanAges, buildVars, QuietInv, AtLeast, Parts, Exists, NoFile
  <1>21. CASE SlowBuild
    BY <1>21 DEF SlowBuild, buildVars, QuietInv, AtLeast, Parts, Exists, NoFile
  <1>22. CASE UNCHANGED vars
    BY <1>22 DEF vars, fileVars, buildVars, history, QuietInv, AtLeast, Parts, Exists, NoFile
  <1> QED
    BY <1>1, <1>2, <1>3, <1>4, <1>5, <1>6, <1>7, <1>8, <1>9, <1>10, <1>11,
       <1>12, <1>13, <1>14, <1>15, <1>16, <1>17, <1>18, <1>19, <1>20, <1>21, <1>22
       DEF Next, Step

\* Without a marker there is nothing to honour.
LEMMA StampStep ==
  ASSUME TypeOK, StampInv, [Next]_vars
  PROVE  StampInv'
  <1>1. CASE Invalidate
    BY <1>1 DEF Invalidate, StampInv, TypeOK
  <1>2. CASE ~Invalidate
    <2>1. UNCHANGED <<marker, quiet>>
      BY <1>2 DEF Next, Step, Call, CheckLock, UnlinkStaleLock, SweepTmp, TakeLock,
         FindLock, GiveUp, EndWait, MakeTmp, WriteChunk, CloseTmp, WriterFails,
         Replace, Release, Crash, Commit, DeleteArtifact, Tick, OrphanAges,
         SlowBuild, vars, fileVars, buildVars, history
    <2> QED
      BY <2>1 DEF StampInv
  <1> QED
    BY <1>1, <1>2

-----------------------------------------------------------------------------
\* The inductive invariant holds in every reachable state.
THEOREM Inductive == Spec => []IInv
<1>1. Init => IInv
  <2> SUFFICES ASSUME Init  PROVE IInv
    OBVIOUS
  <2>1. file.doc = <<>> /\ ~Exists /\ \A p \in Builders : doc[p] = <<>> /\ pc[p] = "idle"
    BY DEF Init, NoFile, Exists
  <2>2. Building = {} /\ lock = "none" /\ marker = 0 /\ quiet = 0
    BY <2>1 DEF Init, Building
  <2> QED
    BY <2>1, <2>2 DEF IInv, DocumentInv, PartsInv, LockInv, NewerInv, QuietInv,
       StampInv, Committed, Ordered, Parts
<1>2. TypeOK /\ IInv /\ [Next]_vars => IInv'
  BY DocumentStep, PartsStep, LockStep, NewerStep, QuietStep, StampStep DEF IInv
<1> QED
  BY <1>1, <1>2, Typing, PTL DEF Spec

\* What every reachable state of the artifact satisfies, its types included.
THEOREM Invariant == Spec => []Inv
BY Typing, Inductive, PTL DEF Inv

\* Clients never see a partial file.
THEOREM WholeDocuments == Spec => []WholeDocument
<1>1. IInv => WholeDocument
  BY DEF IInv, DocumentInv, WholeDocument
<1> QED
  BY <1>1, Inductive, PTL

\* One process at a time rebuilds the artifact under a young lock.
THEOREM Exclusion == Spec => []MutualExclusion
<1>1. IInv => MutualExclusion
  BY DEF IInv, LockInv, MutualExclusion
<1> QED
  BY <1>1, Inductive, PTL

\* An invalidation no build overlaps is never lost.
THEOREM QuietInvalidations == Spec => []QuietInvalidation
<1>1. ASSUME TypeOK, IInv, Exists, ~Stale  PROVE AtLeast(file.doc, quiet)
  <2>1. CASE marker < file.mtime
    BY <1>1, <2>1 DEF IInv, QuietInv
  <2>2. CASE marker = 0
    BY <1>1, <2>2 DEF IInv, StampInv, AtLeast, Parts, TypeOK
  <2> QED
    BY <1>1, <2>1, <2>2 DEF Stale, TypeOK
<1>2. TypeOK /\ IInv => QuietInvalidation
  BY <1>1 DEF QuietInvalidation
<1> QED
  BY <1>2, Typing, Inductive, PTL

\* Only publishing and deleting change the artifact.
LEMMA FileStep ==
  ASSUME [Next]_vars
  PROVE  \/ file' = file
         \/ DeleteArtifact
         \/ \E p \in Builders : Replace(p)
  BY DEF Next, Step, Call, CheckLock, UnlinkStaleLock, SweepTmp, TakeLock,
     FindLock, GiveUp, EndWait, MakeTmp, WriteChunk, CloseTmp, WriterFails,
     Release, Crash, Commit, Invalidate, Tick, OrphanAges, SlowBuild,
     vars, fileVars, buildVars, history

\* Under a young lock the artifact never goes back in time.
THEOREM NoOlderDocument == Spec => NeverOlder
<1> DEFINE Newer == (voided' = {} /\ Exists /\ Exists')
                      => \A i \in Parts(file.doc) : file'.doc[i] >= file.doc[i]
<1>1. ASSUME TypeOK, IInv, [Next]_vars  PROVE Newer
  <2> SUFFICES ASSUME voided' = {}, Exists, Exists', NEW i \in Parts(file.doc)
               PROVE  file'.doc[i] >= file.doc[i]
    OBVIOUS
  <2> USE <1>1
  <2>1. CASE file' = file
    BY <2>1 DEF TypeOK, Parts
  <2>2. CASE DeleteArtifact
    BY <2>2 DEF DeleteArtifact, Exists
  <2>3. ASSUME NEW p \in Builders, Replace(p), file' # file
        PROVE  file'.doc[i] >= file.doc[i]
    <3>1. voided = {} /\ file'.doc = doc[p] /\ pc[p] = "replace"
      BY <2>3 DEF Replace, history
    <3>2. Len(doc[p]) = Len(file.doc)
      BY <3>1 DEF IInv, DocumentInv
    <3> QED
      BY <3>1, <3>2 DEF IInv, NewerInv, Parts
  <2> QED
    BY <2>1, <2>2, <2>3, FileStep
<1>2. TypeOK /\ IInv /\ [Next]_vars => [Newer]_vars
  BY <1>1
<1> QED
  BY <1>2, Typing, Inductive, PTL DEF Spec, NeverOlder

\* The cache is a register of whole documents of committed data.
THEOREM Refinement == Spec => Implements
<1>1. Init => Published!Init
  BY DEF Init, NoFile, Published!Init, Published!Nothing
<1>2. ASSUME TypeOK, IInv, [Next]_vars
      PROVE  [Published!Next]_<<db, file.doc>>
  <2> USE <1>2
  <2>1. CASE Commit
    BY <2>1 DEF Commit, fileVars, Published!Next, Published!Commit
  <2>2. CASE ~Commit
    <3>1. db' = db
      BY <2>2 DEF Next, Step, Call, CheckLock, UnlinkStaleLock, SweepTmp, TakeLock,
         FindLock, GiveUp, EndWait, MakeTmp, WriteChunk, CloseTmp, WriterFails,
         Replace, Release, Crash, Invalidate, DeleteArtifact, Tick, OrphanAges,
         SlowBuild, vars, fileVars, buildVars, history
    <3>2. CASE file' = file
      BY <3>1, <3>2
    <3>3. CASE DeleteArtifact
      BY <3>1, <3>3 DEF DeleteArtifact, NoFile, Published!Next, Published!Remove,
         Published!Nothing
    <3>4. ASSUME NEW p \in Builders, Replace(p), file' # file
          PROVE  Published!Publish
      <4>1. file'.doc = doc[p] /\ Len(doc[p]) = Chunks /\ doc[p] \in Seq(Nat)
        BY <3>4 DEF Replace, IInv, DocumentInv, TypeOK
      <4>2. Committed(doc[p]) /\ Ordered(doc[p])
        BY DEF IInv, PartsInv
      <4>3. doc[p] \in [1..Chunks -> 0..db]
        BY <4>1, <4>2 DEF Committed, Parts, TypeOK
      <4>4. doc[p] \in Published!Readable
        BY <4>1, <4>2, <4>3 DEF Ordered, Parts, Published!Readable
      <4> QED
        BY <3>1, <4>1, <4>4 DEF Published!Publish
    <3> QED
      BY <3>2, <3>3, <3>4, FileStep DEF Published!Next
  <2> QED
    BY <2>1, <2>2
<1> QED
  BY <1>1, <1>2, Typing, Inductive, PTL DEF Spec, Implements, Published!Spec
=============================================================================
