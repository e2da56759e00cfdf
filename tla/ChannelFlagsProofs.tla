------------------------- MODULE ChannelFlagsProofs -------------------------
(***************************************************************************)
(* Proofs about ChannelFlags for every set of channels and URLs and every  *)
(* threshold.                                                              *)
(***************************************************************************)
EXTENDS ChannelFlags, FiniteSetTheorems, TLAPS

\* The pending UPDATE of a session is well-formed.
LEMMA DiffType ==
    ASSUME NEW old \in Row, NEW new \in Row
    PROVE  Diff(old, new) \in Update
BY DEF Diff, Changed, Row, Update

\* Applied to a row it yields a row.
LEMMA MergeType ==
    ASSUME NEW r \in Row, NEW w \in Update
    PROVE  Merge(r, w) \in Row
BY DEF Merge, Column, Row, Update

\* An UPDATE of nothing changes nothing.
LEMMA MergeNothing ==
    ASSUME NEW r \in Row
    PROVE  Merge(r, NoChange) = r
BY DEF Merge, Column, NoChange, Row

\* A whole row can be sent, as an insert does.
LEMMA RowIsUpdate == Row \subseteq Update
BY DEF Row, Update

\* The values everything starts from are well-formed.
LEMMA EmptyTypes ==
    /\ NoRow \in Row
    /\ NoChange \in Update
    /\ NoWrites \in [Channels -> Update]
    /\ NoAudit \in [todo : SUBSET Channels, fresh : SUBSET Channels,
                    snap : [Channels -> Row], visited : Nat,
                    checkpoint : {"no", "due"}]
BY DEF NoRow, NoChange, NoWrites, NoAudit, Row, Update, Reasons

\* Every edit of a row leaves a row.
LEMMA EditTypes ==
    ASSUME NEW r \in Row
    PROVE  /\ \A url \in Urls : SeenRow(r, url) \in Row
           /\ RemovedRow(r) \in Row
           /\ MissedRow(r) \in Row
           /\ \A on \in 0..1 : Toggled(r, on) \in Row /\ Switched(r, on) \in Row
           /\ Reenabled(r) \in Row
           /\ \A v \in {"Dead", "DRM", "live", "unknown"}, j \in Audits :
                 JudgedRow(r, v, j) \in Row
<1>1. \A url \in Urls : SeenRow(r, url) \in Row
  BY DEF SeenRow, Edit, Flagged, Row, Reasons
<1>2. RemovedRow(r) \in Row /\ MissedRow(r) \in Row
  BY DEF RemovedRow, MissedRow, Edit, Row
<1>3. /\ \A on \in 0..1 : Toggled(r, on) \in Row /\ Switched(r, on) \in Row
      /\ Reenabled(r) \in Row
  BY DEF Toggled, Switched, Reenabled, Edit, Row, Reasons
<1>4. \A v \in {"Dead", "DRM", "live", "unknown"}, j \in Audits :
         JudgedRow(r, v, j) \in Row
  BY DEF JudgedRow, Edit, Row, Reasons
<1>5. QED
  BY <1>1, <1>2, <1>3, <1>4

\* An inserted row is well-formed.
LEMMA NewRowType == \A url \in Urls : NewRow(url) \in Row
BY DEF NewRow, Row, Reasons

-----------------------------------------------------------------------------
\* Every step keeps the types.
LEMMA TypeStep ==
    ASSUME TypeOK, [Next]_vars
    PROVE  TypeOK'
<1>1. ASSUME NEW seen \in SUBSET Channels, NEW url \in [seen -> Urls],
         NEW out \in SUBSET MissingActive(seen), ScrapeLoad(seen, url, out)
      PROVE  TypeOK'
  <2>1. \A c \in present : ScrapedRow(c, seen, url, out) \in Row
    BY EditTypes DEF TypeOK, ScrapedRow
  <2>2. writes' \in [Sessions -> [Channels -> Update]]
    BY <1>1, <2>1, DiffType, NewRowType, RowIsUpdate, EmptyTypes
       DEF TypeOK, ScrapeLoad, Open
  <2>3. QED
    BY <1>1, <2>2 DEF TypeOK, ScrapeLoad, Open, Sessions, Jobs, MissingActive
<1>2. ASSUME ScrapeCommit
      PROVE  TypeOK'
  BY <1>2, MergeType, EmptyTypes
     DEF TypeOK, ScrapeCommit, Close, Sessions, Jobs
<1>3. ASSUME NEW j \in {"audit", "auditAll"}, StartAudit(j, AuditScope(j))
      PROVE  TypeOK'
  BY <1>3, EmptyTypes
     DEF TypeOK, StartAudit, AuditScope, Open, Sessions, Jobs, Audits,
         scrapeVars, history
<1>4. ASSUME NEW scope \in SUBSET present, StartAudit("recheck", scope)
      PROVE  TypeOK'
  BY <1>4, EmptyTypes
     DEF TypeOK, StartAudit, Open, Sessions, Jobs, Audits, scrapeVars, history
<1>5. ASSUME NEW c \in Channels, NEW v \in {"Dead", "DRM", "live", "unknown"},
         AuditChannel(c, v)
      PROVE  TypeOK'
  <2> DEFINE r == IF c \in audit.fresh THEN audit.snap[c] ELSE row[c]
  <2>1. r \in Row
    BY DEF TypeOK
  <2> HIDE DEF r
  <2>2. Diff(r, JudgedRow(r, v, job["scraper"])) \in Update
    BY <1>5, <2>1, EditTypes, DiffType DEF AuditChannel
  <2>3. writes' \in [Sessions -> [Channels -> Update]]
    BY <1>5, <2>2 DEF TypeOK, AuditChannel, r
  <2>4. (audit.visited + 1) % AuditBatch \in Nat
    BY ThresholdAssumption DEF TypeOK
  <2>5. audit' \in [todo : SUBSET Channels, fresh : SUBSET Channels,
                    snap : [Channels -> Row], visited : Nat,
                    checkpoint : {"no", "due"}]
    BY <1>5, <2>4, EmptyTypes DEF TypeOK, AuditChannel
  <2>6. QED
    BY <1>5, <2>3, <2>5 DEF TypeOK, AuditChannel, scrapeVars, history
<1>6. ASSUME AuditCheckpoint
      PROVE  TypeOK'
  BY <1>6, MergeType, EmptyTypes
     DEF TypeOK, AuditCheckpoint, NoAudit, Flush, Sessions,
         scrapeVars, history
<1>7. ASSUME FinishAudit
      PROVE  TypeOK'
  BY <1>7, MergeType, EmptyTypes
     DEF TypeOK, FinishAudit, Flush, Close, Sessions, Jobs,
         scrapeVars, history
<1>8. ASSUME NEW c \in Channels, NEW reason \in {"Dead", "DRM"}, AutoDisable(c, reason)
      PROVE  TypeOK'
  <2>1. Edit(row[c], 0, 0, reason, row[c].missed) \in Row
    BY DEF TypeOK, Edit, Row, Reasons
  <2>2. QED
    BY <1>8, <2>1, DiffType, EmptyTypes
       DEF TypeOK, AutoDisable, Open, Sessions, Jobs, scrapeVars, history
<1>9. ASSUME CommitAutoDisable
      PROVE  TypeOK'
  BY <1>9, MergeType, EmptyTypes
     DEF TypeOK, CommitAutoDisable, Flush, Close, Disturb,
         Touched, Sessions, Jobs, scrapeVars
<1>10. ASSUME RetryAutoDisable
      PROVE  TypeOK'
  BY <1>10, EmptyTypes
     DEF TypeOK, RetryAutoDisable, Close, Sessions, Jobs, scrapeVars, history
<1>11. ASSUME NEW c \in Channels, Reenable(c)
      PROVE  TypeOK'
  BY <1>11, EditTypes, DiffType, EmptyTypes
     DEF TypeOK, Reenable, Patch, Open, Sessions, Jobs, scrapeVars, history
<1>12. ASSUME NEW c \in Channels, NEW on \in 0..1, Toggle(c, on)
      PROVE  TypeOK'
  BY <1>12, EditTypes, DiffType, EmptyTypes
     DEF TypeOK, Toggle, Patch, Open, Sessions, Jobs, scrapeVars, history
<1>13. ASSUME NEW group \in SUBSET Channels, NEW winner \in group,
         ResolveDuplicates(group, winner)
      PROVE  TypeOK'
  <2>1. \A c \in group, on \in 0..1 : Diff(row[c], Switched(row[c], on)) \in Update
    BY EditTypes, DiffType DEF TypeOK
  <2> DEFINE on(c) == IF c \in {d \in {winner} : Healthy(row[d])} THEN 1 ELSE 0
             w == [c \in Channels |->
                      IF c \in group THEN Diff(row[c], Switched(row[c], on(c)))
                      ELSE NoChange]
  <2>2. w \in [Channels -> Update]
    <3>1. ASSUME NEW c \in Channels
          PROVE  w[c] \in Update
      <4>1. on(c) \in 0..1
        OBVIOUS
      <4> HIDE DEF on
      <4>2. QED
        BY <2>1, <4>1, EmptyTypes
    <3>2. QED
      BY <3>1
  <2>3. writes' = [writes EXCEPT !["web"] = w] /\ job' = [job EXCEPT !["web"] = "resolve"]
    BY <1>13 DEF ResolveDuplicates, Open
  <2> HIDE DEF w
  <2>4. QED
    BY <1>13, <2>2, <2>3
       DEF TypeOK, ResolveDuplicates, Open, Sessions, Jobs, scrapeVars, history
<1>14. ASSUME CommitWeb
      PROVE  TypeOK'
  BY <1>14, MergeType, EmptyTypes
     DEF TypeOK, CommitWeb, Flush, Close,
         Disturb, Touched, Sessions, Jobs, scrapeVars
<1>15. ASSUME NEW orphans \in SUBSET present, SelectOrphans(orphans)
      PROVE  TypeOK'
  BY <1>15, EmptyTypes
     DEF TypeOK, SelectOrphans, Open, Sessions, Jobs, scrapeVars, history
<1>16. ASSUME DeleteOrphans
      PROVE  TypeOK'
  BY <1>16, EmptyTypes
     DEF TypeOK, DeleteOrphans, Delete, Close, Disturb,
         Sessions, Jobs, scrapeVars
<1>17. ASSUME NEW ids \in SUBSET Channels, NEW on \in 0..1, BulkUpdate(ids, on)
      PROVE  TypeOK'
  BY <1>17, EditTypes
     DEF TypeOK, BulkUpdate, Disturb, scrapeVars
<1>18. ASSUME Purge
      PROVE  TypeOK'
  BY <1>18, EmptyTypes
     DEF TypeOK, Purge, Delete, Disturb, scrapeVars
<1>19. ASSUME NEW s \in Sessions, Abort(s)
      PROVE  TypeOK'
  BY <1>19, EmptyTypes DEF TypeOK, Abort, Close, Sessions, Jobs
<1>20. ASSUME UNCHANGED vars
      PROVE  TypeOK'
  BY <1>20 DEF TypeOK, vars, scrapeVars, history
<1>21. QED
  BY <1>1, <1>2, <1>3, <1>4, <1>5, <1>6, <1>7, <1>8, <1>9, <1>10, <1>11, <1>12,
     <1>13, <1>14, <1>15, <1>16, <1>17, <1>18, <1>19, <1>20
     DEF Next, Scrape, Audit, Report, Request, Maintenance

\* The types of every variable.
THEOREM Typing == Spec => []TypeOK
<1>1. Init => TypeOK
  BY EmptyTypes DEF Init, TypeOK, Sessions, Jobs
<1>2. TypeOK /\ [Next]_vars => TypeOK'
  BY TypeStep
<1>3. QED
  BY <1>1, <1>2, PTL DEF Spec

\* An UPDATE sent to the row it was made from gives the edited row.
LEMMA MergeDiff ==
    ASSUME NEW old \in Row, NEW new \in Row
    PROVE  Merge(old, Diff(old, new)) = new
<1>1. Keep \notin (0..1) \union Nat \union Reasons \union Urls \union {NoUrl}
  BY KeepAssumption
<1>2. QED
  BY <1>1 DEF Merge, Column, Diff, Changed, Row

\* The marker is no value of a column, and empty UPDATEs hold nothing else.
LEMMA KeepFacts ==
    /\ \A n \in Nat : Keep # n
    /\ \A r \in Reasons : Keep # r
    /\ \A u \in Urls \union {NoUrl} : Keep # u
    /\ \A c \in Channels : NoWrites[c] = NoChange
    /\ NoChange.active = Keep /\ NoChange.enabled = Keep /\ NoChange.reason = Keep
    /\ NoChange.missed = Keep /\ NoChange.url = Keep
    /\ NoRow.missed = 0 /\ NoRow.reason = "none"
BY KeepAssumption DEF NoWrites, NoChange, NoRow

\* Each column of an UPDATE.
LEMMA DiffColumns ==
    ASSUME NEW old, NEW new
    PROVE  /\ Diff(old, new).active = Changed(old.active, new.active)
           /\ Diff(old, new).enabled = Changed(old.enabled, new.enabled)
           /\ Diff(old, new).reason = Changed(old.reason, new.reason)
           /\ Diff(old, new).missed = Changed(old.missed, new.missed)
           /\ Diff(old, new).url = Changed(old.url, new.url)
BY DEF Diff

\* Each column of the row after an UPDATE.
LEMMA MergeColumns ==
    ASSUME NEW r, NEW w
    PROVE  /\ Merge(r, w).active = Column(r.active, w.active)
           /\ Merge(r, w).enabled = Column(r.enabled, w.enabled)
           /\ Merge(r, w).reason = Column(r.reason, w.reason)
           /\ Merge(r, w).missed = Column(r.missed, w.missed)
           /\ Merge(r, w).url = Column(r.url, w.url)
BY DEF Merge

\* Each column of an edited row.
LEMMA EditColumns ==
    ASSUME NEW r, NEW a, NEW e, NEW s, NEW m
    PROVE  LET new == Edit(r, a, e, s, m)
           IN  /\ new.active = a /\ new.enabled = e /\ new.reason = s
               /\ new.missed = m /\ new.url = r.url
BY DEF Edit

\* What a session leaves alone when it starts, when it ends and when it commits.
LEMMA OpenSession ==
    ASSUME TypeOK, NEW s \in Sessions, NEW j, NEW w, Open(s, j, w)
    PROVE  /\ job[s] = "none" /\ job'[s] = j /\ writes'[s] = w
           /\ \A t \in Sessions \ {s} : job'[t] = job[t] /\ writes'[t] = writes[t]
BY DEF TypeOK, Open

\* A session that edits one row sends nothing for the others.
LEMMA OpenOneRow ==
    ASSUME TypeOK, NEW s \in Sessions, NEW j, NEW c \in Channels, NEW w,
           Open(s, j, [NoWrites EXCEPT ![c] = w])
    PROVE  \A d \in Channels : writes'[s][d] \in {NoChange, w}
BY OpenSession DEF NoWrites

\* A session that ends has nothing left to send.
LEMMA CloseSession ==
    ASSUME TypeOK, NEW s \in Sessions, Close(s)
    PROVE  /\ job'[s] = "none" /\ writes'[s] = NoWrites
           /\ \A t \in Sessions \ {s} : job'[t] = job[t] /\ writes'[t] = writes[t]
BY DEF TypeOK, Close

\* A commit merges what the session sends and touches nothing else.
LEMMA FlushRows ==
    ASSUME TypeOK, NEW s \in Sessions, Flush(s)
    PROVE  /\ present' = present
           /\ \A c \in Channels : row'[c] = Merge(row[c], writes[s][c])
           /\ \A c \in Channels \ Touched(s) : row'[c] = row[c]
           /\ \A c \in Channels \ present : row'[c] = row[c]
BY MergeNothing DEF TypeOK, Flush, Touched

\* Other sessions leave alone what the scrape makes of channels they do not touch.
LEMMA ScrapeLeftAlone ==
    ASSUME IInv,
           job'["scraper"] = job["scraper"], writes'["scraper"] = writes["scraper"],
           lineup' = lineup,
           job["scraper"] = "scrape" =>
               \A c \in lineup \ disturbed' : c \notin disturbed /\ row'[c] = row[c]
    PROVE  SettleInv'
BY DEF IInv, SettleInv

\* Rows appear in no other way than by a scrape's own commit.
LEMMA LoadStep ==
    ASSUME TypeOK, TypeOK', IInv, [Next]_vars
    PROVE  LoadInv'
<1>1. ASSUME NEW seen \in SUBSET Channels, NEW url \in [seen -> Urls],
         NEW out \in SUBSET MissingActive(seen), ScrapeLoad(seen, url, out)
      PROVE  LoadInv'
  BY <1>1, KeepFacts
     DEF ScrapeLoad, Open, TypeOK, IInv, LoadInv, NewRow, Sessions
<1>2. ASSUME ScrapeCommit
      PROVE  LoadInv'
  <2>1. \A c \in Channels \ (present \union lineup) : writes["scraper"][c] = NoChange
    BY <1>2 DEF IInv, LoadInv, ScrapeCommit, Touched
  <2>2. \A c \in Channels \ present' : row'[c] = row[c] /\ absent'[c] = 0
    BY <1>2, <2>1, MergeNothing DEF ScrapeCommit, TypeOK
  <2>3. job'["scraper"] = "none"
    BY <1>2, CloseSession DEF ScrapeCommit, Sessions
  <2>4. QED
    BY <1>2, <2>2, <2>3 DEF IInv, LoadInv, ScrapeCommit
<1>3. ASSUME NEW j \in {"audit", "auditAll"}, StartAudit(j, AuditScope(j))
      PROVE  LoadInv'
  BY <1>3, OpenSession
     DEF StartAudit, IInv, LoadInv, Sessions, history
<1>4. ASSUME NEW scope \in SUBSET present, StartAudit("recheck", scope)
      PROVE  LoadInv'
  BY <1>4, OpenSession
     DEF StartAudit, IInv, LoadInv, Sessions, history
<1>5. ASSUME NEW c \in Channels, NEW v \in {"Dead", "DRM", "live", "unknown"},
         AuditChannel(c, v)
      PROVE  LoadInv'
  BY <1>5, KeepFacts
     DEF AuditChannel, Audits, IInv, LoadInv, history
<1>6. ASSUME AuditCheckpoint
      PROVE  LoadInv'
  BY <1>6, FlushRows
     DEF AuditCheckpoint, Audits, IInv, LoadInv, AuditInv, Sessions, history
<1>7. ASSUME FinishAudit
      PROVE  LoadInv'
  BY <1>7, FlushRows, CloseSession
     DEF FinishAudit, IInv, LoadInv, Sessions, history
<1>8. ASSUME NEW c \in Channels, NEW reason \in {"Dead", "DRM"}, AutoDisable(c, reason)
      PROVE  LoadInv'
  BY <1>8, OpenSession
     DEF AutoDisable, IInv, LoadInv, Sessions, scrapeVars, history
<1>9. ASSUME CommitAutoDisable
      PROVE  LoadInv'
  BY <1>9, FlushRows, CloseSession
     DEF CommitAutoDisable, IInv, LoadInv, Sessions, scrapeVars
<1>10. ASSUME RetryAutoDisable
      PROVE  LoadInv'
  BY <1>10, CloseSession
     DEF RetryAutoDisable, IInv, LoadInv, Sessions, scrapeVars, history
<1>11. ASSUME NEW c \in Channels, Reenable(c)
      PROVE  LoadInv'
  BY <1>11, OpenSession
     DEF Reenable, Patch, IInv, LoadInv, Sessions, scrapeVars, history
<1>12. ASSUME NEW c \in Channels, NEW on \in 0..1, Toggle(c, on)
      PROVE  LoadInv'
  BY <1>12, OpenSession
     DEF Toggle, Patch, IInv, LoadInv, Sessions, scrapeVars, history
<1>13. ASSUME NEW group \in SUBSET Channels, NEW winner \in group,
         ResolveDuplicates(group, winner)
      PROVE  LoadInv'
  BY <1>13, OpenSession
     DEF ResolveDuplicates, IInv, LoadInv, Sessions, scrapeVars, history
<1>14. ASSUME CommitWeb
      PROVE  LoadInv'
  BY <1>14, FlushRows, CloseSession
     DEF CommitWeb, IInv, LoadInv, Sessions, scrapeVars
<1>15. ASSUME NEW orphans \in SUBSET present, SelectOrphans(orphans)
      PROVE  LoadInv'
  BY <1>15, OpenSession
     DEF SelectOrphans, IInv, LoadInv, Sessions, scrapeVars, history
<1>16. ASSUME DeleteOrphans
      PROVE  LoadInv'
  BY <1>16, CloseSession, KeepFacts
     DEF DeleteOrphans, Delete, IInv, LoadInv, Sessions, scrapeVars
<1>17. ASSUME NEW ids \in SUBSET Channels, NEW on \in 0..1, BulkUpdate(ids, on)
      PROVE  LoadInv'
  BY <1>17, TypeOK
     DEF BulkUpdate, IInv, LoadInv, scrapeVars, TypeOK
<1>18. ASSUME Purge
      PROVE  LoadInv'
  BY <1>18, KeepFacts
     DEF Purge, Delete, IInv, LoadInv, scrapeVars
<1>19. ASSUME NEW s \in Sessions, Abort(s)
      PROVE  LoadInv'
  BY <1>19, CloseSession, KeepFacts
     DEF Abort, IInv, LoadInv, Sessions
<1>20. ASSUME UNCHANGED vars
      PROVE  LoadInv'
  BY <1>20, IInv
     DEF vars, scrapeVars, history, IInv, LoadInv
<1>21. QED
  BY <1>1, <1>2, <1>3, <1>4, <1>5, <1>6, <1>7, <1>8, <1>9, <1>10, <1>11, <1>12,
     <1>13, <1>14, <1>15, <1>16, <1>17, <1>18, <1>19, <1>20
     DEF Next, Scrape, Audit, Report, Request, Maintenance

\* The edits of scrapes, audits and reports never set is_enabled.
LEMMA EnabledStep ==
    ASSUME TypeOK, TypeOK', IInv, [Next]_vars
    PROVE  EnabledInv'
<1>1. ASSUME NEW seen \in SUBSET Channels, NEW url \in [seen -> Urls],
         NEW out \in SUBSET MissingActive(seen), ScrapeLoad(seen, url, out)
      PROVE  EnabledInv'
  <2>1. \A c \in present : writes'["scraper"][c].enabled # 1
    <3>1. ASSUME NEW c \in present, NEW new \in Row, new.enabled \in {row[c].enabled, 0}
          PROVE  Diff(row[c], new).enabled # 1
      BY <3>1, KeepFacts DEF Diff, Changed, TypeOK, Row
    <3>2. ASSUME NEW c \in present
          PROVE  LET new == ScrapedRow(c, seen, url, out)
                 IN  new \in Row /\ new.enabled \in {row[c].enabled, 0}
      <4>1. c \in seen => SeenRow(row[c], url[c]) \in Row
        BY EditTypes DEF TypeOK
      <4>2. c \in seen => SeenRow(row[c], url[c]).enabled \in {row[c].enabled, 0}
        BY DEF SeenRow, Edit
      <4>3. RemovedRow(row[c]) \in Row /\ MissedRow(row[c]) \in Row /\ row[c] \in Row
        BY EditTypes DEF TypeOK
      <4>4. QED
        BY <4>1, <4>2, <4>3 DEF ScrapedRow, RemovedRow, MissedRow, Edit
    <3>3. QED
      BY <1>1, <3>1, <3>2, OpenSession DEF ScrapeLoad, TypeOK, Sessions
  <2>2. QED
    BY <1>1, <2>1, OpenSession, KeepFacts
       DEF ScrapeLoad, IInv, EnabledInv, Sessions
<1>2. ASSUME ScrapeCommit
      PROVE  EnabledInv'
  BY <1>2, CloseSession, KeepFacts
     DEF ScrapeCommit, IInv, EnabledInv, Sessions
<1>3. ASSUME NEW j \in {"audit", "auditAll"}, StartAudit(j, AuditScope(j))
      PROVE  EnabledInv'
  BY <1>3, OpenSession, KeepFacts
     DEF StartAudit, IInv, EnabledInv, Sessions, history
<1>4. ASSUME NEW scope \in SUBSET present, StartAudit("recheck", scope)
      PROVE  EnabledInv'
  BY <1>4, OpenSession, KeepFacts
     DEF StartAudit, IInv, EnabledInv, Sessions, history
<1>5. ASSUME NEW c \in Channels, NEW v \in {"Dead", "DRM", "live", "unknown"},
         AuditChannel(c, v)
      PROVE  EnabledInv'
  <2>1. \A r \in Row : Diff(r, JudgedRow(r, v, job["scraper"])).enabled # 1
    BY KeepFacts DEF Diff, Changed, JudgedRow, Edit, Row
  <2>2. c \in audit.fresh \/ c \in present => audit.snap[c] \in Row /\ row[c] \in Row
    BY DEF TypeOK
  <2>3. writes'["scraper"][c].enabled # 1
    BY <1>5, <2>1, <2>2 DEF AuditChannel, TypeOK, Sessions
  <2>4. QED
    BY <1>5, <2>3
       DEF AuditChannel, IInv, EnabledInv, TypeOK, Sessions, Audits,
           scrapeVars
<1>6. ASSUME AuditCheckpoint
      PROVE  EnabledInv'
  BY <1>6, KeepFacts
     DEF AuditCheckpoint, IInv, EnabledInv, TypeOK, Sessions, scrapeVars
<1>7. ASSUME FinishAudit
      PROVE  EnabledInv'
  BY <1>7, CloseSession, KeepFacts
     DEF FinishAudit, IInv, EnabledInv, Sessions, scrapeVars
<1>8. ASSUME NEW c \in Channels, NEW reason \in {"Dead", "DRM"}, AutoDisable(c, reason)
      PROVE  EnabledInv'
  <2>1. Diff(row[c], Edit(row[c], 0, 0, reason, row[c].missed)).enabled # 1
    BY KeepFacts DEF Diff, Changed, Edit
  <2>2. \A d \in Channels : writes'["fast"][d] \in
           {NoChange, Diff(row[c], Edit(row[c], 0, 0, reason, row[c].missed))}
    <3>1. Open("fast", "dead", [NoWrites EXCEPT ![c] = Diff(row[c], Edit(row[c], 0, 0, reason, row[c].missed))])
      BY <1>8 DEF AutoDisable
    <3>2. QED
      BY <3>1, OpenOneRow DEF Sessions
  <2>3. QED
    BY <1>8, <2>1, <2>2, OpenSession, KeepFacts
       DEF AutoDisable, IInv, EnabledInv, Sessions, scrapeVars
<1>9. ASSUME CommitAutoDisable
      PROVE  EnabledInv'
  BY <1>9, CloseSession, KeepFacts
     DEF CommitAutoDisable, IInv, EnabledInv, Sessions, scrapeVars
<1>10. ASSUME RetryAutoDisable
      PROVE  EnabledInv'
  BY <1>10, CloseSession, KeepFacts
     DEF RetryAutoDisable, IInv, EnabledInv, Sessions, scrapeVars
<1>11. ASSUME NEW c \in Channels, Reenable(c)
      PROVE  EnabledInv'
  BY <1>11, OpenSession
     DEF Reenable, Patch, IInv, EnabledInv, Sessions, scrapeVars
<1>12. ASSUME NEW c \in Channels, NEW on \in 0..1, Toggle(c, on)
      PROVE  EnabledInv'
  BY <1>12, OpenSession
     DEF Toggle, Patch, IInv, EnabledInv, Sessions, scrapeVars
<1>13. ASSUME NEW group \in SUBSET Channels, NEW winner \in group,
         ResolveDuplicates(group, winner)
      PROVE  EnabledInv'
  BY <1>13, OpenSession
     DEF ResolveDuplicates, IInv, EnabledInv, Sessions, scrapeVars
<1>14. ASSUME CommitWeb
      PROVE  EnabledInv'
  BY <1>14, CloseSession, KeepFacts
     DEF CommitWeb, IInv, EnabledInv, Sessions, scrapeVars
<1>15. ASSUME NEW orphans \in SUBSET present, SelectOrphans(orphans)
      PROVE  EnabledInv'
  BY <1>15, OpenSession
     DEF SelectOrphans, IInv, EnabledInv, Sessions, scrapeVars
<1>16. ASSUME DeleteOrphans
      PROVE  EnabledInv'
  BY <1>16, CloseSession, KeepFacts
     DEF DeleteOrphans, IInv, EnabledInv, Sessions, scrapeVars
<1>17. ASSUME NEW ids \in SUBSET Channels, NEW on \in 0..1, BulkUpdate(ids, on)
      PROVE  EnabledInv'
  BY <1>17, KeepFacts
     DEF BulkUpdate, IInv, EnabledInv, scrapeVars
<1>18. ASSUME Purge
      PROVE  EnabledInv'
  BY <1>18, KeepFacts
     DEF Purge, IInv, EnabledInv, scrapeVars
<1>19. ASSUME NEW s \in Sessions, Abort(s)
      PROVE  EnabledInv'
  BY <1>19, CloseSession, KeepFacts
     DEF Abort, IInv, EnabledInv, Sessions
<1>20. ASSUME UNCHANGED vars
      PROVE  EnabledInv'
  BY <1>20, KeepFacts
     DEF vars, scrapeVars, history, IInv, EnabledInv
<1>21. QED
  BY <1>1, <1>2, <1>3, <1>4, <1>5, <1>6, <1>7, <1>8, <1>9, <1>10, <1>11, <1>12,
     <1>13, <1>14, <1>15, <1>16, <1>17, <1>18, <1>19, <1>20
     DEF Next, Scrape, Audit, Report, Request, Maintenance

\* Only a scrape touches stream URLs.
LEMMA FlagStep ==
    ASSUME TypeOK, TypeOK', IInv, [Next]_vars
    PROVE  FlagInv'
<1>1. ASSUME NEW seen \in SUBSET Channels, NEW url \in [seen -> Urls],
         NEW out \in SUBSET MissingActive(seen), ScrapeLoad(seen, url, out)
      PROVE  FlagInv'
  <2>1. ASSUME NEW c \in present, writes'["scraper"][c].reason # Keep
        PROVE  writes'["scraper"][c].url \notin {Keep, row[c].url}
    <3>1. row[c] \in Row /\ (c \in seen => url[c] \in Urls)
      BY DEF TypeOK
    <3>2. writes'["scraper"][c] = Diff(row[c], ScrapedRow(c, seen, url, out))
      BY <1>1, OpenSession DEF ScrapeLoad, TypeOK, Sessions
    <3>3. CASE c \in seen
      BY <2>1, <3>1, <3>2, <3>3, KeepFacts
         DEF ScrapedRow, SeenRow, Edit, Flagged, Diff, Changed, Row
    <3>4. CASE c \notin seen
      BY <2>1, <3>2, <3>4
         DEF ScrapedRow, RemovedRow, MissedRow, Edit, Diff, Changed
    <3>5. QED
      BY <3>3, <3>4
  <2>2. QED
    BY <1>1, <2>1, OpenSession DEF ScrapeLoad, IInv, FlagInv, Sessions
<1>2. ASSUME ScrapeCommit
      PROVE  FlagInv'
  BY <1>2, CloseSession, KeepFacts
     DEF ScrapeCommit, IInv, FlagInv, Sessions
<1>3. ASSUME NEW j \in {"audit", "auditAll"}, StartAudit(j, AuditScope(j))
      PROVE  FlagInv'
  BY <1>3, OpenSession, KeepFacts
     DEF StartAudit, IInv, FlagInv, Sessions, scrapeVars
<1>4. ASSUME NEW scope \in SUBSET present, StartAudit("recheck", scope)
      PROVE  FlagInv'
  BY <1>4, OpenSession, KeepFacts
     DEF StartAudit, IInv, FlagInv, Sessions, scrapeVars
<1>5. ASSUME NEW c \in Channels, NEW v \in {"Dead", "DRM", "live", "unknown"},
         AuditChannel(c, v)
      PROVE  FlagInv'
  <2>1. \A r : Diff(r, JudgedRow(r, v, job["scraper"])).url = Keep
    BY DEF Diff, Changed, JudgedRow, Edit
  <2>2. writes'["scraper"][c].url = Keep
    BY <1>5, <2>1 DEF AuditChannel, TypeOK, Sessions
  <2>3. QED
    BY <1>5, <2>2
       DEF AuditChannel, IInv, FlagInv, TypeOK, Sessions, Audits, scrapeVars
<1>6. ASSUME AuditCheckpoint
      PROVE  FlagInv'
  BY <1>6, KeepFacts
     DEF AuditCheckpoint, AuditInv, TypeOK, Audits, IInv, FlagInv, Sessions,
         scrapeVars
<1>7. ASSUME FinishAudit
      PROVE  FlagInv'
  BY <1>7, CloseSession, KeepFacts
     DEF FinishAudit, IInv, FlagInv, Sessions, scrapeVars
<1>8. ASSUME NEW c \in Channels, NEW reason \in {"Dead", "DRM"}, AutoDisable(c, reason)
      PROVE  FlagInv'
  <2>1. LET w == Diff(row[c], Edit(row[c], 0, 0, reason, row[c].missed))
        IN  w.reason # "none" /\ w.url = Keep
    BY KeepFacts DEF Diff, Changed, Edit, Reasons
  <2>2. \A d \in Channels : writes'["fast"][d] \in
           {NoChange, Diff(row[c], Edit(row[c], 0, 0, reason, row[c].missed))}
    <3>1. Open("fast", "dead", [NoWrites EXCEPT ![c] = Diff(row[c], Edit(row[c], 0, 0, reason, row[c].missed))])
      BY <1>8 DEF AutoDisable
    <3>2. QED
      BY <3>1, OpenOneRow DEF Sessions
  <2>3. QED
    BY <1>8, <2>1, <2>2, OpenSession, KeepFacts
       DEF AutoDisable, Reasons, IInv, FlagInv, Sessions, scrapeVars
<1>9. ASSUME CommitAutoDisable
      PROVE  FlagInv'
  <2>1. \A c \in Channels : row'[c].url = row[c].url
    <3>1. \A c \in Channels : writes["fast"][c].url = Keep
      BY DEF IInv, FlagInv
    <3>2. \A c \in Channels : row'[c] = Merge(row[c], writes["fast"][c])
      BY <1>9, FlushRows DEF CommitAutoDisable, Sessions
    <3>3. QED
      BY <3>1, <3>2, MergeColumns DEF Column
  <2>2. present' = present /\ job'["scraper"] = job["scraper"]
         /\ writes'["scraper"] = writes["scraper"] /\ writes'["web"] = writes["web"]
         /\ writes'["fast"] = NoWrites
    BY <1>9, FlushRows, CloseSession DEF CommitAutoDisable, Sessions
  <2>3. QED
    BY <2>1, <2>2, KeepFacts
       DEF TypeOK, Reasons, IInv, FlagInv, Sessions, scrapeVars
<1>10. ASSUME RetryAutoDisable
      PROVE  FlagInv'
  BY <1>10, CloseSession, KeepFacts
     DEF RetryAutoDisable, Reasons, IInv, FlagInv, Sessions, scrapeVars
<1>11. ASSUME NEW c \in Channels, Reenable(c)
      PROVE  FlagInv'
  <2>1. Diff(row[c], Reenabled(row[c])).url = Keep
    BY DEF Diff, Changed, Reenabled, Edit
  <2>2. \A d \in Channels : writes'["web"][d] \in
           {NoChange, Diff(row[c], Reenabled(row[c]))}
    <3>1. Open("web", "patch", [NoWrites EXCEPT ![c] = Diff(row[c], Reenabled(row[c]))])
      BY <1>11 DEF Reenable, Patch
    <3>2. QED
      BY <3>1, OpenOneRow DEF Sessions
  <2>3. QED
    BY <1>11, <2>1, <2>2, OpenSession, KeepFacts
       DEF Reenable, Patch, IInv, FlagInv, Sessions, scrapeVars
<1>12. ASSUME NEW c \in Channels, NEW on \in 0..1, Toggle(c, on)
      PROVE  FlagInv'
  <2>1. Diff(row[c], Toggled(row[c], on)).url = Keep
    BY DEF Diff, Changed, Toggled, Switched, Edit
  <2>2. \A d \in Channels : writes'["web"][d] \in
           {NoChange, Diff(row[c], Toggled(row[c], on))}
    <3>1. Open("web", "patch", [NoWrites EXCEPT ![c] = Diff(row[c], Toggled(row[c], on))])
      BY <1>12 DEF Toggle, Patch
    <3>2. QED
      BY <3>1, OpenOneRow DEF Sessions
  <2>3. QED
    BY <1>12, <2>1, <2>2, OpenSession, KeepFacts
       DEF Toggle, Patch, IInv, FlagInv, Sessions, scrapeVars
<1>13. ASSUME NEW group \in SUBSET Channels, NEW winner \in group,
         ResolveDuplicates(group, winner)
      PROVE  FlagInv'
  <2>1. \A c \in Channels : writes'["web"][c].url = Keep
    <3>1. \A r, on : Diff(r, Switched(r, on)).url = Keep
      BY DEF Diff, Changed, Switched, Edit
    <3>2. QED
      BY <1>13, <3>1, OpenSession, KeepFacts DEF ResolveDuplicates, Sessions
  <2>2. QED
    BY <1>13, <2>1, OpenSession
       DEF ResolveDuplicates, IInv, FlagInv, Sessions, scrapeVars
<1>14. ASSUME CommitWeb
      PROVE  FlagInv'
  <2>1. \A c \in Channels : row'[c].url = row[c].url
    <3>1. \A c \in Channels : writes["web"][c].url = Keep
      BY DEF IInv, FlagInv
    <3>2. \A c \in Channels : row'[c] = Merge(row[c], writes["web"][c])
      BY <1>14, FlushRows DEF CommitWeb, Sessions
    <3>3. QED
      BY <3>1, <3>2, MergeColumns DEF Column
  <2>2. present' = present /\ job'["scraper"] = job["scraper"]
         /\ writes'["scraper"] = writes["scraper"] /\ writes'["fast"] = writes["fast"]
         /\ writes'["web"] = NoWrites
    BY <1>14, FlushRows, CloseSession DEF CommitWeb, Sessions
  <2>3. QED
    BY <2>1, <2>2, KeepFacts DEF TypeOK, IInv, FlagInv, Sessions, scrapeVars
<1>15. ASSUME NEW orphans \in SUBSET present, SelectOrphans(orphans)
      PROVE  FlagInv'
  BY <1>15, OpenSession, KeepFacts
     DEF SelectOrphans, IInv, FlagInv, Sessions, scrapeVars
<1>16. ASSUME DeleteOrphans
      PROVE  FlagInv'
  BY <1>16, CloseSession, KeepFacts
     DEF DeleteOrphans, Delete, TypeOK, IInv, FlagInv, Sessions, scrapeVars
<1>17. ASSUME NEW ids \in SUBSET Channels, NEW on \in 0..1, BulkUpdate(ids, on)
      PROVE  FlagInv'
  <2>1. \A c \in Channels : row'[c].url = row[c].url
    BY <1>17 DEF BulkUpdate, Toggled, Switched, Edit
  <2>2. QED
    BY <1>17, <2>1 DEF BulkUpdate, TypeOK, IInv, FlagInv, Sessions, scrapeVars
<1>18. ASSUME Purge
      PROVE  FlagInv'
  BY <1>18, KeepFacts
     DEF Purge, Delete, IInv, FlagInv, Sessions, scrapeVars
<1>19. ASSUME NEW s \in Sessions, Abort(s)
      PROVE  FlagInv'
  BY <1>19, CloseSession, KeepFacts
     DEF Abort, Reasons, TypeOK, IInv, FlagInv, Sessions, scrapeVars
<1>20. ASSUME UNCHANGED vars
      PROVE  FlagInv'
  BY <1>20, KeepFacts
     DEF vars, history, IInv, FlagInv, Sessions, scrapeVars
<1>21. QED
  BY <1>1, <1>2, <1>3, <1>4, <1>5, <1>6, <1>7, <1>8, <1>9, <1>10, <1>11, <1>12,
     <1>13, <1>14, <1>15, <1>16, <1>17, <1>18, <1>19, <1>20
     DEF Next, Scrape, Audit, Report, Request, Maintenance

\* The count of absences lags the absences.
LEMMA MissedStep ==
    ASSUME TypeOK, TypeOK', IInv, [Next]_vars
    PROVE  MissedInv'
<1>1. ASSUME NEW seen \in SUBSET Channels, NEW url \in [seen -> Urls],
         NEW out \in SUBSET MissingActive(seen), ScrapeLoad(seen, url, out)
      PROVE  MissedInv'
  <2> DEFINE new(c) == ScrapedRow(c, seen, url, out)
             w(c) == writes'["scraper"][c]
  <2>1. \A c \in present : w(c) = Diff(row[c], new(c))
    BY <1>1, OpenSession DEF ScrapeLoad, TypeOK, Sessions
  <2>2. \A c \in present : row[c] \in Row /\ row[c].missed \in Nat /\ absent[c] \in Nat
    BY DEF TypeOK, Row
  <2>3. ASSUME NEW c \in present \intersect seen
        PROVE  w(c).missed = 0 \/ (w(c).missed = Keep /\ row[c].missed = 0)
    <3>1. new(c).missed = 0
      BY DEF ScrapedRow, SeenRow, Edit
    <3>2. QED
      BY <2>1, <3>1, DiffColumns DEF Changed
  <2>4. ASSUME NEW c \in present \ seen
        PROVE  /\ w(c).missed # Keep => w(c).missed <= absent[c] + 1
               /\ w(c).active = 0 /\ c \notin out =>
                     w(c).missed # Keep /\ w(c).missed >= MissThreshold
    <3>1. \/ new(c) = RemovedRow(row[c]) /\ c \in out
          \/ new(c) = row[c]
          \/ new(c) = MissedRow(row[c])
      BY DEF ScrapedRow
    <3>2. row[c].missed <= absent[c]
      BY DEF TypeOK, IInv, MissedInv
    <3>3. CASE new(c) = RemovedRow(row[c]) /\ c \in out
      BY <2>1, <2>2, <3>2, <3>3, DiffColumns, EditColumns, KeepFacts
         DEF RemovedRow, Changed
    <3>4. CASE new(c) = row[c]
      BY <2>1, <3>4, DiffColumns, KeepFacts DEF Changed
    <3>5. CASE new(c) = MissedRow(row[c])
      <4>1. w(c).missed = row[c].missed + 1
        BY <2>1, <2>2, <3>5, DiffColumns, EditColumns DEF MissedRow, Changed
      <4>2. w(c).active = 0 => row[c].missed + 1 >= MissThreshold
        BY <2>1, <3>5, DiffColumns, EditColumns, KeepFacts DEF MissedRow, Changed
      <4>3. QED
        BY <2>2, <3>2, <4>1, <4>2, KeepFacts, ThresholdAssumption
    <3>6. QED
      BY <3>1, <3>3, <3>4, <3>5
  <2> HIDE DEF new
  <2>5. QED
    BY <1>1, <2>3, <2>4, OpenSession DEF ScrapeLoad, IInv, MissedInv, Sessions
<1>2. ASSUME ScrapeCommit
      PROVE  MissedInv'
  <2> DEFINE w(c) == writes["scraper"][c]
  <2>1. \A c \in Channels : row'[c] = Merge(row[c], w(c))
    BY <1>2 DEF ScrapeCommit
  <2>2. \A c \in Channels : row[c].missed \in Nat /\ absent[c] \in Nat /\ row[c] \in Row
    BY DEF TypeOK, Row
  <2>3. \A c \in Channels : row[c].missed <= absent[c]
    BY DEF IInv, MissedInv
  <2>4. ASSUME NEW c \in Channels
        PROVE  row'[c].missed <= absent'[c]
    <3>1. row'[c].missed = IF w(c).missed = Keep THEN row[c].missed ELSE w(c).missed
      BY <2>1, MergeColumns DEF Column
    <3>2. CASE c \in present \ lineup
      <4>1. w(c).missed # Keep => w(c).missed <= absent[c] + 1
        BY <1>2, <3>2 DEF ScrapeCommit, IInv, MissedInv
      <4>2. absent'[c] = absent[c] + 1
        BY <1>2, <3>2 DEF ScrapeCommit
      <4>3. QED
        BY <2>2, <2>3, <3>1, <4>1, <4>2
    <3>3. CASE c \in present \intersect lineup
      <4>1. w(c).missed = 0 \/ (w(c).missed = Keep /\ row[c].missed = 0)
        BY <1>2, <3>3 DEF ScrapeCommit, IInv, MissedInv
      <4>2. absent'[c] = 0
        BY <1>2, <3>3 DEF ScrapeCommit
      <4>3. QED
        BY <3>1, <4>1, <4>2, KeepFacts
    <3>4. CASE c \notin present /\ c \in lineup
      <4>1. absent'[c] = 0
        BY <1>2, <3>4 DEF ScrapeCommit
      <4>2. c \notin loaded
        BY <1>2, <3>4 DEF ScrapeCommit
      <4>3. w(c).missed = 0
        BY <1>2, <3>4, <4>2 DEF ScrapeCommit, IInv, LoadInv
      <4>4. QED
        BY <3>1, <4>1, <4>2, <4>3, KeepFacts
    <3>5. CASE c \notin present /\ c \notin lineup
      <4>1. w(c) = NoChange
        BY <1>2, <3>5 DEF ScrapeCommit, Touched, IInv, LoadInv
      <4>2. row[c].missed = 0 /\ absent'[c] = 0
        BY <1>2, <3>5 DEF ScrapeCommit, IInv, LoadInv
      <4>3. QED
        BY <3>1, <4>1, <4>2, KeepFacts
    <3>6. QED
      BY <3>2, <3>3, <3>4, <3>5
  <2>5. /\ job'["scraper"] = "none" /\ writes'["scraper"] = NoWrites
        /\ writes'["fast"] = writes["fast"] /\ writes'["web"] = writes["web"]
    BY <1>2, CloseSession DEF ScrapeCommit, Sessions
  <2>6. QED
    BY <2>4, <2>5, KeepFacts DEF IInv, MissedInv
<1>3. ASSUME NEW j \in {"audit", "auditAll"}, StartAudit(j, AuditScope(j))
      PROVE  MissedInv'
  BY <1>3, OpenSession, KeepFacts
     DEF StartAudit, history, IInv, MissedInv, Sessions, scrapeVars
<1>4. ASSUME NEW scope \in SUBSET present, StartAudit("recheck", scope)
      PROVE  MissedInv'
  BY <1>4, OpenSession, KeepFacts
     DEF StartAudit, history, IInv, MissedInv, Sessions, scrapeVars
<1>5. ASSUME NEW c \in Channels, NEW v \in {"Dead", "DRM", "live", "unknown"},
         AuditChannel(c, v)
      PROVE  MissedInv'
  <2>1. \A r : Diff(r, JudgedRow(r, v, job["scraper"])).missed = Keep
    BY DEF Diff, Changed, JudgedRow, Edit
  <2>2. writes'["scraper"][c].missed = Keep
    BY <1>5, <2>1 DEF AuditChannel, TypeOK, Sessions
  <2>3. QED
    BY <1>5, <2>2
       DEF AuditChannel, TypeOK, Audits, history, IInv, MissedInv, Sessions,
           scrapeVars
<1>6. ASSUME AuditCheckpoint
      PROVE  MissedInv'
  <2>1. job["scraper"] # "scrape"
    BY <1>6 DEF AuditCheckpoint, Audits, IInv, AuditInv
  <2>2. \A c \in Channels : row'[c].missed = row[c].missed
    <3>1. \A c \in Channels : writes["scraper"][c].missed = Keep
      BY <2>1 DEF IInv, MissedInv
    <3>2. \A c \in Channels : row'[c] = Merge(row[c], writes["scraper"][c])
      BY <1>6, FlushRows DEF AuditCheckpoint, Sessions
    <3>3. QED
      BY <3>1, <3>2, MergeColumns DEF Column
  <2>3. QED
    BY <1>6, <2>1, <2>2, KeepFacts
       DEF AuditCheckpoint, TypeOK, history, IInv, MissedInv, Sessions,
           scrapeVars
<1>7. ASSUME FinishAudit
      PROVE  MissedInv'
  <2>1. job["scraper"] # "scrape"
    BY <1>7 DEF FinishAudit, Audits
  <2>2. \A c \in Channels : row'[c].missed = row[c].missed
    <3>1. \A c \in Channels : writes["scraper"][c].missed = Keep
      BY <2>1 DEF IInv, MissedInv
    <3>2. \A c \in Channels : row'[c] = Merge(row[c], writes["scraper"][c])
      BY <1>7, FlushRows DEF FinishAudit, Sessions
    <3>3. QED
      BY <3>1, <3>2, MergeColumns DEF Column
  <2>3. /\ job'["scraper"] = "none" /\ writes'["scraper"] = NoWrites
        /\ writes'["fast"] = writes["fast"] /\ writes'["web"] = writes["web"]
    BY <1>7, CloseSession DEF FinishAudit, Sessions
  <2>4. QED
    BY <1>7, <2>2, <2>3, KeepFacts
       DEF FinishAudit, history, IInv, MissedInv, Sessions, scrapeVars
<1>8. ASSUME NEW c \in Channels, NEW reason \in {"Dead", "DRM"}, AutoDisable(c, reason)
      PROVE  MissedInv'
  <2>1. Diff(row[c], Edit(row[c], 0, 0, reason, row[c].missed)).missed = Keep
    BY DEF Diff, Changed, Edit
  <2>2. \A d \in Channels : writes'["fast"][d] \in
           {NoChange, Diff(row[c], Edit(row[c], 0, 0, reason, row[c].missed))}
    <3>1. Open("fast", "dead",
               [NoWrites EXCEPT ![c] =
                   Diff(row[c], Edit(row[c], 0, 0, reason, row[c].missed))])
      BY <1>8 DEF AutoDisable
    <3>2. QED
      BY <3>1, OpenOneRow DEF Sessions
  <2>3. QED
    BY <1>8, <2>1, <2>2, OpenSession, KeepFacts
       DEF AutoDisable, history, IInv, MissedInv, Sessions, scrapeVars
<1>9. ASSUME CommitAutoDisable
      PROVE  MissedInv'
  <2>1. \A c \in Channels : row'[c].missed \in {row[c].missed, 0}
    <3>1. \A c \in Channels : writes["fast"][c].missed \in {Keep, 0}
      BY DEF IInv, MissedInv
    <3>2. \A c \in Channels : row'[c] = Merge(row[c], writes["fast"][c])
      BY <1>9, FlushRows DEF CommitAutoDisable, Sessions
    <3>3. QED
      BY <3>1, <3>2, MergeColumns DEF Column
  <2>2. /\ present' = present /\ job'["scraper"] = job["scraper"]
        /\ writes'["scraper"] = writes["scraper"]
        /\ writes'["web"] = writes["web"] /\ writes'["fast"] = NoWrites
    BY <1>9, FlushRows, CloseSession DEF CommitAutoDisable, Sessions
  <2>3. \A c \in Channels : absent[c] \in Nat
    BY DEF TypeOK
  <2>4. \A c \in Channels : row'[c].missed <= absent'[c]
    BY <1>9, <2>1, <2>3 DEF CommitAutoDisable, IInv, MissedInv
  <2>5. present \subseteq Channels /\ lineup' = lineup /\ removed' = removed
         /\ absent' = absent
    BY <1>9 DEF CommitAutoDisable, TypeOK, scrapeVars
  <2>6. QED
    BY <2>1, <2>2, <2>4, <2>5, KeepFacts DEF IInv, MissedInv
<1>10. ASSUME RetryAutoDisable
      PROVE  MissedInv'
  BY <1>10, CloseSession, KeepFacts
     DEF RetryAutoDisable, history, IInv, MissedInv, Sessions, scrapeVars
<1>11. ASSUME NEW c \in Channels, Reenable(c)
      PROVE  MissedInv'
  <2>1. Diff(row[c], Reenabled(row[c])).missed \in {Keep, 0}
    BY DEF Diff, Changed, Reenabled, Edit
  <2>2. \A d \in Channels : writes'["web"][d] \in
           {NoChange, Diff(row[c], Reenabled(row[c]))}
    <3>1. Open("web", "patch", [NoWrites EXCEPT ![c] = Diff(row[c], Reenabled(row[c]))])
      BY <1>11 DEF Reenable, Patch
    <3>2. QED
      BY <3>1, OpenOneRow DEF Sessions
  <2>3. QED
    BY <1>11, <2>1, <2>2, OpenSession, KeepFacts
       DEF Reenable, Patch, history, IInv, MissedInv, Sessions, scrapeVars
<1>12. ASSUME NEW c \in Channels, NEW on \in 0..1, Toggle(c, on)
      PROVE  MissedInv'
  <2>1. Diff(row[c], Toggled(row[c], on)).missed \in {Keep, 0}
    BY DEF Diff, Changed, Toggled, Switched, Edit
  <2>2. \A d \in Channels : writes'["web"][d] \in
           {NoChange, Diff(row[c], Toggled(row[c], on))}
    <3>1. Open("web", "patch", [NoWrites EXCEPT ![c] = Diff(row[c], Toggled(row[c], on))])
      BY <1>12 DEF Toggle, Patch
    <3>2. QED
      BY <3>1, OpenOneRow DEF Sessions
  <2>3. QED
    BY <1>12, <2>1, <2>2, OpenSession, KeepFacts
       DEF Toggle, Patch, history, IInv, MissedInv, Sessions, scrapeVars
<1>13. ASSUME NEW group \in SUBSET Channels, NEW winner \in group,
         ResolveDuplicates(group, winner)
      PROVE  MissedInv'
  <2>1. \A c \in Channels : writes'["web"][c].missed = Keep
    <3>1. \A r, on : Diff(r, Switched(r, on)).missed = Keep
      BY DEF Diff, Changed, Switched, Edit
    <3>2. QED
      BY <1>13, <3>1, OpenSession, KeepFacts DEF ResolveDuplicates, Sessions
  <2>2. QED
    BY <1>13, <2>1, OpenSession
       DEF ResolveDuplicates, history, IInv, MissedInv, Sessions, scrapeVars
<1>14. ASSUME CommitWeb
      PROVE  MissedInv'
  <2>1. \A c \in Channels : row'[c].missed \in {row[c].missed, 0}
    <3>1. \A c \in Channels : writes["web"][c].missed \in {Keep, 0}
      BY DEF IInv, MissedInv
    <3>2. \A c \in Channels : row'[c] = Merge(row[c], writes["web"][c])
      BY <1>14, FlushRows DEF CommitWeb, Sessions
    <3>3. QED
      BY <3>1, <3>2, MergeColumns DEF Column
  <2>2. /\ present' = present /\ job'["scraper"] = job["scraper"]
        /\ writes'["scraper"] = writes["scraper"]
        /\ writes'["fast"] = writes["fast"] /\ writes'["web"] = NoWrites
    BY <1>14, FlushRows, CloseSession DEF CommitWeb, Sessions
  <2>3. \A c \in Channels : absent[c] \in Nat
    BY DEF TypeOK
  <2>4. \A c \in Channels : row'[c].missed <= absent'[c]
    BY <1>14, <2>1, <2>3 DEF CommitWeb, IInv, MissedInv
  <2>5. present \subseteq Channels /\ lineup' = lineup /\ removed' = removed
         /\ absent' = absent
    BY <1>14 DEF CommitWeb, TypeOK, scrapeVars
  <2>6. QED
    BY <2>1, <2>2, <2>4, <2>5, KeepFacts DEF IInv, MissedInv
<1>15. ASSUME NEW orphans \in SUBSET present, SelectOrphans(orphans)
      PROVE  MissedInv'
  BY <1>15, OpenSession, KeepFacts
     DEF SelectOrphans, history, IInv, MissedInv, Sessions, scrapeVars
<1>16. ASSUME DeleteOrphans
      PROVE  MissedInv'
  <2>1. /\ \A c \in doomed : row'[c] = NoRow /\ absent'[c] = 0
        /\ \A c \in Channels \ doomed : row'[c] = row[c] /\ absent'[c] = absent[c]
    BY <1>16 DEF DeleteOrphans, Delete, TypeOK
  <2>2. /\ job'["scraper"] = job["scraper"] /\ writes'["scraper"] = writes["scraper"]
        /\ writes'["fast"] = writes["fast"] /\ writes'["web"] = NoWrites
        /\ present' = present \ doomed
    BY <1>16, CloseSession DEF DeleteOrphans, Delete, Sessions
  <2>3. lineup' = lineup /\ removed' = removed
    BY <1>16 DEF DeleteOrphans, scrapeVars
  <2>4. \A c \in Channels : row'[c].missed <= absent'[c]
    BY <2>1, KeepFacts DEF IInv, MissedInv
  <2>5. \A s \in {"fast", "web"}, c \in Channels : writes'[s][c].missed \in {Keep, 0}
    BY <2>2, KeepFacts DEF IInv, MissedInv
  <2>6. job'["scraper"] # "scrape" =>
            \A c \in Channels : writes'["scraper"][c].missed = Keep
    BY <2>2 DEF IInv, MissedInv
  <2>7. \A c \in present' :
            c \in present /\ row'[c] = row[c] /\ absent'[c] = absent[c]
    BY <2>1, <2>2 DEF TypeOK
  <2>8. QED
    BY <2>2, <2>3, <2>4, <2>5, <2>6, <2>7 DEF IInv, MissedInv
<1>17. ASSUME NEW ids \in SUBSET Channels, NEW on \in 0..1, BulkUpdate(ids, on)
      PROVE  MissedInv'
  <2>1. \A c \in Channels : row'[c].missed = row[c].missed \/ row'[c].missed = 0
    BY <1>17 DEF BulkUpdate, Toggled, Switched, Edit
  <2>2. \A c \in Channels : absent[c] \in Nat
    BY DEF TypeOK
  <2>3. QED
    BY <1>17, <2>1, <2>2, KeepFacts
       DEF BulkUpdate, TypeOK, IInv, MissedInv, Sessions, scrapeVars
<1>18. ASSUME Purge
      PROVE  MissedInv'
  <2>1. /\ \A c \in present : row'[c] = NoRow /\ absent'[c] = 0
        /\ \A c \in Channels \ present : row'[c] = row[c] /\ absent'[c] = absent[c]
        /\ present' = {}
    BY <1>18 DEF Purge, Delete, TypeOK
  <2>2. QED
    BY <1>18, <2>1, KeepFacts
       DEF Purge, TypeOK, IInv, MissedInv, Sessions, scrapeVars
<1>19. ASSUME NEW s \in Sessions, Abort(s)
      PROVE  MissedInv'
  BY <1>19, CloseSession, KeepFacts
     DEF Abort, TypeOK, IInv, MissedInv, Sessions, scrapeVars
<1>20. ASSUME UNCHANGED vars
      PROVE  MissedInv'
  BY <1>20, KeepFacts
     DEF vars, history, IInv, MissedInv, Sessions, scrapeVars
<1>21. QED
  BY <1>1, <1>2, <1>3, <1>4, <1>5, <1>6, <1>7, <1>8, <1>9, <1>10, <1>11, <1>12,
     <1>13, <1>14, <1>15, <1>16, <1>17, <1>18, <1>19, <1>20
     DEF Next, Scrape, Audit, Report, Request, Maintenance

\* A scrape settles the flags of what it saw undisturbed.
LEMMA SettleStep ==
    ASSUME TypeOK, TypeOK', IInv, [Next]_vars
    PROVE  SettleInv'
<1>1. ASSUME NEW seen \in SUBSET Channels, NEW url \in [seen -> Urls],
         NEW out \in SUBSET MissingActive(seen), ScrapeLoad(seen, url, out)
      PROVE  SettleInv'
  <2>1. ASSUME NEW c \in seen
        PROVE  LET after == Merge(row[c], writes'["scraper"][c])
               IN  Flagged(after) => after.active = 0
    <3>1. c \in Channels /\ row[c] \in Row /\ url[c] \in Urls
      BY DEF TypeOK
    <3>2. CASE c \in present
      <4>1. writes'["scraper"][c] = Diff(row[c], SeenRow(row[c], url[c]))
        BY <1>1, <3>1, <3>2, OpenSession DEF ScrapeLoad, ScrapedRow, Sessions
      <4>2. Merge(row[c], writes'["scraper"][c]) = SeenRow(row[c], url[c])
        BY <3>1, <4>1, MergeDiff, EditTypes
      <4>3. Flagged(SeenRow(row[c], url[c])) => SeenRow(row[c], url[c]).active = 0
        BY DEF SeenRow, Edit, Flagged
      <4>4. QED
        BY <4>2, <4>3
    <3>3. CASE c \notin present
      <4>1. writes'["scraper"][c] = NewRow(url[c])
        BY <1>1, <3>1, <3>3, OpenSession DEF ScrapeLoad, Sessions
      <4>2. writes'["scraper"][c].reason = "none"
        BY <4>1 DEF NewRow
      <4>3. QED
        BY <4>2, MergeColumns, KeepFacts DEF Column, Flagged, Reasons
    <3>4. QED
      BY <3>2, <3>3
  <2>2. row' = row /\ lineup' = seen
    BY <1>1 DEF ScrapeLoad
  <2>3. QED
    BY <2>1, <2>2 DEF SettleInv
<1>2. ASSUME ScrapeCommit
      PROVE  SettleInv'
  BY <1>2, CloseSession
     DEF ScrapeCommit, SettleInv, Sessions
<1>3. ASSUME NEW j \in {"audit", "auditAll"}, StartAudit(j, AuditScope(j))
      PROVE  SettleInv'
  BY <1>3, OpenSession
     DEF StartAudit, SettleInv, Sessions
<1>4. ASSUME NEW scope \in SUBSET present, StartAudit("recheck", scope)
      PROVE  SettleInv'
  BY <1>4, OpenSession
     DEF StartAudit, SettleInv, Sessions
<1>5. ASSUME NEW c \in Channels, NEW v \in {"Dead", "DRM", "live", "unknown"},
         AuditChannel(c, v)
      PROVE  SettleInv'
  BY <1>5, KeepFacts
     DEF AuditChannel, Audits, SettleInv
<1>6. ASSUME AuditCheckpoint
      PROVE  SettleInv'
  BY <1>6, KeepFacts
     DEF AuditCheckpoint, Audits, IInv, AuditInv, SettleInv
<1>7. ASSUME FinishAudit
      PROVE  SettleInv'
  BY <1>7, CloseSession
     DEF FinishAudit, SettleInv, Sessions
<1>8. ASSUME NEW c \in Channels, NEW reason \in {"Dead", "DRM"}, AutoDisable(c, reason)
      PROVE  SettleInv'
  <2>1. /\ job'["scraper"] = job["scraper"] /\ writes'["scraper"] = writes["scraper"]
        /\ row' = row /\ lineup' = lineup /\ disturbed' = disturbed
    BY <1>8, OpenSession DEF AutoDisable, scrapeVars, history, Sessions
  <2>2. QED
    BY <2>1, ScrapeLeftAlone
<1>9. ASSUME CommitAutoDisable
      PROVE  SettleInv'
  <2>1. /\ job'["scraper"] = job["scraper"] /\ writes'["scraper"] = writes["scraper"]
        /\ lineup' = lineup
    BY <1>9, CloseSession DEF CommitAutoDisable, scrapeVars, Sessions
  <2>2. job["scraper"] = "scrape" => disturbed' = disturbed \union Touched("fast")
    BY <1>9 DEF CommitAutoDisable, Disturb
  <2>3. \A c \in Channels \ Touched("fast") : row'[c] = row[c]
    BY <1>9, FlushRows DEF CommitAutoDisable, Sessions
  <2>4. QED
    BY <2>1, <2>2, <2>3, ScrapeLeftAlone DEF TypeOK
<1>10. ASSUME RetryAutoDisable
      PROVE  SettleInv'
  <2>1. /\ job'["scraper"] = job["scraper"] /\ writes'["scraper"] = writes["scraper"]
        /\ row' = row /\ lineup' = lineup /\ disturbed' = disturbed
    BY <1>10, CloseSession DEF RetryAutoDisable, scrapeVars, history, Sessions
  <2>2. QED
    BY <2>1, ScrapeLeftAlone
<1>11. ASSUME NEW c \in Channels, Reenable(c)
      PROVE  SettleInv'
  <2>1. /\ job'["scraper"] = job["scraper"] /\ writes'["scraper"] = writes["scraper"]
        /\ row' = row /\ lineup' = lineup /\ disturbed' = disturbed
    BY <1>11, OpenSession DEF Reenable, Patch, scrapeVars, history, Sessions
  <2>2. QED
    BY <2>1, ScrapeLeftAlone
<1>12. ASSUME NEW c \in Channels, NEW on \in 0..1, Toggle(c, on)
      PROVE  SettleInv'
  <2>1. /\ job'["scraper"] = job["scraper"] /\ writes'["scraper"] = writes["scraper"]
        /\ row' = row /\ lineup' = lineup /\ disturbed' = disturbed
    BY <1>12, OpenSession DEF Toggle, Patch, scrapeVars, history, Sessions
  <2>2. QED
    BY <2>1, ScrapeLeftAlone
<1>13. ASSUME NEW group \in SUBSET Channels, NEW winner \in group,
         ResolveDuplicates(group, winner)
      PROVE  SettleInv'
  <2>1. /\ job'["scraper"] = job["scraper"] /\ writes'["scraper"] = writes["scraper"]
        /\ row' = row /\ lineup' = lineup /\ disturbed' = disturbed
    BY <1>13, OpenSession DEF ResolveDuplicates, scrapeVars, history, Sessions
  <2>2. QED
    BY <2>1, ScrapeLeftAlone
<1>14. ASSUME CommitWeb
      PROVE  SettleInv'
  <2>1. /\ job'["scraper"] = job["scraper"] /\ writes'["scraper"] = writes["scraper"]
        /\ lineup' = lineup
    BY <1>14, CloseSession DEF CommitWeb, scrapeVars, Sessions
  <2>2. job["scraper"] = "scrape" => disturbed' = disturbed \union Touched("web")
    BY <1>14 DEF CommitWeb, Disturb
  <2>3. \A c \in Channels \ Touched("web") : row'[c] = row[c]
    BY <1>14, FlushRows DEF CommitWeb, Sessions
  <2>4. QED
    BY <2>1, <2>2, <2>3, ScrapeLeftAlone DEF TypeOK
<1>15. ASSUME NEW orphans \in SUBSET present, SelectOrphans(orphans)
      PROVE  SettleInv'
  <2>1. /\ job'["scraper"] = job["scraper"] /\ writes'["scraper"] = writes["scraper"]
        /\ row' = row /\ lineup' = lineup /\ disturbed' = disturbed
    BY <1>15, OpenSession DEF SelectOrphans, scrapeVars, history, Sessions
  <2>2. QED
    BY <2>1, ScrapeLeftAlone
<1>16. ASSUME DeleteOrphans
      PROVE  SettleInv'
  <2>1. /\ job'["scraper"] = job["scraper"] /\ writes'["scraper"] = writes["scraper"]
        /\ lineup' = lineup
    BY <1>16, CloseSession DEF DeleteOrphans, scrapeVars, Sessions
  <2>2. job["scraper"] = "scrape" => disturbed' = disturbed \union doomed
    BY <1>16 DEF DeleteOrphans, Delete, Disturb
  <2>3. \A c \in Channels \ doomed : row'[c] = row[c]
    BY <1>16 DEF DeleteOrphans, Delete
  <2>4. QED
    BY <2>1, <2>2, <2>3, ScrapeLeftAlone DEF TypeOK
<1>17. ASSUME NEW ids \in SUBSET Channels, NEW on \in 0..1, BulkUpdate(ids, on)
      PROVE  SettleInv'
  <2>1. /\ job'["scraper"] = job["scraper"] /\ writes'["scraper"] = writes["scraper"]
        /\ lineup' = lineup
    BY <1>17 DEF BulkUpdate, scrapeVars
  <2>2. job["scraper"] = "scrape" => disturbed' = disturbed \union ids
    BY <1>17 DEF BulkUpdate, Disturb
  <2>3. \A c \in Channels \ ids : row'[c] = row[c]
    BY <1>17 DEF BulkUpdate
  <2>4. QED
    BY <2>1, <2>2, <2>3, ScrapeLeftAlone DEF TypeOK
<1>18. ASSUME Purge
      PROVE  SettleInv'
  <2>1. /\ job'["scraper"] = job["scraper"] /\ writes'["scraper"] = writes["scraper"]
        /\ lineup' = lineup
    BY <1>18 DEF Purge, scrapeVars
  <2>2. job["scraper"] = "scrape" => disturbed' = disturbed \union present
    BY <1>18 DEF Purge, Delete, Disturb
  <2>3. \A c \in Channels \ present : row'[c] = row[c]
    BY <1>18 DEF Purge, Delete
  <2>4. QED
    BY <2>1, <2>2, <2>3, ScrapeLeftAlone DEF TypeOK
<1>19. ASSUME NEW s \in Sessions, Abort(s)
      PROVE  SettleInv'
  <2>1. CASE s = "scraper"
    BY <1>19, <2>1, CloseSession DEF Abort, SettleInv
  <2>2. CASE s # "scraper"
    <3>1. /\ job'["scraper"] = job["scraper"] /\ writes'["scraper"] = writes["scraper"]
          /\ row' = row /\ lineup' = lineup /\ disturbed' = disturbed
      BY <1>19, <2>2, CloseSession DEF Abort, Sessions
    <3>2. QED
      BY <3>1, ScrapeLeftAlone
  <2>3. QED
    BY <2>1, <2>2
<1>20. ASSUME UNCHANGED vars
      PROVE  SettleInv'
  BY <1>20, ScrapeLeftAlone
     DEF vars, scrapeVars, history
<1>21. QED
  BY <1>1, <1>2, <1>3, <1>4, <1>5, <1>6, <1>7, <1>8, <1>9, <1>10, <1>11, <1>12,
     <1>13, <1>14, <1>15, <1>16, <1>17, <1>18, <1>19, <1>20
     DEF Next, Scrape, Audit, Report, Request, Maintenance

\* Other sessions leave alone what an undisturbed scrape makes of the rows.
LEMMA PlanLeftAlone ==
    ASSUME IInv,
           job'["scraper"] = job["scraper"], writes'["scraper"] = writes["scraper"],
           lineup' = lineup, removed' = removed,
           job["scraper"] = "scrape" /\ disturbed' = {} =>
               disturbed = {} /\ row' = row /\ present' = present
    PROVE  PlanInv'
<1>1. SUFFICES ASSUME job["scraper"] = "scrape", disturbed' = {}
               PROVE  PlanInv'
  BY DEF PlanInv
<1>2. disturbed = {} /\ row' = row /\ present' = present
  BY <1>1
<1>3. PICK url \in [lineup -> Urls] : \A c \in present :
          Merge(row[c], writes["scraper"][c]) = ScrapedRow(c, lineup, url, removed)
  BY <1>1, <1>2 DEF IInv, PlanInv
<1>4. \A c \in present' : Merge(row'[c], writes'["scraper"][c])
                             = ScrapedRow(c, lineup, url, removed)'
  BY <1>2, <1>3 DEF ScrapedRow, Collapse, ActiveAfter, MissingActive
<1>5. (removed \subseteq MissingActive(lineup))'
  BY <1>1, <1>2 DEF IInv, PlanInv, MissingActive
<1>6. QED
  BY <1>4, <1>5 DEF PlanInv

\* Whoever writes rows a scrape has read disturbs it.
LEMMA PlanStep ==
    ASSUME TypeOK, TypeOK', IInv, [Next]_vars
    PROVE  PlanInv'
<1>1. ASSUME NEW seen \in SUBSET Channels, NEW url \in [seen -> Urls],
         NEW out \in SUBSET MissingActive(seen), ScrapeLoad(seen, url, out)
      PROVE  PlanInv'
  <2>1. /\ row' = row /\ present' = present /\ lineup' = seen /\ removed' = out
        /\ present \subseteq Channels /\ out \subseteq MissingActive(seen)
    BY <1>1 DEF ScrapeLoad, TypeOK
  <2>2. ASSUME NEW c \in present
        PROVE  Merge(row[c], writes'["scraper"][c]) = ScrapedRow(c, seen, url, out)
    <3>1. writes'["scraper"][c] = Diff(row[c], ScrapedRow(c, seen, url, out))
      BY <1>1, <2>1, OpenSession DEF ScrapeLoad, Sessions
    <3>2. row[c] \in Row /\ ScrapedRow(c, seen, url, out) \in Row
      BY <2>1, EditTypes DEF TypeOK, ScrapedRow
    <3>3. QED
      BY <3>1, <3>2, MergeDiff
  <2>3. removed' \subseteq MissingActive(lineup)'
    BY <2>1 DEF MissingActive
  <2>4. \A c \in present' : Merge(row'[c], writes'["scraper"][c])
                               = ScrapedRow(c, lineup, url, removed)'
    BY <2>1, <2>2 DEF ScrapedRow, Collapse, ActiveAfter, MissingActive
  <2>5. QED
    BY <2>1, <2>3, <2>4 DEF PlanInv
<1>2. ASSUME ScrapeCommit
      PROVE  PlanInv'
  BY <1>2, CloseSession
     DEF ScrapeCommit, PlanInv, Sessions
<1>3. ASSUME NEW j \in {"audit", "auditAll"}, StartAudit(j, AuditScope(j))
      PROVE  PlanInv'
  BY <1>3, OpenSession
     DEF StartAudit, PlanInv, Sessions
<1>4. ASSUME NEW scope \in SUBSET present, StartAudit("recheck", scope)
      PROVE  PlanInv'
  BY <1>4, OpenSession
     DEF StartAudit, PlanInv, Sessions
<1>5. ASSUME NEW c \in Channels, NEW v \in {"Dead", "DRM", "live", "unknown"},
         AuditChannel(c, v)
      PROVE  PlanInv'
  BY <1>5, KeepFacts
     DEF AuditChannel, Audits, PlanInv
<1>6. ASSUME AuditCheckpoint
      PROVE  PlanInv'
  BY <1>6, KeepFacts
     DEF AuditCheckpoint, Audits, IInv, AuditInv, PlanInv
<1>7. ASSUME FinishAudit
      PROVE  PlanInv'
  BY <1>7, CloseSession
     DEF FinishAudit, PlanInv, Sessions
<1>8. ASSUME NEW c \in Channels, NEW reason \in {"Dead", "DRM"}, AutoDisable(c, reason)
      PROVE  PlanInv'
  <2>1. /\ job'["scraper"] = job["scraper"] /\ writes'["scraper"] = writes["scraper"]
        /\ row' = row /\ present' = present /\ lineup' = lineup
        /\ removed' = removed /\ disturbed' = disturbed
    BY <1>8, OpenSession DEF AutoDisable, scrapeVars, history, Sessions
  <2>2. QED
    BY <2>1, PlanLeftAlone
<1>9. ASSUME CommitAutoDisable
      PROVE  PlanInv'
  <2>1. /\ job'["scraper"] = job["scraper"] /\ writes'["scraper"] = writes["scraper"]
        /\ lineup' = lineup /\ removed' = removed
    BY <1>9, CloseSession DEF CommitAutoDisable, scrapeVars, Sessions
  <2>2. job["scraper"] = "scrape" => disturbed' = disturbed \union Touched("fast")
    BY <1>9 DEF CommitAutoDisable, Disturb
  <2>3. Touched("fast") = {} => row' = row /\ present' = present
    <3>1. \A c \in Channels \ Touched("fast") : row'[c] = row[c]
      BY <1>9, FlushRows DEF CommitAutoDisable, Sessions
    <3>2. Touched("fast") = {} => present' = present
      BY <1>9, FlushRows DEF CommitAutoDisable, Sessions
    <3>3. QED
      BY <3>1, <3>2 DEF TypeOK
  <2>4. QED
    BY <2>1, <2>2, <2>3, PlanLeftAlone
<1>10. ASSUME RetryAutoDisable
      PROVE  PlanInv'
  <2>1. /\ job'["scraper"] = job["scraper"] /\ writes'["scraper"] = writes["scraper"]
        /\ row' = row /\ present' = present /\ lineup' = lineup
        /\ removed' = removed /\ disturbed' = disturbed
    BY <1>10, CloseSession DEF RetryAutoDisable, scrapeVars, history, Sessions
  <2>2. QED
    BY <2>1, PlanLeftAlone
<1>11. ASSUME NEW c \in Channels, Reenable(c)
      PROVE  PlanInv'
  <2>1. /\ job'["scraper"] = job["scraper"] /\ writes'["scraper"] = writes["scraper"]
        /\ row' = row /\ present' = present /\ lineup' = lineup
        /\ removed' = removed /\ disturbed' = disturbed
    BY <1>11, OpenSession DEF Reenable, Patch, scrapeVars, history, Sessions
  <2>2. QED
    BY <2>1, PlanLeftAlone
<1>12. ASSUME NEW c \in Channels, NEW on \in 0..1, Toggle(c, on)
      PROVE  PlanInv'
  <2>1. /\ job'["scraper"] = job["scraper"] /\ writes'["scraper"] = writes["scraper"]
        /\ row' = row /\ present' = present /\ lineup' = lineup
        /\ removed' = removed /\ disturbed' = disturbed
    BY <1>12, OpenSession DEF Toggle, Patch, scrapeVars, history, Sessions
  <2>2. QED
    BY <2>1, PlanLeftAlone
<1>13. ASSUME NEW group \in SUBSET Channels, NEW winner \in group,
         ResolveDuplicates(group, winner)
      PROVE  PlanInv'
  <2>1. /\ job'["scraper"] = job["scraper"] /\ writes'["scraper"] = writes["scraper"]
        /\ row' = row /\ present' = present /\ lineup' = lineup
        /\ removed' = removed /\ disturbed' = disturbed
    BY <1>13, OpenSession DEF ResolveDuplicates, scrapeVars, history, Sessions
  <2>2. QED
    BY <2>1, PlanLeftAlone
<1>14. ASSUME CommitWeb
      PROVE  PlanInv'
  <2>1. /\ job'["scraper"] = job["scraper"] /\ writes'["scraper"] = writes["scraper"]
        /\ lineup' = lineup /\ removed' = removed
    BY <1>14, CloseSession DEF CommitWeb, scrapeVars, Sessions
  <2>2. job["scraper"] = "scrape" => disturbed' = disturbed \union Touched("web")
    BY <1>14 DEF CommitWeb, Disturb
  <2>3. Touched("web") = {} => row' = row /\ present' = present
    <3>1. \A c \in Channels \ Touched("web") : row'[c] = row[c]
      BY <1>14, FlushRows DEF CommitWeb, Sessions
    <3>2. Touched("web") = {} => present' = present
      BY <1>14, FlushRows DEF CommitWeb, Sessions
    <3>3. QED
      BY <3>1, <3>2 DEF TypeOK
  <2>4. QED
    BY <2>1, <2>2, <2>3, PlanLeftAlone
<1>15. ASSUME NEW orphans \in SUBSET present, SelectOrphans(orphans)
      PROVE  PlanInv'
  <2>1. /\ job'["scraper"] = job["scraper"] /\ writes'["scraper"] = writes["scraper"]
        /\ row' = row /\ present' = present /\ lineup' = lineup
        /\ removed' = removed /\ disturbed' = disturbed
    BY <1>15, OpenSession DEF SelectOrphans, scrapeVars, history, Sessions
  <2>2. QED
    BY <2>1, PlanLeftAlone
<1>16. ASSUME DeleteOrphans
      PROVE  PlanInv'
  <2>1. /\ job'["scraper"] = job["scraper"] /\ writes'["scraper"] = writes["scraper"]
        /\ lineup' = lineup /\ removed' = removed
    BY <1>16, CloseSession DEF DeleteOrphans, scrapeVars, Sessions
  <2>2. job["scraper"] = "scrape" => disturbed' = disturbed \union doomed
    BY <1>16 DEF DeleteOrphans, Delete, Disturb
  <2>3. doomed = {} => row' = row /\ present' = present
    <3>1. \A c \in Channels \ doomed : row'[c] = row[c]
      BY <1>16 DEF DeleteOrphans, Delete
    <3>2. doomed = {} => present' = present
      BY <1>16 DEF DeleteOrphans, Delete
    <3>3. QED
      BY <3>1, <3>2 DEF TypeOK
  <2>4. QED
    BY <2>1, <2>2, <2>3, PlanLeftAlone
<1>17. ASSUME NEW ids \in SUBSET Channels, NEW on \in 0..1, BulkUpdate(ids, on)
      PROVE  PlanInv'
  <2>1. /\ job'["scraper"] = job["scraper"] /\ writes'["scraper"] = writes["scraper"]
        /\ lineup' = lineup /\ removed' = removed
    BY <1>17 DEF BulkUpdate, scrapeVars
  <2>2. job["scraper"] = "scrape" => disturbed' = disturbed \union ids
    BY <1>17 DEF BulkUpdate, Disturb
  <2>3. ids = {} => row' = row /\ present' = present
    <3>1. \A c \in Channels \ ids : row'[c] = row[c]
      BY <1>17 DEF BulkUpdate
    <3>2. ids = {} => present' = present
      BY <1>17 DEF BulkUpdate
    <3>3. QED
      BY <3>1, <3>2 DEF TypeOK
  <2>4. QED
    BY <2>1, <2>2, <2>3, PlanLeftAlone
<1>18. ASSUME Purge
      PROVE  PlanInv'
  <2>1. /\ job'["scraper"] = job["scraper"] /\ writes'["scraper"] = writes["scraper"]
        /\ lineup' = lineup /\ removed' = removed
    BY <1>18 DEF Purge, scrapeVars
  <2>2. job["scraper"] = "scrape" => disturbed' = disturbed \union present
    BY <1>18 DEF Purge, Delete, Disturb
  <2>3. present = {} => row' = row /\ present' = present
    <3>1. \A c \in Channels \ present : row'[c] = row[c]
      BY <1>18 DEF Purge, Delete
    <3>2. present = {} => present' = present
      BY <1>18 DEF Purge, Delete
    <3>3. QED
      BY <3>1, <3>2 DEF TypeOK
  <2>4. QED
    BY <2>1, <2>2, <2>3, PlanLeftAlone
<1>19. ASSUME NEW s \in Sessions, Abort(s)
      PROVE  PlanInv'
  <2>1. CASE s = "scraper"
    BY <1>19, <2>1, CloseSession DEF Abort, PlanInv
  <2>2. CASE s # "scraper"
    <3>1. /\ job'["scraper"] = job["scraper"] /\ writes'["scraper"] = writes["scraper"]
          /\ row' = row /\ present' = present /\ lineup' = lineup
        /\ removed' = removed /\ disturbed' = disturbed
      BY <1>19, <2>2, CloseSession DEF Abort, Sessions
    <3>2. QED
      BY <3>1, PlanLeftAlone
  <2>3. QED
    BY <2>1, <2>2
<1>20. ASSUME UNCHANGED vars
      PROVE  PlanInv'
  BY <1>20, PlanLeftAlone
     DEF vars, scrapeVars, history
<1>21. QED
  BY <1>1, <1>2, <1>3, <1>4, <1>5, <1>6, <1>7, <1>8, <1>9, <1>10, <1>11, <1>12,
     <1>13, <1>14, <1>15, <1>16, <1>17, <1>18, <1>19, <1>20
     DEF Next, Scrape, Audit, Report, Request, Maintenance

\* Only a running audit is due a commit.
LEMMA AuditStep ==
    ASSUME TypeOK, TypeOK', IInv, [Next]_vars
    PROVE  AuditInv'
<1>1. ASSUME NEW seen \in SUBSET Channels, NEW url \in [seen -> Urls],
         NEW out \in SUBSET MissingActive(seen), ScrapeLoad(seen, url, out)
      PROVE  AuditInv'
  BY <1>1, OpenSession
     DEF ScrapeLoad, Audits, IInv, AuditInv, Sessions, scrapeVars
<1>2. ASSUME ScrapeCommit
      PROVE  AuditInv'
  BY <1>2, CloseSession
     DEF ScrapeCommit, Audits, IInv, AuditInv, Sessions, scrapeVars
<1>3. ASSUME NEW j \in {"audit", "auditAll"}, StartAudit(j, AuditScope(j))
      PROVE  AuditInv'
  BY <1>3, OpenSession
     DEF StartAudit, IInv, AuditInv, Sessions, scrapeVars
<1>4. ASSUME NEW scope \in SUBSET present, StartAudit("recheck", scope)
      PROVE  AuditInv'
  BY <1>4, OpenSession
     DEF StartAudit, IInv, AuditInv, Sessions, scrapeVars
<1>5. ASSUME NEW c \in Channels, NEW v \in {"Dead", "DRM", "live", "unknown"},
         AuditChannel(c, v)
      PROVE  AuditInv'
  BY <1>5, KeepFacts
     DEF AuditChannel, IInv, AuditInv, Sessions, scrapeVars
<1>6. ASSUME AuditCheckpoint
      PROVE  AuditInv'
  BY <1>6, KeepFacts
     DEF AuditCheckpoint, NoAudit, IInv, AuditInv, Sessions, scrapeVars
<1>7. ASSUME FinishAudit
      PROVE  AuditInv'
  BY <1>7, KeepFacts
     DEF FinishAudit, NoAudit, IInv, AuditInv, Sessions, scrapeVars
<1>8. ASSUME NEW c \in Channels, NEW reason \in {"Dead", "DRM"}, AutoDisable(c, reason)
      PROVE  AuditInv'
  BY <1>8, OpenSession
     DEF AutoDisable, IInv, AuditInv, Sessions, scrapeVars
<1>9. ASSUME CommitAutoDisable
      PROVE  AuditInv'
  BY <1>9, CloseSession
     DEF CommitAutoDisable, IInv, AuditInv, Sessions, scrapeVars
<1>10. ASSUME RetryAutoDisable
      PROVE  AuditInv'
  BY <1>10, CloseSession
     DEF RetryAutoDisable, IInv, AuditInv, Sessions, scrapeVars
<1>11. ASSUME NEW c \in Channels, Reenable(c)
      PROVE  AuditInv'
  BY <1>11, OpenSession
     DEF Reenable, Patch, IInv, AuditInv, Sessions, scrapeVars
<1>12. ASSUME NEW c \in Channels, NEW on \in 0..1, Toggle(c, on)
      PROVE  AuditInv'
  BY <1>12, OpenSession
     DEF Toggle, Patch, IInv, AuditInv, Sessions, scrapeVars
<1>13. ASSUME NEW group \in SUBSET Channels, NEW winner \in group,
         ResolveDuplicates(group, winner)
      PROVE  AuditInv'
  BY <1>13, OpenSession
     DEF ResolveDuplicates, IInv, AuditInv, Sessions, scrapeVars
<1>14. ASSUME CommitWeb
      PROVE  AuditInv'
  BY <1>14, CloseSession
     DEF CommitWeb, IInv, AuditInv, Sessions, scrapeVars
<1>15. ASSUME NEW orphans \in SUBSET present, SelectOrphans(orphans)
      PROVE  AuditInv'
  BY <1>15, OpenSession
     DEF SelectOrphans, IInv, AuditInv, Sessions, scrapeVars
<1>16. ASSUME DeleteOrphans
      PROVE  AuditInv'
  BY <1>16, CloseSession
     DEF DeleteOrphans, IInv, AuditInv, Sessions, scrapeVars
<1>17. ASSUME NEW ids \in SUBSET Channels, NEW on \in 0..1, BulkUpdate(ids, on)
      PROVE  AuditInv'
  BY <1>17, KeepFacts
     DEF BulkUpdate, IInv, AuditInv, Sessions, scrapeVars
<1>18. ASSUME Purge
      PROVE  AuditInv'
  BY <1>18, KeepFacts
     DEF Purge, IInv, AuditInv, Sessions, scrapeVars
<1>19. ASSUME NEW s \in Sessions, Abort(s)
      PROVE  AuditInv'
  BY <1>19, CloseSession
     DEF Abort, NoAudit, IInv, AuditInv, Sessions, scrapeVars
<1>20. ASSUME UNCHANGED vars
      PROVE  AuditInv'
  BY <1>20, KeepFacts
     DEF vars, IInv, AuditInv, Sessions, scrapeVars
<1>21. QED
  BY <1>1, <1>2, <1>3, <1>4, <1>5, <1>6, <1>7, <1>8, <1>9, <1>10, <1>11, <1>12,
     <1>13, <1>14, <1>15, <1>16, <1>17, <1>18, <1>19, <1>20
     DEF Next, Scrape, Audit, Report, Request, Maintenance

\* No step but the user's turns a channel on.
LEMMA OffStep ==
    ASSUME TypeOK, TypeOK', IInv, [Next]_vars
    PROVE  \A ch \in present \intersect present' :
             row[ch].enabled = 0 /\ row'[ch].enabled = 1 => UserStep
<1>1. ASSUME NEW seen \in SUBSET Channels, NEW url \in [seen -> Urls],
         NEW out \in SUBSET MissingActive(seen), ScrapeLoad(seen, url, out)
      PROVE  \A ch \in present \intersect present' :
             row[ch].enabled = 0 /\ row'[ch].enabled = 1 => UserStep
  BY <1>1 DEF ScrapeLoad
<1>2. ASSUME ScrapeCommit
      PROVE  \A ch \in present \intersect present' :
             row[ch].enabled = 0 /\ row'[ch].enabled = 1 => UserStep
  <2>1. \A c \in present : writes["scraper"][c].enabled # 1
    BY <1>2 DEF ScrapeCommit, LoadInv, TypeOK, IInv, EnabledInv
  <2>2. \A c \in Channels : row'[c] = Merge(row[c], writes["scraper"][c])
    BY <1>2, FlushRows DEF ScrapeCommit, Sessions
  <2>3. \A c \in present : row'[c].enabled = 1 => row[c].enabled = 1
    <3>1. present \subseteq Channels
      BY DEF TypeOK
    <3>2. QED
      BY <2>1, <2>2, <3>1, MergeColumns DEF Column
  <2>4. QED
    BY <2>3
<1>3. ASSUME NEW j \in {"audit", "auditAll"}, StartAudit(j, AuditScope(j))
      PROVE  \A ch \in present \intersect present' :
             row[ch].enabled = 0 /\ row'[ch].enabled = 1 => UserStep
  BY <1>3 DEF StartAudit
<1>4. ASSUME NEW scope \in SUBSET present, StartAudit("recheck", scope)
      PROVE  \A ch \in present \intersect present' :
             row[ch].enabled = 0 /\ row'[ch].enabled = 1 => UserStep
  BY <1>4 DEF StartAudit
<1>5. ASSUME NEW c \in Channels, NEW v \in {"Dead", "DRM", "live", "unknown"},
         AuditChannel(c, v)
      PROVE  \A ch \in present \intersect present' :
             row[ch].enabled = 0 /\ row'[ch].enabled = 1 => UserStep
  BY <1>5 DEF AuditChannel
<1>6. ASSUME AuditCheckpoint
      PROVE  \A ch \in present \intersect present' :
             row[ch].enabled = 0 /\ row'[ch].enabled = 1 => UserStep
  <2>1. \A c \in present : writes["scraper"][c].enabled # 1
    BY <1>6 DEF AuditCheckpoint, Audits, AuditInv, TypeOK, IInv, EnabledInv
  <2>2. \A c \in Channels : row'[c] = Merge(row[c], writes["scraper"][c])
    BY <1>6, FlushRows DEF AuditCheckpoint, Sessions
  <2>3. \A c \in present : row'[c].enabled = 1 => row[c].enabled = 1
    <3>1. present \subseteq Channels
      BY DEF TypeOK
    <3>2. QED
      BY <2>1, <2>2, <3>1, MergeColumns DEF Column
  <2>4. QED
    BY <2>3
<1>7. ASSUME FinishAudit
      PROVE  \A ch \in present \intersect present' :
             row[ch].enabled = 0 /\ row'[ch].enabled = 1 => UserStep
  <2>1. \A c \in present : writes["scraper"][c].enabled # 1
    BY <1>7 DEF FinishAudit, Audits, TypeOK, IInv, EnabledInv
  <2>2. \A c \in Channels : row'[c] = Merge(row[c], writes["scraper"][c])
    BY <1>7, FlushRows DEF FinishAudit, Sessions
  <2>3. \A c \in present : row'[c].enabled = 1 => row[c].enabled = 1
    <3>1. present \subseteq Channels
      BY DEF TypeOK
    <3>2. QED
      BY <2>1, <2>2, <3>1, MergeColumns DEF Column
  <2>4. QED
    BY <2>3
<1>8. ASSUME NEW c \in Channels, NEW reason \in {"Dead", "DRM"}, AutoDisable(c, reason)
      PROVE  \A ch \in present \intersect present' :
             row[ch].enabled = 0 /\ row'[ch].enabled = 1 => UserStep
  BY <1>8 DEF AutoDisable
<1>9. ASSUME CommitAutoDisable
      PROVE  \A ch \in present \intersect present' :
             row[ch].enabled = 0 /\ row'[ch].enabled = 1 => UserStep
  <2>1. \A c \in present : writes["fast"][c].enabled # 1
    BY <1>9 DEF CommitAutoDisable, TypeOK, IInv, EnabledInv
  <2>2. \A c \in Channels : row'[c] = Merge(row[c], writes["fast"][c])
    BY <1>9, FlushRows DEF CommitAutoDisable, Sessions
  <2>3. \A c \in present : row'[c].enabled = 1 => row[c].enabled = 1
    <3>1. present \subseteq Channels
      BY DEF TypeOK
    <3>2. QED
      BY <2>1, <2>2, <3>1, MergeColumns DEF Column
  <2>4. QED
    BY <2>3
<1>10. ASSUME RetryAutoDisable
      PROVE  \A ch \in present \intersect present' :
             row[ch].enabled = 0 /\ row'[ch].enabled = 1 => UserStep
  BY <1>10 DEF RetryAutoDisable
<1>11. ASSUME NEW c \in Channels, Reenable(c)
      PROVE  \A ch \in present \intersect present' :
             row[ch].enabled = 0 /\ row'[ch].enabled = 1 => UserStep
  BY <1>11 DEF Reenable, Patch
<1>12. ASSUME NEW c \in Channels, NEW on \in 0..1, Toggle(c, on)
      PROVE  \A ch \in present \intersect present' :
             row[ch].enabled = 0 /\ row'[ch].enabled = 1 => UserStep
  BY <1>12 DEF Toggle, Patch
<1>13. ASSUME NEW group \in SUBSET Channels, NEW winner \in group,
         ResolveDuplicates(group, winner)
      PROVE  \A ch \in present \intersect present' :
             row[ch].enabled = 0 /\ row'[ch].enabled = 1 => UserStep
  BY <1>13 DEF ResolveDuplicates
<1>14. ASSUME CommitWeb
      PROVE  \A ch \in present \intersect present' :
             row[ch].enabled = 0 /\ row'[ch].enabled = 1 => UserStep
  BY <1>14, CloseSession
     DEF CommitWeb, UserStep, Sessions
<1>15. ASSUME NEW orphans \in SUBSET present, SelectOrphans(orphans)
      PROVE  \A ch \in present \intersect present' :
             row[ch].enabled = 0 /\ row'[ch].enabled = 1 => UserStep
  BY <1>15 DEF SelectOrphans
<1>16. ASSUME DeleteOrphans
      PROVE  \A ch \in present \intersect present' :
             row[ch].enabled = 0 /\ row'[ch].enabled = 1 => UserStep
  BY <1>16 DEF DeleteOrphans, Delete, TypeOK
<1>17. ASSUME NEW ids \in SUBSET Channels, NEW on \in 0..1, BulkUpdate(ids, on)
      PROVE  \A ch \in present \intersect present' :
             row[ch].enabled = 0 /\ row'[ch].enabled = 1 => UserStep
  BY <1>17 DEF BulkUpdate, UserStep
<1>18. ASSUME Purge
      PROVE  \A ch \in present \intersect present' :
             row[ch].enabled = 0 /\ row'[ch].enabled = 1 => UserStep
  BY <1>18 DEF Purge, UserStep
<1>19. ASSUME NEW s \in Sessions, Abort(s)
      PROVE  \A ch \in present \intersect present' :
             row[ch].enabled = 0 /\ row'[ch].enabled = 1 => UserStep
  BY <1>19 DEF Abort
<1>20. ASSUME UNCHANGED vars
      PROVE  \A ch \in present \intersect present' :
             row[ch].enabled = 0 /\ row'[ch].enabled = 1 => UserStep
  BY <1>20 DEF vars
<1>21. QED
  BY <1>1, <1>2, <1>3, <1>4, <1>5, <1>6, <1>7, <1>8, <1>9, <1>10, <1>11, <1>12,
     <1>13, <1>14, <1>15, <1>16, <1>17, <1>18, <1>19, <1>20
     DEF Next, Scrape, Audit, Report, Request, Maintenance

\* No step of others but a scrape's with a new URL lifts a flag.
LEMMA FlagsStep ==
    ASSUME TypeOK, TypeOK', IInv, [Next]_vars
    PROVE  job["scraper"] = "scrape" =>
             \A ch \in present \intersect present' :
                 (Flagged(row[ch]) /\ ~Flagged(row'[ch]) /\ row'[ch].url = row[ch].url)
                     => UserStep
<1>1. ASSUME NEW seen \in SUBSET Channels, NEW url \in [seen -> Urls],
         NEW out \in SUBSET MissingActive(seen), ScrapeLoad(seen, url, out)
      PROVE  job["scraper"] = "scrape" =>
             \A ch \in present \intersect present' :
                 (Flagged(row[ch]) /\ ~Flagged(row'[ch]) /\ row'[ch].url = row[ch].url)
                     => UserStep
  BY <1>1 DEF ScrapeLoad
<1>2. ASSUME ScrapeCommit
      PROVE  job["scraper"] = "scrape" =>
             \A ch \in present \intersect present' :
                 (Flagged(row[ch]) /\ ~Flagged(row'[ch]) /\ row'[ch].url = row[ch].url)
                     => UserStep
  <2>1. \A c \in Channels : row'[c] = Merge(row[c], writes["scraper"][c])
    BY <1>2 DEF ScrapeCommit
  <2>2. \A c \in present : writes["scraper"][c].reason # Keep =>
           writes["scraper"][c].url \notin {Keep, row[c].url}
    BY <1>2 DEF ScrapeCommit, IInv, FlagInv
  <2>3. \A c \in present :
           Flagged(row[c]) /\ ~Flagged(row'[c]) => row'[c].url # row[c].url
    <3>1. present \subseteq Channels
      BY DEF TypeOK
    <3>2. \A c \in present :
             Flagged(row[c]) /\ ~Flagged(row'[c]) => writes["scraper"][c].reason # Keep
      BY <2>1, <3>1, MergeColumns DEF Column, Flagged
    <3>3. QED
      BY <2>1, <2>2, <3>1, <3>2, MergeColumns DEF Column
  <2>4. QED
    BY <2>3
<1>3. ASSUME NEW j \in {"audit", "auditAll"}, StartAudit(j, AuditScope(j))
      PROVE  job["scraper"] = "scrape" =>
             \A ch \in present \intersect present' :
                 (Flagged(row[ch]) /\ ~Flagged(row'[ch]) /\ row'[ch].url = row[ch].url)
                     => UserStep
  BY <1>3 DEF StartAudit
<1>4. ASSUME NEW scope \in SUBSET present, StartAudit("recheck", scope)
      PROVE  job["scraper"] = "scrape" =>
             \A ch \in present \intersect present' :
                 (Flagged(row[ch]) /\ ~Flagged(row'[ch]) /\ row'[ch].url = row[ch].url)
                     => UserStep
  BY <1>4 DEF StartAudit
<1>5. ASSUME NEW c \in Channels, NEW v \in {"Dead", "DRM", "live", "unknown"},
         AuditChannel(c, v)
      PROVE  job["scraper"] = "scrape" =>
             \A ch \in present \intersect present' :
                 (Flagged(row[ch]) /\ ~Flagged(row'[ch]) /\ row'[ch].url = row[ch].url)
                     => UserStep
  BY <1>5 DEF AuditChannel
<1>6. ASSUME AuditCheckpoint
      PROVE  job["scraper"] = "scrape" =>
             \A ch \in present \intersect present' :
                 (Flagged(row[ch]) /\ ~Flagged(row'[ch]) /\ row'[ch].url = row[ch].url)
                     => UserStep
  BY <1>6 DEF AuditCheckpoint, IInv, AuditInv, Audits
<1>7. ASSUME FinishAudit
      PROVE  job["scraper"] = "scrape" =>
             \A ch \in present \intersect present' :
                 (Flagged(row[ch]) /\ ~Flagged(row'[ch]) /\ row'[ch].url = row[ch].url)
                     => UserStep
  BY <1>7 DEF FinishAudit, Audits
<1>8. ASSUME NEW c \in Channels, NEW reason \in {"Dead", "DRM"}, AutoDisable(c, reason)
      PROVE  job["scraper"] = "scrape" =>
             \A ch \in present \intersect present' :
                 (Flagged(row[ch]) /\ ~Flagged(row'[ch]) /\ row'[ch].url = row[ch].url)
                     => UserStep
  BY <1>8 DEF AutoDisable
<1>9. ASSUME CommitAutoDisable
      PROVE  job["scraper"] = "scrape" =>
             \A ch \in present \intersect present' :
                 (Flagged(row[ch]) /\ ~Flagged(row'[ch]) /\ row'[ch].url = row[ch].url)
                     => UserStep
  <2>1. \A c \in Channels : row'[c] = Merge(row[c], writes["fast"][c])
    BY <1>9, FlushRows DEF CommitAutoDisable, Sessions
  <2>2. \A c \in Channels : writes["fast"][c].reason # "none"
    BY DEF IInv, FlagInv
  <2>3. \A c \in Channels :
            row'[c].reason = Column(row[c].reason, writes["fast"][c].reason)
    BY <2>1, MergeColumns
  <2>4. \A c \in Channels : Flagged(row[c]) => Flagged(row'[c])
    BY <2>2, <2>3 DEF Column, Flagged
  <2>5. present \subseteq Channels
    BY DEF TypeOK
  <2>6. QED
    BY <2>4, <2>5
<1>10. ASSUME RetryAutoDisable
      PROVE  job["scraper"] = "scrape" =>
             \A ch \in present \intersect present' :
                 (Flagged(row[ch]) /\ ~Flagged(row'[ch]) /\ row'[ch].url = row[ch].url)
                     => UserStep
  BY <1>10 DEF RetryAutoDisable
<1>11. ASSUME NEW c \in Channels, Reenable(c)
      PROVE  job["scraper"] = "scrape" =>
             \A ch \in present \intersect present' :
                 (Flagged(row[ch]) /\ ~Flagged(row'[ch]) /\ row'[ch].url = row[ch].url)
                     => UserStep
  BY <1>11 DEF Reenable, Patch
<1>12. ASSUME NEW c \in Channels, NEW on \in 0..1, Toggle(c, on)
      PROVE  job["scraper"] = "scrape" =>
             \A ch \in present \intersect present' :
                 (Flagged(row[ch]) /\ ~Flagged(row'[ch]) /\ row'[ch].url = row[ch].url)
                     => UserStep
  BY <1>12 DEF Toggle, Patch
<1>13. ASSUME NEW group \in SUBSET Channels, NEW winner \in group,
         ResolveDuplicates(group, winner)
      PROVE  job["scraper"] = "scrape" =>
             \A ch \in present \intersect present' :
                 (Flagged(row[ch]) /\ ~Flagged(row'[ch]) /\ row'[ch].url = row[ch].url)
                     => UserStep
  BY <1>13 DEF ResolveDuplicates
<1>14. ASSUME CommitWeb
      PROVE  job["scraper"] = "scrape" =>
             \A ch \in present \intersect present' :
                 (Flagged(row[ch]) /\ ~Flagged(row'[ch]) /\ row'[ch].url = row[ch].url)
                     => UserStep
  BY <1>14, CloseSession
     DEF CommitWeb, UserStep, Sessions
<1>15. ASSUME NEW orphans \in SUBSET present, SelectOrphans(orphans)
      PROVE  job["scraper"] = "scrape" =>
             \A ch \in present \intersect present' :
                 (Flagged(row[ch]) /\ ~Flagged(row'[ch]) /\ row'[ch].url = row[ch].url)
                     => UserStep
  BY <1>15 DEF SelectOrphans
<1>16. ASSUME DeleteOrphans
      PROVE  job["scraper"] = "scrape" =>
             \A ch \in present \intersect present' :
                 (Flagged(row[ch]) /\ ~Flagged(row'[ch]) /\ row'[ch].url = row[ch].url)
                     => UserStep
  BY <1>16 DEF DeleteOrphans, Delete, TypeOK
<1>17. ASSUME NEW ids \in SUBSET Channels, NEW on \in 0..1, BulkUpdate(ids, on)
      PROVE  job["scraper"] = "scrape" =>
             \A ch \in present \intersect present' :
                 (Flagged(row[ch]) /\ ~Flagged(row'[ch]) /\ row'[ch].url = row[ch].url)
                     => UserStep
  BY <1>17 DEF BulkUpdate, UserStep
<1>18. ASSUME Purge
      PROVE  job["scraper"] = "scrape" =>
             \A ch \in present \intersect present' :
                 (Flagged(row[ch]) /\ ~Flagged(row'[ch]) /\ row'[ch].url = row[ch].url)
                     => UserStep
  BY <1>18 DEF Purge, UserStep
<1>19. ASSUME NEW s \in Sessions, Abort(s)
      PROVE  job["scraper"] = "scrape" =>
             \A ch \in present \intersect present' :
                 (Flagged(row[ch]) /\ ~Flagged(row'[ch]) /\ row'[ch].url = row[ch].url)
                     => UserStep
  BY <1>19 DEF Abort
<1>20. ASSUME UNCHANGED vars
      PROVE  job["scraper"] = "scrape" =>
             \A ch \in present \intersect present' :
                 (Flagged(row[ch]) /\ ~Flagged(row'[ch]) /\ row'[ch].url = row[ch].url)
                     => UserStep
  BY <1>20 DEF vars
<1>21. QED
  BY <1>1, <1>2, <1>3, <1>4, <1>5, <1>6, <1>7, <1>8, <1>9, <1>10, <1>11, <1>12,
     <1>13, <1>14, <1>15, <1>16, <1>17, <1>18, <1>19, <1>20
     DEF Next, Scrape, Audit, Report, Request, Maintenance

\* What holds after any number of steps: the types and the inductive invariant.
THEOREM Inductive == Spec => []IInv
<1>1. Init => IInv
  BY KeepFacts
     DEF Init, IInv, LoadInv, EnabledInv, FlagInv, MissedInv, SettleInv, PlanInv,
         AuditInv, NoAudit, NoRow, Reasons, Sessions
<1>2. TypeOK /\ TypeOK' /\ IInv /\ [Next]_vars => IInv'
  BY LoadStep, EnabledStep, FlagStep, MissedStep, SettleStep, PlanStep, AuditStep DEF IInv
<1>3. QED
  BY <1>1, <1>2, Typing, PTL DEF Spec

\* What every reachable state of the channels and their jobs satisfies.
THEOREM Invariant == Spec => []Inv
BY Typing, Inductive, PTL DEF Inv

\* A channel that is off is turned on by the user alone: edits that scrapes,
\* audits, rechecks and reports made of a row they read before the user switched
\* it off do not mention is_enabled, or set it to 0.
THEOREM OffStays == Spec => OffStaysOff
<1>1. TypeOK /\ TypeOK' /\ IInv /\ [Next]_vars =>
         [\A c \in present \intersect present' :
             row[c].enabled = 0 /\ row'[c].enabled = 1 => UserStep]_vars
  BY OffStep
<1>2. QED
  BY <1>1, Typing, Inductive, PTL DEF Spec, OffStaysOff

\* A scrape lifts a flag only with a new stream URL, whenever the flag was set.
THEOREM FlagsOutlive == Spec => FlagsOutliveScrapes
<1>1. TypeOK /\ TypeOK' /\ IInv /\ [Next]_vars =>
         [job["scraper"] = "scrape" =>
             \A c \in present \intersect present' :
                 (Flagged(row[c]) /\ ~Flagged(row'[c]) /\ row'[c].url = row[c].url)
                     => UserStep]_vars
  BY FlagsStep
<1>2. QED
  BY <1>1, Typing, Inductive, PTL DEF Spec, FlagsOutliveScrapes

\* A scrape takes the flagged channels it saw undisturbed out of the feeds.
THEOREM FlagsSettle == Spec => ScrapesSettleFlags
<1>1. ASSUME TypeOK, IInv, ScrapeCommit, NEW c \in lineup \ disturbed, Flagged(row'[c])
      PROVE  ~Shown(row'[c])
  <2>1. row'[c] = Merge(row[c], writes["scraper"][c])
    BY <1>1 DEF ScrapeCommit, TypeOK
  <2>2. QED
    BY <1>1, <2>1 DEF ScrapeCommit, IInv, SettleInv, Shown
<1>2. TypeOK /\ IInv =>
         [ScrapeCommit =>
             \A c \in lineup \ disturbed : Flagged(row'[c]) => ~Shown(row'[c])]_vars
  BY <1>1
<1>3. QED
  BY <1>2, Typing, Inductive, PTL DEF ScrapesSettleFlags

\* A channel without a flag leaves the feeds by absence only after MissThreshold
\* scrapes in a row without it.
THEOREM DroppedLate == Spec => NotDroppedEarly
<1>1. ASSUME TypeOK, IInv, ScrapeCommit,
             NEW c \in present \ (lineup \union removed),
             row[c].active = 1, row'[c].active = 0
      PROVE  absent'[c] >= MissThreshold
  <2>1. row'[c] = Merge(row[c], writes["scraper"][c])
    BY <1>1 DEF ScrapeCommit, TypeOK
  <2>2. writes["scraper"][c].active = 0
    BY <1>1, <2>1, MergeColumns DEF Column
  <2>3. /\ writes["scraper"][c].missed # Keep
        /\ writes["scraper"][c].missed >= MissThreshold
        /\ writes["scraper"][c].missed <= absent[c] + 1
    BY <1>1, <2>2 DEF ScrapeCommit, IInv, MissedInv
  <2>4. writes["scraper"][c].missed \in Nat /\ absent[c] \in Nat
    BY <1>1, <2>3 DEF TypeOK, Update, Sessions
  <2>5. absent'[c] = absent[c] + 1
    BY <1>1 DEF ScrapeCommit, TypeOK
  <2>6. QED
    BY <2>3, <2>4, <2>5, ThresholdAssumption
<1>2. TypeOK /\ IInv =>
         [ScrapeCommit =>
             \A c \in present \ (lineup \union removed) :
                 row[c].active = 1 /\ row'[c].active = 0
                     => absent'[c] >= MissThreshold]_vars
  BY <1>1
<1>3. QED
  BY <1>2, Typing, Inductive, PTL DEF NotDroppedEarly

\* What is active once a lineup is applied, regions given up apart: the part of
\* the lineup that is, and what is missing.
LEMMA ActiveParts ==
    ASSUME TypeOK, NEW seen \in SUBSET Channels, NEW url \in [seen -> Urls],
           NEW out \in SUBSET MissingActive(seen)
    PROVE  LET seenActive == ActiveAfter(seen, url) \intersect seen
               gone == MissingActive(seen) \ out
           IN  /\ IsFiniteSet(seenActive) /\ IsFiniteSet(gone)
               /\ Cardinality(ActiveAfter(seen, url)) - Cardinality(out)
                      = Cardinality(seenActive) + Cardinality(gone)
               /\ ActiveAfter(seen, url) \ out = seenActive \union gone
<1> DEFINE after == ActiveAfter(seen, url)
           missing == MissingActive(seen)
           seenActive == after \intersect seen
           gone == missing \ out
<1>1. after \subseteq Channels /\ missing \subseteq Channels /\ missing \intersect seen = {}
  BY DEF ActiveAfter, MissingActive, TypeOK
<1>2. missing \subseteq after /\ after \ seen \subseteq missing
  BY DEF ActiveAfter, MissingActive
<1> HIDE DEF after, missing
<1>3. IsFiniteSet(after) /\ IsFiniteSet(seenActive) /\ IsFiniteSet(gone) /\ IsFiniteSet(out)
  BY <1>1, <1>2, ChannelsAssumption, FS_Subset DEF missing
<1>4. /\ after \ out = seenActive \union gone /\ seenActive \intersect gone = {}
      /\ after \intersect out = out
  BY <1>1, <1>2 DEF missing
<1>5. Cardinality(after \ out) = Cardinality(after) - Cardinality(out)
  BY <1>3, <1>4, FS_Difference
<1>6. Cardinality(seenActive \union gone) = Cardinality(seenActive) + Cardinality(gone)
  <2>1. Cardinality(seenActive \union gone)
          = Cardinality(seenActive) + Cardinality(gone) - Cardinality(seenActive \intersect gone)
    BY <1>3, FS_Union
  <2>2. /\ Cardinality(seenActive) \in Nat /\ Cardinality(gone) \in Nat
        /\ Cardinality(seenActive \intersect gone) = 0
    BY <1>3, <1>4, FS_CardinalityType, FS_EmptySet
  <2> HIDE DEF seenActive, gone
  <2>3. QED
    BY <2>1, <2>2
<1>7. QED
  BY <1>3, <1>4, <1>5, <1>6 DEF after, missing

\* The channels without a flag, regions given up apart, and what a lineup drops
\* of them
Unflagged(out) == {c \in present \ out : row[c].active = 1 /\ ~Flagged(row[c])}
Dropped(seen, url, out) ==
    {c \in Unflagged(out) : ScrapedRow(c, seen, url, out).active = 0}

\* What one lineup drops of the channels without a flag, regions given up apart,
\* if the lineup is short: nothing where the guard acts, and few where it does
\* not, since the guard also counts flagged channels as missing.
LEMMA FewDropped ==
    ASSUME TypeOK, NEW seen \in SUBSET Channels, NEW url \in [seen -> Urls],
           NEW out \in SUBSET MissingActive(seen), Cardinality(seen) < MinSeen,
           Cardinality(Unflagged(out)) >= MinActive
    PROVE  10 * Cardinality(Dropped(seen, url, out)) < 6 * Cardinality(Unflagged(out) \union seen)
<1> DEFINE before == Unflagged(out)
           dropped == Dropped(seen, url, out)
           seenActive == ActiveAfter(seen, url) \intersect seen
           gone == MissingActive(seen) \ out
           organic == Cardinality(ActiveAfter(seen, url)) - Cardinality(out)
<1>1. before \subseteq Channels /\ dropped \subseteq before
  BY DEF TypeOK, Unflagged, Dropped
<1>2. \A c \in before \intersect seen : SeenRow(row[c], url[c]).active = 1
  BY DEF SeenRow, Edit, Flagged, Unflagged
<1>3. dropped \subseteq gone
  <2>1. \A c \in dropped : c \notin seen
    BY <1>2 DEF ScrapedRow, Unflagged, Dropped
  <2>2. QED
    BY <2>1 DEF MissingActive, Unflagged, Dropped
<1>4. before \subseteq ActiveAfter(seen, url) \ out
  BY <1>2 DEF ActiveAfter, Unflagged
<1> HIDE DEF before, dropped
<1>5. /\ IsFiniteSet(seenActive) /\ IsFiniteSet(gone)
      /\ organic = Cardinality(seenActive) + Cardinality(gone)
      /\ ActiveAfter(seen, url) \ out = seenActive \union gone
  BY ActiveParts
<1>6. IsFiniteSet(before) /\ IsFiniteSet(dropped) /\ IsFiniteSet(before \union seen)
  BY <1>1, ChannelsAssumption, FS_Subset
<1> DEFINE a == Cardinality(seenActive)
           m == Cardinality(gone)
           b == Cardinality(before)
           d == Cardinality(dropped)
           all == Cardinality(before \union seen)
<1>7. a \in Nat /\ m \in Nat /\ b \in Nat /\ d \in Nat /\ all \in Nat
  BY <1>5, <1>6, FS_CardinalityType
<1>8. d <= m
  BY <1>3, <1>5, FS_Subset
<1>9. b <= a + m
  <2>1. seenActive \intersect gone = {}
    BY DEF MissingActive
  <2>2. Cardinality(seenActive \union gone) = a + m
    <3>1. Cardinality(seenActive \union gone) = a + m - Cardinality(seenActive \intersect gone)
      BY <1>5, FS_Union
    <3>2. Cardinality(seenActive \intersect gone) = 0
      BY <2>1, FS_EmptySet
    <3> HIDE DEF a, m, seenActive, gone
    <3>3. QED
      BY <1>7, <3>1, <3>2
  <2>3. IsFiniteSet(seenActive \union gone)
    BY <1>5, FS_Union
  <2>4. b <= Cardinality(seenActive \union gone)
    BY <1>4, <1>5, <2>3, FS_Subset
  <2>5. QED
    BY <2>2, <2>4
<1>10. d + a <= all
  <2>1. dropped \intersect seenActive = {} /\ dropped \union seenActive \subseteq before \union seen
    BY <1>1, <1>3 DEF MissingActive
  <2>2. Cardinality(dropped \union seenActive) = d + a
    <3>1. Cardinality(dropped \union seenActive) = d + a - Cardinality(dropped \intersect seenActive)
      BY <1>5, <1>6, FS_Union
    <3>2. Cardinality(dropped \intersect seenActive) = 0
      BY <2>1, FS_EmptySet
    <3> HIDE DEF a, d, seenActive
    <3>3. QED
      BY <1>7, <3>1, <3>2
  <2>3. Cardinality(dropped \union seenActive) <= all
    BY <1>6, <2>1, FS_Subset
  <2>4. QED
    BY <2>2, <2>3
<1>11. b > 0 /\ all > 0
  <2>1. b > 0
    <3> HIDE DEF b
    <3>1. QED
      BY <1>7, ThresholdAssumption DEF b, before
  <2>2. b <= all
    BY <1>6, FS_Subset
  <2> HIDE DEF b, all
  <2>3. QED
    BY <1>7, <2>1, <2>2
<1>12. CASE Collapse(seen, url, out)
  <2>1. dropped = {}
    BY <1>2, <1>12 DEF ScrapedRow, Unflagged, Dropped, before, dropped
  <2>2. d = 0
    BY <2>1, FS_EmptySet
  <2> HIDE DEF d, all
  <2>3. 10 * d < 6 * all
    BY <1>7, <1>11, <2>2
  <2>4. QED
    BY <2>3 DEF d, all, before, dropped
<1>13. CASE ~Collapse(seen, url, out)
  <2>1. organic = a + m
    BY <1>5
  <2>2. organic > 0 /\ organic >= MinActive => ~(10 * m >= 6 * organic)
    BY <1>13 DEF Collapse
  <2>3. b >= MinActive /\ MinActive \in Nat
    BY ThresholdAssumption DEF before
  <2> HIDE DEF a, m, b, d, all, organic
  <2>4. organic > 0 /\ organic >= MinActive
    BY <1>7, <1>9, <1>11, <2>1, <2>3
  <2>5. 10 * m < 6 * (a + m)
    BY <1>7, <2>1, <2>2, <2>4
  <2>6. 10 * d < 6 * all
    BY <1>7, <1>8, <1>10, <2>5
  <2>7. QED
    BY <2>6 DEF d, all, before, dropped
<1>14. QED
  BY <1>12, <1>13

\* A short lineup takes fewer than 60 % of the unflagged channels out of the
\* feeds, whatever the sizes and the thresholds (_upsert_channels, worker.py).
THEOREM GlitchesHarmless == Spec => GlitchesDropFew
<1> DEFINE before == {c \in present \ removed : row[c].active = 1 /\ ~Flagged(row[c])}
           few == LET dropped == {c \in before : row'[c].active = 0}
                  IN  Cardinality(before) >= MinActive =>
                          10 * Cardinality(dropped) < 6 * Cardinality(before \union lineup)
<1>1. ASSUME TypeOK, IInv, ScrapeCommit, disturbed = {}, Cardinality(lineup) < MinSeen
      PROVE  few
  <2>1. PICK url \in [lineup -> Urls] : \A c \in present :
            Merge(row[c], writes["scraper"][c]) = ScrapedRow(c, lineup, url, removed)
    BY <1>1 DEF ScrapeCommit, IInv, PlanInv
  <2>2. removed \subseteq MissingActive(lineup) /\ lineup \subseteq Channels
    BY <1>1 DEF ScrapeCommit, IInv, PlanInv, TypeOK
  <2>3. \A c \in before : row'[c] = ScrapedRow(c, lineup, url, removed)
    BY <1>1, <2>1 DEF ScrapeCommit, TypeOK
  <2>4. {c \in before : row'[c].active = 0} = Dropped(lineup, url, removed)
    BY <2>3 DEF Dropped, Unflagged
  <2>5. before = Unflagged(removed)
    BY DEF Unflagged
  <2>6. Cardinality(Unflagged(removed)) >= MinActive =>
            10 * Cardinality(Dropped(lineup, url, removed))
                < 6 * Cardinality(Unflagged(removed) \union lineup)
    BY <1>1, <2>2, FewDropped
  <2>7. QED
    BY <2>4, <2>5, <2>6
<1>2. TypeOK /\ IInv =>
         [ScrapeCommit /\ disturbed = {} /\ Cardinality(lineup) < MinSeen => few]_vars
  BY <1>1
<1>3. QED
  BY <1>2, Typing, Inductive, PTL DEF GlitchesDropFew
=============================================================================
