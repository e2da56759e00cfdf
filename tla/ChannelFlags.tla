---------------------------- MODULE ChannelFlags ----------------------------
(***************************************************************************)
(* Which channels of one source are in the feeds: is_active (written by    *)
(* scrapes), is_enabled (the user's), disable_reason (audits and play),    *)
(* missed_scrapes and stream_url of every row, and the jobs and requests   *)
(* that change them at the same time.                                      *)
(*                                                                         *)
(* Scrapes, audits, dead-stream reports and PATCH requests work through an *)
(* ORM session: rows are read at one moment, edited in memory, and written *)
(* back at a later one, when only the columns whose value differs from the *)
(* one READ are sent.  `writes' is that pending UPDATE of each session.    *)
(* The database lock makes the write itself atomic.  Bulk updates and      *)
(* purges are single SQL statements.  What invalidate_xml_cache() does,    *)
(* which most of them call in the end, is in XmlCache.                     *)
(***************************************************************************)
EXTENDS Integers, FiniteSets

CONSTANTS
    Channels,       \* the source_channel_ids the source may carry
    Urls,           \* the stream URLs a scraper may report
    Keep,           \* marks a column that an UPDATE does not mention
    MissThreshold,  \* _CHANNEL_MISS_THRESHOLD, 3
    MinActive,      \* fewest active channels the collapse guard protects, 50
    MinSeen,        \* lineups of at least this size are never a collapse, 25
    AuditBatch,     \* an audit commits after this many channels, 25
    Work,           \* which kinds of work come in: see WorkAssumption
    MaxMissed       \* bound: scrapes a channel is absent from

Reasons == {"none", "Dead", "DRM"}

NoUrl == "null"

ASSUME KeepAssumption == Keep \notin Nat \union Reasons \union Urls \union {NoUrl}
ASSUME ChannelsAssumption == IsFiniteSet(Channels)
ASSUME ThresholdAssumption == /\ MissThreshold \in Nat \ {0}
                              /\ AuditBatch \in Nat \ {0}
                              /\ MinActive \in Nat \ {0}
                              /\ MinSeen \in Nat
                              /\ MaxMissed \in Nat
ASSUME WorkAssumption ==
    Work \subseteq {"scrapes", "audits", "reports", "requests", "maintenance"}

VARIABLES
    present,      \* the channels that have a row
    row,          \* their rows; Booleans are 0 and 1 as SQLite stores them
    job,          \* what each session is doing
    writes,       \* the UPDATE each session will send for every channel
    loaded,       \* the rows the running scrape found
    lineup,       \* the channels the running scrape was given upstream
    removed,      \* the channels whose region it is no longer configured for
    audit,        \* how far the running audit or recheck is
    doomed,       \* the rows a delete-inactive request selected
    absent,       \* history: committed scrapes in a row without the channel
    disturbed     \* history: channels others wrote since the scrape read them

scrapeVars == <<loaded, lineup, removed>>
history == <<absent, disturbed>>
vars == <<present, row, job, writes, scrapeVars, audit, doomed, history>>

Sessions == {"scraper", "fast", "web"}
Audits == {"audit", "auditAll", "recheck"}
Jobs == {"none", "scrape", "dead", "patch", "resolve", "delete"}
            \union Audits

Row == [active : 0..1, enabled : 0..1, reason : Reasons, missed : Nat,
        url : Urls \union {NoUrl}]

\* An UPDATE: the new value of each column, or Keep.
Update == [active : (0..1) \union {Keep}, enabled : (0..1) \union {Keep},
           reason : Reasons \union {Keep}, missed : Nat \union {Keep},
           url : Urls \union {NoUrl, Keep}]

NoRow == [active |-> 0, enabled |-> 0, reason |-> "none", missed |-> 0, url |-> NoUrl]
NoChange == [active |-> Keep, enabled |-> Keep, reason |-> Keep, missed |-> Keep,
             url |-> Keep]
NoWrites == [c \in Channels |-> NoChange]
NoAudit == [todo |-> {}, fresh |-> {}, snap |-> [c \in Channels |-> NoRow],
            visited |-> 0, checkpoint |-> "no"]

Flagged(r) == r.reason # "none"
Shown(r) == r.active = 1 /\ r.enabled = 1

Changed(old, new) == IF old = new THEN Keep ELSE new

\* Faulty variant: the whole row is sent, as it was read and edited.
DiffAllColumns(old, new) == new

\* What the unit of work of a session sends for a row it read as old and
\* edited to new.
Diff(old, new) ==
    [active |-> Changed(old.active, new.active),
     enabled |-> Changed(old.enabled, new.enabled),
     reason |-> Changed(old.reason, new.reason),
     missed |-> Changed(old.missed, new.missed),
     url |-> Changed(old.url, new.url)]

Column(old, new) == IF new = Keep THEN old ELSE new

\* The row after that UPDATE, whatever it has become in between.
Merge(r, w) ==
    [active |-> Column(r.active, w.active),
     enabled |-> Column(r.enabled, w.enabled),
     reason |-> Column(r.reason, w.reason),
     missed |-> Column(r.missed, w.missed),
     url |-> Column(r.url, w.url)]

\* A row edited in memory.
Edit(r, active, enabled, reason, missed) ==
    [active |-> active, enabled |-> enabled, reason |-> reason,
     missed |-> missed, url |-> r.url]

Touched(s) == {c \in Channels : writes[s][c] # NoChange}

-----------------------------------------------------------------------------
Init ==
    /\ present = {}
    /\ row = [c \in Channels |-> NoRow]
    /\ job = [s \in Sessions |-> "none"]
    /\ writes = [s \in Sessions |-> NoWrites]
    /\ loaded = {}
    /\ lineup = {}
    /\ removed = {}
    /\ audit = NoAudit
    /\ doomed = {}
    /\ absent = [c \in Channels |-> 0]
    /\ disturbed = {}

\* A session starts: it has read rows and edited them in memory.
Open(s, j, w) ==
    /\ job[s] = "none"
    /\ job' = [job EXCEPT ![s] = j]
    /\ writes' = [writes EXCEPT ![s] = w]

\* The UPDATEs of session s reach the database.  A row that is gone makes the
\* whole transaction fail (StaleDataError), so the commit does not happen.
Flush(s) ==
    /\ Touched(s) \subseteq present
    /\ row' = [c \in Channels |-> Merge(row[c], writes[s][c])]
    /\ UNCHANGED present

Close(s) ==
    /\ job' = [job EXCEPT ![s] = "none"]
    /\ writes' = [writes EXCEPT ![s] = NoWrites]

\* History: somebody else wrote rows that a running scrape has read.
Disturb(set) ==
    disturbed' = IF job["scraper"] = "scrape" THEN disturbed \union set ELSE {}

-----------------------------------------------------------------------------
(* A scrape: _upsert_channels edits every row it read, run_scraper commits. *)

\* Faulty variants: a flagged channel is left as it is; the flag of a channel
\* goes with every scrape; the count is not reset by an appearance.
SeenRowUnenforced(r, url) ==
    IF Flagged(r) /\ r.url = url
    THEN [r EXCEPT !.missed = 0]
    ELSE [Edit(r, 1, r.enabled, "none", 0) EXCEPT !.url = url]

SeenRowForgiven(r, url) ==
    [Edit(r, 1, r.enabled, "none", 0) EXCEPT !.url = url]

\* A channel of the new lineup.  Flagged channels stay down until their
\* stream URL changes.
SeenRow(r, url) ==
    IF Flagged(r) /\ r.url = url
    THEN Edit(r, 0, 0, r.reason, 0)
    ELSE [Edit(r, 1, r.enabled, "none", 0) EXCEPT !.url = url]

\* Faulty variant: one scrape less is enough.
MissedRowEarly(r) ==
    Edit(r, IF r.missed + 2 >= MissThreshold THEN 0 ELSE r.active,
         r.enabled, r.reason, r.missed + 1)

NewRow(url) ==
    [active |-> 1, enabled |-> 1, reason |-> "none", missed |-> 0, url |-> url]

\* A channel of a region the scraper is no longer configured for.
RemovedRow(r) == Edit(r, 0, r.enabled, r.reason, r.missed + 1)

\* A channel the lineup lacks.
MissedRow(r) ==
    Edit(r, IF r.missed + 1 >= MissThreshold THEN 0 ELSE r.active,
         r.enabled, r.reason, r.missed + 1)

\* Active rows once the lineup is applied, and those the lineup lacks.
ActiveAfter(seen, url) ==
    {c \in present : (IF c \in seen THEN SeenRow(row[c], url[c]) ELSE row[c]).active = 1}
MissingActive(seen) == {c \in present \ seen : row[c].active = 1}

\* Faulty variant: the smaller of the two sizes decides.
CollapseRatioOnly(seen, url, out) ==
    LET organic == Cardinality(ActiveAfter(seen, url)) - Cardinality(out)
        missing == Cardinality(MissingActive(seen) \ out)
    IN  /\ organic >= MinActive
        /\ Cardinality(seen) < (organic * 35) \div 100
        /\ 10 * missing >= 6 * organic

\* The lineup is so much smaller than the active set that the fetch or the
\* parser is more likely to be broken than the channels to be gone.  The shares
\* are exact; int(organic * 0.35), a product of floats, is one less for some
\* multiples of 20 from 180 on.
Collapse(seen, url, out) ==
    LET organic == Cardinality(ActiveAfter(seen, url)) - Cardinality(out)
        missing == Cardinality(MissingActive(seen) \ out)
        fewest == (organic * 35) \div 100
    IN  /\ organic > 0
        /\ organic >= MinActive
        /\ Cardinality(seen) < MinSeen \/ Cardinality(seen) < fewest
        /\ 10 * missing >= 6 * organic

\* What the scrape makes of a row it read.
ScrapedRow(c, seen, url, out) ==
    IF c \in seen THEN SeenRow(row[c], url[c])
    ELSE IF c \in out THEN RemovedRow(row[c])
    ELSE IF Collapse(seen, url, out) THEN row[c]
    ELSE MissedRow(row[c])

\* The rows are read and edited: updates for those that exist, inserts for the
\* others.  MaxMissed bounds the scrapes explored.
ScrapeLoad(seen, url, out) ==
    /\ out \subseteq MissingActive(seen)
    /\ \A c \in present \ seen : row[c].missed < MaxMissed /\ absent[c] < MaxMissed
    /\ Open("scraper", "scrape",
            [c \in Channels |->
                IF c \in present
                THEN Diff(row[c], ScrapedRow(c, seen, url, out))
                ELSE IF c \in seen THEN NewRow(url[c]) ELSE NoChange])
    /\ loaded' = present
    /\ lineup' = seen
    /\ removed' = out
    /\ disturbed' = {}
    /\ UNCHANGED <<present, row, audit, doomed, absent>>

\* The commit of channels, programmes and settings.  It updates last_seen_at
\* of every row in the lineup, so none of those may be gone either.
ScrapeCommit ==
    /\ job["scraper"] = "scrape"
    /\ (loaded \intersect (lineup \union Touched("scraper"))) \subseteq present
    /\ present' = present \union lineup
    /\ row' = [c \in Channels |-> Merge(row[c], writes["scraper"][c])]
    /\ Close("scraper")
    /\ loaded' = {}
    /\ lineup' = {}
    /\ removed' = {}
    /\ absent' = [c \in Channels |->
                    IF c \in present \ lineup THEN absent[c] + 1 ELSE 0]
    /\ disturbed' = {}
    /\ UNCHANGED <<audit, doomed>>

-----------------------------------------------------------------------------
(* A stream audit, or the recheck of the channels an audit could not judge. *)

AuditScope(j) ==
    CASE j = "audit" -> {c \in present : row[c].active = 1}
      [] j = "auditAll" ->
            {c \in present : row[c].active = 1 \/ row[c].reason = "Dead"}

JudgedRowTurnedOn(r, verdict, j) ==
    CASE verdict \in {"Dead", "DRM"} ->
            Edit(r, 0, 0, verdict, r.missed)
      [] verdict = "live" /\ j # "audit" /\ r.active = 0 ->
            Edit(r, 1, 1, "none", r.missed)
      [] OTHER -> r

\* What a verdict on its stream does to a channel.  "live" covers manifests
\* that play and channels a scraper vouches for, "unknown" rate limits, network
\* errors and timeouts.
JudgedRow(r, verdict, j) ==
    CASE verdict \in {"Dead", "DRM"} ->
            Edit(r, 0, 0, verdict, r.missed)
      [] verdict = "live" /\ j # "audit" /\ r.active = 0 ->
            Edit(r, 1, r.enabled, "none", r.missed)
      [] OTHER -> r

StartAudit(j, scope) ==
    /\ scope # {}
    /\ Open("scraper", j, NoWrites)
    /\ audit' = [todo |-> scope, fresh |-> scope,
                 snap |-> [c \in Channels |-> IF c \in scope THEN row[c] ELSE NoRow],
                 visited |-> 0, checkpoint |-> "no"]
    /\ UNCHANGED <<present, row, scrapeVars, doomed, history>>

\* The next channel is resolved and its manifest inspected.  Its row is the one
\* loaded at the start, or is read again if a commit has expired it since.
\* A recheck never finds DRM.  Every AuditBatch-th channel is followed by a
\* commit, unless its branch of the loop ended in `continue', as all that find
\* a dead stream do.
AuditChannel(c, verdict) ==
    LET r == IF c \in audit.fresh THEN audit.snap[c] ELSE row[c]
        nth == audit.visited + 1
    IN  /\ job["scraper"] \in Audits
        /\ c \in audit.todo
        /\ c \in audit.fresh \union present
        /\ job["scraper"] = "recheck" => verdict # "DRM"
        /\ writes' = [writes EXCEPT !["scraper"][c] =
                        Diff(r, JudgedRow(r, verdict, job["scraper"]))]
        /\ audit' = [todo |-> audit.todo \ {c},
                     fresh |-> audit.fresh \ {c},
                     snap |-> [audit.snap EXCEPT ![c] = NoRow],
                     visited |-> nth % AuditBatch,
                     checkpoint |-> IF /\ nth = AuditBatch
                                       /\ verdict # "Dead"
                                       /\ job["scraper"] # "recheck"
                                    THEN "due" ELSE "no"]
        /\ UNCHANGED <<present, row, job, scrapeVars, doomed, history>>

\* The commit between two batches expires every row the session holds.
AuditCheckpoint ==
    /\ audit.checkpoint = "due"
    /\ Flush("scraper")
    /\ writes' = [writes EXCEPT !["scraper"] = NoWrites]
    /\ audit' = [NoAudit EXCEPT !.todo = audit.todo]
    /\ UNCHANGED <<job, scrapeVars, doomed, history>>

\* The last commit, after all channels or after 20 errors in a row.  Nothing
\* invalidates the cached feeds.
FinishAudit ==
    /\ job["scraper"] \in Audits
    /\ job["scraper"] = "recheck" => audit.todo = {}
    /\ Flush("scraper")
    /\ Close("scraper")
    /\ audit' = NoAudit
    /\ UNCHANGED <<scrapeVars, doomed, history>>

-----------------------------------------------------------------------------
(* run_channel_auto_disable: play found a stream dead or protected. *)

AutoDisable(c, reason) ==
    LET flagged == Edit(row[c], 0, 0, reason, row[c].missed)
    IN  /\ c \in present
        /\ row[c] # flagged
        /\ Open("fast", "dead", [NoWrites EXCEPT ![c] = Diff(row[c], flagged)])
        /\ UNCHANGED <<present, row, scrapeVars, audit, doomed, history>>

CommitAutoDisable ==
    /\ job["fast"] = "dead"
    /\ Flush("fast")
    /\ Disturb(Touched("fast"))
    /\ Close("fast")
    /\ UNCHANGED <<scrapeVars, audit, doomed, absent>>

\* The database stayed locked; the rollback before the next attempt discards
\* the edits, so that attempt commits nothing and counts as done.
RetryAutoDisable ==
    /\ job["fast"] = "dead"
    /\ Close("fast")
    /\ UNCHANGED <<present, row, scrapeVars, audit, doomed, history>>

-----------------------------------------------------------------------------
(* The user, through PATCH /channels/<id> and the duplicate and orphan tools. *)

\* is_enabled alone.
Switched(r, on) == Edit(r, r.active, on, r.reason, r.missed)

\* The toggle sends is_enabled only; turning a channel on lifts everything
\* that keeps it out of the feeds.
Toggled(r, on) ==
    IF on = 1
    THEN Edit(r, 1, 1, "none", 0)
    ELSE Switched(r, 0)

\* The re-enable dialog sends is_active, is_enabled and a null disable_reason.
Reenabled(r) == Edit(r, 1, 1, "none", r.missed)

Patch(c, new) ==
    /\ c \in present
    /\ Open("web", "patch", [NoWrites EXCEPT ![c] = Diff(row[c], new)])
    /\ UNCHANGED <<present, row, scrapeVars, audit, doomed, history>>

Toggle(c, on) == Patch(c, Toggled(row[c], on))
Reenable(c) == Patch(c, Reenabled(row[c]))

\* resolve_duplicates keeps one channel of a group of namesakes: a healthy one
\* if there is any, else none.
Healthy(r) == ~Flagged(r) /\ r.active = 1

ResolveDuplicates(group, winner) ==
    LET keep == {c \in {winner} : Healthy(row[c])}
        resolved == [c \in group |->
                        Switched(row[c], IF c \in keep THEN 1 ELSE 0)]
    IN  /\ group \subseteq present
        /\ winner \in group
        /\ Cardinality({c \in group : row[c].enabled = 1}) >= 2
        /\ (\E c \in group : Healthy(row[c])) => Healthy(row[winner])
        /\ Open("web", "resolve",
                [c \in Channels |->
                    IF c \in group THEN Diff(row[c], resolved[c]) ELSE NoChange])
        /\ UNCHANGED <<present, row, scrapeVars, audit, doomed, history>>

\* Only the PATCH handler invalidates the cached feeds.
CommitWeb ==
    /\ job["web"] \in {"patch", "resolve"}
    /\ Flush("web")
    /\ Disturb(Touched("web"))
    /\ Close("web")
    /\ UNCHANGED <<scrapeVars, audit, doomed, absent>>

\* delete_inactive_channels reads the orphans (inactive, not DRM, unseen for
\* days or from a removed region) ...
SelectOrphans(orphans) ==
    /\ orphans # {}
    /\ orphans \subseteq {c \in present : row[c].active = 0 /\ row[c].reason # "DRM"}
    /\ Open("web", "delete", NoWrites)
    /\ doomed' = orphans
    /\ UNCHANGED <<present, row, scrapeVars, audit, history>>

Delete(gone) ==
    /\ present' = present \ gone
    /\ row' = [c \in Channels |-> IF c \in gone THEN NoRow ELSE row[c]]
    /\ absent' = [c \in Channels |-> IF c \in gone THEN 0 ELSE absent[c]]
    /\ Disturb(gone)

\* ... and deletes them by primary key.
DeleteOrphans ==
    /\ job["web"] = "delete"
    /\ Delete(doomed)
    /\ Close("web")
    /\ doomed' = {}
    /\ UNCHANGED <<scrapeVars, audit>>

-----------------------------------------------------------------------------
(* The maintenance role: single statements, then the invalidation. *)

\* run_bulk_channel_update on the channels a filter selects.
BulkUpdate(ids, on) ==
    /\ ids # {}
    /\ ids \subseteq present
    /\ row' = [c \in Channels |->
                IF c \in ids THEN Toggled(row[c], on) ELSE row[c]]
    /\ UNCHANGED present
    /\ Disturb(ids)
    /\ UNCHANGED <<job, writes, scrapeVars, audit, doomed, absent>>

\* run_source_channel_purge deletes every channel of the source.
Purge ==
    /\ present # {}
    /\ Delete(present)
    /\ UNCHANGED <<job, writes, scrapeVars, audit, doomed>>

-----------------------------------------------------------------------------
\* A job or request ends early: an exception (StaleDataError, the database
\* locked three times, a scraper failing), a timeout, a killed process.
Abort(s) ==
    /\ job[s] # "none"
    /\ Close(s)
    /\ loaded' = IF s = "scraper" THEN {} ELSE loaded
    /\ lineup' = IF s = "scraper" THEN {} ELSE lineup
    /\ removed' = IF s = "scraper" THEN {} ELSE removed
    /\ audit' = IF s = "scraper" THEN NoAudit ELSE audit
    /\ doomed' = IF s = "web" THEN {} ELSE doomed
    /\ disturbed' = IF s = "scraper" THEN {} ELSE disturbed
    /\ UNCHANGED <<present, row, absent>>

Scrape ==
    \/ \E seen \in SUBSET Channels :
        \E url \in [seen -> Urls], out \in SUBSET MissingActive(seen) :
            ScrapeLoad(seen, url, out)
    \/ ScrapeCommit

Audit ==
    \/ \E j \in {"audit", "auditAll"} : StartAudit(j, AuditScope(j))
    \/ \E scope \in SUBSET present : StartAudit("recheck", scope)
    \/ \E c \in Channels, verdict \in {"Dead", "DRM", "live", "unknown"} :
        AuditChannel(c, verdict)
    \/ AuditCheckpoint
    \/ FinishAudit

Report ==
    \/ \E c \in Channels, reason \in {"Dead", "DRM"} : AutoDisable(c, reason)
    \/ CommitAutoDisable
    \/ RetryAutoDisable

Request ==
    \/ \E c \in Channels : Reenable(c) \/ \E on \in 0..1 : Toggle(c, on)
    \/ \E group \in SUBSET Channels : \E winner \in group :
        ResolveDuplicates(group, winner)
    \/ CommitWeb
    \/ \E orphans \in SUBSET present : SelectOrphans(orphans)
    \/ DeleteOrphans

Maintenance ==
    \/ \E ids \in SUBSET Channels, on \in 0..1 : BulkUpdate(ids, on)
    \/ Purge

Next ==
    \/ "scrapes" \in Work /\ Scrape
    \/ "audits" \in Work /\ Audit
    \/ "reports" \in Work /\ Report
    \/ "requests" \in Work /\ Request
    \/ "maintenance" \in Work /\ Maintenance
    \/ \E s \in Sessions : Abort(s)

Spec == Init /\ [][Next]_vars

-----------------------------------------------------------------------------
TypeOK ==
    /\ present \in SUBSET Channels
    /\ row \in [Channels -> Row]
    /\ job \in [Sessions -> Jobs]
    /\ writes \in [Sessions -> [Channels -> Update]]
    /\ loaded \in SUBSET Channels
    /\ lineup \in SUBSET Channels
    /\ removed \in SUBSET Channels
    /\ audit \in [todo : SUBSET Channels, fresh : SUBSET Channels,
                  snap : [Channels -> Row], visited : Nat,
                  checkpoint : {"no", "due"}]
    /\ doomed \in SUBSET Channels
    /\ absent \in [Channels -> Nat]
    /\ disturbed \in SUBSET Channels

\* A step of a request, or a statement of the maintenance role.
UserStep == job'["web"] # job["web"] \/ UNCHANGED <<job, audit>>

\* A channel that is off is turned on by the user alone, as the README says of
\* is_enabled ("Survives re-scrapes"): no scrape, audit, recheck or dead-stream
\* report undoes a choice made while it was running.
OffStaysOff ==
    [][ \A c \in present \intersect present' :
            row[c].enabled = 0 /\ row'[c].enabled = 1 => UserStep ]_vars

\* A scrape removes the flag of an audit or of play only together with a new
\* stream URL, also when the flag was set while the scrape was running
\* ("Don't resurrect channels ... unless the stream URL changed").
FlagsOutliveScrapes ==
    [][ job["scraper"] = "scrape" =>
            \A c \in present \intersect present' :
                (Flagged(row[c]) /\ ~Flagged(row'[c]) /\ row'[c].url = row[c].url)
                    => UserStep ]_vars

\* Flagged channels that got into the feeds all the same (an audit or a report
\* overlapped the user's edit) leave them with the next scrape that sees them
\* undisturbed.
ScrapesSettleFlags ==
    [][ ScrapeCommit =>
            \A c \in lineup \ disturbed :
                Flagged(row'[c]) => ~Shown(row'[c]) ]_vars

\* A scrape takes a channel without a flag out of the feeds only when
\* MissThreshold scrapes in a row lacked it (or its region was given up).
NotDroppedEarly ==
    [][ ScrapeCommit =>
            \A c \in present \ (lineup \union removed) :
                row[c].active = 1 /\ row'[c].active = 0
                    => absent'[c] >= MissThreshold ]_vars

\* A lineup of a few channels, the mark of a broken fetch, does not take a large
\* source down: fewer than 60 % of its active channels go, regions given up
\* and flagged channels apart.
GlitchesDropFew ==
    [][ ScrapeCommit /\ disturbed = {} /\ Cardinality(lineup) < MinSeen =>
            LET before == {c \in present \ removed :
                             row[c].active = 1 /\ ~Flagged(row[c])}
                dropped == {c \in before : row'[c].active = 0}
            IN  Cardinality(before) >= MinActive =>
                    10 * Cardinality(dropped)
                        < 6 * Cardinality(before \union lineup) ]_vars

\* An audit that is over has taken every channel it flagged out of the feeds:
\* "Flagged channels are marked is_active=False so they drop out of M3U/EPG
\* output" (run_stream_audit).
FlaggedDropOut ==
    job["scraper"] = "none" => \A c \in present : Flagged(row[c]) => ~Shown(row[c])

-----------------------------------------------------------------------------
\* Why the properties above hold, part by part.

\* While a scrape runs no row appears, and what it will insert was missing when
\* it started.
LoadInv ==
    /\ job["scraper"] = "scrape" =>
          /\ present \subseteq loaded
          /\ \A c \in Channels \ (loaded \union lineup) :
                writes["scraper"][c] = NoChange
          /\ \A c \in lineup \ loaded : writes["scraper"][c].missed = 0
    /\ \A c \in Channels \ present : row[c].missed = 0 /\ absent[c] = 0

\* No session but the user's sends is_enabled = 1 for an existing row.
EnabledInv ==
    /\ \A c \in Channels : writes["fast"][c].enabled # 1
    /\ \A c \in Channels :
          writes["scraper"][c].enabled = 1 =>
              job["scraper"] = "scrape" /\ c \notin loaded

\* Only a scrape sends stream URLs, so the URL it read is still there, and it
\* clears a flag only together with a URL that differs.
FlagInv ==
    /\ \A s \in {"fast", "web"}, c \in Channels : writes[s][c].url = Keep
    /\ job["scraper"] # "scrape" =>
          \A c \in Channels : writes["scraper"][c].url = Keep
    /\ \A c \in Channels : writes["fast"][c].reason # "none"
    /\ job["scraper"] = "scrape" =>
          \A c \in present :
             writes["scraper"][c].reason # Keep =>
                 writes["scraper"][c].url \notin {Keep, row[c].url}

\* missed_scrapes never exceeds the scrapes that lacked the channel: others only
\* reset it, and a stale scrape writes at most one more than it read.
MissedInv ==
    /\ \A c \in Channels : row[c].missed <= absent[c]
    /\ \A s \in {"fast", "web"}, c \in Channels : writes[s][c].missed \in {Keep, 0}
    /\ job["scraper"] # "scrape" =>
          \A c \in Channels : writes["scraper"][c].missed = Keep
    /\ job["scraper"] = "scrape" =>
          /\ \A c \in present \intersect lineup :
                \/ writes["scraper"][c].missed = 0
                \/ writes["scraper"][c].missed = Keep /\ row[c].missed = 0
          /\ \A c \in present \ lineup :
                /\ writes["scraper"][c].missed # Keep =>
                       writes["scraper"][c].missed <= absent[c] + 1
                /\ writes["scraper"][c].active = 0 /\ c \notin removed =>
                       /\ writes["scraper"][c].missed # Keep
                       /\ writes["scraper"][c].missed >= MissThreshold

\* What a scrape will make of a channel that nobody touched meanwhile is out of
\* the feeds if it is flagged.
SettleInv ==
    job["scraper"] = "scrape" =>
        \A c \in lineup \ disturbed :
            LET after == Merge(row[c], writes["scraper"][c])
            IN  Flagged(after) => after.active = 0

\* Until somebody disturbs it, what a scrape will make of the rows is what one
\* lineup, with the guard against glitches, makes of them.
PlanInv ==
    job["scraper"] = "scrape" /\ disturbed = {} =>
        /\ removed \subseteq MissingActive(lineup)
        /\ \E url \in [lineup -> Urls] : \A c \in present :
              Merge(row[c], writes["scraper"][c]) = ScrapedRow(c, lineup, url, removed)

\* Only an audit commits in between.
AuditInv == audit.checkpoint = "due" => job["scraper"] \in Audits

\* The inductive invariant.
IInv == LoadInv /\ EnabledInv /\ FlagInv /\ MissedInv /\ SettleInv /\ PlanInv /\ AuditInv

\* Types and all of the above: what every reachable state satisfies.
Inv == TypeOK /\ IInv
=============================================================================
