---------------------------- MODULE GracenoteIds ----------------------------
(***************************************************************************)
(* Gracenote IDs: the community map, a file that processes download and    *)
(* each caches by its modification times (app/gracenote_map.py), and the   *)
(* ID, mode and lock of a channel, which scrapes fill in, users choose, a  *)
(* job clears, and every start of the container mends (app/schema.py).     *)
(*                                                                         *)
(* A download is one version of the map, all of whose rows are missing     *)
(* from a file cut off by open(); the file bundled with the program and    *)
(* the user's overrides do not change.  Processes load the map without     *)
(* giving way to their other requests: the web process runs greenlets.     *)
(* Requests and the clearing job read and commit rows at once, a scrape    *)
(* keeps the rows it read while it checks logos on the network.            *)
(***************************************************************************)
EXTENDS Naturals, FiniteSets

CONSTANTS
    GnChannels,      \* active channels
    GnNative,        \* those whose provider sends an ID
    GnMapped,        \* those with a row in the map
    GnNamesakes,     \* those that share one name
    GnProcesses,     \* "web", "scheduler" and "scraper"
    MaxMapFetches,   \* bound: downloads of the map
    MaxGnEdits,      \* bound: edits by users
    MaxGnRestarts    \* bound: restarts of the container
ASSUME GracenoteAssumption ==
    /\ GnNative \subseteq GnChannels /\ GnMapped \subseteq GnChannels
    /\ GnNamesakes \subseteq GnChannels
    /\ GnProcesses = {"web", "scheduler", "scraper"}
    /\ {MaxMapFetches, MaxGnEdits, MaxGnRestarts} \subseteq Nat

VARIABLES
    mapFile,    \* the version in the file, 0 while it is cut off, its mtime, and
                \* whether an earlier content of it had that mtime too
    mapCache,   \* of each process: whether it has a map, of what, and for which mtime
    mapBusy,    \* of each process: the version it writes or the mtime it loads for
    gnRow,      \* Channel.gracenote_id, gracenote_mode, gracenote_locked
    autoFill,   \* AppSettings.gracenote_auto_fill
    clearing,   \* the gracenote-auto-clear job is queued
    gnScrape,   \* the scrape: its step, the setting, the IDs and the rows it read
    typed,      \* history: the ID the user's last choice for a channel was, if manual
    filled,     \* history: channels whose ID a scrape filled in
    cleared,    \* history: the user has switched auto-fill off for good and all
    overtaken,  \* history: channels a scrape filled that were edited since it read them,
                \* or though the IDs were cleared since it began
    gnCounts    \* downloads, edits and restarts so far

gnVars == <<mapFile, mapCache, mapBusy, gnRow, autoFill, clearing, gnScrape, typed, filled,
            cleared, overtaken, gnCounts>>

\* An ID is who says it, and in which version of the map it stands.
NoId == <<"none", 0>>
NativeId == <<"native", 0>>
UserId == <<"user", 0>>
GnIds == {NoId, NativeId, UserId} \cup ({"map"} \X (1 .. MaxMapFetches + 1))
GnModes == {"auto", "manual", "off"}

NoMap == [known |-> FALSE, of |-> 0, at |-> 0]
Unoccupied == [writes |-> 0, loads |-> 0]
EmptyRow == [id |-> NoId, mode |-> "auto", locked |-> FALSE]
NothingFound == [c \in GnChannels |-> NoId]
EmptyRows == [c \in GnChannels |-> EmptyRow]
NoGnScrape == [at |-> "none", fill |-> FALSE, found |-> NothingFound, rows |-> EmptyRows]

\* Assignments to one column of a row
WithId(row, i) == [id |-> i, mode |-> row.mode, locked |-> row.locked]
WithMode(row, m) == [id |-> row.id, mode |-> m, locked |-> row.locked]

GracenoteInit ==
    /\ mapFile = [of |-> 1, at |-> 1, same |-> FALSE]
    /\ mapCache = [p \in GnProcesses |-> NoMap]
    /\ mapBusy = [p \in GnProcesses |-> Unoccupied]
    /\ gnRow = EmptyRows
    /\ autoFill = TRUE
    /\ clearing = FALSE
    /\ gnScrape = NoGnScrape
    /\ typed = NothingFound
    /\ filled = {}
    /\ cleared = FALSE
    /\ overtaken = {}
    /\ gnCounts = [fetches |-> 0, edits |-> 0, restarts |-> 0]

mapVars == <<mapFile, mapCache, mapBusy>>
choiceVars == <<autoFill, clearing, cleared>>
gnHistory == <<typed, filled, overtaken>>

-----------------------------------------------------------------------------
\* The map

\* The cache of p is that of the file by its mtimes, so that _load_map() uses it.
MapCached(p) == mapCache[p].known /\ mapCache[p].at = mapFile.at

\* lookup_gracenote(), in p
MapId(p, c) == IF c \in GnMapped /\ mapCache[p].of # 0 THEN <<"map", mapCache[p].of>> ELSE NoId

\* The file is changed; times of files are coarse, so that two changes of it in a
\* row may have one mtime.
MapChange(version) ==
    \E same \in BOOLEAN :
        mapFile' = [of |-> version, at |-> IF same THEN mapFile.at ELSE mapFile.at + 1, same |-> same]

\* fetch_remote_gracenote_map(), of the admin's button and of the scheduler: when
\* the download is in order, opening the file cuts it off
MapOpen(p) ==
    /\ p \in {"web", "scheduler"}
    /\ mapBusy[p] = Unoccupied
    /\ gnCounts.fetches < MaxMapFetches
    /\ gnCounts' = [gnCounts EXCEPT !.fetches = @ + 1]
    /\ MapChange(0)
    /\ mapBusy' = [mapBusy EXCEPT ![p] = [writes |-> gnCounts.fetches + 2, loads |-> 0]]
    /\ UNCHANGED <<mapCache, gnRow, gnScrape, choiceVars, gnHistory>>

\* ... and then it is written, and the process drops its own cache.
MapWrite(p) ==
    /\ mapBusy[p].writes # 0
    /\ MapChange(mapBusy[p].writes)
    /\ mapBusy' = [mapBusy EXCEPT ![p] = Unoccupied]
    /\ mapCache' = [mapCache EXCEPT ![p] = NoMap]
    /\ UNCHANGED <<gnRow, gnScrape, choiceVars, gnHistory, gnCounts>>

\* _load_map(), of those who look IDs up: the mtimes are taken first, ...
MapLoad(p) ==
    /\ p = "web" \/ (p = "scraper" /\ gnScrape.at = "fetch")
    /\ mapBusy[p] = Unoccupied
    /\ ~MapCached(p)
    /\ mapBusy' = [mapBusy EXCEPT ![p] = [writes |-> 0, loads |-> mapFile.at]]
    /\ UNCHANGED <<mapFile, mapCache, gnRow, gnScrape, choiceVars, gnHistory, gnCounts>>

\* ... then the files are read.
MapRead(p) ==
    /\ mapBusy[p].loads # 0
    /\ mapCache' = [mapCache EXCEPT ![p] = [known |-> TRUE, of |-> mapFile.of,
                                            at |-> mapBusy[p].loads]]
    /\ mapBusy' = [mapBusy EXCEPT ![p] = Unoccupied]
    /\ UNCHANGED <<mapFile, gnRow, gnScrape, choiceVars, gnHistory, gnCounts>>

-----------------------------------------------------------------------------
\* Users

\* _apply_gracenote_update(): a row for the ID i and the mode m
Applied(i, m) ==
    CASE m = "off" -> [id |-> NoId, mode |-> "off", locked |-> FALSE]
      [] m = "manual" -> [id |-> i, mode |-> "manual", locked |-> TRUE]
      [] m = "auto" -> [id |-> i, mode |-> "auto", locked |-> FALSE]

\* A request gives the channels of S the rows of new.
GnEdit(S, new) ==
    /\ gnCounts.edits < MaxGnEdits
    /\ gnCounts' = [gnCounts EXCEPT !.edits = @ + 1]
    /\ gnRow' = [c \in GnChannels |-> IF c \in S THEN new[c] ELSE gnRow[c]]
    /\ typed' = [c \in GnChannels |->
                    IF c \notin S THEN typed[c]
                    ELSE IF new[c].mode = "manual" THEN new[c].id ELSE NoId]
    /\ filled' = filled \ S
    /\ overtaken' = overtaken \ S
    /\ UNCHANGED <<mapVars, choiceVars, gnScrape>>

\* PATCH of a channel; without a mode the row's own is meant, and manual mode
\* without an ID is refused.
GracenotePatch(c) ==
    \E i \in {NoId, UserId}, m \in GnModes :
        /\ m = "manual" => i # NoId
        /\ GnEdit({c}, [d \in {c} |-> Applied(i, m)])

\* The four actions of /channels/gracenote-bulk
GracenoteBulk(S) ==
    \E action \in {"set_auto", "set_manual", "set_off", "clear_ids"} :
        LET New(c) ==
                CASE action = "set_auto" -> Applied(gnRow[c].id, "auto")
                  [] action = "set_manual" ->
                        IF gnRow[c].id = NoId THEN gnRow[c] ELSE Applied(gnRow[c].id, "manual")
                  [] action = "set_off" -> Applied(NoId, "off")
                  [] action = "clear_ids" ->
                        Applied(NoId, IF gnRow[c].mode = "off" THEN "off" ELSE "auto")
            touched == IF action = "set_manual" THEN {c \in S : gnRow[c].id # NoId} ELSE S
        IN  GnEdit(touched, [c \in touched |-> New(c)])

\* community-apply-all, over the user's own choices or not
GracenoteApplyAll ==
    /\ MapCached("web")
    /\ \E newOnly \in BOOLEAN :
          LET S == {c \in GnChannels :
                      /\ MapId("web", c) \notin {NoId, gnRow[c].id}
                      /\ newOnly => gnRow[c].mode = "auto"}
          IN  GnEdit(S, [c \in S |-> Applied(MapId("web", c), "manual")])

\* community-clear-all, which leaves the locks
GracenoteClearAll ==
    /\ MapCached("web")
    /\ LET S == {c \in GnChannels : /\ MapId("web", c) # NoId
                                    /\ gnRow[c].id # NoId \/ gnRow[c].mode # "auto"}
       IN  GnEdit(S, [c \in S |-> WithId(WithMode(gnRow[c], "auto"), NoId)])

\* The switch of the settings page, and gracenote-auto-clear, which also queues
\* the job
AutoFillSet ==
    /\ gnCounts.edits < MaxGnEdits
    /\ gnCounts' = [gnCounts EXCEPT !.edits = @ + 1]
    /\ \/ /\ autoFill' \in BOOLEAN
          /\ cleared' = (cleared /\ ~autoFill')
          /\ UNCHANGED clearing
       \/ autoFill' = FALSE /\ clearing' = TRUE /\ cleared' = TRUE
    /\ UNCHANGED <<mapVars, gnRow, gnScrape, gnHistory>>

-----------------------------------------------------------------------------
\* run_gracenote_auto_clear()
AutoClear ==
    /\ clearing
    /\ clearing' = FALSE
    /\ gnRow' = [c \in GnChannels |-> IF gnRow[c].mode = "auto"
                                      THEN WithId(gnRow[c], NoId) ELSE gnRow[c]]
    /\ UNCHANGED <<mapVars, autoFill, cleared, gnScrape, gnHistory, gnCounts>>

\* run_scraper() reads the setting, ...
GnScrapeBegin ==
    /\ gnScrape.at = "none"
    /\ gnScrape' = [at |-> "fetch", fill |-> autoFill, found |-> NothingFound, rows |-> EmptyRows]
    /\ UNCHANGED <<mapVars, gnRow, choiceVars, gnHistory, gnCounts>>

\* ... resolve_gracenote() prefers what the provider sends, and _upsert_channels()
\* reads the rows ...
GnScrapeFetch ==
    /\ gnScrape.at = "fetch"
    /\ MapCached("scraper")
    /\ gnScrape' = [at |-> "upsert", fill |-> gnScrape.fill, rows |-> gnRow,
                    found |-> [c \in GnChannels |->
                                  IF c \in GnNative THEN NativeId ELSE MapId("scraper", c)]]
    /\ UNCHANGED <<mapVars, gnRow, choiceVars, gnHistory, gnCounts>>

\* Faulty variant: the scrape fills the rows it read whatever the setting is.
GnScrapeSaveUnasked ==
    /\ gnScrape.at = "upsert"
    /\ LET fills == {c \in GnChannels : /\ gnScrape.rows[c].mode = "auto"
                                        /\ gnScrape.found[c] \notin {NoId, gnScrape.rows[c].id}}
       IN  /\ gnRow' = [c \in GnChannels |-> IF c \in fills
                            THEN WithId(gnRow[c], gnScrape.found[c]) ELSE gnRow[c]]
           /\ filled' = filled \cup fills
           /\ overtaken' = overtaken \cup {c \in fills : \/ gnRow[c] # gnScrape.rows[c]
                                                         \/ cleared /\ gnScrape.fill}
    /\ gnScrape' = NoGnScrape
    /\ mapCache' = [mapCache EXCEPT !["scraper"] = NoMap]
    /\ UNCHANGED <<mapFile, mapBusy, choiceVars, typed, gnCounts>>

\* ... and commits much later the IDs that are not those it read.  The work
\* horse, forked for each job, ends with what it cached.
GnScrapeSave ==
    /\ gnScrape.at = "upsert"
    /\ LET fills == {c \in GnChannels : /\ gnScrape.fill
                                        /\ gnScrape.rows[c].mode = "auto"
                                        /\ gnScrape.found[c] \notin {NoId, gnScrape.rows[c].id}}
       IN  /\ gnRow' = [c \in GnChannels |-> IF c \in fills
                            THEN WithId(gnRow[c], gnScrape.found[c]) ELSE gnRow[c]]
           /\ filled' = filled \cup fills
           /\ overtaken' = overtaken \cup {c \in fills : \/ gnRow[c] # gnScrape.rows[c]
                                                         \/ cleared /\ gnScrape.fill}
    /\ gnScrape' = NoGnScrape
    /\ mapCache' = [mapCache EXCEPT !["scraper"] = NoMap]
    /\ UNCHANGED <<mapFile, mapBusy, choiceVars, typed, gnCounts>>

\* The container starts again, its one-time migrations done before.
\* ensure_runtime_schema() makes locked rows with an
\* ID manual, then switches off rows without one whose namesake has one.
GnRestart ==
    /\ gnCounts.restarts < MaxGnRestarts
    /\ gnCounts' = [gnCounts EXCEPT !.restarts = @ + 1]
    /\ LET mended == [c \in GnChannels |-> IF gnRow[c].locked /\ gnRow[c].id # NoId
                         THEN WithMode(gnRow[c], "manual") ELSE gnRow[c]]
           famous == \E c \in GnNamesakes : gnRow[c].id # NoId
       IN  gnRow' = [c \in GnChannels |->
                        IF /\ c \in GnNamesakes /\ famous
                           /\ mended[c].id = NoId /\ mended[c].mode = "auto"
                        THEN WithMode(mended[c], "off") ELSE mended[c]]
    /\ mapCache' = [p \in GnProcesses |-> NoMap]
    /\ mapBusy' = [p \in GnProcesses |-> Unoccupied]
    /\ gnScrape' = NoGnScrape
    /\ UNCHANGED <<mapFile, choiceVars, gnHistory>>

GracenoteNext ==
    \/ \E p \in GnProcesses : MapOpen(p) \/ MapWrite(p) \/ MapLoad(p) \/ MapRead(p)
    \/ \E c \in GnChannels : GracenotePatch(c)
    \/ \E S \in SUBSET GnChannels \ {{}} : GracenoteBulk(S)
    \/ GracenoteApplyAll \/ GracenoteClearAll \/ AutoFillSet \/ AutoClear
    \/ GnScrapeBegin \/ GnScrapeFetch \/ GnScrapeSave \/ GnRestart

GracenoteSpec == GracenoteInit /\ [][GracenoteNext]_gnVars

-----------------------------------------------------------------------------
\* Type invariant
GracenoteTypeOK ==
    /\ mapFile.of \in 0 .. MaxMapFetches + 1 /\ mapFile.at \in Nat /\ mapFile.same \in BOOLEAN
    /\ \A p \in GnProcesses : mapBusy[p].writes = 0 \/ mapBusy[p].loads = 0
    /\ gnRow \in [GnChannels -> [id : GnIds, mode : GnModes, locked : BOOLEAN]]
    /\ autoFill \in BOOLEAN /\ clearing \in BOOLEAN /\ cleared \in BOOLEAN
    /\ gnScrape.at \in {"none", "fetch", "upsert"}
    /\ typed \in [GnChannels -> GnIds]
    /\ filled \subseteq GnChannels /\ overtaken \subseteq GnChannels

\* A process whose cache passes for fresh has what the file holds ("all gunicorn
\* workers pick up new files", gracenote_map.py), whoever downloaded meanwhile, as
\* long as the file's last two contents have mtimes of their own.
MapHonest ==
    ~mapFile.same => \A p \in GnProcesses : MapCached(p) => mapCache[p].of = mapFile.of

\* The ID the user chose stays the channel's, in manual mode, whatever scrapes,
\* clearing jobs and restarts do, unless a scrape read the row before the choice.
TypedStays ==
    \A c \in GnChannels \ overtaken :
        typed[c] # NoId => gnRow[c].id = typed[c] /\ gnRow[c].mode = "manual"

\* A channel never claims a manual ID without having one.
ManualHasId == \A c \in GnChannels : gnRow[c].mode = "manual" => gnRow[c].id # NoId

\* Once auto-fill was switched off and its IDs cleared, no scrape that begins
\* later fills one in.
ClearedStays ==
    cleared /\ ~clearing =>
        \A c \in filled \ overtaken : gnRow[c].mode = "auto" => gnRow[c].id = NoId

GracenoteInv == GracenoteTypeOK /\ MapHonest /\ TypedStays /\ ManualHasId /\ ClearedStays
=============================================================================
