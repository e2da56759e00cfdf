--------------------------- MODULE ProvidersProofs ---------------------------
(* Proofs about the modules that read other services, for every value of their     *)
(* constants: Gracenote IDs, the Plex scraper, the matching of guide channels, and *)
(* the tvtv cache.                                                                 *)
EXTENDS GracenoteIds, PlexScraper, GuideMatcher, TvtvCache, FiniteSetTheorems,
        WellFoundedInduction, TLAPS

------------------------------------------------------------------------------
(* Gracenote IDs (GracenoteIds) *)

\* The type of a row
GnRows == [id : GnIds, mode : GnModes, locked : BOOLEAN]

\* What is true of the map: no process has an mtime from the future, and one
\* that has the file's mtime has the file's version, unless two had that mtime.
MapOK ==
    /\ gnCounts \in [fetches : 0 .. MaxMapFetches, edits : Nat, restarts : Nat]
    /\ mapFile \in [of : 0 .. MaxMapFetches + 1, at : Nat \ {0}, same : BOOLEAN]
    /\ mapCache \in [GnProcesses -> [known : BOOLEAN, of : 0 .. MaxMapFetches + 1, at : Nat]]
    /\ mapBusy \in [GnProcesses -> [writes : 0 .. MaxMapFetches + 1, loads : Nat]]
    /\ \A p \in GnProcesses :
          /\ mapBusy[p].writes = 0 \/ mapBusy[p].loads = 0
          /\ mapBusy[p].loads <= mapFile.at
          /\ mapCache[p].at <= mapFile.at
          /\ mapCache[p].at = mapFile.at /\ ~mapFile.same => mapCache[p].of = mapFile.of

\* What is true of rows and choices
RowsOK ==
    /\ gnRow \in [GnChannels -> GnRows]
    /\ typed \in [GnChannels -> GnIds]
    /\ filled \subseteq GnChannels /\ overtaken \subseteq GnChannels
    /\ TypedStays /\ ManualHasId

\* What is true of the scrape
GnScrapeOK ==
    /\ gnScrape.at \in {"none", "fetch", "upsert"}
    /\ gnScrape.found \in [GnChannels -> GnIds]
    /\ gnScrape.rows \in [GnChannels -> GnRows]

\* Switches, and what clearing promises
ClearingOK ==
    /\ autoFill \in BOOLEAN /\ clearing \in BOOLEAN /\ cleared \in BOOLEAN
    /\ ClearedStays

\* The inductive invariant
GracenoteIInv == MapOK /\ RowsOK /\ GnScrapeOK /\ ClearingOK

\* Assignments to one column leave a row.
LEMMA RowColumns ==
  ASSUME NEW row \in GnRows
  PROVE  /\ \A i \in GnIds : /\ WithId(row, i) \in GnRows
                             /\ WithId(row, i).id = i /\ WithId(row, i).mode = row.mode
                             /\ WithId(row, i).locked = row.locked
         /\ \A m \in GnModes : /\ WithMode(row, m) \in GnRows
                               /\ WithMode(row, m).id = row.id /\ WithMode(row, m).mode = m
                               /\ WithMode(row, m).locked = row.locked
  BY DEF GnRows, WithId, WithMode

\* What a user applies to a channel is a row, manual only with the ID given.
LEMMA AppliedRow ==
  ASSUME NEW i \in GnIds, NEW m \in GnModes
  PROVE  /\ Applied(i, m) \in GnRows
         /\ Applied(i, m).mode = m
         /\ m # "off" => Applied(i, m).id = i
         /\ m = "off" => Applied(i, m).id = NoId
  <1>1. NoId \in GnIds
    BY DEF GnIds
  <1>2. \A j \in GnIds, a \in GnModes, l \in BOOLEAN :
            /\ [id |-> j, mode |-> a, locked |-> l] \in GnRows
            /\ [id |-> j, mode |-> a, locked |-> l].mode = a
            /\ [id |-> j, mode |-> a, locked |-> l].id = j
    BY DEF GnRows
  <1>3. \E l \in BOOLEAN :
            Applied(i, m) = [id |-> IF m = "off" THEN NoId ELSE i, mode |-> m, locked |-> l]
    BY DEF Applied, GnModes
  <1> QED  BY <1>1, <1>2, <1>3

\* A version of the map gives an ID or none.
LEMMA MapIdType ==
  ASSUME MapOK, NEW p \in GnProcesses, NEW c \in GnChannels
  PROVE  MapId(p, c) \in GnIds
  <1>1. mapCache[p].of \in 0 .. MaxMapFetches + 1
    BY DEF MapOK
  <1>2. mapCache[p].of # 0 => <<"map", mapCache[p].of>> \in GnIds
    BY <1>1, GracenoteAssumption DEF GnIds
  <1>3. NoId \in GnIds
    BY DEF GnIds
  <1> QED  BY <1>2, <1>3 DEF MapId

\* The edits of users leave the map as it is, and count.
LEMMA CountedEdit ==
  ASSUME MapOK, UNCHANGED <<mapFile, mapCache, mapBusy>>,
         gnCounts' = [gnCounts EXCEPT !.edits = @ + 1]
  PROVE  MapOK'
  <1>1. gnCounts' \in [fetches : 0 .. MaxMapFetches, edits : Nat, restarts : Nat]
    BY DEF MapOK
  <1> QED  BY <1>1 DEF MapOK

\* An edit gives rows to channels and remembers what was chosen.
LEMMA EditKeeps ==
  ASSUME GracenoteIInv, NEW S \in SUBSET GnChannels, NEW new, GnEdit(S, new),
         \A c \in S : new[c] \in GnRows /\ (new[c].mode = "manual" => new[c].id # NoId)
  PROVE  GracenoteIInv'
  <1> USE DEF GracenoteIInv
  <1>1. MapOK'
    BY CountedEdit DEF GnEdit, mapVars
  <1>2. GnScrapeOK'
    BY DEF GnEdit, GnScrapeOK
  <1>3. /\ gnRow' \in [GnChannels -> GnRows]
        /\ typed' \in [GnChannels -> GnIds]
        /\ \A c \in S : /\ gnRow'[c] = new[c]
                        /\ typed'[c] = IF new[c].mode = "manual" THEN new[c].id ELSE NoId
        /\ \A c \in GnChannels \ S : gnRow'[c] = gnRow[c] /\ typed'[c] = typed[c]
    <2>1. NoId \in GnIds /\ \A c \in S : new[c].id \in GnIds
      BY DEF GnIds, GnRows
    <2> QED  BY <2>1 DEF GnEdit, RowsOK
  <1>4. filled' = filled \ S /\ overtaken' = overtaken \ S /\ UNCHANGED choiceVars
    BY DEF GnEdit
  <1>5. RowsOK'
    <2>1. TypedStays'
      BY <1>3, <1>4 DEF RowsOK, TypedStays
    <2>2. ManualHasId'
      BY <1>3 DEF RowsOK, ManualHasId
    <2> QED  BY <1>3, <1>4, <2>1, <2>2 DEF RowsOK
  <1>6. ClearingOK'
    <2>1. \A c \in filled' \ overtaken' : c \in filled \ overtaken /\ gnRow'[c] = gnRow[c]
      BY <1>3, <1>4 DEF RowsOK
    <2>2. ClearedStays'
      BY <1>4, <2>1 DEF choiceVars, ClearingOK, ClearedStays
    <2> QED  BY <1>4, <2>2 DEF choiceVars, ClearingOK
  <1> QED  BY <1>1, <1>2, <1>5, <1>6

\* The constants among the IDs
LEMMA KnownIds == NoId \in GnIds /\ UserId \in GnIds /\ NativeId \in GnIds /\ UserId # NoId
  BY DEF GnIds, NoId, UserId

\* A user's choice for one channel
LEMMA PatchKeeps ==
  ASSUME GracenoteIInv, NEW c \in GnChannels, GracenotePatch(c)
  PROVE  GracenoteIInv'
  <1>1. PICK i \in {NoId, UserId}, m \in GnModes :
            (m = "manual" => i # NoId) /\ GnEdit({c}, [d \in {c} |-> Applied(i, m)])
    BY DEF GracenotePatch
  <1> DEFINE new == [d \in {c} |-> Applied(i, m)]
  <1>2. i \in GnIds
    BY KnownIds
  <1>3. new[c] \in GnRows /\ (new[c].mode = "manual" => new[c].id # NoId)
    BY <1>1, <1>2, AppliedRow
  <1>4. \A d \in {c} : new[d] \in GnRows /\ (new[d].mode = "manual" => new[d].id # NoId)
    BY <1>3
  <1> HIDE DEF new
  <1>5. GnEdit({c}, new) /\ {c} \in SUBSET GnChannels
    BY <1>1 DEF new
  <1> QED  BY <1>4, <1>5, EditKeeps

\* A choice for many channels
LEMMA BulkKeeps ==
  ASSUME GracenoteIInv, NEW S \in SUBSET GnChannels, GracenoteBulk(S)
  PROVE  GracenoteIInv'
  <1> DEFINE New(action, c) ==
               CASE action = "set_auto" -> Applied(gnRow[c].id, "auto")
                 [] action = "set_manual" ->
                       IF gnRow[c].id = NoId THEN gnRow[c] ELSE Applied(gnRow[c].id, "manual")
                 [] action = "set_off" -> Applied(NoId, "off")
                 [] action = "clear_ids" ->
                       Applied(NoId, IF gnRow[c].mode = "off" THEN "off" ELSE "auto")
             Touched(action) ==
               IF action = "set_manual" THEN {c \in S : gnRow[c].id # NoId} ELSE S
  <1>1. PICK action \in {"set_auto", "set_manual", "set_off", "clear_ids"} :
            GnEdit(Touched(action), [c \in Touched(action) |-> New(action, c)])
    BY DEF GracenoteBulk
  <1> DEFINE T == Touched(action)
             new == [c \in T |-> New(action, c)]
  <1>2. T \in SUBSET GnChannels
    OBVIOUS
  <1>3. ASSUME NEW c \in T
        PROVE  new[c] \in GnRows /\ (new[c].mode = "manual" => new[c].id # NoId)
    <2>1. gnRow[c] \in GnRows /\ gnRow[c].id \in GnIds /\ gnRow[c].mode \in GnModes
      BY <1>2 DEF GracenoteIInv, RowsOK, GnRows
    <2>2. {"auto", "manual", "off"} = GnModes
      BY DEF GnModes
    <2>3. CASE action = "set_auto"
      <3>1. new[c] = Applied(gnRow[c].id, "auto")
        BY <2>3
      <3> QED  BY <2>1, <2>2, <3>1, AppliedRow
    <2>4. CASE action = "set_manual"
      <3>1. new[c] = Applied(gnRow[c].id, "manual") /\ gnRow[c].id # NoId
        BY <2>4
      <3> QED  BY <2>1, <2>2, <3>1, AppliedRow
    <2>5. CASE action \in {"set_off", "clear_ids"}
      <3>1. \E m \in {"auto", "off"} : new[c] = Applied(NoId, m)
        BY <2>5
      <3> QED  BY <2>2, <3>1, AppliedRow, KnownIds
    <2> QED  BY <2>3, <2>4, <2>5
  <1>4. GnEdit(T, new)
    BY <1>1
  <1> HIDE DEF T, new
  <1> QED  BY <1>2, <1>3, <1>4, EditKeeps

\* The community map applied to all channels, or taken back from them
LEMMA CommunityKeeps ==
  ASSUME GracenoteIInv, GracenoteApplyAll \/ GracenoteClearAll
  PROVE  GracenoteIInv'
  <1>1. "web" \in GnProcesses
    BY GracenoteAssumption
  <1>2. CASE GracenoteApplyAll
    <2>1. PICK newOnly \in BOOLEAN :
            LET S == {c \in GnChannels : /\ MapId("web", c) \notin {NoId, gnRow[c].id}
                                         /\ newOnly => gnRow[c].mode = "auto"}
            IN  GnEdit(S, [c \in S |-> Applied(MapId("web", c), "manual")])
      BY <1>2 DEF GracenoteApplyAll
    <2> DEFINE S == {c \in GnChannels : /\ MapId("web", c) \notin {NoId, gnRow[c].id}
                                        /\ newOnly => gnRow[c].mode = "auto"}
               new == [c \in S |-> Applied(MapId("web", c), "manual")]
    <2>2. ASSUME NEW c \in S
          PROVE  new[c] \in GnRows /\ (new[c].mode = "manual" => new[c].id # NoId)
      <3>1. MapId("web", c) \in GnIds /\ MapId("web", c) # NoId /\ "manual" \in GnModes
        BY <1>1, MapIdType DEF GracenoteIInv, GnModes
      <3>2. new[c] = Applied(MapId("web", c), "manual")
        OBVIOUS
      <3> QED  BY <3>1, <3>2, AppliedRow
    <2>3. GnEdit(S, new) /\ S \in SUBSET GnChannels
      BY <2>1
    <2> HIDE DEF S, new
    <2> QED  BY <2>2, <2>3, EditKeeps
  <1>3. CASE GracenoteClearAll
    <2> DEFINE S == {c \in GnChannels : /\ MapId("web", c) # NoId
                                        /\ gnRow[c].id # NoId \/ gnRow[c].mode # "auto"}
               new == [c \in S |-> WithId(WithMode(gnRow[c], "auto"), NoId)]
    <2>1. ASSUME NEW c \in S
          PROVE  new[c] \in GnRows /\ (new[c].mode = "manual" => new[c].id # NoId)
      <3>1. gnRow[c] \in GnRows /\ "auto" \in GnModes
        BY DEF GracenoteIInv, RowsOK, GnModes
      <3>2. WithMode(gnRow[c], "auto") \in GnRows /\ WithMode(gnRow[c], "auto").mode = "auto"
        BY <3>1, RowColumns
      <3>3. new[c] \in GnRows /\ new[c].mode = "auto"
        BY <3>2, RowColumns, KnownIds
      <3> QED  BY <3>3
    <2>2. GnEdit(S, new) /\ S \in SUBSET GnChannels
      BY <1>3 DEF GracenoteClearAll
    <2> HIDE DEF S, new
    <2> QED  BY <2>1, <2>2, EditKeeps
  <1> QED  BY <1>2, <1>3

\* The switch, and the button that clears
LEMMA SwitchKeeps ==
  ASSUME GracenoteIInv, AutoFillSet
  PROVE  GracenoteIInv'
  <1> USE DEF GracenoteIInv
  <1>1. MapOK'
    BY CountedEdit DEF AutoFillSet, mapVars
  <1>2. UNCHANGED <<gnRow, gnScrape, typed, filled, overtaken>>
    BY DEF AutoFillSet, gnHistory
  <1>3. RowsOK' /\ GnScrapeOK'
    BY <1>2 DEF RowsOK, GnScrapeOK, TypedStays, ManualHasId
  <1>4. /\ autoFill' \in BOOLEAN /\ clearing' \in BOOLEAN /\ cleared' \in BOOLEAN
        /\ cleared' /\ ~clearing' => cleared /\ ~clearing
    <2>1. CASE autoFill' \in BOOLEAN /\ cleared' = (cleared /\ ~autoFill') /\ clearing' = clearing
      <3>1. cleared' \in BOOLEAN /\ (cleared' => cleared)
        BY <2>1, Zenon
      <3>2. clearing \in BOOLEAN
        BY DEF ClearingOK
      <3> QED  BY <2>1, <3>1, <3>2
    <2>2. CASE autoFill' = FALSE /\ clearing' = TRUE /\ cleared' = TRUE
      BY <2>2
    <2> QED  BY <2>1, <2>2 DEF AutoFillSet
  <1>5. ClearedStays'
    BY <1>2, <1>4 DEF ClearingOK, ClearedStays
  <1> QED  BY <1>1, <1>3, <1>4, <1>5 DEF ClearingOK

\* The clearing job takes the IDs of channels in auto mode, and of no others.
LEMMA AutoClearKeeps ==
  ASSUME GracenoteIInv, AutoClear
  PROVE  GracenoteIInv'
  <1> USE DEF GracenoteIInv
  <1>1. ASSUME NEW c \in GnChannels
        PROVE  /\ gnRow'[c] \in GnRows
               /\ gnRow[c].mode = "auto" => gnRow'[c].id = NoId /\ gnRow'[c].mode = "auto"
               /\ gnRow[c].mode # "auto" => gnRow'[c] = gnRow[c]
    <2>1. gnRow[c] \in GnRows
      BY DEF RowsOK
    <2>2. gnRow'[c] = IF gnRow[c].mode = "auto" THEN WithId(gnRow[c], NoId) ELSE gnRow[c]
      BY DEF AutoClear
    <2> QED  BY <2>1, <2>2, RowColumns, KnownIds
  <1>2. gnRow' \in [GnChannels -> GnRows]
    <2>1. \E R : gnRow' = [c \in GnChannels |-> R[c]]
      <3> WITNESS [c \in GnChannels |-> IF gnRow[c].mode = "auto"
                                        THEN WithId(gnRow[c], NoId) ELSE gnRow[c]]
      <3> QED  BY DEF AutoClear
    <2> QED  BY <1>1, <2>1
  <1>3. UNCHANGED <<mapFile, mapCache, mapBusy, autoFill, cleared, gnScrape, typed, filled,
                    overtaken, gnCounts>>
    BY DEF AutoClear, mapVars, gnHistory
  <1>4. MapOK' /\ GnScrapeOK'
    BY <1>3 DEF MapOK, GnScrapeOK
  <1>5. RowsOK'
    <2>1. TypedStays' /\ ManualHasId'
      BY <1>1, <1>3 DEF RowsOK, TypedStays, ManualHasId
    <2> QED  BY <1>2, <1>3, <2>1 DEF RowsOK
  <1>6. \A c \in GnChannels : gnRow'[c].mode = "auto" => gnRow'[c].id = NoId
    BY <1>1
  <1>7. ClearingOK'
    <2>1. clearing' = FALSE /\ autoFill' \in BOOLEAN /\ cleared' \in BOOLEAN
      BY <1>3 DEF AutoClear, ClearingOK
    <2>2. ClearedStays'
      BY <1>3, <1>6 DEF ClearedStays, RowsOK
    <2> QED  BY <2>1, <2>2, Zenon DEF ClearingOK
  <1> QED  BY <1>4, <1>5, <1>7

-----------------------------------------------------------------------------
\* What holds when only the map, the scrape and the counters change
LEMMA RowsUntouched ==
  ASSUME GracenoteIInv, UNCHANGED <<gnRow, choiceVars, gnHistory>>
  PROVE  RowsOK' /\ ClearingOK'
  BY DEF GracenoteIInv, RowsOK, ClearingOK, TypedStays, ManualHasId, ClearedStays, choiceVars,
         gnHistory

\* A process occupied with the map, and nothing else about processes changed
LEMMA BusyChanges ==
  ASSUME MapOK, NEW p \in GnProcesses, NEW busy,
         busy \in [writes : 0 .. MaxMapFetches + 1, loads : Nat],
         busy.writes = 0 \/ busy.loads = 0,
         mapBusy' = [mapBusy EXCEPT ![p] = busy],
         NEW t \in Nat, mapFile.at <= t, busy.loads <= t
  PROVE  /\ mapBusy' \in [GnProcesses -> [writes : 0 .. MaxMapFetches + 1, loads : Nat]]
         /\ \A q \in GnProcesses : /\ mapBusy'[q].writes = 0 \/ mapBusy'[q].loads = 0
                                   /\ mapBusy'[q].loads <= t
  <1>1. mapBusy'[p] = busy /\ \A q \in GnProcesses \ {p} : mapBusy'[q] = mapBusy[q]
    BY DEF MapOK
  <1>2. mapBusy' \in [GnProcesses -> [writes : 0 .. MaxMapFetches + 1, loads : Nat]]
    BY DEF MapOK
  <1>3. \A q \in GnProcesses \ {p} : mapBusy'[q].loads <= t
    <2> TAKE q \in GnProcesses \ {p}
    <2>1. mapBusy[q].loads \in Nat /\ mapBusy[q].loads <= mapFile.at /\ mapFile.at \in Nat
      BY DEF MapOK
    <2> QED  BY <1>1, <2>1
  <1> QED  BY <1>1, <1>2, <1>3 DEF MapOK

\* A file whose content has an mtime of its own is in nobody's cache yet.
LEMMA FileRenewed ==
  ASSUME MapOK, NEW v \in 0 .. MaxMapFetches + 1, MapChange(v)
  PROVE  /\ mapFile' \in [of : 0 .. MaxMapFetches + 1, at : Nat \ {0}, same : BOOLEAN]
         /\ mapFile'.at \in Nat /\ mapFile.at <= mapFile'.at
         /\ \A q \in GnProcesses :
               /\ mapCache[q].at <= mapFile'.at
               /\ ~mapFile'.same => mapCache[q].at # mapFile'.at
  <1>1. mapFile.at \in Nat \ {0}
    BY DEF MapOK
  <1>2. PICK same \in BOOLEAN :
           mapFile' = [of |-> v, at |-> IF same THEN mapFile.at ELSE mapFile.at + 1, same |-> same]
    BY DEF MapChange
  <1>3. mapFile'.same = same /\ mapFile'.at = IF same THEN mapFile.at ELSE mapFile.at + 1
    BY <1>2
  <1>4. mapFile' \in [of : 0 .. MaxMapFetches + 1, at : Nat \ {0}, same : BOOLEAN]
    BY <1>1, <1>2
  <1>5. mapFile'.at \in Nat /\ mapFile.at <= mapFile'.at /\ (~same => mapFile.at < mapFile'.at)
    BY <1>1, <1>3
  <1>6. \A q \in GnProcesses : mapCache[q].at \in Nat /\ mapCache[q].at <= mapFile.at
    BY DEF MapOK
  <1>7. ASSUME NEW q \in GnProcesses
        PROVE  mapCache[q].at <= mapFile'.at /\ (~same => mapCache[q].at # mapFile'.at)
    BY <1>1, <1>5, <1>6
  <1> QED  BY <1>3, <1>4, <1>5, <1>7

\* Unoccupied and NoMap, as records
LEMMA MapIdle ==
  /\ Unoccupied \in [writes : 0 .. MaxMapFetches + 1, loads : Nat]
  /\ Unoccupied.writes = 0 /\ Unoccupied.loads = 0
  /\ NoMap \in [known : BOOLEAN, of : 0 .. MaxMapFetches + 1, at : Nat]
  /\ NoMap.of = 0 /\ NoMap.at = 0
  BY GracenoteAssumption DEF Unoccupied, NoMap

\* The file is opened, which cuts it off.
LEMMA MapOpenKeeps ==
  ASSUME GracenoteIInv, NEW p \in GnProcesses, MapOpen(p)
  PROVE  GracenoteIInv'
  <1> USE DEF GracenoteIInv
  <1>1. /\ gnCounts.fetches \in 0 .. MaxMapFetches /\ gnCounts.fetches < MaxMapFetches
        /\ mapFile.at \in Nat
    BY DEF MapOpen, MapOK
  <1>2. gnCounts' \in [fetches : 0 .. MaxMapFetches, edits : Nat, restarts : Nat]
    <2>1. gnCounts.fetches + 1 \in 0 .. MaxMapFetches
      BY <1>1, GracenoteAssumption
    <2> QED  BY <2>1 DEF MapOpen, MapOK
  <1> DEFINE busy == [writes |-> gnCounts.fetches + 2, loads |-> 0]
  <1>3. /\ busy \in [writes : 0 .. MaxMapFetches + 1, loads : Nat]
        /\ busy.loads = 0
    <2>1. gnCounts.fetches + 2 \in 0 .. MaxMapFetches + 1
      BY <1>1, GracenoteAssumption
    <2> QED  BY <2>1
  <1>4. /\ mapBusy' = [mapBusy EXCEPT ![p] = busy]
        /\ MapChange(0)
        /\ UNCHANGED <<mapCache, gnRow, gnScrape, choiceVars, gnHistory>>
    BY DEF MapOpen
  <1> HIDE DEF busy
  <1>5. 0 \in 0 .. MaxMapFetches + 1
    BY <1>1, GracenoteAssumption
  <1>6. MapOK'
    <2>1. /\ mapFile' \in [of : 0 .. MaxMapFetches + 1, at : Nat \ {0}, same : BOOLEAN]
          /\ mapFile'.at \in Nat /\ mapFile.at <= mapFile'.at
          /\ \A q \in GnProcesses :
                /\ mapCache[q].at <= mapFile'.at
                /\ ~mapFile'.same => mapCache[q].at # mapFile'.at
      BY <1>4, <1>5, FileRenewed
    <2>2. /\ mapBusy' \in [GnProcesses -> [writes : 0 .. MaxMapFetches + 1, loads : Nat]]
          /\ \A q \in GnProcesses : /\ mapBusy'[q].writes = 0 \/ mapBusy'[q].loads = 0
                                    /\ mapBusy'[q].loads <= mapFile'.at
      <3>1. 0 <= mapFile'.at
        BY <2>1
      <3> QED  BY <1>3, <1>4, <2>1, <3>1, BusyChanges
    <2> QED  BY <1>2, <1>4, <2>1, <2>2 DEF MapOK
  <1>7. GnScrapeOK'
    BY <1>4 DEF GnScrapeOK
  <1> QED  BY <1>4, <1>6, <1>7, RowsUntouched

\* The file is written, and the writer's cache dropped.
LEMMA MapWriteKeeps ==
  ASSUME GracenoteIInv, NEW p \in GnProcesses, MapWrite(p)
  PROVE  GracenoteIInv'
  <1> USE DEF GracenoteIInv
  <1>1. mapBusy[p].writes \in 0 .. MaxMapFetches + 1 /\ mapFile.at \in Nat
    BY DEF MapOK
  <1>2. /\ MapChange(mapBusy[p].writes)
        /\ mapBusy' = [mapBusy EXCEPT ![p] = Unoccupied]
        /\ mapCache' = [mapCache EXCEPT ![p] = NoMap]
        /\ UNCHANGED <<gnRow, gnScrape, choiceVars, gnHistory, gnCounts>>
    BY DEF MapWrite
  <1>4. MapOK'
    <2>1. /\ mapFile' \in [of : 0 .. MaxMapFetches + 1, at : Nat \ {0}, same : BOOLEAN]
          /\ mapFile'.at \in Nat /\ mapFile.at <= mapFile'.at
          /\ \A q \in GnProcesses :
                /\ mapCache[q].at <= mapFile'.at
                /\ ~mapFile'.same => mapCache[q].at # mapFile'.at
      BY <1>1, <1>2, FileRenewed
    <2>2. /\ mapBusy' \in [GnProcesses -> [writes : 0 .. MaxMapFetches + 1, loads : Nat]]
          /\ \A q \in GnProcesses : /\ mapBusy'[q].writes = 0 \/ mapBusy'[q].loads = 0
                                    /\ mapBusy'[q].loads <= mapFile'.at
      <3>1. Unoccupied.loads <= mapFile'.at
        BY <2>1, MapIdle
      <3> QED  BY <1>2, <2>1, <3>1, MapIdle, BusyChanges
    <2>3. mapCache' \in [GnProcesses -> [known : BOOLEAN, of : 0 .. MaxMapFetches + 1, at : Nat]]
      BY <1>2, MapIdle DEF MapOK
    <2>4. \A q \in GnProcesses :
              /\ mapCache'[q].at <= mapFile'.at
              /\ mapCache'[q].at = mapFile'.at /\ ~mapFile'.same => mapCache'[q].of = mapFile'.of
      <3>1. mapFile'.at # 0 /\ 0 <= mapFile'.at
        BY <2>1
      <3> QED  BY <1>2, <2>1, <3>1, MapIdle DEF MapOK
    <2> QED  BY <1>2, <2>1, <2>2, <2>3, <2>4 DEF MapOK
  <1>5. GnScrapeOK'
    BY <1>2 DEF GnScrapeOK
  <1> QED  BY <1>2, <1>4, <1>5, RowsUntouched

\* The mtime is taken before the file is read.
LEMMA MapLoadKeeps ==
  ASSUME GracenoteIInv, NEW p \in GnProcesses, MapLoad(p)
  PROVE  GracenoteIInv'
  <1> USE DEF GracenoteIInv
  <1> DEFINE busy == [writes |-> 0, loads |-> mapFile.at]
  <1>1. mapFile.at \in Nat /\ 0 \in 0 .. MaxMapFetches + 1
    BY GracenoteAssumption DEF MapOK
  <1>2. /\ busy \in [writes : 0 .. MaxMapFetches + 1, loads : Nat]
        /\ busy.writes = 0 /\ busy.loads <= mapFile.at /\ mapFile.at <= mapFile.at
    BY <1>1
  <1>3. /\ mapBusy' = [mapBusy EXCEPT ![p] = busy]
        /\ UNCHANGED <<mapFile, mapCache, gnRow, gnScrape, choiceVars, gnHistory, gnCounts>>
    BY DEF MapLoad
  <1> HIDE DEF busy
  <1>4. /\ mapBusy' \in [GnProcesses -> [writes : 0 .. MaxMapFetches + 1, loads : Nat]]
        /\ \A q \in GnProcesses : /\ mapBusy'[q].writes = 0 \/ mapBusy'[q].loads = 0
                                  /\ mapBusy'[q].loads <= mapFile.at
    BY <1>1, <1>2, <1>3, BusyChanges
  <1>5. MapOK' /\ GnScrapeOK'
    BY <1>3, <1>4 DEF MapOK, GnScrapeOK
  <1> QED  BY <1>3, <1>5, RowsUntouched

\* What is read is at least as new as the mtime it is filed under.
LEMMA MapReadKeeps ==
  ASSUME GracenoteIInv, NEW p \in GnProcesses, MapRead(p)
  PROVE  GracenoteIInv'
  <1> USE DEF GracenoteIInv
  <1> DEFINE new == [known |-> TRUE, of |-> mapFile.of, at |-> mapBusy[p].loads]
  <1>1. /\ mapFile.at \in Nat /\ mapFile.of \in 0 .. MaxMapFetches + 1
        /\ mapBusy[p].loads \in Nat /\ mapBusy[p].loads <= mapFile.at
    BY DEF MapOK
  <1>2. /\ new \in [known : BOOLEAN, of : 0 .. MaxMapFetches + 1, at : Nat]
        /\ new.of = mapFile.of /\ new.at <= mapFile.at
    BY <1>1
  <1>3. /\ mapCache' = [mapCache EXCEPT ![p] = new]
        /\ mapBusy' = [mapBusy EXCEPT ![p] = Unoccupied]
        /\ UNCHANGED <<mapFile, gnRow, gnScrape, choiceVars, gnHistory, gnCounts>>
    BY DEF MapRead
  <1> HIDE DEF new
  <1>4. /\ mapBusy' \in [GnProcesses -> [writes : 0 .. MaxMapFetches + 1, loads : Nat]]
        /\ \A q \in GnProcesses : /\ mapBusy'[q].writes = 0 \/ mapBusy'[q].loads = 0
                                  /\ mapBusy'[q].loads <= mapFile.at
    <2>1. mapFile.at <= mapFile.at /\ Unoccupied.loads <= mapFile.at
      BY <1>1, MapIdle
    <2> QED  BY <1>1, <1>3, <2>1, MapIdle, BusyChanges
  <1>5. /\ mapCache' \in [GnProcesses -> [known : BOOLEAN, of : 0 .. MaxMapFetches + 1, at : Nat]]
        /\ mapCache'[p] = new /\ \A q \in GnProcesses \ {p} : mapCache'[q] = mapCache[q]
    BY <1>2, <1>3 DEF MapOK
  <1>6. \A q \in GnProcesses : /\ mapCache'[q].at <= mapFile.at
                               /\ mapCache'[q].at = mapFile.at /\ ~mapFile.same
                                     => mapCache'[q].of = mapFile.of
    BY <1>2, <1>5 DEF MapOK
  <1>7. MapOK' /\ GnScrapeOK'
    BY <1>3, <1>4, <1>5, <1>6 DEF MapOK, GnScrapeOK
  <1> QED  BY <1>3, <1>7, RowsUntouched

-----------------------------------------------------------------------------
\* A scrape begins with nothing read.
LEMMA ScrapeBeginKeeps ==
  ASSUME GracenoteIInv, GnScrapeBegin \/ GnScrapeFetch
  PROVE  GracenoteIInv'
  <1> USE DEF GracenoteIInv
  <1>1. UNCHANGED <<mapFile, mapCache, mapBusy, gnCounts, gnRow, choiceVars, gnHistory>>
    BY DEF GnScrapeBegin, GnScrapeFetch, mapVars
  <1>2. MapOK'
    BY <1>1 DEF MapOK
  <1>3. CASE GnScrapeBegin
    <2>1. EmptyRow \in GnRows
      BY KnownIds DEF EmptyRow, GnRows, GnModes
    <2>2. NothingFound \in [GnChannels -> GnIds] /\ EmptyRows \in [GnChannels -> GnRows]
      BY <2>1, KnownIds DEF NothingFound, EmptyRows
    <2>3. /\ gnScrape'.at = "fetch" /\ gnScrape'.found = NothingFound
          /\ gnScrape'.rows = EmptyRows
      BY <1>3 DEF GnScrapeBegin
    <2> QED  BY <1>1, <1>2, <2>2, <2>3, RowsUntouched DEF GnScrapeOK
  <1>4. CASE GnScrapeFetch
    <2> DEFINE found == [c \in GnChannels |->
                            IF c \in GnNative THEN NativeId ELSE MapId("scraper", c)]
    <2>1. found \in [GnChannels -> GnIds]
      <3>1. "scraper" \in GnProcesses
        BY GracenoteAssumption
      <3>2. \A c \in GnChannels : MapId("scraper", c) \in GnIds
        BY <3>1, MapIdType
      <3> QED  BY <3>2, KnownIds
    <2>2. gnScrape' = [at |-> "upsert", fill |-> gnScrape.fill, rows |-> gnRow, found |-> found]
      BY <1>4 DEF GnScrapeFetch
    <2> HIDE DEF found
    <2>3. gnScrape'.at = "upsert" /\ gnScrape'.found = found /\ gnScrape'.rows = gnRow
      BY <2>2
    <2>4. gnRow \in [GnChannels -> GnRows]
      BY DEF RowsOK
    <2> QED  BY <1>1, <1>2, <2>1, <2>3, <2>4, RowsUntouched DEF GnScrapeOK
  <1> QED  BY <1>3, <1>4

\* A process that forgets its map
LEMMA MapForgotten ==
  ASSUME MapOK, NEW p \in GnProcesses, mapCache' = [mapCache EXCEPT ![p] = NoMap],
         UNCHANGED <<mapFile, mapBusy, gnCounts>>
  PROVE  MapOK'
  <1>1. /\ mapCache' \in [GnProcesses -> [known : BOOLEAN, of : 0 .. MaxMapFetches + 1, at : Nat]]
        /\ mapCache'[p] = NoMap /\ \A q \in GnProcesses \ {p} : mapCache'[q] = mapCache[q]
    BY MapIdle DEF MapOK
  <1>2. mapFile.at \in Nat \ {0}
    BY DEF MapOK
  <1>3. \A q \in GnProcesses : /\ mapCache'[q].at <= mapFile.at
                               /\ mapCache'[q].at = mapFile.at /\ ~mapFile.same
                                     => mapCache'[q].of = mapFile.of
    BY <1>1, <1>2, MapIdle DEF MapOK
  <1> QED  BY <1>1, <1>3 DEF MapOK

\* A scrape fills in rows that were in auto mode when it read them; where they
\* are no longer, or clearing was asked for, the channel is remembered as overtaken.
LEMMA SaveKeeps ==
  ASSUME GracenoteIInv, GnScrapeSave
  PROVE  GracenoteIInv'
  <1> USE DEF GracenoteIInv
  <1> DEFINE fills == {c \in GnChannels : /\ gnScrape.fill
                                          /\ gnScrape.rows[c].mode = "auto"
                                          /\ gnScrape.found[c] \notin {NoId, gnScrape.rows[c].id}}
             late == {c \in fills : gnRow[c] # gnScrape.rows[c] \/ (cleared /\ gnScrape.fill)}
  <1>1. /\ gnRow' = [c \in GnChannels |-> IF c \in fills
                        THEN WithId(gnRow[c], gnScrape.found[c]) ELSE gnRow[c]]
        /\ filled' = filled \cup fills
        /\ overtaken' = overtaken \cup late
        /\ gnScrape' = NoGnScrape
        /\ mapCache' = [mapCache EXCEPT !["scraper"] = NoMap]
        /\ UNCHANGED <<mapFile, mapBusy, choiceVars, typed, gnCounts>>
    BY DEF GnScrapeSave
  <1>2. MapOK'
    <2>1. "scraper" \in GnProcesses
      BY GracenoteAssumption
    <2> QED  BY <1>1, <2>1, MapForgotten
  <1>3. GnScrapeOK'
    <2>1. EmptyRow \in GnRows
      BY KnownIds DEF EmptyRow, GnRows, GnModes
    <2> QED  BY <1>1, <2>1, KnownIds DEF GnScrapeOK, NoGnScrape, NothingFound, EmptyRows
  <1>4. \A c \in fills : /\ c \in GnChannels /\ gnScrape.found[c] \in GnIds
                         /\ gnScrape.found[c] # NoId
                         /\ gnScrape.rows[c].mode = "auto"
    BY DEF GnScrapeOK
  <1>5. \A c \in fills : c \notin late => gnRow[c] = gnScrape.rows[c]
    OBVIOUS
  <1>6. ASSUME cleared  PROVE late = fills
    <2>1. \A c \in fills : c \in late
      BY <1>6, Zenon
    <2> QED  BY <2>1
  <1> HIDE DEF fills, late
  <1>7. /\ \A c \in fills : gnRow'[c] \in GnRows /\ gnRow'[c].id # NoId
                            /\ gnRow'[c].mode = gnRow[c].mode
        /\ \A c \in GnChannels \ fills : gnRow'[c] = gnRow[c]
    BY <1>1, <1>4, RowColumns DEF RowsOK
  <1>8. RowsOK'
    <2>1. gnRow' \in [GnChannels -> GnRows]
      BY <1>1, <1>7 DEF RowsOK
    <2>2. filled' \subseteq GnChannels /\ overtaken' \subseteq GnChannels
      <3>1. late \subseteq fills
        BY DEF late
      <3> QED  BY <1>1, <1>4, <3>1 DEF RowsOK
    <2>3. TypedStays'
      <3> SUFFICES ASSUME NEW c \in GnChannels, c \notin overtaken', typed[c] # NoId
                   PROVE  gnRow'[c].id = typed[c] /\ gnRow'[c].mode = "manual"
        BY <1>1 DEF TypedStays
      <3>1. c \notin overtaken /\ c \notin late
        BY <1>1
      <3>2. gnRow[c].id = typed[c] /\ gnRow[c].mode = "manual"
        BY <3>1 DEF RowsOK, TypedStays
      <3>3. c \notin fills
        BY <1>4, <1>5, <3>1, <3>2
      <3> QED  BY <1>7, <3>2, <3>3
    <2>4. ManualHasId'
      BY <1>7 DEF ManualHasId, RowsOK
    <2> QED  BY <1>1, <2>1, <2>2, <2>3, <2>4 DEF RowsOK
  <1>9. ClearingOK'
    <2>1. UNCHANGED <<autoFill, clearing, cleared>>
      BY <1>1 DEF choiceVars
    <2>2. ASSUME cleared, ~clearing, NEW c \in filled' \ overtaken', gnRow'[c].mode = "auto"
          PROVE  gnRow'[c].id = NoId
      <3>1. c \notin fills /\ c \in filled \ overtaken
        BY <1>1, <1>6, <2>2
      <3>2. c \in GnChannels /\ gnRow'[c] = gnRow[c]
        BY <1>7, <3>1 DEF RowsOK
      <3> QED  BY <2>2, <3>1, <3>2 DEF ClearingOK, ClearedStays
    <2>3. ClearedStays'
      BY <2>1, <2>2 DEF ClearedStays
    <2> QED  BY <2>1, <2>3 DEF ClearingOK
  <1> QED  BY <1>2, <1>3, <1>8, <1>9

\* A restart makes locked rows with an ID manual and switches others off; a
\* manual row with its ID it leaves as it is.
LEMMA RestartKeeps ==
  ASSUME GracenoteIInv, GnRestart
  PROVE  GracenoteIInv'
  <1> USE DEF GracenoteIInv
  <1> DEFINE mended == [c \in GnChannels |-> IF gnRow[c].locked /\ gnRow[c].id # NoId
                           THEN WithMode(gnRow[c], "manual") ELSE gnRow[c]]
             off(c) == /\ c \in GnNamesakes /\ \E d \in GnNamesakes : gnRow[d].id # NoId
                       /\ mended[c].id = NoId /\ mended[c].mode = "auto"
  <1>1. /\ gnRow' = [c \in GnChannels |->
                        IF off(c) THEN WithMode(mended[c], "off") ELSE mended[c]]
        /\ mapCache' = [p \in GnProcesses |-> NoMap]
        /\ mapBusy' = [p \in GnProcesses |-> Unoccupied]
        /\ gnScrape' = NoGnScrape
        /\ gnCounts' = [gnCounts EXCEPT !.restarts = @ + 1]
        /\ UNCHANGED <<mapFile, choiceVars, gnHistory>>
    BY DEF GnRestart
  <1>2. ASSUME NEW c \in GnChannels
        PROVE  /\ gnRow'[c] \in GnRows /\ gnRow'[c].id = gnRow[c].id
               /\ gnRow'[c].mode \in {gnRow[c].mode, "manual", "off"}
               /\ gnRow'[c].mode = "manual" => gnRow[c].mode = "manual" \/ gnRow[c].id # NoId
               /\ gnRow[c].id # NoId => gnRow'[c].mode \in {gnRow[c].mode, "manual"}
    <2>1. gnRow[c] \in GnRows /\ "manual" \in GnModes /\ "off" \in GnModes
      BY DEF RowsOK, GnModes
    <2>2. /\ mended[c] \in GnRows /\ mended[c].id = gnRow[c].id
          /\ mended[c].mode = gnRow[c].mode \/ (mended[c].mode = "manual" /\ gnRow[c].id # NoId)
      BY <2>1, RowColumns
    <2>3. \/ gnRow'[c] = mended[c]
          \/ gnRow'[c] = WithMode(mended[c], "off") /\ mended[c].id = NoId
      BY <1>1
    <2> HIDE DEF mended
    <2> QED  BY <2>1, <2>2, <2>3, RowColumns
  <1>3. MapOK'
    <2>1. gnCounts' \in [fetches : 0 .. MaxMapFetches, edits : Nat, restarts : Nat]
      BY <1>1 DEF MapOK
    <2>2. mapFile.at \in Nat \ {0}
      BY DEF MapOK
    <2> QED  BY <1>1, <2>1, <2>2, MapIdle DEF MapOK
  <1>4. GnScrapeOK'
    <2>1. EmptyRow \in GnRows
      BY KnownIds DEF EmptyRow, GnRows, GnModes
    <2> QED  BY <1>1, <2>1, KnownIds DEF GnScrapeOK, NoGnScrape, NothingFound, EmptyRows
  <1>5. gnRow' \in [GnChannels -> GnRows]
    BY <1>1, <1>2
  <1>6. UNCHANGED <<autoFill, clearing, cleared, typed, filled, overtaken>>
    BY <1>1 DEF choiceVars, gnHistory
  <1> HIDE DEF mended
  <1>7. RowsOK'
    <2>1. TypedStays' /\ ManualHasId'
      BY <1>2, <1>6 DEF RowsOK, TypedStays, ManualHasId
    <2> QED  BY <1>5, <1>6, <2>1 DEF RowsOK
  <1>8. ClearingOK'
    <2>1. \A c \in GnChannels : gnRow'[c].mode = "auto" =>
             gnRow[c].mode = "auto" /\ gnRow'[c].id = gnRow[c].id
      BY <1>2
    <2>2. ClearedStays'
      BY <1>6, <2>1 DEF RowsOK, ClearingOK, ClearedStays
    <2> QED  BY <1>6, <2>2 DEF ClearingOK
  <1> QED  BY <1>3, <1>4, <1>7, <1>8

-----------------------------------------------------------------------------
\* The first state
LEMMA GracenoteInitInv == GracenoteInit => GracenoteIInv
  <1> SUFFICES ASSUME GracenoteInit  PROVE GracenoteIInv
    OBVIOUS
  <1> USE DEF GracenoteInit
  <1>1. EmptyRow \in GnRows /\ EmptyRow.mode = "auto" /\ EmptyRow.id = NoId
    BY KnownIds DEF EmptyRow, GnRows, GnModes
  <1>2. NothingFound \in [GnChannels -> GnIds] /\ EmptyRows \in [GnChannels -> GnRows]
    BY <1>1, KnownIds DEF NothingFound, EmptyRows
  <1>3. MapOK
    <2>1. /\ mapFile \in [of : 0 .. MaxMapFetches + 1, at : Nat \ {0}, same : BOOLEAN]
          /\ mapFile.at = 1
          /\ gnCounts \in [fetches : 0 .. MaxMapFetches, edits : Nat, restarts : Nat]
      BY GracenoteAssumption
    <2>2. /\ mapCache \in [GnProcesses -> [known : BOOLEAN, of : 0 .. MaxMapFetches + 1, at : Nat]]
          /\ mapBusy \in [GnProcesses -> [writes : 0 .. MaxMapFetches + 1, loads : Nat]]
      BY MapIdle
    <2> QED  BY <2>1, <2>2, MapIdle DEF MapOK
  <1>4. GnScrapeOK
    BY <1>2 DEF GnScrapeOK, NoGnScrape
  <1>5. RowsOK
    <2>1. \A c \in GnChannels : typed[c] = NoId /\ gnRow[c].mode = "auto"
      BY <1>1 DEF NothingFound, EmptyRows
    <2> QED  BY <1>2, <2>1 DEF RowsOK, TypedStays, ManualHasId
  <1>6. ClearingOK
    BY DEF ClearingOK, ClearedStays
  <1> QED  BY <1>3, <1>4, <1>5, <1>6 DEF GracenoteIInv

\* Every step keeps the invariant.
LEMMA GracenoteStepInv == GracenoteIInv /\ [GracenoteNext]_gnVars => GracenoteIInv'
  <1> SUFFICES ASSUME GracenoteIInv, [GracenoteNext]_gnVars  PROVE GracenoteIInv'
    OBVIOUS
  <1>1. CASE UNCHANGED gnVars
    <2>1. MapOK' /\ GnScrapeOK'
      BY <1>1 DEF gnVars, GracenoteIInv, MapOK, GnScrapeOK
    <2>2. UNCHANGED <<gnRow, choiceVars, gnHistory>>
      BY <1>1 DEF gnVars, choiceVars, gnHistory
    <2> QED  BY <2>1, <2>2, RowsUntouched DEF GracenoteIInv
  <1>2. ASSUME NEW p \in GnProcesses, MapOpen(p) \/ MapWrite(p) \/ MapLoad(p) \/ MapRead(p)
        PROVE  GracenoteIInv'
    BY <1>2, MapOpenKeeps, MapWriteKeeps, MapLoadKeeps, MapReadKeeps
  <1> QED  BY <1>1, <1>2, PatchKeeps, BulkKeeps, CommunityKeeps, SwitchKeeps, AutoClearKeeps,
              ScrapeBeginKeeps, SaveKeeps, RestartKeeps DEF GracenoteNext

\* For any number of channels, downloads, edits and restarts: a cached map that
\* passes for fresh is the file's, an ID the user chose stays unless a scrape
\* read the row before, and what was cleared stays cleared.
THEOREM GracenoteInvariant == GracenoteSpec => []GracenoteInv
  <1>1. GracenoteIInv => GracenoteInv
    <2> SUFFICES ASSUME GracenoteIInv  PROVE GracenoteInv
      OBVIOUS
    <2> USE DEF GracenoteIInv
    <2>1. GracenoteTypeOK
      BY DEF GracenoteTypeOK, MapOK, RowsOK, GnScrapeOK, ClearingOK, GnRows
    <2>2. MapHonest
      BY DEF MapHonest, MapCached, MapOK
    <2> QED  BY <2>1, <2>2 DEF GracenoteInv, RowsOK, ClearingOK
  <1> QED  BY <1>1, GracenoteInitInv, GracenoteStepInv, PTL DEF GracenoteSpec

------------------------------------------------------------------------------
(* The Plex scraper (PlexScraper) *)

\* A scrape
PlexRuns ==
    [at : {"idle", "setup", "channels", "epg", "save", "saved", "raised"}, token : Nat, full : BOOLEAN,
     chans : SUBSET PlexChannels, keyed : SUBSET PlexChannels,
     guide : SUBSET (PlexChannels \X Int), failed : SUBSET ({"page", "root", "guide"} \cup PlexGenres),
     late : BOOLEAN]

\* What a scrape works with
PlexRunOK ==
    /\ plexRun \in PlexRuns /\ plexRun.token <= plexAccepts
    /\ plexRun.keyed \subseteq plexRun.chans

\* What is stored
PlexStoredOK ==
    /\ plexNow \in 0 .. PlexLastTime
    /\ plexPage \subseteq PlexChannels
    /\ plexAccepts \in Nat \ {0}
    /\ plexStored \in 0 .. plexAccepts
    /\ plexRows \in [all : SUBSET PlexChannels, keyed : SUBSET PlexChannels]
    /\ plexRows.keyed \subseteq plexRows.all
    /\ plexScraped \in PlexNever .. plexNow /\ plexListed \in PlexNever .. plexScraped

\* The inductive invariant
PlexIInv == PlexRunOK /\ PlexStoredOK /\ PlexGuideWhole

-----------------------------------------------------------------------------
\* A token is the one there was, or the one Plex accepts.
LEMMA AuthTokens ==
  ASSUME NEW token, NEW force, NEW answers
  PROVE  PlexEnsureAuth(token, force, answers) \in {token, plexAccepts}
  BY DEF PlexEnsureAuth

\* The units that the windows cover when none fails
LEMMA WindowUnits ==
  ASSUME NEW now \in Nat
  PROVE  UNION {now + w * PlexWindow .. now + (w + 1) * PlexWindow - 1 : w \in PlexWindows \ {}}
            = now .. now + PlexDay - 1
  <1> DEFINE U == UNION {now + w * PlexWindow .. now + (w + 1) * PlexWindow - 1 : w \in PlexWindows \ {}}
  <1>1. ASSUME NEW t \in now .. now + PlexDay - 1  PROVE t \in U
    <2>1. \E w \in PlexWindows : t \in now + w * PlexWindow .. now + (w + 1) * PlexWindow - 1
      <3>1. CASE t <= now + 1
        <4>1. 0 \in PlexWindows /\ t \in now + 0 * PlexWindow .. now + (0 + 1) * PlexWindow - 1
          BY <1>1, <3>1 DEF PlexWindows, PlexWindow
        <4> QED  BY <4>1
      <3>2. CASE t \in now + 2 .. now + 3
        <4>1. 1 \in PlexWindows /\ t \in now + 1 * PlexWindow .. now + (1 + 1) * PlexWindow - 1
          BY <1>1, <3>2 DEF PlexWindows, PlexWindow
        <4> QED  BY <4>1
      <3>3. CASE t >= now + 4
        <4>1. 2 \in PlexWindows /\ t \in now + 2 * PlexWindow .. now + (2 + 1) * PlexWindow - 1
          BY <1>1, <3>3 DEF PlexWindows, PlexWindow, PlexDay
        <4> QED  BY <4>1
      <3> QED  BY <1>1, <3>1, <3>2, <3>3 DEF PlexDay
    <2> QED  BY <2>1
  <1>2. ASSUME NEW t \in U  PROVE t \in now .. now + PlexDay - 1
    BY <1>2 DEF PlexWindows, PlexWindow, PlexDay
  <1> QED  BY <1>1, <1>2

\* The units of the extra days
LEMMA ExtraUnits ==
  ASSUME NEW now \in Nat
  PROVE  PlexExtra(now) = (now \div PlexDay + 1) * PlexDay .. (now \div PlexDay + 3) * PlexDay - 1
  <1> DEFINE day == now \div PlexDay
  <1>1. day \in Nat
    BY DEF PlexDay
  <1> HIDE DEF day
  <1>2. ASSUME NEW t \in (day + 1) * PlexDay .. (day + 3) * PlexDay - 1
        PROVE  \E d \in PlexExtraDays : t \in (day + d) * PlexDay .. (day + d + 1) * PlexDay - 1
    <2>1. CASE t < (day + 2) * PlexDay
      <3>1. 1 \in PlexExtraDays /\ t \in (day + 1) * PlexDay .. (day + 1 + 1) * PlexDay - 1
        BY <1>1, <1>2, <2>1 DEF PlexExtraDays, PlexDay
      <3> QED  BY <3>1
    <2>2. CASE t >= (day + 2) * PlexDay
      <3>1. 2 \in PlexExtraDays /\ t \in (day + 2) * PlexDay .. (day + 2 + 1) * PlexDay - 1
        BY <1>1, <1>2, <2>2 DEF PlexExtraDays, PlexDay
      <3> QED  BY <3>1
    <2> QED  BY <1>1, <1>2, <2>1, <2>2 DEF PlexDay
  <1>3. ASSUME NEW d \in PlexExtraDays, NEW t \in (day + d) * PlexDay .. (day + d + 1) * PlexDay - 1
        PROVE  t \in (day + 1) * PlexDay .. (day + 3) * PlexDay - 1
    BY <1>1, <1>3 DEF PlexExtraDays, PlexDay
  <1>4. PlexExtra(now) = UNION {(day + d) * PlexDay .. (day + d + 1) * PlexDay - 1 : d \in PlexExtraDays}
    BY DEF PlexExtra, day
  <1>5. PlexExtra(now) = (day + 1) * PlexDay .. (day + 3) * PlexDay - 1
    BY <1>2, <1>3, <1>4
  <1> QED  BY <1>5 DEF day

\* Windows and extra days join without a gap.
LEMMA UnitsJoin ==
  ASSUME NEW now \in Nat
  PROVE  (now .. now + PlexDay - 1) \cup PlexExtra(now) = now .. (now \div PlexDay + 3) * PlexDay - 1
  <1> DEFINE day == now \div PlexDay
  <1>1. day \in Nat /\ day * PlexDay <= now /\ now < (day + 1) * PlexDay
    BY DEF PlexDay
  <1>2. PlexExtra(now) = (day + 1) * PlexDay .. (day + 3) * PlexDay - 1
    BY ExtraUnits
  <1> HIDE DEF day
  <1>3. (now .. now + PlexDay - 1) \cup ((day + 1) * PlexDay .. (day + 3) * PlexDay - 1)
           = now .. (day + 3) * PlexDay - 1
    BY <1>1 DEF PlexDay
  <1>4. (now .. now + PlexDay - 1) \cup PlexExtra(now) = now .. (day + 3) * PlexDay - 1
    BY <1>2, <1>3
  <1> QED  BY <1>4 DEF day

\* The guide of a scrape in which nothing fails has all the units.
LEMMA GuideUnits ==
  ASSUME NEW now \in Nat, NEW token, token = plexAccepts,
         NEW chans, NEW keyed, keyed \subseteq chans, NEW c \in chans
  PROVE  {a[2] : a \in {b \in PlexGuide(now, token, chans, keyed, {}, {}) : b[1] = c}}
            = now .. IF c \in keyed \cap plexRows.all \cap PlexEnabled
                     THEN (now \div PlexDay + 3) * PlexDay - 1
                     ELSE now + PlexDay - 1
  <1> DEFINE W == now .. now + PlexDay - 1
             E == PlexExtra(now)
             K == keyed \cap plexRows.all \cap PlexEnabled
             G == PlexGuide(now, token, chans, keyed, {}, {})
             T == {a[2] : a \in {b \in G : b[1] = c}}
  <1>1. PlexGrid(now, chans, {}) = chans \X W
    BY WindowUnits DEF PlexGrid
  <1>2. G = (chans \X W) \cup (K \X E)
    <2>1. (chans \cap keyed \cap plexRows.all \cap PlexEnabled) \ {} = K
      OBVIOUS
    <2> QED  BY <1>1, <2>1 DEF PlexGuide
  <1>3. W \cup E = now .. (now \div PlexDay + 3) * PlexDay - 1
    BY UnitsJoin
  <1> HIDE DEF W, E, K, G
  <1>4. T = IF c \in K THEN W \cup E ELSE W
    <2>1. ASSUME NEW t \in T  PROVE t \in IF c \in K THEN W \cup E ELSE W
      <3>1. PICK b \in G : b[1] = c /\ t = b[2]
        BY <2>1
      <3>2. b \in (chans \X W) \cup (K \X E)
        BY <1>2
      <3> QED  BY <3>1, <3>2
    <2>2. ASSUME NEW t \in W  PROVE t \in T
      <3>1. <<c, t>> \in G
        BY <1>2, <2>2
      <3> QED  BY <3>1
    <2>3. ASSUME c \in K, NEW t \in E  PROVE t \in T
      <3>1. <<c, t>> \in G
        BY <1>2, <2>3
      <3> QED  BY <3>1
    <2>4. T \subseteq IF c \in K THEN W \cup E ELSE W
      BY <2>1
    <2> HIDE DEF T
    <2> QED  BY <2>1, <2>2, <2>3, <2>4
  <1>5. CASE c \in K
    BY <1>3, <1>4, <1>5 DEF K, G
  <1>6. CASE c \notin K
    BY <1>4, <1>6 DEF K, W, G
  <1> QED  BY <1>5, <1>6

\* The airings of a guide are those of channels.
LEMMA GuideTyped ==
  ASSUME NEW now \in Nat, NEW token, NEW chans, chans \subseteq PlexChannels, NEW keyed,
         NEW failed, NEW unread
  PROVE  PlexGuide(now, token, chans, keyed, failed, unread) \subseteq PlexChannels \X Int
  <1>1. PlexGrid(now, chans, failed) \subseteq PlexChannels \X Int
    <2> DEFINE U == UNION {now + w * PlexWindow .. now + (w + 1) * PlexWindow - 1 : w \in PlexWindows \ failed}
    <2>1. U \subseteq Int
      OBVIOUS
    <2> HIDE DEF U
    <2>2. chans \X U \subseteq PlexChannels \X Int
      BY <2>1
    <2> QED  BY <2>2 DEF PlexGrid, U
  <1>2. PlexExtra(now) \subseteq Int
    BY DEF PlexExtra
  <1>3. ((chans \cap keyed \cap plexRows.all \cap PlexEnabled) \ unread) \X PlexExtra(now)
           \subseteq PlexChannels \X Int
    BY <1>2
  <1> QED  BY <1>1, <1>3 DEF PlexGuide

-----------------------------------------------------------------------------
\* The program begins in the invariant.
LEMMA PlexStarts == PlexInit => PlexIInv
  <1> SUFFICES ASSUME PlexInit PROVE PlexIInv
    OBVIOUS
  <1>1. plexRun \in PlexRuns /\ plexRun.at = "idle" /\ plexRun.keyed = {} /\ plexRun.token = 0
    BY DEF PlexInit, PlexIdle, PlexRuns, PlexNone
  <1>2. PlexRunOK /\ PlexGuideWhole
    BY <1>1 DEF PlexInit, PlexRunOK, PlexGuideWhole
  <1>3. PlexStoredOK
    BY PlexAssumption DEF PlexInit, PlexStoredOK, PlexNone, PlexNever
  <1> QED  BY <1>2, <1>3 DEF PlexIInv

\* What the scrape alone changes
LEMMA RunSteps ==
  ASSUME PlexIInv, plexRun' \in PlexRuns, plexRun'.token <= plexAccepts,
         plexRun'.keyed \subseteq plexRun'.chans, plexRun'.at # "save",
         plexStored' \in 0 .. plexAccepts,
         UNCHANGED <<plexNow, plexPage, plexAccepts, plexRows, plexScraped, plexListed, plexLists>>
  PROVE  PlexIInv'
  <1>1. PlexRunOK' /\ PlexGuideWhole'
    BY DEF PlexRunOK, PlexGuideWhole
  <1>2. PlexStoredOK'
    BY DEF PlexIInv, PlexStoredOK
  <1> QED  BY <1>1, <1>2 DEF PlexIInv

\* The beginning of a scrape
LEMMA PlexBeginKeeps ==
  ASSUME PlexIInv, NEW force \in BOOLEAN, PlexBegin(force)
  PROVE  PlexIInv'
  <1>1. PlexFetchesChannels(force) \in BOOLEAN
    BY Zenon DEF PlexFetchesChannels
  <1> DEFINE full == PlexFetchesChannels(force)
  <1>2. plexRun' = [PlexIdle EXCEPT !.at = "setup", !.token = plexStored, !.full = full]
    BY DEF PlexBegin
  <1>3. full \in BOOLEAN
    BY <1>1
  <1> HIDE DEF full
  <1>4. plexStored \in Nat /\ plexStored <= plexAccepts /\ plexStored \in 0 .. plexAccepts
    BY DEF PlexIInv, PlexStoredOK
  <1>5. plexRun' = [at |-> "setup", token |-> plexStored, full |-> full, chans |-> {}, keyed |-> {},
                    guide |-> {}, failed |-> {}, late |-> FALSE]
    BY <1>2 DEF PlexIdle
  <1>6. plexRun' \in PlexRuns /\ plexRun'.token = plexStored /\ plexRun'.keyed = {} /\ plexRun'.at = "setup"
    BY <1>3, <1>4, <1>5 DEF PlexRuns
  <1>7. UNCHANGED <<plexNow, plexPage, plexAccepts, plexStored, plexRows, plexScraped, plexListed, plexLists>>
    BY DEF PlexBegin
  <1> QED  BY <1>4, <1>6, <1>7, RunSteps

\* The token of a scrape after a request for one
LEMMA TokenStays ==
  ASSUME PlexIInv, NEW answers
  PROVE  PlexEnsureAuth(plexRun.token, FALSE, answers) \in 0 .. plexAccepts
  <1>1. plexRun.token \in 0 .. plexAccepts /\ plexAccepts \in 0 .. plexAccepts
    BY DEF PlexIInv, PlexRunOK, PlexStoredOK, PlexRuns
  <1>2. PlexEnsureAuth(plexRun.token, FALSE, answers) \in {plexRun.token, plexAccepts}
    BY AuthTokens
  <1> QED  BY <1>1, <1>2

\* The set-up of a scrape
LEMMA SetupKeeps ==
  ASSUME PlexIInv, NEW answers \in BOOLEAN, PlexSetup(answers)
  PROVE  PlexIInv'
  <1> DEFINE token == PlexEnsureAuth(plexRun.token, FALSE, answers)
  <1>1. token \in 0 .. plexAccepts
    BY TokenStays
  <1>2. plexRun' = [plexRun EXCEPT !.token = token,
                      !.at = IF plexRun.full THEN "channels" ELSE "epg",
                      !.chans = IF plexRun.full THEN {} ELSE plexRows.all,
                      !.keyed = IF plexRun.full THEN {} ELSE plexRows.keyed]
    BY DEF PlexSetup
  <1>3. plexStored' \in {token, plexStored}
    BY DEF PlexSetup
  <1>4. UNCHANGED <<plexNow, plexPage, plexAccepts, plexRows, plexScraped, plexListed, plexLists>>
    BY DEF PlexSetup
  <1> HIDE DEF token
  <1>5. plexRun \in PlexRuns /\ plexAccepts \in Nat /\ token \in Nat /\ token <= plexAccepts
    BY <1>1 DEF PlexIInv, PlexRunOK, PlexStoredOK
  <1>6. plexRows.all \in SUBSET PlexChannels /\ plexRows.keyed \in SUBSET PlexChannels
          /\ plexRows.keyed \subseteq plexRows.all /\ plexStored \in 0 .. plexAccepts
    BY DEF PlexIInv, PlexStoredOK
  <1>7. plexRun' \in PlexRuns /\ plexRun'.token = token /\ plexRun'.keyed \subseteq plexRun'.chans
          /\ plexRun'.at # "save"
    BY <1>2, <1>5, <1>6 DEF PlexRuns
  <1>8. plexStored' \in 0 .. plexAccepts
    BY <1>1, <1>3, <1>6
  <1> QED  BY <1>4, <1>5, <1>7, <1>8, RunSteps

\* The channel list
LEMMA FetchChannelsKeeps ==
  ASSUME PlexIInv, NEW answers \in BOOLEAN,
         NEW failed \in SUBSET ({"page", "root"} \cup PlexGenres), PlexFetchChannels(failed, answers)
  PROVE  PlexIInv'
  <1> DEFINE token == PlexEnsureAuth(plexRun.token, FALSE, answers)
             late == token # plexRun.token
             keyed == plexPage \cap PlexGridKeys(token, failed)
  <1>1. token \in 0 .. plexAccepts
    BY TokenStays
  <1>2. late \in BOOLEAN
    BY Zenon
  <1>3. \/ plexRun' = [plexRun EXCEPT !.at = "epg", !.failed = failed]
        \/ plexRun' = [plexRun EXCEPT !.at = "raised"]
        \/ plexRun' = [plexRun EXCEPT !.at = "epg", !.token = token, !.failed = failed,
                           !.late = late, !.chans = plexPage, !.keyed = keyed]
    BY DEF PlexFetchChannels
  <1>4. keyed \subseteq plexPage /\ plexPage \subseteq PlexChannels /\ plexAccepts \in Nat
    BY DEF PlexIInv, PlexStoredOK
  <1>5. plexRun \in PlexRuns /\ plexRun.token <= plexAccepts /\ plexRun.keyed \subseteq plexRun.chans
    BY DEF PlexIInv, PlexRunOK
  <1> HIDE DEF token, late, keyed
  <1> DEFINE Kept == plexRun' \in PlexRuns /\ plexRun'.token \in {token, plexRun.token}
                       /\ plexRun'.keyed \subseteq plexRun'.chans /\ plexRun'.at # "save"
  <1>6. Kept
    <2>1. CASE plexRun' = [plexRun EXCEPT !.at = "epg", !.failed = failed]
      BY <1>5, <2>1 DEF PlexRuns
    <2>2. CASE plexRun' = [plexRun EXCEPT !.at = "raised"]
      BY <1>5, <2>2 DEF PlexRuns
    <2>3. CASE plexRun' = [plexRun EXCEPT !.at = "epg", !.token = token, !.failed = failed,
                           !.late = late, !.chans = plexPage, !.keyed = keyed]
      <3>1. token \in Nat /\ plexPage \in SUBSET PlexChannels /\ keyed \in SUBSET PlexChannels
        BY <1>1, <1>4
      <3> QED  BY <1>2, <1>4, <1>5, <2>3, <3>1 DEF PlexRuns
    <2> QED  BY <1>3, <2>1, <2>2, <2>3
  <1>7. plexRun'.token <= plexAccepts /\ plexStored' \in 0 .. plexAccepts
    BY <1>1, <1>5, <1>6 DEF PlexFetchChannels, PlexIInv, PlexStoredOK
  <1> QED  BY <1>6, <1>7, RunSteps DEF PlexFetchChannels

\* The guide
LEMMA FetchEpgKeeps ==
  ASSUME PlexIInv, NEW answers \in BOOLEAN, NEW failed \in SUBSET PlexWindows,
         NEW unread \in SUBSET PlexEnabled, PlexFetchEpg(failed, unread, answers)
  PROVE  PlexIInv'
  <1> DEFINE token == PlexEnsureAuth(plexRun.token, FALSE, answers)
             late == plexRun.late \/ token # plexRun.token
             guide == PlexGuide(plexNow, token, plexRun.chans, plexRun.keyed, failed, unread)
             lost == IF failed = {} /\ unread = {} THEN plexRun.failed ELSE {"guide"}
  <1>1. token \in 0 .. plexAccepts
    BY TokenStays
  <1>2. late \in BOOLEAN
    BY Zenon
  <1>3. plexRun' = [plexRun EXCEPT !.at = "save", !.token = token, !.failed = lost,
                                   !.late = late, !.guide = guide]
    BY DEF PlexFetchEpg
  <1>4. plexRun \in PlexRuns /\ plexRun.token <= plexAccepts /\ plexRun.keyed \subseteq plexRun.chans
    BY DEF PlexIInv, PlexRunOK
  <1>5. plexNow \in Nat /\ plexAccepts \in Nat
    BY PlexAssumption DEF PlexIInv, PlexStoredOK
  <1>6. guide \subseteq PlexChannels \X Int
    BY <1>4, <1>5, GuideTyped DEF PlexRuns
  <1>7. UNCHANGED <<plexNow, plexPage, plexAccepts, plexStored, plexRows, plexScraped, plexListed>>
    BY DEF PlexFetchEpg
  <1>8. lost = {} => failed = {} /\ unread = {}
    OBVIOUS
  <1>9. lost \in SUBSET ({"page", "root", "guide"} \cup PlexGenres)
    BY <1>4 DEF PlexRuns
  <1>10. ASSUME lost = {}, token = plexAccepts, NEW c \in plexRun.chans
         PROVE  {a[2] : a \in {b \in guide : b[1] = c}}
                  = plexNow .. IF c \in plexRun.keyed \cap plexRows.all \cap PlexEnabled
                               THEN (plexNow \div PlexDay + 3) * PlexDay - 1
                               ELSE plexNow + PlexDay - 1
    <2>1. guide = PlexGuide(plexNow, token, plexRun.chans, plexRun.keyed, {}, {})
      BY <1>8, <1>10
    <2> HIDE DEF token, guide
    <2> QED  BY <1>4, <1>5, <1>10, <2>1, GuideUnits
  <1> HIDE DEF token, late, guide, lost
  <1>11. /\ plexRun' \in PlexRuns /\ plexRun'.token = token /\ plexRun'.failed = lost
         /\ plexRun'.chans = plexRun.chans /\ plexRun'.keyed = plexRun.keyed /\ plexRun'.guide = guide
    <2>1. token \in Nat /\ guide \in SUBSET (PlexChannels \X Int)
      BY <1>1, <1>6
    <2> QED  BY <1>2, <1>3, <1>4, <1>9, <2>1 DEF PlexRuns
  <1>12. PlexRunOK'
    BY <1>1, <1>4, <1>7, <1>11 DEF PlexRunOK
  <1>13. PlexStoredOK'
    BY <1>7 DEF PlexIInv, PlexStoredOK
  <1>14. PlexGuideWhole'
    BY <1>7, <1>10, <1>11 DEF PlexGuideWhole
  <1> QED  BY <1>12, <1>13, <1>14 DEF PlexIInv

\* The upserts
LEMMA PlexSaveKeeps ==
  ASSUME PlexIInv, PlexSave
  PROVE  PlexIInv'
  <1>1. plexRun' \in PlexRuns /\ plexRun'.at = "saved" /\ plexRun'.token = plexRun.token
          /\ plexRun'.chans = plexRun.chans /\ plexRun'.keyed = plexRun.keyed
    BY DEF PlexSave, PlexIInv, PlexRunOK, PlexRuns
  <1>2. PlexRunOK' /\ PlexGuideWhole'
    BY <1>1 DEF PlexSave, PlexIInv, PlexRunOK, PlexGuideWhole
  <1>3. plexRun.token \in Nat /\ plexRun.token <= plexAccepts
          /\ plexRun.keyed \subseteq plexRun.chans /\ plexRun.chans \subseteq PlexChannels
    BY DEF PlexIInv, PlexRunOK, PlexRuns
  <1>4. plexRows' \in [all : SUBSET PlexChannels, keyed : SUBSET PlexChannels]
          /\ plexRows'.keyed \subseteq plexRows'.all
    BY <1>3 DEF PlexSave, PlexIInv, PlexStoredOK
  <1>5. plexStored' \in 0 .. plexAccepts'
    BY <1>3 DEF PlexSave, PlexIInv, PlexStoredOK
  <1>6. plexScraped' \in PlexNever .. plexNow' /\ plexListed' \in PlexNever .. plexScraped'
    BY PlexAssumption DEF PlexSave, PlexIInv, PlexStoredOK, PlexNever
  <1>7. PlexStoredOK'
    BY <1>4, <1>5, <1>6 DEF PlexSave, PlexIInv, PlexStoredOK
  <1> QED  BY <1>2, <1>7 DEF PlexIInv

\* The end of the job
LEMMA EndKeeps ==
  ASSUME PlexIInv, PlexEnd
  PROVE  PlexIInv'
  <1>1. plexRun' \in PlexRuns /\ plexRun'.at = "idle" /\ plexRun'.keyed = {} /\ plexRun'.token = 0
    BY DEF PlexEnd, PlexIdle, PlexRuns, PlexNone
  <1> QED  BY <1>1, RunSteps DEF PlexEnd, PlexIInv, PlexStoredOK

\* A manifest is resolved with a token there was, or that Plex accepts.
LEMMA ResolveKeeps ==
  ASSUME PlexIInv, NEW answers \in BOOLEAN, PlexResolve(answers)
  PROVE  PlexIInv'
  <1> DEFINE token == PlexManifest(plexStored, answers)
  <1>1. token \in {PlexNone, plexStored, plexAccepts}
    <2> DEFINE first == PlexEnsureAuth(plexStored, FALSE, answers)
    <2>1. first \in {plexStored, plexAccepts}
      BY AuthTokens
    <2>2. PlexEnsureAuth(PlexNone, TRUE, answers) \in {PlexNone, plexAccepts}
      BY AuthTokens
    <2>3. token = first \/ token = PlexEnsureAuth(PlexNone, TRUE, answers)
      BY DEF PlexManifest
    <2> QED  BY <2>1, <2>2, <2>3
  <1>2. plexStored' = IF token = PlexNone THEN plexStored ELSE token
    BY DEF PlexResolve
  <1> HIDE DEF token
  <1>3. plexStored' \in 0 .. plexAccepts
    BY <1>1, <1>2 DEF PlexIInv, PlexStoredOK, PlexNone
  <1>4. UNCHANGED <<plexNow, plexPage, plexAccepts, plexRun, plexRows, plexScraped, plexListed>>
    BY DEF PlexResolve
  <1> QED  BY <1>3, <1>4 DEF PlexIInv, PlexRunOK, PlexStoredOK, PlexGuideWhole

\* A token that Plex no longer accepts
LEMMA ExpireKeeps ==
  ASSUME PlexIInv, PlexExpire
  PROVE  PlexIInv'
  <1>1. plexRun.token \in Nat /\ plexRun.token <= plexAccepts /\ plexAccepts \in Nat
    BY DEF PlexIInv, PlexRunOK, PlexRuns, PlexStoredOK
  <1>2. PlexRunOK' /\ PlexGuideWhole'
    BY <1>1 DEF PlexExpire, PlexIInv, PlexRunOK, PlexGuideWhole
  <1>3. PlexStoredOK'
    BY <1>1 DEF PlexExpire, PlexIInv, PlexStoredOK
  <1> QED  BY <1>2, <1>3 DEF PlexIInv

\* The page changes.
LEMMA RelistKeeps ==
  ASSUME PlexIInv, NEW page \in SUBSET PlexChannels, PlexRelist(page)
  PROVE  PlexIInv'
  BY DEF PlexRelist, PlexIInv, PlexRunOK, PlexStoredOK, PlexGuideWhole

\* The clock
LEMMA TickKeeps ==
  ASSUME PlexIInv, PlexTick
  PROVE  PlexIInv'
  <1>1. PlexRunOK' /\ PlexGuideWhole'
    BY DEF PlexTick, PlexIInv, PlexRunOK, PlexGuideWhole
  <1>2. PlexStoredOK'
    BY PlexAssumption DEF PlexTick, PlexIInv, PlexStoredOK, PlexNever
  <1> QED  BY <1>1, <1>2 DEF PlexIInv

\* Every step keeps the invariant.
LEMMA PlexKeeps == PlexIInv /\ [PlexNext]_plexVars => PlexIInv'
  <1> SUFFICES ASSUME PlexIInv, [PlexNext]_plexVars PROVE PlexIInv'
    OBVIOUS
  <1>1. ASSUME NEW force \in BOOLEAN, PlexBegin(force)  PROVE PlexIInv'
    BY <1>1, PlexBeginKeeps
  <1>2. ASSUME NEW answers \in BOOLEAN, PlexSetup(answers) \/ PlexResolve(answers)  PROVE PlexIInv'
    BY <1>2, SetupKeeps, ResolveKeeps
  <1>3. ASSUME NEW answers \in BOOLEAN, NEW failed \in SUBSET ({"page", "root"} \cup PlexGenres),
               PlexFetchChannels(failed, answers)
        PROVE  PlexIInv'
    BY <1>3, FetchChannelsKeeps
  <1>4. ASSUME NEW answers \in BOOLEAN, NEW failed \in SUBSET PlexWindows,
               NEW unread \in SUBSET PlexEnabled, PlexFetchEpg(failed, unread, answers)
        PROVE  PlexIInv'
    BY <1>4, FetchEpgKeeps
  <1>5. ASSUME PlexSave \/ PlexEnd \/ PlexExpire \/ PlexTick  PROVE PlexIInv'
    BY <1>5, PlexSaveKeeps, EndKeeps, ExpireKeeps, TickKeeps
  <1>6. ASSUME NEW page \in SUBSET PlexChannels, PlexRelist(page)  PROVE PlexIInv'
    BY <1>6, RelistKeeps
  <1>7. ASSUME UNCHANGED plexVars  PROVE PlexIInv'
    BY <1>7 DEF plexVars, PlexIInv, PlexRunOK, PlexStoredOK, PlexGuideWhole
  <1> QED  BY <1>1, <1>2, <1>3, <1>4, <1>5, <1>6, <1>7 DEF PlexNext, PlexScrape

\* PlexInv, which the runs check: tokens are ones that Plex has issued, keys
\* are those of stored channels, and a guide for which no request failed has no
\* gap, at whatever time of the day fetch_epg() ran (plex.py).
THEOREM PlexInvariant == PlexSpec => []PlexInv
  <1>1. PlexIInv => PlexInv
    BY DEF PlexIInv, PlexRunOK, PlexStoredOK, PlexRuns, PlexInv, PlexTypeOK
  <1> QED  BY <1>1, PlexStarts, PlexKeeps, PTL DEF PlexSpec

------------------------------------------------------------------------------
(* Matching against external guides (GuideMatcher) *)

\* Names: sequences of words
Names == Seq(STRING)

\* What the file holds, and what the processes do and know
MatcherTyped ==
    /\ MatcherTypeOK
    /\ serves \in [MatchUrls -> Guides]
    /\ DOMAIN matchDoing = MatchProcesses /\ DOMAIN guideIndex = MatchProcesses
    /\ \A p \in MatchProcesses :
          /\ matchDoing[p].at # "rest" => matchDoing[p].url \in MatchUrls
          /\ matchDoing[p].at = "match" => Indexed(p, matchDoing[p].url)

\* One who is about to parse, and was not crossed, finds the guide it asked for.
FileWhole ==
    \A p \in MatchProcesses \ crossed :
        matchDoing[p].at = "parse" =>
            /\ guideFile.of = matchDoing[p].url
            /\ guideFile.upTo = Len(serves[matchDoing[p].url])

\* One who is not at it, and was not crossed, has the guide of its index.
IndexWhole ==
    \A p \in MatchProcesses \ crossed :
        matchDoing[p].at \in {"rest", "match"} /\ guideIndex[p].known =>
            /\ guideIndex[p].of = guideIndex[p].url
            /\ guideIndex[p].upTo = Len(serves[guideIndex[p].url])

\* The keys
KeysKept ==
    /\ DOMAIN guideKey = MatchChannels /\ DOMAIN typedKey = MatchChannels
    /\ TypedKeyStays

\* The inductive invariant
MatcherIInv == MatcherTyped /\ FileWhole /\ IndexWhole /\ KeysKept

-----------------------------------------------------------------------------
\* The largest and the smallest of some numbers up to a bound
LEMMA Extremes ==
  ASSUME NEW bound \in Nat, NEW S \in SUBSET (0 .. bound), S # {}
  PROVE  /\ Min(S) \in S /\ \A n \in S : Min(S) <= n
         /\ Max(S) \in S /\ \A n \in S : Max(S) >= n
  <1>1. S \subseteq Nat
    OBVIOUS
  <1>2. \E m \in S : \A n \in S : m <= n
    <2>1. PICK m \in S : \A n \in S : ~(<<n, m>> \in OpToRel(<, Nat))
      BY <1>1, WFMin, NatLessThanWellFounded
    <2>2. \A n \in S : ~(n < m)
      BY <1>1, <2>1 DEF OpToRel
    <2> QED  BY <1>1, <2>2
  <1>3. \E m \in S : \A n \in S : m >= n
    <2> DEFINE T == {bound - n : n \in S}
    <2>1. T \subseteq Nat /\ T # {}
      <3>1. \A n \in S : bound - n \in Nat
        BY <1>1
      <3> QED  BY <3>1
    <2>2. PICK l \in T : \A k \in T : ~(<<k, l>> \in OpToRel(<, Nat))
      BY <2>1, WFMin, NatLessThanWellFounded
    <2>3. PICK m \in S : l = bound - m
      BY <2>2
    <2>4. ASSUME NEW n \in S  PROVE m >= n
      <3>1. bound - n \in T /\ bound - n \in Nat /\ l \in Nat
        BY <2>1, <2>2
      <3>2. ~(bound - n < l)
        BY <2>2, <3>1 DEF OpToRel
      <3> QED  BY <1>1, <2>3, <3>2
    <2> QED  BY <2>4
  <1> QED  BY <1>2, <1>3 DEF Min, Max

\* A name has finitely many words.
LEMMA TokensFinite ==
  ASSUME NEW name \in Names
  PROVE  IsFiniteSet(Tokens(name))
  <1>1. IsFiniteSet(1 .. Len(name)) /\ DOMAIN name = 1 .. Len(name)
    BY FS_Interval DEF Names
  <1>2. name \in Surjection(1 .. Len(name), Range(name))
    BY <1>1 DEF Surjection, Range, Names
  <1>3. IsFiniteSet(Range(name))
    BY <1>1, <1>2, FS_Surjection
  <1> QED  BY <1>3, FS_Subset DEF Tokens

\* Parts of a whole, in sixtieths
LEMMA Sixtieths ==
  ASSUME NEW a \in Nat, NEW b \in Nat, b > 0, a <= b
  PROVE  /\ (60 * a) \div b \in 0 .. 60
         /\ a = 0 => (60 * a) \div b = 0
         /\ a = b => (60 * a) \div b = 60
  OBVIOUS

\* A score never exceeds sixty sixtieths.
LEMMA Capped ==
  ASSUME NEW n \in Nat
  PROVE  Min({60, n}) = IF n < 60 THEN n ELSE 60
  <1>1. {60, n} \in SUBSET (0 .. 60 + n) /\ {60, n} # {}
    OBVIOUS
  <1>2. Min({60, n}) \in {60, n} /\ \A m \in {60, n} : Min({60, n}) <= m
    BY <1>1, Extremes
  <1> QED  BY <1>2

\* What two names have in common decides how they score.
LEMMA NameScores ==
  ASSUME NEW query \in Names, NEW name \in Names
  PROVE  /\ NameScore(query, name) \in 0 .. 60
         /\ Tokens(query) = {} => NameScore(query, name) = 0
         /\ Tokens(query) \cap Tokens(name) = {} => NameScore(query, name) <= 12
         /\ query = name /\ Tokens(query) # {} => NameScore(query, name) = 60
  <1> DEFINE both == Cardinality(Tokens(query) \cap Tokens(name))
             either == Cardinality(Tokens(query) \cup Tokens(name))
             jaccard == (60 * both) \div either
             same == IF query = name THEN Min({60, jaccard + 24}) ELSE jaccard
             begun == /\ Len(query) = 1 /\ query[1] \notin Brief
                      /\ \E w \in Tokens(name) : w = query[1] \/ <<query[1], w>> \in Begins
             none == Tokens(query) = {} \/ Tokens(name) = {}
  <1>1. NameScore(query, name) = IF none THEN 0 ELSE IF begun THEN Min({60, same + 12}) ELSE same
    BY DEF NameScore
  <1>2. CASE none
    BY <1>1, <1>2
  <1>3. CASE ~none
    <2>1. IsFiniteSet(Tokens(query)) /\ IsFiniteSet(Tokens(name))
      BY TokensFinite
    <2>2. IsFiniteSet(Tokens(query) \cup Tokens(name))
      BY <2>1, FS_Union
    <2>3. both \in Nat /\ either \in Nat /\ both <= either
      BY <2>1, <2>2, FS_Subset, FS_CardinalityType
    <2>4. either > 0
      BY <1>3, <2>2, <2>3, FS_EmptySet
    <2>5. Tokens(query) \cap Tokens(name) = {} => both = 0
      BY FS_EmptySet
    <2>6. query = name => both = either
      <3>1. query = name => Tokens(query) \cap Tokens(name) = Tokens(query) \cup Tokens(name)
        OBVIOUS
      <3> QED  BY <3>1
    <2>7. query = name => Tokens(query) \cap Tokens(name) # {}
      BY <1>3
    <2> HIDE DEF both, either, begun
    <2>8. jaccard \in 0 .. 60 /\ (both = 0 => jaccard = 0) /\ (both = either => jaccard = 60)
      BY <2>3, <2>4, Sixtieths
    <2> HIDE DEF jaccard
    <2>9. Min({60, jaccard + 24}) = IF jaccard + 24 < 60 THEN jaccard + 24 ELSE 60
      BY <2>8, Capped
    <2>10. same \in 0 .. 60 /\ (query # name => same = jaccard) /\ (query = name => same = 60)
      BY <2>6, <2>8, <2>9
    <2> HIDE DEF same
    <2>11. Min({60, same + 12}) = IF same + 12 < 60 THEN same + 12 ELSE 60
      BY <2>10, Capped
    <2>12. NameScore(query, name) \in {same, Min({60, same + 12})}
      BY <1>1, <1>3
    <2> QED  BY <1>3, <2>5, <2>7, <2>8, <2>10, <2>11, <2>12
  <1> QED  BY <1>2, <1>3

\* A channel scores what its best name does.
LEMMA Scores ==
  ASSUME NEW query \in Names, NEW names \in Seq(Names)
  PROVE  /\ Score(query, names) \in 0 .. 60
         /\ \A n \in Range(names) : NameScore(query, n) <= Score(query, names)
         /\ \A bound \in Nat : (\A n \in Range(names) : NameScore(query, n) <= bound)
                                  => Score(query, names) <= bound
  <1> DEFINE S == {NameScore(query, n) : n \in Range(names)} \cup {0}
  <1>1. Range(names) \subseteq Names
    BY DEF Range
  <1>2. \A n \in Range(names) : NameScore(query, n) \in 0 .. 60
    BY <1>1, NameScores
  <1>3. S \in SUBSET (0 .. 60) /\ S # {}
    <2>1. 0 \in S /\ 0 \in 0 .. 60
      OBVIOUS
    <2>2. \A m \in S : m \in 0 .. 60
      BY <1>2, <2>1
    <2> QED  BY <2>1, <2>2
  <1>4. Max(S) \in S /\ \A n \in S : Max(S) >= n
    BY <1>3, Extremes
  <1>5. Score(query, names) = Max(S)
    BY DEF Score
  <1>6. \A n \in Range(names) : NameScore(query, n) \in S
    OBVIOUS
  <1>7. Score(query, names) \in 0 .. 60
    BY <1>3, <1>4, <1>5
  <1>8. ASSUME NEW bound \in Nat, \A n \in Range(names) : NameScore(query, n) <= bound
        PROVE  Score(query, names) <= bound
    <2>1. \A m \in S : m <= bound
      BY <1>8
    <2> QED  BY <1>4, <1>5, <2>1
  <1> HIDE DEF S
  <1>9. \A n \in Range(names) : NameScore(query, n) <= Score(query, names)
    BY <1>2, <1>4, <1>5, <1>6, <1>7
  <1> QED  BY <1>7, <1>8, <1>9

\* Who is no candidate scores badly, or a candidate has the whole name.
LEMMA OthersScore ==
  ASSUME NEW query \in Names, NEW guide \in Seq(Seq(Names)),
         NEW c \in DOMAIN guide \ Candidates(query, guide)
  PROVE  \/ Score(query, guide[c]) <= 12
         \/ \E d \in Candidates(query, guide) : Score(query, guide[d]) = 60
  <1> DEFINE Keys(d) == Range(guide[d]) \cup {<<w>> : w \in UNION {Tokens(n) : n \in Range(guide[d])}}
             exact == {d \in DOMAIN guide : query \in Keys(d)}
             sharing == {d \in DOMAIN guide : \E w \in Tokens(query) : <<w>> \in Keys(d)}
  <1>1. Candidates(query, guide) = IF exact # {} THEN exact ELSE sharing
    BY DEF Candidates
  <1>2. \A d \in DOMAIN guide : guide[d] \in Seq(Names) /\ Range(guide[d]) \subseteq Names
    BY DEF Range
  <1>3. ASSUME \A n \in Range(guide[c]) : Tokens(query) \cap Tokens(n) = {} \/ Tokens(query) = {}
        PROVE  Score(query, guide[c]) <= 12
    <2>1. ASSUME NEW n \in Range(guide[c])  PROVE NameScore(query, n) <= 12
      <3>1. n \in Names
        BY <1>2
      <3> QED  BY <1>3, <2>1, <3>1, NameScores
    <2> QED  BY <1>2, <2>1, Scores
  <1>4. ASSUME NEW n \in Range(guide[c]), NEW w \in Tokens(query) \cap Tokens(n)
        PROVE  <<w>> \in Keys(c)
    OBVIOUS
  <1>5. CASE exact = {}
    <2>1. \A w \in Tokens(query) : <<w>> \notin Keys(c)
      BY <1>1, <1>5
    <2> HIDE DEF Keys
    <2> QED  BY <1>3, <1>4, <2>1
  <1>6. CASE exact # {} /\ Len(query) = 1
    <2>1. query = <<query[1]>> /\ Tokens(query) \subseteq {query[1]}
      BY <1>6 DEF Names, Tokens, Range
    <2>2. query \notin Keys(c)
      BY <1>1, <1>6
    <2> HIDE DEF Keys
    <2> QED  BY <1>3, <1>4, <2>1, <2>2
  <1>7. CASE exact # {} /\ Len(query) # 1
    <2>1. PICK d \in exact : TRUE
      BY <1>7
    <2>2. query \in Range(guide[d])
      <3>1. \A w : query # <<w>>
        BY <1>7
      <3> QED  BY <2>1, <3>1
    <2>3. CASE Tokens(query) = {}
      BY <1>3, <2>3
    <2>4. CASE Tokens(query) # {}
      <3>1. NameScore(query, query) = 60
        BY <2>4, NameScores
      <3>2. guide[d] \in Seq(Names)
        BY <1>2, <2>1
      <3>3. Score(query, guide[d]) \in 0 .. 60 /\ NameScore(query, query) <= Score(query, guide[d])
        BY <2>2, <3>2, Scores
      <3> DEFINE score == Score(query, guide[d])
      <3>4. score = 60
        <4>1. score \in 0 .. 60 /\ 60 <= score
          BY <3>1, <3>3
        <4>2. \A x \in 0 .. 60 : 60 <= x => x = 60
          OBVIOUS
        <4> HIDE DEF score
        <4> QED  BY <4>1, <4>2, Zenon
      <3>5. d \in Candidates(query, guide)
        BY <1>1, <1>7, <2>1, Zenon
      <3> QED  BY <3>4, <3>5
    <2> QED  BY <2>3, <2>4
  <1> QED  BY <1>5, <1>6, <1>7

\* The best of the candidates, where there are any
LEMMA BestFound ==
  ASSUME NEW query \in Names, NEW guide \in Seq(Seq(Names))
  PROVE  LET found == AutoMatch(query, guide) IN
         \A c \in Candidates(query, guide) :
            IF found = 0 THEN Score(query, guide[c]) < 36
            ELSE found \in Candidates(query, guide) /\ Score(query, guide[found]) >= 36
                    /\ Score(query, guide[found]) >= Score(query, guide[c])
  <1> DEFINE F == Candidates(query, guide)
             best == {c \in F : \A d \in F : Score(query, guide[c]) >= Score(query, guide[d])}
             found == AutoMatch(query, guide)
  <1>1. F \subseteq DOMAIN guide /\ DOMAIN guide = 1 .. Len(guide) /\ Len(guide) \in Nat
    BY DEF Candidates
  <1>2. ASSUME NEW c \in F  PROVE Score(query, guide[c]) \in 0 .. 60
    <2>1. guide[c] \in Seq(Names)
      BY <1>1
    <2> QED  BY <2>1, Scores
  <1>3. SUFFICES ASSUME NEW c \in F
                 PROVE  IF found = 0 THEN Score(query, guide[c]) < 36
                        ELSE found \in F /\ Score(query, guide[found]) >= 36
                                /\ Score(query, guide[found]) >= Score(query, guide[c])
    OBVIOUS
  <1>4. best # {}
    <2> DEFINE S == {Score(query, guide[d]) : d \in F}
    <2>1. S \in SUBSET (0 .. 60) /\ S # {}
      BY <1>2, <1>3
    <2>2. Max(S) \in S /\ \A n \in S : Max(S) >= n
      BY <2>1, Extremes
    <2>3. PICK d \in F : Score(query, guide[d]) = Max(S)
      BY <2>2
    <2>4. \A e \in F : Score(query, guide[d]) >= Score(query, guide[e])
      BY <2>2, <2>3
    <2> QED  BY <2>4
  <1>5. best \in SUBSET (0 .. Len(guide)) /\ 0 \notin best
    BY <1>1
  <1>6. Min(best) \in best
    BY <1>1, <1>4, <1>5, Extremes
  <1>7. found = IF best # {} /\ Score(query, guide[Min(best)]) >= 36 THEN Min(best) ELSE 0
    BY DEF AutoMatch
  <1>8. Min(best) \in F /\ Min(best) # 0 /\ Score(query, guide[Min(best)]) >= Score(query, guide[c])
    BY <1>5, <1>6
  <1> HIDE DEF F, best, found
  <1>9. Score(query, guide[Min(best)]) \in 0 .. 60 /\ Score(query, guide[c]) \in 0 .. 60
    BY <1>2, <1>3, <1>8
  <1>10. CASE Score(query, guide[Min(best)]) >= 36
    BY <1>4, <1>7, <1>8, <1>10
  <1>11. CASE ~(Score(query, guide[Min(best)]) >= 36)
    <2>1. found = 0
      BY <1>7, <1>11, Zenon
    <2> DEFINE score == Score(query, guide[c])
               top == Score(query, guide[Min(best)])
    <2>2. score < 36
      <3>1. score \in 0 .. 60 /\ top \in 0 .. 60 /\ top >= score /\ ~(top >= 36)
        BY <1>8, <1>9, <1>11
      <3> HIDE DEF score, top
      <3> QED  BY <3>1
    <2> QED  BY <2>1, <2>2
  <1> QED  BY <1>10, <1>11

\* Looking up words misses nothing.
LEMMA NothingMissed == NoneBetter
  <1> SUFFICES ASSUME NEW guide \in Guides, NEW query \in Range(MatchName), NEW c \in DOMAIN guide
               PROVE  LET found == AutoMatch(query, guide)
                      IN  IF found = 0 THEN Score(query, guide[c]) < 36
                          ELSE Score(query, guide[found]) >= Score(query, guide[c])
    BY DEF NoneBetter
  <1> DEFINE found == AutoMatch(query, guide)
             F == Candidates(query, guide)
  <1>1. guide \in Seq(Seq(Names)) /\ query \in Names
    BY MatchAssumption DEF Range, Names
  <1>2. \A d \in F : IF found = 0 THEN Score(query, guide[d]) < 36
                     ELSE found \in F /\ Score(query, guide[found]) >= 36
                             /\ Score(query, guide[found]) >= Score(query, guide[d])
    BY <1>1, BestFound
  <1>3. ASSUME NEW d \in DOMAIN guide  PROVE Score(query, guide[d]) \in 0 .. 60
    <2>1. guide[d] \in Seq(Names)
      BY <1>1
    <2> QED  BY <1>1, <2>1, Scores
  <1>4. F \subseteq DOMAIN guide
    BY DEF Candidates
  <1>5. c \in F \/ Score(query, guide[c]) <= 12 \/ \E d \in F : Score(query, guide[d]) = 60
    BY <1>1, OthersScore
  <1>6. found # 0 => Score(query, guide[found]) >= 36
    <2>1. CASE F = {}
      <3>1. found = 0
        BY <2>1 DEF AutoMatch
      <3> QED  BY <3>1
    <2> QED  BY <1>2, <2>1
  <1> HIDE DEF F, found
  <1>7. IF found = 0 THEN Score(query, guide[c]) < 36
        ELSE Score(query, guide[found]) >= Score(query, guide[c])
    <2>1. CASE c \in F
      BY <1>2, <2>1
    <2>2. CASE Score(query, guide[c]) <= 12
      <3>1. found = 0 \/ found \in F
        BY <1>2 DEF F, found, AutoMatch
      <3> QED  BY <1>3, <1>4, <1>6, <2>2, <3>1
    <2>3. CASE \E d \in F : Score(query, guide[d]) = 60
      <3>1. PICK d \in F : Score(query, guide[d]) = 60
        BY <2>3
      <3>2. found # 0 /\ Score(query, guide[found]) >= 60 /\ found \in F
        BY <1>2, <3>1
      <3> QED  BY <1>3, <1>4, <3>2
    <2> QED  BY <1>5, <2>1, <2>2, <2>3
  <1> QED  BY <1>7 DEF found

-----------------------------------------------------------------------------
\* The program begins in the invariant.
LEMMA MatcherStarts == MatcherInit => MatcherIInv
  <1> SUFFICES ASSUME MatcherInit PROVE MatcherIInv
    OBVIOUS
  <1>1. \A p \in MatchProcesses : matchDoing[p].at = "rest" /\ ~guideIndex[p].known
    BY DEF MatcherInit, Resting, NoIndex
  <1>2. {MaxMatchFailures, MaxMatchEdits} \subseteq Nat /\ DOMAIN MatchProviderKey = MatchChannels
    BY Zenon, MatchAssumption
  <1>3. MatcherTyped
    BY <1>1, <1>2 DEF MatcherInit, MatcherTyped, MatcherTypeOK
  <1>4. FileWhole /\ IndexWhole
    BY <1>1 DEF FileWhole, IndexWhole
  <1>5. KeysKept
    BY <1>2 DEF MatcherInit, KeysKept, TypedKeyStays
  <1> QED  BY <1>3, <1>4, <1>5 DEF MatcherIInv

\* Guides are sequences, of some length.
LEMMA GuidesLong ==
  ASSUME serves \in [MatchUrls -> Guides], NEW u \in MatchUrls
  PROVE  Len(serves[u]) \in Nat
  <1>1. serves[u] \in Seq(Seq(Seq(STRING)))
    BY MatchAssumption
  <1> QED  BY <1>1

\* The file is opened.
LEMMA OpenKeeps ==
  ASSUME MatcherIInv, NEW p \in MatchProcesses, NEW u \in MatchUrls, MatcherOpen(p, u)
  PROVE  MatcherIInv'
  <1>1. /\ matchDoing'[p].at = "write" /\ matchDoing'[p].url = u
        /\ \A q \in MatchProcesses \ {p} : matchDoing'[q] = matchDoing[q]
        /\ DOMAIN matchDoing' = MatchProcesses
    BY DEF MatcherOpen, MatcherIInv, MatcherTyped, Resting
  <1>2. crossed' \subseteq MatchProcesses
    BY DEF MatcherOpen, MatcherIInv, MatcherTyped, MatcherTypeOK, Crossed
  <1>3. \A q \in MatchProcesses \ crossed' :
           q # p => q \notin crossed /\ matchDoing[q].at \notin {"write", "parse"}
    BY DEF MatcherOpen, Crossed
  <1>4. guideFile' = [exists |-> TRUE, of |-> u, upTo |-> 0]
          /\ UNCHANGED <<serves, guideIndex, guideKey, typedKey, matchFailures, matchEdits>>
    BY DEF MatcherOpen
  <1>5. MatcherTyped'
    BY <1>1, <1>2, <1>4 DEF MatcherIInv, MatcherTyped, MatcherTypeOK, Indexed
  <1>6. FileWhole' /\ IndexWhole'
    BY <1>1, <1>3, <1>4 DEF MatcherIInv, FileWhole, IndexWhole
  <1>7. KeysKept'
    BY <1>4 DEF MatcherIInv, KeysKept, TypedKeyStays
  <1> QED  BY <1>5, <1>6, <1>7 DEF MatcherIInv

\* It is written.
LEMMA WriteKeeps ==
  ASSUME MatcherIInv, NEW p \in MatchProcesses, MatcherWrite(p)
  PROVE  MatcherIInv'
  <1> DEFINE u == matchDoing[p].url
  <1>1. matchDoing' = [matchDoing EXCEPT ![p] = [Resting EXCEPT !.at = "parse", !.url = u]]
    BY DEF MatcherWrite
  <1>2. PICK n \in 0 .. Len(serves[u]) :
           /\ n # Len(serves[u]) => matchFailures < MaxMatchFailures
           /\ matchFailures' = IF n # Len(serves[u]) THEN matchFailures + 1 ELSE matchFailures
           /\ guideFile' = [exists |-> TRUE, of |-> u, upTo |-> n]
           /\ crossed' = crossed \cup Crossed(p) \cup (IF n # Len(serves[u]) THEN {p} ELSE {})
    BY DEF MatcherWrite
  <1>3. u \in MatchUrls /\ UNCHANGED <<serves, guideIndex, guideKey, typedKey, matchEdits>>
    BY DEF MatcherWrite, MatcherIInv, MatcherTyped
  <1>4. n \in Nat /\ Len(serves[u]) \in Nat
    BY <1>3, GuidesLong DEF MatcherIInv, MatcherTyped
  <1> HIDE DEF u
  <1>5. /\ matchDoing'[p].at = "parse" /\ matchDoing'[p].url = u
        /\ \A q \in MatchProcesses \ {p} : matchDoing'[q] = matchDoing[q]
        /\ DOMAIN matchDoing' = MatchProcesses
    BY <1>1 DEF MatcherIInv, MatcherTyped, Resting
  <1>6. crossed' \subseteq MatchProcesses
    BY <1>2 DEF MatcherIInv, MatcherTyped, MatcherTypeOK, Crossed
  <1>7. \A q \in MatchProcesses \ crossed' :
           /\ q # p => q \notin crossed /\ matchDoing[q].at \notin {"write", "parse"}
           /\ q = p => n = Len(serves[u])
    BY <1>2 DEF Crossed
  <1>8. matchFailures' \in 0 .. MaxMatchFailures
    <2>1. MaxMatchFailures \in Nat /\ matchFailures \in 0 .. MaxMatchFailures
      BY Zenon, MatchAssumption DEF MatcherIInv, MatcherTyped, MatcherTypeOK
    <2> QED  BY <1>2, <2>1
  <1>9. guideFile'.upTo = n /\ guideFile'.of = u /\ guideFile'.exists = TRUE
    BY <1>2
  <1>10. MatcherTyped'
    BY <1>3, <1>4, <1>5, <1>6, <1>8, <1>9 DEF MatcherIInv, MatcherTyped, MatcherTypeOK, Indexed
  <1>11. FileWhole' /\ IndexWhole'
    BY <1>3, <1>5, <1>7, <1>9 DEF MatcherIInv, FileWhole, IndexWhole
  <1>12. KeysKept'
    BY <1>3 DEF MatcherIInv, KeysKept, TypedKeyStays
  <1> QED  BY <1>10, <1>11, <1>12 DEF MatcherIInv

\* A request fails.
LEMMA FailKeeps ==
  ASSUME MatcherIInv, NEW p \in MatchProcesses, NEW u \in MatchUrls, MatcherFail(p, u)
  PROVE  MatcherIInv'
  <1>1. /\ matchDoing'[p].at \in {"rest", "parse"}
        /\ matchDoing'[p].at = "parse" => matchDoing'[p].url = u
        /\ \A q \in MatchProcesses \ {p} : matchDoing'[q] = matchDoing[q]
        /\ DOMAIN matchDoing' = MatchProcesses
    BY DEF MatcherFail, MatcherIInv, MatcherTyped, Resting
  <1>2. /\ crossed' = crossed \cup {p}
        /\ UNCHANGED <<serves, guideFile, guideIndex, guideKey, typedKey, matchEdits>>
    BY DEF MatcherFail
  <1>3. matchFailures' \in 0 .. MaxMatchFailures
    <2>1. MaxMatchFailures \in Nat /\ matchFailures \in 0 .. MaxMatchFailures
      BY Zenon, MatchAssumption DEF MatcherIInv, MatcherTyped, MatcherTypeOK
    <2> QED  BY <2>1 DEF MatcherFail
  <1>4. MatcherTyped'
    BY <1>1, <1>2, <1>3 DEF MatcherIInv, MatcherTyped, MatcherTypeOK, Indexed
  <1>5. FileWhole' /\ IndexWhole'
    BY <1>1, <1>2 DEF MatcherIInv, FileWhole, IndexWhole
  <1>6. KeysKept'
    BY <1>2 DEF MatcherIInv, KeysKept, TypedKeyStays
  <1> QED  BY <1>4, <1>5, <1>6 DEF MatcherIInv

\* The file is parsed.
LEMMA ParseKeeps ==
  ASSUME MatcherIInv, NEW p \in MatchProcesses, MatcherParse(p)
  PROVE  MatcherIInv'
  <1>1. /\ matchDoing'[p].at = "rest"
        /\ \A q \in MatchProcesses \ {p} : matchDoing'[q] = matchDoing[q]
        /\ DOMAIN matchDoing' = MatchProcesses
    BY DEF MatcherParse, MatcherIInv, MatcherTyped, Resting
  <1>2. /\ guideIndex'[p] = [known |-> TRUE, url |-> matchDoing[p].url,
                             of |-> guideFile.of, upTo |-> guideFile.upTo]
        /\ \A q \in MatchProcesses \ {p} : guideIndex'[q] = guideIndex[q]
        /\ DOMAIN guideIndex' = MatchProcesses
    BY DEF MatcherParse, MatcherIInv, MatcherTyped
  <1>3. UNCHANGED <<serves, guideFile, guideKey, typedKey, crossed, matchFailures, matchEdits>>
    BY DEF MatcherParse
  <1>4. matchDoing[p].at = "parse" /\ matchDoing[p].url \in MatchUrls
    BY DEF MatcherParse, MatcherIInv, MatcherTyped
  <1>5. MatcherTyped'
    BY <1>1, <1>2, <1>3, <1>4 DEF MatcherIInv, MatcherTyped, MatcherTypeOK, Indexed
  <1>6. FileWhole'
    BY <1>1, <1>3 DEF MatcherIInv, FileWhole
  <1>7. IndexWhole'
    BY <1>1, <1>2, <1>3, <1>4 DEF MatcherIInv, FileWhole, IndexWhole
  <1>8. KeysKept'
    BY <1>3 DEF MatcherIInv, KeysKept, TypedKeyStays
  <1> QED  BY <1>5, <1>6, <1>7, <1>8 DEF MatcherIInv

\* The keys are read, ...
LEMMA MatcherBeginKeeps ==
  ASSUME MatcherIInv, NEW p \in MatchProcesses, NEW u \in MatchUrls, MatchBegin(p, u)
  PROVE  MatcherIInv'
  <1>1. /\ matchDoing'[p].at = "match" /\ matchDoing'[p].url = u
        /\ \A q \in MatchProcesses \ {p} : matchDoing'[q] = matchDoing[q]
        /\ DOMAIN matchDoing' = MatchProcesses
    BY DEF MatchBegin, MatcherIInv, MatcherTyped
  <1>2. matchDoing[p].at = "rest" /\ Indexed(p, u)
    BY DEF MatchBegin, Resting
  <1>3. UNCHANGED <<serves, guideFile, guideIndex, guideKey, typedKey, crossed, matchFailures, matchEdits>>
    BY DEF MatchBegin
  <1>4. MatcherTyped'
    BY <1>1, <1>2, <1>3 DEF MatcherIInv, MatcherTyped, MatcherTypeOK, Indexed
  <1>5. FileWhole' /\ IndexWhole'
    BY <1>1, <1>2, <1>3 DEF MatcherIInv, FileWhole, IndexWhole
  <1>6. KeysKept'
    BY <1>3 DEF MatcherIInv, KeysKept, TypedKeyStays
  <1> QED  BY <1>4, <1>5, <1>6 DEF MatcherIInv

\* ... and written: a key that was typed before is not among those that had none.
LEMMA CommitKeeps ==
  ASSUME MatcherIInv, NEW p \in MatchProcesses, MatchCommit(p)
  PROVE  MatcherIInv'
  <1>1. /\ matchDoing'[p].at = "rest"
        /\ \A q \in MatchProcesses \ {p} : matchDoing'[q] = matchDoing[q]
        /\ DOMAIN matchDoing' = MatchProcesses
    BY DEF MatchCommit, MatcherIInv, MatcherTyped, Resting
  <1>2. UNCHANGED <<serves, guideFile, guideIndex, crossed, matchFailures, matchEdits>>
    BY DEF MatchCommit
  <1>3. MatcherTyped'
    BY <1>1, <1>2 DEF MatcherIInv, MatcherTyped, MatcherTypeOK, Indexed
  <1>4. FileWhole'
    BY <1>1, <1>2 DEF MatcherIInv, FileWhole
  <1>5. IndexWhole'
    <2>1. matchDoing[p].at = "match"
      BY DEF MatchCommit
    <2> QED  BY <1>1, <1>2, <2>1 DEF MatcherIInv, IndexWhole
  <1>6. KeysKept'
    <2> DEFINE Found(c) == AutoMatch(MatchName[c], Known(p))
               written == {c \in MatchChannels : matchDoing[p].keys[c] = NoKey /\ Found(c) # 0}
               Match(c) == <<guideIndex[p].of, Found(c)>>
    <2>1. /\ guideKey' = [c \in MatchChannels |-> IF c \in written THEN Match(c) ELSE guideKey[c]]
          /\ typedKey' = [c \in MatchChannels |->
                             IF c \in written /\ guideKey[c] # matchDoing[p].keys[c]
                             THEN NoKey ELSE typedKey[c]]
      BY DEF MatchCommit
    <2>2. \A c \in written : matchDoing[p].keys[c] = NoKey
      OBVIOUS
    <2> HIDE DEF Found, written, Match
    <2>3. DOMAIN guideKey' = MatchChannels /\ DOMAIN typedKey' = MatchChannels
      BY <2>1
    <2>4. ASSUME NEW c \in MatchChannels, typedKey'[c] # NoKey  PROVE guideKey'[c] = typedKey'[c]
      <3>1. CASE c \in written
        BY <2>1, <2>2, <2>4, <3>1 DEF MatcherIInv, KeysKept, TypedKeyStays
      <3>2. CASE c \notin written
        BY <2>1, <2>4, <3>2 DEF MatcherIInv, KeysKept, TypedKeyStays
      <3> QED  BY <3>1, <3>2
    <2> QED  BY <2>3, <2>4 DEF KeysKept, TypedKeyStays
  <1> QED  BY <1>3, <1>4, <1>5, <1>6 DEF MatcherIInv

\* The keys that users set, and scrapes
LEMMA KeysKeep ==
  ASSUME MatcherIInv, MatchEdit \/ MatchScrape
  PROVE  MatcherIInv'
  <1>1. UNCHANGED <<serves, guideFile, matchDoing, guideIndex, crossed, matchFailures>>
    BY DEF MatchEdit, MatchScrape
  <1>2. matchEdits' \in 0 .. MaxMatchEdits
    <2>1. MaxMatchEdits \in Nat /\ matchEdits \in 0 .. MaxMatchEdits
      BY Zenon, MatchAssumption DEF MatcherIInv, MatcherTyped, MatcherTypeOK
    <2> QED  BY <2>1 DEF MatchEdit, MatchScrape
  <1>3. MatcherTyped' /\ FileWhole' /\ IndexWhole'
    BY <1>1, <1>2 DEF MatcherIInv, MatcherTyped, MatcherTypeOK, Indexed, FileWhole, IndexWhole
  <1>4. KeysKept'
    <2>1. ASSUME NEW c \in MatchChannels, NEW k,
                 guideKey' = [guideKey EXCEPT ![c] = k], typedKey' = [typedKey EXCEPT ![c] = k]
          PROVE  KeysKept'
      BY <2>1 DEF MatcherIInv, KeysKept, TypedKeyStays
    <2>2. CASE /\ guideKey' = [c \in MatchChannels |-> NoKey]
               /\ typedKey' = [c \in MatchChannels |-> NoKey]
      BY <2>2 DEF KeysKept, TypedKeyStays
    <2>3. CASE MatchScrape
      BY <2>3 DEF MatchScrape, MatcherIInv, KeysKept, TypedKeyStays
    <2> QED  BY <2>1, <2>2, <2>3 DEF MatchEdit
  <1> QED  BY <1>3, <1>4 DEF MatcherIInv

\* Every step keeps the invariant.
LEMMA MatcherKeeps == MatcherIInv /\ [MatcherNext]_matcherVars => MatcherIInv'
  <1> SUFFICES ASSUME MatcherIInv, [MatcherNext]_matcherVars PROVE MatcherIInv'
    OBVIOUS
  <1>1. ASSUME NEW p \in MatchProcesses, MatcherWrite(p) \/ MatcherParse(p) \/ MatchCommit(p)
        PROVE  MatcherIInv'
    BY <1>1, WriteKeeps, ParseKeeps, CommitKeeps
  <1>2. ASSUME NEW p \in MatchProcesses, NEW u \in MatchUrls,
               MatcherOpen(p, u) \/ MatcherFail(p, u) \/ MatchBegin(p, u)
        PROVE  MatcherIInv'
    BY <1>2, OpenKeeps, FailKeeps, MatcherBeginKeeps
  <1>3. ASSUME MatchEdit \/ MatchScrape  PROVE MatcherIInv'
    BY <1>3, KeysKeep
  <1>4. ASSUME UNCHANGED matcherVars  PROVE MatcherIInv'
    BY <1>4 DEF matcherVars, MatcherIInv, MatcherTyped, MatcherTypeOK, Indexed, FileWhole,
       IndexWhole, KeysKept, TypedKeyStays
  <1> QED  BY <1>1, <1>2, <1>3, <1>4 DEF MatcherNext

\* MatcherInv, which the runs check: auto_match() finds the best of a whole
\* guide, a match without a crossed download is one with the guide asked for,
\* and none replaces a key the user typed before it began (app/epg_matcher.py).
THEOREM MatcherInvariant == MatcherSpec => []MatcherInv
  <1>1. MatcherIInv => MatcherInv
    <2> SUFFICES ASSUME MatcherIInv PROVE MatcherInv
      OBVIOUS
    <2>1. MatcherTypeOK /\ TypedKeyStays
      BY DEF MatcherIInv, MatcherTyped, KeysKept
    <2>2. MatchedWithAsked
      BY DEF MatcherIInv, MatcherTyped, IndexWhole, Indexed, MatchedWithAsked
    <2> QED  BY <2>1, <2>2, NothingMissed DEF MatcherInv
  <1> QED  BY <1>1, MatcherStarts, MatcherKeeps, PTL DEF MatcherSpec

------------------------------------------------------------------------------
(* The tvtv cache (TvtvCache) *)

\* Requests, and runs with what they have left
TvBatches == [lineup : Nat, day : 0 .. TvDays - 1, part : Nat]
TvRunsKept ==
    [on : BOOLEAN, since : Nat, left : SUBSET TvBatches, wanted : SUBSET TvStations,
     missed : SUBSET TvStations]

\* The request of a run for S that s is in on a day
TvRequest(s, day, S) == [lineup |-> TvLineup[s], day |-> day, part |-> TvPart(s, S)]

\* What is kept, and of which type
TvKept ==
    /\ tvNow \in 0 .. TvLastTime
    /\ tvRows \in [TvStations -> SUBSET (0 .. TvLastTime + TvDay * TvDays)]
    /\ tvRun \in [TvRunners -> TvRunsKept]
    /\ \A r \in TvRunners : tvRun[r].since <= tvNow /\ tvRun[r].missed \subseteq tvRun[r].wanted
    /\ tvComplete \in [TvStations -> 0 .. NeverYet]
    /\ \A s \in TvStations : tvComplete[s] = NeverYet \/ tvComplete[s] <= tvNow
    /\ tvRuns \in 0 .. MaxTvRuns

\* Of a station for which every request so far brought something, what is still
\* to come of a day is in the rows, or the day is still to be asked for.
TvFetched ==
    \A r \in TvRunners : tvRun[r].on =>
        \A s \in tvRun[r].wanted \ tvRun[r].missed, day \in 0 .. TvDays - 1 :
            TvLineup[s] # 0 =>
                \/ TvRequest(s, day, tvRun[r].wanted) \in tvRun[r].left
                \/ \A t \in GridWindow(day, tvRun[r].since) : t >= tvNow => t \in tvRows[s]

\* From a complete run on, all that is still to come of its days is there.
TvAhead ==
    \A s \in TvStations : tvComplete[s] <= tvNow =>
        \A t \in tvNow .. tvComplete[s] + TvDay * (TvDays - 1) : t \in tvRows[s]

\* The inductive invariant
TvIInv == TvKept /\ TvFetched /\ TvAhead

\* Days of the guide
LEMMA Division ==
  ASSUME NEW a \in Nat, NEW d \in Nat \ {0}
  PROVE  /\ a \div d \in Nat
         /\ d * (a \div d) <= a
         /\ a < d * (a \div d) + d
  OBVIOUS

\* A larger multiple is one of a larger number.
LEMMA Multiples ==
  ASSUME NEW a \in Int, NEW b \in Int, NEW d \in Nat \ {0}, d * a < d * b
  PROVE  a < b
  OBVIOUS

\* And of a larger number.
LEMMA MultiplesGrow ==
  ASSUME NEW a \in Int, NEW b \in Int, NEW d \in Nat \ {0}, a <= b
  PROVE  d * a <= d * b
  OBVIOUS

\* The window of a day
LEMMA Windows ==
  ASSUME NEW day \in 0 .. TvDays - 1, NEW since \in 0 .. TvLastTime
  PROVE  /\ GridWindow(day, since) \subseteq 0 .. TvLastTime + TvDay * TvDays
         /\ GridWindow(day, since) =
               TvDay * (since \div TvDay + day) .. TvDay * (since \div TvDay + day) + TvDay - 1
  <1> DEFINE q == since \div TvDay
  <1>1. TvDay \in Nat \ {0} /\ TvDays \in Nat \ {0} /\ TvLastTime \in Nat
    BY TvAssumption
  <1>2. q \in Nat /\ TvDay * q <= since
    BY <1>1, Division
  <1>3. GridWindow(day, since) = TvDay * (q + day) .. TvDay * (q + day) + TvDay - 1
    BY DEF GridWindow
  <1> HIDE DEF q
  <1>4. TvDay * (q + day) = TvDay * q + TvDay * day
    BY <1>1, <1>2
  <1>5. TvDay * day <= TvDay * (TvDays - 1)
    BY <1>1, MultiplesGrow
  <1>6. TvDay * (TvDays - 1) = TvDay * TvDays - TvDay
    BY <1>1
  <1>7. TvDay * q \in Nat /\ TvDay * day \in Nat /\ TvDay * TvDays \in Nat
    BY <1>1, <1>2
  <1> DEFINE a == TvDay * q
             b == TvDay * day
             e == TvDay * TvDays
  <1> HIDE DEF a, b, e
  <1>8. /\ a \in Nat /\ b \in Nat /\ e \in Nat /\ a <= since /\ b <= e - TvDay
        /\ GridWindow(day, since) = a + b .. a + b + TvDay - 1
    BY <1>2, <1>3, <1>4, <1>5, <1>6, <1>7 DEF a, b, e
  <1>9. GridWindow(day, since) \subseteq 0 .. TvLastTime + e
    BY <1>1, <1>8
  <1> QED  BY <1>3, <1>9 DEF e, q

\* All days but one from any time in the first are in the windows.
LEMMA Covered ==
  ASSUME NEW since \in 0 .. TvLastTime, NEW t \in since .. since + TvDay * (TvDays - 1)
  PROVE  \E day \in 0 .. TvDays - 1 : t \in GridWindow(day, since)
  <1> DEFINE q == since \div TvDay
             m == t \div TvDay
  <1>1. TvDay \in Nat \ {0} /\ TvDays \in Nat \ {0} /\ TvLastTime \in Nat
    BY TvAssumption
  <1>2. TvDay * (TvDays - 1) \in Nat
    BY <1>1
  <1>3. t \in Nat /\ since \in Nat
    BY <1>1, <1>2
  <1>4. q \in Nat /\ TvDay * q <= since /\ since < TvDay * q + TvDay
    BY <1>1, <1>3, Division
  <1>5. m \in Nat /\ TvDay * m <= t /\ t < TvDay * m + TvDay
    BY <1>1, <1>3, Division
  <1> HIDE DEF q, m
  <1>6. TvDay * q < TvDay * (m + 1)
    <2>1. TvDay * (m + 1) = TvDay * m + TvDay
      BY <1>1, <1>5
    <2> DEFINE a == TvDay * q
               b == TvDay * m
    <2>2. a \in Nat /\ b \in Nat
      BY <1>1, <1>4, <1>5
    <2> HIDE DEF a, b
    <2>3. a <= since /\ t < b + TvDay /\ since <= t
      BY <1>2, <1>3, <1>4, <1>5 DEF a, b
    <2>4. a < b + TvDay
      BY <1>1, <1>3, <2>2, <2>3
    <2> QED  BY <2>1, <2>4 DEF a, b
  <1>7. TvDay * m < TvDay * (q + TvDays)
    <2>1. TvDay * (q + TvDays) = TvDay * q + TvDay * (TvDays - 1) + TvDay
      BY <1>1, <1>4
    <2> DEFINE a == TvDay * q
               b == TvDay * m
               e == TvDay * (TvDays - 1)
    <2>2. a \in Nat /\ b \in Nat /\ e \in Nat
      BY <1>1, <1>2, <1>4, <1>5
    <2>3. b <= t /\ t <= since + e /\ since < a + TvDay
      BY <1>2, <1>3, <1>4, <1>5
    <2> HIDE DEF a, b, e
    <2>4. b < a + e + TvDay
      BY <1>1, <1>3, <2>2, <2>3
    <2> QED  BY <2>1, <2>4 DEF a, b, e
  <1>8. q < m + 1 /\ m < q + TvDays
    BY <1>1, <1>4, <1>5, <1>6, <1>7, Multiples
  <1> DEFINE day == m - q
  <1>9. day \in 0 .. TvDays - 1 /\ q + day = m
    BY <1>1, <1>4, <1>5, <1>8
  <1>10. GridWindow(day, since) = TvDay * m .. TvDay * m + TvDay - 1
    BY <1>9, Windows DEF q
  <1>11. t \in TvDay * m .. TvDay * m + TvDay - 1
    <2> DEFINE b == TvDay * m
    <2>1. b \in Nat /\ b <= t /\ t < b + TvDay
      BY <1>1, <1>5
    <2> HIDE DEF b
    <2>2. t \in b .. b + TvDay - 1
      BY <1>1, <1>3, <2>1
    <2> QED  BY <2>2 DEF b
  <1> QED  BY <1>9, <1>10, <1>11

\* The requests of a run, and who is in them
LEMMA Plans ==
  ASSUME NEW S \in SUBSET TvStations
  PROVE  /\ TvPlan(S) \subseteq TvBatches
         /\ \A s \in S, day \in 0 .. TvDays - 1 :
               TvLineup[s] # 0 => TvRequest(s, day, S) \in TvPlan(S)
         /\ \A s \in S, day \in 0 .. TvDays - 1, b \in TvBatches :
               TvRequest(s, day, S) = b => s \in TvAsked(b, S) /\ b.day = day
         /\ \A b \in TvBatches : TvAsked(b, S) \subseteq S
  <1>1. \A s \in S : TvPart(s, S) \in Nat
    <2> SUFFICES ASSUME NEW s \in S  PROVE TvPart(s, S) \in Nat
      OBVIOUS
    <2>1. IsFiniteSet({t \in S : TvLineup[t] = TvLineup[s] /\ t < s})
      BY TvAssumption, FS_Subset
    <2>2. TvPlace(s, S) \in Nat
      BY <2>1, FS_CardinalityType DEF TvPlace
    <2> QED  BY <2>2, Division, TvAssumption DEF TvPart
  <1>2. \A s \in S : TvLineup[s] \in Nat
    BY TvAssumption
  <1>3. TvPlan(S) \subseteq TvBatches
    BY <1>1, <1>2 DEF TvPlan, TvBatches
  <1>4. \A s \in S, day \in 0 .. TvDays - 1 : TvLineup[s] # 0 => TvRequest(s, day, S) \in TvPlan(S)
    BY DEF TvPlan, TvRequest
  <1>5. \A s \in S, day \in 0 .. TvDays - 1, b \in TvBatches :
           TvRequest(s, day, S) = b => s \in TvAsked(b, S) /\ b.day = day
    BY DEF TvRequest, TvAsked
  <1> QED  BY <1>3, <1>4, <1>5 DEF TvAsked

\* A run starts: everything is still to be asked for.
LEMMA TvStartKeeps ==
  ASSUME TvIInv, NEW r \in TvRunners, NEW S \in SUBSET TvStations, TvStart(r, S)
  PROVE  TvIInv'
  <1> DEFINE new == [on |-> TRUE, since |-> tvNow, left |-> TvPlan(S), wanted |-> S, missed |-> {}]
  <1>1. /\ tvRun' = [tvRun EXCEPT ![r] = new] /\ tvRuns' = tvRuns + 1 /\ tvRuns < MaxTvRuns
        /\ tvNow' = tvNow /\ tvRows' = tvRows /\ tvComplete' = tvComplete
    BY DEF TvStart
  <1>2. new \in TvRunsKept /\ tvRun \in [TvRunners -> TvRunsKept] /\ tvNow \in Nat
    BY Plans, TvAssumption DEF TvRunsKept, TvIInv, TvKept
  <1>3. tvRun'[r] = new /\ \A x \in TvRunners \ {r} : tvRun'[x] = tvRun[x]
    BY <1>1, <1>2
  <1>4. TvKept'
    <2>1. tvRun' \in [TvRunners -> TvRunsKept]
      BY <1>1, <1>2
    <2>2. tvRuns' \in 0 .. MaxTvRuns
      BY <1>1, TvAssumption DEF TvIInv, TvKept
    <2>3. \A x \in TvRunners : tvRun'[x].since <= tvNow' /\ tvRun'[x].missed \subseteq tvRun'[x].wanted
      BY <1>1, <1>2, <1>3 DEF TvIInv, TvKept
    <2> QED  BY <1>1, <2>1, <2>2, <2>3 DEF TvIInv, TvKept
  <1>5. TvFetched'
    <2> SUFFICES ASSUME NEW x \in TvRunners, tvRun'[x].on,
                        NEW s \in tvRun'[x].wanted \ tvRun'[x].missed,
                        NEW day \in 0 .. TvDays - 1, TvLineup[s] # 0
                 PROVE  \/ TvRequest(s, day, tvRun'[x].wanted) \in tvRun'[x].left
                        \/ \A t \in GridWindow(day, tvRun'[x].since) : t >= tvNow' => t \in tvRows'[s]
      BY DEF TvFetched, TvRequest, TvPart, TvPlace, GridWindow
    <2>1. CASE x = r
      <3>1. s \in S /\ tvRun'[x].wanted = S /\ tvRun'[x].left = TvPlan(S)
        BY <1>3, <2>1
      <3> QED  BY <3>1, Plans
    <2>2. CASE x # r
      BY <1>1, <1>3, <2>2 DEF TvIInv, TvFetched
    <2> QED  BY <2>1, <2>2
  <1>6. TvAhead'
    BY <1>1 DEF TvIInv, TvAhead
  <1> QED  BY <1>4, <1>5, <1>6 DEF TvIInv

\* A request: who was in it and is not missed has the rows of that day.
LEMMA TvFetchKeeps ==
  ASSUME TvIInv, NEW r \in TvRunners, TvFetch(r)
  PROVE  TvIInv'
  <1> DEFINE old == tvRun[r]
  <1>1. PICK batch \in old.left, n \in 0 .. TvBatch :
          LET asked == TvAsked(batch, old.wanted)
              brought == {s \in asked : TvPlace(s, old.wanted) % TvBatch < n}
          IN  /\ tvRows' = [s \in TvStations |->
                               IF s \in brought
                               THEN tvRows[s] \cup GridWindow(batch.day, old.since)
                               ELSE tvRows[s]]
              /\ tvRun' = [tvRun EXCEPT ![r] =
                              [on |-> TRUE, since |-> old.since,
                               left |-> old.left \ {batch}, wanted |-> old.wanted,
                               missed |-> old.missed \cup (asked \ brought)]]
    BY DEF TvFetch
  <1> DEFINE asked == TvAsked(batch, old.wanted)
             brought == {s \in asked : TvPlace(s, old.wanted) % TvBatch < n}
             new == [on |-> TRUE, since |-> old.since, left |-> old.left \ {batch},
                     wanted |-> old.wanted, missed |-> old.missed \cup (asked \ brought)]
  <1>2. /\ old \in TvRunsKept /\ tvRun \in [TvRunners -> TvRunsKept]
        /\ old.left \subseteq TvBatches /\ batch \in TvBatches /\ old.wanted \in SUBSET TvStations
        /\ old.since \in 0 .. TvLastTime /\ old.missed \subseteq old.wanted
    BY <1>1, TvAssumption DEF TvRunsKept, TvIInv, TvKept
  <1>3. asked \subseteq old.wanted /\ brought \subseteq asked
    BY <1>2, Plans
  <1>4. /\ tvNow' = tvNow /\ tvComplete' = tvComplete /\ tvRuns' = tvRuns /\ old.on
        /\ tvRows' = [s \in TvStations |->
                         IF s \in brought THEN tvRows[s] \cup GridWindow(batch.day, old.since)
                         ELSE tvRows[s]]
        /\ tvRun' = [tvRun EXCEPT ![r] = new]
    BY <1>1 DEF TvFetch
  <1> HIDE DEF asked, brought
  <1>5. tvRun'[r] = new /\ \A x \in TvRunners \ {r} : tvRun'[x] = tvRun[x]
    BY <1>2, <1>4
  <1>6. /\ \A s \in TvStations : tvRows[s] \subseteq tvRows'[s]
        /\ \A s \in brought : GridWindow(batch.day, old.since) \subseteq tvRows'[s]
    BY <1>2, <1>3, <1>4
  <1>7. TvKept'
    <2>1. batch.day \in 0 .. TvDays - 1
      BY <1>2 DEF TvBatches
    <2>2. GridWindow(batch.day, old.since) \subseteq 0 .. TvLastTime + TvDay * TvDays
      BY <1>2, <2>1, Windows
    <2>3. tvRows' \in [TvStations -> SUBSET (0 .. TvLastTime + TvDay * TvDays)]
      BY <1>4, <2>2 DEF TvIInv, TvKept
    <2>4. new \in TvRunsKept
      BY <1>2, <1>3 DEF TvRunsKept
    <2>5. tvRun' \in [TvRunners -> TvRunsKept]
      BY <1>2, <1>4, <2>4
    <2>6. \A x \in TvRunners : tvRun'[x].since <= tvNow' /\ tvRun'[x].missed \subseteq tvRun'[x].wanted
      BY <1>2, <1>3, <1>4, <1>5 DEF TvIInv, TvKept
    <2> QED  BY <1>4, <2>3, <2>5, <2>6 DEF TvIInv, TvKept
  <1>8. TvFetched'
    <2> SUFFICES ASSUME NEW x \in TvRunners, tvRun'[x].on,
                        NEW s \in tvRun'[x].wanted \ tvRun'[x].missed,
                        NEW day \in 0 .. TvDays - 1, TvLineup[s] # 0
                 PROVE  \/ TvRequest(s, day, tvRun'[x].wanted) \in tvRun'[x].left
                        \/ \A t \in GridWindow(day, tvRun'[x].since) : t >= tvNow' => t \in tvRows'[s]
      BY DEF TvFetched, TvRequest, TvPart, TvPlace, GridWindow
    <2>1. CASE x = r
      <3>1. /\ s \in old.wanted \ old.missed /\ s \notin asked \ brought
            /\ tvRun'[x].wanted = old.wanted /\ tvRun'[x].left = old.left \ {batch}
            /\ tvRun'[x].since = old.since
        BY <1>5, <2>1
      <3>2. CASE TvRequest(s, day, old.wanted) = batch
        <4>1. s \in asked /\ batch.day = day
          <5> DEFINE W == old.wanted
          <5>1. W \in SUBSET TvStations /\ batch \in TvBatches /\ s \in W /\ TvRequest(s, day, W) = batch
            BY <1>2, <3>1, <3>2
          <5> HIDE DEF old, W
          <5>2. \A d \in 0 .. TvDays - 1, b \in TvBatches :
                    TvRequest(s, d, W) = b => s \in TvAsked(b, W) /\ b.day = d
            BY <5>1, Plans
          <5>3. s \in TvAsked(batch, W) /\ batch.day = day
            BY <5>1, <5>2
          <5> QED  BY <5>3 DEF asked, W
        <4>2. GridWindow(day, old.since) \subseteq tvRows'[s]
          <5>1. s \in brought
            BY <3>1, <4>1
          <5> QED  BY <1>6, <4>1, <5>1
        <4> QED  BY <3>1, <4>2
      <3>3. CASE TvRequest(s, day, old.wanted) # batch
        <4>1. \/ TvRequest(s, day, old.wanted) \in old.left
              \/ \A t \in GridWindow(day, old.since) : t >= tvNow => t \in tvRows[s]
          BY <1>4, <3>1 DEF TvIInv, TvFetched
        <4> QED  BY <1>2, <1>4, <1>6, <3>1, <3>3, <4>1
      <3> QED  BY <3>2, <3>3
    <2>2. CASE x # r
      <3>1. tvRun'[x] = tvRun[x] /\ s \in TvStations
        BY <1>2, <1>5, <2>2 DEF TvRunsKept
      <3>2. \/ TvRequest(s, day, tvRun[x].wanted) \in tvRun[x].left
            \/ \A t \in GridWindow(day, tvRun[x].since) : t >= tvNow => t \in tvRows[s]
        BY <3>1 DEF TvIInv, TvFetched
      <3> QED  BY <1>4, <1>6, <3>1, <3>2
    <2> QED  BY <2>1, <2>2
  <1>9. TvAhead'
    BY <1>4, <1>6 DEF TvIInv, TvAhead
  <1> QED  BY <1>7, <1>8, <1>9 DEF TvIInv

\* The end of a run: what it deletes is over, and what it fetched covers all days
\* but one.
LEMMA TvFinishKeeps ==
  ASSUME TvIInv, NEW r \in TvRunners, TvFinish(r)
  PROVE  TvIInv'
  <1> DEFINE old == tvRun[r]
             done == {s \in old.wanted \ old.missed : TvLineup[s] # 0}
  <1>1. /\ old \in TvRunsKept /\ tvRun \in [TvRunners -> TvRunsKept]
        /\ old.wanted \in SUBSET TvStations
        /\ old.since \in 0 .. TvLastTime /\ old.since <= tvNow /\ tvNow \in 0 .. TvLastTime
        /\ TvLastTime \in Nat /\ TvDay \in Nat \ {0} /\ TvDays \in Nat \ {0}
    BY TvAssumption DEF TvRunsKept, TvIInv, TvKept
  <1>2. /\ tvNow' = tvNow /\ tvRuns' = tvRuns /\ old.on /\ old.left = {}
        /\ tvRows' = [s \in TvStations |-> {t \in tvRows[s] : t + 1 >= old.since}]
        /\ tvComplete' = [s \in TvStations |-> IF s \in done THEN old.since ELSE tvComplete[s]]
        /\ tvRun' = [tvRun EXCEPT ![r] = TvIdle]
    BY DEF TvFinish
  <1>3. tvRun'[r] = TvIdle /\ \A x \in TvRunners \ {r} : tvRun'[x] = tvRun[x]
    BY <1>1, <1>2
  <1>4. \A s \in TvStations : tvRows[s] \subseteq 0 .. TvLastTime + TvDay * TvDays
    BY DEF TvIInv, TvKept
  <1>5. \A s \in TvStations : \A t \in tvRows[s] : t >= tvNow => t \in tvRows'[s]
    <2> SUFFICES ASSUME NEW s \in TvStations, NEW t \in tvRows[s], t >= tvNow  PROVE t \in tvRows'[s]
      OBVIOUS
    <2>1. t \in Int
      BY <1>4
    <2>2. t + 1 >= old.since
      BY <1>1, <2>1
    <2> QED  BY <1>2, <2>2
  <1>6. TvKept'
    <2>1. tvRows' \in [TvStations -> SUBSET (0 .. TvLastTime + TvDay * TvDays)]
      BY <1>2, <1>4
    <2>2. TvIdle \in TvRunsKept
      BY DEF TvIdle, TvRunsKept
    <2>3. tvRun' \in [TvRunners -> TvRunsKept]
      BY <1>1, <1>2, <2>2
    <2>4. \A x \in TvRunners : tvRun'[x].since <= tvNow' /\ tvRun'[x].missed \subseteq tvRun'[x].wanted
      BY <1>1, <1>2, <1>3 DEF TvIInv, TvKept, TvIdle
    <2>5. tvComplete' \in [TvStations -> 0 .. NeverYet]
      BY <1>1, <1>2 DEF TvIInv, TvKept, NeverYet
    <2>6. \A s \in TvStations : tvComplete'[s] = NeverYet \/ tvComplete'[s] <= tvNow'
      BY <1>1, <1>2 DEF TvIInv, TvKept
    <2> QED  BY <1>2, <2>1, <2>3, <2>4, <2>5, <2>6 DEF TvIInv, TvKept
  <1>7. TvFetched'
    <2> SUFFICES ASSUME NEW x \in TvRunners, tvRun'[x].on,
                        NEW s \in tvRun'[x].wanted \ tvRun'[x].missed,
                        NEW day \in 0 .. TvDays - 1, TvLineup[s] # 0
                 PROVE  \/ TvRequest(s, day, tvRun'[x].wanted) \in tvRun'[x].left
                        \/ \A t \in GridWindow(day, tvRun'[x].since) : t >= tvNow' => t \in tvRows'[s]
      BY DEF TvFetched, TvRequest, TvPart, TvPlace, GridWindow
    <2>1. x # r
      BY <1>3 DEF TvIdle
    <2>2. tvRun'[x] = tvRun[x] /\ s \in TvStations
      BY <1>1, <1>3, <2>1 DEF TvRunsKept
    <2>3. \/ TvRequest(s, day, tvRun[x].wanted) \in tvRun[x].left
          \/ \A t \in GridWindow(day, tvRun[x].since) : t >= tvNow => t \in tvRows[s]
      BY <2>2 DEF TvIInv, TvFetched
    <2> QED  BY <1>2, <1>5, <2>2, <2>3
  <1>8. TvAhead'
    <2> SUFFICES ASSUME NEW s \in TvStations, tvComplete'[s] <= tvNow,
                        NEW t \in tvNow .. tvComplete'[s] + TvDay * (TvDays - 1)
                 PROVE  t \in tvRows'[s]
      BY <1>2 DEF TvAhead
    <2>1. TvDay * (TvDays - 1) \in Nat
      BY <1>1
    <2> DEFINE e == TvDay * (TvDays - 1)
    <2>2. tvComplete'[s] \in Int /\ t \in Int /\ t >= tvNow
      BY <1>6 DEF TvKept
    <2>3. CASE s \in done
      <3>1. tvComplete'[s] = old.since
        BY <1>2, <2>3
      <3>2. t \in old.since .. old.since + TvDay * (TvDays - 1)
        <4> HIDE DEF e
        <4>1. t \in old.since .. old.since + e
          BY <1>1, <2>1, <2>2, <3>1 DEF e
        <4> QED  BY <4>1 DEF e
      <3>3. PICK day \in 0 .. TvDays - 1 : t \in GridWindow(day, old.since)
        BY <1>1, <3>2, Covered
      <3>4. \A u \in GridWindow(day, old.since) : u >= tvNow => u \in tvRows[s]
        BY <1>2, <2>3 DEF TvIInv, TvFetched
      <3> QED  BY <1>5, <2>2, <3>3, <3>4
    <2>4. CASE s \notin done
      <3>1. tvComplete'[s] = tvComplete[s]
        BY <1>2, <2>4
      <3>2. t \in tvRows[s]
        BY <3>1 DEF TvIInv, TvAhead
      <3> QED  BY <1>5, <2>2, <3>2
    <2> QED  BY <2>3, <2>4
  <1> QED  BY <1>6, <1>7, <1>8 DEF TvIInv

\* A run is cut off.
LEMMA TvDieKeeps ==
  ASSUME TvIInv, NEW r \in TvRunners, TvDie(r)
  PROVE  TvIInv'
  <1>1. tvRun \in [TvRunners -> TvRunsKept] /\ tvNow \in Nat /\ TvIdle \in TvRunsKept
    BY TvAssumption DEF TvIInv, TvKept, TvIdle, TvRunsKept
  <1>2. /\ tvNow' = tvNow /\ tvRows' = tvRows /\ tvComplete' = tvComplete /\ tvRuns' = tvRuns
        /\ tvRun' = [tvRun EXCEPT ![r] = TvIdle]
    BY DEF TvDie
  <1>3. tvRun'[r] = TvIdle /\ \A x \in TvRunners \ {r} : tvRun'[x] = tvRun[x]
    BY <1>1, <1>2
  <1>4. TvKept'
    <2>1. tvRun' \in [TvRunners -> TvRunsKept]
      BY <1>1, <1>2
    <2>2. \A x \in TvRunners : tvRun'[x].since <= tvNow' /\ tvRun'[x].missed \subseteq tvRun'[x].wanted
      BY <1>1, <1>2, <1>3 DEF TvIInv, TvKept, TvIdle
    <2> QED  BY <1>2, <2>1, <2>2 DEF TvIInv, TvKept
  <1>5. TvFetched'
    <2> SUFFICES ASSUME NEW x \in TvRunners, tvRun'[x].on,
                        NEW s \in tvRun'[x].wanted \ tvRun'[x].missed,
                        NEW day \in 0 .. TvDays - 1, TvLineup[s] # 0
                 PROVE  \/ TvRequest(s, day, tvRun'[x].wanted) \in tvRun'[x].left
                        \/ \A t \in GridWindow(day, tvRun'[x].since) : t >= tvNow' => t \in tvRows'[s]
      BY DEF TvFetched, TvRequest, TvPart, TvPlace, GridWindow
    <2>1. x # r
      BY <1>3 DEF TvIdle
    <2> QED  BY <1>2, <1>3, <2>1 DEF TvIInv, TvFetched
  <1>6. TvAhead'
    BY <1>2 DEF TvIInv, TvAhead
  <1> QED  BY <1>4, <1>5, <1>6 DEF TvIInv

\* Time goes by.
LEMMA TvTickKeeps ==
  ASSUME TvIInv, TvTick
  PROVE  TvIInv'
  <1>1. /\ tvNow \in 0 .. TvLastTime /\ tvNow < TvLastTime /\ tvNow' = tvNow + 1 /\ TvLastTime \in Nat
        /\ tvRun \in [TvRunners -> TvRunsKept]
        /\ tvRows' = tvRows /\ tvComplete' = tvComplete /\ tvRuns' = tvRuns /\ tvRun' = tvRun
    BY TvAssumption DEF TvTick, TvIInv, TvKept
  <1>2. TvKept'
    <2>1. \A x \in TvRunners : tvRun'[x].since <= tvNow'
      BY <1>1 DEF TvIInv, TvKept, TvRunsKept
    <2>2. \A s \in TvStations : tvComplete'[s] = NeverYet \/ tvComplete'[s] <= tvNow'
      <3> SUFFICES ASSUME NEW s \in TvStations, tvComplete[s] <= tvNow
                   PROVE  tvComplete[s] <= tvNow + 1
        BY <1>1 DEF TvIInv, TvKept
      <3>1. tvComplete[s] \in Int
        BY TvAssumption DEF TvIInv, TvKept, NeverYet
      <3> QED  BY <1>1, <3>1
    <2> QED  BY <1>1, <2>1, <2>2 DEF TvIInv, TvKept
  <1>3. TvFetched'
    <2> SUFFICES ASSUME NEW x \in TvRunners, tvRun[x].on,
                        NEW s \in tvRun[x].wanted \ tvRun[x].missed,
                        NEW day \in 0 .. TvDays - 1, TvLineup[s] # 0
                 PROVE  \/ TvRequest(s, day, tvRun[x].wanted) \in tvRun[x].left
                        \/ \A t \in GridWindow(day, tvRun[x].since) : t >= tvNow' => t \in tvRows[s]
      BY <1>1 DEF TvFetched, TvRequest, TvPart, TvPlace, GridWindow
    <2>1. \/ TvRequest(s, day, tvRun[x].wanted) \in tvRun[x].left
          \/ \A t \in GridWindow(day, tvRun[x].since) : t >= tvNow => t \in tvRows[s]
      BY DEF TvIInv, TvFetched
    <2>2. tvRun[x].since \in 0 .. TvLastTime
      BY <1>1 DEF TvIInv, TvKept, TvRunsKept
    <2>3. GridWindow(day, tvRun[x].since) \subseteq Int
      BY <2>2, Windows
    <2> QED  BY <1>1, <2>1, <2>3
  <1>4. TvAhead'
    <2> SUFFICES ASSUME NEW s \in TvStations, tvComplete[s] <= tvNow + 1,
                        NEW t \in tvNow + 1 .. tvComplete[s] + TvDay * (TvDays - 1)
                 PROVE  t \in tvRows[s]
      BY <1>1 DEF TvAhead
    <2>0. tvComplete[s] \in 0 .. NeverYet /\ TvDay * (TvDays - 1) \in Nat /\ TvDay \in Nat
      BY TvAssumption DEF TvIInv, TvKept
    <2> DEFINE e == TvDay * (TvDays - 1)
    <2>1. tvComplete[s] <= tvNow
      BY <1>1, <2>0 DEF TvIInv, TvKept, NeverYet
    <2> HIDE DEF e
    <2>2. t \in tvNow .. tvComplete[s] + e
      BY <1>1, <2>0 DEF e, NeverYet
    <2> QED  BY <2>1, <2>2 DEF TvIInv, TvAhead, e
  <1> QED  BY <1>2, <1>3, <1>4 DEF TvIInv

\* Nothing is complete in the beginning.
LEMMA TvStarts == TvInit => TvIInv
  <1> SUFFICES ASSUME TvInit  PROVE TvIInv
    OBVIOUS
  <1>1. /\ tvNow = TvDay - 1 /\ tvRows = [s \in TvStations |-> {}]
        /\ tvRun = [r \in TvRunners |-> TvIdle]
        /\ tvComplete = [s \in TvStations |-> NeverYet] /\ tvRuns = 0
    BY DEF TvInit
  <1>2. TvLastTime \in Nat /\ TvDay \in Nat \ {0} /\ TvDay - 1 <= TvLastTime /\ MaxTvRuns \in Nat
    BY TvAssumption
  <1>3. TvIdle \in TvRunsKept /\ TvIdle.on = FALSE /\ TvIdle.since = 0 /\ TvIdle.missed = {}
    BY DEF TvIdle, TvRunsKept
  <1>4. TvKept
    BY <1>1, <1>2, <1>3 DEF TvKept, NeverYet
  <1>5. TvFetched
    BY <1>1, <1>3 DEF TvFetched
  <1>6. TvAhead
    BY <1>1, <1>2 DEF TvAhead, NeverYet
  <1> QED  BY <1>4, <1>5, <1>6 DEF TvIInv

\* Every step keeps the invariant.
LEMMA TvSteps == TvIInv /\ [TvNext]_tvVars => TvIInv'
  <1> SUFFICES ASSUME TvIInv, [TvNext]_tvVars  PROVE TvIInv'
    OBVIOUS
  <1>1. CASE TvTick
    BY <1>1, TvTickKeeps
  <1>2. ASSUME NEW r \in TvRunners, NEW S \in SUBSET TvStations \ {{}}, TvStart(r, S)
        PROVE  TvIInv'
    BY <1>2, TvStartKeeps
  <1>3. ASSUME NEW r \in TvRunners, TvFetch(r)  PROVE TvIInv'
    BY <1>3, TvFetchKeeps
  <1>4. ASSUME NEW r \in TvRunners, TvFinish(r)  PROVE TvIInv'
    BY <1>4, TvFinishKeeps
  <1>5. ASSUME NEW r \in TvRunners, TvDie(r)  PROVE TvIInv'
    BY <1>5, TvDieKeeps
  <1>6. CASE UNCHANGED tvVars
    BY <1>6 DEF tvVars, TvIInv, TvKept, TvFetched, TvAhead, TvRequest, TvPart, TvPlace, GridWindow
  <1> QED  BY <1>1, <1>2, <1>3, <1>4, <1>5, <1>6 DEF TvNext

\* From the inductive invariant
LEMMA TvImplies == TvIInv => TvtvInv
  <1> SUFFICES ASSUME TvIInv  PROVE TvtvInv
    OBVIOUS
  <1>1. TvTypeOK
    BY DEF TvIInv, TvKept, TvTypeOK, TvRunsKept
  <1>2. TvBridged
    <2> SUFFICES ASSUME NEW s \in TvStations, tvComplete[s] <= tvNow,
                        tvNow <= tvComplete[s] + TvDay * (TvDays - 1)
                 PROVE  tvNow \in tvRows[s]
      BY DEF TvBridged
    <2> DEFINE e == TvDay * (TvDays - 1)
    <2>1. e \in Nat /\ tvNow \in Nat /\ tvComplete[s] \in Nat
      BY TvAssumption DEF TvIInv, TvKept, NeverYet
    <2> HIDE DEF e
    <2>2. tvNow \in tvNow .. tvComplete[s] + e
      BY <2>1 DEF e
    <2> QED  BY <2>2 DEF e, TvIInv, TvAhead
  <1> QED  BY <1>1, <1>2 DEF TvtvInv

\* The cache bridges a missed night: whatever runs were started, cut off or failed
\* since, a station of which all days were fetched has what is on for all of them
\* but one (refresh_tvtv_cache() of tvtv_cache.py).
THEOREM TvtvInvariant == TvSpec => []TvtvInv
  <1>1. TvSpec => []TvIInv
    BY TvStarts, TvSteps, PTL DEF TvSpec
  <1> QED  BY <1>1, TvImplies, PTL
==============================================================================
