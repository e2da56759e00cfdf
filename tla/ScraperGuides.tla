--------------------------- MODULE ScraperGuides ---------------------------
(***************************************************************************)
(* fetch_epg() of the scrapers that ask a service for its guide: which     *)
(* requests they make for the channels of a scrape, what a request that    *)
(* fails costs, to which channel they put an airing.                       *)
(*                                                                         *)
(* The service numbers its stations, in the order in which it lists them.  *)
(* A station on the air has one airing in each slot, and a scrape asks for *)
(* all slots.  A request is a pair whose meaning is up to the scraper:     *)
(* <<0, 0>> is the one request for everything, or for what is needed to    *)
(* ask for anything; the first component else is a station, a region or a  *)
(* window, the second a slot, a page or a batch.                           *)
(***************************************************************************)
EXTENDS Integers, FiniteSets

CONSTANTS
    GuideStations,      \* the stations: 1 .. n
    GuideSlots,         \* the slots: 1 .. n
    GuideKey,           \* the key that a channel's row has for its station
    GuideRegion,        \* the region, geo or category that lists a station
    GuideBatch,         \* stations in one request
    GuideEnabled,       \* channels the user has enabled
    MaxGuideFailures,   \* bound on the requests of a scrape that fail
    GuideSites          \* the scrapers

ASSUME ScraperGuideAssumption ==
    /\ IsFiniteSet(GuideStations) /\ GuideStations = 1 .. Cardinality(GuideStations)
    /\ IsFiniteSet(GuideSlots) /\ GuideSlots = 1 .. Cardinality(GuideSlots)
    /\ GuideKey \in [GuideStations -> GuideStations]
    /\ GuideRegion \in [GuideStations -> 1 .. 2]
    /\ GuideBatch \in Nat \ {0} /\ MaxGuideFailures \in Nat
    /\ GuideEnabled \subseteq GuideStations
    /\ GuideSites \subseteq {"xumo", "vizio", "samsung", "vidaa", "lg", "freelive", "distro",
                             "m3u", "stirr", "sling", "localnow", "amazon", "tcl", "pluto", "tubi"}

VARIABLES
    guideSite,      \* the scraper
    onAir,          \* stations with a schedule
    guideAsked,     \* the channels the last fetch_epg() was asked for
    guideFailed,    \* the requests of it that failed
    guideGot        \* the airings it returned, and whether it raised

scraperGuideVars == <<guideSite, onAir, guideAsked, guideFailed, guideGot>>

GuideRaised == [raised |-> TRUE, airings |-> {}]
GuideReturns(airings) == [raised |-> FALSE, airings |-> airings]
GuideWhole == <<0, 0>>

GuideScraperInit ==
    /\ guideSite \in GuideSites
    /\ onAir \in SUBSET GuideStations
    /\ guideAsked = {}
    /\ guideFailed = {}
    /\ guideGot = GuideReturns({})

-----------------------------------------------------------------------------
\* The batch of a channel, of those asked for
BatchOf(c, asked) == Cardinality({d \in asked : d < c}) \div GuideBatch + 1

\* Faulty variant: a last batch that is not full is never requested.
FullBatches(asked) == 1 .. Cardinality(asked) \div GuideBatch

Batches(asked) == 1 .. (Cardinality(asked) + GuideBatch - 1) \div GuideBatch

\* The channels in a batch that was requested and answered, w being the first
\* component of its request
BatchesRead(asked, failed, w) ==
    {c \in asked : BatchOf(c, asked) \in Batches(asked) /\ <<w, BatchOf(c, asked)>> \notin failed}

\* Of the channels with the same key, the last one has it in a dictionary.
KeyHolders(asked) == {c \in asked : \A d \in asked : GuideKey[d] = GuideKey[c] => d <= c}

\* The stations a request for as many channels returns, from the first one on
VizioBulk(asked) ==
    {d \in GuideStations : \E c \in asked :
        (\A e \in asked : c <= e) /\ d \in c .. c + Cardinality(asked) - 1}

KeyOnAir(asked) == {c \in asked : GuideKey[c] \in onAir}

-----------------------------------------------------------------------------
\* xumo.py.  Page p of a day has the stations 2p + 1 and 2p + 2, one at each
\* offset; a request is <<day, station>>.  A page where nothing was found, also
\* because all its requests failed, is the last of that day.
XumoGuide(asked, failed) ==
    LET found(day, page) == \E c \in GuideStations :
            (c - 1) \div 2 = page /\ <<day, c>> \notin failed
    IN  GuideReturns({a \in (asked \cap onAir) \X GuideSlots :
            /\ <<a[2], a[1]>> \notin failed
            /\ \A page \in 0 .. ((a[1] - 1) \div 2) - 1 : found(a[2], page)})

\* vizio.py.  A request for a number of channels, from one of them on, returns
\* so many of the service's stations.  When the one for all finds nothing, or
\* fails, there is one request for each channel.
VizioGuide(asked, failed) ==
    LET of(stations) == {c \in KeyHolders(asked) :
                            \E d \in stations \cap onAir : GuideKey[d] = GuideKey[c]}
        bulk == IF GuideWhole \in failed THEN {} ELSE of(VizioBulk(asked))
        single == of({c \in asked : <<c, 1>> \notin failed})
    IN  GuideReturns((IF bulk # {} THEN bulk ELSE single) \X GuideSlots)

\* samsung.py: a guide for each region, skipped if it fails.
SamsungGuide(asked, failed) ==
    GuideReturns({c \in asked \cap onAir : <<GuideRegion[c], 0>> \notin failed} \X GuideSlots)

\* vidaa.py: _bootstrap() raises; batches of the channels of a geo, skipped if
\* they fail.
VidaaGuide(asked, failed) ==
    IF GuideWhole \in failed THEN GuideRaised
    ELSE GuideReturns((onAir \cap UNION {BatchesRead({c \in asked : GuideRegion[c] = geo},
                                                     failed, geo) : geo \in 1 .. 2})
                        \X GuideSlots)

\* lg_channels.py, freelivesports.py, hdhomerun.py: one document has all.
\* distro.py: so does one answer, and channels of different geos share a
\* station, whose airings each of them gets.
SingleGuide(asked, failed, found) ==
    GuideReturns((IF GuideWhole \in failed THEN {} ELSE found) \X GuideSlots)

\* m3u_utils.py: the same, for the enabled channels if there are any.  The last
\* channel with the id, the name or the key of a station has its airings.
PlaylistGuide(asked, failed) ==
    LET active == IF GuideEnabled = {} THEN asked ELSE asked \cap GuideEnabled
    IN  SingleGuide(asked, failed, KeyHolders(active) \cap KeyOnAir(active))

\* stirr.py: each channel from its own URL, and when nothing came from there,
\* from a service for all.
StirrGuide(asked, failed) ==
    GuideReturns({c \in asked \cap onAir : <<c, 1>> \notin failed \/ <<c, 2>> \notin failed}
                    \X GuideSlots)

\* sling.py: a channel's windows are linked, and one that fails costs those
\* before it, too.
SlingGuide(asked, failed) ==
    IF GuideWhole \in failed THEN GuideRaised
    ELSE GuideReturns({c \in asked \cap onAir : \A s \in GuideSlots : <<c, s>> \notin failed}
                        \X GuideSlots)

\* localnow.py: the bootstrap and the request raise.
LocalNowGuide(asked, failed) ==
    IF GuideWhole \in failed THEN GuideRaised
    ELSE GuideReturns((asked \cap onAir) \X GuideSlots)

\* amazon_prime_free.py: the stations that fetch_channels() found before; their
\* pages, of one station each, end with the first that fails.
AmazonGuide(asked, failed) ==
    GuideReturns((IF GuideWhole \in failed THEN {}
                  ELSE {c \in asked \cap onAir : \A d \in 2 .. c : <<d, 0>> \notin failed})
                    \X GuideSlots)

\* tcl.py: the list of categories raises, a category that fails is skipped.  All
\* it lists is returned; what is not in the database is dropped when saving.
TclGuide(failed) ==
    IF GuideWhole \in failed THEN GuideRaised
    ELSE GuideReturns({c \in onAir : <<GuideRegion[c], 0>> \notin failed} \X GuideSlots)

\* pluto.py.  A window begins where the last answered batch of the one before it
\* ended: if none was answered, it asks for the same time once more.
PlutoWindow(w, asked, failed) ==
    1 + Cardinality({v \in 1 .. w - 1 : \E b \in Batches(asked) : <<v, b>> \notin failed})

PlutoGuide(asked, failed) ==
    GuideReturns(IF GuideWhole \in failed THEN {}
                 ELSE UNION {(onAir \cap BatchesRead(asked, failed, w))
                                \X {PlutoWindow(w, asked, failed)} : w \in GuideSlots})

\* tubi.py: batches without an account, skipped if they fail
TubiEpg(asked, failed, path) == onAir \cap BatchesRead(asked, failed, path)

\* With one, batches with its token, and if nothing came of that, without.
TubiGuide(asked, failed) ==
    LET auth == IF GuideWhole \in failed THEN {} ELSE TubiEpg(asked, failed, 1)
    IN  GuideReturns((IF auth # {} THEN auth ELSE TubiEpg(asked, failed, 2)) \X GuideSlots)

GuideFetched(asked, failed) ==
    CASE guideSite = "xumo" -> XumoGuide(asked, failed)
      [] guideSite = "vizio" -> VizioGuide(asked, failed)
      [] guideSite = "samsung" -> SamsungGuide(asked, failed)
      [] guideSite = "vidaa" -> VidaaGuide(asked, failed)
      [] guideSite \in {"lg", "freelive"} -> SingleGuide(asked, failed, asked \cap onAir)
      [] guideSite = "distro" -> SingleGuide(asked, failed, KeyOnAir(asked))
      [] guideSite = "m3u" -> PlaylistGuide(asked, failed)
      [] guideSite = "stirr" -> StirrGuide(asked, failed)
      [] guideSite = "sling" -> SlingGuide(asked, failed)
      [] guideSite = "localnow" -> LocalNowGuide(asked, failed)
      [] guideSite = "amazon" -> AmazonGuide(asked, failed)
      [] guideSite = "tcl" -> TclGuide(failed)
      [] guideSite = "pluto" -> PlutoGuide(asked, failed)
      [] guideSite = "tubi" -> TubiGuide(asked, failed)

\* The requests that the guide of a channel depends on
OwnRequests(c, asked) ==
    (IF guideSite \in {"vizio", "tubi"} THEN {} ELSE {GuideWhole}) \cup
    CASE guideSite = "xumo" -> GuideSlots \X {c}
      [] guideSite \in {"samsung", "tcl"} -> {<<GuideRegion[c], 0>>}
      [] guideSite = "vidaa" ->
            {<<GuideRegion[c], BatchOf(c, {d \in asked : GuideRegion[d] = GuideRegion[c]})>>}
      [] guideSite \in {"stirr", "sling"} -> {c} \X (GuideSlots \cup {2})
      [] guideSite \in {"pluto", "tubi"} -> (GuideSlots \cup {2}) \X {BatchOf(c, asked)}
      [] guideSite = "vizio" -> {<<c, 1>>}
      [] guideSite = "amazon" -> {<<d, 0>> : d \in 2 .. c}
      [] OTHER -> {}

\* A scrape asks for the guide of some channels, and some requests fail.
GuideScrape(asked, failed) ==
    /\ guideAsked = {}
    /\ Cardinality(failed) <= MaxGuideFailures
    /\ guideAsked' = asked
    /\ guideFailed' = failed
    /\ guideGot' = GuideFetched(asked, failed)
    /\ UNCHANGED <<guideSite, onAir>>

\* Until the next one, the service changes what it has.
GuideChanges(stations) ==
    /\ guideAsked # {}
    /\ onAir' = stations
    /\ guideAsked' = {} /\ guideFailed' = {} /\ guideGot' = GuideReturns({})
    /\ UNCHANGED guideSite

GuideRequests == {GuideWhole} \cup UNION {OwnRequests(c, GuideStations) : c \in GuideStations}

GuideScraperNext ==
    \/ \E asked \in SUBSET GuideStations, failed \in SUBSET GuideRequests :
          GuideScrape(asked, failed)
    \/ \E stations \in SUBSET GuideStations : GuideChanges(stations)

GuideScraperSpec == GuideScraperInit /\ [][GuideScraperNext]_scraperGuideVars

-----------------------------------------------------------------------------
GuideScraperTypeOK ==
    /\ onAir \subseteq GuideStations /\ guideAsked \subseteq GuideStations
    /\ guideGot.airings \subseteq GuideStations \X GuideSlots
    /\ guideGot.raised => guideGot.airings = {}

\* The channels that the answers leave something for: of several with the key of
\* one station, the last; for playlists, the enabled ones; from Vizio, those among
\* as many stations as were asked for.
GuideServed ==
    CASE guideSite = "m3u" -> KeyHolders(guideAsked \cap GuideEnabled) \cap KeyOnAir(guideAsked)
      [] guideSite = "vizio" -> KeyHolders(guideAsked) \cap onAir \cap VizioBulk(guideAsked)
      [] guideSite = "distro" -> KeyOnAir(guideAsked)
      [] OTHER -> guideAsked \cap onAir

\* A channel has all its airings when no request that its guide depends on has
\* failed: requests for other stations, regions and batches cost it nothing.
\* But a page of Xumo where all requests fail ends the day.
GuideIsolated ==
    ~guideGot.raised => \A c \in GuideServed :
        OwnRequests(c, guideAsked) \cap guideFailed = {}
            /\ (guideSite = "xumo" => guideFailed = {})
        => \A s \in GuideSlots : <<c, s>> \in guideGot.airings

\* Nothing raises unless the one request for everything has failed, and no
\* channel has the airings of a station that is not its own.
GuideHonest ==
    /\ guideGot.raised => GuideWhole \in guideFailed
    /\ \A a \in guideGot.airings :
          IF guideSite \in {"m3u", "distro"} THEN GuideKey[a[1]] \in onAir
          ELSE IF guideSite = "vizio" THEN \E d \in onAir : GuideKey[d] = GuideKey[a[1]]
          ELSE a[1] \in onAir

GuideScraperInv == GuideScraperTypeOK /\ GuideIsolated /\ GuideHonest
=============================================================================
