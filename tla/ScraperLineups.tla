-------------------------- MODULE ScraperLineups --------------------------
(***************************************************************************)
(* fetch_channels() of the scrapers that ask a service for its lineup and  *)
(* keep nothing between two scrapes: which requests they make, what a      *)
(* request that fails costs, which of the rows of the answers they keep.   *)
(*                                                                         *)
(* A lineup comes in parts, in an order: the regions of Samsung, the geos  *)
(* of Vidaa and Distro, the countries of Pluto, the tuners of HDHomeRun,   *)
(* the pages of Sling and Amazon, the categories of LG and TCL, the        *)
(* batches of Tubi.  Each part may have a row for a channel, which is      *)
(*   "good"   it can be played,                                            *)
(*   "drm"    it is marked as protected or locked, or needs a token,       *)
(*   "bare"   it lacks the id, the name or the URL,                        *)
(*   "none"   it is not there.                                             *)
(***************************************************************************)
EXTENDS Integers, FiniteSets

CONSTANTS
    LineupChannels,
    LineupParts,        \* number of parts
    LineupSites         \* the scrapers

ASSUME LineupAssumption ==
    /\ LineupParts \in Nat \ {0}
    /\ LineupSites \subseteq {"xumo", "lg", "freelive", "vizio", "samsung", "vidaa",
                              "hdhomerun", "m3u", "sling", "stirr", "distro", "localnow",
                              "amazon", "tcl", "pluto", "tubi", "tubi login"}

VARIABLES
    site,           \* the scraper
    offer,          \* the rows of each part
    fetched,        \* what the last fetch_channels() returned, or raised
    failing         \* the requests of it that failed; NotYet before it

lineupVars == <<site, offer, fetched, failing>>

LineupRows == {"good", "drm", "bare", "none"}
Parts == 1 .. LineupParts
LoginRequest == LineupParts + 1
LineupRequests == 0 .. LoginRequest     \* 0 is the one for the whole list
NotYet == {-1}
LineupNothing == [raised |-> FALSE, rows |-> {}]
LineupRaised == [raised |-> TRUE, rows |-> {}]

\* A row of the result: the channel and the part that its id and URL are from,
\* 0 where these do not depend on the part.
LineupReturns(rows) == [raised |-> FALSE, rows |-> rows]

LineupInit ==
    /\ site \in LineupSites
    /\ offer \in [Parts -> [LineupChannels -> LineupRows]]
    /\ fetched = LineupNothing
    /\ failing = NotYet

-----------------------------------------------------------------------------
\* Channels with a row of one of the kinds in a part that was read
RowsOf(read, kinds) == {c \in LineupChannels : \E p \in read : offer[p][c] \in kinds}

\* The complete rows of the parts that were read, each with its part
CompleteRows(read) == {r \in LineupChannels \X read : offer[r[2]][r[1]] \in {"good", "drm"}}

\* The first part that has a row of one of the kinds for a channel
FirstPart(c, read, kinds) ==
    CHOOSE p \in read : /\ offer[p][c] \in kinds
                        /\ \A o \in read : offer[o][c] \in kinds => p <= o

\* xumo.py: one request, and no channels if it fails; rows that are not live,
\* have a DRM suffix or lack id or title are left out.  The URL is xumo://id.
XumoChannels(failed) ==
    IF 0 \in failed THEN LineupNothing
    ELSE LineupReturns(RowsOf(Parts, {"good"}) \X {0})

\* lg_channels.py: the first complete row of a channel; nothing is marked.
LgChannels(failed) ==
    IF 0 \in failed THEN LineupNothing
    ELSE LineupReturns({<<c, FirstPart(c, Parts, {"good", "drm"})>> :
                            c \in RowsOf(Parts, {"good", "drm"})})

\* freelivesports.py: every complete row; those of one channel are merged later.
FreeLiveChannels(failed) ==
    IF 0 \in failed THEN LineupNothing
    ELSE LineupReturns(RowsOf(Parts, {"good", "drm"}) \X {0})

\* vizio.py: the request raises; rows with a tokenUrl are left out.
VizioChannels(failed) ==
    IF 0 \in failed THEN LineupRaised
    ELSE LineupReturns(RowsOf(Parts, {"good"}) \X {0})

\* Faulty variant: an id counts as seen before its license_url is looked at.
SamsungSeenFirst(failed) ==
    IF 0 \in failed THEN LineupRaised
    ELSE LineupReturns({c \in RowsOf(Parts \ failed, {"good", "drm"}) :
            offer[FirstPart(c, Parts \ failed, {"good", "drm"})][c] = "good"} \X {0})

\* samsung.py: one index of all regions, which raises.  A region it lacks is
\* skipped, and so is a row with a license_url, before the id counts as seen.
SamsungChannels(failed) ==
    IF 0 \in failed THEN LineupRaised
    ELSE LineupReturns(RowsOf(Parts \ failed, {"good"}) \X {0})

\* vidaa.py: one request for each geo, and each raises.  The geo is part of the
\* id, and protected channels are kept as DASH.
VidaaChannels(failed) ==
    IF failed \ {LoginRequest} # {} THEN LineupRaised
    ELSE LineupReturns(CompleteRows(Parts))

\* hdhomerun.py: a tuner that does not answer is skipped.  The first tuner that
\* lists a number decides, even if it lists it as protected.
HdhomerunChannels(failed) ==
    LET read == Parts \ failed
        decided == {<<c, FirstPart(c, read, {"good", "drm"})>> :
                       c \in RowsOf(read, {"good", "drm"})}
    IN  LineupReturns({r \in decided : offer[r[2]][r[1]] = "good"})

\* m3u_utils.py: one playlist, and no channels if it fails.  A second row with
\* the id of another gets the id with a number.
PlaylistChannels(failed) ==
    IF 0 \in failed THEN LineupNothing
    ELSE LineupReturns({<<r[1], Cardinality({o \in 1 .. r[2] : <<r[1], o>> \in CompleteRows(Parts)})>> :
                            r \in CompleteRows(Parts)})

\* sling.py: the pages are linked, each raises, and the rows of one channel are
\* merged as they come.
SlingChannels(failed) ==
    IF failed \ {LoginRequest} # {} THEN LineupRaised
    ELSE LineupReturns(RowsOf(Parts, {"good", "drm"}) \X {0})

\* stirr.py: the first row of a videoid, whose epg_url is part of its URL.
StirrChannels(failed) ==
    IF 0 \in failed THEN LineupNothing
    ELSE LineupReturns({<<c, FirstPart(c, Parts, {"good", "drm"})>> :
                            c \in RowsOf(Parts, {"good", "drm"})})

\* distro.py: a geo that does not answer is skipped, and is part of the id.
DistroChannels(failed) ==
    LineupReturns(CompleteRows(Parts \ failed))

\* localnow.py: the request raises.  The first row of a channel decides, even
\* if it is locked.
LocalNowChannels(failed) ==
    IF 0 \in failed THEN LineupRaised
    ELSE LineupReturns({c \in RowsOf(Parts, {"good", "drm"}) :
                           offer[FirstPart(c, Parts, {"good", "drm"})][c] = "good"} \X {0})

\* amazon_prime_free.py: the page has the first stations, and no channels if it
\* fails.  _paginate_stations() stops at the first page that fails.
AmazonChannels(failed) ==
    IF 0 \in failed THEN LineupNothing
    ELSE LineupReturns(RowsOf({p \in Parts : \A o \in 2 .. p : o \notin failed},
                              {"good", "drm"}) \X {0})

\* tcl.py: the list of categories raises, a category that fails is skipped.
TclChannels(failed) ==
    IF 0 \in failed THEN LineupRaised
    ELSE LineupReturns(RowsOf(Parts \ failed, {"good", "drm"}) \X {0})

\* pluto.py: a country that does not answer is skipped.  The first that lists a
\* channel is part of its URL.
PlutoChannels(failed) ==
    LET read == Parts \ failed IN
    LineupReturns({<<c, FirstPart(c, read, {"good", "drm"})>> :
                      c \in RowsOf(read, {"good", "drm"})})

\* tubi.py, _channels_anon(): the ids are on a page, and no channels if it fails;
\* a batch of them that fails is skipped.
TubiAnonymous(failed) ==
    IF 0 \in failed THEN LineupNothing
    ELSE LineupReturns(RowsOf(Parts \ failed, {"good", "drm"}) \X {0})

\* With an account, the list of _channels_auth(), without those that need more;
\* if that is empty, that of _channels_anon().
TubiChannels(failed) ==
    IF LoginRequest \in failed \/ RowsOf(Parts, {"good"}) = {} THEN TubiAnonymous(failed)
    ELSE LineupReturns(RowsOf(Parts, {"good"}) \X {0})

LineupFetch(failed) ==
    CASE site = "xumo" -> XumoChannels(failed)
      [] site = "lg" -> LgChannels(failed)
      [] site = "freelive" -> FreeLiveChannels(failed)
      [] site = "vizio" -> VizioChannels(failed)
      [] site = "samsung" -> SamsungChannels(failed)
      [] site = "vidaa" -> VidaaChannels(failed)
      [] site = "hdhomerun" -> HdhomerunChannels(failed)
      [] site = "m3u" -> PlaylistChannels(failed)
      [] site = "sling" -> SlingChannels(failed)
      [] site = "stirr" -> StirrChannels(failed)
      [] site = "distro" -> DistroChannels(failed)
      [] site = "localnow" -> LocalNowChannels(failed)
      [] site = "amazon" -> AmazonChannels(failed)
      [] site = "tcl" -> TclChannels(failed)
      [] site = "pluto" -> PlutoChannels(failed)
      [] site = "tubi" -> TubiAnonymous(failed)
      [] site = "tubi login" -> TubiChannels(failed)

\* A scrape: some of its requests fail.
LineupScrape(failed) ==
    /\ failing = NotYet
    /\ failing' = failed
    /\ fetched' = LineupFetch(failed)
    /\ UNCHANGED <<site, offer>>

\* Until the next one, the service changes what it offers.
LineupChanges(p, c, row) ==
    /\ failing # NotYet
    /\ offer' = [offer EXCEPT ![p][c] = row]
    /\ fetched' = LineupNothing /\ failing' = NotYet
    /\ UNCHANGED site

LineupNext ==
    \/ \E failed \in SUBSET LineupRequests : LineupScrape(failed)
    \/ \E p \in Parts, c \in LineupChannels, row \in LineupRows : LineupChanges(p, c, row)

LineupSpec == LineupInit /\ [][LineupNext]_lineupVars

-----------------------------------------------------------------------------
LineupTypeOK ==
    /\ offer \in [Parts -> [LineupChannels -> LineupRows]]
    /\ fetched.rows \subseteq LineupChannels \X (0 .. LineupParts)
    /\ fetched.raised => fetched.rows = {}

\* A scrape all of whose requests succeed finds every channel that can be
\* played, wherever it is listed and whatever is listed beside it.  Of the
\* tuners, and of the rows of Local Now, the first that has the id decides.
LineupComplete ==
    failing = {} => \A c \in LineupChannels, p \in Parts :
        offer[p][c] = "good" /\ (site \in {"hdhomerun", "localnow"} => \A o \in 1 .. p : offer[o][c] # "drm")
            => \E r \in fetched.rows : r[1] = c

\* Requests that fail cost channels, and never give one another id or URL than
\* it has when they succeed: that would be a second row, or clear its flags.
\* But the channels of a tuner, or a country, that does not answer are left to
\* the next one, and without its login Tubi lists what needs one.
LineupIdentity ==
    site \notin {"hdhomerun", "pluto", "tubi login"} => fetched.rows \subseteq LineupFetch({}).rows

\* Types, and what scrapes find
LineupInv == LineupTypeOK /\ LineupComplete /\ LineupIdentity
=============================================================================
