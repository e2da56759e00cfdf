---------------------------- MODULE PlexScraper ----------------------------
(***************************************************************************)
(* The Plex scraper: the anonymous token it keeps in the configuration of  *)
(* the source, the channel list it takes from a page of watch.plex.tv, the *)
(* guide it puts together from three windows of eight hours for everybody  *)
(* and two more days for the enabled channels, and the manifests it        *)
(* resolves for viewers and audits.  run_scraper() decides which scrapes   *)
(* fetch the channel list.                                                 *)
(*                                                                         *)
(* One unit of time is four hours; midnight (UTC) is at multiples of six.  *)
(* A channel has one airing in each unit.                                  *)
(***************************************************************************)
EXTENDS Integers, FiniteSets

CONSTANTS
    PlexChannels,
    PlexGenres,         \* the genres of the lineup
    PlexGenreOf,        \* the genres a channel is listed under
    PlexEnabled,        \* channels the user has enabled
    PlexLastTime,       \* bound: the clock stops
    MaxPlexExpiries,    \* bound: tokens that Plex stops accepting
    MaxPlexLists        \* bound: changes of the page

ASSUME PlexAssumption ==
    /\ PlexGenreOf \in [PlexChannels -> SUBSET PlexGenres]
    /\ PlexEnabled \subseteq PlexChannels
    /\ PlexLastTime \in Nat /\ MaxPlexExpiries \in Nat /\ MaxPlexLists \in Nat

VARIABLES
    plexNow,
    plexPage,       \* channels on the page
    plexAccepts,    \* the token Plex accepts
    plexStored,     \* the token in Source.config
    plexRun,        \* the scrape: its phase, its token, what it has fetched, what
                    \* failed, and whether it got its token after pre_run_setup()
    plexRows,       \* the channels in the database and those with a guide key
    plexScraped,    \* Source.last_scraped_at
    plexListed,     \* when the channel list was last fetched
    plexLists       \* counts the changes of the page

plexVars == <<plexNow, plexPage, plexAccepts, plexStored, plexRun, plexRows,
              plexScraped, plexListed, plexLists>>

PlexNone == 0                   \* no token: those of Plex are numbered from 1
PlexNever == -1                 \* last_scraped_at is NULL
PlexDay == 6
PlexWindow == 2                 \* window_hours
PlexWindows == 0 .. 2           \* n_windows
PlexExtraDays == 1 .. 2         \* _PLEX_EXTRA_DAYS
PlexRefresh == 6                \* channel_refresh_hours

PlexIdle == [at |-> "idle", token |-> PlexNone, full |-> FALSE,
             chans |-> {}, keyed |-> {}, guide |-> {}, failed |-> {}, late |-> FALSE]

PlexInit ==
    /\ plexNow = 0
    /\ plexPage \in SUBSET PlexChannels
    /\ plexAccepts = 1
    /\ plexStored \in {PlexNone, 1}
    /\ plexRun = PlexIdle
    /\ plexRows = [all |-> {}, keyed |-> {}]
    /\ plexScraped = PlexNever /\ plexListed = PlexNever
    /\ plexLists = 0

-----------------------------------------------------------------------------
\* _ensure_auth(): whatever token there is will do, unless forced.
PlexEnsureAuth(token, force, answers) ==
    IF token # PlexNone /\ ~force THEN token
    ELSE IF answers THEN plexAccepts ELSE token

\* The genres whose request to the lineup succeeds
PlexGenresRead(token, failed) ==
    IF "root" \in failed \/ token # plexAccepts THEN {} ELSE PlexGenres \ failed

\* _fetch_lineup_grid_keys(): the channels with a guide key.  Without a token,
\* the provider's root or its genres it returns one empty dictionary, not two.
PlexGridKeys(token, failed) ==
    {c \in PlexChannels : PlexGenreOf[c] \cap PlexGenresRead(token, failed) # {}}

PlexNoPair(token, failed) ==
    "root" \in failed \/ token # plexAccepts \/ PlexGenres = {}

\* Faulty variant: the extra days begin a day late.
PlexExtraLate(now) ==
    UNION {(now \div PlexDay + d + 1) * PlexDay .. (now \div PlexDay + d + 2) * PlexDay - 1 :
              d \in PlexExtraDays}

\* The days that follow the current one
PlexExtra(now) ==
    UNION {(now \div PlexDay + d) * PlexDay .. (now \div PlexDay + d + 1) * PlexDay - 1 :
              d \in PlexExtraDays}

\* What the windows show of the channels it knows: one that fails is skipped.
PlexGrid(now, known, failed) ==
    known \X UNION {now + w * PlexWindow .. now + (w + 1) * PlexWindow - 1 :
                        w \in PlexWindows \ failed}

\* fetch_epg(): the windows, then _fetch_extra_day_programs() with one request
\* for each channel that has a guide key and that the database has as enabled.
PlexGuide(now, token, chans, keyed, failed, unread) ==
    IF token # plexAccepts THEN {}
    ELSE PlexGrid(now, chans, failed)
         \cup ((chans \cap keyed \cap plexRows.all \cap PlexEnabled) \ unread) \X PlexExtra(now)

-----------------------------------------------------------------------------
\* run_scraper() fetches the channels unless the last scrape, with channels or
\* without, is younger than channel_refresh_hours.
PlexFetchesChannels(force) ==
    force \/ plexScraped = PlexNever \/ plexNow - plexScraped >= PlexRefresh

\* A scrape begins: __init__() takes the token from the configuration.
PlexBegin(force) ==
    /\ plexRun.at = "idle"
    /\ force \/ plexScraped = PlexNever \/ plexNow > plexScraped
    /\ plexRun' = [PlexIdle EXCEPT !.at = "setup", !.token = plexStored,
                                   !.full = PlexFetchesChannels(force)]
    /\ UNCHANGED <<plexNow, plexPage, plexAccepts, plexStored, plexRows, plexScraped,
                   plexListed, plexLists>>

\* pre_run_setup(), and the commit of a new token: no token is no reason to stop.
PlexSetup(answers) ==
    LET token == PlexEnsureAuth(plexRun.token, FALSE, answers) IN
    /\ plexRun.at = "setup"
    /\ plexRun' = [plexRun EXCEPT !.token = token,
                      !.at = IF plexRun.full THEN "channels" ELSE "epg",
                      !.chans = IF plexRun.full THEN {} ELSE plexRows.all,
                      !.keyed = IF plexRun.full THEN {} ELSE plexRows.keyed]
    /\ plexStored' = IF plexRun.token = PlexNone /\ answers THEN token ELSE plexStored
    /\ UNCHANGED <<plexNow, plexPage, plexAccepts, plexRows, plexScraped, plexListed, plexLists>>

\* fetch_channels(): no page, no channels; no pair of dictionaries, and the
\* assignment to two names raises.
PlexFetchChannels(failed, answers) ==
    LET token == PlexEnsureAuth(plexRun.token, FALSE, answers) IN
    /\ plexRun.at = "channels"
    /\ IF "page" \in failed
       THEN plexRun' = [plexRun EXCEPT !.at = "epg", !.failed = failed]
       ELSE IF PlexNoPair(token, failed)
       THEN plexRun' = [plexRun EXCEPT !.at = "raised"]
       ELSE plexRun' = [plexRun EXCEPT !.at = "epg", !.token = token, !.failed = failed,
                           !.late = token # plexRun.token, !.chans = plexPage,
                           !.keyed = plexPage \cap PlexGridKeys(token, failed)]
    /\ UNCHANGED <<plexNow, plexPage, plexAccepts, plexStored, plexRows, plexScraped,
                   plexListed, plexLists>>

PlexFetchEpg(failed, unread, answers) ==
    LET token == PlexEnsureAuth(plexRun.token, FALSE, answers) IN
    /\ plexRun.at = "epg"
    /\ plexRun' = [plexRun EXCEPT !.at = "save", !.token = token, !.failed = IF failed = {} /\ unread = {} THEN @ ELSE {"guide"},
                      !.late = @ \/ token # plexRun.token,
                      !.guide = PlexGuide(plexNow, token, plexRun.chans, plexRun.keyed,
                                          failed, unread)]
    /\ UNCHANGED <<plexNow, plexPage, plexAccepts, plexStored, plexRows, plexScraped,
                   plexListed, plexLists>>

\* Upserts and the commit.  A guide key that is not found is kept; what becomes
\* of channels that are not on the page is up to the flags.
PlexSave ==
    /\ plexRun.at = "save"
    /\ plexRun' = [plexRun EXCEPT !.at = "saved"]
    /\ plexStored' = IF plexRun.late THEN plexRun.token ELSE plexStored
    /\ plexRows' = [all |-> plexRows.all \cup plexRun.chans,
                    keyed |-> plexRows.keyed \cup plexRun.keyed]
    /\ plexScraped' = plexNow
    /\ plexListed' = IF plexRun.full THEN plexNow ELSE plexListed
    /\ UNCHANGED <<plexNow, plexPage, plexAccepts, plexLists>>

\* The job is over, after the commit or an exception.
PlexEnd ==
    /\ plexRun.at \in {"saved", "raised"}
    /\ plexRun' = PlexIdle
    /\ UNCHANGED <<plexNow, plexPage, plexAccepts, plexStored, plexRows, plexScraped,
                   plexListed, plexLists>>

-----------------------------------------------------------------------------
\* resolve() and audit_resolve(): a manifest that is refused with 401 or 403
\* is asked for once more with a new token.
PlexManifest(token, answers) ==
    LET first == PlexEnsureAuth(token, FALSE, answers)
    IN  IF first \in {PlexNone, plexAccepts} THEN first
        ELSE PlexEnsureAuth(PlexNone, TRUE, answers)

\* A viewer or an audit resolves a channel, and the new token is saved.
PlexResolve(answers) ==
    LET token == PlexManifest(plexStored, answers) IN
    /\ plexRows.all # {}
    /\ plexStored' = IF token = PlexNone THEN plexStored ELSE token
    /\ UNCHANGED <<plexNow, plexPage, plexAccepts, plexRun, plexRows, plexScraped,
                   plexListed, plexLists>>

\* Plex no longer accepts a token.
PlexExpire ==
    /\ plexAccepts <= MaxPlexExpiries
    /\ plexAccepts' = plexAccepts + 1
    /\ UNCHANGED <<plexNow, plexPage, plexStored, plexRun, plexRows, plexScraped,
                   plexListed, plexLists>>

PlexRelist(page) ==
    /\ plexLists < MaxPlexLists
    /\ plexPage' = page
    /\ plexLists' = plexLists + 1
    /\ UNCHANGED <<plexNow, plexAccepts, plexStored, plexRun, plexRows, plexScraped, plexListed>>

PlexTick ==
    /\ plexNow < PlexLastTime
    /\ plexRun.at = "idle"
    /\ plexNow' = plexNow + 1
    /\ UNCHANGED <<plexPage, plexAccepts, plexStored, plexRun, plexRows, plexScraped,
                   plexListed, plexLists>>

PlexScrape ==
    \/ PlexBegin(FALSE) \/ PlexSave \/ PlexEnd
    \/ \E answers \in BOOLEAN :
          \/ PlexSetup(answers)
          \/ \E failed \in SUBSET ({"page", "root"} \cup PlexGenres) :
                PlexFetchChannels(failed, answers)
          \/ \E failed \in SUBSET PlexWindows, unread \in SUBSET PlexEnabled :
                PlexFetchEpg(failed, unread, answers)

PlexNext ==
    \/ PlexScrape \/ PlexBegin(TRUE)
    \/ \E answers \in BOOLEAN : PlexResolve(answers)
    \/ PlexExpire \/ PlexTick
    \/ \E page \in SUBSET PlexChannels : PlexRelist(page)

PlexSpec == PlexInit /\ [][PlexNext]_plexVars

-----------------------------------------------------------------------------
PlexTypeOK ==
    /\ plexNow \in 0 .. PlexLastTime
    /\ plexPage \subseteq PlexChannels
    /\ plexStored \in 0 .. plexAccepts /\ plexRun.token \in 0 .. plexAccepts
    /\ plexRun.at \in {"idle", "setup", "channels", "epg", "save", "saved", "raised"}
    /\ plexRun.keyed \subseteq PlexChannels
    /\ plexRows.keyed \subseteq plexRows.all /\ plexRows.all \subseteq PlexChannels
    /\ plexScraped \in PlexNever .. plexNow /\ plexListed \in PlexNever .. plexScraped

\* The windows of the grid and the extra days leave no gap, at whatever time of
\* the day the scrape runs: when no request failed, a channel has the airings
\* of the next 24 hours, and an enabled one with a guide key all those until
\* the end of the day after tomorrow.
PlexGuideWhole ==
    plexRun.at = "save" /\ plexRun.failed = {} /\ plexRun.token = plexAccepts =>
        \A c \in plexRun.chans :
            {a[2] : a \in {b \in plexRun.guide : b[1] = c}}
                = plexNow .. IF c \in plexRun.keyed \cap plexRows.all \cap PlexEnabled
                             THEN (plexNow \div PlexDay + 3) * PlexDay - 1
                             ELSE plexNow + PlexDay - 1

\* The types and the guide
PlexInv == PlexTypeOK /\ PlexGuideWhole

\* base.py of channel_refresh_hours: "0 = refresh channels every run; >0 = only
\* refresh channels after N hours".  A scrape that leaves the channel list as it
\* is finds one that is younger than that.
PlexListFresh ==
    plexRun.at = "save" /\ ~plexRun.full => plexNow - plexListed < PlexRefresh
=============================================================================
