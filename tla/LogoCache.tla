------------------------------- MODULE LogoCache -------------------------------
(***************************************************************************)
(* The logo directory of app/routes/images.py and what happens in it at    *)
(* once: web processes and the scraper's pre-warm fetch logos, a scrape    *)
(* that changes a channel's logo evicts the old one, and the scheduler     *)
(* sweeps the files no channel refers to.                                  *)
(*                                                                         *)
(* A logo is two files, the image and its content type; the third, with    *)
(* the URL, is written and removed along with the type.  An image is its   *)
(* kind: what the server of the URL serves at the time it is fetched.      *)
(***************************************************************************)
EXTENDS Naturals

CONSTANTS
    LogoUrls, LogoChannels,
    Kinds,            \* content types images have
    Fetchers,         \* threads that may be inside _fetch_and_cache()
    Prewarmers,       \* ... those among them that pre-warm after a scrape
    NoImage,           \* stands for a file that is not there
    EmptyFile,        \* a content type that has been opened and not written
    MaxReposts,       \* bound: an image changes at its server
    MaxRebrands,      \* bound: a scrape changes a channel's logo
    MaxImageCrashes   \* bound: fetching processes that die

ASSUME LogoAssumption ==
    /\ Prewarmers \subseteq Fetchers
    /\ NoImage \notin Kinds /\ EmptyFile \notin Kinds /\ NoImage # EmptyFile
    /\ {MaxReposts, MaxRebrands, MaxImageCrashes} \subseteq Nat

VARIABLES
    served,     \* the kind each URL's server serves
    logo,       \* Channel.logo_url, as committed
    image, type,   \* the two files of each URL
    fetch,      \* where each fetcher is, its URL and what it has got
    temps,      \* fetchers whose temporary file is in the directory
    orphans,    \* temporary files of fetchers that have died
    evict,      \* the eviction of a scrape: its step, the URLs, the channel
    sweep,      \* the sweep: what is still to be removed, and half removed
    torn,       \* history: URLs whose files two parties wrote at once, or one
                \* that died in between
    reposts, rebrands, imageCrashes

logoVars == <<served, logo, image, type, fetch, temps, orphans, evict, sweep,
              torn, reposts, rebrands, imageCrashes>>

Away == [at |-> "away"]
NoEviction == [at |-> "none"]
NoSweep == [at |-> "none"]

LogoInit ==
    /\ served \in {[u \in LogoUrls |-> k] : k \in Kinds}
    /\ logo \in {[c \in LogoChannels |-> u] : u \in LogoUrls}
    /\ image \in {served, [u \in LogoUrls |-> NoImage]}
    /\ type = image
    /\ fetch = [f \in Fetchers |-> Away]
    /\ temps = {}
    /\ orphans = FALSE
    /\ evict = NoEviction
    /\ sweep = NoSweep
    /\ torn = {}
    /\ reposts = 0 /\ rebrands = 0 /\ imageCrashes = 0

\* Who is at work on the files of u
Fetching(u) == {f \in Fetchers : fetch[f] # Away /\ fetch[f].url = u}
Removing(u) == \/ evict.at \in {"image", "type"} /\ evict.old = u
               \/ sweep.at = "sweep" /\ u \in sweep.half

TornBy(busy, u) == torn' = IF busy THEN torn \cup {u} ELSE torn

Repost(u) ==
    /\ reposts < MaxReposts
    /\ reposts' = reposts + 1
    /\ \E k \in Kinds \ {served[u]} : served' = [served EXCEPT ![u] = k]
    /\ UNCHANGED <<logo, image, type, fetch, temps, orphans, evict, sweep, torn,
                   rebrands, imageCrashes>>

-----------------------------------------------------------------------------
\* _fetch_and_cache().  A pre-warm skips what has an image; the proxy route
\* fetches what has no type or is three days old, which it may always be.

\* Faulty variant: a pre-warm skips what has a content type.
FetchBeginUntyped(f, u) ==
    /\ fetch[f] = Away
    /\ f \in Prewarmers => type[u] = NoImage
    /\ fetch' = [fetch EXCEPT ![f] = [at |-> "temp", url |-> u, kind |-> served[u]]]
    /\ temps' = temps \cup {f}
    /\ TornBy(Fetching(u) # {} \/ Removing(u), u)
    /\ UNCHANGED <<served, logo, image, type, orphans, evict, sweep, reposts,
                   rebrands, imageCrashes>>

FetchBegin(f, u) ==
    /\ fetch[f] = Away
    /\ f \in Prewarmers => image[u] = NoImage
    /\ fetch' = [fetch EXCEPT ![f] = [at |-> "temp", url |-> u, kind |-> served[u]]]
    /\ temps' = temps \cup {f}
    /\ TornBy(Fetching(u) # {} \/ Removing(u), u)
    /\ UNCHANGED <<served, logo, image, type, orphans, evict, sweep, reposts,
                   rebrands, imageCrashes>>

\* Faulty variant: a missing temporary file is passed over.
FetchReplaceRegardless(f) ==
    /\ fetch[f] # Away /\ fetch[f].at = "temp"
    /\ temps' = temps \ {f}
    /\ IF f \in temps
       THEN /\ image' = [image EXCEPT ![fetch[f].url] = fetch[f].kind]
            /\ fetch' = [fetch EXCEPT ![f].at = "open"]
       ELSE /\ fetch' = [fetch EXCEPT ![f].at = "open"]
            /\ UNCHANGED image
    /\ UNCHANGED <<served, logo, type, orphans, evict, sweep, torn, reposts,
                   rebrands, imageCrashes>>

\* os.replace(), which fails when the temporary file has been swept
FetchReplace(f) ==
    /\ fetch[f] # Away /\ fetch[f].at = "temp"
    /\ temps' = temps \ {f}
    /\ IF f \in temps
       THEN /\ image' = [image EXCEPT ![fetch[f].url] = fetch[f].kind]
            /\ fetch' = [fetch EXCEPT ![f].at = "open"]
       ELSE /\ fetch' = [fetch EXCEPT ![f] = Away]
            /\ UNCHANGED image
    /\ UNCHANGED <<served, logo, type, orphans, evict, sweep, torn, reposts,
                   rebrands, imageCrashes>>

\* The content type is truncated, then written.
FetchOpen(f) ==
    /\ fetch[f] # Away /\ fetch[f].at = "open"
    /\ type' = [type EXCEPT ![fetch[f].url] = EmptyFile]
    /\ fetch' = [fetch EXCEPT ![f].at = "write"]
    /\ UNCHANGED <<served, logo, image, temps, orphans, evict, sweep, torn, reposts,
                   rebrands, imageCrashes>>

\* A file that was removed since it was opened is written in vain.
FetchWrite(f) ==
    /\ fetch[f] # Away /\ fetch[f].at = "write"
    /\ type' = [type EXCEPT ![fetch[f].url] = IF @ = NoImage THEN @ ELSE fetch[f].kind]
    /\ fetch' = [fetch EXCEPT ![f] = Away]
    /\ UNCHANGED <<served, logo, image, temps, orphans, evict, sweep, torn, reposts,
                   rebrands, imageCrashes>>

\* The process dies wherever it is.
FetchDies(f) ==
    /\ fetch[f] # Away
    /\ imageCrashes < MaxImageCrashes
    /\ imageCrashes' = imageCrashes + 1
    /\ fetch' = [fetch EXCEPT ![f] = Away]
    /\ temps' = temps \ {f}
    /\ orphans' = (orphans \/ f \in temps)
    /\ TornBy(fetch[f].at # "temp", fetch[f].url)
    /\ UNCHANGED <<served, logo, image, type, evict, sweep, reposts, rebrands>>

-----------------------------------------------------------------------------
\* A scrape that finds a new logo for c evicts the old one, though others may
\* have it and though its own transaction may yet be rolled back.

EvictBegin(c, u) ==
    /\ evict = NoEviction
    /\ rebrands < MaxRebrands
    /\ rebrands' = rebrands + 1
    /\ logo[c] # u
    /\ evict' = [at |-> "image", old |-> logo[c], new |-> u, channel |-> c]
    /\ TornBy(Fetching(logo[c]) # {} \/ Removing(logo[c]), logo[c])
    /\ UNCHANGED <<served, logo, image, type, fetch, temps, orphans, sweep, reposts,
                   imageCrashes>>

EvictImage ==
    /\ evict.at = "image"
    /\ image' = [image EXCEPT ![evict.old] = NoImage]
    /\ evict' = [evict EXCEPT !.at = "type"]
    /\ UNCHANGED <<served, logo, type, fetch, temps, orphans, sweep, torn, reposts,
                   rebrands, imageCrashes>>

EvictType ==
    /\ evict.at = "type"
    /\ type' = [type EXCEPT ![evict.old] = NoImage]
    /\ evict' = [evict EXCEPT !.at = "commit"]
    /\ UNCHANGED <<served, logo, image, fetch, temps, orphans, sweep, torn, reposts,
                   rebrands, imageCrashes>>

EvictCommit ==
    /\ evict.at = "commit"
    /\ logo' \in {logo, [logo EXCEPT ![evict.channel] = evict.new]}
    /\ evict' = NoEviction
    /\ UNCHANGED <<served, image, type, fetch, temps, orphans, sweep, torn, reposts,
                   rebrands, imageCrashes>>

-----------------------------------------------------------------------------
\* sweep_orphaned_logos(): the URLs are read from the database, the directory
\* is listed, and what is listed and not in use goes, temporary files too.

SweepQuery ==
    /\ sweep = NoSweep
    /\ sweep' = [at |-> "list", keep |-> {logo[c] : c \in LogoChannels}]
    /\ UNCHANGED <<served, logo, image, type, fetch, temps, orphans, evict, torn,
                   reposts, rebrands, imageCrashes>>

SweepList ==
    /\ sweep.at = "list"
    /\ sweep' = [at |-> "sweep", half |-> {}, temps |-> temps, orphans |-> orphans,
                 urls |-> {u \in LogoUrls \ sweep.keep : image[u] # NoImage}]
    /\ UNCHANGED <<served, logo, image, type, fetch, temps, orphans, evict, torn,
                   reposts, rebrands, imageCrashes>>

SweepImage(u) ==
    /\ sweep.at = "sweep" /\ u \in sweep.urls /\ sweep.half = {}
    /\ image' = [image EXCEPT ![u] = NoImage]
    /\ sweep' = [at |-> "sweep", half |-> {u}, temps |-> sweep.temps, orphans |-> sweep.orphans,
                 urls |-> sweep.urls \ {u}]
    /\ TornBy(Fetching(u) # {} \/ Removing(u), u)
    /\ UNCHANGED <<served, logo, type, fetch, temps, orphans, evict, reposts, rebrands,
                   imageCrashes>>

SweepType(u) ==
    /\ sweep.at = "sweep" /\ u \in sweep.half
    /\ type' = [type EXCEPT ![u] = NoImage]
    /\ sweep' = [sweep EXCEPT !.half = {}]
    /\ UNCHANGED <<served, logo, image, fetch, temps, orphans, evict, torn, reposts,
                   rebrands, imageCrashes>>

\* The temporary files that were listed, all at once, and the end of the sweep
SweepTemps ==
    /\ sweep.at = "sweep" /\ sweep.urls = {} /\ sweep.half = {}
    /\ temps' = temps \ sweep.temps
    /\ orphans' = (orphans /\ ~sweep.orphans)
    /\ sweep' = NoSweep
    /\ UNCHANGED <<served, logo, image, type, fetch, evict, torn, reposts, rebrands,
                   imageCrashes>>

LogoFetch(f) == FetchReplace(f) \/ FetchOpen(f) \/ FetchWrite(f)
LogoEvict == EvictImage \/ EvictType \/ EvictCommit
LogoSweep == SweepQuery \/ SweepList \/ SweepTemps \/ \E u \in LogoUrls : SweepImage(u) \/ SweepType(u)

LogoNext ==
    \/ \E f \in Fetchers : LogoFetch(f) \/ FetchDies(f) \/ \E u \in LogoUrls : FetchBegin(f, u)
    \/ \E c \in LogoChannels, u \in LogoUrls : EvictBegin(c, u)
    \/ LogoEvict \/ LogoSweep
    \/ \E u \in LogoUrls : Repost(u)

\* Threads run, sweeps end, and after every scrape what has no image is fetched
\* again; a sweep, every six hours, does not meet every fetch of ten seconds.
LogoFairness ==
    /\ WF_logoVars(LogoEvict)
    /\ WF_logoVars(LogoSweep)
    /\ \A f \in Fetchers : WF_logoVars(LogoFetch(f))
    /\ \A f \in Prewarmers, u \in LogoUrls :
          /\ SF_logoVars(FetchBegin(f, u))
          /\ SF_logoVars(fetch[f] # Away /\ fetch[f].url = u /\ f \in temps /\ FetchReplace(f))

LogoSpec == LogoInit /\ [][LogoNext]_logoVars /\ LogoFairness

-----------------------------------------------------------------------------
\* Type invariant
LogoTypeOK ==
    /\ served \in [LogoUrls -> Kinds] /\ logo \in [LogoChannels -> LogoUrls]
    /\ image \in [LogoUrls -> Kinds \cup {NoImage}]
    /\ type \in [LogoUrls -> Kinds \cup {NoImage, EmptyFile}]
    /\ fetch \in [Fetchers -> {Away} \cup
                    [at : {"temp", "open", "write"}, url : LogoUrls, kind : Kinds]]
    /\ temps \subseteq {f \in Fetchers : fetch[f] # Away /\ fetch[f].at = "temp"}
    /\ evict.at \in {"none", "image", "type", "commit"}
    /\ sweep.at \in {"none", "list", "sweep"}
    /\ torn \subseteq LogoUrls /\ orphans \in BOOLEAN

\* serve_logo_static() tells a client what the image is: unless two parties were
\* at the files of a logo at once or one died between them, image and content
\* type belong together, or are both missing, whenever nobody is at work.
LogoTyped ==
    \A u \in LogoUrls \ torn :
        /\ ~ \E f \in Fetching(u) : fetch[f].at # "temp"
        /\ ~Removing(u)
        => type[u] = image[u]

\* A logo some channel has is in the cache again after whatever evicted it,
\* swept it or cut its fetch short, or no channel has it any more.
LogosReturn ==
    \A u \in LogoUrls : image[u] = NoImage ~> \/ image[u] # NoImage
                                             \/ \A c \in LogoChannels : logo[c] # u

\* Types, and what a client is told an image is
LogoInv == LogoTypeOK /\ LogoTyped
================================================================================
