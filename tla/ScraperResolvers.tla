------------------------- MODULE ScraperResolvers -------------------------
(***************************************************************************)
(* resolve() and audit_resolve(): how the scrapers turn the stored URL of  *)
(* a channel into one that can be played, what tokens, URLs and feeds they *)
(* keep for that, where, and for how long.                                 *)
(*                                                                         *)
(* A play request (play.py) and an inspection (api.py) make an instance of *)
(* the scraper from the stored configuration and persist its updates, also *)
(* after an exception; an audit (worker.py) has one instance for all       *)
(* channels and persists nothing.  What an instance keeps, and what the    *)
(* configuration does, is named by the time at which it was fetched.       *)
(*                                                                         *)
(* The outcome of a call is                                                *)
(*   "url"    a playable URL, or one the player gets as it is stored,      *)
(*   "raw"    the stored URL, with a scheme that no player knows,          *)
(*   "dead"   StreamDeadError: play.py and worker.py disable the channel,  *)
(*   "error"  another exception.                                           *)
(***************************************************************************)
EXTENDS Integers, FiniteSets

CONSTANTS
    ResSites,           \* the scrapers
    ResLastTime,        \* bound on time
    LocalNowLife,       \* how long Local Now accepts a token
    DistroLife,         \* how long a feed of Distro is used: half an hour
    AmazonLife,         \* a URL of Amazon: an hour and a half
    PlutoLife,          \* and what Pluto's boot() returns: four hours
    ResSlots            \* sessions that Pluto's pool rotates through

ASSUME ResAssumption ==
    /\ ResSites \subseteq {"sling", "localnow", "amazon", "distro", "stirr", "xumo", "tubi",
                           "pluto", "tvpass", "stored"}
    /\ ResLastTime \in Nat
    /\ {LocalNowLife, DistroLife, AmazonLife, PlutoLife} \subseteq Nat \ {0}
    /\ ResSlots \in Nat \ {0}

Never == -1

VARIABLES
    resSite,        \* the scraper
    resTime,
    resListed,      \* the service has the channel
    bearersSince,   \* Sling accepts the bearers fetched since then
    keysSince,      \* and the keys to fetch them with
    resStored,      \* the configuration: a bearer of Sling, a URL of Amazon
    resKeys,        \* keys that Sling's page gave, in the configuration and in that of
                    \* the audit's instance
    resFeeds,       \* Distro's feed in the web process and in an audit's process
    resAudit,       \* what the audit's instance keeps, for each slot of its pool
    resSlot,        \* the slot it used last
    resOutcome      \* the last call: who made it, what came of it, which of its
                    \* requests failed, and the age of the token or URL it used

resolverVars == <<resSite, resTime, resListed, bearersSince, keysSince, resStored, resKeys,
                  resFeeds, resAudit, resSlot, resOutcome>>

\* The requests of a call: for a token, and for the channel
ResRequests ==
    CASE resSite \in {"sling", "localnow"} -> {"login", "first"}
      [] resSite \in {"xumo", "tvpass"} -> {"first", "second"}
      [] OTHER -> {"first"}

NoFeed == [at |-> Never, lists |-> FALSE]
NoResolve == [by |-> "nobody", what |-> "raw", failed |-> {}, age |-> 0]
NoAudit == [s \in 1 .. ResSlots |-> Never]

ResInit ==
    /\ resSite \in ResSites
    /\ resTime = 0
    /\ resListed = TRUE
    /\ bearersSince = 0 /\ keysSince = 0
    /\ resStored = Never
    /\ resKeys = [w \in {"web", "audit"} |-> Never]
    /\ resFeeds = [w \in {"web", "audit"} |-> NoFeed]
    /\ resAudit = NoAudit
    /\ resSlot = 1
    /\ resOutcome = NoResolve

-----------------------------------------------------------------------------
\* What a call returns: the outcome, what the instance keeps from then on, the
\* keys and the feed.
ResGives(what, held) == [what |-> what, held |-> held, keys |-> Never, feed |-> NoFeed]

\* sling.py.  A bearer the instance has is used until the service refuses it,
\* and then there is one attempt with another.  Keys for it are used if they are
\* known; else a browser opens the page, and they are known from then on.
SlingLogin(held, keys, failed) ==
    IF held # Never THEN held
    ELSE IF "login" \in failed \/ (keys # Never /\ keys < keysSince) THEN Never
    ELSE resTime

\* Faulty variant: a refused bearer is not cleared before the next attempt.
SlingBearerKept(held, keys, failed) == SlingLogin(held, keys, failed)

SlingBearer(held, keys, failed) ==
    LET bearer == SlingLogin(held, keys, failed)
    IN  IF bearer # Never /\ bearer < bearersSince THEN SlingLogin(Never, keys, failed)
        ELSE bearer

SlingResolve(held, keys, failed) ==
    LET bearer == SlingBearer(held, keys, failed)
        what == IF bearer < bearersSince \/ "first" \in failed THEN "error"
                ELSE IF resListed THEN "url" ELSE "dead"
    IN  [ResGives(what, bearer) EXCEPT !.keys =
            IF bearer = resTime /\ bearer # held /\ keys = Never THEN resTime ELSE keys]

\* localnow.py.  A token is used until two minutes before it ends.
LocalNowToken(held, failed) ==
    IF held # Never /\ resTime < held + LocalNowLife THEN held
    ELSE IF "login" \in failed THEN Never
    ELSE resTime

LocalNowResolve(held, failed) ==
    LET token == LocalNowToken(held, failed)
    IN  IF token = Never THEN ResGives("error", held)
        ELSE ResGives(IF "first" \in failed \/ ~resListed \/ resTime >= token + LocalNowLife
                      THEN "error" ELSE "url", token)

\* amazon_prime_free.py, with a cookie: a URL is used for an hour and a half.
AmazonResolve(held, failed) ==
    IF held # Never /\ resTime < held + AmazonLife THEN ResGives("url", held)
    ELSE IF "first" \in failed \/ ~resListed THEN ResGives("raw", held)
    ELSE ResGives("url", resTime)

\* distro.py: a feed is kept for half an hour, in the module.  Failing to get one
\* is not told from a feed without the channel.  The master playlist is asked for
\* its best variant, and used itself if that fails.
DistroFeed(feed, failed) ==
    IF feed.at # Never /\ resTime < feed.at + DistroLife THEN feed
    ELSE IF "first" \in failed THEN feed
    ELSE [at |-> resTime, lists |-> resListed]

DistroResolve(held, feed, failed) ==
    LET now == DistroFeed(feed, failed)
    IN  [ResGives(IF now.at # Never /\ resTime < now.at + DistroLife /\ now.lists THEN "url" ELSE "dead",
                  held) EXCEPT !.feed = now]

\* stirr.py: a request for the URL; no URL, or a failure, is left to the player.
StirrResolve(failed) ==
    ResGives(IF "first" \in failed \/ ~resListed THEN "raw" ELSE "url", Never)

\* An audit asks for it too, and then for the URL's playlist: a channel the
\* service does not know, or whose playlist is deleted, is dead.
StirrAudit(failed) ==
    ResGives(IF "first" \notin failed /\ ~resListed THEN "dead" ELSE "raw", Never)

\* xumo.py: the channel's broadcast, and the asset it shows, which is kept.
XumoResolve(held, failed) ==
    IF "first" \in failed \/ ~resListed \/ (held = Never /\ "second" \in failed)
    THEN ResGives("raw", held)
    ELSE ResGives("url", IF held = Never THEN resTime ELSE held)

\* tubi.py: the URL is kept.
TubiResolve(held, failed) ==
    IF held # Never THEN ResGives("url", held)
    ELSE IF "first" \in failed \/ ~resListed THEN ResGives("raw", held)
    ELSE ResGives("url", resTime)

\* pluto.py: what boot() returns is used for four hours.
PlutoBoot(held, failed) ==
    IF held # Never /\ resTime < held + PlutoLife THEN held
    ELSE IF "first" \in failed THEN Never
    ELSE resTime

PlutoResolve(held, failed) ==
    LET token == PlutoBoot(held, failed)
    IN  IF token = Never THEN ResGives("raw", held) ELSE ResGives("url", token)

\* tvpass.py: the first of two streams that ffprobe finds audio in.  It finds none
\* when it cannot open the stream; when it takes too long, that passes for audio.
TvpassResolve(failed) ==
    ResGives(IF resListed /\ ({"first", "second"} \ failed # {}) THEN "url" ELSE "dead", Never)

\* samsung.py follows a redirect, tcl.py asks for a URL, and both have one to fall
\* back on.  freelivesports.py, lg_channels.py, hdhomerun.py, m3u_utils.py and
\* base.py, for the others, only rewrite the URL.
StoredUrl == ResGives("url", Never)

ResolveWith(by, held, failed) ==
    CASE resSite = "sling" -> SlingResolve(held, resKeys[by], failed)
      [] resSite = "localnow" -> LocalNowResolve(held, failed)
      [] resSite = "amazon" -> AmazonResolve(held, failed)
      [] resSite = "distro" -> DistroResolve(held, resFeeds[by], failed)
      [] resSite = "stirr" -> IF by = "audit" THEN StirrAudit(failed) ELSE StirrResolve(failed)
      [] resSite = "xumo" -> XumoResolve(held, failed)
      [] resSite = "tubi" -> TubiResolve(held, failed)
      [] resSite = "pluto" -> PlutoResolve(held, failed)
      [] resSite = "tvpass" -> TvpassResolve(failed)
      [] resSite = "stored" -> StoredUrl

ResTell(by, result, failed) ==
    resOutcome' = [by |-> by, what |-> result.what, failed |-> failed,
                   age |-> IF result.held = Never THEN 0 ELSE resTime - result.held]

-----------------------------------------------------------------------------
\* play() and inspect_channel(): a new instance, whose updates are persisted.
ResPlay(failed) ==
    LET result == ResolveWith("web", resStored, failed) IN
    /\ ResTell("web", result, failed)
    /\ resStored' = IF resSite \in {"sling", "amazon"} /\ result.held # Never
                    THEN result.held ELSE resStored
    /\ resKeys' = [resKeys EXCEPT !["web"] = result.keys]
    /\ resFeeds' = IF resSite = "distro" THEN [resFeeds EXCEPT !["web"] = result.feed]
                   ELSE resFeeds
    /\ UNCHANGED <<resSite, resTime, resListed, bearersSince, keysSince, resAudit, resSlot>>

\* run_stream_audit(): the process begins with no feed, and the instance with what
\* is stored.  Tubi's reads the lineup first, which has the URLs.
ResAuditStart(fails) ==
    /\ resAudit' = [s \in 1 .. ResSlots |->
            IF resSite = "tubi" /\ resListed /\ ~fails THEN resTime
            ELSE IF s = 1 THEN resStored ELSE Never]
    /\ resFeeds' = [resFeeds EXCEPT !["audit"] = NoFeed]
    /\ resKeys' = [resKeys EXCEPT !["audit"] = resKeys["web"]]
    /\ resSlot' = 1
    /\ resOutcome' = NoResolve
    /\ UNCHANGED <<resSite, resTime, resListed, bearersSince, keysSince, resStored>>

\* The audit comes to the channel.  Each call uses the next slot of Pluto's pool.
ResAuditStep(failed) ==
    LET result == ResolveWith("audit", resAudit[resSlot], failed) IN
    /\ ResTell("audit", result, failed)
    /\ resAudit' = [resAudit EXCEPT ![resSlot] = result.held]
    /\ resFeeds' = IF resSite = "distro" THEN [resFeeds EXCEPT !["audit"] = result.feed]
                   ELSE resFeeds
    /\ resKeys' = [resKeys EXCEPT !["audit"] = result.keys]
    /\ resSlot' = IF resSite = "pluto" THEN (resSlot % ResSlots) + 1 ELSE resSlot
    /\ UNCHANGED <<resSite, resTime, resListed, bearersSince, keysSince, resStored>>

\* Time passes, and the service may do away with what it gave out.
ResTick(bearers, keys) ==
    /\ resTime < ResLastTime
    /\ resTime' = resTime + 1
    /\ bearers \/ keys => resSite = "sling"
    /\ bearersSince' = IF bearers THEN resTime' ELSE bearersSince
    /\ keysSince' = IF keys THEN resTime' ELSE keysSince
    /\ resOutcome' = NoResolve
    /\ UNCHANGED <<resSite, resListed, resStored, resKeys, resFeeds, resAudit, resSlot>>

\* The service adds the channel, or removes it.
ResRelist ==
    /\ resListed' = ~resListed
    /\ resOutcome' = NoResolve
    /\ UNCHANGED <<resSite, resTime, bearersSince, keysSince, resStored, resKeys, resFeeds,
                   resAudit, resSlot>>

ResNext ==
    \/ \E failed \in SUBSET ResRequests : ResPlay(failed) \/ ResAuditStep(failed)
    \/ \E fails \in BOOLEAN : ResAuditStart(fails)
    \/ \E bearers, keys \in BOOLEAN : ResTick(bearers, keys)
    \/ ResRelist

ResSpec == ResInit /\ [][ResNext]_resolverVars

-----------------------------------------------------------------------------
ResTypeOK ==
    /\ resTime \in 0 .. ResLastTime
    /\ {resStored} \cup {resAudit[s] : s \in 1 .. ResSlots} \subseteq Never .. resTime
    /\ resKeys \in [{"web", "audit"} -> Never .. resTime]
    /\ resSlot \in 1 .. ResSlots
    /\ resOutcome.what \in {"url", "raw", "dead", "error"} /\ resOutcome.failed \subseteq ResRequests

\* No token, URL or feed that is kept, in an instance or the configuration, keeps
\* a channel from being resolved: if the service has it and all requests succeed,
\* there is a URL.  An audit of Stirr only looks, Distro may have a feed from
\* before the channel was there, and when Sling does away with the keys it gave
\* out, the browser is not asked for others.
ResolvesWhenListed ==
    resOutcome.by # "nobody" /\ resOutcome.failed = {} /\ resListed /\ resOutcome.what # "url"
        => \/ resSite = "stirr" /\ resOutcome.by = "audit" /\ resOutcome.what = "raw"
           \/ resSite = "distro" /\ ~resFeeds[resOutcome.by].lists
           \/ resSite = "sling" /\ resKeys[resOutcome.by] \in 0 .. keysSince - 1

\* What a URL is built from is not older than the code says: it was good when
\* the scraper got it, and services end it about then.
ResolvesFreshly ==
    resOutcome.what = "url" =>
        CASE resSite = "amazon" -> resOutcome.age < AmazonLife
          [] resSite = "pluto" -> resOutcome.age < PlutoLife
          [] resSite = "localnow" -> resOutcome.age < LocalNowLife
          [] resSite = "distro" -> resTime < resFeeds[resOutcome.by].at + DistroLife
          [] OTHER -> TRUE

\* Of the scrapers that say so, Sling and Stirr do not take a failure for the end
\* of a channel.
DeadMeansGone == resOutcome.what = "dead" /\ resSite \in {"sling", "stirr"} => ~resListed

\* A bearer that Sling accepted is stored for the next request.
BearerStored ==
    resSite = "sling" /\ resOutcome.by = "web" /\ resOutcome.what = "url"
        => resStored >= bearersSince

ResolveInv == ResTypeOK /\ ResolvesWhenListed /\ ResolvesFreshly /\ DeadMeansGone /\ BearerStored

\* base.py of StreamDeadError: "Raised by audit_resolve() when a channel is
\* confirmed dead (not a transient error)."
DeadIsConfirmed == resOutcome.what = "dead" => ~resListed
=============================================================================
