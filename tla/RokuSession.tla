----------------------------- MODULE RokuSession -----------------------------
(***************************************************************************)
(* What the scraper of The Roku Channel keeps in Source.config between its *)
(* instances, app/scrapers/roku.py: every request to play a channel and    *)
(* every scrape makes an instance from the configuration, changes its own  *)
(* caches, and has the changes merged back by                              *)
(* persist_source_config_updates() of app/config_store.py.                 *)
(*                                                                         *)
(* A stream URL is the session token it embeds, a play id the version of   *)
(* the station's play id; both are numbered in the order Roku issues them. *)
(* Their entries also expire by their age, which the model leaves out: a   *)
(* property has to hold without waiting for that.  The cooldown after an   *)
(* answer 403 is kept as the time it ends at.                              *)
(***************************************************************************)
EXTENDS Naturals, FiniteSets

CONSTANTS
    Stations,       \* channels of the source
    Tuners,         \* requests to play a channel and scrapes, as many as at once
    RokuCooldown,   \* how long Roku is left alone after a 403
    MaxTokens,      \* bound: session tokens that expire
    MaxPlayIds,     \* bound: changes of a station's play id
    MaxForbidden,   \* bound: answers 403
    RokuLastTime    \* bound: the time

ASSUME RokuAssumption ==
    /\ IsFiniteSet(Stations)
    /\ RokuCooldown \in Nat \ {0}
    /\ MaxTokens \in Nat /\ MaxPlayIds \in Nat /\ MaxForbidden \in Nat /\ RokuLastTime \in Nat

Absent == 0         \* no entry for a station; no cooldown

VARIABLES
    streamUrls,     \* config["stream_url_cache"]: tokens by station
    playIds,        \* config["play_id_cache"]: play ids by station
    cooldownUntil,  \* config["roku_403_cooldown_until"]
    token,          \* the session token Roku accepts
    playId,         \* the play ids Roku accepts
    tuner,          \* the requests: where they are and their instance's caches
    forbidden,
    rokuTime,
    quietUntil,     \* history: when the last cooldown ends that a 403 has begun
    overwritten     \* history: a request that was made before it was in the
                    \* configuration has written a cooldown of its own since, or
                    \* the database was locked when it was to be stored

rokuConfig == <<streamUrls, playIds, cooldownUntil>>
rokuService == <<token, playId>>
rokuHistory == <<quietUntil, overwritten>>
rokuVars == <<rokuConfig, rokuService, tuner, forbidden, rokuTime, rokuHistory>>

RokuNothing == [s \in Stations |-> Absent]
RokuAway == [at |-> "away", station |-> {}, urls |-> RokuNothing, ids |-> RokuNothing,
             until |-> Absent, saw |-> Absent, wrote |-> {}, got |-> Absent]

\* What is left of a request whose client has its URL
RokuServed(s, url) == [RokuAway EXCEPT !.at = "probe", !.station = {s}, !.got = url]

RokuInit ==
    /\ streamUrls = RokuNothing /\ playIds = RokuNothing
    /\ cooldownUntil = Absent /\ quietUntil = Absent
    /\ overwritten = FALSE
    /\ token = 1
    /\ playId = [s \in Stations |-> 1]
    /\ tuner = [t \in Tuners |-> RokuAway]
    /\ forbidden = 0
    /\ rokuTime = 0

-----------------------------------------------------------------------------
\* merge_config_updates(): dictionaries are merged, so that an entry an
\* update lacks stays as it is.
RokuMerge(old, new) == [s \in Stations |-> IF new[s] = Absent THEN old[s] ELSE new[s]]

RokuStation(t) == CHOOSE s \in Stations : s \in tuner[t].station

\* An instance is made, and its caches loaded; a cooldown that has elapsed is
\* not.  `saw' remembers for the history what the configuration said.
RokuInstance(label, stations) ==
    [at |-> label, station |-> stations, urls |-> streamUrls, ids |-> playIds,
     until |-> IF cooldownUntil > rokuTime THEN cooldownUntil ELSE Absent,
     saw |-> cooldownUntil, wrote |-> {}, got |-> Absent]

RokuOpen(t, s) ==
    /\ tuner[t].at = "away"
    /\ tuner' = [tuner EXCEPT ![t] = RokuInstance("resolve", {s})]
    /\ UNCHANGED <<rokuConfig, rokuService, forbidden, rokuTime, rokuHistory>>

RokuKeep == UNCHANGED <<rokuConfig, rokuService, rokuTime>>

\* resolve(): a cached stream URL is used as it is.
RokuCached(t) ==
    LET s == RokuStation(t) IN
    /\ tuner[t].at = "resolve"
    /\ tuner[t].urls[s] # Absent
    /\ tuner' = [tuner EXCEPT ![t] = RokuServed(s, tuner[t].urls[s])]
    /\ RokuKeep /\ UNCHANGED <<forbidden, rokuHistory>>

\* Who has to ask Roku: a request without a cached URL, and a scrape
RokuAsking(t) ==
    \/ tuner[t].at = "resolve" /\ tuner[t].urls[RokuStation(t)] = Absent
    \/ tuner[t].at = "scrape"

\* Nothing is asked of Roku while the cooldown of the instance lasts.
RokuBlocked(t) ==
    /\ RokuAsking(t)
    /\ tuner[t].until > rokuTime
    /\ tuner' = [tuner EXCEPT ![t] = RokuAway]
    /\ RokuKeep /\ UNCHANGED <<forbidden, rokuHistory>>

RokuMayAsk(t) == RokuAsking(t) /\ tuner[t].until <= rokuTime

\* _cooldown_active(): a cooldown that has ended since it was loaded is dropped,
\* which will be written back.
RokuWrote(t, keys) == IF tuner[t].until = Absent THEN keys ELSE keys \cup {"cool"}

\* The play id it sends, asked of the content service if there is none
RokuPlayId(t) ==
    IF tuner[t].ids[RokuStation(t)] = Absent THEN playId[RokuStation(t)]
    ELSE tuner[t].ids[RokuStation(t)]

\* ... and what is left of them when Roku will not play a station
RokuForgotten(t) == [s \in Stations |-> IF s \in tuner[t].station THEN Absent ELSE tuner[t].ids[s]]

\* The playback service answers with a URL ...
RokuPlayback(t) ==
    LET s == RokuStation(t) IN
    /\ tuner[t].at = "resolve" /\ RokuMayAsk(t)
    /\ RokuPlayId(t) = playId[s]
    /\ tuner' = [tuner EXCEPT ![t] = [@ EXCEPT !.at = "persist", !.until = Absent, !.got = token,
                                               !.urls[s] = token, !.ids[s] = playId[s],
                                               !.wrote = RokuWrote(t, {"urls", "ids"})]]
    /\ RokuKeep /\ UNCHANGED <<forbidden, rokuHistory>>

\* ... or refuses the play id, which is taken out of the caches with the
\* rest that is known of the station ...
RokuRefused(t) ==
    /\ tuner[t].at = "resolve" /\ RokuMayAsk(t)
    /\ RokuPlayId(t) # playId[RokuStation(t)]
    /\ tuner' = [tuner EXCEPT ![t] = [@ EXCEPT !.at = "persist", !.until = Absent, !.ids = RokuForgotten(t),
                                               !.wrote = RokuWrote(t, {"ids"})]]
    /\ RokuKeep /\ UNCHANGED <<forbidden, rokuHistory>>

\* ... or answers 403, as it may a scrape, which begins a cooldown.
RokuForbids(t) ==
    /\ RokuMayAsk(t)
    /\ forbidden < MaxForbidden
    /\ forbidden' = forbidden + 1
    /\ quietUntil' = rokuTime + RokuCooldown
    /\ overwritten' = FALSE
    /\ tuner' = [tuner EXCEPT ![t] = [@ EXCEPT !.at = "persist", !.until = rokuTime + RokuCooldown,
                                               !.ids = RokuForgotten(t),
                                               !.wrote = IF tuner[t].at = "scrape" THEN {"cool"}
                                                         ELSE {"ids", "cool"}]]
    /\ RokuKeep

\* fetch_epg() of a scrape, one at a time ...
RokuScrape(t) ==
    /\ tuner[t].at = "away"
    /\ \A u \in Tuners : tuner[u].at # "away" => tuner[u].station # {}
    /\ tuner' = [tuner EXCEPT ![t] = RokuInstance("scrape", {})]
    /\ UNCHANGED <<rokuConfig, rokuService, forbidden, rokuTime, rokuHistory>>

\* ... gets the play ids of all stations.  It has its stream URLs written back
\* when one is too old, or when it asks for one, for want of any session.
RokuScraped(t) ==
    /\ tuner[t].at = "scrape" /\ RokuMayAsk(t)
    /\ \E keys \in {{"ids"}, {"ids", "urls"}},
          urls \in {tuner[t].urls} \cup {[tuner[t].urls EXCEPT ![s] = token] : s \in Stations} :
          tuner' = [tuner EXCEPT ![t] = [@ EXCEPT !.at = "persist", !.until = Absent, !.ids = playId,
                                                  !.urls = urls, !.wrote = RokuWrote(t, keys)]]
    /\ RokuKeep /\ UNCHANGED <<forbidden, rokuHistory>>

\* A request that writes the cooldown it has, or that it has none, may undo one
\* that began after it was made.
RokuOverwrites(t) ==
    /\ "cool" \in tuner[t].wrote
    /\ tuner[t].until # quietUntil /\ tuner[t].saw # quietUntil

\* Faulty variant: what the instance was made with is written back too.
RokuPersistAll(t) ==
    /\ tuner[t].at = "persist"
    /\ streamUrls' = IF "urls" \in tuner[t].wrote THEN RokuMerge(streamUrls, tuner[t].urls) ELSE streamUrls
    /\ playIds' = IF "ids" \in tuner[t].wrote THEN RokuMerge(playIds, tuner[t].ids) ELSE playIds
    /\ cooldownUntil' = tuner[t].until
    /\ overwritten' = (overwritten \/ RokuOverwrites(t))
    /\ tuner' = [tuner EXCEPT ![t] = IF tuner[t].got # Absent
                                     THEN RokuServed(RokuStation(t), tuner[t].got) ELSE RokuAway]
    /\ UNCHANGED <<rokuService, forbidden, rokuTime, quietUntil>>

\* persist_source_config_updates(), in the "finally" of play() and at the end of
\* a scrape: what the instance has changed is merged, by keys.
RokuPersist(t) ==
    /\ tuner[t].at = "persist"
    /\ streamUrls' = IF "urls" \in tuner[t].wrote THEN RokuMerge(streamUrls, tuner[t].urls) ELSE streamUrls
    /\ playIds' = IF "ids" \in tuner[t].wrote THEN RokuMerge(playIds, tuner[t].ids) ELSE playIds
    /\ cooldownUntil' = IF "cool" \in tuner[t].wrote THEN tuner[t].until ELSE cooldownUntil
    /\ overwritten' = (overwritten \/ RokuOverwrites(t))
    /\ tuner' = [tuner EXCEPT ![t] = IF tuner[t].got # Absent
                                     THEN RokuServed(RokuStation(t), tuner[t].got) ELSE RokuAway]
    /\ UNCHANGED <<rokuService, forbidden, rokuTime, quietUntil>>

\* ... or is lost: the commit finds the database locked, the rollback discards
\* the merge, and the next attempt commits nothing.
RokuPersistLocked(t) ==
    /\ tuner[t].at = "persist"
    /\ overwritten' = (overwritten \/ ("cool" \in tuner[t].wrote /\ tuner[t].until = quietUntil))
    /\ tuner' = [tuner EXCEPT ![t] = IF tuner[t].got # Absent
                                     THEN RokuServed(RokuStation(t), tuner[t].got) ELSE RokuAway]
    /\ UNCHANGED <<rokuConfig, rokuService, forbidden, rokuTime, quietUntil>>

\* Faulty variant: a 401 clears nothing.
RokuProbeOnly(t) ==
    /\ tuner[t].at = "probe"
    /\ UNCHANGED streamUrls
    /\ tuner' = [tuner EXCEPT ![t] = RokuAway]
    /\ UNCHANGED <<playIds, cooldownUntil, rokuService, forbidden, rokuTime, rokuHistory>>

\* _bg_check() probes what the client was sent to; a 401 clears the session
\* token and every URL that embeds one.
RokuProbe(t) ==
    /\ tuner[t].at = "probe"
    /\ streamUrls' = IF tuner[t].got = token THEN streamUrls ELSE RokuNothing
    /\ tuner' = [tuner EXCEPT ![t] = RokuAway]
    /\ UNCHANGED <<playIds, cooldownUntil, rokuService, forbidden, rokuTime, rokuHistory>>

\* Roku: a session token expires, a play id changes; and time passes.
RokuTokenExpires ==
    /\ token <= MaxTokens
    /\ token' = token + 1
    /\ UNCHANGED <<rokuConfig, playId, tuner, forbidden, rokuTime, rokuHistory>>

RokuPlayIdChanges(s) ==
    /\ playId[s] <= MaxPlayIds
    /\ playId' = [playId EXCEPT ![s] = @ + 1]
    /\ UNCHANGED <<rokuConfig, token, tuner, forbidden, rokuTime, rokuHistory>>

RokuTick ==
    /\ rokuTime < RokuLastTime
    /\ rokuTime' = rokuTime + 1
    /\ UNCHANGED <<rokuConfig, rokuService, tuner, forbidden, rokuHistory>>

RokuRequest(t) ==
    \/ RokuCached(t) \/ RokuBlocked(t) \/ RokuPlayback(t) \/ RokuRefused(t) \/ RokuScraped(t)
    \/ RokuPersist(t) \/ RokuProbe(t)

RokuNext ==
    \/ \E t \in Tuners : \/ RokuRequest(t) \/ RokuForbids(t) \/ RokuScrape(t) \/ RokuPersistLocked(t)
                         \/ \E s \in Stations : RokuOpen(t, s)
    \/ RokuTokenExpires \/ RokuTick
    \/ \E s \in Stations : RokuPlayIdChanges(s)

\* Requests come to an end, every station is asked for again and again.
RokuFairness ==
    /\ \A t \in Tuners : WF_rokuVars(RokuRequest(t))
    /\ \A s \in Stations : SF_rokuVars(\E t \in Tuners : RokuOpen(t, s))

RokuSpec == RokuInit /\ [][RokuNext]_rokuVars /\ RokuFairness

-----------------------------------------------------------------------------
RokuTypeOK ==
    /\ streamUrls \in [Stations -> 0 .. MaxTokens + 1]
    /\ playIds \in [Stations -> 0 .. MaxPlayIds + 1]
    /\ cooldownUntil \in Nat /\ quietUntil \in Nat /\ overwritten \in BOOLEAN
    /\ token \in 1 .. MaxTokens + 1
    /\ playId \in [Stations -> 1 .. MaxPlayIds + 1]
    /\ forbidden \in 0 .. MaxForbidden
    /\ rokuTime \in 0 .. RokuLastTime
    /\ \A t \in Tuners :
          /\ tuner[t].at \in {"away", "resolve", "scrape", "persist", "probe"}
          /\ tuner[t].at \in {"resolve", "probe"} => tuner[t].station # {}
          /\ tuner[t].until \in Nat
          /\ tuner[t].got \in 0 .. MaxTokens + 1

\* The cooldown that the last 403 has begun is in the configuration, or on its
\* way there, until it ends, unless a request that was made before it was there
\* has written back a cooldown of its own, an older one or none, or the database
\* was locked when it was to be stored.  No request that was made later ends it,
\* and none ends it by what it has only loaded.
RokuCooldownKept ==
    rokuTime < quietUntil /\ ~overwritten =>
        \/ cooldownUntil = quietUntil
        \/ \E t \in Tuners : /\ tuner[t].at = "persist" /\ "cool" \in tuner[t].wrote
                             /\ tuner[t].until = quietUntil

\* A URL whose session token has expired does not stay in the configuration,
\* although instances made before a 401 cleared it, scrapes among them, may
\* write it back.
RokuStaleUrlsGo ==
    \A s \in Stations : streamUrls[s] \notin {Absent, token} ~> streamUrls[s] \in {Absent, token}

\* Types, and the cooldown
RokuInv == RokuTypeOK /\ RokuCooldownKept
=============================================================================
