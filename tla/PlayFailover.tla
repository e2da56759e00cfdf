---------------------------- MODULE PlayFailover ----------------------------
(***************************************************************************)
(* Playing a channel, app/routes/play.py: a client asks for a channel, is  *)
(* redirected to its stream, to a manifest proxy or to a duplicate of the  *)
(* channel, and follows the redirect; a channel whose stream turns out to  *)
(* be unplayable is disabled by a job of the fast queue, which is          *)
(* run_channel_auto_disable() of app/worker.py.                            *)
(*                                                                         *)
(* All channels are duplicates of one another, so that each may stand in   *)
(* for each; which candidate the sort of _duplicate_failover_channel()     *)
(* puts first depends on guide data and is left open.                      *)
(***************************************************************************)
EXTENDS Naturals, FiniteSets

CONSTANTS
    Streams,        \* channels of one name, of several sources
    Proxied,        \* those of _MANIFEST_PROXY_SOURCES
    Hasty,          \* those whose scraper takes a failed request for a dead stream
    Mute,           \* those a dead stream of which gives no URL or an ordinary error
    Players,        \* clients
    MaxChanges,     \* bound: streams that die or come back, edits of the user
    MaxHiccups,     \* bound: requests to a provider that fail for no lasting reason
    MaxLocked,      \* bound: commits that find the database locked
    NoStream        \* stands for None

ASSUME PlayAssumption ==
    /\ Proxied \subseteq Streams /\ Hasty \subseteq Streams /\ Mute \subseteq Streams
    /\ NoStream \notin Streams
    /\ MaxChanges \in Nat /\ MaxHiccups \in Nat /\ MaxLocked \in Nat

VARIABLES
    on,             \* channels that are active and enabled, with no Dead or DRM reason
    dead,           \* channels whose stream cannot be played
    excused,        \* channels that have had a reason to be off: a dead stream, the
                    \* user, or a failure that the code takes for a dead stream
    player,         \* where each client is
    probes,         \* channels a background thread is about to probe
    jobs,           \* auto-disable jobs: queued, or where they are
    changes, hiccups, locked

playVars == <<on, dead, excused, player, probes, jobs, changes, hiccups, locked>>

PlayIdle == [at |-> "idle", stream |-> NoStream]

PlayInit ==
    /\ on \in SUBSET Streams
    /\ dead \in SUBSET Streams
    /\ excused = dead \cup (Streams \ on)
    /\ player = [p \in Players |-> PlayIdle]
    /\ probes = {}
    /\ jobs = [s \in Streams |-> "none"]
    /\ changes = 0
    /\ hiccups = 0
    /\ locked = 0

-----------------------------------------------------------------------------
\* Duplicates that may stand in for s
PlayCandidates(s) == on \ {s}

\* trigger_channel_auto_disable(): one job at a time per channel
PlayTrigger(s) ==
    jobs' = [jobs EXCEPT ![s] = IF @ = "none" THEN "queued" ELSE @]

\* The answer is a redirect to a duplicate, or 502 when there is none.
PlayFailOver(p, s) ==
    \/ \E d \in PlayCandidates(s) :
          player' = [player EXCEPT ![p] = [at |-> "play", stream |-> d]]
    \/ /\ PlayCandidates(s) = {}
       /\ player' = [player EXCEPT ![p] = [at |-> "refused", stream |-> s]]

\* A request to a provider fails although the stream is alive.
PlayHiccup ==
    /\ hiccups < MaxHiccups
    /\ hiccups' = hiccups + 1

\* ... and the code takes the stream of s for dead.
PlayMisjudge(s) == PlayHiccup /\ excused' = excused \cup {s}

\* ... or it is dead, which its provider never says.
PlaySoftly(s) ==
    \/ s \in dead \cap Mute /\ UNCHANGED hiccups
    \/ PlayHiccup

\* A client opens a channel of its playlist, which may be an old one.
PlayAsk(p, s) ==
    /\ player[p] = PlayIdle
    /\ player' = [player EXCEPT ![p] = [at |-> "play", stream |-> s]]
    /\ UNCHANGED <<on, dead, excused, probes, jobs, changes, hiccups, locked>>

\* play(): a disabled channel is served by a duplicate, if there is one.
PlayElsewhere(p) ==
    LET s == player[p].stream IN
    /\ player[p].at = "play"
    /\ s \notin on
    /\ PlayCandidates(s) # {}
    /\ PlayFailOver(p, s)
    /\ UNCHANGED <<on, dead, excused, probes, jobs, changes, hiccups, locked>>

\* ... and by itself otherwise, through the manifest proxy of its source
PlayRedirect(p) ==
    LET s == player[p].stream IN
    /\ player[p].at = "play"
    /\ s \in on \/ PlayCandidates(s) = {}
    /\ s \in Proxied
    /\ player' = [player EXCEPT ![p].at = "proxy"]
    /\ UNCHANGED <<on, dead, excused, probes, jobs, changes, hiccups, locked>>

\* ... or with the URL its scraper resolves; an active channel is then
\* probed in the background.  The provider of a dead stream may still
\* hand out a URL.
PlayResolve(p) ==
    LET s == player[p].stream IN
    /\ player[p].at = "play"
    /\ s \in on \/ PlayCandidates(s) = {}
    /\ s \notin Proxied
    /\ player' = [player EXCEPT ![p].at = "playing"]
    /\ probes' = IF s \in on THEN probes \cup {s} ELSE probes
    /\ UNCHANGED <<on, dead, excused, jobs, changes, hiccups, locked>>

\* ... or the scraper raises StreamDeadError, which some do for a request
\* that failed, too (distro.py, tvpass.py).
PlayConfirmedDead(p) ==
    LET s == player[p].stream IN
    /\ player[p].at = "play"
    /\ s \in on \/ PlayCandidates(s) = {}
    /\ s \notin Proxied
    /\ \/ s \in dead /\ UNCHANGED <<excused, hiccups>>
       \/ s \in Hasty /\ PlayMisjudge(s)
    /\ PlayTrigger(s)
    /\ PlayFailOver(p, s)
    /\ UNCHANGED <<on, dead, probes, changes, locked>>

\* Faulty variant: any error disables the channel.
PlayResolveFailsHard(p) ==
    LET s == player[p].stream IN
    /\ player[p].at = "play"
    /\ s \in on \/ PlayCandidates(s) = {}
    /\ s \notin Proxied
    /\ PlaySoftly(s)
    /\ PlayTrigger(s)
    /\ PlayFailOver(p, s)
    /\ UNCHANGED <<on, dead, excused, probes, changes, locked>>

\* ... or raises anything else, or returns no URL: the client is sent on,
\* the channel stays as it is.
PlayResolveFails(p) ==
    LET s == player[p].stream IN
    /\ player[p].at = "play"
    /\ s \in on \/ PlayCandidates(s) = {}
    /\ s \notin Proxied
    /\ PlaySoftly(s)
    /\ PlayFailOver(p, s)
    /\ UNCHANGED <<on, dead, excused, probes, jobs, changes, locked>>

\* hls_manifest_proxy() and hls_variant_proxy() fetch the playlists; the
\* client comes back for the variant as long as it plays.
PlayManifest(p) ==
    /\ player[p].at \in {"proxy", "playing"}
    /\ player[p].stream \in Proxied \ dead
    /\ player' = [player EXCEPT ![p].at = "playing"]
    /\ UNCHANGED <<on, dead, excused, probes, jobs, changes, hiccups, locked>>

\* Faulty variant: the channel is not disabled.
PlayManifestFailsSoftly(p) ==
    LET s == player[p].stream IN
    /\ player[p].at \in {"proxy", "playing"}
    /\ s \in Proxied
    /\ \/ s \in dead /\ UNCHANGED hiccups
       \/ s \notin dead /\ PlayHiccup
    /\ PlayFailOver(p, s)
    /\ UNCHANGED <<on, dead, excused, probes, jobs, changes, locked>>

\* They take any failure to resolve or to fetch for a dead channel.
PlayManifestFails(p) ==
    LET s == player[p].stream IN
    /\ player[p].at \in {"proxy", "playing"}
    /\ s \in Proxied
    /\ \/ s \in dead /\ UNCHANGED <<excused, hiccups>>
       \/ s \notin dead /\ PlayMisjudge(s)
    /\ PlayTrigger(s)
    /\ PlayFailOver(p, s)
    /\ UNCHANGED <<on, dead, probes, changes, locked>>

\* A resolver that returns no URL is no reason to disable the channel.
PlayNoUrl(p) ==
    /\ player[p].at \in {"proxy", "playing"}
    /\ player[p].stream \in Proxied
    /\ PlaySoftly(player[p].stream)
    /\ PlayFailOver(p, player[p].stream)
    /\ UNCHANGED <<on, dead, excused, probes, jobs, changes, locked>>

\* The client stops watching, or gives up.
PlayLeave(p) ==
    /\ player[p].at \in {"playing", "refused"}
    /\ player' = [player EXCEPT ![p] = PlayIdle]
    /\ UNCHANGED <<on, dead, excused, probes, jobs, changes, hiccups, locked>>

\* _bg_check(): a dead stream gives itself away by its manifest or by having
\* no audio.  A probe that fails counts for nothing if it raises or if the
\* manifest is refused; but ffprobe's exit code is not looked at, so that one
\* that fails finds no audio, and 401 counts against any source but Roku.
PlayProbe(s) ==
    /\ s \in probes
    /\ probes' = probes \ {s}
    /\ \/ s \in dead /\ PlayTrigger(s) /\ UNCHANGED <<excused, hiccups>>
       \/ s \notin dead /\ UNCHANGED <<excused, jobs, hiccups>>
       \/ PlayMisjudge(s) /\ PlayTrigger(s)
       \/ PlayHiccup /\ UNCHANGED <<excused, jobs>>
    /\ UNCHANGED <<on, dead, player, changes, locked>>

-----------------------------------------------------------------------------
\* run_channel_auto_disable(): the row is edited, then committed.  A commit
\* that finds the database locked is rolled back and tried again, without
\* the edit, which the rollback has discarded.
\* A channel that is off for this very reason is left alone.
PlayDisable(s) ==
    /\ jobs[s] = "queued"
    /\ \/ jobs' = [jobs EXCEPT ![s] = "edited"]
       \/ s \notin on /\ jobs' = [jobs EXCEPT ![s] = "none"]
    /\ UNCHANGED <<on, dead, excused, player, probes, changes, hiccups, locked>>

\* Faulty variant: the edit is not committed.
PlayCommitNothing(s) ==
    /\ jobs[s] = "edited"
    /\ UNCHANGED on
    /\ jobs' = [jobs EXCEPT ![s] = "none"]
    /\ UNCHANGED <<dead, excused, player, probes, changes, hiccups, locked>>

PlayCommit(s) ==
    /\ jobs[s] = "edited"
    /\ on' = on \ {s}
    /\ jobs' = [jobs EXCEPT ![s] = "none"]
    /\ UNCHANGED <<dead, excused, player, probes, changes, hiccups, locked>>

PlayCommitLocked(s) ==
    /\ jobs[s] = "edited"
    /\ locked < MaxLocked
    /\ locked' = locked + 1
    /\ jobs' = [jobs EXCEPT ![s] = "rolledback"]
    /\ UNCHANGED <<on, dead, excused, player, probes, changes, hiccups>>

PlayCommitAgain(s) ==
    /\ jobs[s] = "rolledback"
    /\ jobs' = [jobs EXCEPT ![s] = "none"]
    /\ UNCHANGED <<on, dead, excused, player, probes, changes, hiccups, locked>>

\* Providers take streams down and put them up again; the user edits flags.
PlayChange ==
    /\ changes < MaxChanges
    /\ changes' = changes + 1
    /\ \/ \E s \in Streams : /\ dead' = IF s \in dead THEN dead \ {s} ELSE dead \cup {s}
                             /\ excused' = excused \cup {s}
                             /\ UNCHANGED on
       \/ \E s \in Streams : /\ on' = IF s \in on THEN on \ {s} ELSE on \cup {s}
                             /\ excused' = excused \cup {s}
                             /\ UNCHANGED dead
    /\ UNCHANGED <<player, probes, jobs, hiccups, locked>>

PlayAnswer(p) ==
    \/ PlayElsewhere(p) \/ PlayRedirect(p) \/ PlayResolve(p) \/ PlayConfirmedDead(p)
    \/ PlayResolveFails(p)
    \/ player[p].at = "proxy" /\ (PlayManifest(p) \/ PlayManifestFails(p) \/ PlayNoUrl(p))

PlayRefresh(p) ==
    player[p].at = "playing" /\ (PlayManifest(p) \/ PlayManifestFails(p) \/ PlayNoUrl(p))

PlayJob(s) == PlayDisable(s) \/ PlayCommit(s) \/ PlayCommitAgain(s)

PlayNext ==
    \/ \E p \in Players : \/ \E s \in Streams : PlayAsk(p, s)
                          \/ PlayAnswer(p) \/ PlayRefresh(p) \/ PlayLeave(p)
    \/ \E s \in Streams : PlayProbe(s) \/ PlayJob(s) \/ PlayCommitLocked(s)
    \/ PlayChange

\* Clients follow redirects and the fast queue is worked off.
PlayFairness ==
    /\ \A p \in Players : WF_playVars(PlayAnswer(p))
    /\ \A s \in Streams : WF_playVars(PlayJob(s))

PlaySpec == PlayInit /\ [][PlayNext]_playVars /\ PlayFairness

-----------------------------------------------------------------------------
PlayTypeOK ==
    /\ on \subseteq Streams
    /\ dead \subseteq excused /\ excused \subseteq Streams
    /\ player \in [Players -> [at : {"idle", "play", "proxy", "playing", "refused"},
                               stream : Streams \cup {NoStream}]]
    /\ \A p \in Players : player[p].stream = NoStream <=> player[p].at = "idle"
    /\ probes \subseteq Streams
    /\ jobs \in [Streams -> {"none", "queued", "edited", "rolledback"}]
    /\ changes \in 0 .. MaxChanges
    /\ hiccups \in 0 .. MaxHiccups
    /\ locked \in 0 .. MaxLocked

\* Whatever fails on the way to a channel, and wherever its clients are sent
\* instead, a channel is only disabled, or about to be, if it has had a reason
\* of its own.  Resolver errors, missing URLs, refused manifests and probes
\* that raise are none; the failures that are have been counted in `excused'.
PlayHiccupsForgiven ==
    \A s \in Streams \ excused : s \in on /\ jobs[s] = "none"

\* A client that follows redirects is served or refused in the end: as each
\* channel that sends it on because it is dead is also being disabled, two
\* duplicates cannot send it to and fro for ever.  Those that are dead without
\* their providers saying so are not disabled: a client that meets one of them
\* settles, one that meets two may not.
PlayRequestsSettle ==
    \A p \in Players :
        (player[p].at \in {"play", "proxy"})
            ~> (\/ player[p].at \in {"playing", "refused"}
                \/ Cardinality(on \cap dead \cap Mute) > 1)

\* A job that has ended leaves the channel it was started for disabled, whatever
\* the user has done meanwhile, unless a commit has found the database locked:
\* the rollback discards the edit, and the retry commits nothing.
PlayDisableSticks ==
    [][\A s \in Streams :
          locked = 0 /\ jobs[s] # "none" /\ jobs'[s] = "none" => s \notin on']_playVars

\* Types, and what a hiccup must not do
PlayInv == PlayTypeOK /\ PlayHiccupsForgiven
=============================================================================
