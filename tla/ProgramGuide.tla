---------------------------- MODULE ProgramGuide ----------------------------
(***************************************************************************)
(* The programmes of one channel: _upsert_programs(), _prune_old_programs()*)
(* and _fresh_epg_sids() of app/worker.py.  A scrape asks the provider for *)
(* the programmes it knows by then, which may differ from what it said     *)
(* before, and replaces the stretch of the guide they cover.               *)
(*                                                                         *)
(* Times are small numbers; an instant is too short to matter.             *)
(***************************************************************************)
EXTENDS Naturals, FiniteSets, FiniteSetsExt

CONSTANTS
    LastTime,       \* bound: the end of the last programme
    Lookahead,      \* what a provider knows in advance
    Grace,          \* for how long a programme is kept after its end: 2 hours
    Horizon         \* horizon_hours of _fresh_epg_sids()

ASSUME GuideAssumption ==
    LastTime \in Nat /\ Lookahead \in Nat \ {0} /\ Grace \in Nat /\ Horizon \in Nat

VARIABLES
    guideNow,       \* the time
    guide,          \* rows of the channel in table programs: a bag of intervals,
                    \* as a set of numbered ones
    listing,        \* programmes a running scrape has fetched
    upserts         \* numbers given to rows

guideVars == <<guideNow, guide, listing, upserts>>

Slots == {[from |-> i, to |-> j] : i \in 0 .. LastTime, j \in 0 .. LastTime}
Programmes == {p \in Slots : p.from < p.to}

Overlap(p, q) == p.from < q.to /\ q.from < p.to

\* Programmes a provider may know at time t: none before t overlap, and they
\* are within its reach.  It may leave gaps.
Listings(t) ==
    {L \in UNION {kSubset(k, {p \in Programmes : p.to >= t /\ p.to <= t + Lookahead}) : k \in 0 .. 2} :
        \A p, q \in L : p # q => ~Overlap(p, q)}

GuideInit ==
    /\ guideNow = 0
    /\ guide = {}
    /\ listing = {}
    /\ upserts = 0

-----------------------------------------------------------------------------
GuideTick ==
    /\ guideNow < LastTime
    /\ guideNow' = guideNow + 1
    /\ UNCHANGED <<guide, listing, upserts>>

\* _fresh_epg_sids(): the channel has a programme that ends beyond the horizon.
GuideFresh == \E r \in guide : r.slot.to > guideNow + Horizon

\* fetch_epg(), which skips a fresh channel
GuideFetch ==
    /\ listing = {}
    /\ ~GuideFresh
    /\ listing' \in Listings(guideNow) \ {{}}
    /\ UNCHANGED <<guideNow, guide, upserts>>

\* What ended longer ago than the cutoff; now - 2 hours
GuideEnded(p) == p.to + Grace <= guideNow

\* The rows an upsert deletes: all that overlap the stretch from the first
\* start to the last end of what was fetched, unless all of that has ended.
GuideWindow ==
    [from |-> Min({p.from : p \in listing}), to |-> Max({p.to : p \in listing})]

\* Faulty variant: only what begins in the window is deleted.
GuideReplacedInside ==
    IF \A p \in listing : GuideEnded(p) THEN {}
    ELSE {r \in guide : r.slot.from \in GuideWindow.from .. GuideWindow.to - 1}

\* Faulty variant: the whole guide of the channel is deleted.
GuideReplacedAll == guide

GuideReplaced ==
    IF \A p \in listing : GuideEnded(p) THEN {}
    ELSE {r \in guide : Overlap(r.slot, GuideWindow)}

\* _upsert_programs(): delete, then insert all that was fetched.
GuideUpsert ==
    /\ listing # {}
    /\ guide' = (guide \ GuideReplaced) \cup {[slot |-> p, batch |-> upserts] : p \in listing}
    /\ upserts' = 1 - upserts
    /\ listing' = {}
    /\ UNCHANGED guideNow

\* _prune_old_programs(), hourly
GuidePrune ==
    /\ guide' = {r \in guide : r.slot.to + Grace >= guideNow}
    /\ UNCHANGED <<guideNow, listing, upserts>>

GuideNext == GuideTick \/ GuideFetch \/ GuideUpsert \/ GuidePrune

GuideSpec == GuideInit /\ [][GuideNext]_guideVars

-----------------------------------------------------------------------------
GuideTypeOK ==
    /\ guideNow \in 0 .. LastTime
    /\ \A r \in guide : r.slot \in Programmes /\ r.batch \in 0 .. 1
    /\ listing \subseteq Programmes
    /\ upserts \in 0 .. 1

\* A viewer finds one programme at a time in the guide: rows of a channel do
\* not overlap, whatever provider and clock do between fetch and upsert,
\* except for what is about to be pruned.
GuideOneAtATime ==
    \A q, r \in guide :
        q # r /\ Overlap(q.slot, r.slot) => GuideEnded(q.slot) \/ GuideEnded(r.slot)

\* An upsert takes away only what its batch replaces: the rolling horizon that
\* earlier scrapes have built up stays.
GuideHorizonStays ==
    [][\A r \in guide \ guide' :
          \/ GuideEnded(r.slot)
          \/ \E p \in listing : p.from < r.slot.to
             /\ \E q \in listing : r.slot.from < q.to]_guideVars

\* Types, and what a viewer finds
GuideInv == GuideTypeOK /\ GuideOneAtATime
=============================================================================
