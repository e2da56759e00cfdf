------------------------------ MODULE JobsProofs ------------------------------
(* Proofs about the modules of the jobs, for every value of their constants: the   *)
(* configuration of a source, the logo cache, the queue of scrapes, the guide, and *)
(* the numbers of the channels.                                                    *)
EXTENDS SourceConfig, LogoCache, ScrapeJobs, ProgramGuide, ChannelNumbers,
        FiniteSetTheorems, WellFoundedInduction, TLAPS

------------------------------------------------------------------------------
(* The configuration of a source (SourceConfig) *)

\* What is kept of those between a read and their return
PartyStates ==
    {ConfigIdle} \cup
    [at : {"edited", "rolled back"}, attempt : {1, 2}, copy : [Parties -> 0 .. MaxPuts]]

\* One merger at a time holds the lock.
OneMerger ==
    \A m, n \in Mergers : party[m].at # "idle" /\ party[n].at # "idle" => m = n

\* What a party is about to write is its own newest value and no value that was
\* never made up; if no rewriter came in between, the rest is what is stored.
CopiesAreRecent ==
    \A p \in Parties : party[p].at = "edited" =>
        /\ party[p].copy[p] = put[p]
        /\ \A q \in Parties : party[p].copy[q] <= put[q]
        /\ p \in Mergers \ mixed =>
               \A q \in Parties \ {p} : party[p].copy[q] = config[q]

\* The inductive invariant
ConfigInv ==
    /\ ConfigTypeOK
    /\ party \in [Parties -> PartyStates]
    /\ OneMerger
    /\ CopiesAreRecent

-----------------------------------------------------------------------------
\* A party that has a copy has one value of each party in it.
LEMMA CopyType ==
  ASSUME NEW s \in PartyStates, s.at = "edited"
  PROVE  s.copy \in [Parties -> 0 .. MaxPuts]
  <1>1. s # ConfigIdle
    BY DEF ConfigIdle
  <1>2. s \in [at : {"edited", "rolled back"}, attempt : {1, 2}, copy : [Parties -> 0 .. MaxPuts]]
    BY <1>1 DEF PartyStates
  <1> QED  BY <1>2

\* The first state satisfies the invariant.
LEMMA ConfigInvInit == ConfigInit => ConfigInv
  <1> SUFFICES ASSUME ConfigInit  PROVE ConfigInv
    OBVIOUS
  <1>1. \A p \in Parties : party[p] = ConfigIdle /\ party[p].at = "idle"
    BY DEF ConfigInit, ConfigIdle
  <1>2. ConfigTypeOK
    <2>1. 0 \in 0 .. MaxPuts /\ 0 \in 0 .. MaxBusyCommits
      BY ConfigAssumption
    <2>2. /\ config \in [Parties -> 0 .. MaxPuts] /\ put \in [Parties -> 0 .. MaxPuts]
          /\ reported \in [Parties -> 0 .. MaxPuts] /\ mixed \subseteq Parties
          /\ busyCommits \in 0 .. MaxBusyCommits
      BY <2>1 DEF ConfigInit
    <2>3. \A p \in Parties : reported[p] = 0 /\ put[p] = 0 /\ config[p] = 0
      BY DEF ConfigInit
    <2>4. \A p \in Parties : reported[p] <= put[p] /\ config[p] <= put[p]
      BY <2>3
    <2> QED  BY <1>1, <2>2, <2>4 DEF ConfigTypeOK
  <1>3. party \in [Parties -> PartyStates]
    BY DEF ConfigInit, PartyStates
  <1>4. OneMerger /\ CopiesAreRecent
    BY <1>1 DEF OneMerger, CopiesAreRecent, Parties
  <1> QED  BY <1>2, <1>3, <1>4 DEF ConfigInv

\* A read makes a copy of what is stored.
LEMMA ConfigInvRead ==
  ASSUME ConfigInv, NEW p \in Parties, ConfigRead(p)
  PROVE  ConfigInv'
  <1> USE ConfigAssumption
  <1> DEFINE Copy == [config EXCEPT ![p] = put[p] + 1]
             New == [at |-> "edited", attempt |-> 1, copy |-> Copy]
  <1>1. /\ config \in [Parties -> 0 .. MaxPuts] /\ put \in [Parties -> 0 .. MaxPuts]
        /\ reported \in [Parties -> 0 .. MaxPuts]
        /\ party \in [Parties -> PartyStates]
        /\ \A q \in Parties : config[q] <= put[q] /\ reported[q] <= put[q]
        /\ put[p] < MaxPuts
        /\ UNCHANGED <<config, reported, busyCommits>>
        /\ put' = [put EXCEPT ![p] = put[p] + 1]
        /\ party' = [party EXCEPT ![p] = New]
        /\ mixed' = mixed \ {p}
        /\ party[p] = ConfigIdle
        /\ p \in Mergers => ConfigLockFree
    BY DEF ConfigInv, ConfigTypeOK, ConfigRead
  <1>2. Copy \in [Parties -> 0 .. MaxPuts] /\ \A q \in Parties : Copy[q] <= put'[q]
    BY <1>1
  <1>3. Copy[p] = put'[p] /\ \A q \in Parties \ {p} : Copy[q] = config'[q]
    BY <1>1
  <1> HIDE DEF Copy
  <1>4. New \in PartyStates /\ New.at = "edited" /\ New.copy = Copy
    BY <1>2 DEF PartyStates
  <1> HIDE DEF New
  <1>5. party'[p] = New /\ \A q \in Parties \ {p} : party'[q] = party[q]
    BY <1>1
  <1>6. \A q \in Parties : party'[q].at \in {"idle", "edited", "rolled back"}
    BY <1>4, <1>5 DEF ConfigInv, ConfigTypeOK
  <1>7. /\ put' \in [Parties -> 0 .. MaxPuts]
        /\ \A q \in Parties : put'[q] >= put[q] /\ (q # p => put'[q] = put[q])
    BY <1>1
  <1>8. ConfigTypeOK'
    <2>1. \A q \in Parties : reported'[q] <= put'[q] /\ config'[q] <= put'[q]
      BY <1>1, <1>7
    <2>2. mixed' \subseteq Parties /\ busyCommits' \in 0 .. MaxBusyCommits
      BY <1>1 DEF ConfigInv, ConfigTypeOK
    <2> QED  BY <1>1, <1>6, <1>7, <2>1, <2>2 DEF ConfigTypeOK
  <1>9. party' \in [Parties -> PartyStates]
    BY <1>1, <1>4
  <1>10. OneMerger'
    BY <1>1, <1>5 DEF ConfigInv, OneMerger, ConfigLockFree, Parties
  <1>11. CopiesAreRecent'
    <2> SUFFICES ASSUME NEW q \in Parties, party'[q].at = "edited"
                 PROVE  /\ party'[q].copy[q] = put'[q]
                        /\ \A r \in Parties : party'[q].copy[r] <= put'[r]
                        /\ q \in Mergers \ mixed' =>
                               \A r \in Parties \ {q} : party'[q].copy[r] = config'[r]
      BY DEF CopiesAreRecent
    <2>1. CASE q = p
      BY <2>1, <1>2, <1>3, <1>4, <1>5
    <2>2. CASE q # p
      <3>1. party'[q] = party[q] /\ party[q].at = "edited" /\ put'[q] = put[q]
        BY <2>2, <1>5, <1>7
      <3>2. party[q].copy \in [Parties -> 0 .. MaxPuts]
        BY <3>1, <1>1, CopyType
      <3>3. /\ party[q].copy[q] = put[q]
            /\ \A r \in Parties : party[q].copy[r] <= put[r]
            /\ q \in Mergers \ mixed =>
                   \A r \in Parties \ {q} : party[q].copy[r] = config[r]
        BY <3>1 DEF ConfigInv, CopiesAreRecent
      <3> QED  BY <3>1, <3>2, <3>3, <2>2, <1>1, <1>7
    <2> QED  BY <2>1, <2>2
  <1> QED  BY <1>8, <1>9, <1>10, <1>11 DEF ConfigInv

\* A commit stores the copy; other copies are older now if its maker is a rewriter.
LEMMA ConfigInvCommit ==
  ASSUME ConfigInv, NEW p \in Parties, ConfigCommit(p)
  PROVE  ConfigInv'
  <1> USE ConfigAssumption
  <1>1. /\ config \in [Parties -> 0 .. MaxPuts] /\ put \in [Parties -> 0 .. MaxPuts]
        /\ reported \in [Parties -> 0 .. MaxPuts]
        /\ party \in [Parties -> PartyStates] /\ party[p].at = "edited"
        /\ config' = party[p].copy /\ reported' = [reported EXCEPT ![p] = put[p]]
        /\ party' = [party EXCEPT ![p] = ConfigIdle]
        /\ UNCHANGED <<put, busyCommits>>
    BY DEF ConfigInv, ConfigTypeOK, ConfigCommit
  <1>2. /\ config' \in [Parties -> 0 .. MaxPuts]
        /\ \A q \in Parties : config'[q] <= put'[q]
    <2>1. party[p].copy \in [Parties -> 0 .. MaxPuts]
      BY <1>1, CopyType
    <2> QED  BY <2>1, <1>1 DEF ConfigInv, CopiesAreRecent
  <1>3. /\ party'[p] = ConfigIdle /\ party'[p].at = "idle"
        /\ \A q \in Parties \ {p} : party'[q] = party[q]
    BY <1>1 DEF ConfigIdle
  <1>4. ConfigTypeOK'
    <2>1. \A q \in Parties : party'[q].at \in {"idle", "edited", "rolled back"}
      BY <1>3 DEF ConfigInv, ConfigTypeOK
    <2>2. mixed' \subseteq Parties
      BY DEF ConfigInv, ConfigTypeOK, ConfigCommit
    <2>3. busyCommits' \in 0 .. MaxBusyCommits /\ reported' \in [Parties -> 0 .. MaxPuts]
      BY <1>1 DEF ConfigInv, ConfigTypeOK
    <2>4. \A q \in Parties : reported'[q] <= put'[q]
      <3>1. \A q \in Parties : reported[q] <= put[q]
        BY DEF ConfigInv, ConfigTypeOK
      <3> QED  BY <1>1, <3>1
    <2> QED  BY <1>1, <1>2, <2>1, <2>2, <2>3, <2>4 DEF ConfigTypeOK
  <1>5. party' \in [Parties -> PartyStates]
    BY <1>1 DEF PartyStates
  <1>6. OneMerger'
    BY <1>3 DEF ConfigInv, OneMerger, Parties
  <1>7. CopiesAreRecent'
    <2> SUFFICES ASSUME NEW q \in Parties, party'[q].at = "edited"
                 PROVE  /\ party'[q].copy[q] = put'[q]
                        /\ \A r \in Parties : party'[q].copy[r] <= put'[r]
                        /\ q \in Mergers \ mixed' =>
                               \A r \in Parties \ {q} : party'[q].copy[r] = config'[r]
      BY DEF CopiesAreRecent
    <2>1. q # p /\ party'[q] = party[q] /\ party[q].at = "edited"
      BY <1>3
    <2>2. /\ party'[q].copy[q] = put'[q]
          /\ \A r \in Parties : party'[q].copy[r] <= put'[r]
      BY <2>1, <1>1 DEF ConfigInv, CopiesAreRecent
    <2>3. q \in Mergers => p \notin Mergers
      BY <2>1, <1>1 DEF ConfigInv, OneMerger
    <2>4. q \in Mergers => q \in mixed'
      BY <2>1, <2>3 DEF ConfigCommit, Parties
    <2> QED  BY <2>2, <2>4
  <1> QED  BY <1>4, <1>5, <1>6, <1>7 DEF ConfigInv

\* A party that rolls back or gives up stores nothing.
LEMMA ConfigInvBack ==
  ASSUME ConfigInv, NEW p \in Parties, ConfigBusy(p) \/ ConfigAgain(p)
  PROVE  ConfigInv'
  <1> USE ConfigAssumption
  <1>1. /\ config \in [Parties -> 0 .. MaxPuts] /\ put \in [Parties -> 0 .. MaxPuts]
        /\ reported \in [Parties -> 0 .. MaxPuts]
        /\ party \in [Parties -> PartyStates]
        /\ reported' = reported \/ reported' = [reported EXCEPT ![p] = put[p]]
        /\ busyCommits' \in 0 .. MaxBusyCommits
        /\ UNCHANGED <<config, put, mixed>>
    <2>1. busyCommits \in 0 .. MaxBusyCommits
      BY DEF ConfigInv, ConfigTypeOK
    <2>2. busyCommits' \in 0 .. MaxBusyCommits
      <3>1. \/ busyCommits' = busyCommits
            \/ busyCommits < MaxBusyCommits /\ busyCommits' = busyCommits + 1
        BY DEF ConfigBusy, ConfigAgain
      <3> QED  BY <2>1, <3>1
    <2>3. /\ reported' = reported \/ reported' = [reported EXCEPT ![p] = put[p]]
          /\ UNCHANGED <<config, put, mixed>>
      BY DEF ConfigBusy, ConfigAgain
    <2> QED  BY <2>2, <2>3 DEF ConfigInv, ConfigTypeOK
  <1>2. PICK new \in PartyStates :
            /\ new.at # "edited" /\ new.at \in {"idle", "rolled back"}
            /\ party' = [party EXCEPT ![p] = new]
            /\ new.at = "idle" \/ party[p].at = "edited"
    <2> DEFINE back == [at |-> "rolled back", attempt |-> 2, copy |-> config]
    <2>1. back \in PartyStates /\ back.at = "rolled back"
      BY <1>1 DEF PartyStates
    <2>2. ConfigIdle \in PartyStates /\ ConfigIdle.at = "idle"
      BY DEF PartyStates, ConfigIdle
    <2>3. \/ party' = [party EXCEPT ![p] = ConfigIdle]
          \/ party' = [party EXCEPT ![p] = back] /\ party[p].at = "edited"
      BY DEF ConfigBusy, ConfigAgain
    <2> QED  BY <2>1, <2>2, <2>3
  <1>3. party'[p] = new /\ \A q \in Parties \ {p} : party'[q] = party[q]
    BY <1>1, <1>2
  <1>4. ConfigTypeOK'
    <2>1. \A q \in Parties : party'[q].at \in {"idle", "edited", "rolled back"}
      BY <1>2, <1>3 DEF ConfigInv, ConfigTypeOK
    <2>2. \A q \in Parties : reported'[q] <= put'[q] /\ config'[q] <= put'[q]
      <3>1. \A q \in Parties : reported[q] <= put[q] /\ config[q] <= put[q]
        BY DEF ConfigInv, ConfigTypeOK
      <3> QED  BY <1>1, <3>1
    <2>3. mixed' \subseteq Parties /\ reported' \in [Parties -> 0 .. MaxPuts]
      BY <1>1 DEF ConfigInv, ConfigTypeOK
    <2> QED  BY <1>1, <2>1, <2>2, <2>3 DEF ConfigTypeOK
  <1>5. party' \in [Parties -> PartyStates]
    BY <1>1, <1>2
  <1>6. OneMerger'
    BY <1>2, <1>3 DEF ConfigInv, OneMerger, Parties
  <1>7. CopiesAreRecent'
    BY <1>1, <1>2, <1>3 DEF ConfigInv, CopiesAreRecent
  <1> QED  BY <1>4, <1>5, <1>6, <1>7 DEF ConfigInv

\* The invariant is inductive.
LEMMA ConfigInvStep == ConfigInv /\ [ConfigNext]_configVars => ConfigInv'
  <1>1. CASE UNCHANGED configVars
    BY <1>1 DEF configVars, ConfigInv, ConfigTypeOK, OneMerger, CopiesAreRecent
  <1> QED  BY <1>1, ConfigInvRead, ConfigInvCommit, ConfigInvBack DEF ConfigNext

\* A merge whose read no rewriter followed takes back nothing that is stored.
LEMMA MergeForward ==
  ASSUME ConfigInv, NEW m \in Mergers \ mixed, ConfigCommit(m)
  PROVE  \A p \in Parties : config'[p] >= config[p]
  <1>1. /\ config \in [Parties -> 0 .. MaxPuts] /\ put \in [Parties -> 0 .. MaxPuts]
        /\ m \in Parties /\ party[m].at = "edited" /\ config' = party[m].copy
        /\ \A p \in Parties : config[p] <= put[p]
    BY DEF ConfigInv, ConfigTypeOK, ConfigCommit, Parties
  <1>2. /\ party[m].copy[m] = put[m]
        /\ \A q \in Parties \ {m} : party[m].copy[q] = config[q]
    BY <1>1 DEF ConfigInv, CopiesAreRecent
  <1> QED  BY <1>1, <1>2, ConfigAssumption

\* For any processes and any number of retries, persist_source_config_updates()
\* takes back no token or cache that another process has stored since it read,
\* unless a form or an audit, which do not use the lock, has been stored in between.
THEOREM Forward == ConfigSpec => ConfigForward
  <1>1. ConfigSpec => []ConfigInv
    BY ConfigInvInit, ConfigInvStep, PTL DEF ConfigSpec
  <1>2. ConfigInv => ConfigTypeOK
    BY DEF ConfigInv
  <1>3. ConfigInv /\ [ConfigNext]_configVars =>
            [\A m \in Mergers \ mixed : ConfigCommit(m) =>
                \A p \in Parties : config'[p] >= config[p]]_configVars
    BY MergeForward
  <1> QED  BY <1>1, <1>2, <1>3, PTL DEF ConfigForward, ConfigSpec

------------------------------------------------------------------------------
(* The logo cache (LogoCache) *)

\* What a fetcher, the eviction of a scrape and a sweep may be
FetchStates == {Away} \cup [at : {"temp", "open", "write"}, url : LogoUrls, kind : Kinds]
EvictStates ==
    {NoEviction} \cup [at : {"image", "type", "commit"}, old : LogoUrls, new : LogoUrls,
                       channel : LogoChannels]
Halves == {H \in SUBSET LogoUrls : \A v, w \in H : v = w}
SweepStates ==
    {NoSweep} \cup [at : {"list"}, keep : SUBSET LogoUrls]
              \cup [at : {"sweep"}, half : Halves, temps : SUBSET Fetchers,
                    orphans : BOOLEAN, urls : SUBSET LogoUrls]

\* Types, as they are kept
LogoTypes ==
    /\ served \in [LogoUrls -> Kinds] /\ logo \in [LogoChannels -> LogoUrls]
    /\ image \in [LogoUrls -> Kinds \cup {NoImage}]
    /\ type \in [LogoUrls -> Kinds \cup {NoImage, EmptyFile}]
    /\ fetch \in [Fetchers -> FetchStates]
    /\ temps \subseteq {f \in Fetchers : fetch[f] # Away /\ fetch[f].at = "temp"}
    /\ evict \in EvictStates
    /\ sweep \in SweepStates
    /\ torn \subseteq LogoUrls /\ orphans \in BOOLEAN

\* Who is at the files of u, and how far
Evicting(u, a) == evict.at = a /\ evict.old = u
Sweeping(u) == sweep.at = "sweep" /\ u \in sweep.half

\* As long as nobody got in anybody's way at u, one party at most is at its
\* files, and they are what that party has made of them.
LogoUrlOK(u) ==
    u \notin torn =>
      /\ \A f, g \in Fetching(u) : f = g
      /\ Fetching(u) # {} => ~Evicting(u, "image") /\ ~Evicting(u, "type") /\ ~Sweeping(u)
      /\ Sweeping(u) => ~Evicting(u, "image") /\ ~Evicting(u, "type")
      /\ \A f \in Fetching(u) :
            /\ fetch[f].at = "open" => image[u] = fetch[f].kind
            /\ fetch[f].at = "write" => image[u] = fetch[f].kind /\ type[u] = EmptyFile
      /\ Evicting(u, "type") \/ Sweeping(u) => image[u] = NoImage
      /\ \/ \E f \in Fetching(u) : fetch[f].at # "temp"
         \/ Evicting(u, "image") \/ Evicting(u, "type") \/ Sweeping(u)
         \/ type[u] = image[u]

\* The inductive invariant
LogoIInv == LogoTypes /\ \A u \in LogoUrls : LogoUrlOK(u)

\* What removing is
LEMMA RemovingIs ==
  ASSUME NEW u
  PROVE  Removing(u) <=> Evicting(u, "image") \/ Evicting(u, "type") \/ Sweeping(u)
  BY DEF Removing, Evicting, Sweeping

\* The fields of a fetcher at work
LEMMA Fetcher ==
  ASSUME LogoTypes, NEW f \in Fetchers
  PROVE  /\ fetch[f] # Away => /\ fetch[f].url \in LogoUrls /\ fetch[f].kind \in Kinds
                               /\ fetch[f].at \in {"temp", "open", "write"}
         /\ Away.at = "away" /\ Away \in FetchStates
  BY DEF LogoTypes, FetchStates, Away

\* A logo nobody new is at, and whose files stay what they are
LEMMA LogoUrlKept ==
  ASSUME NEW u \in LogoUrls, LogoUrlOK(u), torn \subseteq torn',
         image'[u] = image[u], type'[u] = type[u],
         \A f \in Fetchers : fetch'[f] = fetch[f] \/ (f \notin Fetching(u) /\ f \notin Fetching(u)'),
         \A a \in {"image", "type"} : Evicting(u, a)' <=> Evicting(u, a),
         Sweeping(u)' <=> Sweeping(u)
  PROVE  LogoUrlOK(u)'
  <1>1. /\ Fetching(u)' = Fetching(u)
        /\ \A f \in Fetching(u) : fetch'[f] = fetch[f]
    BY DEF Fetching
  <1>2. /\ Evicting(u, "image")' <=> Evicting(u, "image")
        /\ Evicting(u, "type")' <=> Evicting(u, "type")
    OBVIOUS
  <1> QED  BY <1>1, <1>2 DEF LogoUrlOK

\* A fetcher that moves, and nobody else
LEMMA FetcherMoves ==
  ASSUME LogoTypes, NEW f \in Fetchers, NEW new \in FetchStates,
         fetch' = [fetch EXCEPT ![f] = new]
  PROVE  /\ fetch' \in [Fetchers -> FetchStates]
         /\ fetch'[f] = new
         /\ \A g \in Fetchers \ {f} : fetch'[g] = fetch[g]
  BY DEF LogoTypes

\* A fetch begins.
LEMMA FetchBeginKeeps ==
  ASSUME LogoIInv, NEW f \in Fetchers, NEW u \in LogoUrls, FetchBegin(f, u)
  PROVE  LogoIInv'
  <1> USE DEF LogoIInv
  <1> DEFINE new == [at |-> "temp", url |-> u, kind |-> served[u]]
  <1>1. served[u] \in Kinds
    BY DEF LogoTypes
  <1>2. new \in FetchStates /\ new # Away /\ new.at = "temp" /\ new.url = u
    BY <1>1 DEF FetchStates, Away
  <1>3. /\ fetch[f] = Away
        /\ fetch' = [fetch EXCEPT ![f] = new]
        /\ temps' = temps \cup {f}
        /\ torn' = IF Fetching(u) # {} \/ Removing(u) THEN torn \cup {u} ELSE torn
        /\ UNCHANGED <<served, logo, image, type, orphans, evict, sweep>>
    BY DEF FetchBegin, TornBy
  <1> HIDE DEF new
  <1>4. /\ fetch' \in [Fetchers -> FetchStates]
        /\ fetch'[f] = new
        /\ \A g \in Fetchers \ {f} : fetch'[g] = fetch[g]
    BY <1>2, <1>3, FetcherMoves
  <1>5. LogoTypes'
    <2>1. temps' \subseteq {g \in Fetchers : fetch'[g] # Away /\ fetch'[g].at = "temp"}
      BY <1>2, <1>3, <1>4 DEF LogoTypes
    <2> QED  BY <1>3, <1>4, <2>1 DEF LogoTypes
  <1>6. \A w \in LogoUrls, a \in {"image", "type"} :
            (Evicting(w, a)' <=> Evicting(w, a)) /\ (Sweeping(w)' <=> Sweeping(w))
    BY <1>3 DEF Evicting, Sweeping
  <1>7. ASSUME NEW w \in LogoUrls  PROVE LogoUrlOK(w)'
    <2>1. CASE w # u
      <3>1. f \notin Fetching(w) /\ f \notin Fetching(w)'
        BY <1>2, <1>3, <1>4, <2>1 DEF Fetching
      <3> QED  BY <1>3, <1>4, <1>6, <3>1, LogoUrlKept
    <2>2. CASE w = u /\ (Fetching(u) # {} \/ Removing(u))
      BY <1>3, <2>2 DEF LogoUrlOK
    <2>3. CASE w = u /\ Fetching(u) = {} /\ ~Removing(u)
      <3>1. Fetching(u)' = {f}
        BY <1>2, <1>4, <2>3 DEF Fetching
      <3>2. ~Evicting(u, "image")' /\ ~Evicting(u, "type")' /\ ~Sweeping(u)'
        BY <1>6, <2>3, RemovingIs
      <3>3. u \notin torn => type[u] = image[u]
        BY <2>3, RemovingIs DEF LogoUrlOK
      <3> QED  BY <1>2, <1>3, <1>4, <2>3, <3>1, <3>2, <3>3 DEF LogoUrlOK
    <2> QED  BY <2>1, <2>2, <2>3
  <1> QED  BY <1>5, <1>7

\* A fetcher at work that goes a step on
LEMMA FetcherGoesOn ==
  ASSUME LogoTypes, NEW f \in Fetchers, fetch[f] # Away, NEW a \in {"open", "write"},
         fetch' = [fetch EXCEPT ![f].at = a]
  PROVE  /\ fetch' \in [Fetchers -> FetchStates]
         /\ fetch'[f].at = a /\ fetch'[f] # Away
         /\ fetch'[f].url = fetch[f].url /\ fetch'[f].kind = fetch[f].kind
         /\ \A g \in Fetchers \ {f} : fetch'[g] = fetch[g]
  <1> DEFINE new == [at |-> a, url |-> fetch[f].url, kind |-> fetch[f].kind]
  <1>1. fetch[f] \in [at : {"temp", "open", "write"}, url : LogoUrls, kind : Kinds]
    BY DEF LogoTypes, FetchStates
  <1>2. new \in FetchStates /\ new # Away /\ new.at = a
        /\ new.url = fetch[f].url /\ new.kind = fetch[f].kind
    BY <1>1 DEF FetchStates, Away
  <1>3. [fetch[f] EXCEPT !.at = a] = new
    BY <1>1
  <1>4. fetch' = [fetch EXCEPT ![f] = new]
    BY <1>3
  <1> HIDE DEF new
  <1> QED  BY <1>2, <1>4, FetcherMoves

\* The image is put in place, or its temporary file has been swept.
LEMMA FetchReplaceKeeps ==
  ASSUME LogoIInv, NEW f \in Fetchers, FetchReplace(f)
  PROVE  LogoIInv'
  <1> USE DEF LogoIInv
  <1>0. /\ fetch[f] # Away /\ fetch[f].at = "temp" /\ temps' = temps \ {f}
        /\ UNCHANGED <<served, logo, type, orphans, evict, sweep, torn>>
    BY DEF FetchReplace
  <1>1. PICK u \in LogoUrls : fetch[f].url = u
    BY <1>0, Fetcher
  <1>2. PICK k \in Kinds : fetch[f].kind = k
    BY <1>0, Fetcher
  <1>3. /\ fetch' \in [Fetchers -> FetchStates]
        /\ \A g \in Fetchers \ {f} : fetch'[g] = fetch[g]
        /\ \/ fetch'[f] # Away /\ fetch'[f].at = "open" /\ fetch'[f].url = u
              /\ fetch'[f].kind = k /\ image' = [image EXCEPT ![u] = k]
           \/ fetch'[f] = Away /\ UNCHANGED image
    <2>1. CASE f \in temps
      BY <1>0, <1>1, <1>2, <2>1, FetcherGoesOn DEF FetchReplace
    <2>2. CASE f \notin temps
      <3>1. fetch' = [fetch EXCEPT ![f] = Away] /\ UNCHANGED image
        BY <2>2 DEF FetchReplace
      <3> QED  BY <3>1, Fetcher, FetcherMoves
    <2> QED  BY <2>1, <2>2
  <1>4. LogoTypes'
    <2>1. temps' \subseteq {g \in Fetchers : fetch'[g] # Away /\ fetch'[g].at = "temp"}
      BY <1>0, <1>3 DEF LogoTypes
    <2>2. image' \in [LogoUrls -> Kinds \cup {NoImage}]
      BY <1>3 DEF LogoTypes
    <2> QED  BY <1>0, <1>3, <2>1, <2>2 DEF LogoTypes
  <1>5. \A w \in LogoUrls, a \in {"image", "type"} :
            (Evicting(w, a)' <=> Evicting(w, a)) /\ (Sweeping(w)' <=> Sweeping(w))
    BY <1>0 DEF Evicting, Sweeping
  <1>6. ASSUME NEW w \in LogoUrls  PROVE LogoUrlOK(w)'
    <2>1. CASE w # u
      <3>1. f \notin Fetching(w) /\ f \notin Fetching(w)'
        BY <1>1, <1>3, <2>1 DEF Fetching
      <3>2. image'[w] = image[w]
        BY <1>3, <2>1 DEF LogoTypes
      <3> QED  BY <1>0, <1>3, <1>5, <3>1, <3>2, LogoUrlKept
    <2>2. CASE w = u /\ u \notin torn
      <3>1. f \in Fetching(u) /\ \A g \in Fetching(u) : g = f
        BY <1>0, <1>1, <2>2 DEF Fetching, LogoUrlOK
      <3>2. ~Evicting(u, "image")' /\ ~Evicting(u, "type")' /\ ~Sweeping(u)'
        BY <1>5, <2>2, <3>1 DEF LogoUrlOK
      <3>3. type[u] = image[u]
        BY <1>0, <1>5, <2>2, <3>1, <3>2 DEF LogoUrlOK
      <3>4. Fetching(u)' = IF fetch'[f] = Away THEN {} ELSE {f}
        BY <1>3, <3>1 DEF Fetching
      <3>5. CASE fetch'[f] = Away
        BY <1>0, <1>3, <3>2, <3>3, <3>4, <3>5, <2>2 DEF LogoUrlOK
      <3>6. CASE fetch'[f] # Away
        <4>1. image'[u] = k /\ fetch'[f].at = "open" /\ fetch'[f].kind = k
          BY <1>3, <3>6 DEF LogoTypes
        <4> QED  BY <1>0, <3>2, <3>4, <3>6, <4>1, <2>2 DEF LogoUrlOK
      <3> QED  BY <3>5, <3>6
    <2> QED  BY <1>0, <2>1, <2>2 DEF LogoUrlOK
  <1> QED  BY <1>4, <1>6

\* The content type is truncated, then written, by who has put the image there.
LEMMA FetchTypeKeeps ==
  ASSUME LogoIInv, NEW f \in Fetchers, FetchOpen(f) \/ FetchWrite(f)
  PROVE  LogoIInv'
  <1> USE DEF LogoIInv
  <1>0. /\ fetch[f] # Away /\ fetch[f].at \in {"open", "write"}
        /\ UNCHANGED <<served, logo, image, temps, orphans, evict, sweep, torn>>
    BY DEF FetchOpen, FetchWrite
  <1>1. PICK u \in LogoUrls : fetch[f].url = u
    BY <1>0, Fetcher
  <1>2. PICK k \in Kinds : fetch[f].kind = k
    BY <1>0, Fetcher
  <1>3. /\ fetch' \in [Fetchers -> FetchStates]
        /\ \A g \in Fetchers \ {f} : fetch'[g] = fetch[g]
        /\ \/ /\ fetch[f].at = "open"
              /\ fetch'[f] # Away /\ fetch'[f].at = "write" /\ fetch'[f].url = u
              /\ fetch'[f].kind = k
              /\ type' = [type EXCEPT ![u] = EmptyFile]
           \/ /\ fetch[f].at = "write" /\ fetch'[f] = Away
              /\ type' = [type EXCEPT ![u] = IF @ = NoImage THEN @ ELSE k]
    <2>1. CASE FetchOpen(f)
      BY <1>0, <1>1, <1>2, <2>1, FetcherGoesOn DEF FetchOpen
    <2>2. CASE FetchWrite(f)
      <3>1. /\ fetch' = [fetch EXCEPT ![f] = Away] /\ fetch[f].at = "write"
            /\ type' = [type EXCEPT ![u] = IF @ = NoImage THEN @ ELSE k]
        BY <1>1, <1>2, <2>2 DEF FetchWrite
      <3> QED  BY <3>1, Fetcher, FetcherMoves
    <2> QED  BY <2>1, <2>2
  <1>4. LogoTypes'
    <2>1. temps' \subseteq {g \in Fetchers : fetch'[g] # Away /\ fetch'[g].at = "temp"}
      BY <1>0, <1>3 DEF LogoTypes
    <2>2. type' \in [LogoUrls -> Kinds \cup {NoImage, EmptyFile}]
      BY <1>3 DEF LogoTypes
    <2> QED  BY <1>0, <1>3, <2>1, <2>2 DEF LogoTypes
  <1>5. \A w \in LogoUrls, a \in {"image", "type"} :
            (Evicting(w, a)' <=> Evicting(w, a)) /\ (Sweeping(w)' <=> Sweeping(w))
    BY <1>0 DEF Evicting, Sweeping
  <1>6. ASSUME NEW w \in LogoUrls  PROVE LogoUrlOK(w)'
    <2>1. CASE w # u
      <3>1. f \notin Fetching(w) /\ f \notin Fetching(w)'
        BY <1>1, <1>3, <2>1 DEF Fetching
      <3>2. type'[w] = type[w]
        BY <1>3, <2>1 DEF LogoTypes
      <3> QED  BY <1>0, <1>3, <1>5, <3>1, <3>2, LogoUrlKept
    <2>2. CASE w = u /\ u \notin torn
      <3>1. f \in Fetching(u) /\ \A g \in Fetching(u) : g = f
        BY <1>0, <1>1, <2>2 DEF Fetching, LogoUrlOK
      <3>2. ~Evicting(u, "image")' /\ ~Evicting(u, "type")' /\ ~Sweeping(u)'
        BY <1>5, <2>2, <3>1 DEF LogoUrlOK
      <3>3. image[u] = k /\ (fetch[f].at = "write" => type[u] = EmptyFile)
        BY <1>0, <1>2, <2>2, <3>1 DEF LogoUrlOK
      <3>4. Fetching(u)' = IF fetch'[f] = Away THEN {} ELSE {f}
        BY <1>3, <3>1 DEF Fetching
      <3>5. CASE fetch'[f] = Away
        <4>1. type'[u] = k
          BY <1>3, <3>3, <3>5, LogoAssumption DEF LogoTypes
        <4> QED  BY <1>0, <3>2, <3>3, <3>4, <3>5, <4>1, <2>2 DEF LogoUrlOK
      <3>6. CASE fetch'[f] # Away
        <4>1. type'[u] = EmptyFile /\ fetch'[f].at = "write" /\ fetch'[f].kind = k
          BY <1>3, <3>6 DEF LogoTypes
        <4> QED  BY <1>0, <3>2, <3>3, <3>4, <3>6, <4>1, <2>2 DEF LogoUrlOK
      <3> QED  BY <3>5, <3>6
    <2> QED  BY <1>0, <2>1, <2>2 DEF LogoUrlOK
  <1> QED  BY <1>4, <1>6

\* A fetcher that dies half-way is remembered.
LEMMA FetchDiesKeeps ==
  ASSUME LogoIInv, NEW f \in Fetchers, FetchDies(f)
  PROVE  LogoIInv'
  <1> USE DEF LogoIInv
  <1>0. /\ fetch[f] # Away /\ temps' = temps \ {f}
        /\ fetch' = [fetch EXCEPT ![f] = Away]
        /\ UNCHANGED <<served, logo, image, type, evict, sweep>>
    BY DEF FetchDies
  <1>1. PICK u \in LogoUrls : fetch[f].url = u
    BY <1>0, Fetcher
  <1>2. torn' = IF fetch[f].at # "temp" THEN torn \cup {u} ELSE torn
    BY <1>1 DEF FetchDies, TornBy
  <1>3. /\ fetch' \in [Fetchers -> FetchStates] /\ fetch'[f] = Away
        /\ \A g \in Fetchers \ {f} : fetch'[g] = fetch[g]
    BY <1>0, Fetcher, FetcherMoves
  <1>4. LogoTypes'
    <2>1. temps' \subseteq {g \in Fetchers : fetch'[g] # Away /\ fetch'[g].at = "temp"}
      BY <1>0, <1>3 DEF LogoTypes
    <2>2. orphans' \in BOOLEAN
      <3>1. orphans' = (orphans \/ f \in temps)
        BY DEF FetchDies
      <3> QED  BY <3>1, Zenon
    <2> QED  BY <1>0, <1>2, <1>3, <2>1, <2>2 DEF LogoTypes
  <1>5. \A w \in LogoUrls, a \in {"image", "type"} :
            (Evicting(w, a)' <=> Evicting(w, a)) /\ (Sweeping(w)' <=> Sweeping(w))
    BY <1>0 DEF Evicting, Sweeping
  <1>6. ASSUME NEW w \in LogoUrls  PROVE LogoUrlOK(w)'
    <2>1. CASE w # u
      <3>1. f \notin Fetching(w) /\ f \notin Fetching(w)'
        BY <1>1, <1>3, <2>1 DEF Fetching
      <3> QED  BY <1>0, <1>2, <1>3, <1>5, <3>1, LogoUrlKept
    <2>2. CASE w = u /\ u \notin torn'
      <3>1. /\ u \notin torn /\ fetch[f].at = "temp"
            /\ f \in Fetching(u) /\ \A g \in Fetching(u) : g = f
        BY <1>0, <1>1, <1>2, <2>2 DEF Fetching, LogoUrlOK
      <3>2. ~Evicting(u, "image")' /\ ~Evicting(u, "type")' /\ ~Sweeping(u)'
        BY <1>5, <3>1 DEF LogoUrlOK
      <3>3. type[u] = image[u]
        BY <1>5, <3>1, <3>2 DEF LogoUrlOK
      <3>4. Fetching(u)' = {}
        BY <1>3, <3>1 DEF Fetching
      <3> QED  BY <1>0, <3>2, <3>3, <3>4, <2>2 DEF LogoUrlOK
    <2> QED  BY <2>1, <2>2 DEF LogoUrlOK
  <1> QED  BY <1>4, <1>6

-----------------------------------------------------------------------------
\* The eviction of a scrape, while it lasts
LEMMA Evictor ==
  ASSUME LogoTypes
  PROVE  /\ NoEviction \in EvictStates /\ NoEviction.at = "none"
         /\ evict.at # "none" => /\ evict.old \in LogoUrls /\ evict.new \in LogoUrls
                                 /\ evict.channel \in LogoChannels
         /\ \A a \in {"image", "type", "commit"} : evict.at # "none" =>
               /\ [evict EXCEPT !.at = a] \in EvictStates
               /\ [evict EXCEPT !.at = a].at = a /\ [evict EXCEPT !.at = a].old = evict.old
  <1>1. NoEviction \in EvictStates /\ NoEviction.at = "none"
    BY DEF EvictStates, NoEviction
  <1>2. ASSUME evict.at # "none"
        PROVE  evict \in [at : {"image", "type", "commit"}, old : LogoUrls, new : LogoUrls,
                          channel : LogoChannels]
    BY <1>1, <1>2 DEF LogoTypes, EvictStates
  <1>3. ASSUME evict.at # "none", NEW a \in {"image", "type", "commit"}
        PROVE  /\ [evict EXCEPT !.at = a] \in EvictStates
               /\ [evict EXCEPT !.at = a].at = a /\ [evict EXCEPT !.at = a].old = evict.old
    BY <1>2, <1>3 DEF EvictStates
  <1> QED  BY <1>1, <1>2, <1>3

\* A scrape begins to evict a logo.
LEMMA EvictBeginKeeps ==
  ASSUME LogoIInv, NEW c \in LogoChannels, NEW v \in LogoUrls, EvictBegin(c, v)
  PROVE  LogoIInv'
  <1> USE DEF LogoIInv
  <1>1. PICK u \in LogoUrls : logo[c] = u
    BY DEF LogoTypes
  <1> DEFINE new == [at |-> "image", old |-> u, new |-> v, channel |-> c]
  <1>2. new \in EvictStates /\ new.at = "image" /\ new.old = u
    BY DEF EvictStates
  <1>3. /\ evict = NoEviction /\ evict' = new
        /\ torn' = IF Fetching(u) # {} \/ Removing(u) THEN torn \cup {u} ELSE torn
        /\ UNCHANGED <<served, logo, image, type, fetch, temps, orphans, sweep>>
    BY <1>1 DEF EvictBegin, TornBy
  <1> HIDE DEF new
  <1>4. LogoTypes'
    BY <1>2, <1>3 DEF LogoTypes
  <1>5. /\ \A w \in LogoUrls : Sweeping(w)' <=> Sweeping(w)
        /\ \A w \in LogoUrls \ {u}, a \in {"image", "type"} : ~Evicting(w, a)'
        /\ \A w \in LogoUrls, a \in {"image", "type"} : ~Evicting(w, a)
        /\ Evicting(u, "image")' /\ ~Evicting(u, "type")'
    BY <1>2, <1>3, Evictor DEF Evicting, Sweeping
  <1>6. ASSUME NEW w \in LogoUrls  PROVE LogoUrlOK(w)'
    <2>1. CASE w # u
      BY <1>3, <1>5, <2>1, LogoUrlKept
    <2>2. CASE w = u /\ (Fetching(u) # {} \/ Removing(u))
      BY <1>3, <2>2 DEF LogoUrlOK
    <2>3. CASE w = u /\ Fetching(u) = {} /\ ~Removing(u)
      <3>1. Fetching(u)' = {}
        BY <1>3, <2>3 DEF Fetching
      <3>2. ~Sweeping(u)'
        BY <1>5, <2>3, RemovingIs
      <3> QED  BY <1>5, <2>3, <3>1, <3>2 DEF LogoUrlOK
    <2> QED  BY <2>1, <2>2, <2>3
  <1> QED  BY <1>4, <1>6

\* The image goes, then the type.
LEMMA EvictGoesOn ==
  ASSUME LogoIInv, EvictImage \/ EvictType
  PROVE  LogoIInv'
  <1> USE DEF LogoIInv
  <1>0. evict.at \in {"image", "type"} /\ evict.at # "none"
    BY DEF EvictImage, EvictType
  <1>1. PICK u \in LogoUrls : evict.old = u
    BY <1>0, Evictor
  <1>2. /\ UNCHANGED <<served, logo, fetch, temps, orphans, sweep, torn>>
        /\ evict' \in EvictStates /\ evict'.old = u
        /\ \/ /\ evict.at = "image" /\ evict'.at = "type"
              /\ image' = [image EXCEPT ![u] = NoImage] /\ UNCHANGED type
           \/ /\ evict.at = "type" /\ evict'.at = "commit"
              /\ type' = [type EXCEPT ![u] = NoImage] /\ UNCHANGED image
    <2>1. CASE EvictImage
      BY <1>0, <1>1, <2>1, Evictor DEF EvictImage
    <2>2. CASE EvictType
      BY <1>0, <1>1, <2>2, Evictor DEF EvictType
    <2> QED  BY <2>1, <2>2
  <1>3. LogoTypes'
    <2>1. /\ image' \in [LogoUrls -> Kinds \cup {NoImage}]
          /\ type' \in [LogoUrls -> Kinds \cup {NoImage, EmptyFile}]
      BY <1>2 DEF LogoTypes
    <2> QED  BY <1>2, <2>1 DEF LogoTypes
  <1>4. \A w \in LogoUrls : Sweeping(w)' <=> Sweeping(w)
    BY <1>2 DEF Sweeping
  <1>5. ASSUME NEW w \in LogoUrls  PROVE LogoUrlOK(w)'
    <2>1. Fetching(w)' = Fetching(w)
      BY <1>2 DEF Fetching
    <2>2. CASE w # u
      <3>1. image'[w] = image[w] /\ type'[w] = type[w]
        BY <1>2, <2>2 DEF LogoTypes
      <3>2. \A a \in {"image", "type"} : ~Evicting(w, a)' /\ ~Evicting(w, a)
        BY <1>1, <1>2, <2>2 DEF Evicting
      <3> QED  BY <1>2, <1>4, <3>1, <3>2, LogoUrlKept
    <2>3. CASE w = u /\ u \notin torn
      <3>1. Evicting(u, "image") \/ Evicting(u, "type")
        BY <1>0, <1>1 DEF Evicting
      <3>2. Fetching(u) = {} /\ ~Sweeping(u)
        BY <2>3, <3>1 DEF LogoUrlOK
      <3>3. CASE evict.at = "image"
        <4>1. image'[u] = NoImage /\ ~Evicting(u, "image")' /\ Evicting(u, "type")'
          BY <1>2, <3>3 DEF Evicting, LogoTypes
        <4> QED  BY <1>2, <1>4, <2>1, <2>3, <3>2, <4>1 DEF LogoUrlOK
      <3>4. CASE evict.at = "type"
        <4>1. type'[u] = NoImage /\ image'[u] = image[u]
              /\ ~Evicting(u, "image")' /\ ~Evicting(u, "type")'
          BY <1>2, <3>4 DEF Evicting, LogoTypes
        <4>2. image[u] = NoImage
          BY <1>1, <2>3, <3>4 DEF LogoUrlOK, Evicting
        <4> QED  BY <1>2, <1>4, <2>1, <2>3, <3>2, <4>1, <4>2 DEF LogoUrlOK
      <3> QED  BY <1>0, <3>3, <3>4
    <2> QED  BY <1>2, <2>2, <2>3 DEF LogoUrlOK
  <1> QED  BY <1>3, <1>5

\* The scrape commits its logo, or not.
LEMMA EvictCommitKeeps ==
  ASSUME LogoIInv, EvictCommit
  PROVE  LogoIInv'
  <1> USE DEF LogoIInv
  <1>1. /\ evict.at = "commit" /\ evict' = NoEviction
        /\ logo' \in {logo, [logo EXCEPT ![evict.channel] = evict.new]}
        /\ UNCHANGED <<served, image, type, fetch, temps, orphans, sweep, torn>>
    BY DEF EvictCommit
  <1>2. LogoTypes'
    <2>1. logo' \in [LogoChannels -> LogoUrls]
      BY <1>1, Evictor DEF LogoTypes
    <2> QED  BY <1>1, <2>1, Evictor DEF LogoTypes
  <1>3. \A w \in LogoUrls, a \in {"image", "type"} :
            (Evicting(w, a)' <=> Evicting(w, a)) /\ (Sweeping(w)' <=> Sweeping(w))
    BY <1>1, Evictor DEF Evicting, Sweeping
  <1>4. ASSUME NEW w \in LogoUrls  PROVE LogoUrlOK(w)'
    BY <1>1, <1>3, LogoUrlKept
  <1> QED  BY <1>2, <1>4

\* What the sweep does with one step's type, and nothing at the files
LEMMA SweepReads ==
  ASSUME LogoIInv, LogoTypes', torn' = torn,
         UNCHANGED <<image, type, fetch, evict>>, \A w \in LogoUrls : ~Sweeping(w) /\ ~Sweeping(w)'
  PROVE  LogoIInv'
  <1> USE DEF LogoIInv
  <1>1. \A w \in LogoUrls, a \in {"image", "type"} : Evicting(w, a)' <=> Evicting(w, a)
    BY DEF Evicting
  <1>2. ASSUME NEW w \in LogoUrls  PROVE LogoUrlOK(w)'
    BY <1>1, LogoUrlKept
  <1> QED  BY <1>2

\* The sweep asks, lists, and ends.
LEMMA SweepFrameKeeps ==
  ASSUME LogoIInv, SweepQuery \/ SweepList \/ SweepTemps
  PROVE  LogoIInv'
  <1> USE DEF LogoIInv
  <1>1. NoSweep \in SweepStates /\ NoSweep.at = "none"
    BY DEF SweepStates, NoSweep
  <1>2. CASE SweepQuery
    <2>1. sweep' \in SweepStates /\ sweep'.at = "list" /\ sweep = NoSweep
      BY <1>2 DEF SweepQuery, LogoTypes, SweepStates
    <2>2. LogoTypes'
      BY <1>2, <2>1 DEF SweepQuery, LogoTypes
    <2> QED  BY <1>1, <1>2, <2>1, <2>2, SweepReads DEF SweepQuery, Sweeping
  <1>3. CASE SweepList
    <2> DEFINE U == {u \in LogoUrls \ sweep.keep : image[u] # NoImage}
               new == [at |-> "sweep", half |-> {}, temps |-> temps, orphans |-> orphans,
                       urls |-> U]
    <2>1. U \in SUBSET LogoUrls /\ temps \in SUBSET Fetchers /\ orphans \in BOOLEAN
      BY DEF LogoTypes
    <2>2. sweep' = new /\ sweep.at = "list"
      BY <1>3 DEF SweepList
    <2> HIDE DEF U
    <2>3. new \in SweepStates /\ new.half = {}
      <3>1. {} \in Halves
        BY DEF Halves
      <3> QED  BY <2>1, <3>1 DEF SweepStates
    <2> HIDE DEF new
    <2>4. LogoTypes'
      BY <1>3, <2>2, <2>3 DEF SweepList, LogoTypes
    <2> QED  BY <1>3, <2>2, <2>3, <2>4, SweepReads DEF SweepList, Sweeping
  <1>4. CASE SweepTemps
    <2>1. /\ sweep' = NoSweep /\ sweep.half = {} /\ temps' \subseteq temps
          /\ UNCHANGED <<served, logo, image, type, fetch, evict, torn>>
      BY <1>4 DEF SweepTemps
    <2>2. orphans' \in BOOLEAN
      <3>1. orphans' = (orphans /\ ~sweep.orphans)
        BY <1>4 DEF SweepTemps
      <3> QED  BY <3>1, Zenon
    <2>3. LogoTypes'
      BY <1>1, <2>1, <2>2 DEF LogoTypes
    <2> QED  BY <1>1, <2>1, <2>3, SweepReads DEF Sweeping
  <1> QED  BY <1>2, <1>3, <1>4

\* The fields of a sweep under way
LEMMA Sweeper ==
  ASSUME LogoTypes, sweep.at = "sweep"
  PROVE  sweep \in [at : {"sweep"}, half : Halves, temps : SUBSET Fetchers,
                    orphans : BOOLEAN, urls : SUBSET LogoUrls]
  BY DEF LogoTypes, SweepStates, NoSweep

\* The sweep removes an image, then its type.
LEMMA SweepFileKeeps ==
  ASSUME LogoIInv, NEW u \in LogoUrls, SweepImage(u) \/ SweepType(u)
  PROVE  LogoIInv'
  <1> USE DEF LogoIInv
  <1>1. CASE SweepImage(u)
    <2> DEFINE new == [at |-> "sweep", half |-> {u}, temps |-> sweep.temps,
                       orphans |-> sweep.orphans, urls |-> sweep.urls \ {u}]
    <2>1. new \in SweepStates /\ new.at = "sweep" /\ new.half = {u}
      <3>1. sweep.at = "sweep"
        BY <1>1 DEF SweepImage
      <3>2. /\ sweep.temps \in SUBSET Fetchers /\ sweep.orphans \in BOOLEAN
            /\ sweep.urls \ {u} \in SUBSET LogoUrls /\ {u} \in Halves
        BY <3>1, Sweeper DEF Halves
      <3> QED  BY <3>2 DEF SweepStates
    <2>2. /\ sweep' = new /\ sweep.at = "sweep" /\ sweep.half = {}
          /\ image' = [image EXCEPT ![u] = NoImage]
          /\ torn' = IF Fetching(u) # {} \/ Removing(u) THEN torn \cup {u} ELSE torn
          /\ UNCHANGED <<served, logo, type, fetch, temps, orphans, evict>>
      BY <1>1 DEF SweepImage, TornBy
    <2> HIDE DEF new
    <2>3. LogoTypes'
      <3>1. image' \in [LogoUrls -> Kinds \cup {NoImage}]
        BY <2>2 DEF LogoTypes
      <3> QED  BY <2>1, <2>2, <3>1 DEF LogoTypes
    <2>4. /\ \A w \in LogoUrls, a \in {"image", "type"} : Evicting(w, a)' <=> Evicting(w, a)
          /\ \A w \in LogoUrls : ~Sweeping(w) /\ (Sweeping(w)' <=> w = u)
      BY <2>1, <2>2 DEF Evicting, Sweeping
    <2>5. ASSUME NEW w \in LogoUrls  PROVE LogoUrlOK(w)'
      <3>1. CASE w # u
        <4>1. image'[w] = image[w] /\ torn \subseteq torn'
          BY <2>2, <3>1 DEF LogoTypes
        <4> QED  BY <2>2, <2>4, <3>1, <4>1, LogoUrlKept
      <3>2. CASE w = u /\ (Fetching(u) # {} \/ Removing(u))
        BY <2>2, <3>2 DEF LogoUrlOK
      <3>3. CASE w = u /\ Fetching(u) = {} /\ ~Removing(u)
        <4>1. Fetching(u)' = {} /\ image'[u] = NoImage
          BY <2>2, <3>3 DEF Fetching, LogoTypes
        <4>2. ~Evicting(u, "image")' /\ ~Evicting(u, "type")' /\ Sweeping(u)'
          BY <2>4, <3>3, RemovingIs
        <4> QED  BY <3>3, <4>1, <4>2 DEF LogoUrlOK
      <3> QED  BY <3>1, <3>2, <3>3
    <2> QED  BY <2>3, <2>5
  <1>2. CASE SweepType(u)
    <2>1. /\ sweep.at = "sweep" /\ u \in sweep.half
          /\ sweep' = [sweep EXCEPT !.half = {}]
          /\ type' = [type EXCEPT ![u] = NoImage]
          /\ UNCHANGED <<served, logo, image, fetch, temps, orphans, evict, torn>>
      BY <1>2 DEF SweepType
    <2>2. sweep' \in SweepStates /\ sweep'.half = {}
      <3>1. {} \in Halves
        BY DEF Halves
      <3> QED  BY <2>1, <3>1, Sweeper DEF SweepStates
    <2>3. LogoTypes'
      <3>1. type' \in [LogoUrls -> Kinds \cup {NoImage, EmptyFile}]
        BY <2>1 DEF LogoTypes
      <3> QED  BY <2>1, <2>2, <3>1 DEF LogoTypes
    <2>4. /\ \A w \in LogoUrls, a \in {"image", "type"} : Evicting(w, a)' <=> Evicting(w, a)
          /\ \A w \in LogoUrls : ~Sweeping(w)'
          /\ \A w \in LogoUrls : Sweeping(w) <=> w = u
      BY <2>1, <2>2, Sweeper DEF Evicting, Sweeping, Halves
    <2>5. ASSUME NEW w \in LogoUrls  PROVE LogoUrlOK(w)'
      <3>1. CASE w # u
        <4>1. type'[w] = type[w]
          BY <2>1, <3>1 DEF LogoTypes
        <4> QED  BY <2>1, <2>4, <3>1, <4>1, LogoUrlKept
      <3>2. CASE w = u /\ u \notin torn
        <4>1. Fetching(u) = {} /\ image[u] = NoImage
              /\ ~Evicting(u, "image") /\ ~Evicting(u, "type")
          BY <2>4, <3>2 DEF LogoUrlOK
        <4>2. Fetching(u)' = {} /\ type'[u] = NoImage
          BY <2>1, <4>1 DEF Fetching, LogoTypes
        <4> QED  BY <2>1, <2>4, <3>2, <4>1, <4>2 DEF LogoUrlOK
      <3> QED  BY <2>1, <3>1, <3>2 DEF LogoUrlOK
    <2> QED  BY <2>3, <2>5
  <1> QED  BY <1>1, <1>2

-----------------------------------------------------------------------------
\* A server serves another image.
LEMMA RepostKeeps ==
  ASSUME LogoIInv, NEW u \in LogoUrls, Repost(u)
  PROVE  LogoIInv'
  <1> USE DEF LogoIInv
  <1>1. served' \in [LogoUrls -> Kinds]
    BY DEF Repost, LogoTypes
  <1>2. UNCHANGED <<logo, image, type, fetch, temps, orphans, evict, sweep, torn>>
    BY DEF Repost
  <1>3. LogoTypes'
    BY <1>1, <1>2 DEF LogoTypes
  <1>4. \A w \in LogoUrls, a \in {"image", "type"} :
            (Evicting(w, a)' <=> Evicting(w, a)) /\ (Sweeping(w)' <=> Sweeping(w))
    BY <1>2 DEF Evicting, Sweeping
  <1>5. ASSUME NEW w \in LogoUrls  PROVE LogoUrlOK(w)'
    BY <1>2, <1>4, LogoUrlKept
  <1> QED  BY <1>3, <1>5

\* The first states: a directory that is empty, or holds every logo
LEMMA LogoInitInv == LogoInit => LogoIInv
  <1> SUFFICES ASSUME LogoInit  PROVE LogoIInv
    OBVIOUS
  <1> USE DEF LogoInit
  <1>1. /\ served \in [LogoUrls -> Kinds] /\ logo \in [LogoChannels -> LogoUrls]
        /\ image \in [LogoUrls -> Kinds \cup {NoImage}] /\ type = image
    OBVIOUS
  <1>2. NoEviction \in EvictStates /\ NoEviction.at = "none" /\ NoSweep \in SweepStates
        /\ NoSweep.at = "none" /\ Away \in FetchStates
    BY DEF EvictStates, SweepStates, FetchStates, NoEviction, NoSweep
  <1>3. LogoTypes
    BY <1>1, <1>2 DEF LogoTypes
  <1>4. ASSUME NEW u \in LogoUrls  PROVE LogoUrlOK(u)
    <2>1. Fetching(u) = {}
      BY DEF Fetching
    <2>2. ~Evicting(u, "image") /\ ~Evicting(u, "type") /\ ~Sweeping(u)
      BY <1>2 DEF Evicting, Sweeping
    <2> QED  BY <1>1, <2>1, <2>2 DEF LogoUrlOK
  <1> QED  BY <1>3, <1>4 DEF LogoIInv

\* Every step keeps the invariant.
LEMMA LogoStepInv == LogoIInv /\ [LogoNext]_logoVars => LogoIInv'
  <1> SUFFICES ASSUME LogoIInv, [LogoNext]_logoVars  PROVE LogoIInv'
    OBVIOUS
  <1>1. CASE UNCHANGED logoVars
    <2>1. UNCHANGED <<served, logo, image, type, fetch, temps, orphans, evict, sweep, torn>>
      BY <1>1 DEF logoVars
    <2>2. LogoTypes'
      BY <2>1 DEF LogoIInv, LogoTypes
    <2>3. \A w \in LogoUrls, a \in {"image", "type"} :
              (Evicting(w, a)' <=> Evicting(w, a)) /\ (Sweeping(w)' <=> Sweeping(w))
      BY <2>1 DEF Evicting, Sweeping
    <2>4. ASSUME NEW w \in LogoUrls  PROVE LogoUrlOK(w)'
      BY <2>1, <2>3, LogoUrlKept DEF LogoIInv
    <2> QED  BY <2>2, <2>4 DEF LogoIInv
  <1>2. ASSUME NEW f \in Fetchers,
               LogoFetch(f) \/ FetchDies(f) \/ \E u \in LogoUrls : FetchBegin(f, u)
        PROVE  LogoIInv'
    BY <1>2, FetchBeginKeeps, FetchReplaceKeeps, FetchTypeKeeps, FetchDiesKeeps DEF LogoFetch
  <1>3. CASE LogoEvict \/ \E c \in LogoChannels, u \in LogoUrls : EvictBegin(c, u)
    BY <1>3, EvictBeginKeeps, EvictGoesOn, EvictCommitKeeps DEF LogoEvict
  <1>4. CASE LogoSweep
    BY <1>4, SweepFrameKeeps, SweepFileKeeps DEF LogoSweep
  <1> QED  BY <1>1, <1>2, <1>3, <1>4, RepostKeeps DEF LogoNext

\* For any number of logos and fetchers, and whoever dies: image and content
\* type of a logo belong together unless two parties were at its files at once
\* or one died between them.
THEOREM LogoInvariant == LogoSpec => []LogoInv
  <1>1. LogoIInv => LogoInv
    <2> SUFFICES ASSUME LogoIInv  PROVE LogoInv
      OBVIOUS
    <2> USE DEF LogoIInv
    <2>1. LogoTypeOK
      <3>1. evict.at \in {"none", "image", "type", "commit"}
        BY DEF LogoTypes, EvictStates, NoEviction
      <3>2. sweep.at \in {"none", "list", "sweep"}
        BY DEF LogoTypes, SweepStates, NoSweep
      <3> QED  BY <3>1, <3>2 DEF LogoTypeOK, LogoTypes, FetchStates
    <2>2. ASSUME NEW u \in LogoUrls \ torn,
                 ~ \E f \in Fetching(u) : fetch[f].at # "temp", ~Removing(u)
          PROVE  type[u] = image[u]
      BY <2>2, RemovingIs DEF LogoUrlOK
    <2> QED  BY <2>1, <2>2 DEF LogoInv, LogoTyped
  <1> QED  BY <1>1, LogoInitInv, LogoStepInv, PTL DEF LogoSpec

------------------------------------------------------------------------------
(* The scrape jobs (ScrapeJobs) *)

\* Where the job of a scrape is
ScrapePhases == {"idle", "bootstrap", "tokens", "fetch", "upsert", "apply", "mark", "commit",
                 "announce", "error", "record", "failed"}

\* Requests between looking and enqueueing, for s
AskersOf(s) == {a \in Askers : asking[a] = s}

\* How often s is in the queue or on its way there
Pending(s) ==
    Cardinality(ScrapePlaces(s)) + Cardinality(AskersOf(s)) + IF round.found = s THEN 1 ELSE 0

\* The queue, and those who put into it
ScrapeQueueOK ==
    /\ noted \subseteq ScrapeSources
    /\ round \in [left : SUBSET ScrapeSources, found : ScrapeSources \cup {NoSource}]
    /\ asking \in [Askers -> ScrapeSources \cup {NoSource}]
    /\ waiting \in Seq(ScrapeSources)
    /\ jobHash \in [ScrapeSources -> {"none", "queued", "started", "ended"}]
    /\ started \subseteq ScrapeSources
    /\ \A s \in ScrapeSources : Pending(s) <= 1 + Cardinality(Askers)

\* The job, and what it has in its session and in the database: a mark is only
\* held by the last commit, with the data, or after them.
ScrapeRunOK ==
    /\ run \in [source : ScrapeSources \cup {NoSource}, at : ScrapePhases, tries : 0 .. 3]
    /\ run.source = NoSource <=> run.at = "idle"
    /\ run.at \notin {"error", "record", "failed"} => run.tries <= 2
    /\ session \subseteq {"config", "data", "mark"}
    /\ committed \subseteq {"config", "data", "mark"}
    /\ "mark" \in session => run.at = "commit"
    /\ run.at = "apply" => "data" \in session
    /\ run.at \in {"mark", "commit"} => "data" \in session \cup committed
    /\ ScrapeDoneIsSaved
    /\ locks = 0 /\ run.at = "tokens" /\ run.source \in Rotating => "config" \in session
    /\ ScrapeTokensPersisted

\* The rest
ScrapeRestOK ==
    /\ recent \subseteq ScrapeSources
    /\ unpublished \subseteq ScrapeSources
    /\ crashes \in 0 .. MaxScrapeCrashes
    /\ locks \in 0 .. MaxScrapeLocks
    /\ failures \in 0 .. MaxScrapeFailures

\* The inductive invariant
ScrapeIInv == ScrapeQueueOK /\ ScrapeRunOK /\ ScrapeRestOK

-----------------------------------------------------------------------------
\* Places and requests are finitely many.
LEMMA PendingFinite ==
  ASSUME ScrapeQueueOK, NEW s
  PROVE  /\ Len(waiting) \in Nat
         /\ IsFiniteSet(ScrapePlaces(s)) /\ Cardinality(ScrapePlaces(s)) \in Nat
         /\ IsFiniteSet(AskersOf(s)) /\ Cardinality(AskersOf(s)) \in Nat
         /\ Cardinality(AskersOf(s)) <= Cardinality(Askers)
         /\ Cardinality(Askers) \in Nat
  <1>1. Len(waiting) \in Nat
    BY DEF ScrapeQueueOK
  <1>2. IsFiniteSet(1 .. Len(waiting)) /\ ScrapePlaces(s) \subseteq 1 .. Len(waiting)
    BY <1>1, FS_Interval DEF ScrapePlaces
  <1>3. AskersOf(s) \subseteq Askers
    BY DEF AskersOf
  <1> QED  BY <1>1, <1>2, <1>3, ScrapeAssumption, FS_Subset, FS_CardinalityType

\* What is put into the queue has one place more.
LEMMA PlaceAdded ==
  ASSUME ScrapeQueueOK, NEW s \in ScrapeSources, waiting' = Append(waiting, s)
  PROVE  /\ waiting' \in Seq(ScrapeSources)
         /\ Cardinality(ScrapePlaces(s)') = Cardinality(ScrapePlaces(s)) + 1
         /\ \A t \in ScrapeSources \ {s} : ScrapePlaces(t)' = ScrapePlaces(t)
  <1>1. /\ waiting \in Seq(ScrapeSources) /\ Len(waiting) \in Nat
        /\ Len(waiting') = Len(waiting) + 1
        /\ waiting'[Len(waiting) + 1] = s
        /\ \A i \in 1 .. Len(waiting) : waiting'[i] = waiting[i]
        /\ waiting' \in Seq(ScrapeSources)
    BY DEF ScrapeQueueOK
  <1>2. ScrapePlaces(s)' = ScrapePlaces(s) \cup {Len(waiting) + 1}
        /\ Len(waiting) + 1 \notin ScrapePlaces(s)
    BY <1>1 DEF ScrapePlaces
  <1>3. ASSUME NEW t \in ScrapeSources \ {s}  PROVE ScrapePlaces(t)' = ScrapePlaces(t)
    BY <1>1, <1>3 DEF ScrapePlaces
  <1> QED  BY <1>1, <1>2, <1>3, PendingFinite, FS_AddElement

\* What is taken out of it has no place more than before.
LEMMA PlaceTaken ==
  ASSUME ScrapeQueueOK, waiting # <<>>, waiting' = Tail(waiting)
  PROVE  /\ waiting' \in Seq(ScrapeSources) /\ Head(waiting) \in ScrapeSources
         /\ \A s \in ScrapeSources : /\ Cardinality(ScrapePlaces(s)') \in Nat
                                     /\ Cardinality(ScrapePlaces(s)') <= Cardinality(ScrapePlaces(s))
  <1>1. /\ waiting \in Seq(ScrapeSources) /\ Len(waiting) \in Nat \ {0}
        /\ Len(waiting') = Len(waiting) - 1
        /\ \A i \in 1 .. Len(waiting') : waiting'[i] = waiting[i + 1]
        /\ waiting' \in Seq(ScrapeSources) /\ Head(waiting) \in ScrapeSources
    BY DEF ScrapeQueueOK
  <1>2. ASSUME NEW s \in ScrapeSources
        PROVE  /\ Cardinality(ScrapePlaces(s)') \in Nat
               /\ Cardinality(ScrapePlaces(s)') <= Cardinality(ScrapePlaces(s))
    <2> DEFINE P == ScrapePlaces(s)
               Q == {i \in 1 .. Len(waiting) - 1 : waiting[i + 1] = s}
               f == [i \in Q |-> i + 1]
    <2>1. ScrapePlaces(s)' = Q
      BY <1>1 DEF ScrapePlaces
    <2>2. f \in Injection(Q, P)
      BY <1>1 DEF Injection, IsInjective, ScrapePlaces
    <2>3. IsFiniteSet(Q) /\ Cardinality(Q) <= Cardinality(P)
      BY <2>2, PendingFinite, FS_Injection
    <2> HIDE DEF Q
    <2> QED  BY <2>1, <2>3, FS_CardinalityType
  <1> QED  BY <1>1, <1>2

\* A source that is not active is nowhere in the queue.
LEMMA InactivePending ==
  ASSUME ScrapeQueueOK, NEW s, ~ScrapeActive(s)
  PROVE  Cardinality(ScrapePlaces(s)) = 0
  <1>1. ScrapePlaces(s) = {}
    BY DEF ScrapeActive, ScrapePlaces
  <1> QED  BY <1>1, FS_EmptySet

\* Cleaning up after a dead worker keeps types.
LEMMA CleanTypes ==
  ASSUME ScrapeQueueOK, NEW s \in ScrapeSources
  PROVE  /\ ScrapeCleanRegistry(s) \subseteq ScrapeSources
         /\ ScrapeCleanHash(s) \in [ScrapeSources -> {"none", "queued", "started", "ended"}]
  BY DEF ScrapeQueueOK, ScrapeCleanRegistry, ScrapeCleanHash

\* What holds of the queue while fewer are in it or on their way
LEMMA QueueShrinks ==
  ASSUME ScrapeQueueOK, UNCHANGED <<asking, waiting>>,
         noted' \subseteq ScrapeSources,
         round' \in [left : SUBSET ScrapeSources, found : ScrapeSources \cup {NoSource}],
         round'.found \in {round.found, NoSource},
         jobHash' \in [ScrapeSources -> {"none", "queued", "started", "ended"}],
         started' \subseteq ScrapeSources
  PROVE  ScrapeQueueOK'
  <1>1. ASSUME NEW s \in ScrapeSources  PROVE Pending(s)' <= 1 + Cardinality(Askers)
    <2>1. ScrapePlaces(s)' = ScrapePlaces(s) /\ AskersOf(s)' = AskersOf(s)
      BY DEF ScrapePlaces, AskersOf
    <2>2. Pending(s)' <= Pending(s) /\ Pending(s)' \in Nat /\ Pending(s) \in Nat
      BY <2>1, PendingFinite, ScrapeAssumption DEF Pending
    <2> QED  BY <2>2, PendingFinite DEF ScrapeQueueOK
  <1> QED  BY <1>1 DEF ScrapeQueueOK

\* The tick, and a source that is looked at
LEMMA SchedulerLooks ==
  ASSUME ScrapeQueueOK, ScrapeTick \/ \E s \in ScrapeSources : ScrapeLook(s)
  PROVE  ScrapeQueueOK'
  <1>1. CASE ScrapeTick
    <2>1. /\ round' \in [left : SUBSET ScrapeSources, found : ScrapeSources \cup {NoSource}]
          /\ round'.found = round.found
      BY <1>1 DEF ScrapeTick, ScrapeQueueOK
    <2> QED  BY <1>1, <2>1, QueueShrinks DEF ScrapeTick, ScrapeQueueOK
  <1>2. ASSUME NEW s \in ScrapeSources, ScrapeLook(s)  PROVE ScrapeQueueOK'
    <2>1. /\ started' \subseteq ScrapeSources
          /\ jobHash' \in [ScrapeSources -> {"none", "queued", "started", "ended"}]
          /\ UNCHANGED <<asking, waiting>> /\ round.found = NoSource
      BY <1>2, CleanTypes DEF ScrapeLook
    <2>2. CASE ScrapeActive(s)
      <3>1. /\ round' \in [left : SUBSET ScrapeSources, found : ScrapeSources \cup {NoSource}]
            /\ round'.found = round.found /\ noted' \subseteq ScrapeSources
        BY <1>2, <2>2 DEF ScrapeLook, ScrapeQueueOK
      <3> QED  BY <2>1, <3>1, QueueShrinks
    <2>3. CASE ~ScrapeActive(s)
      <3>1. /\ round' = [left |-> round.left \ {s}, found |-> s] /\ noted' = noted
        BY <1>2, <2>3 DEF ScrapeLook
      <3>2. /\ round' \in [left : SUBSET ScrapeSources, found : ScrapeSources \cup {NoSource}]
            /\ round'.found = s
        BY <3>1 DEF ScrapeQueueOK
      <3>3. ASSUME NEW t \in ScrapeSources  PROVE Pending(t)' <= 1 + Cardinality(Askers)
        <4>1. ScrapePlaces(t)' = ScrapePlaces(t) /\ AskersOf(t)' = AskersOf(t)
          BY <2>1 DEF ScrapePlaces, AskersOf
        <4>2. CASE t = s
          BY <2>3, <3>2, <4>1, <4>2, InactivePending, PendingFinite DEF Pending
        <4>3. CASE t # s
          <5>1. Pending(t)' = Pending(t)
            BY <2>1, <3>2, <4>1, <4>3, ScrapeAssumption DEF Pending
          <5> QED  BY <5>1 DEF ScrapeQueueOK
        <4> QED  BY <4>2, <4>3
      <3> QED  BY <2>1, <3>1, <3>2, <3>3 DEF ScrapeQueueOK
    <2> QED  BY <2>2, <2>3
  <1> QED  BY <1>1, <1>2

\* One who was on the way is in the queue.
LEMMA SomeoneEnqueues ==
  ASSUME ScrapeQueueOK, NEW s \in ScrapeSources, ScrapeEnqueue(s),
         UNCHANGED started, noted' \subseteq ScrapeSources,
         \/ round.found = s /\ round' = [round EXCEPT !.found = NoSource] /\ UNCHANGED asking
         \/ \E a \in Askers : /\ asking[a] = s /\ asking' = [asking EXCEPT ![a] = NoSource]
                              /\ UNCHANGED round
  PROVE  ScrapeQueueOK'
  <1>1. /\ waiting' \in Seq(ScrapeSources)
        /\ Cardinality(ScrapePlaces(s)') = Cardinality(ScrapePlaces(s)) + 1
        /\ \A t \in ScrapeSources \ {s} : ScrapePlaces(t)' = ScrapePlaces(t)
    BY PlaceAdded DEF ScrapeEnqueue
  <1>2. jobHash' \in [ScrapeSources -> {"none", "queued", "started", "ended"}]
    BY DEF ScrapeEnqueue, ScrapeQueueOK
  <1>3. CASE round.found = s /\ round' = [round EXCEPT !.found = NoSource] /\ UNCHANGED asking
    <2>1. /\ round' \in [left : SUBSET ScrapeSources, found : ScrapeSources \cup {NoSource}]
          /\ round'.found = NoSource /\ NoSource # s
      BY <1>3, ScrapeAssumption DEF ScrapeQueueOK
    <2>2. ASSUME NEW t \in ScrapeSources  PROVE Pending(t)' <= Pending(t)
      <3>1. AskersOf(t)' = AskersOf(t)
        BY <1>3 DEF AskersOf
      <3>2. CASE t = s
        BY <1>1, <1>3, <2>1, <3>1, <3>2, PendingFinite, ScrapeAssumption DEF Pending
      <3>3. CASE t # s
        BY <1>1, <1>3, <2>1, <3>1, <3>3, PendingFinite, ScrapeAssumption DEF Pending
      <3> QED  BY <3>2, <3>3
    <2>3. ASSUME NEW t \in ScrapeSources
          PROVE  Pending(t)' \in Int /\ Pending(t) \in Int /\ Pending(t) <= 1 + Cardinality(Askers)
      <3>1. AskersOf(t)' = AskersOf(t)
        BY <1>3 DEF AskersOf
      <3>2. Cardinality(ScrapePlaces(t)') \in Int
        BY <1>1, PendingFinite
      <3> QED  BY <3>1, <3>2, PendingFinite DEF Pending, ScrapeQueueOK
    <2>4. \A t \in ScrapeSources : Pending(t)' <= 1 + Cardinality(Askers)
      <3>1. Cardinality(Askers) \in Int
        BY PendingFinite
      <3> QED  BY <2>2, <2>3, <3>1
    <2> QED  BY <1>1, <1>2, <1>3, <2>1, <2>4 DEF ScrapeQueueOK
  <1>4. ASSUME NEW a \in Askers, asking[a] = s, asking' = [asking EXCEPT ![a] = NoSource],
               UNCHANGED round
        PROVE  ScrapeQueueOK'
    <2>1. /\ asking' \in [Askers -> ScrapeSources \cup {NoSource}]
          /\ asking'[a] = NoSource /\ NoSource # s
          /\ \A b \in Askers \ {a} : asking'[b] = asking[b]
      BY <1>4, ScrapeAssumption DEF ScrapeQueueOK
    <2>2. /\ AskersOf(s)' = AskersOf(s) \ {a} /\ a \in AskersOf(s)
          /\ \A t \in ScrapeSources \ {s} : AskersOf(t)' = AskersOf(t)
      BY <1>4, <2>1, ScrapeAssumption DEF AskersOf
    <2>3. Cardinality(AskersOf(s)') = Cardinality(AskersOf(s)) - 1
      BY <2>2, PendingFinite, FS_RemoveElement
    <2>4. ASSUME NEW t \in ScrapeSources
          PROVE  Pending(t)' = Pending(t)
      <3>1. CASE t = s
        BY <1>1, <1>4, <2>3, <3>1, PendingFinite DEF Pending
      <3>2. CASE t # s
        BY <1>1, <1>4, <2>2, <3>2 DEF Pending
      <3> QED  BY <3>1, <3>2
    <2> QED  BY <1>1, <1>2, <1>4, <2>1, <2>4 DEF ScrapeQueueOK
  <1> QED  BY <1>3, <1>4

\* A request looks.
LEMMA RequestAsks ==
  ASSUME ScrapeQueueOK, NEW a \in Askers, NEW s \in ScrapeSources, ScrapeAsk(a, s)
  PROVE  ScrapeQueueOK'
  <1>1. /\ asking' = [asking EXCEPT ![a] = s] /\ asking[a] = NoSource
        /\ UNCHANGED <<noted, round, waiting>> /\ ~ScrapeActive(s)
    BY DEF ScrapeAsk
  <1>2. /\ asking' \in [Askers -> ScrapeSources \cup {NoSource}]
        /\ asking'[a] = s /\ NoSource # s
        /\ \A b \in Askers \ {a} : asking'[b] = asking[b]
    BY <1>1, ScrapeAssumption DEF ScrapeQueueOK
  <1>3. /\ \A t \in ScrapeSources : ScrapePlaces(t)' = ScrapePlaces(t)
        /\ \A t \in ScrapeSources \ {s} : AskersOf(t)' = AskersOf(t)
    BY <1>1, <1>2, ScrapeAssumption DEF ScrapePlaces, AskersOf
  <1>4. AskersOf(s)' \subseteq Askers
    BY <1>2 DEF AskersOf
  <1>5. Cardinality(AskersOf(s)') \in Nat /\ Cardinality(AskersOf(s)') <= Cardinality(Askers)
    BY <1>4, ScrapeAssumption, FS_Subset, FS_CardinalityType
  <1>6. Cardinality(ScrapePlaces(s)') = 0
    BY <1>1, <1>3, InactivePending
  <1>7. ASSUME NEW t \in ScrapeSources  PROVE Pending(t)' <= 1 + Cardinality(Askers)
    <2>1. CASE t = s
      <3>1. Cardinality(Askers) \in Nat
        BY PendingFinite
      <3> QED  BY <1>5, <1>6, <2>1, <3>1 DEF Pending
    <2>2. CASE t # s
      <3>1. Pending(t)' = Pending(t)
        BY <1>1, <1>3, <2>2 DEF Pending
      <3> QED  BY <3>1 DEF ScrapeQueueOK
    <2> QED  BY <2>1, <2>2
  <1>8. /\ started' \subseteq ScrapeSources
        /\ jobHash' \in [ScrapeSources -> {"none", "queued", "started", "ended"}]
    BY CleanTypes DEF ScrapeAsk
  <1> QED  BY <1>1, <1>2, <1>7, <1>8 DEF ScrapeQueueOK

\* The worker takes a job.
LEMMA WorkerTakes ==
  ASSUME ScrapeQueueOK, ScrapeStart
  PROVE  ScrapeQueueOK' /\ Head(waiting) \in ScrapeSources
  <1>1. /\ waiting' \in Seq(ScrapeSources) /\ Head(waiting) \in ScrapeSources
        /\ \A s \in ScrapeSources : /\ Cardinality(ScrapePlaces(s)') \in Nat
                                    /\ Cardinality(ScrapePlaces(s)') <= Cardinality(ScrapePlaces(s))
    BY PlaceTaken DEF ScrapeStart
  <1>2. /\ started' \subseteq ScrapeSources
        /\ jobHash' \in [ScrapeSources -> {"none", "queued", "started", "ended"}]
        /\ UNCHANGED <<noted, round, asking>>
    BY <1>1 DEF ScrapeStart, ScrapeQueueOK
  <1>3. ASSUME NEW s \in ScrapeSources  PROVE Pending(s)' <= 1 + Cardinality(Askers)
    <2>1. AskersOf(s)' = AskersOf(s) /\ round' = round
      BY <1>2 DEF AskersOf
    <2>2. Pending(s)' <= Pending(s) /\ Pending(s)' \in Int /\ Pending(s) \in Int
      BY <1>1, <2>1, PendingFinite DEF Pending
    <2> QED  BY <2>2, PendingFinite DEF ScrapeQueueOK
  <1> QED  BY <1>1, <1>2, <1>3 DEF ScrapeQueueOK

\* What the steps of the job, and the killing of processes, do to the queue
LEMMA QueueKept ==
  ASSUME ScrapeQueueOK, UNCHANGED scrapeQueue
  PROVE  ScrapeQueueOK'
  <1>1. UNCHANGED <<noted, round, asking, waiting, jobHash, started>>
    BY DEF scrapeQueue
  <1>2. round'.found \in {round.found, NoSource}
    BY <1>1
  <1> QED  BY <1>1, <1>2, QueueShrinks DEF ScrapeQueueOK

\* The queue, step by step
LEMMA QueueStep ==
  ASSUME ScrapeIInv, [ScrapeNext]_scrapeJobVars
  PROVE  ScrapeQueueOK'
  <1> USE DEF ScrapeIInv
  <1>1. CASE ScrapeScheduler
    <2>1. CASE ScrapeSchedule
      <3>1. round.found \in ScrapeSources
        BY <2>1 DEF ScrapeSchedule, ScrapeQueueOK
      <3>2. noted' \subseteq ScrapeSources
        BY <2>1, <3>1 DEF ScrapeSchedule, ScrapeQueueOK
      <3>3. /\ ScrapeEnqueue(round.found) /\ UNCHANGED started
            /\ round' = [round EXCEPT !.found = NoSource] /\ UNCHANGED asking
        BY <2>1 DEF ScrapeSchedule
      <3> QED  BY <3>1, <3>2, <3>3, SomeoneEnqueues
    <2> QED  BY <1>1, <2>1, SchedulerLooks DEF ScrapeScheduler
  <1>2. CASE ScrapeStart
    BY <1>2, WorkerTakes
  <1>3. ASSUME ScrapeOver, UNCHANGED <<noted, round, asking, waiting>>
        PROVE  ScrapeQueueOK'
    <2>1. /\ started' \subseteq ScrapeSources
          /\ jobHash' \in [ScrapeSources -> {"none", "queued", "started", "ended"}]
          /\ round'.found \in {round.found, NoSource}
      BY <1>3 DEF ScrapeOver, ScrapeQueueOK
    <2> QED  BY <1>3, <2>1, QueueShrinks DEF ScrapeQueueOK
  <1>4. CASE ScrapeJob
    <2>1. CASE ScrapeAnnounce \/ ScrapeEnd
      BY <1>3, <2>1 DEF ScrapeAnnounce, ScrapeEnd
    <2>2. CASE ~(ScrapeAnnounce \/ ScrapeEnd)
      <3>1. UNCHANGED scrapeQueue
        BY <1>4, <2>2 DEF ScrapeJob, ScrapeBootstrap, ScrapeTokens, ScrapeFetch, ScrapeUpsert,
           ScrapeApply, ScrapeMark, ScrapeSave, ScrapeRollBack, ScrapeRecord, ScrapePersist, ScrapeOwn
      <3> QED  BY <3>1, QueueKept
    <2> QED  BY <2>1, <2>2
  <1>5. CASE ScrapeSaveLocked \/ ScrapeFails \/ ScrapeKillWorker
    <2>1. UNCHANGED scrapeQueue
      BY <1>5 DEF ScrapeSaveLocked, ScrapeFails, ScrapeKillWorker
    <2> QED  BY <2>1, QueueKept
  <1>6. CASE ScrapeKillHorse
    BY <1>3, <1>6 DEF ScrapeKillHorse
  <1>7. CASE ScrapeKillScheduler
    <2>1. /\ round' \in [left : SUBSET ScrapeSources, found : ScrapeSources \cup {NoSource}]
          /\ round'.found \in {round.found, NoSource}
      BY <1>7 DEF ScrapeKillScheduler, ScrapeNoRound
    <2> QED  BY <1>7, <2>1, QueueShrinks DEF ScrapeKillScheduler, ScrapeQueueOK
  <1>8. ASSUME NEW a \in Askers, ScrapeTrigger(a)  PROVE ScrapeQueueOK'
    <2>1. asking[a] \in ScrapeSources
      BY <1>8 DEF ScrapeTrigger, ScrapeQueueOK
    <2>2. /\ ScrapeEnqueue(asking[a]) /\ UNCHANGED <<started, noted, round>>
          /\ asking' = [asking EXCEPT ![a] = NoSource]
      BY <1>8 DEF ScrapeTrigger
    <2> QED  BY <2>1, <2>2, SomeoneEnqueues DEF ScrapeQueueOK
  <1>9. ASSUME NEW a \in Askers, NEW s \in ScrapeSources, ScrapeAsk(a, s)  PROVE ScrapeQueueOK'
    BY <1>9, RequestAsks
  <1>10. ASSUME NEW s \in ScrapeSources, ScrapeDue(s)  PROVE ScrapeQueueOK'
    <2>1. UNCHANGED scrapeQueue
      BY <1>10 DEF ScrapeDue
    <2> QED  BY <2>1, QueueKept
  <1>11. ASSUME NEW s \in ScrapeSources, ScrapeForget(s)  PROVE ScrapeQueueOK'
    <2>1. noted' \subseteq ScrapeSources /\ round'.found \in {round.found, NoSource}
      BY <1>11 DEF ScrapeForget, ScrapeQueueOK
    <2> QED  BY <1>11, <2>1, QueueShrinks DEF ScrapeForget, ScrapeQueueOK
  <1>12. CASE UNCHANGED scrapeJobVars
    BY <1>12, QueueKept DEF scrapeJobVars
  <1> QED  BY <1>1, <1>2, <1>4, <1>5, <1>6, <1>7, <1>8, <1>9, <1>10, <1>11, <1>12 DEF ScrapeNext

-----------------------------------------------------------------------------
\* The job while it and its database are left alone
LEMMA RunKept ==
  ASSUME ScrapeRunOK, UNCHANGED <<run, session, committed, locks>>
  PROVE  ScrapeRunOK'
  BY DEF ScrapeRunOK, ScrapeDoneIsSaved, ScrapeTokensPersisted

\* Between two jobs there is nothing.
LEMMA RunIdle ==
  ASSUME run' = ScrapeIdle, session' = {}, committed' = {}
  PROVE  ScrapeRunOK'
  <1>1. run' = [source |-> NoSource, at |-> "idle", tries |-> 0]
    BY DEF ScrapeIdle
  <1> QED  BY <1>1, ScrapeAssumption
           DEF ScrapeRunOK, ScrapePhases, ScrapeDoneIsSaved, ScrapeTokensPersisted

\* A step of the job from one phase to another: where it is afterwards
LEMMA PhaseStep ==
  ASSUME ScrapeRunOK, NEW from \in ScrapePhases \ {"idle"}, NEW to \in ScrapePhases \ {"idle"},
         run.at = from, run' = [run EXCEPT !.at = to]
  PROVE  /\ run' = [source |-> run.source, at |-> to, tries |-> run.tries]
         /\ run' \in [source : ScrapeSources \cup {NoSource}, at : ScrapePhases, tries : 0 .. 3]
         /\ run'.source = NoSource <=> run'.at = "idle"
         /\ run.source \in ScrapeSources
  BY DEF ScrapeRunOK, ScrapePhases

\* The commit of a phase that persists configuration updates
LEMMA PersistKeeps ==
  ASSUME ScrapeRunOK, ScrapeRestOK, ScrapeTokens \/ ScrapeApply \/ ScrapeRecord
  PROVE  ScrapeRunOK'
  <1>1. PICK from, next : /\ ScrapePersist(from, next)
                          /\ \/ from = "tokens" /\ next = "fetch"
                             \/ from = "apply" /\ next = "mark"
                             \/ from = "record" /\ next = "failed"
    BY DEF ScrapeTokens, ScrapeApply, ScrapeRecord
  <1>2. from \in ScrapePhases \ {"idle"} /\ next \in ScrapePhases \ {"idle"}
    BY <1>1 DEF ScrapePhases
  <1>3. CASE ScrapeOwn(from, next) /\ ScrapeCommitted
    <2>1. /\ run.at = from /\ run' = [run EXCEPT !.at = next] /\ locks' = locks
          /\ session' = {} /\ committed' = committed \cup session
      BY <1>3 DEF ScrapeOwn, ScrapeCommitted, scrapeBounds
    <2>2. /\ run' = [source |-> run.source, at |-> next, tries |-> run.tries]
          /\ run' \in [source : ScrapeSources \cup {NoSource}, at : ScrapePhases, tries : 0 .. 3]
          /\ run'.source = NoSource <=> run'.at = "idle"
      BY <1>2, <2>1, PhaseStep
    <2>3. "mark" \notin session
      BY <1>1, <2>1 DEF ScrapeRunOK
    <2> QED  BY <1>1, <2>1, <2>2, <2>3 DEF ScrapeRunOK, ScrapeDoneIsSaved, ScrapeTokensPersisted
  <1>4. ASSUME NEW k \in 1 .. 3, run.at = from, ScrapeMayLock,
               locks' = locks + k, session' = {}, UNCHANGED committed,
               run' = [run EXCEPT !.at = IF k < 3 THEN next
                                         ELSE IF from = "record" THEN "failed" ELSE "error"]
        PROVE  ScrapeRunOK'
    <2>1. PICK to \in ScrapePhases \ {"idle"} :
             /\ to \in {next, "failed", "error"}
             /\ run' = [run EXCEPT !.at = to]
      <3>1. CASE k < 3
        BY <1>2, <1>4, <3>1
      <3>2. CASE k >= 3 /\ from = "record"
        BY <1>4, <3>2 DEF ScrapePhases
      <3>3. CASE k >= 3 /\ from # "record"
        BY <1>4, <3>3 DEF ScrapePhases
      <3> QED  BY <3>1, <3>2, <3>3
    <2>2. /\ run' = [source |-> run.source, at |-> to, tries |-> run.tries]
          /\ run' \in [source : ScrapeSources \cup {NoSource}, at : ScrapePhases, tries : 0 .. 3]
          /\ run'.source = NoSource <=> run'.at = "idle"
      BY <1>2, <1>4, <2>1, PhaseStep
    <2>3. locks' > 0 /\ from # "apply"
      BY <1>1, <1>4 DEF ScrapeRestOK, ScrapeRunOK, ScrapeMayLock
    <2> QED  BY <1>1, <1>4, <2>1, <2>2, <2>3
             DEF ScrapeRunOK, ScrapeDoneIsSaved, ScrapeTokensPersisted
  <1> QED  BY <1>1, <1>3, <1>4 DEF ScrapePersist

\* The phases that only the job sees
LEMMA PhasesKeep ==
  ASSUME ScrapeRunOK,
         ScrapeBootstrap \/ ScrapeFetch \/ ScrapeUpsert \/ ScrapeMark \/ ScrapeSave \/ ScrapeRollBack
  PROVE  ScrapeRunOK'
  <1>1. PICK from \in ScrapePhases \ {"idle"}, to \in ScrapePhases \ {"idle"} :
           /\ run.at = from /\ run' = [run EXCEPT !.at = to] /\ locks' = locks
           /\ \/ /\ from = "bootstrap" /\ to = "tokens" /\ UNCHANGED committed
                 /\ session' = IF run.source \in Rotating THEN {"config"} ELSE {}
              \/ from = "fetch" /\ to = "upsert" /\ UNCHANGED <<session, committed>>
              \/ /\ from = "upsert" /\ to \in {"apply", "mark"} /\ UNCHANGED committed
                 /\ session' = {"data"} \cup IF run.source \in Rotating THEN {"config"} ELSE {}
              \/ /\ from = "mark" /\ to = "commit" /\ UNCHANGED committed
                 /\ session' = session \cup {"mark"}
              \/ /\ from = "commit" /\ to = "announce"
                 /\ session' = {} /\ committed' = committed \cup session
              \/ /\ from = "error" /\ to = "record" /\ UNCHANGED committed
                 /\ session' = IF run.source \in Rotating THEN {"config"} ELSE {}
    BY DEF ScrapeBootstrap, ScrapeFetch, ScrapeUpsert, ScrapeMark, ScrapeSave, ScrapeRollBack,
           ScrapeOwn, ScrapeCommitted, scrapeBounds, ScrapePhases
  <1>2. /\ run' = [source |-> run.source, at |-> to, tries |-> run.tries]
        /\ run' \in [source : ScrapeSources \cup {NoSource}, at : ScrapePhases, tries : 0 .. 3]
        /\ run'.source = NoSource <=> run'.at = "idle"
    BY <1>1, PhaseStep
  <1>3. session' \subseteq {"config", "data", "mark"} /\ committed' \subseteq {"config", "data", "mark"}
    BY <1>1 DEF ScrapeRunOK
  <1>4. CASE from = "bootstrap"
    BY <1>1, <1>2, <1>3, <1>4 DEF ScrapeRunOK, ScrapeDoneIsSaved, ScrapeTokensPersisted
  <1>5. CASE from = "fetch"
    BY <1>1, <1>2, <1>3, <1>5 DEF ScrapeRunOK, ScrapeDoneIsSaved, ScrapeTokensPersisted
  <1>6. CASE from = "upsert"
    BY <1>1, <1>2, <1>3, <1>6 DEF ScrapeRunOK, ScrapeDoneIsSaved, ScrapeTokensPersisted
  <1>7. CASE from = "mark"
    BY <1>1, <1>2, <1>3, <1>7 DEF ScrapeRunOK, ScrapeDoneIsSaved, ScrapeTokensPersisted
  <1>8. CASE from = "commit"
    BY <1>1, <1>2, <1>3, <1>8 DEF ScrapeRunOK, ScrapeDoneIsSaved, ScrapeTokensPersisted
  <1>9. CASE from = "error"
    BY <1>1, <1>2, <1>3, <1>9 DEF ScrapeRunOK, ScrapeDoneIsSaved, ScrapeTokensPersisted
  <1> QED  BY <1>1, <1>4, <1>5, <1>6, <1>7, <1>8, <1>9

\* The job, step by step
LEMMA RunStep ==
  ASSUME ScrapeIInv, [ScrapeNext]_scrapeJobVars
  PROVE  ScrapeRunOK'
  <1> USE DEF ScrapeIInv
  <1>1. CASE ScrapeScheduler
    <2>1. UNCHANGED <<run, session, committed, locks>>
      BY <1>1 DEF ScrapeScheduler, ScrapeTick, ScrapeLook, ScrapeSchedule, scrapeBounds
    <2> QED  BY <2>1, RunKept
  <1>2. CASE ScrapeStart
    <2>1. /\ Head(waiting) \in ScrapeSources
          /\ run' = [source |-> Head(waiting), at |-> "bootstrap", tries |-> 0]
          /\ session' = {} /\ committed' = {}
      BY <1>2, WorkerTakes DEF ScrapeStart
    <2> QED  BY <2>1, ScrapeAssumption
             DEF ScrapeRunOK, ScrapePhases, ScrapeDoneIsSaved, ScrapeTokensPersisted
  <1>3. CASE ScrapeJob
    <2>1. CASE ScrapeAnnounce \/ ScrapeEnd
      BY <2>1, RunIdle DEF ScrapeAnnounce, ScrapeEnd, ScrapeOver
    <2> QED  BY <1>3, <2>1, PhasesKeep, PersistKeeps DEF ScrapeJob
  <1>4. CASE ScrapeSaveLocked
    <2>1. /\ run.at \in {"upsert", "commit"} /\ session' = {} /\ UNCHANGED committed
          /\ run' = [source |-> run.source, tries |-> run.tries + 1,
                     at |-> IF run.tries = 2 THEN "error" ELSE "upsert"]
      BY <1>4 DEF ScrapeSaveLocked
    <2>2. run.source \in ScrapeSources /\ run.tries \in 0 .. 2
      BY <2>1 DEF ScrapeRunOK
    <2>3. /\ run'.source = run.source /\ run'.tries = run.tries + 1
          /\ run'.at \in {"error", "upsert"} /\ (run'.at = "upsert" => run.tries # 2)
          /\ run' \in [source : ScrapeSources \cup {NoSource}, at : ScrapePhases, tries : 0 .. 3]
      <3>1. CASE run.tries = 2
        BY <2>1, <2>2, <3>1 DEF ScrapePhases
      <3>2. CASE run.tries # 2
        BY <2>1, <2>2, <3>2 DEF ScrapePhases
      <3> QED  BY <3>1, <3>2
    <2> QED  BY <2>1, <2>2, <2>3, ScrapeAssumption
             DEF ScrapeRunOK, ScrapeDoneIsSaved, ScrapeTokensPersisted
  <1>5. CASE ScrapeFails
    <2>1. /\ run.at \in {"bootstrap", "fetch", "upsert", "announce"}
          /\ run' = [run EXCEPT !.at = "error"] /\ UNCHANGED <<session, committed>>
      BY <1>5 DEF ScrapeFails
    <2>2. /\ run' = [source |-> run.source, at |-> "error", tries |-> run.tries]
          /\ run' \in [source : ScrapeSources \cup {NoSource}, at : ScrapePhases, tries : 0 .. 3]
          /\ run'.source = NoSource <=> run'.at = "idle"
      BY <2>1, PhaseStep DEF ScrapePhases
    <2> QED  BY <2>1, <2>2 DEF ScrapeRunOK, ScrapeDoneIsSaved, ScrapeTokensPersisted
  <1>6. CASE ScrapeKillHorse \/ ScrapeKillWorker
    BY <1>6, RunIdle DEF ScrapeKillHorse, ScrapeKillWorker, ScrapeOver
  <1>7. CASE \/ ScrapeKillScheduler
             \/ \E a \in Askers : ScrapeTrigger(a) \/ \E s \in ScrapeSources : ScrapeAsk(a, s)
             \/ \E s \in ScrapeSources : ScrapeDue(s) \/ ScrapeForget(s)
             \/ UNCHANGED scrapeJobVars
    <2>1. UNCHANGED <<run, session, committed, locks>>
      BY <1>7 DEF ScrapeKillScheduler, ScrapeTrigger, ScrapeAsk, ScrapeDue, ScrapeForget,
                  scrapeJobVars, scrapeBounds
    <2> QED  BY <2>1, RunKept
  <1> QED  BY <1>1, <1>2, <1>3, <1>4, <1>5, <1>6, <1>7 DEF ScrapeNext

-----------------------------------------------------------------------------
\* What is recent, what is not published, and the bounds
LEMMA RestStep ==
  ASSUME ScrapeIInv, [ScrapeNext]_scrapeJobVars
  PROVE  ScrapeRestOK'
  <1> USE DEF ScrapeIInv
  <1>1. ASSUME ScrapeCommitted, run.at # "idle", UNCHANGED scrapeBounds  PROVE ScrapeRestOK'
    <2>1. run.source \in ScrapeSources
      BY <1>1 DEF ScrapeRunOK
    <2>2. recent' \subseteq ScrapeSources /\ unpublished' \subseteq ScrapeSources
      BY <1>1, <2>1 DEF ScrapeCommitted, ScrapeRestOK
    <2> QED  BY <1>1, <2>2 DEF ScrapeRestOK, scrapeBounds
  <1>2. ASSUME NEW from \in {"tokens", "apply", "record"}, NEW to, ScrapePersist(from, to)
        PROVE  ScrapeRestOK'
    <2>1. CASE ScrapeOwn(from, to) /\ ScrapeCommitted
      BY <1>1, <2>1 DEF ScrapeOwn
    <2>2. ASSUME NEW k \in 1 .. 3, locks + k <= MaxScrapeLocks, locks' = locks + k,
                 UNCHANGED <<recent, scrapeQueue, committed, unpublished, crashes, failures>>
          PROVE  ScrapeRestOK'
      BY <2>2, ScrapeAssumption DEF ScrapeRestOK
    <2> QED  BY <1>2, <2>1, <2>2 DEF ScrapePersist
  <1>3. CASE ScrapeTokens \/ ScrapeApply \/ ScrapeRecord
    BY <1>2, <1>3 DEF ScrapeTokens, ScrapeApply, ScrapeRecord
  <1>4. CASE ScrapeSave
    BY <1>1, <1>4 DEF ScrapeSave, ScrapeOwn
  <1>5. CASE ScrapeAnnounce
    BY <1>5 DEF ScrapeAnnounce, ScrapeRestOK, scrapeBounds
  <1>6. CASE ScrapeSaveLocked \/ ScrapeFails
    BY <1>6, ScrapeAssumption DEF ScrapeSaveLocked, ScrapeFails, ScrapeRestOK
  <1>7. CASE ScrapeKillHorse \/ ScrapeKillWorker \/ ScrapeKillScheduler
    BY <1>7, ScrapeAssumption
       DEF ScrapeKillHorse, ScrapeKillWorker, ScrapeKillScheduler, ScrapeCrash, ScrapeRestOK
  <1>8. ASSUME NEW s \in ScrapeSources, ScrapeDue(s)  PROVE ScrapeRestOK'
    BY <1>8 DEF ScrapeDue, ScrapeRestOK, scrapeBounds
  <1>9. CASE \/ ScrapeScheduler \/ ScrapeStart
             \/ ScrapeBootstrap \/ ScrapeFetch \/ ScrapeUpsert \/ ScrapeMark \/ ScrapeRollBack \/ ScrapeEnd
             \/ \E a \in Askers : ScrapeTrigger(a) \/ \E s \in ScrapeSources : ScrapeAsk(a, s)
             \/ \E s \in ScrapeSources : ScrapeForget(s)
             \/ UNCHANGED scrapeJobVars
    <2>1. UNCHANGED <<recent, unpublished, scrapeBounds>>
      BY <1>9 DEF ScrapeScheduler, ScrapeTick, ScrapeLook, ScrapeSchedule, ScrapeStart, ScrapeBootstrap,
                  ScrapeFetch, ScrapeUpsert, ScrapeMark, ScrapeRollBack, ScrapeEnd, ScrapeOwn,
                  ScrapeTrigger, ScrapeAsk, ScrapeForget, scrapeJobVars
    <2> QED  BY <2>1 DEF ScrapeRestOK, scrapeBounds
  <1> QED  BY <1>3, <1>4, <1>5, <1>6, <1>7, <1>8, <1>9 DEF ScrapeNext, ScrapeJob

\* At the start nothing is queued and nothing runs.
LEMMA ScrapeStarts == ScrapeInit => ScrapeIInv
  <1> SUFFICES ASSUME ScrapeInit  PROVE ScrapeIInv
    OBVIOUS
  <1>1. ScrapeRunOK
    BY ScrapeAssumption
       DEF ScrapeInit, ScrapeIdle, ScrapeRunOK, ScrapePhases, ScrapeDoneIsSaved, ScrapeTokensPersisted
  <1>2. ScrapeRestOK
    BY ScrapeAssumption DEF ScrapeInit, ScrapeRestOK
  <1>3. ASSUME NEW s \in ScrapeSources  PROVE Pending(s) <= 1 + Cardinality(Askers)
    <2>1. ScrapePlaces(s) = {} /\ AskersOf(s) = {}
      BY ScrapeAssumption DEF ScrapeInit, ScrapePlaces, AskersOf
    <2>2. round.found # s
      BY ScrapeAssumption DEF ScrapeInit, ScrapeNoRound
    <2> QED  BY <2>1, <2>2, ScrapeAssumption, FS_EmptySet, FS_CardinalityType DEF Pending
  <1>4. ScrapeQueueOK
    BY <1>3, ScrapeAssumption DEF ScrapeInit, ScrapeNoRound, ScrapeQueueOK
  <1> QED  BY <1>1, <1>2, <1>4 DEF ScrapeIInv

\* The invariant that the run checks follows from the inductive one.
LEMMA ScrapeImplied == ScrapeIInv => ScrapeInv
  <1> SUFFICES ASSUME ScrapeIInv  PROVE ScrapeInv
    OBVIOUS
  <1>1. ScrapeTypeOK
    BY DEF ScrapeIInv, ScrapeQueueOK, ScrapeRunOK, ScrapeRestOK, ScrapeTypeOK
  <1>2. ASSUME NEW s \in ScrapeSources
        PROVE  Cardinality(ScrapePlaces(s)) <= 1 + Cardinality(Askers)
    <2>1. Pending(s) <= 1 + Cardinality(Askers)
      BY DEF ScrapeIInv, ScrapeQueueOK
    <2> QED  BY <2>1, PendingFinite DEF ScrapeIInv, Pending
  <1> QED  BY <1>1, <1>2 DEF ScrapeIInv, ScrapeRunOK, ScrapeInv, ScrapeNoFlood

\* A source is in the queue at most once, and once more for each request between
\* looking and enqueueing; a scrape is marked as done only with its data in the
\* database; new tokens are in the database before channels are fetched, unless
\* a commit found the database locked: run_scraper(), _schedule_due_scrapes()
\* and trigger_scrape(), for any number of sources, requests and failures.
THEOREM ScrapeInvariant == ScrapeSpec => []ScrapeInv
  <1>1. ScrapeIInv /\ [ScrapeNext]_scrapeJobVars => ScrapeIInv'
    BY QueueStep, RunStep, RestStep DEF ScrapeIInv
  <1> QED  BY <1>1, ScrapeStarts, ScrapeImplied, PTL DEF ScrapeSpec

------------------------------------------------------------------------------
(* The programme guide (ProgramGuide) *)

\* Rows, and what a scrape has fetched
GuideRows == [slot : Programmes, batch : 0 .. 1]

\* The inductive invariant: what was fetched does not overlap either.
GuideIInv ==
    /\ guideNow \in 0 .. LastTime
    /\ guide \subseteq GuideRows
    /\ listing \subseteq Programmes
    /\ \A p, q \in listing : p # q => ~Overlap(p, q)
    /\ upserts \in 0 .. 1
    /\ GuideOneAtATime

-----------------------------------------------------------------------------
\* Programmes begin before they end.
LEMMA ProgrammeTimes ==
  \A p \in Programmes : p.from \in 0 .. LastTime /\ p.to \in 0 .. LastTime /\ p.from < p.to
  BY DEF Programmes, Slots

\* The least and the greatest of some times
LEMMA TimesBounded ==
  ASSUME NEW S \in SUBSET (0 .. LastTime), S # {}
  PROVE  /\ Min(S) \in S /\ \A n \in S : Min(S) <= n
         /\ Max(S) \in S /\ \A n \in S : Max(S) >= n
  <1>1. LastTime \in Nat /\ S \subseteq Nat
    BY GuideAssumption
  <1>2. \E m \in S : \A n \in S : m <= n
    <2>1. PICK m \in S : \A n \in S : ~(<<n, m>> \in OpToRel(<, Nat))
      BY <1>1, WFMin, NatLessThanWellFounded
    <2>2. \A n \in S : ~(n < m)
      BY <1>1, <2>1 DEF OpToRel
    <2> QED  BY <1>1, <2>2
  <1>3. \E m \in S : \A n \in S : m >= n
    <2> DEFINE T == {LastTime - n : n \in S}
    <2>1. T \subseteq Nat /\ T # {}
      <3>1. \A n \in S : LastTime - n \in Nat
        BY <1>1
      <3> QED  BY <3>1
    <2>2. PICK l \in T : \A k \in T : ~(<<k, l>> \in OpToRel(<, Nat))
      BY <2>1, WFMin, NatLessThanWellFounded
    <2>3. PICK m \in S : l = LastTime - m
      BY <2>2
    <2>4. ASSUME NEW n \in S  PROVE m >= n
      <3>1. LastTime - n \in T /\ LastTime - n \in Nat /\ l \in Nat
        BY <2>1, <2>2
      <3>2. ~(LastTime - n < l)
        BY <2>2, <3>1 DEF OpToRel
      <3> QED  BY <1>1, <2>3, <3>2
    <2> QED  BY <2>4
  <1> QED  BY <1>2, <1>3 DEF Min, Max

\* The window of an upsert holds all that was fetched.
LEMMA WindowHolds ==
  ASSUME GuideIInv, listing # {}
  PROVE  /\ \A p \in listing : GuideWindow.from <= p.from /\ p.to <= GuideWindow.to
         /\ \E p \in listing : p.from = GuideWindow.from
         /\ \E p \in listing : p.to = GuideWindow.to
  <1>1. /\ {p.from : p \in listing} \in SUBSET (0 .. LastTime) /\ {p.from : p \in listing} # {}
        /\ {p.to : p \in listing} \in SUBSET (0 .. LastTime) /\ {p.to : p \in listing} # {}
    BY ProgrammeTimes DEF GuideIInv
  <1>2. /\ Min({p.from : p \in listing}) \in {p.from : p \in listing}
        /\ \A n \in {p.from : p \in listing} : Min({p.from : p \in listing}) <= n
    BY <1>1, TimesBounded
  <1>3. /\ Max({p.to : p \in listing}) \in {p.to : p \in listing}
        /\ \A n \in {p.to : p \in listing} : Max({p.to : p \in listing}) >= n
    BY <1>1, TimesBounded
  <1>4. /\ GuideWindow.from = Min({p.from : p \in listing})
        /\ GuideWindow.to = Max({p.to : p \in listing})
    BY DEF GuideWindow
  <1>5. \A p \in listing : p.to \in Int
    BY ProgrammeTimes DEF GuideIInv
  <1> QED  BY <1>2, <1>3, <1>4, <1>5

\* What an upsert leaves does not overlap what it puts in, unless all of that
\* has ended.
LEMMA UpsertKeeps ==
  ASSUME GuideIInv, GuideUpsert
  PROVE  GuideIInv'
  <1>1. /\ guide' = (guide \ GuideReplaced) \cup {[slot |-> p, batch |-> upserts] : p \in listing}
        /\ listing # {} /\ listing' = {} /\ upserts' = 1 - upserts /\ guideNow' = guideNow
    BY DEF GuideUpsert
  <1>2. guide' \subseteq GuideRows /\ upserts' \in 0 .. 1
    BY <1>1 DEF GuideIInv, GuideRows
  <1>3. \A p : GuideEnded(p)' = GuideEnded(p)
    BY <1>1 DEF GuideEnded
  <1>4. ASSUME NEW q \in guide \ GuideReplaced, NEW p \in listing, Overlap(q.slot, p)
        PROVE  GuideEnded(p)
    <2>1. CASE \A l \in listing : GuideEnded(l)
      BY <2>1
    <2>2. CASE ~\A l \in listing : GuideEnded(l)
      <3>1. ~Overlap(q.slot, GuideWindow)
        BY <1>4, <2>2 DEF GuideReplaced
      <3>2. /\ q.slot.from \in Int /\ q.slot.to \in Int /\ p.from \in Int /\ p.to \in Int
            /\ GuideWindow.from \in Int /\ GuideWindow.to \in Int
            /\ GuideWindow.from <= p.from /\ p.to <= GuideWindow.to
        BY <1>1, ProgrammeTimes, WindowHolds DEF GuideIInv, GuideRows
      <3> QED  BY <1>4, <3>1, <3>2 DEF Overlap
    <2> QED  BY <2>1, <2>2
  <1>5. \A p, q : Overlap(p, q) <=> Overlap(q, p)
    BY DEF Overlap
  <1>6. ASSUME NEW q \in guide', NEW r \in guide', q # r, Overlap(q.slot, r.slot)
        PROVE  GuideEnded(q.slot) \/ GuideEnded(r.slot)
    <2>1. CASE q \in guide /\ r \in guide
      BY <1>6, <2>1 DEF GuideIInv, GuideOneAtATime
    <2>2. CASE q \notin guide /\ r \notin guide
      <3>1. /\ q.slot \in listing /\ r.slot \in listing
            /\ q = [slot |-> q.slot, batch |-> upserts] /\ r = [slot |-> r.slot, batch |-> upserts]
        BY <1>1, <1>6, <2>2
      <3>2. q.slot # r.slot
        BY <1>6, <3>1
      <3> QED  BY <1>6, <3>1, <3>2 DEF GuideIInv
    <2>3. CASE q \in guide /\ r \notin guide
      <3>1. r.slot \in listing
        BY <1>1, <1>6, <2>3
      <3>2. CASE q \in guide \ GuideReplaced
        BY <1>4, <1>6, <3>1, <3>2
      <3>3. CASE q \in GuideReplaced
        <4>1. q.slot \in listing /\ q = [slot |-> q.slot, batch |-> upserts]
          BY <1>1, <1>6, <3>3
        <4>2. r = [slot |-> r.slot, batch |-> upserts]
          BY <1>1, <1>6, <2>3
        <4>3. q.slot # r.slot
          BY <1>6, <4>1, <4>2
        <4> QED  BY <1>6, <3>1, <4>1, <4>3 DEF GuideIInv
      <3> QED  BY <2>3, <3>2, <3>3
    <2>4. CASE q \notin guide /\ r \in guide
      <3>1. q.slot \in listing
        BY <1>1, <1>6, <2>4
      <3>2. CASE r \in guide \ GuideReplaced
        BY <1>4, <1>5, <1>6, <3>1, <3>2
      <3>3. CASE r \in GuideReplaced
        <4>1. r.slot \in listing /\ r = [slot |-> r.slot, batch |-> upserts]
          BY <1>1, <1>6, <3>3
        <4>2. q = [slot |-> q.slot, batch |-> upserts]
          BY <1>1, <1>6, <2>4
        <4>3. q.slot # r.slot
          BY <1>6, <4>1, <4>2
        <4> QED  BY <1>6, <3>1, <4>1, <4>3 DEF GuideIInv
      <3> QED  BY <2>4, <3>2, <3>3
    <2> QED  BY <2>1, <2>2, <2>3, <2>4
  <1>7. GuideOneAtATime'
    BY <1>3, <1>6 DEF GuideOneAtATime, Overlap
  <1> QED  BY <1>1, <1>2, <1>7 DEF GuideIInv

\* Time passes: what has ended stays so.
LEMMA TickKeeps ==
  ASSUME GuideIInv, GuideTick
  PROVE  GuideIInv'
  <1>1. guideNow' = guideNow + 1 /\ guideNow' \in 0 .. LastTime /\ UNCHANGED <<guide, listing, upserts>>
    BY GuideAssumption DEF GuideTick, GuideIInv
  <1>2. ASSUME NEW r \in guide, GuideEnded(r.slot)  PROVE GuideEnded(r.slot)'
    BY <1>1, <1>2, ProgrammeTimes, GuideAssumption DEF GuideEnded, GuideIInv, GuideRows
  <1> QED  BY <1>1, <1>2 DEF GuideIInv, GuideOneAtATime, Overlap

\* What a provider lists does not overlap.
LEMMA FetchKeeps ==
  ASSUME GuideIInv, GuideFetch
  PROVE  GuideIInv'
  <1>1. listing' \in Listings(guideNow) /\ UNCHANGED <<guideNow, guide, upserts>>
    BY DEF GuideFetch
  <1>2. listing' \subseteq Programmes /\ \A p, q \in listing' : p # q => ~Overlap(p, q)
    BY <1>1 DEF Listings, kSubset
  <1> QED  BY <1>1, <1>2 DEF GuideIInv, GuideOneAtATime, GuideEnded

\* Every step keeps the invariant.
LEMMA GuideStep == GuideIInv /\ [GuideNext]_guideVars => GuideIInv'
  <1> SUFFICES ASSUME GuideIInv, [GuideNext]_guideVars  PROVE GuideIInv'
    OBVIOUS
  <1>1. CASE GuidePrune
    BY <1>1 DEF GuidePrune, GuideIInv, GuideOneAtATime, GuideEnded
  <1>2. CASE UNCHANGED guideVars
    BY <1>2 DEF guideVars, GuideIInv, GuideOneAtATime, GuideEnded
  <1> QED  BY <1>1, <1>2, TickKeeps, FetchKeeps, UpsertKeeps DEF GuideNext

\* At the start there is nothing in the guide.
LEMMA GuideStart == GuideInit => GuideIInv
  BY GuideAssumption DEF GuideInit, GuideIInv, GuideOneAtATime

\* Rows of a channel do not overlap, except for what is about to be pruned:
\* _upsert_programs() and _prune_old_programs(), whatever the provider lists and
\* however much time passes between fetch and upsert.
THEOREM GuideInvariant == GuideSpec => []GuideInv
  <1>1. GuideIInv => GuideInv
    BY DEF GuideIInv, GuideRows, GuideInv, GuideTypeOK
  <1> QED  BY <1>1, GuideStart, GuideStep, PTL DEF GuideSpec

\* An upsert takes away only what its batch replaces, and the hourly prune only
\* what has ended: the horizon that earlier scrapes have built up stays.
THEOREM HorizonStays == GuideSpec => GuideHorizonStays
  <1> DEFINE Kept == \A r \in guide \ guide' :
                        \/ GuideEnded(r.slot)
                        \/ \E p \in listing : p.from < r.slot.to /\ \E q \in listing : r.slot.from < q.to
  <1>1. GuideIInv /\ [GuideNext]_guideVars => [Kept]_guideVars
    <2> SUFFICES ASSUME GuideIInv, GuideNext  PROVE Kept
      OBVIOUS
    <2>1. CASE GuideTick \/ GuideFetch
      BY <2>1 DEF GuideTick, GuideFetch
    <2>2. CASE GuidePrune
      <3> SUFFICES ASSUME NEW r \in guide \ guide'  PROVE GuideEnded(r.slot)
        OBVIOUS
      <3>1. ~(r.slot.to + Grace >= guideNow)
        BY <2>2 DEF GuidePrune
      <3> QED  BY <3>1, ProgrammeTimes, GuideAssumption DEF GuideEnded, GuideIInv, GuideRows
    <2>3. CASE GuideUpsert
      <3> SUFFICES ASSUME NEW r \in guide \ guide'
                   PROVE  \E p \in listing : p.from < r.slot.to /\ \E q \in listing : r.slot.from < q.to
        OBVIOUS
      <3>1. r \in GuideReplaced /\ listing # {}
        BY <2>3 DEF GuideUpsert
      <3>2. Overlap(r.slot, GuideWindow)
        BY <3>1 DEF GuideReplaced
      <3> QED  BY <3>1, <3>2, WindowHolds DEF Overlap
    <2> QED  BY <2>1, <2>2, <2>3 DEF GuideNext
  <1>2. GuideSpec => [][Kept]_guideVars
    BY <1>1, GuideStart, GuideStep, PTL DEF GuideSpec
  <1> QED  BY <1>2 DEF GuideHorizonStays

------------------------------------------------------------------------------
(* Channel numbers (ChannelNumbers) *)

\* A set of numbers has a least one.
LEMMA LeastNumber ==
  ASSUME NEW T \in SUBSET Nat, T # {}
  PROVE  \E m \in T : \A k \in T : m <= k
  <1>1. PICK m \in T : \A k \in T : ~(<<k, m>> \in OpToRel(<, Nat))
    BY WFMin, NatLessThanWellFounded
  <1>2. \A k \in T : ~(k < m)
    BY <1>1 DEF OpToRel
  <1> QED  BY <1>2

\* Numbers that are finitely many have a greatest one.
LEMMA GreatestNumber ==
  ASSUME NEW T \in SUBSET Nat, T # {}, IsFiniteSet(T)
  PROVE  Max(T) \in T /\ \A k \in T : k <= Max(T)
  <1> DEFINE Topped(U) == \E m \in U : \A k \in U : k <= m
             Bad == {U \in SUBSET T : U # {} /\ ~Topped(U)}
             sizes == {Cardinality(U) : U \in Bad}
  <1>1. \A U \in SUBSET T : IsFiniteSet(U) /\ Cardinality(U) \in Nat
    BY FS_Subset, FS_CardinalityType
  <1>2. Bad = {}
    <2>1. SUFFICES ASSUME Bad # {}  PROVE FALSE
      OBVIOUS
    <2>2. sizes \in SUBSET Nat /\ sizes # {}
      BY <1>1, <2>1
    <2>3. PICK U \in Bad : \A W \in Bad : Cardinality(U) <= Cardinality(W)
      <3> HIDE DEF Bad
      <3>1. PICK m \in sizes : \A k \in sizes : m <= k
        BY <2>2, LeastNumber
      <3> QED  BY <3>1
    <2>4. PICK x \in U : TRUE
      BY <2>3
    <2>5. Cardinality(U \ {x}) < Cardinality(U)
      BY <1>1, <2>3, <2>4, FS_RemoveElement
    <2>6. U \ {x} \notin Bad /\ U \ {x} \in SUBSET T
      <3>1. U \ {x} \in SUBSET T /\ U \in SUBSET T
        BY <2>3
      <3>2. ~(Cardinality(U) <= Cardinality(U \ {x}))
        BY <1>1, <2>5, <3>1
      <3> HIDE DEF Bad
      <3> QED  BY <2>3, <3>1, <3>2
    <2>7. U \ {x} = {} \/ Topped(U \ {x})
      BY <2>6
    <2>8. Topped(U)
      <3>1. U \subseteq Nat /\ x \in Nat
        BY <2>3, <2>4
      <3> QED  BY <2>7, <2>4, <3>1
    <2> QED  BY <2>8, <2>3
  <1>3. Topped(T)
    BY <1>2
  <1> QED  BY <1>3 DEF Max

\* The order of numbers and names is strict and total.
LEMMA BeforeOrders ==
  ASSUME NEW A \in SUBSET Nat, NEW n \in [A -> Nat], NEW a \in A, NEW b \in A, NEW c \in A
  PROVE  /\ ~Before(n, a, a)
         /\ a # b => Before(n, a, b) \/ Before(n, b, a)
         /\ ~(Before(n, a, b) /\ Before(n, b, a))
         /\ Before(n, a, b) /\ Before(n, b, c) => Before(n, a, c)
  BY DEF Before

\* A function with a finite domain has finitely many values.
LEMMA FiniteRange ==
  ASSUME NEW S, IsFiniteSet(S), NEW f, f = [x \in S |-> f[x]]
  PROVE  IsFiniteSet(Range(f))
  <1>1. f \in Surjection(S, Range(f))
    BY DEF Surjection, Range
  <1> QED  BY <1>1, FS_Surjection

-----------------------------------------------------------------------------
\* There are numbers enough in the range FreeNumber looks at: the first m - first + 1
\* numbers of a block have one more that is free with every m that is not taken.
LEMMA FreeNumberIs ==
  ASSUME NEW first \in Nat, NEW taken, IsFiniteSet(taken), NEW k \in Nat, k > 0,
         NEW f, f = FreeNumber(first, taken, k)
  PROVE  f \in Nat /\ f >= first /\ f \notin taken
         /\ Cardinality((first .. f) \ taken) = k
  <1> DEFINE free(m) == (first .. m) \ taken
             size == Cardinality(taken)
             top == first + size + k
             Enough == {m \in first .. top : Cardinality(free(m)) >= k}
  <1>1. size \in Nat /\ top \in Nat
    BY FS_CardinalityType
  <1>2. ASSUME NEW m \in Int
        PROVE  IsFiniteSet(free(m)) /\ Cardinality(free(m)) \in Nat
    <2>1. IsFiniteSet(first .. m)
      BY <1>2, FS_Interval
    <2> QED  BY <2>1, FS_Difference, FS_CardinalityType
  <1>3. Cardinality(free(top)) >= k
    <2>1. IsFiniteSet(first .. top) /\ Cardinality(first .. top) = size + k + 1
      <3> HIDE DEF size
      <3>1. first \in Int /\ top \in Int /\ ~(first > top) /\ top - first + 1 = size + k + 1
        BY <1>1
      <3> HIDE DEF top
      <3> QED  BY <3>1, FS_Interval
    <2>2. Cardinality(free(top)) =
              Cardinality(first .. top) - Cardinality((first .. top) \cap taken)
      BY <2>1, FS_Difference
    <2>3. /\ Cardinality((first .. top) \cap taken) \in Nat
          /\ Cardinality((first .. top) \cap taken) <= size
      BY FS_Intersection, FS_CardinalityType
    <2> DEFINE both == Cardinality((first .. top) \cap taken)  all == Cardinality(first .. top)
               left == Cardinality(free(top))
    <2> HIDE DEF size, both, all, left
    <2> QED
      <3>1. both \in Nat /\ both <= size /\ all = size + k + 1 /\ left = all - both
        BY <2>1, <2>2, <2>3 DEF both, all, left
      <3>2. left >= k
        BY <3>1, <1>1
      <3> QED  BY <3>2 DEF left
  <1>4. PICK m \in Enough : \A i \in Enough : m <= i
    <2>1. top \in Enough
      BY <1>1, <1>3
    <2>2. Enough \in SUBSET Nat
      BY <1>1
    <2> HIDE DEF Enough
    <2> QED  BY <2>1, <2>2, LeastNumber
  <1>5. m \in Nat /\ m >= first /\ m <= top /\ Cardinality(free(m)) >= k
    BY <1>4, <1>1
  <1> DEFINE before == Cardinality(free(m - 1))  upto == Cardinality(free(m))
  <1>6. /\ IsFiniteSet(free(m - 1)) /\ before \in Nat /\ upto \in Nat
        /\ upto >= k
    <2>1. m - 1 \in Int /\ m \in Int
      BY <1>5
    <2> HIDE DEF free
    <2> QED  BY <1>2, <1>5, <2>1
  <1>7. before < k
    <2>1. CASE m = first
      <3>1. free(m - 1) = {}
        BY <2>1, <1>5
      <3> QED  BY <3>1, FS_EmptySet
    <2>2. CASE m > first
      <3>1. m - 1 \in first .. top /\ m - 1 \notin Enough
        BY <2>2, <1>1, <1>5, <1>4
      <3>2. ~(Cardinality(free(m - 1)) >= k)
        BY <3>1
      <3> HIDE DEF free
      <3> QED  BY <3>2, <1>6
    <2> QED  BY <2>1, <2>2, <1>5
  <1>8. m \notin taken
    <2>1. SUFFICES ASSUME m \in taken  PROVE FALSE
      OBVIOUS
    <2>2. free(m) = free(m - 1)
      BY <2>1, <1>5
    <2>3. upto = before
      BY <2>2
    <2> HIDE DEF before, upto
    <2> QED  BY <2>3, <1>6, <1>7
  <1>9. upto = k
    <2>1. free(m) = free(m - 1) \cup {m}
      BY <1>5, <1>8
    <2>2. upto <= before + 1
      <3> HIDE DEF free
      <3>1. upto = IF m \in free(m - 1) THEN before ELSE before + 1
        BY <2>1, <1>6, FS_AddElement
      <3> HIDE DEF before, upto
      <3> QED  BY <3>1, <1>6
    <2> HIDE DEF before, upto
    <2> QED  BY <2>2, <1>6, <1>7
  <1>10. \E i \in first .. first + Cardinality(taken) + k :
            i \notin taken /\ Cardinality((first .. i) \ taken) = k
    BY <1>1, <1>5, <1>8, <1>9
  <1>11. /\ f \in first .. top /\ f \notin taken
         /\ Cardinality((first .. f) \ taken) = k
    BY <1>10 DEF FreeNumber
  <1> QED  BY <1>11, <1>1

-----------------------------------------------------------------------------
\* What is given out to channels S: fixed ones get what they want, the others a number
\* of the block that is not used; and one of those shares its number only with a
\* fixed channel that comes after it.
StickyRules(S, n, first, used, wanted, fixed, r) ==
    /\ r \in [S -> Nat]
    /\ \A c \in S \cap fixed : r[c] = wanted[c]
    /\ \A c \in S \ fixed : r[c] >= first /\ r[c] \notin used
    /\ \A c \in S \ fixed : \A d \in S \ {c} :
           r[c] = r[d] => d \in fixed /\ r[c] = wanted[c] /\ Before(n, c, d)

\* These rules hold.
LEMMA StickyGives ==
  ASSUME NEW S \in SUBSET Numbered, NEW n \in [Numbered -> Nat], NEW first \in Nat,
         NEW used, IsFiniteSet(used), NEW wanted \in [Numbered -> Nat], NEW fixed,
         NEW r, r = Sticky(S, n, first, used, wanted, fixed)
  PROVE  StickyRules(S, n, first, used, wanted, fixed, r)
  <1> DEFINE kept == {c \in S : \/ c \in fixed
                                \/ /\ wanted[c] >= first /\ wanted[c] \notin used
                                   /\ \A d \in S : Before(n, d, c) => wanted[d] # wanted[c]}
             taken == used \cup {wanted[c] : c \in kept}
             earlier(c) == {d \in S \ kept : Before(n, d, c)}
             place(c) == Cardinality(earlier(c)) + 1
  <1>1. r = [c \in S |-> IF c \in kept THEN wanted[c] ELSE FreeNumber(first, taken, place(c))]
    BY DEF Sticky
  <1>2. IsFiniteSet(taken)
    <2>1. IsFiniteSet(Range(wanted))
      BY NumbersAssumption, FiniteRange
    <2>2. {wanted[c] : c \in kept} \in SUBSET Range(wanted)
      BY DEF Range
    <2>3. IsFiniteSet({wanted[c] : c \in kept})
      BY <2>1, <2>2, FS_Subset
    <2> QED  BY <2>3, FS_Union
  <1>3. \A c \in S : IsFiniteSet(earlier(c)) /\ place(c) \in Nat /\ place(c) > 0
    <2>1. TAKE c \in S
    <2>2. earlier(c) \in SUBSET Numbered
      OBVIOUS
    <2>3. IsFiniteSet(earlier(c)) /\ Cardinality(earlier(c)) \in Nat
      <3> HIDE DEF earlier
      <3> QED  BY <2>2, NumbersAssumption, FS_Subset, FS_CardinalityType
    <2> QED  BY <2>3
  <1> HIDE DEF taken, place
  <1>4. \A c \in S \ kept : /\ r[c] \in Nat /\ r[c] >= first /\ r[c] \notin taken
                            /\ Cardinality((first .. r[c]) \ taken) = place(c)
    <2>1. TAKE c \in S \ kept
    <2>2. r[c] = FreeNumber(first, taken, place(c))
      BY <1>1
    <2>3. place(c) \in Nat /\ place(c) > 0
      BY <1>3
    <2>4. \A f : f = FreeNumber(first, taken, place(c)) =>
              /\ f \in Nat /\ f >= first /\ f \notin taken
              /\ Cardinality((first .. f) \ taken) = place(c)
      <3> HIDE DEF kept
      <3> QED  BY <1>2, <2>3, FreeNumberIs
    <2> HIDE DEF kept
    <2> QED  BY <2>2, <2>4
  <1>5. \A c \in kept : r[c] = wanted[c] /\ r[c] \in taken /\ r[c] \in Nat
    BY <1>1 DEF taken
  <1>6. r \in [S -> Nat]
    BY <1>1, <1>4, <1>5
  <1>7. \A c, d \in S \ kept : c # d => r[c] # r[d]
    <2>1. SUFFICES ASSUME NEW c \in S \ kept, NEW d \in S \ kept, Before(n, c, d)
                   PROVE  place(c) < place(d)
      <3>1. \A c, d \in S \ kept : Before(n, c, d) => place(c) < place(d)
        BY <2>1
      <3>2. \A c, d \in S \ kept : Before(n, c, d) => r[c] # r[d]
        <4>1. SUFFICES ASSUME NEW c \in S \ kept, NEW d \in S \ kept,
                              Before(n, c, d), r[c] = r[d]
                       PROVE  FALSE
          OBVIOUS
        <4>2. place(c) = place(d)
          BY <4>1, <1>4
        <4>3. place(c) < place(d) /\ place(c) \in Nat
          BY <4>1, <3>1, <1>3
        <4> QED  BY <4>2, <4>3
      <3>3. \A c, d \in S \ kept : c # d => Before(n, c, d) \/ Before(n, d, c)
        BY NumbersAssumption, BeforeOrders
      <3> HIDE DEF kept
      <3> QED  BY <3>2, <3>3
    <2>2. earlier(c) \cup {c} \subseteq earlier(d) /\ c \notin earlier(c)
      <3>1. \A e \in S : Before(n, e, c) => Before(n, e, d)
        BY <2>1, NumbersAssumption, BeforeOrders
      <3>2. ~Before(n, c, c)
        BY <2>1, NumbersAssumption, BeforeOrders
      <3> HIDE DEF kept
      <3> QED  BY <2>1, <3>1, <3>2
    <2>3. /\ Cardinality(earlier(c) \cup {c}) = Cardinality(earlier(c)) + 1
          /\ Cardinality(earlier(c) \cup {c}) <= Cardinality(earlier(d))
      <3>1. IsFiniteSet(earlier(c)) /\ IsFiniteSet(earlier(d))
        BY <1>3
      <3> HIDE DEF earlier
      <3> QED  BY <3>1, <2>2, FS_AddElement, FS_Subset
    <2>4. Cardinality(earlier(c)) \in Nat /\ Cardinality(earlier(d)) \in Nat
      BY <1>3, FS_CardinalityType
    <2> QED  BY <2>3, <2>4 DEF place
  <1>8. ASSUME NEW c \in S \ fixed  PROVE r[c] >= first /\ r[c] \notin used
    BY <1>4, <1>5 DEF taken
  <1>9. ASSUME NEW c \in S \ fixed, NEW d \in S \ {c}, r[c] = r[d]
        PROVE  d \in fixed /\ r[c] = wanted[c] /\ Before(n, c, d)
    <2>1. c \in kept
      BY <1>9, <1>4, <1>5, <1>7
    <2>2. d \in kept
      BY <1>9, <2>1, <1>4, <1>5
    <2>3. wanted[c] = wanted[d] /\ r[c] = wanted[c]
      BY <1>9, <2>1, <2>2, <1>5
    <2>4. ~Before(n, d, c)
      BY <1>9, <2>1, <2>3
    <2>5. Before(n, c, d)
      BY <2>4, NumbersAssumption, BeforeOrders
    <2>6. d \in fixed
      BY <1>9, <2>2, <2>3, <2>5
    <2> QED  BY <2>3, <2>5, <2>6
  <1>10. \A c \in S \cap fixed : r[c] = wanted[c]
    BY <1>5
  <1> HIDE DEF kept
  <1> QED  BY <1>6, <1>8, <1>9, <1>10 DEF StickyRules

\* A channel that has a number of the block, which is not used, loses it only to one
\* that had the same number.
LEMMA StickyStays ==
  ASSUME NEW S \in SUBSET Numbered, NEW n \in [Numbered -> Nat], NEW first \in Nat,
         NEW used, NEW fixed,
         NEW r, r = Sticky(S, n, first, used, n, fixed),
         NEW c \in S, n[c] >= first, n[c] \notin used, r[c] # n[c]
  PROVE  \E d \in S \ {c} : n[d] = n[c] /\ r[d] = n[c]
  <1> DEFINE Kept(d) == \/ d \in fixed
                        \/ /\ n[d] >= first /\ n[d] \notin used
                           /\ \A e \in S : Before(n, e, d) => n[e] # n[d]
             T == {d \in S : n[d] = n[c]}
  <1>1. \A d \in S : Kept(d) => r[d] = n[d]
    BY DEF Sticky
  <1>2. PICK d \in T : \A e \in T : d <= e
    <2>1. T \in SUBSET Nat /\ T # {}
      BY NumbersAssumption
    <2> HIDE DEF T
    <2> QED  BY <2>1, LeastNumber
  <1>3. \A e \in S : Before(n, e, d) => n[e] # n[d]
    <2>1. SUFFICES ASSUME NEW e \in S, Before(n, e, d), n[e] = n[d]  PROVE FALSE
      OBVIOUS
    <2>2. e \in T /\ e < d /\ e \in Nat /\ d \in Nat
      BY <2>1, <1>2, NumbersAssumption DEF Before
    <2> QED  BY <2>2, <1>2
  <1>4. Kept(d)
    BY <1>2, <1>3
  <1>5. r[d] = n[d] /\ d \in S
    BY <1>1, <1>2, <1>4
  <1> QED  BY <1>2, <1>5

-----------------------------------------------------------------------------
\* The sources of channels S, and the channels of a source
SourcesOf(S) == {Provider[c] : c \in S}
ChannelsOf(S, s) == {c \in S : Provider[c] = s}

\* The channels that have a number before turn k
Served(S, starts, k) ==
    {c \in S : Turn(S, Provider[c], starts) < k /\ FirstNumber(Provider[c], starts) # 0}

\* Sources are numbers and finitely many.
LEMMA SourcesFinite ==
  ASSUME NEW S \in SUBSET Numbered
  PROVE  /\ Providers \in SUBSET Nat
         /\ SourcesOf(S) \in SUBSET Providers
         /\ IsFiniteSet(SourcesOf(S)) /\ Cardinality(SourcesOf(S)) \in Nat
  <1>1. Provider = [c \in Numbered |-> Provider[c]] /\ Providers \in SUBSET Nat
    BY NumbersAssumption DEF Providers, Range
  <1>2. IsFiniteSet(Providers)
    BY <1>1, NumbersAssumption, FiniteRange DEF Providers
  <1>3. SourcesOf(S) \in SUBSET Providers
    BY NumbersAssumption DEF SourcesOf, Providers, Range
  <1> QED  BY <1>1, <1>2, <1>3, FS_Subset, FS_CardinalityType

\* Every source has a turn of its own, in their order.
LEMMA TurnsOrder ==
  ASSUME NEW S \in SUBSET Numbered, NEW starts \in [Providers -> Nat]
  PROVE  /\ \A s \in SourcesOf(S) :
                /\ Turn(S, s, starts) \in Nat
                /\ Turn(S, s, starts) < Cardinality(SourcesOf(S))
         /\ \A s, t \in SourcesOf(S) :
                /\ Turn(S, s, starts) = Turn(S, t, starts) => s = t
                /\ Turn(S, s, starts) < Turn(S, t, starts) => Before(starts, s, t)
  <1> DEFINE all == SourcesOf(S)
             earlier(s) == {t \in all : Before(starts, t, s)}
  <1>1. /\ all \in SUBSET Providers /\ all \in SUBSET Nat /\ IsFiniteSet(all)
        /\ Cardinality(all) \in Nat /\ Providers \in SUBSET Nat
    BY SourcesFinite
  <1>2. \A s \in all : Turn(S, s, starts) = Cardinality(earlier(s))
    BY DEF Turn, SourcesOf
  <1> HIDE DEF all
  <1>3. ASSUME NEW s \in all
        PROVE  /\ earlier(s) \in SUBSET all /\ IsFiniteSet(earlier(s)) /\ s \notin earlier(s)
               /\ Cardinality(earlier(s)) \in Nat
               /\ IsFiniteSet(earlier(s) \cup {s})
               /\ Cardinality(earlier(s) \cup {s}) = Cardinality(earlier(s)) + 1
    <2>1. earlier(s) \in SUBSET all
      OBVIOUS
    <2>2. s \notin earlier(s)
      BY <1>1, <1>3, BeforeOrders
    <2> HIDE DEF earlier
    <2> QED  BY <2>1, <2>2, <1>1, FS_Subset, FS_AddElement, FS_CardinalityType
  <1>4. ASSUME NEW s \in all  PROVE Cardinality(earlier(s)) < Cardinality(all)
    <2>1. earlier(s) \cup {s} \in SUBSET all
      OBVIOUS
    <2>2. Cardinality(earlier(s) \cup {s}) <= Cardinality(all)
      <3> HIDE DEF earlier
      <3> QED  BY <2>1, <1>1, FS_Subset
    <2> QED  BY <2>2, <1>1, <1>3, <1>4
  <1>5. ASSUME NEW s \in all, NEW t \in all, Before(starts, s, t)
        PROVE  Cardinality(earlier(s)) < Cardinality(earlier(t))
    <2>1. earlier(s) \cup {s} \in SUBSET earlier(t)
      <3>1. \A u \in all : Before(starts, u, s) => Before(starts, u, t)
        BY <1>1, <1>5, BeforeOrders
      <3> QED  BY <3>1, <1>5
    <2>2. Cardinality(earlier(s) \cup {s}) <= Cardinality(earlier(t))
      <3>1. IsFiniteSet(earlier(t))
        BY <1>3
      <3> HIDE DEF earlier
      <3> QED  BY <2>1, <3>1, FS_Subset
    <2>3. /\ Cardinality(earlier(s) \cup {s}) = Cardinality(earlier(s)) + 1
          /\ Cardinality(earlier(s)) \in Nat /\ Cardinality(earlier(t)) \in Nat
      BY <1>3
    <2> HIDE DEF earlier
    <2> QED  BY <2>2, <2>3
  <1>6. \A s, t \in all : s # t => Before(starts, s, t) \/ Before(starts, t, s)
    BY <1>1, BeforeOrders
  <1>7. \A s \in all : Cardinality(earlier(s)) \in Nat
    BY <1>3
  <1> DEFINE size(s) == Cardinality(earlier(s))
  <1>8. \A s \in all : Turn(S, s, starts) = size(s) /\ size(s) \in Nat /\ size(s) < Cardinality(all)
    BY <1>2, <1>4, <1>7
  <1>9. \A s, t \in all : Before(starts, s, t) => size(s) < size(t)
    BY <1>5
  <1> HIDE DEF size
  <1>10. ASSUME NEW s \in all, NEW t \in all
         PROVE  /\ size(s) = size(t) => s = t
                /\ size(s) < size(t) => Before(starts, s, t)
    BY <1>6, <1>8, <1>9
  <1> QED  BY <1>8, <1>10 DEF all

\* In the turn of a source with a first number, its channels get theirs.
LEMMA TurnGives ==
  ASSUME NEW S \in SUBSET Numbered, NEW starts \in [Providers -> Nat], NEW n, NEW pins, NEW m,
         NEW s \in SourcesOf(S), FirstNumber(s, starts) # 0,
         NEW k, k = Turn(S, s, starts)
  PROVE  LET after == AfterTurn(S, n, pins, starts, m, k)
             given == Sticky(ChannelsOf(S, s), n, FirstNumber(s, starts),
                             {n[d] : d \in S \cap pins} \cup Range(m), n, pins)
         IN  /\ after = [c \in Numbered |-> after[c]]
             /\ \A c \in Numbered :
                    after[c] = IF c \in ChannelsOf(S, s) THEN given[c] ELSE m[c]
  <1> DEFINE turn == {c \in S : Turn(S, Provider[c], starts) = k
                                /\ FirstNumber(Provider[c], starts) # 0}
             firsts == {FirstNumber(Provider[c], starts) : c \in turn}
  <1>1. turn = ChannelsOf(S, s)
    <2>1. \A c \in S : Provider[c] \in SourcesOf(S)
      BY DEF SourcesOf
    <2> QED  BY <2>1, TurnsOrder DEF ChannelsOf
  <1>2. firsts = {FirstNumber(s, starts)}
    <2>1. PICK c \in S : Provider[c] = s
      BY DEF SourcesOf
    <2>2. c \in turn
      BY <2>1
    <2>3. \A d \in turn : Provider[d] = s
      BY <1>1 DEF ChannelsOf
    <2> HIDE DEF turn
    <2> QED  BY <2>1, <2>2, <2>3
  <1>3. (CHOOSE f \in firsts : TRUE) = FirstNumber(s, starts)
    <2> HIDE DEF firsts
    <2> QED  BY <1>2
  <1>4. AfterTurn(S, n, pins, starts, m, k) =
            [c \in Numbered |->
                IF c \in turn
                THEN Sticky(turn, n, CHOOSE f \in firsts : TRUE,
                            {n[d] : d \in S \cap pins} \cup Range(m), n, pins)[c]
                ELSE m[c]]
    BY DEF AfterTurn
  <1> HIDE DEF turn, firsts
  <1> QED  BY <1>1, <1>3, <1>4

\* In a turn without such a source, nothing is given out.
LEMMA TurnPasses ==
  ASSUME NEW S, NEW starts, NEW n, NEW pins, NEW m, NEW k,
         {c \in S : Turn(S, Provider[c], starts) = k /\ FirstNumber(Provider[c], starts) # 0} = {}
  PROVE  AfterTurn(S, n, pins, starts, m, k) = [c \in Numbered |-> m[c]]
  BY DEF AfterTurn

-----------------------------------------------------------------------------
\* The maps of SourceMaps follow each other.
LEMMA MapsFollow ==
  ASSUME NEW S \in SUBSET Numbered, NEW n, NEW pins, NEW starts,
         NEW maps, maps = SourceMaps(S, n, pins, starts)
  PROVE  maps = [k \in 0 .. Cardinality(SourcesOf(S)) |->
                    IF k = 0 THEN [c \in Numbered |-> 0]
                    ELSE AfterTurn(S, n, pins, starts, maps[k - 1], k - 1)]
  <1> DEFINE Next1(g, k) == IF k = 0 THEN [c \in Numbered |-> 0]
                            ELSE AfterTurn(S, n, pins, starts, g[k - 1], k - 1)
             Some(l) == \E g : g = [k \in 0 .. l |-> Next1(g, k)]
             Bad == {l \in Nat : ~Some(l)}
             all == Cardinality(SourcesOf(S))
  <1>1. Some(0)
    <2>1. [k \in 0 .. 0 |-> [c \in Numbered |-> 0]]
              = [k \in 0 .. 0 |-> Next1([j \in 0 .. 0 |-> [c \in Numbered |-> 0]], k)]
      OBVIOUS
    <2> QED  BY <2>1
  <1>2. ASSUME NEW l \in Nat, Some(l)  PROVE Some(l + 1)
    <2> HIDE DEF Next1
    <2>1. PICK g : g = [k \in 0 .. l |-> Next1(g, k)]
      BY <1>2
    <2> DEFINE h == [k \in 0 .. l + 1 |-> IF k \in 0 .. l THEN g[k] ELSE Next1(g, k)]
    <2>2. ASSUME NEW k \in 0 .. l + 1  PROVE Next1(g, k) = Next1(h, k)
      <3>1. k # 0 => k - 1 \in 0 .. l /\ k - 1 \in 0 .. l + 1
        OBVIOUS
      <3>2. k # 0 => h[k - 1] = g[k - 1]
        BY <3>1
      <3> HIDE DEF h
      <3> QED  BY <3>2 DEF Next1
    <2>3. \A k \in 0 .. l + 1 : h[k] = Next1(g, k)
      BY <2>1
    <2>4. h = [k \in 0 .. l + 1 |-> h[k]]
      OBVIOUS
    <2> HIDE DEF h
    <2>5. h = [k \in 0 .. l + 1 |-> Next1(h, k)]
      BY <2>2, <2>3, <2>4
    <2> QED  BY <2>5
  <1> HIDE DEF Some
  <1>3. Bad = {}
    <2>1. SUFFICES ASSUME Bad # {}  PROVE FALSE
      OBVIOUS
    <2>2. PICK l \in Bad : \A j \in Bad : l <= j
      <3>1. Bad \in SUBSET Nat
        OBVIOUS
      <3> HIDE DEF Bad
      <3> QED  BY <2>1, <3>1, LeastNumber
    <2>3. l \in Nat /\ l # 0 /\ l - 1 \in Nat /\ l - 1 \notin Bad
      BY <2>2, <1>1
    <2>4. Some((l - 1) + 1) /\ (l - 1) + 1 = l
      BY <2>3, <1>2
    <2> QED  BY <2>2, <2>4
  <1>4. Some(all)
    <2>1. all \in Nat
      BY SourcesFinite
    <2> QED  BY <1>3, <2>1
  <1>5. \E g : g = [k \in 0 .. Cardinality({Provider[c] : c \in S}) |->
                       IF k = 0 THEN [c \in Numbered |-> 0]
                       ELSE AfterTurn(S, n, pins, starts, g[k - 1], k - 1)]
    BY <1>4, Zenon DEF Some, SourcesOf
  <1>6. maps = [k \in 0 .. Cardinality({Provider[c] : c \in S}) |->
                    IF k = 0 THEN [c \in Numbered |-> 0]
                    ELSE AfterTurn(S, n, pins, starts, maps[k - 1], k - 1)]
    BY <1>5, Zenon DEF SourceMaps
  <1> QED  BY <1>6, Zenon DEF SourcesOf

\* What has been given out once stays: the map after k turns is the last one, as far
\* as it had come.
LEMMA MapsAgree ==
  ASSUME NEW S \in SUBSET Numbered, NEW n, NEW pins, NEW starts \in [Providers -> Nat],
         NEW k \in 0 .. Cardinality(SourcesOf(S))
  PROVE  SourceMaps(S, n, pins, starts)[k] =
             [c \in Numbered |-> IF c \in Served(S, starts, k)
                                 THEN SourceNumbers(S, n, pins, starts)[c] ELSE 0]
  <1> DEFINE maps == SourceMaps(S, n, pins, starts)
             all == Cardinality(SourcesOf(S))
             turn(c) == Turn(S, Provider[c], starts)
             As(j) == maps[j] = [c \in Numbered |-> IF c \in Served(S, starts, j)
                                                    THEN maps[turn(c) + 1][c] ELSE 0]
             Bad == {j \in 0 .. all : ~As(j)}
  <1>1. all \in Nat
    BY SourcesFinite
  <1>2. \A c \in S : turn(c) \in Nat /\ turn(c) < all
    <2>1. \A c \in S : Provider[c] \in SourcesOf(S)
      BY DEF SourcesOf
    <2> QED  BY <2>1, TurnsOrder
  <1>3. maps = [j \in 0 .. all |->
                    IF j = 0 THEN [c \in Numbered |-> 0]
                    ELSE AfterTurn(S, n, pins, starts, maps[j - 1], j - 1)]
    BY MapsFollow
  <1> HIDE DEF maps, all, turn
  <1>4. As(0)
    <2>1. maps[0] = [c \in Numbered |-> 0]
      BY <1>1, <1>3
    <2>2. Served(S, starts, 0) = {}
      BY <1>2 DEF Served, turn
    <2> QED  BY <2>1, <2>2
  <1>5. ASSUME NEW j \in 0 .. all, j # 0, As(j - 1)  PROVE As(j)
    <2> DEFINE now == {c \in S : turn(c) = j - 1 /\ FirstNumber(Provider[c], starts) # 0}
    <2>1. maps[j] = AfterTurn(S, n, pins, starts, maps[j - 1], j - 1)
      BY <1>1, <1>3, <1>5
    <2>2. j - 1 \in Int /\ (j - 1) + 1 = j
      BY <1>1, <1>5
    <2>3. Served(S, starts, j) = Served(S, starts, j - 1) \cup now
      BY <1>2, <1>5, <1>1 DEF Served, turn
    <2>4. maps[j] = [c \in Numbered |-> IF c \in now THEN maps[j][c] ELSE maps[j - 1][c]]
      BY <2>1 DEF AfterTurn, turn
    <2>5. ASSUME NEW c \in Numbered
          PROVE  maps[j][c] = IF c \in Served(S, starts, j) THEN maps[turn(c) + 1][c] ELSE 0
      <3>1. CASE c \in now
        <4>1. turn(c) + 1 = j /\ c \in Served(S, starts, j)
          BY <3>1, <2>2, <2>3
        <4> QED  BY <4>1
      <3>2. CASE c \notin now
        <4>1. maps[j][c] = maps[j - 1][c]
          BY <2>4, <3>2
        <4>2. maps[j - 1][c] = IF c \in Served(S, starts, j - 1) THEN maps[turn(c) + 1][c] ELSE 0
          BY <1>5
        <4> QED  BY <4>1, <4>2, <2>3, <3>2
      <3> QED  BY <3>1, <3>2
    <2> HIDE DEF now
    <2>6. maps[j] = [c \in Numbered |-> maps[j][c]]
      BY <2>4
    <2> QED  BY <2>5, <2>6
  <1> HIDE DEF As
  <1>6. Bad = {}
    <2>1. SUFFICES ASSUME Bad # {}  PROVE FALSE
      OBVIOUS
    <2>2. PICK j \in Bad : \A i \in Bad : j <= i
      <3>1. Bad \in SUBSET Nat
        BY <1>1
      <3> HIDE DEF Bad
      <3> QED  BY <2>1, <3>1, LeastNumber
    <2>3. j \in 0 .. all /\ j # 0 /\ j - 1 \in 0 .. all /\ j - 1 \notin Bad
      BY <2>2, <1>1, <1>4
    <2> QED  BY <2>2, <2>3, <1>5
  <1>7. As(k) /\ As(all)
    BY <1>6, <1>1 DEF all
  <1>8. \A c \in Served(S, starts, k) : c \in Served(S, starts, all) /\ c \in Numbered
    BY <1>2 DEF Served, turn
  <1>9. \A c \in Served(S, starts, k) : maps[all][c] = maps[turn(c) + 1][c]
    BY <1>7, <1>8 DEF As
  <1>10. maps[all] = SourceNumbers(S, n, pins, starts)
    BY DEF SourceNumbers, SourcesOf, maps, all
  <1> QED  BY <1>7, <1>9, <1>10 DEF As, maps

\* The numbers that are used when the turn of source s comes
UsedBefore(S, n, pins, starts, s) ==
    {n[c] : c \in S \cap pins}
        \cup Range(SourceMaps(S, n, pins, starts)[Turn(S, s, starts)])

\* The channels of a source have the numbers that were given out in its turn; without
\* a first number they have none.
LEMMA SourceGiven ==
  ASSUME NEW S \in SUBSET Numbered, NEW n, NEW pins, NEW starts \in [Providers -> Nat],
         NEW m, m = SourceNumbers(S, n, pins, starts)
  PROVE  /\ m = [c \in Numbered |-> m[c]]
         /\ \A c \in Numbered :
                c \notin S \/ FirstNumber(Provider[c], starts) = 0 => m[c] = 0
         /\ \A s \in SourcesOf(S) : FirstNumber(s, starts) # 0 =>
                \A c \in ChannelsOf(S, s) :
                    m[c] = Sticky(ChannelsOf(S, s), n, FirstNumber(s, starts),
                                  UsedBefore(S, n, pins, starts, s), n, pins)[c]
  <1> DEFINE maps == SourceMaps(S, n, pins, starts)
             all == Cardinality(SourcesOf(S))
  <1>1. all \in Nat
    BY SourcesFinite
  <1>2. m = [c \in Numbered |-> IF c \in Served(S, starts, all) THEN m[c] ELSE 0]
    <2>1. all \in 0 .. all
      BY <1>1
    <2>2. maps[all] = m
      BY DEF SourceNumbers, SourcesOf
    <2> HIDE DEF all, maps
    <2>3. maps[all] = [c \in Numbered |-> IF c \in Served(S, starts, all) THEN m[c] ELSE 0]
      BY <2>1, MapsAgree DEF all, maps
    <2> QED  BY <2>2, <2>3
  <1>3. ASSUME NEW s \in SourcesOf(S), FirstNumber(s, starts) # 0, NEW c \in ChannelsOf(S, s)
        PROVE  m[c] = Sticky(ChannelsOf(S, s), n, FirstNumber(s, starts),
                             UsedBefore(S, n, pins, starts, s), n, pins)[c]
    <2> DEFINE k == Turn(S, s, starts)
    <2>1. k \in Nat /\ k < all
      BY TurnsOrder
    <2>2. c \in S /\ c \in Numbered /\ Provider[c] = s
      BY <1>3 DEF ChannelsOf
    <2>3. c \in Served(S, starts, k + 1)
      BY <2>1, <2>2, <1>3 DEF Served
    <2> HIDE DEF k, all, maps
    <2>4. k + 1 \in 0 .. all /\ (k + 1) - 1 = k /\ k + 1 # 0
      BY <1>1, <2>1
    <2>5. maps[k + 1][c] = m[c]
      <3>1. maps[k + 1] = [d \in Numbered |-> IF d \in Served(S, starts, k + 1) THEN m[d] ELSE 0]
        BY <2>4, MapsAgree DEF all, maps
      <3> QED  BY <3>1, <2>2, <2>3
    <2>6. maps[k + 1] = AfterTurn(S, n, pins, starts, maps[k], k)
      <3>1. maps = [j \in 0 .. all |->
                        IF j = 0 THEN [d \in Numbered |-> 0]
                        ELSE AfterTurn(S, n, pins, starts, maps[j - 1], j - 1)]
        BY MapsFollow DEF maps, all
      <3> QED  BY <3>1, <2>4
    <2>7. AfterTurn(S, n, pins, starts, maps[k], k)[c] =
              Sticky(ChannelsOf(S, s), n, FirstNumber(s, starts),
                     {n[d] : d \in S \cap pins} \cup Range(maps[k]), n, pins)[c]
      BY <1>3, <2>2, TurnGives DEF k
    <2> QED  BY <2>5, <2>6, <2>7 DEF UsedBefore, maps, k
  <1>4. \A c \in Served(S, starts, all) : c \in S /\ FirstNumber(Provider[c], starts) # 0
    BY DEF Served
  <1> HIDE DEF all
  <1> QED  BY <1>2, <1>3, <1>4

\* The numbers used before a turn are those of the pinned channels and of the channels
\* of the sources that went before.
LEMMA UsedAre ==
  ASSUME NEW S \in SUBSET Numbered, NEW n \in [Numbered -> Nat], NEW pins,
         NEW starts \in [Providers -> Nat], NEW s \in SourcesOf(S)
  PROVE  LET used == UsedBefore(S, n, pins, starts, s)
             m == SourceNumbers(S, n, pins, starts)
         IN  /\ IsFiniteSet(used)
             /\ \A c \in S \cap pins : n[c] \in used
             /\ \A d \in Served(S, starts, Turn(S, s, starts)) : m[d] \in used
             /\ \A u \in used : \/ u = 0
                                \/ \E d \in S \cap pins : u = n[d]
                                \/ \E d \in Served(S, starts, Turn(S, s, starts)) : u = m[d]
  <1> DEFINE used == UsedBefore(S, n, pins, starts, s)
             m == SourceNumbers(S, n, pins, starts)
             k == Turn(S, s, starts)
             before == SourceMaps(S, n, pins, starts)[k]
             pinnedNumbers == {n[c] : c \in S \cap pins}
  <1>1. before = [c \in Numbered |-> IF c \in Served(S, starts, k) THEN m[c] ELSE 0]
    <2>1. k \in 0 .. Cardinality(SourcesOf(S))
      BY SourcesFinite, TurnsOrder
    <2> HIDE DEF k
    <2> QED  BY <2>1, MapsAgree
  <1>2. used = pinnedNumbers \cup Range(before)
    BY DEF UsedBefore
  <1>3. IsFiniteSet(pinnedNumbers)
    <2>1. pinnedNumbers \in SUBSET Range(n)
      BY DEF Range
    <2>2. IsFiniteSet(Range(n))
      BY NumbersAssumption, FiniteRange
    <2> HIDE DEF pinnedNumbers
    <2> QED  BY <2>1, <2>2, FS_Subset
  <1>4. IsFiniteSet(Range(before))
    <2> HIDE DEF before
    <2>1. before = [c \in Numbered |-> before[c]]
      BY <1>1
    <2> QED  BY <2>1, NumbersAssumption, FiniteRange
  <1>5. IsFiniteSet(used)
    <2> HIDE DEF used, pinnedNumbers, before
    <2> QED  BY <1>2, <1>3, <1>4, FS_Union
  <1>6. \A d \in Served(S, starts, k) : d \in Numbered
    BY DEF Served
  <1> HIDE DEF before, m, k, used
  <1>7. \A d \in Served(S, starts, k) : m[d] \in Range(before)
    BY <1>1, <1>6 DEF Range
  <1>8. \A u \in Range(before) : u = 0 \/ \E d \in Served(S, starts, k) : u = m[d]
    BY <1>1 DEF Range
  <1>9. /\ \A c \in S \cap pins : n[c] \in used
        /\ \A d \in Served(S, starts, k) : m[d] \in used
        /\ \A u \in used : \/ u = 0 \/ \E d \in S \cap pins : u = n[d]
                           \/ \E d \in Served(S, starts, k) : u = m[d]
    BY <1>2, <1>7, <1>8
  <1> QED  BY <1>5, <1>9 DEF used, m, k

\* The numbers of the channels without a Gracenote ID: pins are kept, the others lie in
\* the blocks of their sources, and no two of them are the same or like a pin.
SourceRules(S, n, pins, starts, m) ==
    /\ m \in [Numbered -> Nat]
    /\ \A c \in Numbered : c \notin S \/ FirstNumber(Provider[c], starts) = 0 => m[c] = 0
    /\ \A c \in S : FirstNumber(Provider[c], starts) # 0 =>
           /\ c \in pins => m[c] = n[c]
           /\ c \notin pins => /\ m[c] >= FirstNumber(Provider[c], starts)
                               /\ m[c] \notin UsedBefore(S, n, pins, starts, Provider[c])
                               /\ \A d \in S \cap pins : m[c] # n[d]
    /\ \A c \in S \ pins : \A d \in S \ {c} : m[c] = m[d] => m[c] = 0

\* These rules hold.
LEMMA SourceNumbersGive ==
  ASSUME NEW S \in SUBSET Numbered, NEW n \in [Numbered -> Nat], NEW pins,
         NEW starts \in [Providers -> Nat],
         NEW m, m = SourceNumbers(S, n, pins, starts)
  PROVE  SourceRules(S, n, pins, starts, m)
  <1> DEFINE First(c) == FirstNumber(Provider[c], starts)
             used(s) == UsedBefore(S, n, pins, starts, s)
             given(s) == Sticky(ChannelsOf(S, s), n, FirstNumber(s, starts), used(s), n, pins)
  <1>1. \A c \in S : Provider[c] \in SourcesOf(S) /\ c \in ChannelsOf(S, Provider[c])
    BY DEF SourcesOf, ChannelsOf
  <1>2. \A s \in SourcesOf(S) : FirstNumber(s, starts) \in Nat
    <2>1. SourcesOf(S) \in SUBSET Providers
      BY SourcesFinite
    <2> QED  BY <2>1, NumbersAssumption DEF FirstNumber
  <1>3. ASSUME NEW s \in SourcesOf(S)
        PROVE  /\ given(s) \in [ChannelsOf(S, s) -> Nat]
               /\ \A c \in ChannelsOf(S, s) \cap pins : given(s)[c] = n[c]
               /\ \A c \in ChannelsOf(S, s) \ pins :
                      given(s)[c] >= FirstNumber(s, starts) /\ given(s)[c] \notin used(s)
               /\ \A c \in ChannelsOf(S, s) \ pins : \A d \in ChannelsOf(S, s) \ {c} :
                      given(s)[c] = given(s)[d] => d \in pins
    <2>1. ChannelsOf(S, s) \in SUBSET Numbered
      BY DEF ChannelsOf
    <2>2. IsFiniteSet(used(s))
      BY UsedAre
    <2>3. FirstNumber(s, starts) \in Nat
      BY <1>2, <1>3
    <2> DEFINE T == ChannelsOf(S, s)
    <2>4. \A r : r = given(s) =>
              /\ r \in [T -> Nat]
              /\ \A c \in T \cap pins : r[c] = n[c]
              /\ \A c \in T \ pins : r[c] >= FirstNumber(s, starts) /\ r[c] \notin used(s)
              /\ \A c \in T \ pins : \A d \in T \ {c} :
                     r[c] = r[d] => d \in pins /\ r[c] = n[c] /\ Before(n, c, d)
      <3> HIDE DEF used, T
      <3> QED  BY <2>1, <2>2, <2>3, StickyGives DEF T, StickyRules
    <2> HIDE DEF given
    <2> QED  BY <2>4
  <1>4. /\ m = [c \in Numbered |-> m[c]]
        /\ \A c \in Numbered : c \notin S \/ First(c) = 0 => m[c] = 0
        /\ \A c \in S : First(c) # 0 => m[c] = given(Provider[c])[c]
    <2> HIDE DEF used
    <2>1. \A s \in SourcesOf(S) : FirstNumber(s, starts) # 0 =>
              \A c \in ChannelsOf(S, s) : m[c] = given(s)[c]
      BY SourceGiven DEF used
    <2>2. /\ m = [c \in Numbered |-> m[c]]
          /\ \A c \in Numbered : c \notin S \/ First(c) = 0 => m[c] = 0
      BY SourceGiven
    <2> HIDE DEF given
    <2> QED  BY <1>1, <2>1, <2>2
  <1> HIDE DEF given, used
  <1>5. \A c \in Numbered : m[c] \in Nat
    <2>1. \A c \in S : First(c) # 0 => m[c] \in Nat
      BY <1>1, <1>3, <1>4
    <2> QED  BY <1>4, <2>1
  <1>6. ASSUME NEW c \in S, First(c) # 0
        PROVE  /\ c \in pins => m[c] = n[c]
               /\ c \notin pins => /\ m[c] >= First(c) /\ m[c] \notin used(Provider[c])
                                   /\ \A d \in S \cap pins : m[c] # n[d]
    <2> DEFINE s == Provider[c]
    <2>1. \A d \in S \cap pins : n[d] \in used(s)
      BY <1>1, UsedAre DEF used
    <2>2. s \in SourcesOf(S) /\ c \in ChannelsOf(S, s) /\ First(c) = FirstNumber(s, starts)
      BY <1>1
    <2>3. m[c] = given(s)[c]
      BY <1>4, <1>6
    <2> HIDE DEF s, First
    <2>4. /\ c \in pins => given(s)[c] = n[c]
          /\ c \notin pins => /\ given(s)[c] >= FirstNumber(s, starts)
                              /\ given(s)[c] \notin used(s)
      BY <1>3, <1>6, <2>2
    <2>5. c \notin pins => \A d \in S \cap pins : m[c] # n[d]
      BY <2>1, <2>3, <2>4
    <2> QED  BY <2>2, <2>3, <2>4, <2>5 DEF s
  <1>7. ASSUME NEW c \in S, NEW d \in S, c \notin pins, d \notin pins, First(c) # 0, First(d) # 0,
               Turn(S, Provider[d], starts) < Turn(S, Provider[c], starts)
        PROVE  m[c] # m[d]
    <2>1. d \in Served(S, starts, Turn(S, Provider[c], starts))
      BY <1>7 DEF Served
    <2>2. m[d] \in used(Provider[c])
      BY <2>1, <1>1, UsedAre DEF used
    <2> QED  BY <2>2, <1>6, <1>7
  <1>8. ASSUME NEW c \in S \ pins, NEW d \in S \ {c}, m[c] = m[d], m[c] # 0  PROVE FALSE
    <2>1. First(c) # 0 /\ First(d) # 0
      BY <1>4, <1>8
    <2>2. d \notin pins
      BY <2>1, <1>6, <1>8
    <2>3. Provider[c] # Provider[d]
      <3>1. SUFFICES ASSUME Provider[c] = Provider[d]  PROVE FALSE
        OBVIOUS
      <3>2. d \in ChannelsOf(S, Provider[c])
        BY <3>1, <1>1
      <3>3. given(Provider[c])[c] = given(Provider[c])[d]
        BY <3>1, <2>1, <1>4, <1>8
      <3> QED  BY <3>2, <3>3, <1>1, <1>3, <1>8, <2>2
    <2>4. LET t(e) == Turn(S, Provider[e], starts)
          IN  t(c) \in Nat /\ t(d) \in Nat /\ t(c) # t(d)
      BY <1>1, <2>3, TurnsOrder
    <2> QED  BY <2>1, <2>2, <2>4, <1>7, <1>8
  <1>9. /\ m \in [Numbered -> Nat]
        /\ \A c \in S \ pins : \A d \in S \ {c} : m[c] = m[d] => m[c] = 0
    BY <1>4, <1>5, <1>8
  <1> QED  BY <1>4, <1>6, <1>9 DEF SourceRules, used

\* A channel that has a number of its source's block loses it only to a pin, to a
\* channel with the same number, or to one of a source that goes before.
LEMMA SourceNumbersStay ==
  ASSUME NEW S \in SUBSET Numbered, NEW n \in [Numbered -> Nat], NEW pins,
         NEW starts \in [Providers -> Nat],
         NEW m, m = SourceNumbers(S, n, pins, starts),
         NEW c \in S, FirstNumber(Provider[c], starts) # 0,
         n[c] >= FirstNumber(Provider[c], starts), m[c] # n[c]
  PROVE  \/ \E d \in S \cap pins : n[d] = n[c]
         \/ \E d \in S \ {c} : /\ FirstNumber(Provider[d], starts) # 0 /\ m[d] = n[c]
                               /\ n[d] = n[c] \/ Before(starts, Provider[d], Provider[c])
  <1> DEFINE s == Provider[c]
             T == ChannelsOf(S, s)
             first == FirstNumber(s, starts)
             used == UsedBefore(S, n, pins, starts, s)
             k == Turn(S, s, starts)
  <1>1. /\ s \in SourcesOf(S) /\ c \in T /\ T \in SUBSET Numbered /\ c \in Numbered
        /\ \A d \in S : Provider[d] \in SourcesOf(S)
        /\ \A d \in T : d \in S /\ Provider[d] = s
    BY DEF SourcesOf, ChannelsOf
  <1>2. first \in Nat
    <2>1. SourcesOf(S) \in SUBSET Providers
      BY SourcesFinite
    <2> QED  BY <1>1, <2>1, NumbersAssumption DEF FirstNumber
  <1>3. \A d \in T : m[d] = Sticky(T, n, first, used, n, pins)[d]
    BY <1>1, SourceGiven
  <1>4. \A u \in used : \/ u = 0 \/ \E d \in S \cap pins : u = n[d]
                        \/ \E d \in Served(S, starts, k) : u = m[d]
    <2> HIDE DEF s
    <2> QED  BY <1>1, UsedAre
  <1>5. n[c] \in Nat /\ n[c] # 0 /\ first # 0 /\ n[c] >= first
    BY <1>1, <1>2
  <1> HIDE DEF s, T, first, used, k
  <1>6. CASE n[c] \notin used
    <2>1. \A r : r = Sticky(T, n, first, used, n, pins) /\ r[c] # n[c] =>
              \E d \in T \ {c} : n[d] = n[c] /\ r[d] = n[c]
      BY <1>1, <1>2, <1>5, <1>6, StickyStays
    <2>2. PICK d \in T \ {c} : n[d] = n[c] /\ m[d] = n[c]
      BY <1>1, <1>3, <2>1
    <2>3. d \in S \ {c} /\ FirstNumber(Provider[d], starts) # 0
      BY <2>2, <1>1, <1>5 DEF first
    <2> QED  BY <2>2, <2>3
  <1>7. CASE n[c] \in used
    <2>1. CASE \E d \in Served(S, starts, k) : n[c] = m[d]
      <3>1. PICK d \in Served(S, starts, k) : n[c] = m[d]
        BY <2>1
      <3>2. /\ d \in S /\ FirstNumber(Provider[d], starts) # 0
            /\ Turn(S, Provider[d], starts) < Turn(S, Provider[c], starts)
        BY <3>1 DEF Served, k, s
      <3>3. Turn(S, Provider[c], starts) \in Nat
        BY <1>1, TurnsOrder
      <3>4. d # c
        BY <3>2, <3>3
      <3>5. Before(starts, Provider[d], Provider[c])
        BY <3>2, <1>1, TurnsOrder
      <3> QED  BY <3>1, <3>2, <3>4, <3>5
    <2>2. CASE \E d \in S \cap pins : n[c] = n[d]
      BY <2>2
    <2> QED  BY <1>4, <1>5, <1>7, <2>1, <2>2
  <1> QED  BY <1>6, <1>7

\* Numbering the sources twice gives the same.
LEMMA SourceNumbersAgain ==
  ASSUME NEW S \in SUBSET Numbered, NEW n \in [Numbered -> Nat], NEW pins,
         NEW starts \in [Providers -> Nat],
         NEW m, m = SourceNumbers(S, n, pins, starts),
         NEW again \in [Numbered -> Nat],
         \A c \in S : again[c] = IF c \in pins THEN n[c] ELSE m[c]
  PROVE  SourceNumbers(S, again, pins, starts) = m
  <1> DEFINE maps == SourceMaps(S, n, pins, starts)
             maps2 == SourceMaps(S, again, pins, starts)
             all == Cardinality(SourcesOf(S))
             Bad == {j \in 0 .. all : maps2[j] # maps[j]}
  <1>1. all \in Nat
    BY SourcesFinite
  <1>2. maps = [j \in 0 .. all |->
                    IF j = 0 THEN [c \in Numbered |-> 0]
                    ELSE AfterTurn(S, n, pins, starts, maps[j - 1], j - 1)]
    BY MapsFollow
  <1>3. maps2 = [j \in 0 .. all |->
                    IF j = 0 THEN [c \in Numbered |-> 0]
                    ELSE AfterTurn(S, again, pins, starts, maps2[j - 1], j - 1)]
    BY MapsFollow
  <1> DEFINE First(c) == FirstNumber(Provider[c], starts)
             Used(c) == UsedBefore(S, n, pins, starts, Provider[c])
  <1>4. /\ \A c \in S : First(c) # 0 =>
               /\ again[c] = m[c]
               /\ c \notin pins => /\ m[c] >= First(c) /\ m[c] \notin Used(c)
                                   /\ First(c) \in Nat /\ m[c] \in Nat
        /\ \A c \in S \ pins : \A d \in S \ {c} : m[c] = m[d] => m[c] = 0
    <2>1. \A c \in S : First(c) \in Nat
      <3>1. SourcesOf(S) \in SUBSET Providers
        BY SourcesFinite
      <3> QED  BY <3>1, NumbersAssumption DEF FirstNumber, SourcesOf
    <2>2. /\ m \in [Numbered -> Nat]
          /\ \A c \in S : First(c) # 0 =>
                /\ c \in pins => m[c] = n[c]
                /\ c \notin pins => m[c] >= First(c) /\ m[c] \notin Used(c)
          /\ \A c \in S \ pins : \A d \in S \ {c} : m[c] = m[d] => m[c] = 0
      <3>1. SourceRules(S, n, pins, starts, m)
        BY SourceNumbersGive
      <3> QED  BY <3>1 DEF SourceRules
    <2> HIDE DEF First, Used
    <2> QED  BY <2>1, <2>2
  <1>5. ASSUME NEW k \in 0 .. all, k + 1 \in 0 .. all
        PROVE  AfterTurn(S, again, pins, starts, maps[k], k) = maps[k + 1]
    <2> DEFINE now == {c \in S : /\ Turn(S, Provider[c], starts) = k
                                 /\ FirstNumber(Provider[c], starts) # 0}
    <2>1. maps[k + 1] = AfterTurn(S, n, pins, starts, maps[k], k)
      <3>1. k + 1 # 0 /\ (k + 1) - 1 = k
        BY <1>1, <1>5
      <3> HIDE DEF maps, all
      <3> QED  BY <1>2, <1>5, <3>1
    <2>2. CASE now = {}
      <3> HIDE DEF maps
      <3>1. \A x : AfterTurn(S, x, pins, starts, maps[k], k) = [c \in Numbered |-> maps[k][c]]
        BY <2>2, TurnPasses
      <3> QED  BY <2>1, <3>1
    <2>3. CASE now # {}
      <3>1. PICK e \in now : TRUE
        BY <2>3
      <3> DEFINE s == Provider[e]
                 T == ChannelsOf(S, s)
                 first == FirstNumber(s, starts)
                 used == UsedBefore(S, n, pins, starts, s)
      <3>2. /\ s \in SourcesOf(S) /\ first # 0 /\ k = Turn(S, s, starts)
            /\ T \in SUBSET Numbered
            /\ \A c \in T : c \in S /\ Provider[c] = s /\ c \in Numbered
        BY <3>1 DEF SourcesOf, ChannelsOf
      <3>3. used = {n[d] : d \in S \cap pins} \cup Range(maps[k])
        BY <3>2 DEF UsedBefore
      <3>4. {again[d] : d \in S \cap pins} = {n[d] : d \in S \cap pins}
        OBVIOUS
      <3> HIDE DEF now, maps, used, s, first, T
      <3> DEFINE before == maps[k]
                 After(x) == AfterTurn(S, x, pins, starts, before, k)
                 Given(x) == Sticky(T, x, first, {x[d] : d \in S \cap pins} \cup Range(before),
                                    x, pins)
      <3>5. ASSUME NEW x
            PROVE  /\ After(x) = [c \in Numbered |-> After(x)[c]]
                   /\ \A c \in Numbered :
                          After(x)[c] = IF c \in T THEN Given(x)[c] ELSE before[c]
        <4>1. s \in SourcesOf(S) /\ FirstNumber(s, starts) # 0 /\ k = Turn(S, s, starts)
          BY <3>2 DEF first
        <4> HIDE DEF before
        <4> QED  BY <4>1, TurnGives DEF T, first
      <3>6. \A c \in T : again[c] = m[c]
        <4>1. \A c \in T : c \in S /\ First(c) # 0
          BY <3>2 DEF first
        <4> HIDE DEF First, Used
        <4> QED  BY <4>1, <1>4
      <3>7. ASSUME NEW c \in T \ pins
            PROVE  /\ again[c] >= first /\ again[c] \notin used
                   /\ \A d \in T : Before(again, d, c) => again[d] # again[c]
        <4>1. /\ m[c] >= first /\ m[c] \notin used /\ first \in Nat /\ m[c] \in Nat
              /\ c \in S /\ c \notin pins
          BY <3>2, <3>7, <1>4 DEF first, used
        <4>2. ASSUME NEW d \in T, Before(again, d, c), again[d] = again[c]  PROVE FALSE
          <5>1. d # c
            BY <4>2, <3>2, NumbersAssumption, BeforeOrders
          <5>2. m[c] = m[d]
            BY <4>2, <3>6, <3>7
          <5>3. m[c] = 0
            BY <5>1, <5>2, <4>1, <3>2, <1>4
          <5> QED  BY <5>3, <4>1, <3>2
        <4> QED  BY <3>6, <4>1, <4>2
      <3>8. Sticky(T, again, first, used, again, pins) = [c \in T |-> again[c]]
        <4>1. \A c \in T \ pins : /\ again[c] >= first /\ again[c] \notin used
                                  /\ \A d \in T : Before(again, d, c) => again[d] # again[c]
          BY <3>7
        <4>2. T \in SUBSET Numbered
          BY <3>2
        <4> QED  BY <4>1, <4>2 DEF Sticky
      <3>9. \A c \in Numbered : After(again)[c] = IF c \in T THEN again[c] ELSE before[c]
        <4>1. {again[d] : d \in S \cap pins} \cup Range(before) = used
          BY <3>3, <3>4
        <4>2. Given(again) = [c \in T |-> again[c]]
          BY <4>1, <3>8
        <4> HIDE DEF After, Given
        <4> QED  BY <3>5, <4>2
      <3>10. \A c \in T : m[c] = Given(n)[c]
        <4>1. \A c \in T : m[c] = Sticky(T, n, first, used, n, pins)[c]
          BY <3>2, SourceGiven DEF T, first, used
        <4> QED  BY <4>1, <3>3
      <3> HIDE DEF After, Given
      <3>11. \A c \in Numbered : After(n)[c] = After(again)[c]
        BY <3>5, <3>6, <3>9, <3>10
      <3>12. After(n) = After(again)
        BY <3>5, <3>11
      <3> QED  BY <2>1, <3>12 DEF After
    <2> QED  BY <2>2, <2>3
  <1>6. Bad = {}
    <2>1. SUFFICES ASSUME Bad # {}  PROVE FALSE
      OBVIOUS
    <2> HIDE DEF maps, maps2, all
    <2>2. PICK j \in Bad : \A i \in Bad : j <= i
      <3>1. Bad \in SUBSET Nat
        BY <1>1
      <3> HIDE DEF Bad
      <3> QED  BY <2>1, <3>1, LeastNumber
    <2>3. j # 0
      BY <2>2, <1>1, <1>2, <1>3
    <2>4. j \in 0 .. all /\ j - 1 \in 0 .. all /\ (j - 1) + 1 = j /\ j - 1 \notin Bad
      BY <2>2, <2>3, <1>1
    <2>5. maps2[j - 1] = maps[j - 1]
      BY <2>4
    <2>6. maps2[j] = AfterTurn(S, again, pins, starts, maps[j - 1], j - 1)
      BY <2>3, <2>4, <2>5, <1>3
    <2>7. maps2[j] = maps[j]
      BY <2>4, <2>6, <1>5
    <2> QED  BY <2>2, <2>7
  <1>7. maps2[all] = maps[all]
    BY <1>1, <1>6
  <1> QED  BY <1>7 DEF SourceNumbers, SourcesOf

-----------------------------------------------------------------------------
\* Where the block of the channels with a Gracenote ID begins
GuideFirst(before) ==
    IF before # {} THEN Max(before) + 1 ELSE IF MasterStart # 0 THEN MasterStart ELSE 1

\* That block is given out like the others.
LEMMA GuideGives ==
  ASSUME NEW before \in SUBSET Nat, IsFiniteSet(before)
  PROVE  /\ GuideFirst(before) \in Nat
         /\ \A S, n, pins : GuideNumbers(S, n, pins, before) =
                                Sticky(S, n, GuideFirst(before), before, n, pins)
  <1>1. CASE before # {}
    <2>1. Max(before) \in Nat
      BY <1>1, GreatestNumber
    <2> QED  BY <1>1, <2>1 DEF GuideFirst, GuideNumbers
  <1>2. CASE before = {}
    BY <1>2, NumbersAssumption DEF GuideFirst, GuideNumbers
  <1> QED  BY <1>1, <1>2

\* The two maps a renumbering is made of
StdOf(V, G, n, pins, starts) == SourceNumbers(V \ G, n, pins, starts)
GuideOf(V, G, n, pins, starts) ==
    GuideNumbers(V \cap G, n, pins, Range(StdOf(V, G, n, pins, starts)) \ {0})

\* What the others get: pins are kept, and nothing is given out twice.
StdRules(V, G, n, pins, starts) ==
    LET std == StdOf(V, G, n, pins, starts)
        S == V \ G
    IN  /\ std \in [Numbered -> Nat]
        /\ \A c \in S : FirstNumber(Provider[c], starts) = 0 => std[c] = 0
        /\ \A c \in S : FirstNumber(Provider[c], starts) # 0 =>
               /\ c \in pins => std[c] = n[c]
               /\ c \notin pins => \A d \in S \cap pins : std[c] # n[d]
        /\ \A c \in S \ pins : \A d \in S \ {c} : std[c] = std[d] => std[c] = 0

\* These rules hold.
LEMMA StdOfGives ==
  ASSUME NEW V \in SUBSET Numbered, NEW G, NEW n \in [Numbered -> Nat], NEW pins,
         NEW starts \in [Providers -> Nat]
  PROVE  StdRules(V, G, n, pins, starts)
  <1> DEFINE S == V \ G
             std == StdOf(V, G, n, pins, starts)
  <1>1. S \in SUBSET Numbered /\ std = SourceNumbers(S, n, pins, starts)
    BY DEF StdOf
  <1> HIDE DEF S, std
  <1>2. SourceRules(S, n, pins, starts, std)
    BY <1>1, SourceNumbersGive
  <1>3. \A c \in S : c \in Numbered
    BY <1>1
  <1> QED  BY <1>2, <1>3 DEF StdRules, SourceRules, S, std

\* What the Gracenote channels get: nothing that the others have, and among
\* themselves only the number of a pin that comes later.
GuideRules(V, G, n, pins, starts) ==
    LET std == StdOf(V, G, n, pins, starts)
        withIds == GuideOf(V, G, n, pins, starts)
        before == Range(std) \ {0}
        S == V \cap G
    IN  /\ before \in SUBSET Nat /\ IsFiniteSet(before)
        /\ withIds \in [S -> Nat]
        /\ \A c \in S \cap pins : withIds[c] = n[c]
        /\ \A c \in S \ pins : withIds[c] >= GuideFirst(before) /\ withIds[c] \notin before
        /\ \A c \in S \ pins : \A d \in Numbered : std[d] # 0 => withIds[c] # std[d]
        /\ \A c \in S \ pins : \A d \in S \ {c} :
               withIds[c] = withIds[d] => d \in pins /\ withIds[c] = n[c] /\ Before(n, c, d)

\* These rules hold as well.
LEMMA GuideOfGives ==
  ASSUME NEW V \in SUBSET Numbered, NEW G, NEW n \in [Numbered -> Nat], NEW pins,
         NEW starts \in [Providers -> Nat]
  PROVE  GuideRules(V, G, n, pins, starts)
  <1> DEFINE std == StdOf(V, G, n, pins, starts)
             withIds == GuideOf(V, G, n, pins, starts)
             before == Range(std) \ {0}
             S == V \cap G
  <1>1. std \in [Numbered -> Nat]
    <2>1. StdRules(V, G, n, pins, starts)
      BY StdOfGives
    <2> QED  BY <2>1 DEF StdRules
  <1>4. withIds = GuideNumbers(S, n, pins, before)
    BY DEF GuideOf
  <1> HIDE DEF std, withIds
  <1>2. before \in SUBSET Nat /\ IsFiniteSet(before)
    <2>1. Range(std) \in SUBSET Nat
      BY <1>1 DEF Range
    <2>2. IsFiniteSet(Range(std))
      BY <1>1, NumbersAssumption, FiniteRange
    <2> QED  BY <2>1, <2>2, FS_Difference
  <1>3. \A d \in Numbered : std[d] # 0 => std[d] \in before
    BY <1>1 DEF Range
  <1> HIDE DEF before
  <1>5. withIds = Sticky(S, n, GuideFirst(before), before, n, pins)
    BY <1>2, <1>4, GuideGives
  <1>6. GuideFirst(before) \in Nat /\ S \in SUBSET Numbered
    BY <1>2, GuideGives
  <1> HIDE DEF S
  <1> DEFINE first == GuideFirst(before)
  <1> HIDE DEF first
  <1>7. /\ withIds \in [S -> Nat]
        /\ \A c \in S \cap pins : withIds[c] = n[c]
        /\ \A c \in S \ pins : withIds[c] >= first /\ withIds[c] \notin before
        /\ \A c \in S \ pins : \A d \in S \ {c} :
               withIds[c] = withIds[d] => d \in pins /\ withIds[c] = n[c] /\ Before(n, c, d)
    <2>1. withIds = Sticky(S, n, first, before, n, pins) /\ first \in Nat
      BY <1>5, <1>6 DEF first
    <2>2. StickyRules(S, n, first, before, n, pins, withIds)
      BY <1>2, <1>6, <2>1, StickyGives
    <2> QED  BY <2>2 DEF StickyRules
  <1>8. \A c \in S \ pins : \A d \in Numbered : std[d] # 0 => withIds[c] # std[d]
    BY <1>3, <1>7
  <1> QED  BY <1>2, <1>7, <1>8 DEF GuideRules, before, S, withIds, std, first

\* Channel.number after a renumbering, channel by channel
AutoRules(V, G, n, pins, starts) ==
    LET a == AutoNumbers(V, G, n, pins, starts)
        std == StdOf(V, G, n, pins, starts)
        withIds == GuideOf(V, G, n, pins, starts)
    IN  /\ a \in [Numbered -> Nat]
        /\ a = [c \in Numbered |-> IF c \notin V \ pins THEN n[c]
                                   ELSE IF c \in G THEN withIds[c] ELSE std[c]]
        /\ \A c \in Numbered : c \notin V \ pins => a[c] = n[c]
        /\ \A c \in V \ pins : a[c] = IF c \in G THEN withIds[c] ELSE std[c]

\* So it is.
LEMMA AutoNumbersAre ==
  ASSUME NEW V \in SUBSET Numbered, NEW G, NEW n \in [Numbered -> Nat], NEW pins,
         NEW starts \in [Providers -> Nat]
  PROVE  AutoRules(V, G, n, pins, starts)
  <1> DEFINE a == AutoNumbers(V, G, n, pins, starts)
             std == StdOf(V, G, n, pins, starts)
             withIds == GuideOf(V, G, n, pins, starts)
  <1>1. a = [c \in Numbered |->
                IF c \notin V \ pins THEN n[c] ELSE IF c \in G THEN withIds[c] ELSE std[c]]
    BY DEF AutoNumbers, StdOf, GuideOf
  <1>2. std \in [Numbered -> Nat] /\ withIds \in [V \cap G -> Nat]
    <2>1. StdRules(V, G, n, pins, starts) /\ GuideRules(V, G, n, pins, starts)
      BY StdOfGives, GuideOfGives
    <2> QED  BY <2>1 DEF StdRules, GuideRules
  <1> HIDE DEF a, std, withIds
  <1>3. \A c \in V \cap G : withIds[c] \in Nat
    BY <1>2
  <1>4. /\ a \in [Numbered -> Nat]
        /\ \A c \in Numbered : c \notin V \ pins => a[c] = n[c]
        /\ \A c \in V \ pins : a[c] = IF c \in G THEN withIds[c] ELSE std[c]
    BY <1>1, <1>2, <1>3
  <1> QED  BY <1>1, <1>4 DEF AutoRules, a, std, withIds

\* After a renumbering no automatic number is anybody else's, except that it may be
\* that of a pin that is not set aside.
AllDistinct(V, G, pins, starts, a) ==
    \A c \in V \ pins : \A d \in V \ {c} :
        a[c] = a[d] /\ a[c] # 0 =>
            /\ d \in pins
            /\ IF d \in G THEN c \in G => c < d
               ELSE c \in G /\ FirstNumber(Provider[d], starts) = 0

\* So it is.
LEMMA RenumberedDistinct ==
  ASSUME NEW V \in SUBSET Numbered, NEW G, NEW n \in [Numbered -> Nat], NEW pins,
         NEW starts \in [Providers -> Nat],
         NEW a, a = AutoNumbers(V, G, n, pins, starts)
  PROVE  AllDistinct(V, G, pins, starts, a)
  <1> SUFFICES ASSUME NEW c \in V \ pins, NEW d \in V \ {c}, a[c] = a[d], a[c] # 0
             PROVE  /\ d \in pins
                    /\ IF d \in G THEN c \in G => c < d
                       ELSE c \in G /\ FirstNumber(Provider[d], starts) = 0
    BY DEF AllDistinct
  <1> DEFINE std == StdOf(V, G, n, pins, starts)
             withIds == GuideOf(V, G, n, pins, starts)
  <1>0. /\ StdRules(V, G, n, pins, starts) /\ GuideRules(V, G, n, pins, starts)
        /\ AutoRules(V, G, n, pins, starts)
    BY StdOfGives, GuideOfGives, AutoNumbersAre
  <1> HIDE DEF std, withIds
  <1>1. /\ a \in [Numbered -> Nat]
        /\ \A e \in V \cap pins : a[e] = n[e]
        /\ \A e \in V \ pins : a[e] = IF e \in G THEN withIds[e] ELSE std[e]
    BY <1>0 DEF AutoRules, std, withIds
  <1>2. /\ std \in [Numbered -> Nat]
        /\ \A e \in V \ G : FirstNumber(Provider[e], starts) = 0 => std[e] = 0
        /\ \A e \in V \ G : FirstNumber(Provider[e], starts) # 0 =>
               /\ e \in pins => std[e] = n[e]
               /\ e \notin pins => \A x \in (V \ G) \cap pins : std[e] # n[x]
        /\ \A e \in (V \ G) \ pins : \A x \in (V \ G) \ {e} : std[e] = std[x] => std[e] = 0
    BY <1>0 DEF StdRules, std
  <1>3. /\ \A e \in (V \cap G) \cap pins : withIds[e] = n[e]
        /\ \A e \in (V \cap G) \ pins :
              /\ \A x \in Numbered : std[x] # 0 => withIds[e] # std[x]
              /\ \A x \in (V \cap G) \ {e} : withIds[e] = withIds[x] =>
                     x \in pins /\ withIds[e] = n[e] /\ Before(n, e, x)
    BY <1>0 DEF GuideRules, std, withIds
  <1>4. CASE c \notin G
    <2>1. a[c] = std[c] /\ FirstNumber(Provider[c], starts) # 0
      BY <1>1, <1>2, <1>4
    <2>2. d \in G
      <3>1. SUFFICES ASSUME d \notin G  PROVE FALSE
        OBVIOUS
      <3> QED  BY <1>1, <1>2, <1>4, <2>1, <3>1
    <2>3. d \in pins
      <3>1. SUFFICES ASSUME d \notin pins  PROVE FALSE
        OBVIOUS
      <3>2. a[d] = withIds[d] /\ d \in (V \cap G) \ pins /\ c \in Numbered
        BY <1>1, <2>2, <3>1
      <3>3. std[c] # 0 => withIds[d] # std[c]
        BY <1>3, <3>2
      <3> QED  BY <2>1, <3>2, <3>3
    <2> QED  BY <1>4, <2>2, <2>3
  <1>5. CASE c \in G /\ d \in G
    <2>1. a[c] = withIds[c] /\ a[d] = withIds[d]
      BY <1>1, <1>3, <1>5
    <2>2. d \in pins /\ withIds[c] = n[c] /\ Before(n, c, d)
      BY <1>3, <1>5, <2>1
    <2>3. n[c] = n[d]
      BY <1>1, <2>1, <2>2
    <2>4. c < d
      BY <2>2, <2>3, NumbersAssumption DEF Before
    <2> QED  BY <1>5, <2>2, <2>4
  <1>6. CASE c \in G /\ d \notin G
    <2>1. a[c] = withIds[c] /\ withIds[c] # 0
      BY <1>1, <1>6
    <2>2. std[d] # a[d]
      BY <1>3, <1>6, <2>1
    <2>3. d \in pins
      BY <1>1, <1>6, <2>2
    <2>4. FirstNumber(Provider[d], starts) = 0
      BY <1>1, <1>2, <1>6, <2>2, <2>3
    <2> QED  BY <1>6, <2>3, <2>4
  <1> QED  BY <1>4, <1>5, <1>6

\* In a renumbering a channel without a Gracenote ID loses a number of its source's
\* block only to those NumbersStick names.
LEMMA RenumberedSticks ==
  ASSUME NEW V \in SUBSET Numbered, NEW G, NEW n \in [Numbered -> Nat], NEW pins,
         NEW starts \in [Providers -> Nat],
         NEW a, a = AutoNumbers(V, G, n, pins, starts),
         NEW c \in V, c \notin pins, c \notin G, a[c] # n[c],
         FirstNumber(Provider[c], starts) # 0, n[c] >= FirstNumber(Provider[c], starts)
  PROVE  \E d \in V \ {c} : /\ a[d] = n[c]
                            /\ \/ d \in pins
                               \/ n[d] = n[c]
                               \/ Before(starts, Provider[d], Provider[c])
  <1> DEFINE std == StdOf(V, G, n, pins, starts)
             withIds == GuideOf(V, G, n, pins, starts)
             S == V \ G
  <1>1. std = SourceNumbers(S, n, pins, starts) /\ S \in SUBSET Numbered /\ c \in S
    BY DEF StdOf
  <1>0. /\ StdRules(V, G, n, pins, starts) /\ GuideRules(V, G, n, pins, starts)
        /\ AutoRules(V, G, n, pins, starts)
    BY StdOfGives, GuideOfGives, AutoNumbersAre
  <1> HIDE DEF std, withIds, S
  <1>2. /\ \A e \in S \cap pins : a[e] = n[e]
        /\ \A e \in S \ pins : a[e] = std[e]
    BY <1>0 DEF AutoRules, std, withIds, S
  <1>3. \A e \in S : FirstNumber(Provider[e], starts) # 0 =>
            (e \in pins => std[e] = n[e])
    <2>1. SourceRules(S, n, pins, starts, std)
      BY <1>1, SourceNumbersGive
    <2> QED  BY <2>1 DEF SourceRules
  <1>4. std[c] # n[c]
    BY <1>1, <1>2
  <1>5. \/ \E d \in S \cap pins : n[d] = n[c]
        \/ \E d \in S \ {c} : /\ FirstNumber(Provider[d], starts) # 0 /\ std[d] = n[c]
                              /\ n[d] = n[c] \/ Before(starts, Provider[d], Provider[c])
    BY <1>1, <1>4, SourceNumbersStay
  <1>6. S \in SUBSET V
    BY DEF S
  <1>7. CASE \E d \in S \cap pins : n[d] = n[c]
    BY <1>2, <1>6, <1>7
  <1>8. CASE \E d \in S \ {c} : /\ FirstNumber(Provider[d], starts) # 0 /\ std[d] = n[c]
                                /\ n[d] = n[c] \/ Before(starts, Provider[d], Provider[c])
    <2>1. PICK d \in S \ {c} : /\ FirstNumber(Provider[d], starts) # 0 /\ std[d] = n[c]
                               /\ n[d] = n[c] \/ Before(starts, Provider[d], Provider[c])
      BY <1>8
    <2>2. a[d] = n[c]
      BY <1>2, <1>3, <2>1
    <2> QED  BY <1>6, <2>1, <2>2
  <1> QED  BY <1>5, <1>7, <1>8

\* A second renumbering changes no number.
LEMMA RenumberedAgain ==
  ASSUME NEW V \in SUBSET Numbered, NEW G, NEW n \in [Numbered -> Nat], NEW pins,
         NEW starts \in [Providers -> Nat],
         NEW a, a = AutoNumbers(V, G, n, pins, starts)
  PROVE  AutoNumbers(V, G, a, pins, starts) = a
  <1> DEFINE std == StdOf(V, G, n, pins, starts)
             withIds == GuideOf(V, G, n, pins, starts)
             before == Range(std) \ {0}
             S == V \cap G
  <1>0. /\ StdRules(V, G, n, pins, starts) /\ GuideRules(V, G, n, pins, starts)
        /\ AutoRules(V, G, n, pins, starts)
    BY StdOfGives, GuideOfGives, AutoNumbersAre
  <1>1. StdOf(V, G, a, pins, starts) = std
    <2> DEFINE rest == V \ G
    <2> HIDE DEF std, withIds, before, S
    <2>1. /\ a \in [Numbered -> Nat]
          /\ \A c \in V \cap pins : a[c] = n[c]
          /\ \A c \in V \ pins : c \notin G => a[c] = std[c]
      BY <1>0 DEF AutoRules, std, withIds
    <2>2. \A c \in rest : a[c] = IF c \in pins THEN n[c] ELSE std[c]
      BY <2>1
    <2>3. /\ rest \in SUBSET Numbered
          /\ std = SourceNumbers(rest, n, pins, starts)
          /\ StdOf(V, G, a, pins, starts) = SourceNumbers(rest, a, pins, starts)
      BY DEF StdOf, std
    <2> HIDE DEF rest
    <2> QED  BY <2>1, <2>2, <2>3, SourceNumbersAgain
  <1>2. a \in [Numbered -> Nat] /\ \A c \in S : a[c] = withIds[c]
    <2> HIDE DEF std, withIds
    <2>1. /\ a \in [Numbered -> Nat]
          /\ \A c \in S \cap pins : a[c] = n[c]
          /\ \A c \in S \ pins : a[c] = withIds[c]
      BY <1>0 DEF AutoRules, std, withIds
    <2>2. \A c \in S \cap pins : withIds[c] = n[c]
      BY <1>0 DEF GuideRules, std, withIds
    <2> QED  BY <2>1, <2>2
  <1>3. /\ before \in SUBSET Nat /\ IsFiniteSet(before)
        /\ \A c \in S \ pins :
              /\ withIds[c] >= GuideFirst(before) /\ withIds[c] \notin before
              /\ \A d \in S \ {c} : withIds[c] = withIds[d] =>
                     d \in pins /\ withIds[c] = n[c] /\ Before(n, c, d)
    <2> HIDE DEF withIds
    <2> QED  BY <1>0 DEF GuideRules, withIds
  <1>4. \A c \in S \cap pins : withIds[c] = n[c]
    <2> HIDE DEF withIds
    <2> QED  BY <1>0 DEF GuideRules, withIds
  <1> HIDE DEF withIds, std, before
  <1>5. GuideOf(V, G, a, pins, starts) = Sticky(S, a, GuideFirst(before), before, a, pins)
    BY <1>1, <1>3, GuideGives DEF GuideOf, before
  <1>6. ASSUME NEW c \in S \ pins
        PROVE  /\ a[c] >= GuideFirst(before) /\ a[c] \notin before
               /\ \A d \in S : Before(a, d, c) => a[d] # a[c]
    <2>1. a[c] >= GuideFirst(before) /\ a[c] \notin before
      BY <1>2, <1>3, <1>6
    <2>2. ASSUME NEW d \in S, Before(a, d, c), a[d] = a[c]  PROVE FALSE
      <3>1. d < c /\ d # c
        BY <1>6, <2>2, <1>2, NumbersAssumption DEF Before
      <3>2. d \in pins /\ withIds[c] = n[c] /\ Before(n, c, d)
        BY <1>2, <1>3, <1>6, <2>2, <3>1
      <3>3. n[c] = n[d]
        BY <1>2, <1>4, <1>6, <2>2, <3>2
      <3>4. c < d
        BY <3>2, <3>3, NumbersAssumption DEF Before
      <3> QED  BY <1>6, <2>2, <3>1, <3>4, NumbersAssumption
    <2> QED  BY <2>1, <2>2
  <1>7. Sticky(S, a, GuideFirst(before), before, a, pins) = [c \in S |-> a[c]]
    <2>1. \A c \in S \ pins : /\ a[c] >= GuideFirst(before) /\ a[c] \notin before
                              /\ \A d \in S : Before(a, d, c) => a[d] # a[c]
      BY <1>6
    <2> QED  BY <2>1 DEF Sticky
  <1> DEFINE again == AutoNumbers(V, G, a, pins, starts)
             withIds2 == GuideOf(V, G, a, pins, starts)
  <1>8. withIds2 = [c \in S |-> a[c]]
    BY <1>5, <1>7
  <1>9. again = [c \in Numbered |->
                    IF c \notin V \ pins THEN a[c] ELSE IF c \in G THEN withIds2[c] ELSE std[c]]
    <2>1. AutoRules(V, G, a, pins, starts)
      BY <1>2, AutoNumbersAre
    <2> QED  BY <1>1, <2>1 DEF AutoRules
  <1> HIDE DEF withIds2, again
  <1>10. \A c \in Numbered : again[c] = a[c]
    <2>1. \A c \in (V \ pins) \ G : a[c] = std[c]
      BY <1>0 DEF AutoRules, std
    <2> QED  BY <1>8, <1>9, <2>1
  <1>11. again = a
    BY <1>2, <1>9, <1>10
  <1> QED  BY <1>11 DEF again

-----------------------------------------------------------------------------
\* What one half of a feed gets: pins are kept, the others are in the block, and whoever
\* has what was given out gets it again.
FeedRules(S, first, n, pins, rows) ==
    LET r == FeedNumbers(S, first, n, pins, rows, {})
    IN  /\ r \in [S -> Nat]
        /\ \A c \in S \cap pins : r[c] = n[c]
        /\ \A c \in S \ pins : r[c] >= first
        /\ \A again \in [Numbered -> Nat] :
               (\A c \in S : again[c] = r[c]) => FeedNumbers(S, first, n, pins, again, {}) = r

\* These rules hold.
LEMMA FeedGives ==
  ASSUME NEW S \in SUBSET Numbered, NEW first \in Nat, NEW n \in [Numbered -> Nat], NEW pins,
         NEW rows \in [Numbered -> Nat]
  PROVE  FeedRules(S, first, n, pins, rows)
  <1> DEFINE r == FeedNumbers(S, first, n, pins, rows, {})
             fixed == pins \cup {}
             Wanted(x) == [c \in Numbered |-> IF c \in pins THEN n[c] ELSE x[c]]
  <1>1. \A x : FeedNumbers(S, first, n, pins, x, {}) = Sticky(S, n, first, {}, Wanted(x), fixed)
    BY DEF FeedNumbers
  <1>2. \A x \in [Numbered -> Nat] : Wanted(x) \in [Numbered -> Nat]
    OBVIOUS
  <1>3. \A c : c \in fixed <=> c \in pins
    OBVIOUS
  <1>4. \A x \in [Numbered -> Nat] : \A c \in Numbered :
            Wanted(x)[c] = IF c \in pins THEN n[c] ELSE x[c]
    OBVIOUS
  <1>5. IsFiniteSet({})
    BY FS_EmptySet
  <1>6. r = Sticky(S, n, first, {}, Wanted(rows), fixed) /\ Wanted(rows) \in [Numbered -> Nat]
    BY <1>1, <1>2
  <1> HIDE DEF fixed, Wanted, r
  <1>7. /\ r \in [S -> Nat]
        /\ \A c \in S \cap fixed : r[c] = Wanted(rows)[c]
        /\ \A c \in S \ fixed : r[c] >= first
        /\ \A c \in S \ fixed : \A d \in S \ {c} :
               r[c] = r[d] => d \in fixed /\ Before(n, c, d)
    <2> DEFINE w == Wanted(rows)
               none == {}
    <2>1. r = Sticky(S, n, first, none, w, fixed) /\ w \in [Numbered -> Nat] /\ IsFiniteSet(none)
      BY <1>5, <1>6
    <2> HIDE DEF w, none
    <2>2. /\ r \in [S -> Nat]
          /\ \A c \in S \cap fixed : r[c] = w[c]
          /\ \A c \in S \ fixed : r[c] >= first /\ r[c] \notin none
          /\ \A c \in S \ fixed : \A d \in S \ {c} :
                 r[c] = r[d] => d \in fixed /\ r[c] = w[c] /\ Before(n, c, d)
      <3>1. StickyRules(S, n, first, none, w, fixed, r)
        BY <2>1, StickyGives
      <3> QED  BY <3>1 DEF StickyRules
    <2> QED  BY <2>2 DEF w
  <1>8. \A c \in S \cap pins : r[c] = n[c]
    BY <1>3, <1>4, <1>7
  <1>9. ASSUME NEW again \in [Numbered -> Nat], \A c \in S : again[c] = r[c]
        PROVE  FeedNumbers(S, first, n, pins, again, {}) = r
    <2> DEFINE w == Wanted(again)
    <2>1. w \in [Numbered -> Nat] /\ \A c \in S : w[c] = r[c]
      BY <1>2, <1>4, <1>8, <1>9
    <2> HIDE DEF w
    <2>2. ASSUME NEW c \in S \ fixed, NEW d \in S, Before(n, d, c)
          PROVE  w[d] # w[c]
      <3>1. d # c /\ ~Before(n, c, d)
        BY <2>2, NumbersAssumption, BeforeOrders
      <3> QED  BY <1>7, <2>1, <2>2, <3>1
    <2>3. \A c \in S \ fixed : /\ w[c] >= first /\ w[c] \notin {}
                               /\ \A d \in S : Before(n, d, c) => w[d] # w[c]
      BY <1>7, <2>1, <2>2
    <2>4. Sticky(S, n, first, {}, w, fixed) = [c \in S |-> w[c]]
      BY <2>3 DEF Sticky
    <2>5. [c \in S |-> w[c]] = r
      BY <1>7, <2>1
    <2> QED  BY <1>1, <2>4, <2>5 DEF w
  <1> HIDE DEF FeedNumbers
  <1> QED  BY <1>3, <1>7, <1>8, <1>9 DEF FeedRules, r

\* The block of a feed's Gracenote channels is not before the feed's own.
LEMMA GuideBlockIs ==
  ASSUME NEW first \in Nat, NEW V \in SUBSET Numbered, NEW G
  PROVE  GuideBlock(first, V, G) \in Nat /\ GuideBlock(first, V, G) >= first
  <1>1. IsFiniteSet((V \cap FeedLineup) \ G)
    BY NumbersAssumption, FS_Subset
  <1>2. Cardinality((V \cap FeedLineup) \ G) \in Nat
    BY <1>1, FS_CardinalityType
  <1> QED  BY <1>2 DEF GuideBlock

\* The rows of a feed after a renumbering: every channel of the feed has one, and a
\* second time they stay the same.
RowRules(V, G, n, pins, rows, first) ==
    LET f == FeedRows(V, G, n, pins, rows, first)
    IN  /\ f \in [Numbered -> Nat]
        /\ V = {} \/ first = 0 => f = rows
        /\ V # {} /\ first # 0 => \A c \in V \cap FeedLineup : c \notin pins \/ n[c] # 0 => f[c] # 0
        /\ FeedRows(V, G, n, pins, f, first) = f

\* So it is.
LEMMA FeedRowsAre ==
  ASSUME NEW V \in SUBSET Numbered, NEW G, NEW n \in [Numbered -> Nat], NEW pins,
         NEW rows \in [Numbered -> Nat], NEW first \in Nat
  PROVE  RowRules(V, G, n, pins, rows, first)
  <1> DEFINE f == FeedRows(V, G, n, pins, rows, first)
             lineup == V \cap FeedLineup
             S == lineup \ G
             T == lineup \cap G
             block == GuideBlock(first, V, G)
             std == FeedNumbers(S, first, n, pins, rows, {})
             withIds == FeedNumbers(T, block, n, pins, rows, {})
  <1>1. CASE V = {} \/ first = 0
    <2>1. \A x : FeedRows(V, G, n, pins, x, first) = x
      BY <1>1 DEF FeedRows
    <2> QED  BY <1>1, <2>1 DEF RowRules
  <1>2. CASE V # {} /\ first # 0
    <2>1. /\ S \in SUBSET Numbered /\ T \in SUBSET Numbered
          /\ \A c \in lineup : IF c \in G THEN c \in T ELSE c \in S
          /\ \A c \in S : c \in lineup /\ c \notin G
          /\ \A c \in T : c \in lineup /\ c \in G
          /\ lineup \in SUBSET Numbered
      OBVIOUS
    <2>2. block \in Nat /\ block >= first
      BY GuideBlockIs
    <2>3. \A x : FeedRows(V, G, n, pins, x, first) =
                   [c \in Numbered |-> IF c \notin lineup THEN 0
                                       ELSE IF c \in G THEN FeedNumbers(T, block, n, pins, x, {})[c]
                                       ELSE FeedNumbers(S, first, n, pins, x, {})[c]]
      BY <1>2 DEF FeedRows
    <2> HIDE DEF S, T, lineup, block
    <2>4. FeedRules(S, first, n, pins, rows) /\ FeedRules(T, block, n, pins, rows)
      BY <2>1, <2>2, FeedGives
    <2> HIDE DEF std, withIds, f
    <2>5. /\ std \in [S -> Nat]
          /\ \A c \in S \cap pins : std[c] = n[c]
          /\ \A c \in S \ pins : std[c] >= first
          /\ \A again \in [Numbered -> Nat] :
               (\A c \in S : again[c] = std[c]) => FeedNumbers(S, first, n, pins, again, {}) = std
      BY <2>4 DEF FeedRules, std
    <2>6. /\ withIds \in [T -> Nat]
          /\ \A c \in T \cap pins : withIds[c] = n[c]
          /\ \A c \in T \ pins : withIds[c] >= block
          /\ \A again \in [Numbered -> Nat] :
               (\A c \in T : again[c] = withIds[c]) => FeedNumbers(T, block, n, pins, again, {}) = withIds
      BY <2>4 DEF FeedRules, withIds
    <2>7. f = [c \in Numbered |-> IF c \notin lineup THEN 0
                                  ELSE IF c \in G THEN withIds[c] ELSE std[c]]
      BY <2>3 DEF f, std, withIds
    <2>8. f \in [Numbered -> Nat]
      BY <2>1, <2>5, <2>6, <2>7
    <2>9. (\A c \in S : f[c] = std[c]) /\ (\A c \in T : f[c] = withIds[c])
      BY <2>1, <2>7
    <2>10. \A c \in lineup : c \notin pins \/ n[c] # 0 => f[c] # 0
      <3>1. ASSUME NEW c \in lineup, c \notin pins \/ n[c] # 0  PROVE f[c] # 0
        <4>1. CASE c \in G
          BY <1>2, <2>1, <2>2, <2>6, <2>9, <3>1, <4>1
        <4>2. CASE c \notin G
          BY <1>2, <2>1, <2>5, <2>9, <3>1, <4>2
        <4> QED  BY <4>1, <4>2
      <3> QED  BY <3>1
    <2>11. /\ FeedNumbers(S, first, n, pins, f, {}) = std
           /\ FeedNumbers(T, block, n, pins, f, {}) = withIds
      BY <2>5, <2>6, <2>8, <2>9
    <2>12. FeedRows(V, G, n, pins, f, first) = f
      BY <2>3, <2>7, <2>11
    <2> QED  BY <1>2, <2>8, <2>10, <2>12 DEF RowRules, f, lineup
  <1> QED  BY <1>1, <1>2

-----------------------------------------------------------------------------
\* The inductive invariant: a pinned channel has a number, and after a renumbering
\* another one would change nothing.
NumbersIInv ==
    /\ NumbersTypeOK
    /\ \A c \in pinned : number[c] # 0
    /\ NumbersDistinct
    /\ renumbered =>
           /\ AutoNumbers(shown, guided, number, pinned, start) = number
           /\ FeedRows(shown, guided, number, pinned, feedRow, feedStart) = feedRow

\* What the types say of starts and numbers users may type.
LEMMA NumbersTyped ==
  ASSUME NumbersTypeOK
  PROVE  /\ start \in [Providers -> Nat] /\ feedStart \in Nat
         /\ number \in [Numbered -> Nat] /\ feedRow \in [Numbered -> Nat]
         /\ shown \in SUBSET Numbered /\ rowPinned \in SUBSET Numbered
         /\ UserNumbers \in SUBSET Nat
  <1>1. UserNumbers \in SUBSET Nat /\ UserNumbers \cup {0} \in SUBSET Nat
    BY NumbersAssumption
  <1>2. start \in [Providers -> Nat]
    <2>1. start \in [Providers -> UserNumbers \cup {0}]
      BY DEF NumbersTypeOK
    <2> QED  BY <1>1, <2>1
  <1>3. feedStart \in Nat
    BY <1>1 DEF NumbersTypeOK
  <1> QED  BY <1>1, <1>2, <1>3 DEF NumbersTypeOK

\* A step that renumbers keeps the invariant, whatever the numbers n and the rows were
\* and whatever is shown.
LEMMA RenumberKeeps ==
  ASSUME NumbersTypeOK, NEW V \in SUBSET Numbered, NEW n \in [Numbered -> Nat],
         NEW rows \in [Numbered -> Nat],
         \A c \in pinned : n[c] # 0,
         Renumber(V, n, rows), shown' = V, edits' \in 0 .. MaxNumberEdits,
         UNCHANGED <<pinned, guided, start, feedStart>>
  PROVE  NumbersIInv'
  <1> DEFINE a == AutoNumbers(V, guided, n, pinned, start)
             f == FeedRows(V, guided, a, pinned, rows, feedStart)
  <1>1. /\ start \in [Providers -> Nat] /\ feedStart \in Nat
        /\ pinned \subseteq Numbered /\ guided \subseteq Numbered
        /\ rowPinned \in SUBSET Numbered
    BY NumbersTyped DEF NumbersTypeOK
  <1>2. number' = a /\ feedRow' = f /\ renumbered' = TRUE
    BY DEF Renumber
  <1>3. AutoRules(V, guided, n, pinned, start)
    BY <1>1, AutoNumbersAre
  <1>4. a \in [Numbered -> Nat] /\ \A c \in pinned : a[c] = n[c]
    BY <1>1, <1>3 DEF AutoRules
  <1>5. AutoNumbers(V, guided, a, pinned, start) = a
    BY <1>1, RenumberedAgain
  <1>6. \A c \in V \ pinned : \A d \in V \ {c} :
            a[c] = a[d] /\ a[c] # 0 =>
                /\ d \in pinned
                /\ IF d \in guided THEN c \in guided => c < d
                   ELSE c \in guided /\ FirstNumber(Provider[d], start) = 0
    <2>1. a = AutoNumbers(V, guided, n, pinned, start)
      OBVIOUS
    <2> HIDE DEF a
    <2>2. AllDistinct(V, guided, pinned, start, a)
      BY <1>1, <2>1, RenumberedDistinct
    <2> QED  BY <2>2 DEF AllDistinct
  <1> HIDE DEF a
  <1>7. RowRules(V, guided, a, pinned, rows, feedStart)
    BY <1>1, <1>4, FeedRowsAre
  <1>8. /\ f \in [Numbered -> Nat]
        /\ V = {} \/ feedStart = 0 => f = rows
        /\ V # {} /\ feedStart # 0 =>
               \A c \in V \cap FeedLineup : c \notin pinned \/ a[c] # 0 => f[c] # 0
        /\ FeedRows(V, guided, a, pinned, f, feedStart) = f
    BY <1>7 DEF RowRules
  <1> HIDE DEF f
  <1>9. rowPinned' \subseteq {c \in Numbered : f[c] # 0}
    <2>1. ASSUME NEW c \in rowPinned'  PROVE c \in Numbered /\ f[c] # 0
      <3>1. c \in rowPinned /\ rows[c] # 0 /\ (V = {} \/ feedStart = 0 \/ c \in V \cap FeedLineup)
        BY <2>1 DEF Renumber
      <3>2. c \notin pinned \/ a[c] # 0
        BY <1>4
      <3> QED  BY <1>1, <1>8, <3>1, <3>2
    <2> QED  BY <2>1
  <1>10. NumbersTypeOK'
    BY <1>1, <1>2, <1>4, <1>8, <1>9 DEF NumbersTypeOK
  <1>11. NumbersDistinct'
    BY <1>2, <1>6 DEF NumbersDistinct
  <1>12. \A c \in pinned' : number'[c] # 0
    BY <1>2, <1>4
  <1>13. /\ AutoNumbers(shown', guided', number', pinned', start') = number'
         /\ FeedRows(shown', guided', number', pinned', feedRow', feedStart') = feedRow'
    BY <1>2, <1>5, <1>8
  <1> QED  BY <1>10, <1>11, <1>12, <1>13 DEF NumbersIInv

\* Every step keeps it.
LEMMA NumbersStep ==
  ASSUME NumbersIInv, [NumbersNext]_numbersVars
  PROVE  NumbersIInv'
  <1>1. /\ start \in [Providers -> Nat] /\ feedStart \in Nat
        /\ number \in [Numbered -> Nat] /\ feedRow \in [Numbered -> Nat]
        /\ shown \in SUBSET Numbered /\ rowPinned \in SUBSET Numbered
        /\ NumbersTypeOK /\ \A c \in pinned : number[c] # 0
    BY NumbersTyped DEF NumbersIInv
  <1>2. MaxNumberEdits \in Nat /\ edits \in 0 .. MaxNumberEdits /\ UserNumbers \subseteq Nat \ {0}
    BY <1>1, NumbersAssumption DEF NumbersTypeOK
  <1>3. NumbersEdit => edits' \in 0 .. MaxNumberEdits
    BY <1>2 DEF NumbersEdit
  <1>4. CASE NumbersScrape
    <2>1. PICK V \in SUBSET Numbered : shown' = V /\ Renumber(V, number, feedRow)
      BY <1>4 DEF NumbersScrape
    <2>2. UNCHANGED <<pinned, guided, start, feedStart>> /\ edits' \in 0 .. MaxNumberEdits
      BY <1>2, <1>4 DEF NumbersScrape
    <2> QED  BY <1>1, <2>1, <2>2, RenumberKeeps
  <1>5. CASE NumbersReset
    <2> DEFINE afresh == {c \in shown \ pinned : start[Provider[c]] = 0 \/ c \in guided}
               n == [c \in Numbered |-> IF c \in afresh THEN 0 ELSE number[c]]
    <2>1. /\ Renumber(shown, n, feedRow) /\ shown' = shown /\ NumbersEdit
          /\ UNCHANGED <<pinned, guided, start, feedStart>>
      BY <1>5 DEF NumbersReset
    <2>2. n \in [Numbered -> Nat] /\ \A c \in pinned : n[c] # 0
      BY <1>1 DEF NumbersTypeOK
    <2> HIDE DEF n
    <2> QED  BY <1>1, <1>3, <2>1, <2>2, RenumberKeeps
  <1>6. CASE NumbersFeedReset
    <2> DEFINE rows == [c \in Numbered |-> 0]
    <2>1. /\ Renumber(shown, number, rows) /\ shown' = shown /\ NumbersEdit
          /\ UNCHANGED <<pinned, guided, start, feedStart>>
      BY <1>6 DEF NumbersFeedReset
    <2>2. rows \in [Numbered -> Nat]
      OBVIOUS
    <2> HIDE DEF rows
    <2> QED  BY <1>1, <1>3, <2>1, <2>2, RenumberKeeps
  <1>7. ASSUME NEW c \in Numbered, NumbersPatch(c)  PROVE NumbersIInv'
    <2>1. /\ NumbersEdit /\ renumbered' = FALSE
          /\ UNCHANGED <<start, feedStart, feedRow, rowPinned>>
      BY <1>7 DEF NumbersPatch
    <2>2. /\ number' \in [Numbered -> Nat] /\ pinned' \subseteq Numbered
          /\ shown' \subseteq Numbered /\ guided' \subseteq Numbered
          /\ \A d \in pinned' : number'[d] # 0
      <3>1. CASE shown' = SymDiff(shown, {c}) /\ UNCHANGED <<guided, number, pinned>>
        BY <1>1, <1>7, <3>1 DEF NumbersTypeOK, SymDiff
      <3>2. CASE guided' = SymDiff(guided, {c}) /\ UNCHANGED <<shown, number, pinned>>
        BY <1>1, <1>7, <3>2 DEF NumbersTypeOK, SymDiff
      <3>3. CASE /\ \E n \in UserNumbers : number' = [number EXCEPT ![c] = n]
                 /\ pinned' = pinned \cup {c} /\ UNCHANGED <<shown, guided>>
        BY <1>1, <1>2, <1>7, <3>3 DEF NumbersTypeOK
      <3>4. CASE pinned' = pinned \ {c} /\ UNCHANGED <<shown, guided, number>>
        BY <1>1, <3>4 DEF NumbersTypeOK
      <3> QED  BY <1>7, <3>1, <3>2, <3>3, <3>4 DEF NumbersPatch
    <2>3. NumbersTypeOK'
      BY <1>1, <1>3, <2>1, <2>2 DEF NumbersTypeOK
    <2> QED  BY <2>1, <2>2, <2>3 DEF NumbersIInv, NumbersDistinct
  <1>8. ASSUME NEW c \in Numbered, NumbersFeedPin(c) \/ NumbersFeedClear(c)  PROVE NumbersIInv'
    <2>1. /\ NumbersEdit /\ renumbered' = FALSE
          /\ UNCHANGED <<number, pinned, shown, guided, start, feedStart>>
      BY <1>8 DEF NumbersFeedPin, NumbersFeedClear
    <2>2. PICK n \in Nat : /\ feedRow' = [feedRow EXCEPT ![c] = n]
                           /\ \/ n # 0 /\ rowPinned' = rowPinned \cup {c}
                              \/ rowPinned' = rowPinned \ {c}
      BY <1>2, <1>8 DEF NumbersFeedPin, NumbersFeedClear
    <2>3. feedRow' \in [Numbered -> Nat] /\ rowPinned' \subseteq {d \in Numbered : feedRow'[d] # 0}
      BY <1>1, <2>2 DEF NumbersTypeOK
    <2>4. NumbersTypeOK'
      BY <1>1, <1>3, <2>1, <2>3 DEF NumbersTypeOK
    <2> QED  BY <1>1, <2>1, <2>4 DEF NumbersIInv, NumbersDistinct
  <1>9. CASE NumbersMoveSource
    <2>1. start' \in [Providers -> UserNumbers \cup {0}]
      BY <1>1, <1>9 DEF NumbersMoveSource, NumbersTypeOK
    <2>2. /\ NumbersEdit /\ renumbered' = FALSE
          /\ UNCHANGED <<number, pinned, shown, guided, feedStart, feedRow, rowPinned>>
      BY <1>9 DEF NumbersMoveSource
    <2>3. NumbersTypeOK'
      BY <1>1, <1>3, <2>1, <2>2 DEF NumbersTypeOK
    <2> QED  BY <1>1, <2>2, <2>3 DEF NumbersIInv, NumbersDistinct
  <1>10. CASE NumbersMoveFeed
    <2>1. feedStart' \in UserNumbers \cup {0, 1}
      BY <1>10 DEF NumbersMoveFeed
    <2>2. /\ NumbersEdit /\ renumbered' = FALSE
          /\ UNCHANGED <<number, pinned, shown, guided, start, feedRow, rowPinned>>
      BY <1>10 DEF NumbersMoveFeed
    <2>3. NumbersTypeOK'
      BY <1>1, <1>3, <2>1, <2>2 DEF NumbersTypeOK
    <2> QED  BY <1>1, <2>2, <2>3 DEF NumbersIInv, NumbersDistinct
  <1>11. CASE UNCHANGED numbersVars
    BY <1>11 DEF numbersVars, NumbersIInv, NumbersTypeOK, NumbersDistinct
  <1> QED  BY <1>4, <1>5, <1>6, <1>7, <1>8, <1>9, <1>10, <1>11 DEF NumbersNext

\* At first nothing has a number and nothing was renumbered.
LEMMA NumbersStarts ==
  ASSUME NumbersInit
  PROVE  NumbersIInv
  <1>1. /\ number \in [Numbered -> Nat] /\ feedRow \in [Numbered -> Nat]
        /\ start \in [Providers -> UserNumbers \cup {0}]
        /\ rowPinned \subseteq {c \in Numbered : feedRow[c] # 0}
    BY DEF NumbersInit
  <1>2. edits \in 0 .. MaxNumberEdits
    BY NumbersAssumption DEF NumbersInit
  <1>3. NumbersTypeOK
    BY <1>1, <1>2 DEF NumbersInit, NumbersTypeOK
  <1> QED  BY <1>3 DEF NumbersInit, NumbersIInv, NumbersDistinct

\* After every renumbering of _refresh_auto_channel_numbers() an automatic number is
\* nobody else's, but for the pins its allocator cannot set aside.
THEOREM NumbersInvariant == NumbersSpec => []NumbersInv
  <1>1. NumbersInit => NumbersIInv
    BY NumbersStarts
  <1>2. NumbersIInv /\ [NumbersNext]_numbersVars => NumbersIInv'
    BY NumbersStep
  <1>3. NumbersIInv => NumbersInv
    BY DEF NumbersIInv, NumbersInv
  <1> QED  BY <1>1, <1>2, <1>3, PTL DEF NumbersSpec

\* A scrape takes an automatic number away only for the reasons NumbersStick names.
LEMMA StepSticks ==
  ASSUME NumbersIInv, [NumbersNext]_numbersVars, NumbersScraped,
         NEW c \in (shown' \cap shown) \ (pinned \cup guided), number'[c] # number[c]
  PROVE  LET first == FirstNumber(Provider[c], start)
         IN  \/ first = 0 \/ number[c] < first
             \/ \E d \in shown' \ {c} :
                   /\ number'[d] = number[c]
                   /\ \/ d \in pinned
                      \/ number[d] = number[c]
                      \/ Before(start, Provider[d], Provider[c])
  <1>1. /\ start \in [Providers -> Nat] /\ number \in [Numbered -> Nat]
        /\ shown \in SUBSET Numbered
    BY NumbersTyped DEF NumbersIInv
  <1>2. edits \in Nat
    BY NumbersAssumption DEF NumbersIInv, NumbersTypeOK
  <1>3. ~NumbersEdit
    BY <1>2 DEF NumbersEdit, NumbersScraped
  <1>4. NumbersScrape
    BY <1>3 DEF numbersVars, NumbersNext, NumbersMoveSource, NumbersMoveFeed, NumbersReset,
                NumbersFeedReset, NumbersPatch, NumbersFeedPin, NumbersFeedClear
  <1>5. PICK V \in SUBSET Numbered : shown' = V /\ Renumber(V, number, feedRow)
    BY <1>4 DEF NumbersScrape
  <1>6. number' = AutoNumbers(V, guided, number, pinned, start)
    BY <1>5 DEF Renumber
  <1> DEFINE first == FirstNumber(Provider[c], start)
             after == number'
  <1>7. c \in V /\ c \notin pinned /\ c \notin guided /\ after[c] # number[c]
    BY <1>5
  <1>8. first \in Nat /\ number[c] \in Nat
    BY <1>1, NumbersAssumption DEF FirstNumber, Providers, Range
  <1>9. CASE first # 0 /\ number[c] >= first
    <2> HIDE DEF after
    <2>1. after = AutoNumbers(V, guided, number, pinned, start)
      BY <1>6 DEF after
    <2>2. \E d \in V \ {c} : /\ after[d] = number[c]
                             /\ \/ d \in pinned
                                \/ number[d] = number[c]
                                \/ Before(start, Provider[d], Provider[c])
      BY <1>1, <1>7, <1>9, <2>1, RenumberedSticks
    <2> QED  BY <1>5, <2>2 DEF after
  <1> QED  BY <1>8, <1>9

\* Renumbered again with the same channels, everything stays.
LEMMA StepSettles ==
  ASSUME NumbersIInv, [NumbersNext]_numbersVars, NumbersScraped, renumbered, shown' = shown
  PROVE  UNCHANGED <<number, feedRow>>
  <1>1. edits \in Nat
    BY NumbersAssumption DEF NumbersIInv, NumbersTypeOK
  <1>2. ~NumbersEdit
    BY <1>1 DEF NumbersEdit, NumbersScraped
  <1>3. CASE NumbersScrape
    <2>1. PICK V \in SUBSET Numbered : shown' = V /\ Renumber(V, number, feedRow)
      BY <1>3 DEF NumbersScrape
    <2>2. number' = number
      BY <2>1 DEF Renumber, NumbersIInv
    <2>3. feedRow' = feedRow
      BY <2>1, <2>2 DEF Renumber, NumbersIInv
    <2> QED  BY <2>2, <2>3
  <1>4. CASE UNCHANGED numbersVars
    BY <1>4 DEF numbersVars
  <1> QED
    BY <1>2, <1>3, <1>4 DEF NumbersNext, NumbersMoveSource, NumbersMoveFeed, NumbersReset,
                NumbersFeedReset, NumbersPatch, NumbersFeedPin, NumbersFeedClear

\* Numbers are sticky, and renumbering settles at once: _refresh_auto_channel_numbers()
\* run twice with nothing in between changes no channel and no row of the feed.
THEOREM NumbersStay == NumbersSpec => NumbersStable
  <1>1. NumbersInit => NumbersIInv
    BY NumbersStarts
  <1>2. NumbersIInv /\ [NumbersNext]_numbersVars => NumbersIInv'
    BY NumbersStep
  <1> DEFINE Sticks ==
                NumbersScraped =>
                  \A c \in (shown' \cap shown) \ (pinned \cup guided) :
                    number'[c] # number[c] =>
                      LET first == FirstNumber(Provider[c], start)
                      IN  \/ first = 0 \/ number[c] < first
                          \/ \E d \in shown' \ {c} :
                                /\ number'[d] = number[c]
                                /\ \/ d \in pinned
                                   \/ number[d] = number[c]
                                   \/ Before(start, Provider[d], Provider[c])
             Settles == NumbersScraped /\ renumbered /\ shown' = shown
                            => UNCHANGED <<number, feedRow>>
  <1>3. NumbersIInv /\ [NumbersNext]_numbersVars => Sticks
    BY StepSticks
  <1>4. NumbersIInv /\ [NumbersNext]_numbersVars => Settles
    BY StepSettles
  <1>5. NumbersStable <=> [][Sticks]_numbersVars /\ [][Settles]_numbersVars
    BY DEF NumbersStable, NumbersStick, NumbersSettle
  <1> HIDE DEF Sticks, Settles
  <1> QED  BY <1>1, <1>2, <1>3, <1>4, <1>5, PTL DEF NumbersSpec
==============================================================================
