---------------------------- MODULE GuideMatcher ----------------------------
(***************************************************************************)
(* The EPG matcher: app/epg_matcher.py, its requests in app/routes/api.py, *)
(* and what scrapes do to the key it writes.                               *)
(*                                                                         *)
(* A guide is a sequence of channels, a channel a sequence of display      *)
(* names, a name a sequence of words; of the file's syntax only that a     *)
(* guide cut off half-way lacks its later channels is kept.  The processes *)
(* of the web server share one file for the guides of all URLs; within a   *)
(* process a lock lets one request at a time look for the index.           *)
(***************************************************************************)
EXTENDS Naturals, SequencesExt

CONSTANTS
    MatchUrls,        \* URLs of guides
    Guides,           \* the guides these may serve
    Noise,            \* _NOISE, and words of one letter
    Brief,            \* words of two letters, which begin nothing
    Begins,           \* pairs of different words of which the first begins the second
    MatchChannels,    \* the channels of tvpass and hdhomerun
    MatchName,        \* their names
    MatchProviderKey, \* the key the provider's scrapes set, or NoKey
    MatchProcesses,   \* processes of the web server
    NoKey,
    MaxMatchFailures, \* bound: downloads that fail
    MaxMatchEdits     \* bound: requests that change a key

ASSUME MatchAssumption ==
    /\ Begins \subseteq (UNION {Range(n) : n \in Range(MatchName)}) \X
                        (UNION {Range(n) : n \in UNION {Range(c) : c \in UNION {Range(g) : g \in Guides}}})
    /\ Guides \subseteq Seq(Seq(Seq(STRING))) /\ MatchName \in [MatchChannels -> Seq(STRING)]
    /\ DOMAIN MatchProviderKey = MatchChannels
    /\ {MaxMatchFailures, MaxMatchEdits} \subseteq Nat

VARIABLES
    serves,      \* the guide each URL serves
    guideFile,   \* the file: whether it exists, whose guide it is, how much is there
    matchDoing,  \* of each process: the URL it downloads, or the keys it read for a match
    guideIndex,  \* _index and _index_url of each process, and whose guide was parsed
    guideKey,    \* Channel.guide_key
    typedKey,    \* history: the key the user gave a channel, while nothing else may set it
    crossed,   \* history: processes whose download failed or met that of another
    matchFailures, matchEdits

matcherVars == <<serves, guideFile, matchDoing, guideIndex, guideKey, typedKey, crossed,
                 matchFailures, matchEdits>>

NoGuide == "none"
Resting == [at |-> "rest", url |-> NoGuide, keys |-> [c \in MatchChannels |-> NoKey]]
NoIndex == [known |-> FALSE, url |-> NoGuide, of |-> NoGuide, upTo |-> 0]

MatcherInit ==
    /\ serves \in [MatchUrls -> Guides]
    /\ guideFile = [exists |-> FALSE, of |-> NoGuide, upTo |-> 0]
    /\ matchDoing = [p \in MatchProcesses |-> Resting]
    /\ guideIndex = [p \in MatchProcesses |-> NoIndex]
    /\ guideKey = MatchProviderKey
    /\ typedKey = [c \in MatchChannels |-> NoKey]
    /\ crossed = {}
    /\ matchFailures = 0 /\ matchEdits = 0

-----------------------------------------------------------------------------
\* Names

\* _tokens()
Tokens(name) == Range(name) \ Noise

\* _score(), in sixtieths, of a channel's name for one display name
NameScore(query, name) ==
    LET both == Cardinality(Tokens(query) \cap Tokens(name))
        either == Cardinality(Tokens(query) \cup Tokens(name))
        jaccard == (60 * both) \div either
        same == IF query = name THEN Min({60, jaccard + 24}) ELSE jaccard
        begun == /\ Len(query) = 1 /\ query[1] \notin Brief
                 /\ \E w \in Tokens(name) : w = query[1] \/ <<query[1], w>> \in Begins
    IN  IF Tokens(query) = {} \/ Tokens(name) = {} THEN 0
        ELSE IF begun THEN Min({60, same + 12}) ELSE same

Score(query, names) == Max({NameScore(query, n) : n \in Range(names)} \cup {0})

\* search(): the channels that have the whole name among their names or words, or
\* else those that share a word with it
Candidates(query, guide) ==
    LET Keys(c) == Range(guide[c]) \cup {<<w>> : w \in UNION {Tokens(n) : n \in Range(guide[c])}}
        exact == {c \in DOMAIN guide : query \in Keys(c)}
    IN  IF exact # {} THEN exact
        ELSE {c \in DOMAIN guide : \E w \in Tokens(query) : <<w>> \in Keys(c)}

\* auto_match(): one of the best candidates, 0 if none reaches 0.6
AutoMatch(query, guide) ==
    LET found == Candidates(query, guide)
        best == {c \in found : \A d \in found : Score(query, guide[c]) >= Score(query, guide[d])}
    IN  IF best # {} /\ Score(query, guide[Min(best)]) >= 36 THEN Min(best) ELSE 0

-----------------------------------------------------------------------------
\* The index

\* Faulty variant: any index will do.
IndexedAtAll(p, u) == guideIndex[p].known

\* get_index(u) finds the index of the last URL.
Indexed(p, u) == guideIndex[p].known /\ guideIndex[p].url = u

\* What p does to the file crosses those who write it or are about to parse it.
Crossed(p) == {q \in MatchProcesses \ {p} : matchDoing[q].at \in {"write", "parse"}}

\* _fetch_and_cache(): the answer is there, and the file is opened, ...
MatcherOpen(p, u) ==
    /\ matchDoing[p] = Resting /\ ~Indexed(p, u)
    /\ guideFile' = [exists |-> TRUE, of |-> u, upTo |-> 0]
    /\ matchDoing' = [matchDoing EXCEPT ![p] = [Resting EXCEPT !.at = "write", !.url = u]]
    /\ crossed' = (crossed \ {p}) \cup Crossed(p)
                    \cup {q \in {p} : \E r \in Crossed(p) : matchDoing[r].at = "write"}
    /\ UNCHANGED <<serves, guideIndex, guideKey, typedKey, matchFailures, matchEdits>>

\* ... written to its end, or as far as the download came before it broke off.
MatcherWrite(p) ==
    /\ matchDoing[p].at = "write"
    /\ LET u == matchDoing[p].url
       IN  /\ matchDoing' = [matchDoing EXCEPT ![p] = [Resting EXCEPT !.at = "parse", !.url = u]]
           /\ \E n \in 0 .. Len(serves[u]) :
                 LET broken == n # Len(serves[u])
                 IN  /\ broken => matchFailures < MaxMatchFailures
                     /\ matchFailures' = IF broken THEN matchFailures + 1 ELSE matchFailures
                     /\ guideFile' = [exists |-> TRUE, of |-> u, upTo |-> n]
                     /\ crossed' = crossed \cup Crossed(p)
                                     \cup (IF broken THEN {p} ELSE {})
    /\ UNCHANGED <<serves, guideIndex, guideKey, typedKey, matchEdits>>

\* A request that fails leaves the file of some earlier one to be parsed.
MatcherFail(p, u) ==
    /\ matchDoing[p] = Resting /\ ~Indexed(p, u)
    /\ matchFailures < MaxMatchFailures
    /\ matchFailures' = matchFailures + 1
    /\ matchDoing' = IF guideFile.exists
                     THEN [matchDoing EXCEPT ![p] = [Resting EXCEPT !.at = "parse", !.url = u]]
                     ELSE matchDoing
    /\ crossed' = crossed \cup {p}
    /\ UNCHANGED <<serves, guideFile, guideIndex, guideKey, typedKey, matchEdits>>

\* _parse_xmltv(): whatever the file holds is the index of the URL asked for.
MatcherParse(p) ==
    /\ matchDoing[p].at = "parse"
    /\ guideIndex' = [guideIndex EXCEPT ![p] =
                         [known |-> TRUE, url |-> matchDoing[p].url,
                          of |-> guideFile.of, upTo |-> guideFile.upTo]]
    /\ matchDoing' = [matchDoing EXCEPT ![p] = Resting]
    /\ UNCHANGED <<serves, guideFile, guideKey, typedKey, crossed, matchFailures, matchEdits>>

\* The guide that p has in memory
Known(p) == IF guideIndex[p].known
            THEN SubSeq(serves[guideIndex[p].of], 1, guideIndex[p].upTo) ELSE <<>>

-----------------------------------------------------------------------------
\* The keys

\* run_auto_match(u) reads the channels, ...
MatchBegin(p, u) ==
    /\ matchDoing[p] = Resting /\ Indexed(p, u)
    /\ matchDoing' = [matchDoing EXCEPT ![p] = [at |-> "match", url |-> u, keys |-> guideKey]]
    /\ UNCHANGED <<serves, guideFile, guideIndex, guideKey, typedKey, crossed,
                   matchFailures, matchEdits>>

\* ... and commits keys for those that had none.
MatchCommit(p) ==
    /\ matchDoing[p].at = "match"
    /\ LET Found(c) == AutoMatch(MatchName[c], Known(p))
           written == {c \in MatchChannels : matchDoing[p].keys[c] = NoKey /\ Found(c) # 0}
       IN  /\ guideKey' = [c \in MatchChannels |-> IF c \in written
                               THEN <<guideIndex[p].of, Found(c)>> ELSE guideKey[c]]
           /\ typedKey' = [c \in MatchChannels |->
                               IF c \in written /\ guideKey[c] # matchDoing[p].keys[c]
                               THEN NoKey ELSE typedKey[c]]
    /\ matchDoing' = [matchDoing EXCEPT ![p] = Resting]
    /\ UNCHANGED <<serves, guideFile, guideIndex, crossed, matchFailures, matchEdits>>

\* set-match, with a key or without, and clear-matches
MatchEdit ==
    /\ matchEdits < MaxMatchEdits
    /\ matchEdits' = matchEdits + 1
    /\ \/ \E c \in MatchChannels, k \in {NoKey, <<"user", 1>>} :
             guideKey' = [guideKey EXCEPT ![c] = k] /\ typedKey' = [typedKey EXCEPT ![c] = k]
       \/ /\ guideKey' = [c \in MatchChannels |-> NoKey]
          /\ typedKey' = [c \in MatchChannels |-> NoKey]
    /\ UNCHANGED <<serves, guideFile, matchDoing, guideIndex, crossed, matchFailures>>

\* A scrape sets the key of every channel whose provider sends one, matched or not.
MatchScrape ==
    /\ guideKey' = [c \in MatchChannels |-> IF MatchProviderKey[c] # NoKey
                                            THEN MatchProviderKey[c] ELSE guideKey[c]]
    /\ typedKey' = [c \in MatchChannels |-> IF MatchProviderKey[c] # NoKey
                                            THEN NoKey ELSE typedKey[c]]
    /\ UNCHANGED <<serves, guideFile, matchDoing, guideIndex, crossed, matchFailures,
                   matchEdits>>

MatcherNext ==
    \/ MatchEdit \/ MatchScrape
    \/ \E p \in MatchProcesses :
          \/ MatcherWrite(p) \/ MatcherParse(p) \/ MatchCommit(p)
          \/ \E u \in MatchUrls : MatcherOpen(p, u) \/ MatcherFail(p, u) \/ MatchBegin(p, u)

MatcherSpec == MatcherInit /\ [][MatcherNext]_matcherVars

-----------------------------------------------------------------------------
\* Type invariant
MatcherTypeOK ==
    /\ guideFile.upTo \in Nat /\ guideFile.exists \in BOOLEAN
    /\ \A p \in MatchProcesses :
          /\ matchDoing[p].at \in {"rest", "write", "parse", "match"}
          /\ guideIndex[p].known => guideIndex[p].url \in MatchUrls
    /\ crossed \subseteq MatchProcesses
    /\ matchFailures \in 0 .. MaxMatchFailures /\ matchEdits \in 0 .. MaxMatchEdits

\* Channels are matched with the whole of the guide asked for, unless its download
\* failed or met that of another process, as all of them share one file.
MatchedWithAsked ==
    \A p \in MatchProcesses \ crossed :
        matchDoing[p].at = "match" =>
            /\ guideIndex[p].of = matchDoing[p].url
            /\ guideIndex[p].upTo = Len(serves[matchDoing[p].url])

\* Looking words up instead of comparing every name misses nothing: what auto_match()
\* finds is the best of a whole guide, and if it finds nothing no channel would do.
NoneBetter ==
    \A guide \in Guides, query \in Range(MatchName) :
        LET found == AutoMatch(query, guide)
        IN  \A c \in DOMAIN guide :
                IF found = 0 THEN Score(query, guide[c]) < 36
                ELSE Score(query, guide[found]) >= Score(query, guide[c])

\* A match never takes the place of a key that the user set before it began.
TypedKeyStays == \A c \in MatchChannels : typedKey[c] # NoKey => guideKey[c] = typedKey[c]

MatcherInv == MatcherTypeOK /\ MatchedWithAsked /\ NoneBetter /\ TypedKeyStays
=============================================================================
