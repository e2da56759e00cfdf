--------------------------- MODULE MCStreaming ---------------------------
(***************************************************************************)
(* What goes on while channels are watched, one component after another:   *)
(* each behaviour picks one and leaves the others as they begin.           *)
(***************************************************************************)
EXTENDS PlutoPool, TsStitcher, RokuSession, ScraperResolvers, TLC

CONSTANTS pa, pb, q    \* players: pa and pb watch the same channel

VARIABLE watched    \* the component that runs

streamingVars == <<watched, poolVars, stitchVars, rokuVars, resolverVars>>

MCChannelOf == [p \in {pa, pb, q} |-> IF p = q THEN "b" ELSE "a"]

StreamingSymmetry ==
    Permutations(Channels) \cup Permutations(Viewers) \cup Permutations(StitchWorkers)
        \cup Permutations(Tuners)

StreamingInit ==
    /\ watched \in {"pool", "stitch", "roku", "resolvers"}
    /\ PoolInit /\ StitchInit /\ RokuInit /\ ResInit
    /\ watched # "resolvers" => resSite = CHOOSE s \in ResSites : TRUE

StreamingNext ==
    /\ UNCHANGED watched
    /\ \/ /\ watched = "pool" /\ PoolNext
          /\ UNCHANGED <<stitchVars, rokuVars, resolverVars>>
       \/ /\ watched = "stitch" /\ StitchNext
          /\ UNCHANGED <<poolVars, rokuVars, resolverVars>>
       \/ /\ watched = "roku" /\ RokuNext
          /\ UNCHANGED <<poolVars, stitchVars, resolverVars>>
       \/ /\ watched = "resolvers" /\ ResNext
          /\ UNCHANGED <<poolVars, stitchVars, rokuVars>>

StreamingSpec == StreamingInit /\ [][StreamingNext]_streamingVars
=============================================================================
