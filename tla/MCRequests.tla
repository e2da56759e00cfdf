----------------------------- MODULE MCRequests -----------------------------
(***************************************************************************)
(* What is asked of the program and must settle: edits that ask for new    *)
(* files, and clients that ask for a channel, one after the other: each    *)
(* behaviour picks one and leaves the other as it begins.                  *)
(***************************************************************************)
EXTENDS RefreshJobs, PlayFailover

CONSTANTS scraper1, player1, stream1, stream2, stream3

VARIABLE asking    \* who asks

requestVars == <<asking, vars, playVars>>

Editing == asking = "edits" /\ UNCHANGED <<asking, playVars>>
Watching == asking = "streams" /\ UNCHANGED <<asking, vars>>

RequestsInit ==
    /\ asking \in {"edits", "streams"}
    /\ Init /\ PlayInit
    /\ asking = "edits" => on = {} /\ dead = {}
    /\ asking = "streams" => on = Streams /\ m3u = data

RequestsNext ==
    \/ Editing /\ Next
    \/ Watching /\ PlayNext

\* The fairness of both.  As only one of them runs in a behaviour, a condition on
\* the steps of both is one condition on each.
RequestsFairness ==
    /\ WF_requestVars(\/ Editing /\ Asking(scraper1)
                      \/ Watching /\ PlayAnswer(player1))
    /\ WF_requestVars(\/ Editing /\ Edit(scraper1, {})
                      \/ Watching /\ PlayJob(stream1))
    /\ WF_requestVars(\/ Editing /\ Rewriting("fast")
                      \/ Watching /\ PlayJob(stream2))
    /\ WF_requestVars(\/ Editing /\ Rewriting("maintenance")
                      \/ Watching /\ PlayJob(stream3))
    /\ WF_requestVars(Editing /\ Dequeue)
    /\ WF_requestVars(Editing /\ (Start \/ Skip))
    /\ WF_requestVars(Editing /\ Restart)
    /\ WF_requestVars(Editing /\ Grow)
    /\ SF_requestVars(Editing /\ Sweep)

RequestsSpec == RequestsInit /\ [][RequestsNext]_requestVars /\ RequestsFairness
=============================================================================
