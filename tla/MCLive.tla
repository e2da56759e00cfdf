------------------------------ MODULE MCLive ------------------------------
(***************************************************************************)
(* What must happen in the end, one component after another: each          *)
(* behaviour picks one, which runs fairly, and leaves the others as they   *)
(* begin.                                                                  *)
(***************************************************************************)
EXTENDS ScrapeJobs, PlutoPool, RokuSession, LogoCache

CONSTANTS tuner1, tuner2, station1, station2, url1, url2

VARIABLE component    \* the component that runs

liveVars == <<component, scrapeJobVars, poolVars, rokuVars, logoVars>>

Scraping == component = "scrapes" /\ UNCHANGED <<component, poolVars, rokuVars, logoVars>>
Pooling == component = "pool" /\ UNCHANGED <<component, scrapeJobVars, rokuVars, logoVars>>
Tuning == component = "roku" /\ UNCHANGED <<component, scrapeJobVars, poolVars, logoVars>>
Caching == component = "logos" /\ UNCHANGED <<component, scrapeJobVars, poolVars, rokuVars>>

LiveInit ==
    /\ component \in {"scrapes", "pool", "roku", "logos"}
    /\ ScrapeInit /\ PoolInit /\ RokuInit /\ LogoInit
    /\ component # "scrapes" => recent = ScrapeSources
    /\ component # "logos" => image = served /\ \A c \in LogoChannels : logo[c] = url1

LiveNext ==
    \/ Scraping /\ ScrapeNext
    \/ Pooling /\ PoolNext
    \/ Tuning /\ RokuNext
    \/ Caching /\ LogoNext

\* The fairness of each component.  As only one of them runs in a behaviour,
\* a condition on the steps of several is one condition on each.
LiveFairness ==
    /\ WF_liveVars(\/ Scraping /\ ScrapeScheduler
                   \/ Pooling /\ PoolReaperStep
                   \/ Tuning /\ RokuRequest(tuner1)
                   \/ Caching /\ LogoEvict)
    /\ WF_liveVars(\/ Scraping /\ ScrapeStart
                   \/ Pooling /\ PoolScan({})
                   \/ Tuning /\ RokuRequest(tuner2)
                   \/ Caching /\ LogoSweep)
    /\ WF_liveVars(\/ Scraping /\ ScrapeJob
                   \/ Caching /\ \E f \in Fetchers : LogoFetch(f))
    /\ WF_liveVars(Scraping /\ \E a \in Askers : ScrapeTrigger(a))
    /\ WF_liveVars(Scraping /\ \E s \in ScrapeSources : ScrapeDue(s))
    /\ WF_liveVars(Scraping /\ \E s \in ScrapeSources : ScrapeForget(s))
    /\ SF_liveVars(\/ Pooling /\ \E idle \in SUBSET Channels : idle # {} /\ PoolScan(idle)
                   \/ Tuning /\ \E t \in Tuners : RokuOpen(t, station1)
                   \/ Caching /\ \E f \in Prewarmers : FetchBegin(f, url1))
    /\ SF_liveVars(\/ Tuning /\ \E t \in Tuners : RokuOpen(t, station2)
                   \/ Caching /\ \E f \in Prewarmers : FetchBegin(f, url2))
    /\ SF_liveVars(Caching /\ \E f \in temps : fetch[f].url = url1 /\ FetchReplace(f))
    /\ SF_liveVars(Caching /\ \E f \in temps : fetch[f].url = url2 /\ FetchReplace(f))

LiveSpec == LiveInit /\ [][LiveNext]_liveVars /\ LiveFairness
=============================================================================
