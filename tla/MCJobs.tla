------------------------------ MODULE MCJobs ------------------------------
(***************************************************************************)
(* What the jobs of the worker do, one component after another: each       *)
(* behaviour picks one and leaves the others as they begin.                *)
(***************************************************************************)
EXTENDS ScrapeJobs, ProgramGuide, ChannelNumbers, LogoCache, SourceConfig, ChannelFlags, TLC

VARIABLE working    \* the component that runs

jobsVars == <<working, scrapeJobVars, guideVars, numbersVars, logoVars, configVars, vars>>

\* Channels 1 and 2 are of one source, channel 3 of another.
MCProvider == 1 :> 1 @@ 2 :> 1 @@ 3 :> 2

JobsInit ==
    /\ working \in {"scrapes", "guide", "numbers", "logos", "config", "flags"}
    /\ ScrapeInit /\ (working # "scrapes" => recent = ScrapeSources)
    /\ GuideInit /\ NumbersInit /\ ConfigInit /\ Init
    /\ LogoInit
    /\ working # "logos" => /\ served = CHOOSE s \in [LogoUrls -> Kinds] :
                                            \A u, v \in LogoUrls : s[u] = s[v]
                            /\ image = served
                            /\ logo = CHOOSE l \in [LogoChannels -> LogoUrls] : TRUE

JobsNext ==
    /\ UNCHANGED working
    /\ \/ /\ working = "scrapes" /\ ScrapeNext
          /\ UNCHANGED <<guideVars, numbersVars, logoVars, configVars, vars>>
       \/ /\ working = "guide" /\ GuideNext
          /\ UNCHANGED <<scrapeJobVars, numbersVars, logoVars, configVars, vars>>
       \/ /\ working = "numbers" /\ NumbersNext
          /\ UNCHANGED <<scrapeJobVars, guideVars, logoVars, configVars, vars>>
       \/ /\ working = "logos" /\ LogoNext
          /\ UNCHANGED <<scrapeJobVars, guideVars, numbersVars, configVars, vars>>
       \/ /\ working = "config" /\ ConfigNext
          /\ UNCHANGED <<scrapeJobVars, guideVars, numbersVars, logoVars, vars>>
       \/ /\ working = "flags" /\ Next
          /\ UNCHANGED <<scrapeJobVars, guideVars, numbersVars, logoVars, configVars>>

JobsSpec == JobsInit /\ [][JobsNext]_jobsVars
=============================================================================
