--------------------------- MODULE MCProviders ---------------------------
(***************************************************************************)
(* What comes from the providers and the guides, one component after       *)
(* another: each behaviour picks one and leaves the others as they begin.  *)
(***************************************************************************)
EXTENDS PlexScraper, ScraperLineups, ScraperGuides, TvtvCache, GracenoteIds, GuideMatcher, TLC

VARIABLE provided    \* the component that runs

providersVars == <<provided, plexVars, lineupVars, scraperGuideVars, tvVars, gnVars, matcherVars>>

MCGenreOf == "n" :> {"news"} @@ "x" :> {}
MCGuideKey == <<1, 2, 1>>
MCGuideRegion == <<1, 1, 2>>

\* Stations 1 and 2 share a lineup, station 3 is in none.
MCTvLineup == 1 :> 1 @@ 2 :> 1 @@ 3 :> 0

\* Guides of two channels, one of which may have two names, for the comparison of
\* names; while requests overlap, the URLs serve two of them.
MCDisplayNames == {<<"fox">>, <<"foxy">>, <<"fox", "tv">>, <<"tv">>, <<"news", "fox">>}
MCGuides == {<<names, <<m>>>> : names \in {<<n>> : n \in MCDisplayNames} \cup (MCDisplayNames \X MCDisplayNames),
                                m \in MCDisplayNames}
MCBegins == {<<"fox", "foxy">>}
MCMatchName == "t" :> <<"fox">> @@ "h" :> <<"fox", "tv">>
MCMatchProviderKey == "t" :> NoKey @@ "h" :> <<"provider", 1>>

ProvidersInit ==
    /\ provided \in {"plex", "lineups", "guides", "tvtv", "gracenote", "matcher"}
    /\ PlexInit /\ plexPage = PlexChannels /\ (provided # "plex" => plexStored = PlexNone)
    /\ LineupInit
    /\ provided # "lineups" =>
          /\ site = CHOOSE s \in LineupSites : TRUE
          /\ offer = [p \in Parts |-> [c \in LineupChannels |-> "none"]]
    /\ GuideScraperInit
    /\ provided # "guides" => guideSite = (CHOOSE s \in GuideSites : TRUE) /\ onAir = {}
    /\ TvInit /\ GracenoteInit
    /\ serves = "u1" :> << <<<<"foxy">>>>, <<<<"fox", "tv">>>> >>
                @@ "u2" :> << <<<<"news", "fox">>>>, <<<<"foxy">>>> >>
    /\ MatcherInit

ProvidersNext ==
    /\ UNCHANGED provided
    /\ \/ /\ provided = "plex" /\ PlexNext
          /\ UNCHANGED <<lineupVars, scraperGuideVars, tvVars, gnVars, matcherVars>>
       \/ /\ provided = "lineups" /\ LineupNext
          /\ UNCHANGED <<plexVars, scraperGuideVars, tvVars, gnVars, matcherVars>>
       \/ /\ provided = "guides" /\ GuideScraperNext
          /\ UNCHANGED <<plexVars, lineupVars, tvVars, gnVars, matcherVars>>
       \/ /\ provided = "tvtv" /\ TvNext
          /\ UNCHANGED <<plexVars, lineupVars, scraperGuideVars, gnVars, matcherVars>>
       \/ /\ provided = "gracenote" /\ GracenoteNext
          /\ UNCHANGED <<plexVars, lineupVars, scraperGuideVars, tvVars, matcherVars>>
       \/ /\ provided = "matcher" /\ MatcherNext
          /\ UNCHANGED <<plexVars, lineupVars, scraperGuideVars, tvVars, gnVars>>

ProvidersSpec == ProvidersInit /\ [][ProvidersNext]_providersVars
=============================================================================
