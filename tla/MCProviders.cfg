SPECIFICATION ProvidersSpec
CONSTANTS
    PlexChannels = {"n", "x"}
    PlexGenres = {"news"}
    PlexGenreOf <- MCGenreOf
    PlexEnabled = {"n"}
    PlexLastTime = 6
    MaxPlexExpiries = 1
    MaxPlexLists = 1
    LineupChannels = {k1}
    LineupParts = 3
    LineupSites = {"xumo", "lg", "freelive", "vizio", "samsung", "vidaa", "hdhomerun", "m3u", "sling", "stirr", "distro", "localnow", "amazon", "tcl", "pluto", "tubi", "tubi login"}
    GuideStations = {1, 2, 3}
    GuideSlots = {1, 2}
    GuideKey <- MCGuideKey
    GuideRegion <- MCGuideRegion
    GuideBatch = 2
    GuideEnabled = {1, 2}
    MaxGuideFailures = 2
    GuideSites = {"xumo", "vizio", "samsung", "vidaa", "lg", "freelive", "distro", "m3u", "stirr", "sling", "localnow", "amazon", "tcl", "pluto", "tubi"}
    TvStations = {1, 2, 3}
    TvLineup <- MCTvLineup
    TvBatch = 2
    TvDays = 2
    TvDay = 2
    TvLastTime = 5
    TvRunners = {"job", "thread"}
    MaxTvRuns = 2
    GnChannels = {"a", "b"}
    GnNative = {"a"}
    GnMapped = {"b"}
    GnNamesakes = {"a", "b"}
    GnProcesses = {"web", "scheduler", "scraper"}
    MaxMapFetches = 1
    MaxGnEdits = 2
    MaxGnRestarts = 1
    MatchUrls = {"u1", "u2"}
    Guides <- MCGuides
    Noise = {"tv"}
    Brief = {"tv"}
    Begins <- MCBegins
    MatchChannels = {"t", "h"}
    MatchName <- MCMatchName
    MatchProviderKey <- MCMatchProviderKey
    MatchProcesses = {"w1", "w2"}
    NoKey = NoKey
    MaxMatchFailures = 1
    MaxMatchEdits = 1
CHECK_DEADLOCK FALSE
INVARIANTS
    PlexInv
    LineupInv
    GuideScraperInv
    TvtvInv
    GracenoteInv
    MatcherInv
