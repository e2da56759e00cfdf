SPECIFICATION JobsSpec
CONSTANTS
    ScrapeSources = {"a", "b"}
    Rotating = {"b"}
    Askers = {"w"}
    MaxScrapeCrashes = 1
    MaxScrapeLocks = 1
    MaxScrapeFailures = 0
    NoSource = NoSource
    LastTime = 4
    Lookahead = 3
    Grace = 1
    Horizon = 1
    Numbered = {1, 2, 3}
    Provider <- MCProvider
    FeedLineup = {1, 3}
    UserNumbers = {2}
    MasterStart = 1
    MaxNumberEdits = 2
    LogoUrls = {l1, l2}
    LogoChannels = {k1}
    Kinds = {jpeg, png}
    Fetchers = {web}
    Prewarmers = {}
    NoImage = NoImage
    EmptyFile = EmptyFile
    MaxReposts = 1
    MaxRebrands = 1
    MaxImageCrashes = 1
    Mergers = {m1, m2}
    Rewriters = {r}
    MaxPuts = 2
    MaxBusyCommits = 1
    Channels = {c1, c2, c3}
    Urls = {url}
    Keep = Keep
    MissThreshold = 2
    MinActive = 3
    MinSeen = 2
    AuditBatch = 2
    Work = {"scrapes"}
    MaxMissed = 2
CHECK_DEADLOCK FALSE
INVARIANTS
    ScrapeInv
    GuideInv
    NumbersInv
    LogoInv
PROPERTIES
    GuideHorizonStays
    NumbersStable
    ConfigForward
    NotDroppedEarly
    GlitchesDropFew
