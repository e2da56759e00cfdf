SPECIFICATION LiveSpec
CONSTANTS
    tuner1 = tuner1
    tuner2 = tuner2
    station1 = station1
    station2 = station2
    url1 = url1
    url2 = url2
    ScrapeSources = {"a"}
    Rotating = {}
    Askers = {"w"}
    MaxScrapeCrashes = 1
    MaxScrapeLocks = 1
    MaxScrapeFailures = 1
    NoSource = NoSource
    Channels = {"c1"}
    Viewers = {"v1", "v2"}
    Resters = {}
    MaxSessions = 2
    NoSession = NoSession
    Stations = {station1, station2}
    Tuners = {tuner1, tuner2}
    MaxTokens = 1
    MaxPlayIds = 0
    MaxForbidden = 0
    RokuCooldown = 1
    RokuLastTime = 0
    LogoUrls = {url1, url2}
    LogoChannels = {"k1"}
    Kinds = {jpeg}
    Fetchers = {"warm"}
    Prewarmers = {"warm"}
    NoImage = NoImage
    EmptyFile = EmptyFile
    MaxReposts = 0
    MaxRebrands = 1
    MaxImageCrashes = 0
CHECK_DEADLOCK FALSE
PROPERTIES
    ScrapeProgress
    PoolReaped
    RokuStaleUrlsGo
    LogosReturn
