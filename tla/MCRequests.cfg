SPECIFICATION RequestsSpec
CONSTANTS
    scraper1 = scraper1
    player1 = player1
    stream1 = stream1
    stream2 = stream2
    stream3 = stream3
    Web = {}
    Scrapers = {scraper1}
    Refreshers = {"fast", "maintenance"}
    MaxVersion = 2
    MaxFaults = 2
    Streams = {stream1, stream2, stream3}
    Proxied = {stream1}
    Hasty = {stream2}
    Mute = {stream2, stream3}
    Players = {player1}
    MaxChanges = 1
    MaxHiccups = 1
    MaxLocked = 1
    NoStream = NoStream
CHECK_DEADLOCK FALSE
INVARIANT
    PlayInv
PROPERTIES
    NeverOlderAlone
    FeedsCatchUp
    PlayDisableSticks
    PlayRequestsSettle
