SPECIFICATION Spec
CONSTANTS
    c1 = c1
    c2 = c2
    c3 = c3
    u1 = u1
    u2 = u2
    Keep = Keep
    Channels <- OneChannel
    Urls <- OneUrl
    MissThreshold = 2
    MinActive = 50
    MinSeen = 25
    AuditBatch = 1
    Work <- ScrapesAuditsRequests
    MaxMissed = 0
INVARIANT
    FlaggedDropOut
