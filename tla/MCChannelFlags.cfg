SPECIFICATION Spec
CONSTANTS
    c1 = c1
    c2 = c2
    c3 = c3
    u1 = u1
    u2 = u2
    Keep = Keep
    Channels <- OneChannel
    Urls <- TwoUrls
    MissThreshold = 2
    MinActive = 50
    MinSeen = 25
    AuditBatch = 1
    Work <- AllWork
    MaxMissed = 2
SYMMETRY SymmetricUrls
INVARIANTS
    Inv
PROPERTIES
    OffStaysOff
    FlagsOutliveScrapes
    ScrapesSettleFlags
