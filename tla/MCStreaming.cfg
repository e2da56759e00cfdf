SPECIFICATION StreamingSpec
CONSTANTS
    Channels = {c1, c2}
    Viewers = {v1, v2}
    Resters = {r1}
    MaxSessions = 2
    NoSession = NoSession
    pa = pa
    pb = pb
    q = q
    StitchWorkers = {g1, g2}
    StitchPlayers = {pa, pb, q}
    ChannelOf <- MCChannelOf
    Wrap = 8
    Threshold = 2
    Durations = {3}
    Gaps = {0, 1}
    MaxStates = 1
    MaxSegments = 3
    Stations = {a1}
    Tuners = {t1, t2}
    RokuCooldown = 2
    MaxTokens = 0
    MaxPlayIds = 1
    MaxForbidden = 2
    RokuLastTime = 3
    ResSites = {"sling", "localnow", "amazon", "distro", "stirr", "xumo", "tubi", "pluto", "tvpass", "stored"}
    ResLastTime = 4
    LocalNowLife = 2
    DistroLife = 1
    AmazonLife = 2
    PlutoLife = 3
    ResSlots = 2
SYMMETRY StreamingSymmetry
CHECK_DEADLOCK FALSE
INVARIANTS
    PoolInv
    StitchInv
    RokuInv
    ResolveInv
PROPERTIES
    PoolRestersYield
