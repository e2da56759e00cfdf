SPECIFICATION ResSpec
CONSTANTS
    ResSites = {"distro"}
    ResLastTime = 4
    LocalNowLife = 2
    DistroLife = 1
    AmazonLife = 2
    PlutoLife = 3
    ResSlots = 1
INVARIANTS DeadIsConfirmed
CHECK_DEADLOCK FALSE
