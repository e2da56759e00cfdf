SPECIFICATION FairSpec
CONSTANTS
    b1 = b1
    b2 = b2
    Builders <- MCBuilders
    Chunks = 2
    MaxTime = 2
    MaxVersion = 2
    MaxFaults = 1
INVARIANTS
    Inv
    QuietInvalidation
PROPERTIES
    NeverOlder
    Implements
    NothingHangs
