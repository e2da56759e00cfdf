SPECIFICATION Spec
CONSTANTS
    b1 = b1
    b2 = b2
    Builders <- MCBuilders
    Chunks = 1
    MaxTime = 3
    MaxVersion = 1
    MaxFaults = 0
INVARIANT
    EveryInvalidation
