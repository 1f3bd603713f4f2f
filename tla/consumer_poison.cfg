SPECIFICATION FairSpec
CONSTANTS
    i1 = i1
    i2 = i2
    None = None
    Instances <- OneInstance
    LastOffset = 2
    Kinds <- AllKinds
    MaxAge = FALSE
    MaxRetries = 1
    MaxFaults = 0
PROPERTIES
    EverySettled
CHECK_DEADLOCK FALSE
