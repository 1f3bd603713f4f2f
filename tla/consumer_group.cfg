SPECIFICATION FairSpec
CONSTANTS
    i1 = i1
    i2 = i2
    None = None
    Instances <- TwoInstances
    LastOffset = 2
    Kinds <- AllKinds
    MaxAge = TRUE
    MaxRetries = 1
    MaxFaults = 2
INVARIANTS
    OnceUnlessDisturbed
PROPERTIES
    ImplementsOrderedLog
    SettledUnlessStalled
CHECK_DEADLOCK FALSE
