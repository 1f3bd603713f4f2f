SPECIFICATION FairSpec
CONSTANTS
    u1 = u1
    u2 = u2
    s1 = s1
    s2 = s2
    s3 = s3
    w1 = w1
    All = All
    None = None
    Unhashable = Unhashable
    Users <- TwoUsers
    Sockets <- ThreeSockets
    UserOf <- Reconnect
    Workers <- OneWorker
    WorkerOf <- Together
    MaxRelays = 1
    MaxFaults = 1
    Garbled = TRUE
CONSTRAINT TwoConnect
INVARIANTS
    DeliveredInOrder
    OnlyAddressees
    ListenerPerRoom
    ServedIsReachable
PROPERTIES
    ClosingIsAnnounced
    ReadIsDelivered
CHECK_DEADLOCK FALSE
