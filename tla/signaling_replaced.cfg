SPECIFICATION Spec
CONSTANTS
    u1 = u1
    u2 = u2
    s1 = s1
    s2 = s2
    s3 = s3
    w1 = w1
    All = All
    None = None
    Unhashable = Unhashable
    Users <- TwoUsers
    Sockets <- ThreeSockets
    UserOf <- Reconnect
    Workers <- OneWorker
    WorkerOf <- Together
    MaxRelays = 0
    MaxFaults = 0
    Garbled = FALSE
INVARIANT OpenSocketHasEntry
CHECK_DEADLOCK FALSE
