CONSTANTS
    ana = ana
    ben = ben
    a1 = a1
    a2 = a2
    b1 = b1
    w1 = w1
    w2 = w2
    en = en
    fr = fr
    Users = {ana, ben}
    Sockets = {a1, b1}
    UserOf <- MCUserOf
    Workers = {w1}
    WorkerOf <- OneWorker
    Languages = {fr}
    LanguageOf <- MCLanguageOf
    Window = 0
    Talkers = {a1}
    MaxParts = 2
    MaxChunks = 2
    MaxFrames = 2
    MaxFaults = 1
SPECIFICATION FairSpec
INVARIANTS
    NumbersGrow
    StaleUnlessReconnected
    LagBounded
    NoConsumerLeft
PROPERTIES
    SessionEnds
    EveryFrameHeard
CHECK_DEADLOCK FALSE
