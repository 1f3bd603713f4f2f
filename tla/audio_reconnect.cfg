CONSTANTS
    ana = ana
    ben = ben
    a1 = a1
    a2 = a2
    b1 = b1
    w1 = w1
    w2 = w2
    en = en
    fr = fr
    Users = {ana, ben}
    Sockets = {a1, a2, b1}
    UserOf <- MCUserOf
    Workers = {w1}
    WorkerOf <- OneWorker
    Languages = {fr}
    LanguageOf <- MCLanguageOf
    Window = 1
    Talkers = {a1, a2}
    MaxParts = 2
    MaxChunks = 4
    MaxFrames = 4
    MaxFaults = 0
SPECIFICATION Spec
INVARIANTS
    OnlyStaleDropped
CHECK_DEADLOCK FALSE
