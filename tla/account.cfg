SPECIFICATION HistorySpec
CONSTANTS
    r1 = r1
    r2 = r2
    Requests = {r1, r2}
    MaxFails = 2
    MaxPairs = 3
    MaxEras = 2
    MaxLinks = 2
    MaxFaults = 1
CONSTRAINTS
    OverlapOrFault
    ThirdPairByRefresh
    LockoutFirst
SYMMETRY RequestSymmetry
VIEW View
INVARIANTS
    SessionsFollowPassword
    SessionsNeedAccount
    OnePairPerLogin
    CounterIsPending
PROPERTIES
    AccountMovesForward
CHECK_DEADLOCK FALSE
