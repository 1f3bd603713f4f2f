SPECIFICATION Spec
SYMMETRY Exchange
CONSTANTS
    h = h
    u = u
    u2 = u2
    g = g
    r1 = r1
    r2 = r2
    w1 = w1
    w2 = w2
    Unset = Unset
    Host = h
    Users = {u}
    Guests = {g}
    Requests = {r1, r2}
    Workers = {w1, w2}
    WorkerOf <- WorkerEach
    Caps = {2}
    Operations = {"join", "leave", "admit", "end", "config"}
    Faults = TRUE
CONSTRAINT LockOnly
VIEW View
INVARIANTS
    AttendanceMatchesPresence
    EndedRoomIsClean
    GuestsNeedAdmission
    MembersHaveRows
    EndedWasAnnounced
PROPERTIES
    ImplementsContract
    EndedIsFinal
