SPECIFICATION Spec
CONSTANTS
    h = h
    u = u
    u2 = u2
    g = g
    r1 = r1
    r2 = r2
    w1 = w1
    w2 = w2
    Unset = Unset
    Host = h
    Users = {u, u2}
    Guests = {}
    Requests = {r1, r2}
    Workers = {w1}
    WorkerOf <- AllOnOne
    Caps = {2}
    Operations = {"join"}
    Faults = FALSE
INVARIANTS
    CapacityHolds
