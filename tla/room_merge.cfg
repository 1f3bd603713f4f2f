SPECIFICATION Spec
CONSTANTS
    h = h
    u = u
    u2 = u2
    g = g
    r1 = r1
    r2 = r2
    w1 = w1
    w2 = w2
    Unset = Unset
    Host = h
    Users = {u}
    Guests = {}
    Requests = {r1, r2}
    Workers = {w1, w2}
    WorkerOf <- WorkerEach
    Caps = {2, 3}
    Operations = {"join", "config"}
    Faults = FALSE
PROPERTIES
    ConfigMerges
