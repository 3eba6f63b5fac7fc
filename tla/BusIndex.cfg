CONSTANTS
    k1 = k1
    k2 = k2
    k3 = k3
    k4 = k4
    k5 = k5
    t1 = t1
    h1 = h1
    p1 = p1
    p2 = p2
    Keys = {k1, k2, k3, k4, k5}
    Topics = {t1}
    Handlers = {h1}
    Publishers = {p1, p2}
    MaxEvents = 2
    DispatchSlots = 1
    MaxPublishes = 6
    a1 = a1
    a2 = a2
    w1 = w1
    w2 = w2
    w3 = w3
    Processors = {a1, a2}
    Gateways = {}
    Workloads = {w1, w2, w3}
    MaxEntries = 2
    MaxWrites = 3
    MaxDeletes = 1
    MaxExpiries = 1
    MaxFaults = 1
    MaxRestarts = 1

SPECIFICATION MCSpec

INVARIANTS
    LogHasNoDuplicates
    WindowIsConsistent
    PermitsConserved
    VersionsMatchCache

PROPERTIES
    EveryHandlerRuns

CHECK_DEADLOCK FALSE
