CONSTANTS
    k1 = k1
    k2 = k2
    p1 = p1
    p2 = p2
    c1 = c1
    c2 = c2
    Keys = {k1}
    Publishers = {p1, p2}
    Consumers = {c1, c2}
    MaxPublishes = 2
    MaxExpiries = 1
    MaxFaults = 1
    MaxConsumerFaults = 2
    MaxRestarts = 2

SPECIFICATION FairSpec

INVARIANTS
    OncePerExpiry
    CommittedMeansSettled
    OncePerFetch

PROPERTIES
    SettledUnlessAllTasksEnd

CHECK_DEADLOCK FALSE
