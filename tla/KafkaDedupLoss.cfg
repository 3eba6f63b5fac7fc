CONSTANTS
    k1 = k1
    k2 = k2
    p1 = p1
    p2 = p2
    c1 = c1
    c2 = c2
    Keys = {k1}
    Publishers = {p1}
    Consumers = {c1}
    MaxPublishes = 2
    MaxExpiries = 0
    MaxFaults = 1
    MaxConsumerFaults = 0
    MaxRestarts = 0
SPECIFICATION Spec

INVARIANT
    AnsweredMeansLogged
CHECK_DEADLOCK FALSE
