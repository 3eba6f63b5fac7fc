CONSTANTS
    a1 = a1
    w1 = w1
    w2 = w2
    Processors = {a1}
    Gateways = {}
    Workloads = {w1, w2}
    MaxEntries = 1
    MaxWrites = 4
    MaxDeletes = 0
    MaxExpiries = 0
    MaxFaults = 0
    MaxRestarts = 0
SPECIFICATION Spec

INVARIANT
    SuccessfulWriteIsServed
CHECK_DEADLOCK FALSE
