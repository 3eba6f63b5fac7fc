CONSTANTS
    FailureThreshold = 2
    ResetTimeout = 2
    HalfOpenMaxProbes = 2
    g1 = g1
    g2 = g2
    g3 = g3
    Replicas = {g1, g2, g3}
    MaxForces = 0
    MaxLeaks = 1
SPECIFICATION Spec
INVARIANT
    BlockedOnlyWhileProbing
CHECK_DEADLOCK FALSE
