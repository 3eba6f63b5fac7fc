CONSTANTS
    FailureThreshold = 2
    ResetTimeout = 2
    HalfOpenMaxProbes = 2
    g1 = g1
    g2 = g2
    g3 = g3
    Replicas = {g1, g2, g3}
    MaxForces = 2
    MaxLeaks = 2

SPECIFICATION FairSpec

INVARIANTS
    ClosedMeansShortStreak
    SuccessesAreOwed

PROPERTIES
    OpenEnds
    RecoversOnceHealthy

CHECK_DEADLOCK FALSE
