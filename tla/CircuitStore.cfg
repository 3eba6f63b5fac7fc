CONSTANTS
    FailureThreshold = 1
    ResetTimeout = 1
    HalfOpenMaxProbes = 1
    r1 = r1
    r2 = r2
    Replicas = {r1, r2}
    Methods = {"is_open", "record_success", "record_failure"}
    Epoch = 0
    MaxSkew = 1
    MaxTime = 1
    MaxCalls = 3
    MaxFaults = 1

SPECIFICATION FairSpec

INVARIANTS
    RecordsWellFormed
    HalfOpenAdmitsBounded
    FailOpensCounted

PROPERTIES
    FailureTimeWithinSkew
    ImplementsBreaker
    SomeCallReturns

CHECK_DEADLOCK FALSE
