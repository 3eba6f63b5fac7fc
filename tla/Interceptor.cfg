CONSTANTS
    FailureThreshold = 1
    ResetTimeout = 1
    HalfOpenMaxProbes = 1
    g1 = g1
    g2 = g2
    q1 = q1
    q2 = q2
    Replicas = {g1, g2}
    RequestIds = {q1}
    Modes = {"passive", "advisory", "active"}
    MaxRequests = 3
SPECIFICATION Spec
SYMMETRY ReplicaSymmetry
INVARIANTS
    CountersAddUp
PROPERTIES
    ImplementsGateway
CHECK_DEADLOCK FALSE
