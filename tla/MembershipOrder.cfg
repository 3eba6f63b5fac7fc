SPECIFICATION MCSpec
CONSTANTS
    Ids <- MCIds
    Keys <- MCKeys
    InferredType <- MCInferredType
    Workloads = {"arn"}
    Teams = {"team:a", "team:b"}
    People = {"person:p"}
    Jobs <- MCJobs
    Candidates <- MCCandidates
    Similar <- MCSimilar
    Seeds <- MCNoSeeds
    SeedOwner <- MCSeedOwner
    Policies <- MCPolicies
    CacheTTL = 1
    CacheMax = 1
    MinBootstrap = 1
    MinFull = 2
    MaxTime = 2
    MaxMoves = 2
    MaxEvents = 4
    StructureEvents = 3
INVARIANTS
    OneTeamAtATime
CHECK_DEADLOCK FALSE
