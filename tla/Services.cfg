SPECIFICATION MCSpec
CONSTANTS
    Contexts <- MCContexts
    MaxClusters = 2
    MaxHistory = 3
    Workloads = {"u", "v", "w"}
    Tasks = {"s", "t"}
    MinInterval = 2
    MaxTracked = 2
    WarmTime = 5
    MaxRefreshes = 4
    org1 = org1
    org2 = org2
    cohort1 = cohort1
    cohort2 = cohort2
    publisher1 = publisher1
    publisher2 = publisher2
    Orgs = {org1, org2}
    Cohorts = {cohort1, cohort2}
    Publishers = {publisher1, publisher2}
    MinCohort = 1
    Epsilon = 1
    Quarterly = 1
    MaxLists = 2
    MaxMembers = 2
    MaxSpent = 2
    Models = {"mini", "large"}
    RequestIds = {"r1", "r2"}
    Rules <- MCRules
    Usages <- MCUsages
    Bills = {1, 7}
    MaxRules = 3
    Pods = {"p", "q"}
    Configs <- MCConfigs
    Requests <- MCRequests
    MaxSkew = 1
    MaxDelay = 1
    Limit = 2
    Window = 2
    CleanupOps = 3
    MaxBatch = 2
    MaxBytes = 2
    MaxTime = 3
    MaxRequests = 5
    HandledRequests = 2
    MaxFaults = 1
SYMMETRY Symmetry
INVARIANTS
    StrongestSurvives
    EvidenceDecides
    GuessesStayEstimates
    OneRefreshAtATime
    OverrunOnlyByRacingJoin
    BillingTruthStays
    WindowBound
    TokenBound
    
    ProductionGuarded
PROPERTIES
    IntervalRespected
    EveryContributorPays
    PastPricesStable
CHECK_DEADLOCK FALSE
