SPECIFICATION Spec
CONSTANTS
    v1 = v1
    v2 = v2
    w1 = w1
    w2 = w2
    e1 = e1
    e2 = e2
    s1 = s1
    s2 = s2
    s3 = s3
    m1 = m1
    m2 = m2
    a1 = a1
    Scenarios <- MCScenarios
    Ids <- MCIds
    BatchSizes <- MCBatchSizes
    MaxBatches = 1
    MaxRenames = 2
    Plans <- MCPlans
    SeededAt <- MCSeeded
    PageSize = 2
    MaxMutations = 2
    Months <- MCMonths
    MaxScripts = 4
    TableRows = 2
    Passes = 3
    Probers <- MCProbers
    MaxProbes = 2
    TrafficCount = 2
    PoolSize = 3
    MaxDbErrors = 1
    MaxForeign = 1
    NoWorker = NoWorker
    NoEvent = NoEvent
    Workers <- MCWorkers
    Events <- MCEvents
    MaxAttempts = 2
    MaxClaims = 2
    Senders <- MCSenders
    Messages <- MCMessageIds
    Accounts <- MCAccounts
    MessageOf <- MCMessageOf
    AccountOf <- MCAccountOf
    ModeOf <- MCModeOf
    MaxSends = 3
INVARIANTS
    SeedAlwaysRestores
CHECK_DEADLOCK FALSE
