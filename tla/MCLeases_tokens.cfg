SPECIFICATION Spec
CONSTANTS
    w1 = w1
    w2 = w2
    w3 = w3
    j1 = j1
    j2 = j2
    b1 = b1
    b2 = b2
    b3 = b3
    h1 = h1
    h2 = h2
    h3 = h3
    g1 = g1
    g2 = g2
    g3 = g3
    p1 = p1
    p2 = p2
    NoWorker = NoWorker
    NoJob = NoJob
    Nobody = Nobody
    Workers <- MCWorkers
    Jobs <- MCJobs
    MaxAttempts = 2
    MaxClaims = 3
    Buyers <- MCBuyers
    Mixes <- MCMixes
    HoldLength = 1
    LastMinute = 3
    Holders <- MCHolders
    Ttl = 2
    Requests <- MCRequests
    Processes <- MCProcesses
    ProcessOf <- MCProcessOf
    Strategies <- MCStrategies
    RefillAttempts = 2
    MaxVersion = 2
    MaxLosses = 2
INVARIANTS
    TokensFollowAcquisitions
CHECK_DEADLOCK FALSE
