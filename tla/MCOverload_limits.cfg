SPECIFICATION Spec
CONSTANTS
    c1 = c1
    c2 = c2
    c3 = c3
    c4 = c4
    k1 = k1
    k2 = k2
    q1 = q1
    q2 = q2
    q3 = q3
    v1 = v1
    v2 = v2
    p1 = p1
    p2 = p2
    p3 = p3
    b1 = b1
    b2 = b2
    Nobody = Nobody
    Callers <- MCCallers
    StormCallers <- MCStormCallers
    FailureThreshold = 3
    CooldownMs = 2
    Checkers <- MCCheckers
    BucketCapacity = 2
    RefillPerTick = 1
    MinTtl = 3
    WindowMs = 2
    Limit = 2
    MaxDelay = 1
    MaxTime = 9
    MaxAdmitted = 4
    Submissions <- MCSubmissions
    QueueWorkers <- MCQueueWorkers
    QueueCapacity = 2
    PoolClients <- MCPoolClients
    Backends <- MCBackends
    MaxConnections = 2
    OriginalPoolSize = 2
    SmallPoolSize = 1
    LargePoolSize = 2
INVARIANTS
    AdmitsAtMostN
CHECK_DEADLOCK FALSE
