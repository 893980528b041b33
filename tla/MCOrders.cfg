SPECIFICATION Spec
CONSTANTS
    r1 = r1
    r2 = r2
    r3 = r3
    r4 = r4
    ka = ka
    kb = kb
    s1 = s1
    alice = alice
    w1 = w1
    w2 = w2
    e1 = e1
    g1 = g1
    g2 = g2
    g3 = g3
    NoOne = NoOne
    Requests <- MCRequests
    Keys <- MCKeys
    Seats <- MCSeatIds
    Customers <- MCCustomers
    KeyOf <- MCKeyOf
    SeatOf <- MCSeatOf
    CustomerOf <- MCCustomerOf
    PoolSize = 2
    HoldMinutes = 1
    MaxClock = 2
    NoWorker = NoWorker
    NoEvent = NoEvent
    MaxTries = 2
    FailureThreshold = 2
    CooldownMs = 1
    Workers <- MCWorkers
    Events <- MCEvents
    MaxAttempts = 2
    MaxClaims = 3
    MaxLate = 1
    Sagas <- MCSagas
    Choreographed <- MCChoreographed
    Quantity <- MCQuantity
    Stock = 2
INVARIANTS
    OrdersSafe
    PipelineSafe
    StockConserved
    ShippedIsKept
    LogTellsTheTruth
PROPERTIES
    ImplementsService
    CheckoutsAndEventsEnd
    ChoreographyIsOrchestration
    SagasEnd
CHECK_DEADLOCK FALSE
