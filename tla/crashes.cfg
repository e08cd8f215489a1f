CONSTANTS
    q1 = q1
    d1 = d1
    d2 = d2
    g1 = g1
    g2 = g2
    w1 = w1
    w2 = w2
    query = query
    document = document
    Nil = Nil
    Request = {d1, d2}
    Gateway = {g1, g2}
    Worker = {w1}
    Lane = {document}
    LaneOf <- OneLane
    WorkerLane <- DocumentWorkers
    Tokens <- SharedTokens
    Budget <- BudgetTwo
    MaxItems <- MaxItemsTwo
    Faults = {"deadline", "worker_crash", "gateway_crash", "redis_loss", "listener_error", "ttl"}
SPECIFICATION Spec
INVARIANTS
    GenuineAnswers
    AtMostOnce
    RepliesGoHome
    BatchWithinBudget
PROPERTIES
    ImplementsApi
    ImplementsChildLife
