CONSTANTS
    q1 = q1
    d1 = d1
    d2 = d2
    g1 = g1
    g2 = g2
    w1 = w1
    w2 = w2
    query = query
    document = document
    Nil = Nil
    Request = {q1, d1}
    Gateway = {g1}
    Worker = {w1}
    Lane = {query, document}
    LaneOf <- TwoLanes
    WorkerLane <- DocumentWorkers
    Tokens <- SmallTokens
    Budget <- BudgetTwo
    MaxItems <- MaxItemsTwo
    Faults = {}
SPECIFICATION MetricsSpec
INVARIANTS
    GaugeCountsItsLane
