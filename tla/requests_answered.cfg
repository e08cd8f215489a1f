CONSTANTS
    q1 = q1
    d1 = d1
    d2 = d2
    g1 = g1
    g2 = g2
    w1 = w1
    w2 = w2
    query = query
    document = document
    Nil = Nil
    Request = {d1}
    Gateway = {g1}
    Worker = {w1}
    Lane = {document}
    LaneOf <- OneLane
    WorkerLane <- DocumentWorkers
    Tokens <- PairTokens
    Budget <- BudgetTwo
    MaxItems <- MaxItemsTwo
    Faults = {"deadline", "vllm", "push_error", "listener_error", "stop", "worker_crash", "gateway_crash", "redis_loss", "retry"}
SPECIFICATION GatewayFairSpec
INVARIANTS
    AnswersMatchInputs
PROPERTIES
    FuturesSettleOnce
    EveryRequestAnswered
