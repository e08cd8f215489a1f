CONSTANTS
    query = query
    document = document
    i1 = i1
    i2 = i2
    bad = bad
    exporter = exporter
    r1 = r1
    r2 = r2
    Gateway = Gateway
    Nil = Nil
    Workloads <- QueryFirst
    Entry = {i1, bad, i2}
    EntryLane <- LaneOfEntry
    TokenCount <- Tokens
    Garbage = {bad}
    ScanLimit = 2
    Settings <- SomeRejected
    Exporter = {exporter}
    Request = {r1, r2}
    Endpoint <- Endpoints
    Deployments <- OneProcess
    MaxTime = 1
    Skew = 1
SPECIFICATION MonitorFairSpec
INVARIANTS
    MonitorTypeOK
    GatewayGaugesOfOneRequest
    ErrorsSetNothing
PROPERTIES
    GaugesConverge
