CONSTANTS
    j1 = j1
    j2 = j2
    p1 = p1
    Jobs = {j1}
    Prds = {p1}
    PrdOf <- MCPrdOf
    Workers = {w1, w2}
    NoWorker = NoWorker
    NoJob = NoJob
    MaxAttempts = 3
    MaxRetries = 1
SPECIFICATION FairSpec
INVARIANTS TypeOK RowsAreConsistent UsageAccountsForClaims
PROPERTIES ImplementsContract JobsSettle
CHECK_DEADLOCK FALSE
