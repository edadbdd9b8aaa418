SPECIFICATION Spec
CONSTANTS
    k1 = k1
    k2 = k2
    k3 = k3
    k4 = k4
    Twins = {k1, k2, k3, k4}
    Source = k1
    Target = k2
    MaxDepth = 2
    LIMIT = 2
    Relators = {k1}
    MaxLinks = 3
    MaxRemovals = 1
    Devices = {"d1", "d2"}
    DataPoints = {"p1"}
    Owner <- MCOwner
    HistoryTenants = {k1}
    Samples <- MCSamples
    Ingests = {k1, k2}
    MaxTime = 3
    PageSize = 1
    MaxBatch = 2
    Documents = {k1, k2, k3}
    Tokens <- MCTokens
    TOP_K = 2
    RRF_K = 60
    Scale = 238266
    BUDGET = 3
    MaxRelevance = 1
    Payers = {k1}
    MAX_RECORDS = 3
    KEEP_RECORDS = 2
    DAYS = 2
    MaxDay = 2
    MaxRecords = 5
    DAILY_LIMIT = 2
    MONTHLY_LIMIT = 3
    MaxResets = 1
    MaxPatch = 3
    MaxSnapshots = 3
INVARIANTS
    PathsFollowLinks
    RecordsAreComplete
    DocumentsAreServed
    WorkflowsAreSound
CHECK_DEADLOCK FALSE
