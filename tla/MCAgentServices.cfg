SPECIFICATION Spec
CONSTANTS
    Requests = {r1}
    Users = {u1, u2}
    TimeoutHours = {0, 1}
    MAX_WEBHOOK_RETRIES = 3
    MaxClock = 2
    MaxReads = 1
    Calls = {c1, c2}
    Executions = {e1, e2}
    Timeouts = {0, 2, 3}
    MAX_TIMEOUT = 2
    PollIntervals = {1}
    Lookups = {l1, l2}
    Asset1 = a1
    Asset2 = a2
    Assets = {a1, a2}
    Hierarchies <- MCHierarchies
    TreeDepths = {0, 2}
    MAX_CHILDREN = 2
    ModuleNames = {1, 2}
    ToolNames = {t1, t2}
    Tenants = {n1}
    MaxEdits = 3
    MaxText = 5
    MaxUnits = 4
    CHUNK_SIZE = 3
    MIN_CHUNK_SIZE = 2
    OVERLAPS = {0, 1, 2}
    REACH = 1
    QueryLimits = {1, 2, 3}
    QueryOffsets = {0, 1}
    RAW_LIMIT = 2
    MaxStored = 3
    MAX_RANGE = 0
    MaxTime = 1
INVARIANTS
    ApprovalsAreAccountable
    ToolsAnswerTruly
    ChunksCoverText
PROPERTIES
    StartedWorkEnds
CHECK_DEADLOCK FALSE
