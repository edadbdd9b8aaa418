SPECIFICATION Spec
CONSTANTS
    Alarms = {a1}
    WorkflowIds = {w1}
    MaxInstant = 1
    MaxMessages = 2
    Orders = {o1, o2}
    Technicians = {t1}
    Deadlines = {0, 1}
    NoDeadline = none
    MaxDay = 2
    Templates = {p1}
    Nodes = {n1, n2}
    Runs = {r1}
    UnknownNode = n9
    UnknownTask = n9
    MaxMinute = 2
    StepIds = {s1, s2, s3}
    UnknownStep = s9
    Recipes <- MCRecipes
    IdemKeys = {k1, k2}
    MaxMoves = 9
    Roles = {"admin", "operator"}
    ApproverLists <- MCApprovers
    MaxEvaluations = 2
    MaxDecisions = 3
    MaxTick = 1
    Contents = {c1, c2}
    MaxEntries = 4
    MaxWall = 2
    Children = {x1, x2, x3}
    Trees <- MCTrees
    MAX_TREE_DEPTH = 8
    MAX_GRAPH_EDGES = 100
    Values = {0, 1, 5}
    NoValue = none
    Capabilities = {"p", "q"}
    CapabilityLists <- MCCapabilityLists
    Below <- MCBelow
    BoundAssets = {b1, b2}
    Bindings = {i1, i2, i3}
    Subjects = {"viewer"}
    Operations = {"read"}
    Resources = {"asset", "tool"}
    Contexts = {y1}
    MaxRules = 2
    s1 = s1
    s2 = s2
    s3 = s3
    x1 = x1
    x2 = x2
    x3 = x3
    k1 = k1
    k2 = k2
    LifecycleCallers = {k1, k2}
    ServiceCalls = {k1, k2}
    AdapterIds = {k1, k2}
    MAX_RETRIES = 2
    MAX_FAILURES = 2
    RESET_TIMEOUT = 1
    Points = {k1, k2}
    Callbacks = {k1, k2}
    EdgeIds = {k1, k2}
    ExternalIds = {k1, k2}
    Unparsable = {}
    Unreadable = {k2}
    BUFFER_SIZE = 2
    MaxPoints = 3
    MaxList = 2
    Beats = {k1, k2}
    MaxProvisions = 2
    Batches = {k1, k2}
    BATCH_SIZE = 3
    RefusedRows <- MCRefusedRows
    MaxConnects = 3
INVARIANTS
    ConnectionsAreTracked
    ReadingsAreKept
    RecordsTellWhatHappened
    StructuresAreSound
PROPERTIES
    FieldWorkEnds
    NothingIsUndone
CHECK_DEADLOCK FALSE
