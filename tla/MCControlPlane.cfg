SPECIFICATION Spec
CONSTANTS
    k1 = k1
    k2 = k2
    k3 = k3
    CatalogueCalls = {k1, k2}
    Tenants = {"t1", "t2"}
    FreshKey = "new"
    MaxEdits = 1
    KindScopes <- MCKindScopes
    SchemaCalls = {k1, k2}
    Properties <- MCProperties
    MaxProperties = 2
    Users = {k1, k2}
    UserNames = {k1}
    Passwords = {k1, k2}
    AccountCalls = {k1, k2, k3}
    LIFETIME = 1
    MaxClock = 2
    NumSchemas = 2
    DiskSchemas <- MCDiskSchemas
    Proposals <- MCProposals
    Documents <- MCDocuments
    NoFile = none
    BrokenFile = broken
    Concepts = {k1, k2, k3}
    Edits = {k1, k2, k3}
    MAX_WALK = 3
INVARIANTS
    CyclesNeedOverlap
    
    TenantsAreGuarded
    SchemasAreTrusted
PROPERTY EditsEnd
CHECK_DEADLOCK FALSE
