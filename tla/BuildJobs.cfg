\* Every kind of fault; two builds share a namespace.
CONSTANTS
    t1 = t1
    t2 = t2
    j1 = j1
    j2 = j2
    Tenants <- OneTenant
    Jobs <- TwoJobs
    TenantOf <- SharedTenant
    MaxPolls = 2
    MaxPushes = 2
    Faults = {"create", "read", "db", "crash"}
SPECIFICATION FairSpec
CHECK_DEADLOCK FALSE
INVARIANTS
    TypeOK
    RowsHaveTenant
    RowExplainsItself
    PendingHasOwner
    EventMatchesRow
PROPERTIES
    TerminalFrozen
    ImplementsLifecycle
    BuildResolves
    RecordedIsAnnounced
