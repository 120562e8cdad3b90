\* One event, with every kind of fault.
CONSTANTS
    t1 = t1
    t2 = t2
    r1 = r1
    r2 = r2
    r3 = r3
    p1 = p1
    Tenants <- TwoTenants
    Regs <- ThreeRegs
    Owner <- Owners
    SecretAt <- Secrets
    Skew <- Clocks
    Posts <- OnePost
    TenantOf <- ForFirst
    Window = 1
    MaxTime = 2
    MaxReceipts = 2
    Faults = {"net", "db", "drip", "crash"}
SPECIFICATION FairSpec
CHECK_DEADLOCK FALSE
INVARIANTS
    AcceptedIsFresh
    OnlyStaleRejected
    SuccessMeansAccepted
    DoneIsRecorded
PROPERTIES
    EveryoneIsTried
