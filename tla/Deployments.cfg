\* Every kind of fault; the tenant's own build and another tenant's.
CONSTANTS
    t1 = t1
    t2 = t2
    b1 = b1
    b2 = b2
    b3 = b3
    d1 = d1
    d2 = d2
    Tenants <- TwoTenants
    Builds <- OwnAndForeign
    BuildOwner <- OwnAndForeignOwner
    Deploys <- TwoDeploys
    TenantOf <- SharedTenant
    MaxReplicas = 2
    MaxPolls = 2
    Faults = {"create", "read", "db", "crash"}
SPECIFICATION FairSpec
CHECK_DEADLOCK FALSE
INVARIANTS
    OwnImagesOnly
    DeployedIsReachable
    PendingHasOwner
PROPERTIES
    ImplementsLifecycle
    SoleVerdictHonest
    DeploymentResolves
