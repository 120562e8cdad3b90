\* A redeploy while the pods of the first revision are ready.
CONSTANTS
    t1 = t1
    t2 = t2
    b1 = b1
    b2 = b2
    b3 = b3
    d1 = d1
    d2 = d2
    Tenants <- TwoTenants
    Builds <- TwoOwn
    BuildOwner <- TwoOwnOwner
    Deploys <- TwoDeploys
    TenantOf <- SharedTenant
    MaxReplicas = 1
    MaxPolls = 1
    Faults = {}
SPECIFICATION FairSpec
CHECK_DEADLOCK FALSE
PROPERTIES
    VerdictIsAboutCurrentRevision
