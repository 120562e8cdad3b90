\* Reading the Image status may fail.
CONSTANTS
    t1 = t1
    t2 = t2
    j1 = j1
    j2 = j2
    Tenants <- TwoTenants
    Jobs <- TwoJobs
    TenantOf <- OwnTenants
    MaxPolls = 2
    MaxPushes = 1
    Faults = {"read"}
SPECIFICATION FairSpec
CHECK_DEADLOCK FALSE
PROPERTY
    PolledBuildResolves
