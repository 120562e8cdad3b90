\* Two builds and a deployment of a tenant, every kind of fault.
CONSTANTS
    t1 = t1
    j1 = j1
    j2 = j2
    d1 = d1
    Tenants = {t1}
    Jobs = {j1, j2}
    TenantOf <- OneTenantsBuilds
    Deploys = {d1}
    DeployOwner <- ItsDeployment
    MaxReplicas = 1
    MaxPolls = 1
    MaxDPolls = 1
    MaxPushes = 1
    Faults = {"create", "read", "db", "crash"}
SPECIFICATION PSpec
CHECK_DEADLOCK FALSE
INVARIANTS
    DeployedWasBuilt
PROPERTIES
    DeploymentsAssumeRight
