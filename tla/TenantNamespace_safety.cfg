\* Every kind of fault.
CONSTANTS
    t1 = t1
    t2 = t2
    Tenants <- TwoTenants
    Faults = {"create", "dns", "crash"}
SPECIFICATION Spec
INVARIANTS
    WorkloadsGuarded
    TokensScoped
