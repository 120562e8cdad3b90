\* Only the lookup of the DNS Service may fail.
CONSTANTS
    t1 = t1
    t2 = t2
    Tenants <- TwoTenants
    Faults = {"dns"}
SPECIFICATION Spec
INVARIANT
    PolicyAllowsDNS
