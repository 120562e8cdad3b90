\* Two tenants that share addresses, every kind of fault.
CONSTANTS
    t1 = t1
    t2 = t2
    a1 = a1
    a2 = a2
    g1 = g1
    g2 = g2
    n1 = n1
    c1 = c1
    r1 = r1
    r2 = r2
    Tenants <- TwoTenants
    Addrs <- TwoAddrs
    Go <- GoReplica
    Node <- NodeReplica
    Clients <- OneClient
    Requests <- OneRequest
    ClientOf <- OfOneClient
    MaxChanges = 4
    Faults = {"stop", "crash", "refuse", "api", "edit"}
SYMMETRY Alike
SPECIFICATION Spec
INVARIANTS
    NeverStranger
    JarNamesServer
