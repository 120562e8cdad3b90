\* Two requests of a client at a time, pods that come and go, replicas that crash.
CONSTANTS
    t1 = t1
    t2 = t2
    a1 = a1
    a2 = a2
    g1 = g1
    g2 = g2
    n1 = n1
    c1 = c1
    r1 = r1
    r2 = r2
    Tenants <- OneTenant
    Addrs <- TwoAddrs
    Go <- GoReplica
    Node <- NodeReplica
    Clients <- OneClient
    Requests <- TwoRequests
    ClientOf <- OfOneClient
    MaxChanges = 5
    Faults = {"crash"}
SPECIFICATION FairSpec
PROPERTIES
    Settles
    FailuresEnd
