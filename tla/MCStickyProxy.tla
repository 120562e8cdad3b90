--------------------------- MODULE MCStickyProxy ---------------------------
(* A Go and a Node replica, one or two requests at a time, for TLC. *)
EXTENDS StickyProxy, TLC

CONSTANTS t1, t2, a1, a2, g1, g2, n1, c1, r1, r2

OneTenant == {t1}
TwoTenants == {t1, t2}
OneAddr == {a1}
TwoAddrs == {a1, a2}
GoReplica == {g1}
NodeReplica == {n1}
OneClient == {c1}
OneRequest == {r1}
TwoRequests == {r1, r2}
OfOneClient == [r \in Requests |-> c1]
Alike == Permutations(TwoTenants) \cup Permutations(TwoAddrs)
=============================================================================
