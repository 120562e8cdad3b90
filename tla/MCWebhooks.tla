----------------------------- MODULE MCWebhooks -----------------------------
(* Two registrations of one tenant, one of them at a URL whose receiver was *)
(* given the secret of the other, and a registration of another tenant.     *)
EXTENDS Webhooks, TLC

CONSTANTS t1, t2, r1, r2, r3, p1

TwoTenants == {t1, t2}
ThreeRegs == {r1, r2, r3}
Owners == (r1 :> t1) @@ (r2 :> t1) @@ (r3 :> t2)
Secrets == (r1 :> r1) @@ (r2 :> r1) @@ (r3 :> r3)
Clocks == (r1 :> 1) @@ (r2 :> 0) @@ (r3 :> 0)
OnePost == {p1}
ForFirst == [p \in Posts |-> t1]
=============================================================================
