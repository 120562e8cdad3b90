--------------------------- MODULE MCDeployments ---------------------------
(* Two deployments of one tenant, who has one or two builds, beside another *)
(* tenant's build, for TLC.                                                 *)
EXTENDS Deployments, TLC

CONSTANTS t1, t2, b1, b2, b3, d1, d2

TwoTenants == {t1, t2}
TwoDeploys == {d1, d2}
SharedTenant == (d1 :> t1) @@ (d2 :> t1)
OwnAndForeign == {b1, b3}
OwnAndForeignOwner == (b1 :> t1) @@ (b3 :> t2)
TwoOwn == {b1, b2}
TwoOwnOwner == (b1 :> t1) @@ (b2 :> t1)
=============================================================================
