------------------------- MODULE MCTenantNamespace -------------------------
(* Two tenants, any order of builds, deployments and downloads, for TLC. *)
EXTENDS TenantNamespace

CONSTANTS t1, t2

TwoTenants == {t1, t2}
=============================================================================
