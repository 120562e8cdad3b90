---------------------------- MODULE MCBuildJobs ----------------------------
(* Two builds, of one tenant (they share its namespace) or of two, for TLC. *)
EXTENDS BuildJobs, TLC

CONSTANTS t1, t2, j1, j2

OneTenant == {t1}
TwoTenants == {t1, t2}
TwoJobs == {j1, j2}
SharedTenant == (j1 :> t1) @@ (j2 :> t1)
OwnTenants == (j1 :> t1) @@ (j2 :> t2)
=============================================================================
