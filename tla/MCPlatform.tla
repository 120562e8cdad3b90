----------------------------- MODULE MCPlatform -----------------------------
(* Two builds and a deployment of one tenant, for TLC.                      *)
EXTENDS Platform, TLC

CONSTANTS t1, j1, j2, d1

OneTenantsBuilds == (j1 :> t1) @@ (j2 :> t1)
ItsDeployment == d1 :> t1
=============================================================================
