-------------------------- MODULE MCTenantRegistry --------------------------
(* Two requests at a time against two tenants, for TLC.                     *)
EXTENDS TenantRegistry

CONSTANTS c1, c2

TwoCalls == {c1, c2}
=============================================================================
