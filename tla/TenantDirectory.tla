--------------------------- MODULE TenantDirectory ---------------------------
(***************************************************************************)
(* What the tenants and api_keys tables promise to everybody who reads     *)
(* them: a directory whose operations are atomic.  A tenant appears        *)
(* together with its first key, and takes all of its keys with it when it  *)
(* goes; a key is valid until it is revoked, and neither a revoked key nor *)
(* an id that is gone, or was handed out and never used, comes back.       *)
(***************************************************************************)
CONSTANTS
    TIds,   \* ids of tenants
    KIds    \* ids of API keys

VARIABLES
    tenant,  \* the phase of each tenant
    key,     \* the phase of each key
    owner    \* the tenant each key was made for

TenantLive == {"active", "inactive"}
KeyLive == {"valid", "revoked"}

DInit ==
    /\ tenant = [t \in TIds |-> "unused"]
    /\ key = [k \in KIds |-> "unused"]
    /\ owner = [k \in KIds |-> 0]

IssueKey(t, k) ==
    /\ key[k] = "unused"
    /\ key' = [key EXCEPT ![k] = "valid"]
    /\ owner' = [owner EXCEPT ![k] = t]

Enrol(t, k) ==
    /\ tenant[t] = "unused"
    /\ tenant' = [tenant EXCEPT ![t] = "active"]
    /\ IssueKey(t, k)

Switch(t, s) ==
    /\ tenant[t] \in TenantLive
    /\ tenant' = [tenant EXCEPT ![t] = s]
    /\ UNCHANGED <<key, owner>>

Dissolve(t) ==
    /\ tenant[t] \in TenantLive
    /\ tenant' = [tenant EXCEPT ![t] = "gone"]
    /\ key' = [k \in KIds |-> IF key[k] \in KeyLive /\ owner[k] = t THEN "gone" ELSE key[k]]
    /\ UNCHANGED owner

AddKey(t, k) ==
    /\ tenant[t] \in TenantLive
    /\ IssueKey(t, k)
    /\ UNCHANGED tenant

Withdraw(k) ==
    /\ key[k] \in KeyLive
    /\ key' = [key EXCEPT ![k] = "revoked"]
    /\ UNCHANGED <<tenant, owner>>

\* A sequence hands out an id whose row is then not committed.
Skip(T, K) ==
    /\ \A t \in T : tenant[t] = "unused"
    /\ \A k \in K : key[k] = "unused"
    /\ tenant' = [t \in TIds |-> IF t \in T THEN "gone" ELSE tenant[t]]
    /\ key' = [k \in KIds |-> IF k \in K THEN "gone" ELSE key[k]]
    /\ UNCHANGED owner

DNext ==
    \/ \E t \in TIds, k \in KIds : Enrol(t, k) \/ AddKey(t, k)
    \/ \E t \in TIds, s \in TenantLive : Switch(t, s)
    \/ \E t \in TIds : Dissolve(t)
    \/ \E k \in KIds : Withdraw(k)
    \/ \E T \in SUBSET TIds, K \in SUBSET KIds : Skip(T, K)

DSpec == DInit /\ [][DNext]_<<tenant, key, owner>>
=============================================================================
