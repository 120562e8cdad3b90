------------------------------ MODULE Platform ------------------------------
(***************************************************************************)
(* The build service and the deployment service in the one control-plane   *)
(* process they share, over one table of tenants and one cluster.          *)
(*                                                                         *)
(* Deployments knows of builds only that some succeed while their tenant   *)
(* exists, and TenantNamespace only that a deployment follows a build.     *)
(* Here the builds are those of BuildJobs, so these views can be checked.  *)
(* The names of BuildJobs are kept; what is of Deployments has a D.        *)
(***************************************************************************)
EXTENDS BuildJobs

CONSTANTS
    Deploys,      \* POST /tenants/{id}/deployments/ requests
    DeployOwner,  \* the tenant each of them is made for
    MaxReplicas,  \* largest replica_count of a request
    MaxDPolls     \* how often the poller of a deployment sleeps

ASSUME DeployOwnerAssumption == DeployOwner \in [Deploys -> Tenants]
ASSUME ReplicasAssumption == MaxReplicas \in Nat \ {0}
ASSUME DPollsAssumption == MaxDPolls \in Nat \ {0}

VARIABLES
    built,     \* builds whose row has ever said succeeded
    rowD, reqD, ask, pollD, pollsD, app, service, ready, stalled, eventD

varsD == <<rowD, reqD, ask, pollD, pollsD, app, service, ready, stalled, eventD>>
pvars == <<vars, built, varsD>>

D == INSTANCE Deployments
        WITH Builds <- Jobs, BuildOwner <- TenantOf, TenantOf <- DeployOwner,
             MaxPolls <- MaxDPolls, row <- rowD, req <- reqD, poll <- pollD,
             polls <- pollsD, event <- eventD

PInit == Init /\ D!Init

\* What a query for the status of a build finds.
SaysSucceeded(j) == row[j].status = "succeeded"

BuildService ==
    /\ \E j \in Jobs : CreateBuildJob(j) \/ TaskStep(j) \/ KpackResolve(j) \/ KpackRebuild(j)
    /\ built' = built \cup {j \in Jobs : SaysSucceeded(j)'}
    /\ UNCHANGED varsD

DeploymentService ==
    /\ \/ \E d \in Deploys : D!CreateDeployment(d) \/ D!TaskStep(d)
       \/ \E t \in Tenants : D!PodReady(t) \/ D!RolloutStalls(t)
       \/ \E t \in Tenants, j \in Jobs : D!PodGone(t, j)
    /\ UNCHANGED vars

\* A variant that the checks must reject: deployments rows do not cascade.
RemoveTenantNotDeployments(t) == DeleteTenant(t) /\ UNCHANGED <<built, varsD>>

\* One statement removes the tenant and the rows of both services.
RemoveTenant(t) == DeleteTenant(t) /\ D!DeleteTenant(t)

\* One process: a restart ends the coroutines of both services.
Restart ==
    \/ Crash /\ D!Crash
    \/ Crash /\ (\A d \in Deploys : ~D!Running(d)) /\ UNCHANGED <<built, varsD>>
    \/ D!Crash /\ (\A j \in Jobs : ~Running(j)) /\ UNCHANGED vars

PNext ==
    \/ BuildService
    \/ DeploymentService
    \/ \E t \in Tenants : RemoveTenant(t)
    \/ Restart

PSpec == PInit /\ [][PNext]_pvars

-----------------------------------------------------------------------------
(* Properties.                                                              *)

\* What create_deployment_service finds out about a build is what the build
\* service wrote: the row says succeeded exactly if the build has ever
\* succeeded and its tenant is still there.
BuildsSeenRight ==
    \A j \in Jobs : SaysSucceeded(j) <=> j \in built /\ TenantOf[j] \in tenants

\* The builds whose images a namespace runs or is told to run.
Images(t) ==
    {j \in Jobs : ready[t][j] > 0 \/ (app[t] # D!Nothing /\ app[t].build = j)}

\* create_tenant_deployment makes no namespace and no guardrail of its own; it
\* relies on the build before it.  Whatever failed, was deleted or restarted in
\* either service, a tenant-app is created, and a pod runs, only in a namespace
\* with all the guardrails, from an image that kpack has pushed for this tenant
\* and that, as long as the tenant is there, the build's row still names.
DeployedWasBuilt ==
    \A t \in Tenants : \A j \in Images(t) :
        /\ TenantOf[j] = t
        /\ objs[t] = NsObjects
        /\ pushed[j] > 0
        /\ t \in tenants => SaysSucceeded(j) /\ row[j].image \in 1..pushed[j]

\* The build service is an environment that Deployments allows for: every
\* behaviour of the two together is one of Deployments.
DeploymentsAssumeRight == D!Spec
=============================================================================
