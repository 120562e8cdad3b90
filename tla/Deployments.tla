----------------------------- MODULE Deployments -----------------------------
(***************************************************************************)
(* The deployment service of the control plane (services/deployments.py):  *)
(* the request that checks a build, inserts a deployments row and creates  *)
(* or patches the tenant's one Deployment "tenant-app" and its Service,    *)
(* and the background task that polls the rollout.  Same process model as  *)
(* BuildJobs: an await lets other coroutines run, cluster calls block.     *)
(*                                                                         *)
(* All deployments of a tenant share one cluster object, so the pollers of *)
(* two of them read the same status.                                       *)
(***************************************************************************)
EXTENDS Naturals, FiniteSets

CONSTANTS
    Tenants,      \* ids of the tenants in the database at start
    Builds,       \* ids of build_jobs rows
    BuildOwner,   \* tenant_id of each build
    Deploys,      \* POST /tenants/{id}/deployments/ requests
    TenantOf,     \* the tenant each request is made for
    MaxReplicas,  \* largest replica_count the schema admits (8 in the code)
    MaxPolls,     \* POLL_TIMEOUT_SECONDS / POLL_INTERVAL_SECONDS (36 in the code)
    Faults        \* the kinds of failure the environment may inject

FaultKinds == {"create",   \* the Kubernetes API refuses or drops a create or patch
               "read",     \* reading the Deployment fails with something other than 404
               "db",       \* the database connection fails during a commit or a query
               "crash"}    \* the control-plane process stops and is restarted

ASSUME OwnerAssumption == BuildOwner \in [Builds -> Tenants]
ASSUME TenantOfAssumption == TenantOf \in [Deploys -> Tenants]
ASSUME ReplicasAssumption == MaxReplicas \in Nat \ {0}
ASSUME PollsAssumption == MaxPolls \in Nat \ {0}
ASSUME FaultsAssumption == Faults \subseteq FaultKinds

VARIABLES
    tenants,   \* rows of table tenants
    built,     \* builds whose row says succeeded (written by the build service)
    row,       \* rows of table deployments
    req,       \* where the request coroutine of each deployment is
    ask,       \* build_job_id and replica_count of the request body
    poll,      \* where the background poller of each deployment is
    polls,     \* how often the poller has slept
    app,       \* spec of each tenant's Deployment tenant-app
    service,   \* tenants whose Service tenant-app exists
    ready,     \* ready pods of each tenant-app, by the build they run
    stalled,   \* tenants whose Deployment has condition Progressing = False
    event      \* the webhook event dispatched for the deployment

vars == <<tenants, built, row, req, ask, poll, polls, app, service, ready, stalled, event>>
dbVars == <<tenants, built, row>>
clusterVars == <<app, service, ready, stalled>>

Orders == [build : Builds, replicas : 1..MaxReplicas]
Nothing == [build |-> "none", replicas |-> 0]

ReqLive == {"checked", "inserted", "applied", "refused", "deploying"}
ReqPCs == ReqLive \cup {"idle", "rejected", "done", "error", "lost"}
PollLive == {"sleeping", "up", "down", "timedout", "recorded_up", "recorded_down"}
PollPCs == PollLive \cup {"none", "done", "dead", "lost"}

Pending == {"pending", "deploying"}
Terminal == {"running", "failed"}

Init ==
    /\ tenants = Tenants
    /\ built = {}
    /\ row = [d \in Deploys |-> "none"]
    /\ req = [d \in Deploys |-> "idle"]
    /\ ask = [d \in Deploys |-> Nothing]
    /\ poll = [d \in Deploys |-> "none"]
    /\ polls = [d \in Deploys |-> 0]
    /\ app = [t \in Tenants |-> Nothing]
    /\ service = {}
    /\ ready = [t \in Tenants |-> [b \in Builds |-> 0]]
    /\ stalled = {}
    /\ event = [d \in Deploys |-> "none"]

-----------------------------------------------------------------------------
(* What a commit of status s for deployment d does.                         *)

CommitOK(d, s) ==
    /\ row[d] # "none"
    /\ row' = [row EXCEPT ![d] = s]

\* An UPDATE of a deleted row raises StaleDataError; a lost connection leaves
\* open whether the transaction was applied.
CommitFails(d, s) ==
    \/ /\ row[d] = "none"
       /\ UNCHANGED row
    \/ /\ "db" \in Faults
       /\ row[d] # "none"
       /\ row' \in {row, [row EXCEPT ![d] = s]}

-----------------------------------------------------------------------------
(* The request coroutine: create_deployment and create_deployment_service.  *)

ReqGoes(d, pc) == req' = [req EXCEPT ![d] = pc]

\* A variant that the checks must reject: the ownership check is dropped.
DeployableByAnyone(d, b) == BuildOwner[b] \in tenants /\ b \in built

\* A variant that the checks must reject: the status of the build is not asked.
DeployableUnbuilt(d, b) == BuildOwner[b] \in tenants /\ BuildOwner[b] = TenantOf[d]

\* The build must exist, belong to the tenant of the URL, and have succeeded.
Deployable(d, b) ==
    /\ BuildOwner[b] \in tenants
    /\ BuildOwner[b] = TenantOf[d]
    /\ b \in built

\* The body names any build id, the tenant's own or not; a bad one is a 400 or
\* a 409 and leaves nothing behind.
CreateDeployment(d) ==
    /\ req[d] = "idle"
    /\ \E o \in Orders :
          \/ /\ Deployable(d, o.build)
             /\ ask' = [ask EXCEPT ![d] = o]
             /\ ReqGoes(d, "checked")
          \/ /\ ~Deployable(d, o.build)
             /\ ReqGoes(d, "rejected")
             /\ UNCHANGED ask
          \/ /\ "db" \in Faults
             /\ ReqGoes(d, "error")
             /\ UNCHANGED ask
    /\ UNCHANGED <<dbVars, poll, polls, clusterVars, event>>

\* The foreign keys refuse the row when tenant and build have been deleted
\* since the checks above.
InsertDeployment(d) ==
    /\ req[d] = "checked"
    /\ \/ /\ TenantOf[d] \in tenants
          /\ row' = [row EXCEPT ![d] = "pending"]
          /\ ReqGoes(d, "inserted")
       \/ /\ TenantOf[d] \notin tenants
          /\ ReqGoes(d, "error")
          /\ UNCHANGED row
       \/ /\ "db" \in Faults
          /\ TenantOf[d] \in tenants
          /\ row' \in {row, [row EXCEPT ![d] = "pending"]}
          /\ ReqGoes(d, "error")
    /\ UNCHANGED <<tenants, built, ask, poll, polls, clusterVars, event>>

\* create_tenant_deployment: create the Deployment or patch image and replicas
\* of the one that is there (a changed template starts a new rollout), then
\* create the Service if it is missing.  The first n of the two took effect.
ApplyCalls(d, n) ==
    LET t == TenantOf[d] IN
    /\ app' = IF n > 0 THEN [app EXCEPT ![t] = ask[d]] ELSE app
    /\ stalled' = IF n > 0 /\ app[t].build # ask[d].build THEN stalled \ {t} ELSE stalled
    /\ service' = IF n > 1 THEN service \cup {t} ELSE service

\* A variant that the checks must reject: every error of the Service call is
\* tolerated, not only 409.
ApplyDeploymentIgnoresService(d) ==
    /\ req[d] = "inserted"
    /\ row[d] # "none"
    /\ \E n \in 1..2 : ApplyCalls(d, n)
    /\ ReqGoes(d, "applied")
    /\ UNCHANGED <<dbVars, ask, poll, polls, ready, event>>

\* refresh of the inserted row, then the blocking cluster calls.
ApplyDeployment(d) ==
    /\ req[d] = "inserted"
    /\ \/ /\ row[d] = "none" \/ "db" \in Faults
          /\ ReqGoes(d, "error")
          /\ UNCHANGED <<app, stalled, service>>
       \/ /\ row[d] # "none"
          /\ ApplyCalls(d, 2)
          /\ ReqGoes(d, "applied")
       \/ /\ row[d] # "none"
          /\ "create" \in Faults
          /\ \E n \in 0..2 : ApplyCalls(d, n)
          /\ ReqGoes(d, "refused")
    /\ UNCHANGED <<dbVars, ask, poll, polls, ready, event>>

CommitDeploying(d) ==
    /\ req[d] = "applied"
    /\ \/ CommitOK(d, "deploying") /\ ReqGoes(d, "deploying")
       \/ CommitFails(d, "deploying") /\ ReqGoes(d, "error")
    /\ UNCHANGED <<tenants, built, ask, poll, polls, clusterVars, event>>

\* A variant that the checks must reject: the route schedules the poller
\* without asking whether the deployment started.
CommitRefusedPolls(d) ==
    /\ req[d] = "refused"
    /\ CommitOK(d, "failed") /\ ReqGoes(d, "deploying")
    /\ UNCHANGED <<tenants, built, ask, poll, polls, clusterVars, event>>

CommitRefused(d) ==
    /\ req[d] = "refused"
    /\ \/ CommitOK(d, "failed") /\ ReqGoes(d, "done")
       \/ CommitFails(d, "failed") /\ ReqGoes(d, "error")
    /\ UNCHANGED <<tenants, built, ask, poll, polls, clusterVars, event>>

\* A variant that the checks must reject: add_task is forgotten.
RespondWithoutPoller(d) ==
    /\ req[d] = "deploying"
    /\ ReqGoes(d, "done")
    /\ UNCHANGED <<dbVars, ask, poll, polls, clusterVars, event>>

\* refresh, return, and the route's add_task.
Respond(d) ==
    /\ req[d] = "deploying"
    /\ \/ /\ row[d] # "none"
          /\ ReqGoes(d, "done")
          /\ poll' = [poll EXCEPT ![d] = "sleeping"]
       \/ /\ row[d] = "none" \/ "db" \in Faults
          /\ ReqGoes(d, "error")
          /\ UNCHANGED poll
    /\ UNCHANGED <<dbVars, ask, polls, clusterVars, event>>

-----------------------------------------------------------------------------
(* The background task: poll_deployment_until_running.                      *)

PollGoes(d, pc) == poll' = [poll EXCEPT ![d] = pc]

\* status.readyReplicas counts the pods of every revision of the Deployment.
ReadyPods(t) == {p \in Builds \X (1..MaxReplicas) : p[2] <= ready[t][p[1]]}
ReadyReplicas(t) == Cardinality(ReadyPods(t))

\* A variant that the checks must reject: one missing pod is tolerated.
DeploymentStatusOffByOne(t) ==
    IF app[t] = Nothing THEN "unknown"
    ELSE IF ReadyReplicas(t) + 1 >= app[t].replicas THEN "up"
    ELSE IF t \in stalled THEN "down" ELSE "unknown"

\* get_deployment_status; a Deployment that is not there yet is unknown.
DeploymentStatus(t) ==
    IF app[t] = Nothing THEN "unknown"
    ELSE IF ReadyReplicas(t) >= app[t].replicas /\ app[t].replicas > 0 THEN "up"
    ELSE IF t \in stalled THEN "down" ELSE "unknown"

\* A variant that the checks must reject: one poll too many.
AfterUnknownOffByOne(d) == IF polls[d] < MaxPolls THEN "sleeping" ELSE "timedout"

\* What the loop does when the status is not resolved.
AfterUnknown(d) == IF polls[d] + 1 < MaxPolls THEN "sleeping" ELSE "timedout"

\* One turn of the loop: sleep, then read the Deployment.
PollStatus(d) ==
    LET status == DeploymentStatus(TenantOf[d]) IN
    /\ poll[d] = "sleeping"
    /\ polls' = [polls EXCEPT ![d] = @ + 1]
    /\ \/ status = "unknown" /\ PollGoes(d, AfterUnknown(d))
       \/ status # "unknown" /\ PollGoes(d, status)
       \/ "read" \in Faults /\ PollGoes(d, "dead")
    /\ UNCHANGED <<dbVars, req, ask, clusterVars, event>>

Verdict(d) == IF poll[d] = "up" THEN "running" ELSE "failed"

\* A variant that the checks must reject: a failed commit is swallowed.
PollRecordSwallowsError(d) ==
    /\ poll[d] \in {"up", "down"}
    /\ CommitOK(d, Verdict(d)) \/ CommitFails(d, Verdict(d))
    /\ PollGoes(d, IF poll[d] = "up" THEN "recorded_up" ELSE "recorded_down")
    /\ UNCHANGED <<tenants, built, req, ask, polls, clusterVars, event>>

\* A variant that the checks must reject: session.merge instead of get, which
\* inserts the row again when it is missing.
PollRecordReinserts(d) ==
    /\ poll[d] \in {"up", "down"}
    /\ row' = [row EXCEPT ![d] = Verdict(d)]
    /\ PollGoes(d, IF poll[d] = "up" THEN "recorded_up" ELSE "recorded_down")
    /\ UNCHANGED <<tenants, built, req, ask, polls, clusterVars, event>>

\* The poller's own session: a missing row ends the task, a row that goes
\* away before the commit kills it.
PollRecord(d) ==
    /\ poll[d] \in {"up", "down"}
    /\ \/ /\ row[d] = "none"
          /\ PollGoes(d, "done")
          /\ UNCHANGED row
       \/ /\ CommitOK(d, Verdict(d))
          /\ PollGoes(d, IF poll[d] = "up" THEN "recorded_up" ELSE "recorded_down")
       \/ CommitFails(d, Verdict(d)) /\ PollGoes(d, "dead")
    /\ UNCHANGED <<tenants, built, req, ask, polls, clusterVars, event>>

\* dispatch_tenant_webhooks is called with the status the session still holds
\* in memory; its queries and its commit may fail before or after the sends.
PollDispatch(d) ==
    /\ poll[d] \in {"recorded_up", "recorded_down"}
    /\ \/ /\ event' = [event EXCEPT ![d] = IF poll[d] = "recorded_up"
                          THEN "deployment.running" ELSE "deployment.failed"]
          /\ \/ PollGoes(d, "done")
             \/ "db" \in Faults /\ PollGoes(d, "dead")
       \/ /\ "db" \in Faults
          /\ PollGoes(d, "dead")
          /\ UNCHANGED event
    /\ UNCHANGED <<dbVars, req, ask, polls, clusterVars>>

\* A variant that the checks must reject: the guard is the one of the other
\* poller, in services/build_jobs.py.
PollTimeoutWrongStatus(d) ==
    /\ poll[d] = "timedout"
    /\ PollGoes(d, "done")
    /\ IF row[d] = "building" THEN CommitOK(d, "failed") ELSE UNCHANGED row
    /\ UNCHANGED <<tenants, built, req, ask, polls, clusterVars, event>>

\* The timeout path writes the row only while it says deploying, and sends
\* nothing.
PollTimeout(d) ==
    /\ poll[d] = "timedout"
    /\ \/ /\ row[d] # "deploying"
          /\ PollGoes(d, "done")
          /\ UNCHANGED row
       \/ /\ row[d] = "deploying"
          /\ CommitOK(d, "failed") /\ PollGoes(d, "done")
       \/ /\ row[d] \in {"deploying", "none"}
          /\ CommitFails(d, "failed") /\ PollGoes(d, "dead")
    /\ UNCHANGED <<tenants, built, req, ask, polls, clusterVars, event>>

-----------------------------------------------------------------------------
(* The build service, the Deployment controller (external), the tenants      *)
(* route, and process restarts.                                              *)

\* The build service records a success (module BuildJobs).
BuildSucceeds(b) ==
    /\ b \notin built
    /\ BuildOwner[b] \in tenants
    /\ built' = built \cup {b}
    /\ UNCHANGED <<tenants, row, req, ask, poll, polls, clusterVars, event>>

\* The controller brings up a pod of the current revision.
PodReady(t) ==
    /\ app[t] # Nothing
    /\ ready[t][app[t].build] < app[t].replicas
    /\ ready' = [ready EXCEPT ![t][app[t].build] = @ + 1]
    /\ stalled' = stalled \ {t}
    /\ UNCHANGED <<dbVars, req, ask, poll, polls, app, service, event>>

\* A pod of any revision stops being ready: scaled down, evicted or crashed.
PodGone(t, b) ==
    /\ ready[t][b] > 0
    /\ ready' = [ready EXCEPT ![t][b] = @ - 1]
    /\ UNCHANGED <<dbVars, req, ask, poll, polls, app, service, stalled, event>>

\* The progress deadline passes before the current revision is complete.
RolloutStalls(t) ==
    /\ app[t] # Nothing
    /\ ready[t][app[t].build] < app[t].replicas
    /\ t \notin stalled
    /\ stalled' = stalled \cup {t}
    /\ UNCHANGED <<dbVars, req, ask, poll, polls, app, service, ready, event>>

\* A variant that the checks must reject: the foreign key does not cascade.
DeleteTenantOnly(t) ==
    /\ t \in tenants
    /\ tenants' = tenants \ {t}
    /\ UNCHANGED <<built, row, req, ask, poll, polls, clusterVars, event>>

\* DELETE /tenants/{id}: the rows of the tenant go by ON DELETE CASCADE; its
\* pods keep running and no coroutine is told.
DeleteTenant(t) ==
    /\ t \in tenants
    /\ tenants' = tenants \ {t}
    /\ row' = [d \in Deploys |-> IF TenantOf[d] = t THEN "none" ELSE row[d]]
    /\ UNCHANGED <<built, req, ask, poll, polls, clusterVars, event>>

Running(d) == req[d] \in ReqLive \/ poll[d] \in PollLive

\* Requests and background tasks exist only in memory.
Crash ==
    /\ "crash" \in Faults
    /\ \E d \in Deploys : Running(d)
    /\ req' = [d \in Deploys |-> IF req[d] \in ReqLive THEN "lost" ELSE req[d]]
    /\ poll' = [d \in Deploys |-> IF poll[d] \in PollLive THEN "lost" ELSE poll[d]]
    /\ UNCHANGED <<dbVars, ask, polls, clusterVars, event>>

TaskStep(d) ==
    \/ InsertDeployment(d) \/ ApplyDeployment(d) \/ CommitDeploying(d)
    \/ CommitRefused(d) \/ Respond(d)
    \/ PollStatus(d) \/ PollRecord(d) \/ PollDispatch(d) \/ PollTimeout(d)

Next ==
    \/ \E d \in Deploys : CreateDeployment(d) \/ TaskStep(d)
    \/ \E b \in Builds : BuildSucceeds(b)
    \/ \E t \in Tenants : PodReady(t) \/ RolloutStalls(t) \/ DeleteTenant(t)
    \/ \E t \in Tenants, b \in Builds : PodGone(t, b)
    \/ Crash

Spec == Init /\ [][Next]_vars

\* The event loop resumes every coroutine whose await completes.  Nothing
\* makes a client call, a build succeed or a pod become ready.
FairSpec == Spec /\ \A d \in Deploys : WF_vars(TaskStep(d))

-----------------------------------------------------------------------------
(* Properties.                                                              *)

\* Every variable keeps its type.
TypeOK ==
    /\ tenants \subseteq Tenants
    /\ built \subseteq Builds
    /\ row \in [Deploys -> Pending \cup Terminal \cup {"none"}]
    /\ req \in [Deploys -> ReqPCs]
    /\ ask \in [Deploys -> Orders \cup {Nothing}]
    /\ poll \in [Deploys -> PollPCs]
    /\ polls \in [Deploys -> 0..MaxPolls]
    /\ app \in [Tenants -> Orders \cup {Nothing}]
    /\ service \subseteq Tenants
    /\ ready \in [Tenants -> [Builds -> 0..MaxReplicas]]
    /\ stalled \subseteq Tenants
    /\ event \in [Deploys -> {"none", "deployment.running", "deployment.failed"}]

\* A tenant's namespace only ever runs images of the tenant's own builds that
\* succeeded, whoever named which build in a request body and whatever was
\* deleted between the checks of create_deployment_service and the cluster call.
OwnImagesOnly ==
    \A t \in Tenants :
        /\ app[t] # Nothing => BuildOwner[app[t].build] = t /\ app[t].build \in built
        /\ \A b \in Builds : ready[t][b] > 0 => BuildOwner[b] = t /\ b \in built

\* A row that says deploying or running has behind it a Deployment and the
\* Service that the reverse proxy resolves, not only the first of the two.
DeployedIsReachable ==
    \A d \in Deploys :
        row[d] \in {"deploying", "running"} =>
            TenantOf[d] \in service /\ app[TenantOf[d]] # Nothing

\* A row never outlives its tenant, in whatever order a deletion and the awaits
\* of a request or a poller come.
RowsHaveTenant == \A d \in Deploys : row[d] # "none" => TenantOf[d] \in tenants

\* The request and the poller of a deployment never run at once, and a pending
\* row is in the hands of the coroutine its status says unless that coroutine
\* was ended by an error or a restart.
PendingHasOwner ==
    \A d \in Deploys :
        /\ ~(req[d] \in ReqLive /\ poll[d] \in PollLive)
        /\ row[d] = "pending" =>
              req[d] \in {"inserted", "applied", "refused", "error", "lost"}
        /\ row[d] = "deploying" =>
              \/ req[d] \in {"deploying", "error", "lost"}
              \/ poll[d] \in {"sleeping", "up", "down", "timedout", "dead", "lost"}

\* The event a tenant is told is the result its row holds, unless the row is
\* gone.
EventMatchesRow ==
    \A d \in Deploys :
        /\ event[d] = "deployment.running" => row[d] \in {"running", "none"}
        /\ event[d] = "deployment.failed" => row[d] \in {"failed", "none"}

\* A result is final: a later deployment of the same tenant-app, a late poll or
\* the except branch of a request does not rewrite a row that says running or
\* failed.
TerminalFrozen ==
    [][\A d \in Deploys : row[d] \in Terminal => row'[d] \in {row[d], "none"}]_vars

\* As long as no other deployment has reached the cluster, the poller's "up"
\* means that the pods asked for, of the build asked for, were all ready.
SoleVerdictHonest ==
    [][\A d \in Deploys :
         (/\ poll[d] = "sleeping" /\ poll'[d] = "up"
          /\ \A e \in Deploys \ {d} : TenantOf[e] = TenantOf[d]
                 => req[e] \in {"idle", "rejected", "checked", "inserted"})
         => ready[TenantOf[d]][ask[d].build] >= ask[d].replicas]_vars

\* The life of each row, in the names of the abstract specification.
PhaseName == [pending |-> "queued", deploying |-> "building",
              running |-> "succeeded", failed |-> "failed"]
Phase == [d \in Deploys |->
            IF row[d] # "none" THEN PhaseName[row[d]]
            ELSE IF req[d] \in {"idle", "checked"} THEN "absent" ELSE "gone"]

Lifecycle == INSTANCE JobLifecycle WITH Jobs <- Deploys, phase <- Phase

\* The deployment service implements JobLifecycle: pending -> deploying ->
\* running or failed, as the comment on Deployment.status says (stopped is
\* never written), and no row comes back.
ImplementsLifecycle == Lifecycle!LSpec

\* A coroutine of the deployment was ended by an exception or a restart.
Broken(d) == req[d] \in {"error", "lost"} \/ poll[d] \in {"dead", "lost"}

\* No deployment stays pending or deploying for ever while its coroutines are
\* sound, even if its pods never become ready.
DeploymentResolves ==
    \A d \in Deploys : row[d] \in Pending ~> row[d] \notin Pending \/ Broken(d)

\* The docstring of get_deployment_status (k8s_resources.py:296-297): "based on
\* the Deployment's readyReplicas vs desired replicas, the same signal `kubectl
\* rollout status` uses", which waits for the updated replicas.  A poller that
\* sees "up" sees the revision it is asking about, not pods of an earlier one.
VerdictIsAboutCurrentRevision ==
    [][\A d \in Deploys :
         poll[d] = "sleeping" /\ poll'[d] = "up"
         => LET t == TenantOf[d] IN ready[t][app[t].build] >= app[t].replicas]_vars
=============================================================================
