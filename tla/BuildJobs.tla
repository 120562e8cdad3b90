------------------------------ MODULE BuildJobs ------------------------------
(***************************************************************************)
(* The build service of the control plane (services/build_jobs.py): the    *)
(* request that inserts a build_jobs row and creates a kpack Image, and    *)
(* the background task that polls the Image and writes the result back.    *)
(*                                                                         *)
(* The control plane is one asyncio process.  Every await is a point where *)
(* other coroutines run; the Kubernetes client blocks, so a run of cluster *)
(* calls with no await between them is one step.  A request coroutine and  *)
(* a poller are pc functions over Jobs; a job is one POST /builds/ and the *)
(* row id the database gives it.                                           *)
(***************************************************************************)
EXTENDS Naturals, Sequences

CONSTANTS
    Tenants,    \* ids of the tenants in the database at start
    Jobs,       \* POST /tenants/{id}/builds/ requests
    TenantOf,   \* the tenant each request is made for
    MaxPolls,   \* POLL_TIMEOUT_SECONDS / POLL_INTERVAL_SECONDS (180 in the code)
    MaxPushes,  \* bound on the images kpack pushes for one Image resource
    Faults      \* the kinds of failure the environment may inject

FaultKinds == {"create",   \* the Kubernetes API refuses or drops a create call
               "read",     \* reading the Image fails with something other than 404
               "db",       \* the database connection fails during a commit or a query
               "crash"}    \* the control-plane process stops and is restarted

ASSUME TenantOfAssumption == TenantOf \in [Jobs -> Tenants]
ASSUME PollsAssumption == MaxPolls \in Nat \ {0}
ASSUME PushesAssumption == MaxPushes \in Nat \ {0}
ASSUME FaultsAssumption == Faults \subseteq FaultKinds

VARIABLES
    tenants,  \* rows of table tenants
    row,      \* rows of table build_jobs
    req,      \* where the request coroutine of each job is
    poll,     \* where the background poller of each job is
    polls,    \* how often the poller has slept (elapsed / POLL_INTERVAL_SECONDS)
    seen,     \* latest_image in the status the poller holds, 0 for none
    kpack,    \* Ready condition of the kpack Image build-{id}
    pushed,   \* how many images kpack has pushed for it
    objs,     \* objects that exist in each tenant's namespace
    event     \* the webhook event dispatched for the job

vars == <<tenants, row, req, poll, polls, seen, kpack, pushed, objs, event>>
dbVars == <<tenants, row>>
taskVars == <<req, poll, polls, seen>>
clusterVars == <<kpack, pushed, objs>>

\* The create calls of ensure_tenant_namespace, in the order they are made.
NsCalls == <<"namespace", "quota", "limitRange", "networkPolicy",
             "registrySecret", "buildServiceAccount">>
NsObjects == {NsCalls[i] : i \in DOMAIN NsCalls}

ReqLive == {"loaded", "inserted", "started", "refused", "building"}
ReqPCs == ReqLive \cup {"idle", "done", "error", "lost"}
PollLive == {"sleeping", "ready", "notready", "timedout", "recorded"}
PollPCs == PollLive \cup {"none", "done", "dead", "lost"}

Pending == {"queued", "building"}
Terminal == {"succeeded", "failed"}

Rows == [status : Pending \cup Terminal,
         image  : 0..MaxPushes,
         error  : {"none", "start", "build", "timeout"},
         stamps : SUBSET {"started_at", "ended_at"}]
NoRow == [status |-> "none", image |-> 0, error |-> "none", stamps |-> {}]

Init ==
    /\ tenants = Tenants
    /\ row = [j \in Jobs |-> NoRow]
    /\ req = [j \in Jobs |-> "idle"]
    /\ poll = [j \in Jobs |-> "none"]
    /\ polls = [j \in Jobs |-> 0]
    /\ seen = [j \in Jobs |-> 0]
    /\ kpack = [j \in Jobs |-> "absent"]
    /\ pushed = [j \in Jobs |-> 0]
    /\ objs = [t \in Tenants |-> {}]
    /\ event = [j \in Jobs |-> "none"]

-----------------------------------------------------------------------------
(* What a commit of row r for job j does.                                   *)

CommitOK(j, r) ==
    /\ row[j] # NoRow
    /\ row' = [row EXCEPT ![j] = r]

\* An UPDATE of a deleted row raises StaleDataError; a lost connection leaves
\* open whether the transaction was applied.
CommitFails(j, r) ==
    \/ /\ row[j] = NoRow
       /\ UNCHANGED row
    \/ /\ "db" \in Faults
       /\ row[j] # NoRow
       /\ row' \in {row, [row EXCEPT ![j] = r]}

-----------------------------------------------------------------------------
(* The request coroutine: create_build_job and create_build_job_service.    *)

ReqGoes(j, pc) == req' = [req EXCEPT ![j] = pc]

CreateBuildJob(j) ==
    /\ req[j] = "idle"
    /\ \/ /\ TenantOf[j] \in tenants
          /\ ReqGoes(j, "loaded")
       \/ /\ TenantOf[j] \notin tenants \/ "db" \in Faults
          /\ ReqGoes(j, "error")
    /\ UNCHANGED <<dbVars, poll, polls, seen, clusterVars, event>>

Queued == [NoRow EXCEPT !.status = "queued"]

\* The foreign key refuses the row when the tenant has been deleted since the
\* check above.
InsertBuildJob(j) ==
    /\ req[j] = "loaded"
    /\ \/ /\ TenantOf[j] \in tenants
          /\ row' = [row EXCEPT ![j] = Queued]
          /\ ReqGoes(j, "inserted")
       \/ /\ TenantOf[j] \notin tenants
          /\ ReqGoes(j, "error")
          /\ UNCHANGED row
       \/ /\ "db" \in Faults
          /\ TenantOf[j] \in tenants
          /\ row' \in {row, [row EXCEPT ![j] = Queued]}
          /\ ReqGoes(j, "error")
    /\ UNCHANGED <<tenants, poll, polls, seen, clusterVars, event>>

\* The first n calls of the start sequence took effect; create_kpack_image
\* comes after the calls of ensure_tenant_namespace.
StartCalls(j, n) ==
    /\ objs' = [objs EXCEPT ![TenantOf[j]] =
                    @ \cup {NsCalls[i] : i \in {k \in DOMAIN NsCalls : k <= n}}]
    /\ kpack' = IF n > Len(NsCalls) THEN [kpack EXCEPT ![j] = "unknown"] ELSE kpack

\* refresh of the inserted row, then the blocking cluster calls.  A refused
\* call ends the sequence; a call whose answer is lost has taken effect and
\* ends it all the same.
StartBuild(j) ==
    /\ req[j] = "inserted"
    /\ \/ /\ row[j] = NoRow \/ "db" \in Faults
          /\ ReqGoes(j, "error")
          /\ UNCHANGED <<kpack, objs>>
       \/ /\ row[j] # NoRow
          /\ StartCalls(j, Len(NsCalls) + 1)
          /\ ReqGoes(j, "started")
       \/ /\ row[j] # NoRow
          /\ "create" \in Faults
          /\ \E n \in 0..(Len(NsCalls) + 1) : StartCalls(j, n)
          /\ ReqGoes(j, "refused")
    /\ UNCHANGED <<dbVars, poll, polls, seen, pushed, event>>

\* A variant that the checks must reject: started_at is forgotten.
BuildingUnstamped(j) == [row[j] EXCEPT !.status = "building"]

Building(j) == [row[j] EXCEPT !.status = "building", !.stamps = @ \cup {"started_at"}]

\* When this commit fails the except branch commits again on a session that
\* needs a rollback first, so the request ends in an error and writes nothing.
CommitBuilding(j) ==
    /\ req[j] = "started"
    /\ \/ CommitOK(j, Building(j)) /\ ReqGoes(j, "building")
       \/ CommitFails(j, Building(j)) /\ ReqGoes(j, "error")
    /\ UNCHANGED <<tenants, poll, polls, seen, clusterVars, event>>

Failed(j, why) == [row[j] EXCEPT !.status = "failed", !.error = why,
                                 !.stamps = @ \cup {"ended_at"}]

\* A variant that the checks must reject: the route schedules the poller
\* without asking whether the build started.
CommitRefusedPolls(j) ==
    /\ req[j] = "refused"
    /\ CommitOK(j, Failed(j, "start")) /\ ReqGoes(j, "building")
    /\ UNCHANGED <<tenants, poll, polls, seen, clusterVars, event>>

CommitRefused(j) ==
    /\ req[j] = "refused"
    /\ \/ CommitOK(j, Failed(j, "start")) /\ ReqGoes(j, "done")
       \/ CommitFails(j, Failed(j, "start")) /\ ReqGoes(j, "error")
    /\ UNCHANGED <<tenants, poll, polls, seen, clusterVars, event>>

\* A variant that the checks must reject: add_task is forgotten.
RespondWithoutPoller(j) ==
    /\ req[j] = "building"
    /\ ReqGoes(j, "done")
    /\ UNCHANGED <<dbVars, poll, polls, seen, clusterVars, event>>

\* refresh, return, and the route's add_task: only a build that started and
\* could be read back gets a poller.
Respond(j) ==
    /\ req[j] = "building"
    /\ \/ /\ row[j] # NoRow
          /\ ReqGoes(j, "done")
          /\ poll' = [poll EXCEPT ![j] = "sleeping"]
       \/ /\ row[j] = NoRow \/ "db" \in Faults
          /\ ReqGoes(j, "error")
          /\ UNCHANGED poll
    /\ UNCHANGED <<dbVars, polls, seen, clusterVars, event>>

-----------------------------------------------------------------------------
(* The background task: poll_build_until_done.                              *)

PollGoes(j, pc) == poll' = [poll EXCEPT ![j] = pc]

\* A variant that the checks must reject: one poll too many.
AfterUnknownOffByOne(j) == IF polls[j] < MaxPolls THEN "sleeping" ELSE "timedout"

\* What the loop does when the status is not resolved: sleep again, or leave
\* the loop once the timeout has elapsed.
AfterUnknown(j) == IF polls[j] + 1 < MaxPolls THEN "sleeping" ELSE "timedout"

\* get_build_status: an Image that is missing (404), or has no Ready condition
\* or one that says Unknown, is not resolved.
BuildStatus(j) ==
    CASE kpack[j] \in {"absent", "unknown"} -> "unknown"
      [] kpack[j] = "ready" -> "ready"
      [] kpack[j] = "failed" -> "notready"

\* One turn of the loop: sleep, then read the Image.  Only 404 is caught, so any
\* other error of the read ends the task.
PollStatus(j) ==
    /\ poll[j] = "sleeping"
    /\ polls' = [polls EXCEPT ![j] = @ + 1]
    /\ \/ /\ BuildStatus(j) = "unknown"
          /\ PollGoes(j, AfterUnknown(j))
          /\ UNCHANGED seen
       \/ /\ BuildStatus(j) # "unknown"
          /\ PollGoes(j, BuildStatus(j))
          /\ seen' = IF BuildStatus(j) = "ready" THEN [seen EXCEPT ![j] = pushed[j]] ELSE seen
       \/ /\ "read" \in Faults
          /\ PollGoes(j, "dead")
          /\ UNCHANGED seen
    /\ UNCHANGED <<dbVars, req, clusterVars, event>>

Resolved(j) ==
    IF poll[j] = "ready"
    THEN [row[j] EXCEPT !.status = "succeeded", !.image = seen[j],
                        !.stamps = @ \cup {"ended_at"}]
    ELSE Failed(j, "build")

\* A variant that the checks must reject: a failed commit is swallowed.
PollRecordSwallowsError(j) ==
    /\ poll[j] \in {"ready", "notready"}
    /\ CommitOK(j, Resolved(j)) \/ CommitFails(j, Resolved(j))
    /\ PollGoes(j, "recorded")
    /\ UNCHANGED <<tenants, req, polls, seen, clusterVars, event>>

\* A variant that the checks must reject: session.merge instead of get, which
\* inserts the row again when it is missing.
PollRecordReinserts(j) ==
    /\ poll[j] \in {"ready", "notready"}
    /\ row' = [row EXCEPT ![j] = Resolved(j)]
    /\ PollGoes(j, "recorded")
    /\ UNCHANGED <<tenants, req, polls, seen, clusterVars, event>>

\* The poller's own session: a missing row ends the task, a row that goes
\* away before the commit kills it.
PollRecord(j) ==
    /\ poll[j] \in {"ready", "notready"}
    /\ \/ /\ row[j] = NoRow
          /\ PollGoes(j, "done")
          /\ UNCHANGED row
       \/ CommitOK(j, Resolved(j)) /\ PollGoes(j, "recorded")
       \/ CommitFails(j, Resolved(j)) /\ PollGoes(j, "dead")
    /\ UNCHANGED <<tenants, req, polls, seen, clusterVars, event>>

\* A variant that the checks must reject: failures are not announced.
PollDispatchSuccessOnly(j) ==
    /\ poll[j] = "recorded"
    /\ PollGoes(j, "done")
    /\ event' = [event EXCEPT ![j] = IF seen[j] # 0 THEN "build.succeeded" ELSE @]
    /\ UNCHANGED <<dbVars, req, polls, seen, clusterVars>>

\* dispatch_tenant_webhooks is called with the status the session still holds
\* in memory; its queries and its commit may fail before or after the sends.
PollDispatch(j) ==
    /\ poll[j] = "recorded"
    /\ \/ /\ event' = [event EXCEPT ![j] =
                          IF seen[j] # 0 THEN "build.succeeded" ELSE "build.failed"]
          /\ \/ PollGoes(j, "done")
             \/ "db" \in Faults /\ PollGoes(j, "dead")
       \/ /\ "db" \in Faults
          /\ PollGoes(j, "dead")
          /\ UNCHANGED event
    /\ UNCHANGED <<dbVars, req, polls, seen, clusterVars>>

\* A variant that the checks must reject: the guard is the one of the other
\* poller, in services/deployments.py.
PollTimeoutWrongStatus(j) ==
    /\ poll[j] = "timedout"
    /\ PollGoes(j, "done")
    /\ IF row[j].status = "deploying" THEN CommitOK(j, Failed(j, "timeout")) ELSE UNCHANGED row
    /\ UNCHANGED <<tenants, req, polls, seen, clusterVars, event>>

\* The timeout path writes the row only while it says building, and sends
\* nothing.
PollTimeout(j) ==
    /\ poll[j] = "timedout"
    /\ \/ /\ row[j].status # "building"
          /\ PollGoes(j, "done")
          /\ UNCHANGED row
       \/ /\ row[j].status = "building"
          /\ CommitOK(j, Failed(j, "timeout")) /\ PollGoes(j, "done")
       \/ /\ row[j].status \in {"building", "none"}
          /\ CommitFails(j, Failed(j, "timeout")) /\ PollGoes(j, "dead")
    /\ UNCHANGED <<tenants, req, polls, seen, clusterVars, event>>

-----------------------------------------------------------------------------
(* kpack (external), the tenants route, and process restarts.               *)

\* kpack finishes a build of the Image: it pushes an image or gives up.
KpackResolve(j) ==
    /\ kpack[j] = "unknown"
    /\ \/ /\ pushed[j] < MaxPushes
          /\ kpack' = [kpack EXCEPT ![j] = "ready"]
          /\ pushed' = [pushed EXCEPT ![j] = @ + 1]
       \/ /\ kpack' = [kpack EXCEPT ![j] = "failed"]
          /\ UNCHANGED pushed
    /\ UNCHANGED <<dbVars, taskVars, objs, event>>

\* kpack rebuilds an Image on its own when the source or the builder changes.
KpackRebuild(j) ==
    /\ kpack[j] \in {"ready", "failed"}
    /\ pushed[j] < MaxPushes
    /\ kpack' = [kpack EXCEPT ![j] = "unknown"]
    /\ UNCHANGED <<dbVars, taskVars, pushed, objs, event>>

\* A variant that the checks must reject: the foreign key does not cascade.
DeleteTenantOnly(t) ==
    /\ t \in tenants
    /\ tenants' = tenants \ {t}
    /\ UNCHANGED <<row, taskVars, clusterVars, event>>

\* DELETE /tenants/{id}: one statement, its rows go by ON DELETE CASCADE; the
\* cluster is not touched and no coroutine is told.
DeleteTenant(t) ==
    /\ t \in tenants
    /\ tenants' = tenants \ {t}
    /\ row' = [j \in Jobs |-> IF TenantOf[j] = t THEN NoRow ELSE row[j]]
    /\ UNCHANGED <<taskVars, clusterVars, event>>

Running(j) == req[j] \in ReqLive \/ poll[j] \in PollLive

\* Requests and background tasks exist only in memory, and nothing resumes
\* them after a restart.
Crash ==
    /\ "crash" \in Faults
    /\ \E j \in Jobs : Running(j)
    /\ req' = [j \in Jobs |-> IF req[j] \in ReqLive THEN "lost" ELSE req[j]]
    /\ poll' = [j \in Jobs |-> IF poll[j] \in PollLive THEN "lost" ELSE poll[j]]
    /\ UNCHANGED <<dbVars, polls, seen, clusterVars, event>>

TaskStep(j) ==
    \/ InsertBuildJob(j) \/ StartBuild(j) \/ CommitBuilding(j)
    \/ CommitRefused(j) \/ Respond(j)
    \/ PollStatus(j) \/ PollRecord(j) \/ PollDispatch(j) \/ PollTimeout(j)

Next ==
    \/ \E j \in Jobs : CreateBuildJob(j) \/ TaskStep(j) \/ KpackResolve(j) \/ KpackRebuild(j)
    \/ \E t \in Tenants : DeleteTenant(t)
    \/ Crash

Spec == Init /\ [][Next]_vars

\* The event loop resumes every coroutine whose await completes.  Nothing
\* makes a client call, kpack finish, or an administrator delete a tenant.
FairSpec == Spec /\ \A j \in Jobs : WF_vars(TaskStep(j))

-----------------------------------------------------------------------------
(* Properties.                                                              *)

\* Every variable keeps its type; an absent row is the record NoRow.
TypeOK ==
    /\ tenants \subseteq Tenants
    /\ row \in [Jobs -> Rows \cup {NoRow}]
    /\ req \in [Jobs -> ReqPCs]
    /\ poll \in [Jobs -> PollPCs]
    /\ polls \in [Jobs -> 0..MaxPolls]
    /\ seen \in [Jobs -> 0..MaxPushes]
    /\ kpack \in [Jobs -> {"absent", "unknown", "ready", "failed"}]
    /\ pushed \in [Jobs -> 0..MaxPushes]
    /\ objs \in [Tenants -> SUBSET NsObjects]
    /\ event \in [Jobs -> {"none", "build.succeeded", "build.failed"}]

\* A row never outlives its tenant: whatever order a deletion and the awaits
\* of a request or a poller come in, no row is inserted or written back for a
\* tenant that is gone (foreign key of models/build_jobs.py, lookup by poller).
RowsHaveTenant == \A j \in Jobs : row[j] # NoRow => TenantOf[j] \in tenants

Explained(j) ==
    /\ row[j].status = "succeeded" =>
          /\ row[j].image \in 1..pushed[j]
          /\ row[j].error = "none"
          /\ row[j].stamps = {"started_at", "ended_at"}
    /\ row[j].status = "failed" =>
          /\ row[j].image = 0
          /\ row[j].error # "none"
          /\ "ended_at" \in row[j].stamps
          /\ row[j].error = "start" <=> "started_at" \notin row[j].stamps

\* A row explains itself: succeeded names an image that kpack really pushed and
\* was started and ended; failed has an error and no image, and says that the
\* build never started exactly when started_at is empty.
RowExplainsItself == \A j \in Jobs : Explained(j)

\* A kpack Image exists only in a namespace that already has every guardrail:
\* create_kpack_image runs only after the last call of ensure_tenant_namespace,
\* also when an earlier attempt of another build stopped half way.
GuardedBuilds ==
    \A j \in Jobs : kpack[j] # "absent" => objs[TenantOf[j]] = NsObjects

\* The request and the poller of a job never run at once, and a row that is
\* still pending is in the hands of the coroutine its status says, unless that
\* coroutine was ended by an error (a 500 or an exception in the task) or a
\* restart.  In the code this is what keeps a build from being forgotten.
PendingHasOwner ==
    \A j \in Jobs :
        /\ ~(req[j] \in ReqLive /\ poll[j] \in PollLive)
        /\ row[j].status = "queued" =>
              req[j] \in {"inserted", "started", "refused", "error", "lost"}
        /\ row[j].status = "building" =>
              \/ req[j] \in {"building", "error", "lost"}
              \/ poll[j] \in (PollLive \ {"recorded"}) \cup {"dead", "lost"}

Announced(j) ==
    /\ event[j] = "build.succeeded" => row[j].status \in {"succeeded", "none"}
    /\ event[j] = "build.failed" => row[j].status \in {"failed", "none"}

\* The event a tenant is told is the result its row holds, unless the row is
\* gone: the poller commits before it dispatches and nobody rewrites the row.
EventMatchesRow == \A j \in Jobs : Announced(j)

\* Once a row says succeeded or failed no step changes any column of it; only
\* the deletion of its tenant removes it.  Late kpack answers, timeouts and the
\* except branch of a request must not rewrite a result.
TerminalFrozen ==
    [][\A j \in Jobs : row[j].status \in Terminal => row'[j] \in {row[j], NoRow}]_vars

\* The life of each row, seen from the database, is the promised one.
Phase == [j \in Jobs |->
            IF row[j] # NoRow THEN row[j].status
            ELSE IF req[j] \in {"idle", "loaded"} THEN "absent" ELSE "gone"]

Lifecycle == INSTANCE JobLifecycle WITH Jobs <- Jobs, phase <- Phase

\* The build service implements JobLifecycle: queued -> building -> succeeded
\* or failed, as the comment on BuildJob.status says, and no row comes back.
ImplementsLifecycle == Lifecycle!LSpec

\* A coroutine of the job was ended by an exception or a restart.
Broken(j) == req[j] \in {"error", "lost"} \/ poll[j] \in {"dead", "lost"}

\* No build stays queued or building for ever while its coroutines are sound,
\* even if kpack never answers and even if the cluster refuses to start it: the
\* timeout of poll_build_until_done ends it.
BuildResolves ==
    \A j \in Jobs : row[j].status \in Pending ~> row[j].status \notin Pending \/ Broken(j)

\* A build that kpack resolved in time is announced: a recorded result is
\* followed by its webhook event, unless the task is ended in between.
RecordedIsAnnounced ==
    \A j \in Jobs : poll[j] = "recorded" ~> event[j] # "none" \/ Broken(j)

\* The docstring of poll_build_until_done (services/build_jobs.py:75-76):
\* "Polls kpack's Image status until it resolves or POLL_TIMEOUT_SECONDS
\* elapses".  A row that has a poller does not stay building for ever.
PolledBuildResolves ==
    \A j \in Jobs : (row[j].status = "building" /\ req[j] = "done")
                        ~> row[j].status # "building"
=============================================================================
