# Verification of the multi-tenant platform

TLA+ models of the control plane and the reverse proxies in `src/`, the TLC configurations that check them on
small instances, and TLAPS proofs for every size. Source paths below are relative to `src/`.

## The system and its parts

The platform is a control plane (one asyncio process: FastAPI, SQLAlchemy, the blocking
Kubernetes client), Postgres, a cluster with kpack, and a reverse proxy with two replicas.

| Component | State it keeps | Operations | Talks to |
| --- | --- | --- | --- |
| Build service (`services/build_jobs.py`) | rows of `build_jobs`; request coroutines and pollers in memory | POST build, background poll until result or timeout | Postgres, tenant namespace, kpack, webhooks |
| Deployment service (`services/deployments.py`) | rows of `deployments`; coroutines in memory | POST deployment, background poll | Postgres, the one `tenant-app` of the tenant, webhooks |
| Cluster resources (`k8s_resources.py`, `services/kubeconfig.py`) | none; objects live in the cluster | ensure namespace, ensure RBAC, create Image, create or patch Deployment and Service, mint token | Kubernetes API |
| Tenant registry and API keys (`services/tenants.py`, `services/api_keys.py`, `dependencies.py`) | rows of `tenants`, `api_keys` | create, update, delete (cascades), revoke, authenticate | Postgres |
| Webhooks (`shared/webhook_dispatcher.py`, `services/webhook_registrations.py`, `scripts/webhook_test_receiver.py`) | rows of `webhook_registrations`, `webhook_deliveries` | register, dispatch, verify | tenant's receiver |
| Schema (`models/`, `alembic/`) | tables, keys, constraints, indexes; the version | upgrade, downgrade | Postgres |
| Reverse proxy (`proxy/*.go`; earlier `k8s/proxy/sticky-proxy.js`) | endpoint cache; affinity cookies at clients | route a request, follow EndpointSlices | cluster, tenant pods |

What makes them correct:

* a job row tells the truth, is final once it says so, belongs to a tenant that exists, and
  is never forgotten;
* what runs in a namespace runs behind its guardrails and is the tenant's own;
* a tenant is told what happened, and told the truth; a receiver can tell the platform's fresh
  requests from stale and foreign ones;
* a tenant becomes visible complete, only its own keys act for it, and a key that was taken
  back stays so;
* the schema is the one the version names, and lets a tenant be deleted;
* a client stays on a pod of the tenant it asked for.

What makes them hard: every `await` is a point where the row, the tenant or the cluster may
change; requests and pollers exist only in memory and nothing resumes them; a cluster call
may be refused, or take effect and lose its answer; a commit may fail or be applied without
the client hearing of it; kpack and the Deployment controller answer late, never, or about
something newer; all deployments of a tenant share one object. `PROJECT.json` lists the
hazards line by line.

## Modules

| Module | Models | Composes |
| --- | --- | --- |
| `JobLifecycle` | the promise: queued, building, succeeded or failed; rows go and do not come back | |
| `TenantDirectory` | the promise: tenants and keys in a directory whose operations are atomic; ids do not come back | |
| `BuildJobs` | the build service, with kpack, deletion of tenants, failures and restarts around it | implements `JobLifecycle` |
| `Deployments` | the deployment service, with the Deployment controller around it | implements `JobLifecycle` |
| `TenantNamespace` | the cluster calls, one at a time, with failures between them | |
| `StickyProxy` | replicas of the Go proxy and of the Node proxy behind one Service, with pods, EndpointSlices and clients around them | |
| `Platform` | build and deployment service in one process, over one table of tenants and one cluster | extends `BuildJobs`, instantiates `Deployments` |
| `TenantRegistry` | tenants, API keys and the checks in front of the routes | implements `TenantDirectory` |
| `Webhooks` | registrations, the dispatcher, the receiver and the network between them | |
| `Migrations` | the three revisions, up and down, against the tables the models declare | |
| `MCBuildJobs`, `MCDeployments`, `MCTenantNamespace`, `MCStickyProxy`, `MCPlatform`, `MCTenantRegistry`, `MCWebhooks` | constants for TLC | |
| `BuildJobsProofs`, `DeploymentsProofs`, `PlatformProofs`, `TenantNamespaceProofs`, `TenantRegistryProofs`, `WebhooksProofs`, `StickyProxyProofs`, `MigrationsProofs` | inductive invariants and theorems about the module of that name | `PlatformProofs` extends `BuildJobsProofs`, instantiates `DeploymentsProofs` |

### Granularity

One process runs one coroutine at a time, so a step of a model is what happens from one
`await` to the next. The Kubernetes client blocks: in `BuildJobs` and `Deployments` a
sequence of cluster calls is one step whose outcomes are "all done" and "the first *n* took
effect, then an exception". `TenantNamespace` takes the same sequences apart, call by call.
The poller's `get` and `commit` are one step, because no other coroutine writes the row
in between and a deletion in between has the same effect on the table as one before;
the step keeps both ends of the task (it returns, or the commit raises `StaleDataError`).

### State and code

`BuildJobs`: `row` is table `build_jobs` (`status`, `image_tag` as the number of the push it
names, `error_message` as its cause, the two time stamps as a set); `req[j]` is the line the
request coroutine waits at, `poll[j]` and `polls[j]` the poller and its `elapsed`, `seen[j]`
the `latest_image` in the status dictionary it holds across an await; `kpack`, `pushed` and
`objs` are the cluster; `event` is the argument of `dispatch_tenant_webhooks`. The actions
are, in code order, `CreateBuildJob`, `InsertBuildJob`, `StartBuild`, `CommitBuilding` or
`CommitRefused`, `Respond`; then `PollStatus`, `PollRecord`, `PollDispatch`, `PollTimeout`.

A failed second commit is worth a word. When the commit at `build_jobs.py:60` fails, the
`except Exception` branch sets the row to failed and commits again, on a session that
SQLAlchemy has put in the state that needs a `rollback()` first; so the request ends in an
error, and what the row says depends on whether the first commit was applied.
`CommitBuilding` has exactly these outcomes.

`Deployments` has the same shape. `ask` is the request body, `app` the spec of `tenant-app`,
`ready[t][b]` the number of ready pods of tenant `t` that run build `b`: `readyReplicas`
adds them up over all builds. A body may name any build, the tenant's own or not.

`TenantNamespace`: `busy` is the sequence that runs (build, kubeconfig, deploy) and its next
call, `objs` what exists, `dns` how the network policy was created, `tokens` who was given a
kubeconfig. A call that meets an existing object (409) goes on; any other error ends the
sequence, with or without the call's effect.

`TenantRegistry`: a call is one request coroutine; `pc[c]` is the await it stands at or the answer
it gave, `arg[c]` its local variables. `verify_admin` and `verify_tenant` are the dependencies
in front of the handlers, and end where the handler starts: everything another request commits
between the check and the effect is an interleaving. `create_tenant_service` is three steps. The
flush inserts the row with the placeholder namespace; PostgreSQL's unique index makes a second
flush wait for the transaction that holds the same value and refuses it only if that commits
with the value, so `FlushTenant` waits for whoever stands at `flushed`. The commit makes tenant,
namespace and first key visible together; the refresh may find the tenant gone. A commit that
fails may have been applied. An update reads the row, waits, and writes back only the columns
whose value differs from the one it loaded, as SQLAlchemy does (`Written`). `shown` (who was
given which raw key) and `effects` (what was done for whom by which key) are history. A key is
its id: hashing is injective, and nobody guesses a key. `TenantPhase` and `KeyPhase` map the tables
to the phases of `TenantDirectory`: a tenant that is only flushed is not there yet, an id that a
sequence handed out and nobody committed is gone.

`Webhooks`: a post is one call of `dispatch_tenant_webhooks`; `todo[p]`, `cur[p]` and `held[p]` are
the rest of its loop, the registration it awaits, and the `WebhookDelivery` objects in its
session, `rows` the table. `wire` is what was sent, `verdicts` what receivers decided when. The
network may deliver a request late, again, or with another timestamp header. HMAC is symbolic:
`sign_payload` returns what it was computed from, so two signatures are equal only if secret,
timestamp and body are. Each receiver has a clock (`Skew`) and a secret that may be the wrong
one (`SecretAt`); it looks at the window first and at the signature second, as `do_POST` does.
A call waits for an answer at `waiting` until its first byte, and at `dripping` until its last
(`Trickle`): httpx applies `timeout=15` to each connect, read and write, not to the request.

`Migrations`: a schema is a set of elements (table, foreign key with its rule, unique constraint,
index, the one later column), a revision a sequence of operations, an alembic command one
transaction over one or more revisions (`env.py` runs all of them in one). The database refuses an
operation whose table is missing or still referred to. The declarations of `models/` are a
second set, to compare with. That a RESTRICT between two tables that both cascade from
`tenants` does not block the deletion of a tenant is a fact about PostgreSQL the model takes
over: the rows go in one statement. `DeletionIsNeverBlocked` asks for a direct cascade from every
table: nothing in the schema makes the `tenant_id` of a delivery that of its registration, so a
cascade by way of `webhook_registrations` need not reach the tenant's rows.

`Platform` adds the variables of `Deployments` to those of `BuildJobs`; the builds that `Deployments`
treats as its environment are the actual rows here. A deletion is one statement over both
tables, a restart ends the coroutines of both services. `built` is the set of builds that ever
succeeded: it is what `Deployments` assumes, and `BuildsSeenRight` relates it to the rows.

`StickyProxy`: `pod` is who holds each address, `slices` what the API server lists, `cache[p]`
what the informer of a Go replica holds; each follows the one before by a step of its own
(`Publish`, `Watch`). `proc[p]` is the life of a process (`Start`, `Sync`, `Terminate`, `Exit`,
`Crash`), `inService` who is sent requests by the proxy's own Service. A replica joins when it has
passed `/readyz` (`Probe`) and leaves some time after it would no longer (`Leave`); in between it may
have died, been started again in place, and be answering from a cache that is not loaded. `req[r]` holds the handler's local variables: `Serve`
is the Go handler up to the round trip, `Ask` and `Told` are the Node handler before and after
its `await`, `Answered` and `Unreachable` end the round trip with the response and its cookie,
or with 502. `jar` is what the client keeps. A signature is a Boolean: all replicas have the
same secret, and a value that was not signed with it does not verify. The endpoint condition
`Ready` is kept as the test the code makes of it, "set and false". `ever` and `last` are
history, for the properties only.

### Failures

`Faults` says which kinds the environment may inject: `create` (a create or patch is refused
or its answer lost), `read` (a status read fails with something else than 404), `db` (a
query or commit fails, applied or not), `crash` (the process restarts and every coroutine is
gone), `dns` (the DNS Service cannot be read), `net` (a webhook request is repeated, late or
re-stamped; that a receiver stays silent needs no fault), `drip` (it answers byte by byte); for the proxy `stop`, `crash`, `refuse` (a pod
cannot be reached), `api` (the Node proxy's read fails: 500, or 503 when the API server's error is
JSON), `edit` (a client drops, damages or exchanges its cookies between requests).

## Runs

| Run | Instance | Shows |
| --- | --- | --- |
| `builds` | 2 builds of 1 tenant, 2 polls, 2 pushes, all faults, fair coroutines | types; `RowsHaveTenant`, `RowExplainsItself`, `PendingHasOwner`, `EventMatchesRow`; `TerminalFrozen`; `ImplementsLifecycle`; `BuildResolves`: the timeout ends every build whose coroutines are sound; `RecordedIsAnnounced` |
| `builds_read_error` | failing reads only, fair coroutines | violation: one failing read and the row says building for ever |
| `deployments` | 2 deployments of 1 tenant, own and foreign build, up to 2 replicas, all faults, fair coroutines | `OwnImagesOnly`, `DeployedIsReachable`, `PendingHasOwner`; `ImplementsLifecycle`; `SoleVerdictHonest`: until something else is deployed, "running" is true of the pods asked for; `DeploymentResolves` |
| `deployments_revision` | redeploy, no faults | violation: old pods make a new revision "running" |
| `namespace_safety` | 2 tenants, all faults | `WorkloadsGuarded`, `TokensScoped` |
| `namespace_dns` | only the DNS lookup fails | violation: a default-deny policy without DNS, never repaired |
| `platform` | 2 builds and a deployment of a tenant, all faults | `DeployedWasBuilt`: a deployment relies on what a build left, and finds it: every image in `tenant-app` or still in a pod was built for its tenant and pushed; `DeploymentsAssumeRight`: the composition implements `Deployments` |
| `registry` | 2 requests at a time, 2 tenants, 2 keys, all faults, fair requests | `TenantsComplete`, `CreationsNeverConflict`, `ShownKeysExist`, `EffectsScoped`; `ImplementsDirectory`; `NoBlindReactivation`; `RevocationTakesHold`: from some moment on nothing runs on a revoked key; `CreationEnds` |
| `webhooks` | 1 event, 3 registrations of 2 tenants, one receiver with the wrong secret and one with a clock that is ahead, all faults, fair dispatcher | `AcceptedIsFresh`, `OnlyStaleRejected`, `SuccessMeansAccepted`, `DoneIsRecorded`; `EveryoneIsTried`: a silent receiver keeps nobody from being sent to, only one whose answer never ends does |
| `migrations` | all paths between the four versions, cut off anywhere | `EveryStepApplies`, `VersionTellsSchema`, `DeletionIsNeverBlocked` |
| `proxy_safety` | a Go and a Node replica, 2 tenants, 2 addresses, 1 request at a time, all faults | `NeverStranger`, `JarNamesServer` |
| `proxy_live` | a Go and a Node replica, 2 requests of a client at a time, 2 addresses, replicas that crash and are restarted in place | `Settles`: the client comes to rest on one pod; `FailuresEnd`: once replicas stay up, no cookie or cache keeps it on a pod that is gone, and no replica goes on refusing from a cache that is not loaded |

The liveness properties of the services are stated so that they hold under every fault: a row
resolves, a result is announced and a registration is tried *unless* the coroutine that has it in
hand was ended by an exception or a restart. Invariants that are consequences of those above, or that only
the proofs need (the types of all modules but one, `GuardedBuilds`, `GuardrailsInOrder`, `ReturnedIsComplete`, `BuildsSeenRight`, the row
properties that deployments share with builds), have theorems and no run. `ValidityIsOneWay` (a key
that became invalid stays so) is one of them, a consequence of `ImplementsDirectory`.

Each passing property is also run against a variant of one definition with a plausible bug
(the definitions commented "a variant that the checks must reject"), and must fail there.

### Bounds, and why they are enough

* Two jobs: jobs interact only through the tenant's row, its namespace and `tenant-app`, and
  pairwise; the theorems cover any number.
* `MaxPolls = 2`: a turn that sleeps again, and a last turn. The code has 180 and 36.
* `MaxPushes = 2`: a result, and a rebuild that pushes something else while a poller still
  holds the first.
* `MaxReplicas = 2` in `deployments`: some but not all of the pods asked for are ready. One is enough for
  `deployments_revision`, and in `platform`, which does not ask about pods. The schema admits 8.
* `MaxChanges` 4 and 5 for the pods: an address of one tenant taken over by the other's pod, a
  pod of each tenant, and, in the liveness run, a second pod that becomes ready before the
  client's own goes. Tenants and addresses are symmetric in `proxy_safety`.
* `platform` has two builds, because the second may be refused or cut off while the first one's
  image is deployed, and one poll and one push each: what a poller does over several turns is
  the business of the runs of its own service.
* `TenantRegistry`: two calls at a time, used again when they are answered, so sequences of any
  length happen; two tenants and two keys are the ids the sequences hand out: a key of each
  tenant, or two of one, the second with a name that is taken or free.
* `Webhooks`: `Window = 1` and `MaxTime = 2` put requests inside, at the edge of and outside the
  window; two verdicts make a repetition. Three registrations: before, after, and of somebody else.
* `Migrations` has no bound: the states are finite.
* `CHECK_DEADLOCK FALSE` where nobody has to send a request, so the system may come to rest.
  `TenantNamespace`, `StickyProxy` and `Migrations` always accept one, and deadlock is checked.

### Fairness

Weak fairness of each job's coroutine steps (`TaskStep`), because the event loop resumes a
coroutine whose await completes and sleeps, queries and blocking calls complete. No fairness
for clients, kpack, pods, administrators or faults: the liveness properties hold although
kpack and the pods may stay silent.

In `TenantRegistry` and `Webhooks`: the steps of a request and of the dispatcher's loop, for the
same reason; the dispatcher's client gives up when no byte arrives for 15 seconds, so it goes on
although nothing makes a receiver answer. An answer that has begun to arrive may never end: no
step is fair while the loop is at `dripping`. Requests of clients, the clock and the network are not fair.

In `StickyProxy`: the endpoint controller and the watches deliver in the end, and an informer lists
again until it has succeeded (`Sync`). Round trips and reads need not end (the Node program sets no
timeouts), containers need not be started again, and clients and pods are not fair. Pods change a bounded number of
times, so "in the end" means "once the pods stay as they are"; replicas may crash for ever, so
`FailuresEnd` has that they stop as its condition, and `Settles` holds without it.

## Proofs

`BuildJobsProofs` proves, for any sets of tenants and builds, any assignment of builds to
tenants, any number of polls and pushes and any kinds of fault:

* `TypeCorrect`, `RowsHaveTenantAlways`, `BuildsAlwaysGuarded`, `RowsAlwaysExplained`,
  `EventsAlwaysMatch`, `PendingAlwaysOwned` (invariants), `ResultsAreFrozen` (action
  property), `BuildsRefineLifecycle` (refinement of `JobLifecycle`).

Assumptions: `TenantOf` maps builds to tenants, `MaxPolls` and `MaxPushes` are positive,
`Faults` is a set of the four kinds.

The properties are not inductive. That a result is frozen, for instance, needs that whoever
is about to write finds the row in the state he left it, so the invariant `IInv` adds, for
each job, `RequestStage` and `PollerStage` (which rows are possible at which program
counter, and that a poller exists only after the request returned), `RowShape` (the columns
of a row that is not final) and `PushShape` (an image is counted before it is reported). A
lemma per group of actions shows that a step keeps `JobInv` of its own job and leaves every
other job alone (`OthersSame`); `Frame` does the rest. `RowsStep` and `GuardedStep` treat the
two conjuncts that join jobs through shared state. The refinement shows that each step of
one job is a promised move of its phase, or none (`OneJobMoves`), and that a deletion or a
restart removes a set.

Of liveness the proofs have the part that is not about fairness. `Work(j)` counts the steps that
the coroutines of a job have ahead of them, from `MaxPolls + 7` down. `WorkAlwaysRunsOut`: each of
their steps lowers it, whatever kpack and the database answer, and nobody else raises it.
`NothingIsLeftBehind`: when it is 0 the row is no longer pending, unless the coroutine was ended by
an exception or a restart. What `BuildResolves` needs beyond that, that a step is enabled
while work is left and that the event loop takes it, is checked by TLC. `DeploymentsProofs` has the
same two theorems for `DeploymentResolves`. `NoResultEverForgotten` is the same half of
`RecordedIsAnnounced`: a result of kpack has been announced as what it is, or is in the hands of a
poller that has yet to do so or was ended. (A timeout or a refused start is announced by nobody.)

`StickyProxyProofs` proves, for any sets of tenants, addresses, clients, requests and replicas of
either program, any number of changes and any faults: `TypeCorrect`, `NeverStrangerAlways` and
`JarAlwaysNamesServer`. Assumptions: each request has a client, no
replica runs both programs, and "none" is not the name of anything. The invariant adds
`Listings` (an address listed as ready, by a pod, a slice or a cache, was a ready pod of that
tenant; a cache is a copy of slices, and slices of pods) and `Carried` (a request of a sequential
client carries the cookie that is still in the jar; on a sticky hit it goes where that cookie
points). `OneRequest` treats all steps that change one request only.

`DeploymentsProofs` proves, for any sets of tenants, builds and deployments and any faults,
`TypeCorrect`, `OwnImagesAlways`, `DeployedAlwaysReachable`, `RowsHaveTenantAlways`,
`PendingAlwaysOwned`, `EventsAlwaysMatch`, `ResultsAreFrozen` and `DeploymentsRefineLifecycle`. The
strengthening has the same shape as for builds (`RequestStage`, `PollerStage`), and `AskedOwn`: a
request that passed the checks names a build of its own tenant that has succeeded, which
stays true over the awaits because builds do not change owner and a success is final.
`AskedForAlways` adds where everything in the cluster comes from: each `tenant-app` and each ready
pod, of an old revision too, is what some request that reached the cluster asked for (`AppAsked`,
`PodsAsked`). `SoleVerdictsAlwaysHonest` follows: if no other request has reached the cluster, all pods
that `readyReplicas` adds up are of the one build asked for. `NothingIsLeftBehind`,
`WorkAlwaysRunsOut` and `NoResultEverForgotten` (of "running") are as above.

`TenantNamespaceProofs`: `TypeCorrect`, `WorkloadsAlwaysGuarded`, `GuardrailsAlwaysInOrder`,
`TokensAlwaysScoped`, `ReturnedAlwaysComplete`, for any set of tenants. `Progress` says that a
sequence that stands at its *n*-th call has the objects of all calls before it.

`WebhooksProofs`: `TypeCorrect`, `AcceptedAlwaysFresh`, `RejectedAlwaysStale`,
`SuccessAlwaysAccepted`, `DoneAlwaysRecorded`, for any registrations, secrets, clocks and window.
The invariant adds that a request on the wire is signed with its registration's secret over its
own time (`WireSigned`), that a verdict is the receiver's function of such a request
(`VerdictsJudged`), that the loop visits registrations of its own tenant only (`OwnVisits`) and
waits for one at a time (`OneAtATime`), that what the session holds stands for a verdict
(`HeldAreReal`), that until the commit every attempt is awaited or held (`AttemptsKept`), and `RegsKnown`.
About the loop: `TriedAtMostOnce` (an event goes to a registration at most once, and has at most one
row there), `NobodyEverSkipped` (what the query found leaves the loop only by being sent to) and
`LoopAlwaysAdvances` (each step has fewer registrations ahead, or stops waiting for one, or ends the
call). They rest on `OncePlaced`: a registration is in one place of a call at a time. The last two are the safety
half of `EveryoneIsTried`.

`TenantRegistryProofs`: `TypeCorrect`, `TenantsAlwaysComplete`, `PlaceholderNeverConflicts`,
`ShownKeysAlwaysExist`, `EffectsAlwaysScoped`, `ValidityAlwaysOneWay`, `NeverBlindReactivation`, for
any finite set of calls and any number of ids. The invariant adds `RowsOK` (rows have ids that the
sequences handed out, and foreign keys hold), `Hands` (what a call may hold at each await), `OneFlushed` (at most one
placeholder is in the table), `ShownOK`, `EffectsOK`, and `Budget`, that the bounded ids last for the
calls under way. A lemma per action says what it writes (`Moves`), and `StepKeeps` does the rest
for all other calls. `RegistryRefinesDirectory` shows, action by action, that a step is one operation of
`TenantDirectory` or changes nothing in it; a new key must not be born revoked, so the invariant is
strengthened by `RevokedOld` (`RInv`, theorem `RevokedAlwaysOld`). `RequestsAlwaysRunOut` and `NeverNewUses` are the safety halves
of `CreationEnds` and `RevocationTakesHold`: a statement brings its request nearer to the answer, at
most three of them are ahead, and no request starts on a revoked key.

`PlatformProofs` composes. `BuildsEnvironment` and `DeploymentsEnvironment` show that every step of
`Platform` is a step of `BuildJobs` and one of `Deployments`, or leaves their variables alone; so what was
proved of each service by itself holds beside the other (`BuildsUndisturbed`,
`DeploymentsUndisturbed`). The invariant for that is the one of `BuildJobsProofs` with: kpack
pushes only for an Image that exists (`PushedExists`), a build that succeeded has a push (`BuiltPushed`),
and `BuildsSeenRight` (theorem `BuildsAlwaysSeenRight`). `DeployedAlwaysBuilt` then needs no induction of its own: images
are of successful builds of the tenant by the deployment side, and those were pushed behind all
guardrails by the build side.

`MigrationsProofs`: `StepsAlwaysApply`, `VersionAlwaysTells` and `DeletionNeverBlocked`. There are no
constants, so the run visits every state; the proof says why it is so. The invariant `MInv` gives the schema of a
running command after its first *k* operations (`DraftAt`), going up as the union of what they
create, going down as what they spare.

Every invariant and action property of the passing runs is stated by a theorem. Only model-checked
is liveness, because TLAPS has no fairness and no `ENABLED`: `BuildResolves`, `RecordedIsAnnounced`, `DeploymentResolves`,
`EveryoneIsTried`, `RevocationTakesHold`, `CreationEnds`, `Settles`, `FailuresEnd`.

## What the checks found

Three places where the code does not do what its documentation says have a run; the `findings`
in `PROJECT.json` quote the lines. One failing status read leaves a build building for ever; a
redeploy is declared running by the pods it is about to replace; a failed DNS lookup leaves a
namespace without DNS for good.

More are visible in what the properties have to leave out. A build that times out, or that the cluster
refuses, is final and never announced (`README.md:21`; `PollTimeout` sends nothing, and `RecordedIsAnnounced`
speaks of polled results only). A restart between the commit of a result and its dispatch
loses the event, since nothing in the database says what was announced (`Broken` in
`RecordedIsAnnounced`). A restart or a failed commit in the dispatcher's loop leaves attempts that were made
and not stored (`README.md:22`; `DoneIsRecorded` speaks of calls that returned). A receiver that sends its
answer byte by byte is not stopped by the timeout and keeps all later registrations from being
sent to (`webhook_dispatcher.py:27` says "to every active WebhookRegistration"; `"dripping"` in `EveryoneIsTried`).
A proxy replica restarted in place may answer 503 for a tenant with ready pods until it has loaded or the
Service has dropped it (`main.go:85-86` says "no traffic arrives before the proxy knows where
tenants' pods are"; `FailuresEnd` says only that it ends).

One is an assumption of `FailuresEnd`. The policy of every tenant namespace denies all ingress, with the
comment "Phase 5's reverse proxy adds its own rule explicitly" (`k8s_resources.py:118`), and no code and no
manifest of the repository adds such a rule. On a cluster that enforces NetworkPolicies the proxy
reaches no pod until somebody does; the model has this as the fault `refuse`, under which the safety
properties hold, and `proxy_live` is about a cluster where the rule is there.

## Not modelled

* Metrics of the proxy: counters nothing reads.
* Configuration, logging, sessions and clients: construction only. What they fix is an assumption of the
  models (one session per request or task, `expire_on_commit=False`, one process).
* Manifests, load test and demo script: declarative files, and programs that drive the system
  from outside. The text of the manifests that `k8s_resources.py` makes (security contexts, labels) is data
  that the repository's tests compare. The quota's numbers are among them: whether a surge pod
  or a build pod fits beside eight replicas is decided by the rollout strategy of the Deployment
  controller, which is not in the repository; in `Deployments` such a pod is one that never becomes ready.
* Getters: they change no state.
* The pool of database connections, which a slow receiver may use up while a poller's session
  is open: its size and queue are the driver's.
* Which of two concurrent deployments of a tenant should win: the code does not say.

## Plan

Done: the modules above, with proofs. What is left would join what is now separate:
`TenantRegistry` in front of `Platform`, so that `Work` is a build or a deployment; the pollers'
`event` as the posts of `Webhooks`.
