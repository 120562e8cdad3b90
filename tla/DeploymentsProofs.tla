-------------------------- MODULE DeploymentsProofs --------------------------
(***************************************************************************)
(* Proofs about Deployments for any number of tenants, builds, deployments,*)
(* replicas and polls, and any kinds of fault.                             *)
(***************************************************************************)
EXTENDS Deployments, FiniteSetTheorems, TLAPS

\* The build that a request was admitted with is the tenant's own and has
\* succeeded; this outlives the rows of both.
AskedOwn(d) ==
    /\ req[d] \in ReqLive => ask[d] # Nothing
    /\ ask[d] # Nothing => BuildOwner[ask[d].build] = TenantOf[d] /\ ask[d].build \in built

\* What the row looks like at each stage of the request coroutine, and that no
\* poller exists before the request has returned.
RequestStage(d) ==
    /\ req[d] \in {"idle", "rejected", "checked"} => row[d] = "none"
    /\ req[d] \in {"inserted", "applied", "refused"} => row[d] \in {"none", "pending"}
    /\ req[d] = "deploying" => row[d] \in {"none", "deploying"}
    /\ poll[d] # "none" => req[d] = "done"
    /\ req[d] = "done" /\ poll[d] = "none" => row[d] \notin Pending

\* What the poller may find in the row.
PollerStage(d) ==
    /\ poll[d] # "none" => row[d] # "pending"
    /\ poll[d] \in {"sleeping", "up", "down", "timedout"} => row[d] \in {"none", "deploying"}
    /\ poll[d] = "recorded_up" => row[d] \in {"none", "running"}
    /\ poll[d] = "recorded_down" => row[d] \in {"none", "failed"}
    /\ poll[d] = "done" => row[d] \notin Pending
    /\ poll[d] = "none" => polls[d] = 0
    /\ poll[d] = "sleeping" => polls[d] < MaxPolls
    /\ event[d] # "none" => poll[d] \in {"done", "dead"}

\* The event is that of the row.
Announced(d) ==
    /\ event[d] = "deployment.running" => row[d] \in {"running", "none"}
    /\ event[d] = "deployment.failed" => row[d] \in {"failed", "none"}

\* Everything the invariant says of one deployment by itself.
DeployInv(d) == RequestStage(d) /\ PollerStage(d) /\ Announced(d)

\* Both objects of tenant-app are there from the moment both calls answered.
Reachable(d) ==
    req[d] \in {"applied", "deploying"} \/ row[d] \in {"deploying", "running"} =>
        TenantOf[d] \in service /\ app[TenantOf[d]] # Nothing

\* The inductive invariant.
IInv ==
    /\ TypeOK
    /\ RowsHaveTenant
    /\ OwnImagesOnly
    /\ \A d \in Deploys : AskedOwn(d) /\ Reachable(d) /\ DeployInv(d)

-----------------------------------------------------------------------------
(* Orders and cluster calls.                                                *)

\* The record that stands for no order is no order: its replica count is 0.
LEMMA NothingIsNoOrder == Nothing \notin Orders
BY ReplicasAssumption DEF Nothing, Orders

\* The cluster calls touch only the tenant's own objects, never remove one, and
\* the Deployment they leave is the one that was asked for or that was there.
LEMMA ApplyEffect ==
  ASSUME TypeOK, NEW d \in Deploys, ask[d] # Nothing, NEW n \in 0..2, ApplyCalls(d, n)
  PROVE  /\ app' \in [Tenants -> Orders \cup {Nothing}]
         /\ \A t \in Tenants : app'[t] = app[t] \/ (t = TenantOf[d] /\ app'[t] = ask[d])
         /\ stalled' \subseteq Tenants
         /\ service \subseteq service' /\ service' \subseteq Tenants
         /\ n = 2 => TenantOf[d] \in service' /\ app'[TenantOf[d]] = ask[d]
<1>1. TenantOf[d] \in Tenants
  BY TenantOfAssumption
<1>2. ask[d] \in Orders \cup {Nothing}
  BY DEF TypeOK
<1>3. app' = app \/ app' = [app EXCEPT ![TenantOf[d]] = ask[d]]
  BY DEF ApplyCalls
<1>4. n = 2 => app' = [app EXCEPT ![TenantOf[d]] = ask[d]] /\ TenantOf[d] \in service'
  BY DEF ApplyCalls
<1>5. /\ stalled' \subseteq stalled
      /\ service \subseteq service' /\ service' \subseteq service \cup {TenantOf[d]}
  BY DEF ApplyCalls
<1> QED BY <1>1, <1>2, <1>3, <1>4, <1>5 DEF TypeOK

\* The whole action: refused, done or not attempted.
LEMMA ApplyDeploymentEffect ==
  ASSUME IInv, NEW d \in Deploys, ApplyDeployment(d)
  PROVE  /\ app' \in [Tenants -> Orders \cup {Nothing}]
         /\ \A t \in Tenants : app'[t] = app[t] \/ (t = TenantOf[d] /\ app'[t] = ask[d])
         /\ stalled' \subseteq Tenants
         /\ service \subseteq service' /\ service' \subseteq Tenants
         /\ req'[d] = "applied" => TenantOf[d] \in service' /\ app'[TenantOf[d]] = ask[d]
         /\ ask[d] # Nothing
<1>1. TypeOK /\ ask[d] # Nothing
  BY DEF IInv, AskedOwn, ApplyDeployment, ReqLive
<1>2. CASE UNCHANGED <<app, stalled, service>> /\ ReqGoes(d, "error")
  BY <1>1, <1>2 DEF TypeOK, ReqGoes
<1>3. CASE ApplyCalls(d, 2)
  BY <1>1, <1>3, ApplyEffect
<1>4. CASE (\E n \in 0..2 : ApplyCalls(d, n)) /\ ReqGoes(d, "refused")
  <2>1. req'[d] = "refused"
    BY <1>1, <1>4 DEF TypeOK, ReqGoes
  <2> QED BY <1>1, <1>4, <2>1, ApplyEffect
<1> QED BY <1>2, <1>3, <1>4 DEF ApplyDeployment

-----------------------------------------------------------------------------
(* Types.                                                                   *)

\* The initial state satisfies the invariant.
LEMMA InitIInv == ASSUME Init PROVE IInv
<1>1. TypeOK
  BY PollsAssumption, ReplicasAssumption DEF Init, TypeOK, ReqPCs, PollPCs
<1>2. RowsHaveTenant /\ OwnImagesOnly
  BY DEF Init, RowsHaveTenant, OwnImagesOnly
<1>3. ASSUME NEW d \in Deploys PROVE AskedOwn(d) /\ Reachable(d) /\ DeployInv(d)
  BY PollsAssumption DEF Init, AskedOwn, Reachable, DeployInv, RequestStage, PollerStage,
                         Announced, ReqLive, Pending
<1> QED BY <1>1, <1>2, <1>3 DEF IInv

\* A commit leaves the table well typed, whether it succeeds or not, and
\* concerns one row.
LEMMA CommitTyped ==
  ASSUME TypeOK, NEW d \in Deploys, NEW s \in Pending \cup Terminal,
         CommitOK(d, s) \/ CommitFails(d, s)
  PROVE  /\ row' \in [Deploys -> Pending \cup Terminal \cup {"none"}]
         /\ \A k \in Deploys \ {d} : row'[k] = row[k]
         /\ row'[d] = row[d] \/ (row[d] # "none" /\ row'[d] = s)
         /\ CommitOK(d, s) => row[d] # "none" /\ row'[d] = s
BY DEF TypeOK, CommitOK, CommitFails

\* Every step keeps the types: a poller that sleeps has turns left, and no
\* build has more ready pods than the largest order.
LEMMA TypeStep == ASSUME IInv, [Next]_vars PROVE TypeOK'
<1> USE DEF ReqPCs, PollPCs, ReqLive, PollLive
<1>1. TypeOK
  BY DEF IInv
<1>2. ASSUME NEW d \in Deploys, CreateDeployment(d) PROVE TypeOK'
  BY <1>1, <1>2 DEF TypeOK, CreateDeployment, ReqGoes, dbVars, clusterVars
<1>3. ASSUME NEW d \in Deploys, InsertDeployment(d) PROVE TypeOK'
  <2>1. row' \in [Deploys -> Pending \cup Terminal \cup {"none"}]
    BY <1>1, <1>3 DEF TypeOK, InsertDeployment, Pending
  <2> QED BY <1>1, <1>3, <2>1 DEF TypeOK, InsertDeployment, ReqGoes, clusterVars
<1>4. ASSUME NEW d \in Deploys, ApplyDeployment(d) PROVE TypeOK'
  <2>1. req' \in [Deploys -> ReqPCs]
    BY <1>1, <1>4 DEF TypeOK, ApplyDeployment, ReqGoes
  <2> QED BY <1>1, <1>4, <2>1, ApplyDeploymentEffect DEF TypeOK, ApplyDeployment, dbVars
<1>5. ASSUME NEW d \in Deploys, CommitDeploying(d) \/ CommitRefused(d) PROVE TypeOK'
  <2>1. row' \in [Deploys -> Pending \cup Terminal \cup {"none"}]
    BY <1>1, <1>5, CommitTyped DEF CommitDeploying, CommitRefused, Pending, Terminal
  <2> QED BY <1>1, <1>5, <2>1 DEF TypeOK, CommitDeploying, CommitRefused, ReqGoes, clusterVars
<1>6. ASSUME NEW d \in Deploys, Respond(d) PROVE TypeOK'
  BY <1>1, <1>6 DEF TypeOK, Respond, ReqGoes, dbVars, clusterVars
<1>7. ASSUME NEW d \in Deploys, PollStatus(d) PROVE TypeOK'
  <2>1. polls[d] < MaxPolls
    BY <1>7 DEF IInv, DeployInv, PollerStage, PollStatus
  <2>2. DeploymentStatus(TenantOf[d]) \in {"unknown", "up", "down"}
    BY DEF DeploymentStatus
  <2> QED BY <1>1, <1>7, <2>1, <2>2, PollsAssumption
          DEF TypeOK, PollStatus, PollGoes, AfterUnknown, dbVars, clusterVars
<1>8. ASSUME NEW d \in Deploys, PollRecord(d) \/ PollTimeout(d) PROVE TypeOK'
  <2>1. row' \in [Deploys -> Pending \cup Terminal \cup {"none"}]
    <3>1. CASE UNCHANGED row
      BY <1>1, <3>1 DEF TypeOK
    <3>2. CASE CommitOK(d, Verdict(d)) \/ CommitFails(d, Verdict(d))
      BY <1>1, <3>2, CommitTyped DEF Verdict, Terminal
    <3>3. CASE CommitOK(d, "failed") \/ CommitFails(d, "failed")
      BY <1>1, <3>3, CommitTyped DEF Terminal
    <3> QED BY <1>8, <3>1, <3>2, <3>3 DEF PollRecord, PollTimeout
  <2> QED BY <1>1, <1>8, <2>1 DEF TypeOK, PollRecord, PollTimeout, PollGoes, clusterVars
<1>9. ASSUME NEW d \in Deploys, PollDispatch(d) PROVE TypeOK'
  BY <1>1, <1>9 DEF TypeOK, PollDispatch, PollGoes, dbVars, clusterVars
<1>10. ASSUME NEW b \in Builds, BuildSucceeds(b) PROVE TypeOK'
  BY <1>1, <1>10 DEF TypeOK, BuildSucceeds, clusterVars
<1>11. ASSUME NEW t \in Tenants, PodReady(t) PROVE TypeOK'
  <2>1. app[t] \in Orders /\ app[t].build \in Builds /\ app[t].replicas \in 1..MaxReplicas
    BY <1>1, <1>11 DEF TypeOK, PodReady, Orders
  <2>2. ready[t] \in [Builds -> 0..MaxReplicas] /\ ready[t][app[t].build] \in 0..MaxReplicas
    BY <1>1, <2>1 DEF TypeOK
  <2>3. ready[t][app[t].build] + 1 \in 0..MaxReplicas
    BY <1>11, <2>1, <2>2, ReplicasAssumption DEF PodReady
  <2>4. ready' \in [Tenants -> [Builds -> 0..MaxReplicas]]
    BY <1>1, <1>11, <2>1, <2>2, <2>3 DEF TypeOK, PodReady
  <2> QED BY <1>1, <1>11, <2>4 DEF TypeOK, PodReady, dbVars
<1>12. ASSUME NEW t \in Tenants, NEW b \in Builds, PodGone(t, b) PROVE TypeOK'
  <2>1. ready[t][b] - 1 \in 0..MaxReplicas
    BY <1>1, <1>12, ReplicasAssumption DEF TypeOK, PodGone
  <2>2. ready' \in [Tenants -> [Builds -> 0..MaxReplicas]]
    BY <1>1, <1>12, <2>1 DEF TypeOK, PodGone
  <2> QED BY <1>1, <1>12, <2>2 DEF TypeOK, PodGone, dbVars
<1>13. ASSUME NEW t \in Tenants, RolloutStalls(t) PROVE TypeOK'
  BY <1>1, <1>13 DEF TypeOK, RolloutStalls, dbVars
<1>14. ASSUME NEW t \in Tenants, DeleteTenant(t) PROVE TypeOK'
  BY <1>1, <1>14 DEF TypeOK, DeleteTenant, clusterVars
<1>15. CASE Crash
  BY <1>1, <1>15 DEF TypeOK, Crash, dbVars, clusterVars
<1>16. CASE UNCHANGED vars
  BY <1>1, <1>16 DEF TypeOK, vars
<1> QED BY <1>2, <1>3, <1>4, <1>5, <1>6, <1>7, <1>8, <1>9, <1>10, <1>11, <1>12, <1>13,
           <1>14, <1>15, <1>16 DEF Next, TaskStep

-----------------------------------------------------------------------------
(* What each step does to the deployment it is about, and that it leaves the *)
(* others alone.                                                             *)

SameDeploy(k) ==
    /\ row'[k] = row[k] /\ req'[k] = req[k] /\ poll'[k] = poll[k] /\ polls'[k] = polls[k]
    /\ event'[k] = event[k]

OthersSame(d) == \A k \in Deploys \ {d} : SameDeploy(k)

\* A deployment none of whose state changes keeps its invariant.
LEMMA Frame == ASSUME NEW k \in Deploys, DeployInv(k), SameDeploy(k) PROVE DeployInv(k)'
BY DEF SameDeploy, DeployInv, RequestStage, PollerStage, Announced

\* The request coroutine.
LEMMA RequestStep ==
  ASSUME IInv, NEW d \in Deploys,
         \/ CreateDeployment(d) \/ InsertDeployment(d) \/ ApplyDeployment(d)
         \/ CommitDeploying(d) \/ CommitRefused(d) \/ Respond(d)
  PROVE  DeployInv(d)' /\ OthersSame(d)
<1> USE DEF DeployInv, RequestStage, PollerStage, Announced, OthersSame, SameDeploy, Pending,
            ReqGoes
<1>1. TypeOK /\ DeployInv(d)
  BY DEF IInv
<1>2. CASE CreateDeployment(d)
  BY <1>1, <1>2 DEF TypeOK, CreateDeployment, dbVars
<1>3. CASE InsertDeployment(d)
  BY <1>1, <1>3 DEF TypeOK, InsertDeployment
<1>4. CASE ApplyDeployment(d)
  BY <1>1, <1>4 DEF TypeOK, ApplyDeployment, dbVars
<1>5. CASE CommitDeploying(d)
  <2>1. CommitOK(d, "deploying") \/ CommitFails(d, "deploying")
    BY <1>5 DEF CommitDeploying
  <2>2. /\ \A k \in Deploys \ {d} : row'[k] = row[k]
        /\ row'[d] \in {row[d], "deploying"}
        /\ CommitOK(d, "deploying") => row'[d] = "deploying"
    BY <1>1, <2>1, CommitTyped
  <2> QED BY <1>1, <1>5, <2>2 DEF TypeOK, CommitDeploying
<1>6. CASE CommitRefused(d)
  <2>1. CommitOK(d, "failed") \/ CommitFails(d, "failed")
    BY <1>6 DEF CommitRefused
  <2>2. /\ \A k \in Deploys \ {d} : row'[k] = row[k]
        /\ row'[d] \in {row[d], "failed"}
        /\ CommitOK(d, "failed") => row'[d] = "failed"
    BY <1>1, <2>1, CommitTyped DEF Terminal
  <2> QED BY <1>1, <1>6, <2>2 DEF TypeOK, CommitRefused
<1>7. CASE Respond(d)
  BY <1>1, <1>7, PollsAssumption DEF TypeOK, Respond, dbVars
<1> QED BY <1>2, <1>3, <1>4, <1>5, <1>6, <1>7

\* The poller.
LEMMA PollerStep ==
  ASSUME IInv, NEW d \in Deploys,
         PollStatus(d) \/ PollRecord(d) \/ PollDispatch(d) \/ PollTimeout(d)
  PROVE  DeployInv(d)' /\ OthersSame(d)
<1> USE DEF DeployInv, RequestStage, PollerStage, Announced, OthersSame, SameDeploy, Pending,
            PollGoes
<1>1. TypeOK /\ DeployInv(d)
  BY DEF IInv
<1>2. CASE PollStatus(d)
  <2>1. DeploymentStatus(TenantOf[d]) \in {"unknown", "up", "down"}
    BY DEF DeploymentStatus
  <2> QED BY <1>1, <1>2, <2>1, PollsAssumption DEF TypeOK, PollStatus, AfterUnknown, dbVars
<1>3. CASE PollRecord(d)
  <2>1. CASE UNCHANGED row /\ PollGoes(d, "done") /\ row[d] = "none"
    BY <1>1, <1>3, <2>1 DEF TypeOK, PollRecord
  <2>2. CASE /\ CommitOK(d, Verdict(d))
             /\ PollGoes(d, IF poll[d] = "up" THEN "recorded_up" ELSE "recorded_down")
    <3>1. /\ \A k \in Deploys \ {d} : row'[k] = row[k]
          /\ row'[d] = Verdict(d)
      BY <1>1, <2>2, CommitTyped DEF Verdict, Terminal
    <3> QED BY <1>1, <1>3, <2>2, <3>1 DEF TypeOK, PollRecord, Verdict
  <2>3. CASE CommitFails(d, Verdict(d)) /\ PollGoes(d, "dead")
    <3>1. /\ \A k \in Deploys \ {d} : row'[k] = row[k]
          /\ row'[d] \in {row[d], Verdict(d)}
      BY <1>1, <2>3, CommitTyped DEF Verdict, Terminal
    <3> QED BY <1>1, <1>3, <2>3, <3>1 DEF TypeOK, PollRecord, Verdict
  <2> QED BY <1>3, <2>1, <2>2, <2>3 DEF PollRecord
<1>4. CASE PollDispatch(d)
  BY <1>1, <1>4 DEF TypeOK, PollDispatch, dbVars
<1>5. CASE PollTimeout(d)
  <2>1. CASE UNCHANGED row /\ PollGoes(d, "done") /\ row[d] # "deploying"
    BY <1>1, <1>5, <2>1 DEF TypeOK, PollTimeout
  <2>2. CASE CommitOK(d, "failed") /\ PollGoes(d, "done")
    <3>1. /\ \A k \in Deploys \ {d} : row'[k] = row[k]
          /\ row'[d] = "failed"
      BY <1>1, <2>2, CommitTyped DEF Terminal
    <3> QED BY <1>1, <1>5, <2>2, <3>1 DEF TypeOK, PollTimeout
  <2>3. CASE CommitFails(d, "failed") /\ PollGoes(d, "dead")
    <3>1. /\ \A k \in Deploys \ {d} : row'[k] = row[k]
          /\ row'[d] \in {row[d], "failed"}
      BY <1>1, <2>3, CommitTyped DEF Terminal
    <3> QED BY <1>1, <1>5, <2>3, <3>1 DEF TypeOK, PollTimeout
  <2> QED BY <1>5, <2>1, <2>2, <2>3 DEF PollTimeout
<1> QED BY <1>2, <1>3, <1>4, <1>5

\* Steps outside the coroutines: none changes a deployment's own state but the
\* deletion, which takes the row, and the restart, which takes the coroutines.
LEMMA OutsideStep ==
  ASSUME IInv, NEW k \in Deploys,
         \/ \E b \in Builds : BuildSucceeds(b)
         \/ \E t \in Tenants : PodReady(t) \/ RolloutStalls(t) \/ DeleteTenant(t)
         \/ \E t \in Tenants, b \in Builds : PodGone(t, b)
         \/ Crash \/ UNCHANGED vars
  PROVE  DeployInv(k)'
<1>1. TypeOK /\ DeployInv(k)
  BY DEF IInv
<1>2. CASE \E t \in Tenants : DeleteTenant(t)
  BY <1>1, <1>2 DEF DeleteTenant, DeployInv, RequestStage, PollerStage, Announced, Pending
<1>3. CASE Crash
  BY <1>1, <1>3 DEF TypeOK, Crash, DeployInv, RequestStage, PollerStage, Announced, Pending,
                    ReqLive, PollLive, dbVars
<1>4. CASE \/ \E b \in Builds : BuildSucceeds(b)
           \/ \E t \in Tenants : PodReady(t) \/ RolloutStalls(t)
           \/ \E t \in Tenants, b \in Builds : PodGone(t, b)
           \/ UNCHANGED vars
  <2>1. SameDeploy(k)
    BY <1>4 DEF SameDeploy, BuildSucceeds, PodReady, RolloutStalls, PodGone, vars, dbVars
  <2> QED BY <1>1, <2>1, Frame
<1> QED BY <1>2, <1>3, <1>4

-----------------------------------------------------------------------------
(* What joins deployments through tenants, builds and the cluster.           *)

\* A row is inserted only for a tenant that exists, and a deletion of the
\* tenant takes it.
LEMMA RowsStep == ASSUME IInv, [Next]_vars PROVE RowsHaveTenant'
<1>1. TypeOK /\ RowsHaveTenant
  BY DEF IInv
<1>2. ASSUME NEW d \in Deploys, InsertDeployment(d) PROVE RowsHaveTenant'
  BY <1>1, <1>2 DEF TypeOK, InsertDeployment, RowsHaveTenant
<1>3. ASSUME NEW d \in Deploys,
             CommitDeploying(d) \/ CommitRefused(d) \/ PollRecord(d) \/ PollTimeout(d)
      PROVE  RowsHaveTenant'
  <2>1. \/ \E s \in Pending \cup Terminal : CommitOK(d, s) \/ CommitFails(d, s)
        \/ UNCHANGED row
    BY <1>3 DEF CommitDeploying, CommitRefused, PollRecord, PollTimeout, Verdict, Pending, Terminal
  <2>2. \A k \in Deploys : row'[k] # "none" => row[k] # "none"
    BY <1>1, <2>1, CommitTyped
  <2>3. tenants' = tenants
    BY <1>3 DEF CommitDeploying, CommitRefused, PollRecord, PollTimeout
  <2> QED BY <1>1, <2>2, <2>3 DEF RowsHaveTenant
<1>4. ASSUME NEW d \in Deploys,
             \/ CreateDeployment(d) \/ ApplyDeployment(d) \/ Respond(d)
             \/ PollStatus(d) \/ PollDispatch(d)
      PROVE  RowsHaveTenant'
  BY <1>1, <1>4 DEF RowsHaveTenant, CreateDeployment, ApplyDeployment, Respond, PollStatus,
                    PollDispatch, dbVars
<1>5. ASSUME NEW t \in Tenants, DeleteTenant(t) PROVE RowsHaveTenant'
  BY <1>1, <1>5 DEF RowsHaveTenant, DeleteTenant
<1>6. CASE \/ \E b \in Builds : BuildSucceeds(b)
           \/ \E t \in Tenants : PodReady(t) \/ RolloutStalls(t)
           \/ \E t \in Tenants, b \in Builds : PodGone(t, b)
           \/ Crash \/ UNCHANGED vars
  BY <1>1, <1>6 DEF RowsHaveTenant, BuildSucceeds, PodReady, RolloutStalls, PodGone, Crash, vars,
                    dbVars
<1> QED BY <1>2, <1>3, <1>4, <1>5, <1>6 DEF Next, TaskStep

\* What the request read of the build stays true: owners do not change and
\* successes are not taken back.
LEMMA AskedStep == ASSUME IInv, [Next]_vars, NEW k \in Deploys PROVE AskedOwn(k)'
<1>1. TypeOK /\ AskedOwn(k)
  BY DEF IInv
<1>2. ASSUME NEW d \in Deploys, CreateDeployment(d) PROVE AskedOwn(k)'
  <2>1. CASE d # k
    BY <1>1, <1>2, <2>1 DEF TypeOK, CreateDeployment, AskedOwn, ReqGoes, dbVars
  <2>2. CASE d = k
    BY <1>1, <1>2, <2>2, NothingIsNoOrder
       DEF TypeOK, CreateDeployment, Deployable, AskedOwn, ReqGoes, ReqLive, dbVars
  <2> QED BY <2>1, <2>2
<1>3. ASSUME UNCHANGED ask, built \subseteq built', req'[k] \in ReqLive => req[k] \in ReqLive
      PROVE  AskedOwn(k)'
  BY <1>1, <1>3 DEF AskedOwn
<1>4. ASSUME NEW d \in Deploys,
             \/ InsertDeployment(d) \/ ApplyDeployment(d) \/ CommitDeploying(d)
             \/ CommitRefused(d) \/ Respond(d)
      PROVE  AskedOwn(k)'
  <2>1. UNCHANGED <<ask, built>> /\ (req'[k] \in ReqLive => req[k] \in ReqLive)
    BY <1>1, <1>4 DEF TypeOK, InsertDeployment, ApplyDeployment, CommitDeploying, CommitRefused,
                      Respond, ReqGoes, ReqLive, dbVars
  <2> QED BY <1>3, <2>1
<1>5. ASSUME NEW d \in Deploys, PollStatus(d) \/ PollRecord(d) \/ PollDispatch(d) \/ PollTimeout(d)
      PROVE  AskedOwn(k)'
  BY <1>3, <1>5 DEF PollStatus, PollRecord, PollDispatch, PollTimeout, dbVars
<1>6. CASE \/ \E b \in Builds : BuildSucceeds(b)
           \/ \E t \in Tenants : PodReady(t) \/ RolloutStalls(t) \/ DeleteTenant(t)
           \/ \E t \in Tenants, b \in Builds : PodGone(t, b)
           \/ UNCHANGED vars
  BY <1>3, <1>6 DEF BuildSucceeds, PodReady, RolloutStalls, DeleteTenant, PodGone, vars, dbVars
<1>7. CASE Crash
  <2>1. UNCHANGED <<ask, built>> /\ (req'[k] \in ReqLive => req[k] \in ReqLive)
    BY <1>1, <1>7 DEF TypeOK, Crash, ReqLive, dbVars
  <2> QED BY <1>3, <2>1
<1> QED BY <1>2, <1>4, <1>5, <1>6, <1>7 DEF Next, TaskStep

\* Only what a request asked for becomes the spec of tenant-app, and only the
\* build in the spec gets new pods.
LEMMA OwnImagesStep == ASSUME IInv, [Next]_vars PROVE OwnImagesOnly'
<1>1. TypeOK /\ OwnImagesOnly
  BY DEF IInv
<1>2. ASSUME NEW d \in Deploys, ApplyDeployment(d) PROVE OwnImagesOnly'
  <2>1. ask[d] # Nothing /\ BuildOwner[ask[d].build] = TenantOf[d] /\ ask[d].build \in built
    BY <1>2, ApplyDeploymentEffect DEF IInv, AskedOwn
  <2>2. \A t \in Tenants : app'[t] = app[t] \/ (t = TenantOf[d] /\ app'[t] = ask[d])
    BY <1>2, ApplyDeploymentEffect
  <2>3. UNCHANGED <<built, ready>>
    BY <1>2 DEF ApplyDeployment, dbVars
  <2> QED BY <1>1, <2>1, <2>2, <2>3 DEF OwnImagesOnly
<1>3. ASSUME UNCHANGED app, built \subseteq built',
             \A t \in Tenants, b \in Builds :
                 ready'[t][b] > 0 => ready[t][b] > 0 \/ (app[t] # Nothing /\ b = app[t].build)
      PROVE  OwnImagesOnly'
  BY <1>1, <1>3 DEF OwnImagesOnly
<1>4. ASSUME NEW t \in Tenants, PodReady(t) PROVE OwnImagesOnly'
  <2>1. app[t].build \in Builds
    BY <1>1, <1>4 DEF TypeOK, PodReady, Orders
  <2>2. ASSUME NEW u \in Tenants, NEW b \in Builds, u # t \/ b # app[t].build
        PROVE  ready'[u][b] = ready[u][b]
    BY <1>1, <1>4, <2>1, <2>2 DEF TypeOK, PodReady
  <2> QED BY <1>3, <1>4, <2>2 DEF PodReady, dbVars
<1>5. ASSUME NEW t \in Tenants, NEW c \in Builds, PodGone(t, c) PROVE OwnImagesOnly'
  <2>1. ASSUME NEW u \in Tenants, NEW b \in Builds, ready'[u][b] > 0 PROVE ready[u][b] > 0
    BY <1>1, <1>5, <2>1 DEF TypeOK, PodGone
  <2> QED BY <1>3, <1>5, <2>1 DEF PodGone, dbVars
<1>6. ASSUME UNCHANGED <<app, ready>>, built \subseteq built' PROVE OwnImagesOnly'
  BY <1>3, <1>6
<1>7. ASSUME NEW d \in Deploys,
             \/ CreateDeployment(d) \/ InsertDeployment(d) \/ CommitDeploying(d)
             \/ CommitRefused(d) \/ Respond(d)
             \/ PollStatus(d) \/ PollRecord(d) \/ PollDispatch(d) \/ PollTimeout(d)
      PROVE  OwnImagesOnly'
  BY <1>6, <1>7 DEF CreateDeployment, InsertDeployment, CommitDeploying, CommitRefused, Respond,
                    PollStatus, PollRecord, PollDispatch, PollTimeout, dbVars, clusterVars
<1>8. CASE \/ \E b \in Builds : BuildSucceeds(b)
           \/ \E t \in Tenants : RolloutStalls(t) \/ DeleteTenant(t)
           \/ Crash \/ UNCHANGED vars
  BY <1>6, <1>8 DEF BuildSucceeds, RolloutStalls, DeleteTenant, Crash, vars, dbVars, clusterVars
<1> QED BY <1>2, <1>4, <1>5, <1>7, <1>8 DEF Next, TaskStep

\* Neither object goes away again, and a row reaches deploying or running only
\* from a request that saw both calls answered.
LEMMA ReachableStep == ASSUME IInv, [Next]_vars, NEW k \in Deploys PROVE Reachable(k)'
<1>0. TenantOf[k] \in Tenants
  BY TenantOfAssumption
<1>1. TypeOK /\ Reachable(k) /\ RequestStage(k) /\ PollerStage(k)
  BY DEF IInv, DeployInv
<1>2. ASSUME NEW d \in Deploys, ApplyDeployment(d) PROVE Reachable(k)'
  <2>1. /\ service \subseteq service'
        /\ app[TenantOf[k]] # Nothing => app'[TenantOf[k]] # Nothing
        /\ req'[d] = "applied" => TenantOf[d] \in service' /\ app'[TenantOf[d]] # Nothing
    BY <1>0, <1>2, ApplyDeploymentEffect
  <2>2. /\ row' = row
        /\ req'[k] = req[k] \/ (k = d /\ req'[k] \in {"error", "applied", "refused"})
    BY <1>1, <1>2 DEF TypeOK, ApplyDeployment, ReqGoes, dbVars
  <2> QED BY <1>1, <2>1, <2>2 DEF Reachable
<1>3. ASSUME UNCHANGED <<app, service>>,
             req'[k] \in {"applied", "deploying"} => req[k] \in {"applied", "deploying"},
             row'[k] \in {"deploying", "running"} =>
                 row[k] \in {"deploying", "running"} \/ req[k] = "applied"
      PROVE  Reachable(k)'
  BY <1>1, <1>3 DEF Reachable
<1>4. ASSUME NEW d \in Deploys, CreateDeployment(d) \/ InsertDeployment(d) \/ Respond(d)
      PROVE  Reachable(k)'
  BY <1>1, <1>3, <1>4 DEF TypeOK, CreateDeployment, InsertDeployment, Respond, ReqGoes, dbVars,
                          clusterVars
<1>5. ASSUME NEW d \in Deploys, CommitDeploying(d) \/ CommitRefused(d) PROVE Reachable(k)'
  <2>1. req'[k] \in {"applied", "deploying"} => req[k] \in {"applied", "deploying"}
    BY <1>1, <1>5 DEF TypeOK, CommitDeploying, CommitRefused, ReqGoes
  <2>2. row'[k] \in {"deploying", "running"} =>
            row[k] \in {"deploying", "running"} \/ req[k] = "applied"
    BY <1>1, <1>5 DEF TypeOK, CommitDeploying, CommitRefused, CommitOK, CommitFails
  <2> QED BY <1>3, <1>5, <2>1, <2>2 DEF CommitDeploying, CommitRefused, clusterVars
<1>6. ASSUME NEW d \in Deploys, PollRecord(d) \/ PollTimeout(d) PROVE Reachable(k)'
  <2>1. \/ UNCHANGED row
        \/ \E s \in Terminal : CommitOK(d, s) \/ CommitFails(d, s)
    BY <1>6 DEF PollRecord, PollTimeout, Verdict, Terminal
  <2>2. row'[k] # row[k] => k = d /\ row[k] # "none"
    BY <1>1, <2>1, CommitTyped
  <2>3. k = d => row[k] \in {"none", "deploying"}
    BY <1>1, <1>6 DEF PollRecord, PollTimeout, PollerStage
  <2> QED BY <1>3, <1>6, <2>2, <2>3 DEF PollRecord, PollTimeout, clusterVars
<1>7. ASSUME NEW d \in Deploys, PollStatus(d) \/ PollDispatch(d) PROVE Reachable(k)'
  BY <1>3, <1>7 DEF PollStatus, PollDispatch, dbVars, clusterVars
<1>8. CASE \/ \E b \in Builds : BuildSucceeds(b)
           \/ \E t \in Tenants : PodReady(t) \/ RolloutStalls(t)
           \/ \E t \in Tenants, b \in Builds : PodGone(t, b)
           \/ UNCHANGED vars
  BY <1>3, <1>8 DEF BuildSucceeds, PodReady, RolloutStalls, PodGone, vars, dbVars, clusterVars
<1>9. CASE Crash \/ \E t \in Tenants : DeleteTenant(t)
  BY <1>1, <1>3, <1>9 DEF TypeOK, Crash, DeleteTenant, dbVars, clusterVars
<1> QED BY <1>2, <1>4, <1>5, <1>6, <1>7, <1>8, <1>9 DEF Next, TaskStep

\* The invariant is inductive.
LEMMA IInvStep == ASSUME IInv, [Next]_vars PROVE IInv'
<1>1. TypeOK' /\ RowsHaveTenant' /\ OwnImagesOnly'
  BY TypeStep, RowsStep, OwnImagesStep
<1>2. ASSUME NEW k \in Deploys PROVE DeployInv(k)'
  <2>1. ASSUME NEW d \in Deploys, DeployInv(d)' /\ OthersSame(d) PROVE DeployInv(k)'
    BY <2>1, Frame DEF OthersSame, IInv
  <2> QED BY <2>1, RequestStep, PollerStep, OutsideStep DEF Next, TaskStep
<1>3. \A k \in Deploys : AskedOwn(k)' /\ Reachable(k)'
  BY AskedStep, ReachableStep
<1> QED BY <1>1, <1>2, <1>3 DEF IInv

\* Every reachable state satisfies the inductive invariant, for every number of
\* tenants, builds, deployments, replicas and polls and every kind of fault.
THEOREM Invariance == Spec => []IInv
BY InitIInv, IInvStep, PTL DEF Spec

-----------------------------------------------------------------------------
(* The safety properties of Deployments.                                    *)

\* Every variable keeps its type.
THEOREM TypeCorrect == Spec => []TypeOK
<1>1. IInv => TypeOK
  BY DEF IInv
<1> QED BY Invariance, <1>1, PTL

\* A namespace only ever runs images of the tenant's own successful builds,
\* whatever is deleted, refused or restarted between the check and the call.
THEOREM OwnImagesAlways == Spec => []OwnImagesOnly
<1>1. IInv => OwnImagesOnly
  BY DEF IInv
<1> QED BY Invariance, <1>1, PTL

\* A row that says deploying or running has the Deployment and the Service
\* behind it.
THEOREM DeployedAlwaysReachable == Spec => []DeployedIsReachable
<1>1. IInv => DeployedIsReachable
  BY DEF IInv, DeployedIsReachable, Reachable
<1> QED BY Invariance, <1>1, PTL

\* No row outlives its tenant, in whatever order deletions and awaits come.
THEOREM RowsHaveTenantAlways == Spec => []RowsHaveTenant
<1>1. IInv => RowsHaveTenant
  BY DEF IInv
<1> QED BY Invariance, <1>1, PTL

\* The event that is sent is the result in the row.
THEOREM EventsAlwaysMatch == Spec => []EventMatchesRow
<1>1. IInv => EventMatchesRow
  BY DEF IInv, DeployInv, Announced, EventMatchesRow
<1> QED BY Invariance, <1>1, PTL

\* A pending row has a live coroutine, unless that coroutine was ended by an
\* error or a restart.
THEOREM PendingAlwaysOwned == Spec => []PendingHasOwner
<1>1. ASSUME IInv, NEW d \in Deploys
      PROVE  /\ ~(req[d] \in ReqLive /\ poll[d] \in PollLive)
             /\ row[d] = "pending" =>
                   req[d] \in {"inserted", "applied", "refused", "error", "lost"}
             /\ row[d] = "deploying" =>
                   \/ req[d] \in {"deploying", "error", "lost"}
                   \/ poll[d] \in {"sleeping", "up", "down", "timedout", "dead", "lost"}
  <2>1. RequestStage(d) /\ PollerStage(d) /\ req[d] \in ReqPCs /\ poll[d] \in PollPCs
    BY <1>1 DEF IInv, DeployInv, TypeOK
  <2> QED BY <2>1 DEF RequestStage, PollerStage, ReqPCs, ReqLive, PollPCs, PollLive, Pending
<1>2. IInv => PendingHasOwner
  BY <1>1 DEF PendingHasOwner
<1> QED BY Invariance, <1>2, PTL

\* Whoever writes a row finds it in the state he left it, so a final one is not
\* written.
LEMMA FrozenStep ==
  ASSUME IInv, [Next]_vars, NEW k \in Deploys, row[k] \in Terminal
  PROVE  row'[k] \in {row[k], "none"}
<1>1. TypeOK /\ RequestStage(k) /\ PollerStage(k) /\ row[k] \in {"running", "failed"}
  BY DEF IInv, DeployInv, Terminal
<1>2. ASSUME NEW d \in Deploys, InsertDeployment(d) PROVE row'[k] = row[k]
  BY <1>1, <1>2 DEF TypeOK, InsertDeployment, RequestStage
<1>3. ASSUME NEW d \in Deploys,
             CommitDeploying(d) \/ CommitRefused(d) \/ PollRecord(d) \/ PollTimeout(d)
      PROVE  row'[k] = row[k]
  <2>1. d # k
    BY <1>1, <1>3 DEF CommitDeploying, CommitRefused, PollRecord, PollTimeout, RequestStage,
                      PollerStage
  <2>2. \/ \E s \in Pending \cup Terminal : CommitOK(d, s) \/ CommitFails(d, s)
        \/ UNCHANGED row
    BY <1>3 DEF CommitDeploying, CommitRefused, PollRecord, PollTimeout, Verdict, Pending, Terminal
  <2> QED BY <1>1, <2>1, <2>2, CommitTyped
<1>4. ASSUME NEW d \in Deploys,
             \/ CreateDeployment(d) \/ ApplyDeployment(d) \/ Respond(d) \/ PollStatus(d)
             \/ PollDispatch(d)
      PROVE  row' = row
  BY <1>4 DEF CreateDeployment, ApplyDeployment, Respond, PollStatus, PollDispatch, dbVars
<1>5. ASSUME NEW t \in Tenants, DeleteTenant(t) PROVE row'[k] \in {row[k], "none"}
  BY <1>5 DEF DeleteTenant
<1>6. CASE \/ \E b \in Builds : BuildSucceeds(b)
           \/ \E t \in Tenants : PodReady(t) \/ RolloutStalls(t)
           \/ \E t \in Tenants, b \in Builds : PodGone(t, b)
           \/ Crash \/ UNCHANGED vars
  BY <1>6 DEF BuildSucceeds, PodReady, RolloutStalls, PodGone, Crash, vars, dbVars
<1> QED BY <1>2, <1>3, <1>4, <1>5, <1>6 DEF Next, TaskStep

\* A result is final: neither a later deployment of the same tenant-app nor a
\* late poll nor an error branch rewrites a row that says running or failed.
THEOREM ResultsAreFrozen == Spec => TerminalFrozen
<1>1. ASSUME IInv, [Next]_vars
      PROVE  [\A d \in Deploys : row[d] \in Terminal => row'[d] \in {row[d], "none"}]_vars
  BY <1>1, FrozenStep
<1> QED BY Invariance, <1>1, PTL DEF Spec, TerminalFrozen

-----------------------------------------------------------------------------
(* Where pods come from, and what a poller's count of them means.            *)

\* The request has made, or may have made, its cluster calls: the states that
\* SoleVerdictHonest does not exclude of other deployments.
Reached(d) == req[d] \notin {"idle", "rejected", "checked", "inserted"}

\* Every Deployment is what some request that reached the cluster asked for,
\* and every ready pod runs a build that some such request asked for.
AppAsked ==
    \A t \in Tenants : app[t] # Nothing =>
        \E d \in Deploys : TenantOf[d] = t /\ Reached(d) /\ ask[d] = app[t]
PodsAsked ==
    \A t \in Tenants, b \in Builds : ready[t][b] > 0 =>
        \E d \in Deploys :
            TenantOf[d] = t /\ Reached(d) /\ ask[d] # Nothing /\ ask[d].build = b

\* A request that reached the cluster stays one that did, and its body is read
\* once.
LEMMA ReachedStays ==
  ASSUME IInv, [Next]_vars, NEW k \in Deploys, Reached(k)
  PROVE  Reached(k)' /\ ask'[k] = ask[k]
<1>1. TypeOK
  BY DEF IInv
<1>2. ASSUME NEW d \in Deploys, CreateDeployment(d) PROVE Reached(k)' /\ ask'[k] = ask[k]
  BY <1>1, <1>2 DEF TypeOK, CreateDeployment, ReqGoes, Reached
<1>3. ASSUME NEW d \in Deploys,
             \/ InsertDeployment(d) \/ ApplyDeployment(d) \/ CommitDeploying(d)
             \/ CommitRefused(d) \/ Respond(d)
      PROVE  Reached(k)' /\ ask'[k] = ask[k]
  BY <1>1, <1>3 DEF TypeOK, InsertDeployment, ApplyDeployment, CommitDeploying, CommitRefused,
                    Respond, ReqGoes, Reached
<1>4. ASSUME NEW d \in Deploys, PollStatus(d) \/ PollRecord(d) \/ PollDispatch(d) \/ PollTimeout(d)
      PROVE  Reached(k)' /\ ask'[k] = ask[k]
  BY <1>4 DEF PollStatus, PollRecord, PollDispatch, PollTimeout, Reached
<1>5. CASE \/ \E b \in Builds : BuildSucceeds(b)
           \/ \E t \in Tenants : PodReady(t) \/ RolloutStalls(t) \/ DeleteTenant(t)
           \/ \E t \in Tenants, b \in Builds : PodGone(t, b)
           \/ UNCHANGED vars
  BY <1>5 DEF BuildSucceeds, PodReady, RolloutStalls, DeleteTenant, PodGone, vars, Reached
<1>6. CASE Crash
  BY <1>1, <1>6 DEF TypeOK, Crash, ReqLive, Reached
<1> QED BY <1>2, <1>3, <1>4, <1>5, <1>6 DEF Next, TaskStep

\* A step makes a Deployment only from the request that takes it, which has
\* then reached the cluster.
LEMMA AppOrigin ==
  ASSUME IInv, [Next]_vars, NEW t \in Tenants
  PROVE  \/ app'[t] = app[t]
         \/ \E d \in Deploys : TenantOf[d] = t /\ Reached(d)' /\ ask'[d] = app'[t]
<1>1. TypeOK
  BY DEF IInv
<1>2. ASSUME NEW d \in Deploys, ApplyDeployment(d), app'[t] # app[t]
      PROVE  TenantOf[d] = t /\ Reached(d)' /\ ask'[d] = app'[t]
  <2>1. t = TenantOf[d] /\ app'[t] = ask[d]
    BY <1>2, ApplyDeploymentEffect
  <2>2. ask' = ask /\ req'[d] \in {"error", "applied", "refused"}
    BY <1>1, <1>2 DEF TypeOK, ApplyDeployment, ReqGoes
  <2> QED BY <2>1, <2>2 DEF Reached
<1>3. ASSUME NEW d \in Deploys,
             \/ CreateDeployment(d) \/ InsertDeployment(d) \/ CommitDeploying(d)
             \/ CommitRefused(d) \/ Respond(d)
             \/ PollStatus(d) \/ PollRecord(d) \/ PollDispatch(d) \/ PollTimeout(d)
      PROVE  app' = app
  BY <1>3 DEF CreateDeployment, InsertDeployment, CommitDeploying, CommitRefused, Respond,
              PollStatus, PollRecord, PollDispatch, PollTimeout, clusterVars
<1>4. CASE \/ \E b \in Builds : BuildSucceeds(b)
           \/ \E u \in Tenants : PodReady(u) \/ RolloutStalls(u) \/ DeleteTenant(u)
           \/ \E u \in Tenants, b \in Builds : PodGone(u, b)
           \/ Crash \/ UNCHANGED vars
  BY <1>4 DEF BuildSucceeds, PodReady, RolloutStalls, DeleteTenant, PodGone, Crash, vars,
              clusterVars
<1> QED BY <1>2, <1>3, <1>4 DEF Next, TaskStep

\* A build gets its first pod from the Deployment that names it.
LEMMA PodOrigin ==
  ASSUME IInv, [Next]_vars, NEW t \in Tenants, NEW b \in Builds, ready'[t][b] > 0
  PROVE  ready[t][b] > 0 \/ (app[t] # Nothing /\ app[t].build = b)
<1>1. TypeOK
  BY DEF IInv
<1>2. ASSUME NEW u \in Tenants, PodReady(u)
      PROVE  ready[t][b] > 0 \/ (app[t] # Nothing /\ app[t].build = b)
  <2>1. app[u].build \in Builds
    BY <1>1, <1>2 DEF TypeOK, PodReady, Orders
  <2>2. t # u \/ b # app[u].build => ready'[t][b] = ready[t][b]
    BY <1>1, <1>2, <2>1 DEF TypeOK, PodReady
  <2> QED BY <1>2, <2>2 DEF PodReady
<1>3. ASSUME NEW u \in Tenants, NEW c \in Builds, PodGone(u, c) PROVE ready[t][b] > 0
  BY <1>1, <1>3 DEF TypeOK, PodGone
<1>4. ASSUME NEW d \in Deploys, CreateDeployment(d) \/ TaskStep(d) PROVE ready' = ready
  BY <1>4 DEF TaskStep, CreateDeployment, InsertDeployment, ApplyDeployment, CommitDeploying,
              CommitRefused, Respond, PollStatus, PollRecord, PollDispatch, PollTimeout, clusterVars
<1>5. CASE \/ \E c \in Builds : BuildSucceeds(c)
           \/ \E u \in Tenants : RolloutStalls(u) \/ DeleteTenant(u)
           \/ Crash \/ UNCHANGED vars
  BY <1>5 DEF BuildSucceeds, RolloutStalls, DeleteTenant, Crash, vars, clusterVars
<1> QED BY <1>2, <1>3, <1>4, <1>5 DEF Next

\* Both facts are kept.
LEMMA AskedForStep ==
  ASSUME IInv, AppAsked, PodsAsked, [Next]_vars
  PROVE  AppAsked' /\ PodsAsked'
<1>1. ASSUME NEW t \in Tenants, app'[t] # Nothing
      PROVE  \E d \in Deploys : TenantOf[d] = t /\ Reached(d)' /\ ask'[d] = app'[t]
  <2>1. CASE app'[t] = app[t]
    <3>1. PICK d \in Deploys : TenantOf[d] = t /\ Reached(d) /\ ask[d] = app[t]
      BY <1>1, <2>1 DEF AppAsked
    <3> QED BY <2>1, <3>1, ReachedStays
  <2> QED BY <2>1, AppOrigin
<1>2. ASSUME NEW t \in Tenants, NEW b \in Builds, ready'[t][b] > 0
      PROVE  \E d \in Deploys :
                TenantOf[d] = t /\ Reached(d)' /\ ask'[d] # Nothing /\ ask'[d].build = b
  <2>1. \E d \in Deploys :
            TenantOf[d] = t /\ Reached(d) /\ ask[d] # Nothing /\ ask[d].build = b
    <3>1. CASE ready[t][b] > 0
      BY <3>1 DEF PodsAsked
    <3>2. CASE app[t] # Nothing /\ app[t].build = b
      BY <3>2 DEF AppAsked
    <3> QED BY <1>2, <3>1, <3>2, PodOrigin
  <2>2. PICK d \in Deploys :
            TenantOf[d] = t /\ Reached(d) /\ ask[d] # Nothing /\ ask[d].build = b
    BY <2>1
  <2> QED BY <2>2, ReachedStays
<1>3. AppAsked'
  BY <1>1 DEF AppAsked
<1> HIDE DEF Reached
<1>4. PodsAsked'
  BY <1>2 DEF PodsAsked
<1> QED BY <1>3, <1>4

\* Every Deployment and every ready pod is what a request asked for that reached
\* the cluster.
THEOREM AskedForAlways == Spec => [](AppAsked /\ PodsAsked)
<1>1. Init => AppAsked /\ PodsAsked
  BY DEF Init, AppAsked, PodsAsked
<1>2. IInv /\ AppAsked /\ PodsAsked /\ [Next]_vars => AppAsked' /\ PodsAsked'
  BY AskedForStep
<1> QED BY Invariance, <1>1, <1>2, PTL DEF Spec

\* When pods of one build only are ready, the count over all revisions is no
\* more than the count of that build.
LEMMA CountOfOneBuild ==
  ASSUME TypeOK, NEW t \in Tenants, NEW b \in Builds,
         \A c \in Builds \ {b} : ready[t][c] = 0
  PROVE  ReadyReplicas(t) \in Nat /\ ReadyReplicas(t) <= ready[t][b]
<1>1. ready[t][b] \in Nat /\ \A c \in Builds : ready[t][c] \in Nat
  BY ReplicasAssumption DEF TypeOK
<1> DEFINE n == ready[t][b]
           Own == {b} \X (1..n)
<1>2. ReadyPods(t) \subseteq Own
  <2> SUFFICES ASSUME NEW p \in ReadyPods(t) PROVE p \in Own
    OBVIOUS
  <2>1. p \in Builds \X (1..MaxReplicas) /\ p[2] <= ready[t][p[1]]
    BY DEF ReadyPods
  <2>2. p = <<p[1], p[2]>> /\ p[1] \in Builds /\ p[2] \in Nat /\ p[2] >= 1
    BY <2>1, ReplicasAssumption
  <2>3. p[1] = b
    BY <1>1, <2>1, <2>2
  <2> QED BY <1>1, <2>1, <2>2, <2>3
<1>3. IsFiniteSet({b}) /\ Cardinality({b}) = 1
  BY FS_Singleton
<1>4. IsFiniteSet(1..n) /\ Cardinality(1..n) = n
  <2>1. \A m \in Nat : IsFiniteSet(1..m) /\ Cardinality(1..m) = IF 1 > m THEN 0 ELSE m - 1 + 1
    BY FS_Interval
  <2> QED BY <1>1, <2>1
<1>5. IsFiniteSet(Own) /\ Cardinality(Own) = n
  <2>1. IsFiniteSet(Own) /\ Cardinality(Own) = Cardinality({b}) * Cardinality(1..n)
    BY <1>3, <1>4, FS_Product
  <2> QED BY <1>1, <1>3, <1>4, <2>1
<1>6. IsFiniteSet(ReadyPods(t)) /\ Cardinality(ReadyPods(t)) <= Cardinality(Own)
  BY <1>2, <1>5, FS_Subset
<1>7. Cardinality(ReadyPods(t)) \in Nat
  BY <1>6, FS_CardinalityType
<1> QED BY <1>5, <1>6, <1>7 DEF ReadyReplicas

\* Only a poll that finds the Deployment up moves a poller from sleeping to up.
LEMMA UpMeansCounted ==
  ASSUME IInv, [Next]_vars, NEW d \in Deploys, poll[d] = "sleeping", poll'[d] = "up"
  PROVE  DeploymentStatus(TenantOf[d]) = "up"
<1>1. TypeOK
  BY DEF IInv
<1>2. ASSUME NEW e \in Deploys, PollStatus(e) PROVE DeploymentStatus(TenantOf[d]) = "up"
  BY <1>1, <1>2 DEF TypeOK, PollStatus, PollGoes, AfterUnknown
<1>3. ASSUME NEW e \in Deploys, PollRecord(e) \/ PollDispatch(e) \/ PollTimeout(e) \/ Respond(e)
      PROVE  poll'[d] # "up" \/ poll'[d] = poll[d]
  BY <1>1, <1>3 DEF TypeOK, PollRecord, PollDispatch, PollTimeout, Respond, PollGoes
<1>4. ASSUME NEW e \in Deploys,
             \/ CreateDeployment(e) \/ InsertDeployment(e) \/ ApplyDeployment(e)
             \/ CommitDeploying(e) \/ CommitRefused(e)
      PROVE  poll' = poll
  BY <1>4 DEF CreateDeployment, InsertDeployment, ApplyDeployment, CommitDeploying, CommitRefused
<1>5. CASE \/ \E b \in Builds : BuildSucceeds(b)
           \/ \E t \in Tenants : PodReady(t) \/ RolloutStalls(t) \/ DeleteTenant(t)
           \/ \E t \in Tenants, b \in Builds : PodGone(t, b)
           \/ UNCHANGED vars
  BY <1>5 DEF BuildSucceeds, PodReady, RolloutStalls, DeleteTenant, PodGone, vars
<1>6. CASE Crash
  BY <1>6 DEF Crash, PollLive
<1> QED BY <1>2, <1>3, <1>4, <1>5, <1>6 DEF Next, TaskStep

\* Until another deployment reaches the cluster, a poller that says "up" has
\* counted pods of the build its request asked for, and enough of them.
THEOREM SoleVerdictsAlwaysHonest == Spec => SoleVerdictHonest
<1>1. ASSUME IInv, AppAsked, PodsAsked, [Next]_vars, NEW d \in Deploys,
             poll[d] = "sleeping", poll'[d] = "up",
             \A e \in Deploys \ {d} : TenantOf[e] = TenantOf[d]
                 => req[e] \in {"idle", "rejected", "checked", "inserted"}
      PROVE  ready[TenantOf[d]][ask[d].build] >= ask[d].replicas
  <2> DEFINE t == TenantOf[d]
  <2>1. t \in Tenants /\ TypeOK
    BY TenantOfAssumption, <1>1 DEF IInv
  <2>2. /\ app[t] # Nothing /\ ReadyReplicas(t) >= app[t].replicas
    BY <1>1, UpMeansCounted DEF DeploymentStatus
  <2>3. \A e \in Deploys : TenantOf[e] = t /\ Reached(e) => e = d
    BY <1>1 DEF Reached
  <2>4. app[t] = ask[d]
    BY <1>1, <2>1, <2>2, <2>3 DEF AppAsked
  <2>5. ask[d].build \in Builds /\ ask[d].replicas \in Nat
    BY <2>1, <2>2, <2>4, ReplicasAssumption DEF TypeOK, Orders
  <2>6. ASSUME NEW c \in Builds \ {ask[d].build} PROVE ready[t][c] = 0
    <3>1. ~ (ready[t][c] > 0)
      BY <1>1, <2>1, <2>3, <2>6 DEF PodsAsked
    <3>2. ready[t][c] \in Nat
      BY <2>1, ReplicasAssumption DEF TypeOK
    <3> QED BY <3>1, <3>2
  <2>7. ReadyReplicas(t) \in Nat /\ ReadyReplicas(t) <= ready[t][ask[d].build]
    BY <2>1, <2>5, <2>6, CountOfOneBuild
  <2>8. ready[t][ask[d].build] \in Nat
    BY <2>1, <2>5, ReplicasAssumption DEF TypeOK
  <2> QED BY <2>2, <2>4, <2>5, <2>7, <2>8
<1>2. ASSUME IInv, AppAsked, PodsAsked, [Next]_vars
      PROVE  [\A d \in Deploys :
               (/\ poll[d] = "sleeping" /\ poll'[d] = "up"
                /\ \A e \in Deploys \ {d} : TenantOf[e] = TenantOf[d]
                       => req[e] \in {"idle", "rejected", "checked", "inserted"})
               => ready[TenantOf[d]][ask[d].build] >= ask[d].replicas]_vars
  BY <1>1, <1>2
<1> QED BY Invariance, AskedForAlways, <1>2, PTL DEF Spec, SoleVerdictHonest

-----------------------------------------------------------------------------
(* Refinement of JobLifecycle.                                              *)

PhaseOf(d) == IF row[d] # "none" THEN PhaseName[row[d]]
              ELSE IF req[d] \in {"idle", "checked"} THEN "absent" ELSE "gone"

\* The phases of all deployments, from the phase of each.
LEMMA PhaseIsPhaseOf == Phase = [d \in Deploys |-> PhaseOf(d)]
BY DEF Phase, PhaseOf

\* A step that concerns one deployment and moves its phase in an allowed way is
\* a step of the abstract specification.
LEMMA OneDeployMoves ==
  ASSUME NEW d \in Deploys, OthersSame(d),
         \/ PhaseOf(d)' \in {PhaseOf(d), "gone"}
         \/ <<PhaseOf(d), PhaseOf(d)'>> \in Lifecycle!Moves
  PROVE  Lifecycle!LNext
<1>1. \A k \in Deploys \ {d} : PhaseOf(k)' = PhaseOf(k)
  BY DEF OthersSame, SameDeploy, PhaseOf
<1>2. Phase' = [k \in Deploys |-> PhaseOf(k)']
  BY DEF Phase, PhaseOf
<1> HIDE DEF PhaseOf
<1>3. CASE PhaseOf(d)' = "gone"
  <2>1. Lifecycle!Remove({d})
    BY <1>1, <1>2, <1>3, PhaseIsPhaseOf DEF Lifecycle!Remove
  <2> QED BY <2>1 DEF Lifecycle!LNext
<1>4. CASE PhaseOf(d)' = PhaseOf(d)
  <2>1. Lifecycle!Remove({})
    BY <1>1, <1>2, <1>4, PhaseIsPhaseOf DEF Lifecycle!Remove
  <2> QED BY <2>1 DEF Lifecycle!LNext
<1>5. CASE <<PhaseOf(d), PhaseOf(d)'>> \in Lifecycle!Moves
  <2>1. Phase' = [Phase EXCEPT ![d] = PhaseOf(d)']
    BY <1>1, <1>2, PhaseIsPhaseOf
  <2>2. Phase[d] = PhaseOf(d)
    BY PhaseIsPhaseOf
  <2>3. PICK m \in Lifecycle!Moves : m[1] = PhaseOf(d) /\ m[2] = PhaseOf(d)'
    BY <1>5
  <2>4. Lifecycle!Advance(d)
    BY <2>1, <2>2, <2>3 DEF Lifecycle!Advance
  <2> QED BY <2>4 DEF Lifecycle!LNext
<1> QED BY <1>3, <1>4, <1>5

\* The steps of one deployment.
LEMMA DeployStepRefines ==
  ASSUME IInv, NEW d \in Deploys, CreateDeployment(d) \/ TaskStep(d)
  PROVE  Lifecycle!LNext
<1>1. TypeOK /\ RequestStage(d) /\ PollerStage(d)
  BY DEF IInv, DeployInv
<1>2. OthersSame(d)
  BY RequestStep, PollerStep DEF TaskStep
<1>3. CASE CreateDeployment(d)
  <2>1. row'[d] = row[d] /\ row[d] = "none" /\ req[d] = "idle"
    BY <1>1, <1>3 DEF CreateDeployment, RequestStage, dbVars
  <2>2. PhaseOf(d)' \in {PhaseOf(d), "gone"}
    BY <2>1 DEF PhaseOf
  <2> QED BY <1>2, <2>2, OneDeployMoves
<1>4. CASE InsertDeployment(d)
  <2>1. row[d] = "none" /\ req[d] = "checked" /\ req'[d] \in {"inserted", "error"}
    BY <1>1, <1>4 DEF TypeOK, InsertDeployment, ReqGoes, RequestStage
  <2>2. row'[d] = "pending" \/ (row'[d] = "none" /\ req'[d] = "error")
    BY <1>1, <1>4, <2>1 DEF TypeOK, InsertDeployment, ReqGoes
  <2>3. PhaseOf(d)' = "gone" \/ (PhaseOf(d) = "absent" /\ PhaseOf(d)' = "queued")
    BY <2>1, <2>2 DEF PhaseOf, PhaseName
  <2> QED BY <1>2, <2>3, OneDeployMoves DEF Lifecycle!Moves
<1>5. CASE ApplyDeployment(d) \/ Respond(d) \/ PollStatus(d) \/ PollDispatch(d)
  <2>1. row'[d] = row[d]
    BY <1>5 DEF ApplyDeployment, Respond, PollStatus, PollDispatch, dbVars
  <2>2. req'[d] \in {"idle", "checked"} <=> req[d] \in {"idle", "checked"}
    BY <1>1, <1>5 DEF TypeOK, ApplyDeployment, Respond, PollStatus, PollDispatch, ReqGoes
  <2>3. PhaseOf(d)' = PhaseOf(d)
    BY <2>1, <2>2 DEF PhaseOf
  <2> QED BY <1>2, <2>3, OneDeployMoves
<1>6. CASE CommitDeploying(d) \/ CommitRefused(d)
  <2>1. /\ req[d] \in {"applied", "refused"} /\ req'[d] \in {"deploying", "done", "error"}
        /\ row[d] \in {"none", "pending"}
    BY <1>1, <1>6 DEF TypeOK, CommitDeploying, CommitRefused, ReqGoes, RequestStage
  <2>2. row'[d] = row[d] \/ (row[d] = "pending" /\ row'[d] \in {"deploying", "failed"})
    BY <1>1, <1>6, <2>1 DEF TypeOK, CommitDeploying, CommitRefused, CommitOK, CommitFails
  <2>3. \/ PhaseOf(d)' = PhaseOf(d)
        \/ PhaseOf(d) = "queued" /\ PhaseOf(d)' \in {"building", "failed"}
    BY <2>1, <2>2 DEF PhaseOf, PhaseName
  <2> QED BY <1>2, <2>3, OneDeployMoves DEF Lifecycle!Moves
<1>7. CASE PollRecord(d) \/ PollTimeout(d)
  <2>1. req[d] = "done" /\ req'[d] = "done" /\ row[d] \in {"none", "deploying"}
    BY <1>1, <1>7 DEF TypeOK, PollRecord, PollTimeout, RequestStage, PollerStage
  <2>2. row'[d] = row[d] \/ (row[d] = "deploying" /\ row'[d] \in {"running", "failed"})
    BY <1>1, <1>7, <2>1 DEF TypeOK, PollRecord, PollTimeout, CommitOK, CommitFails, Verdict
  <2>3. \/ PhaseOf(d)' = PhaseOf(d)
        \/ PhaseOf(d) = "building" /\ PhaseOf(d)' \in {"succeeded", "failed"}
    BY <2>1, <2>2 DEF PhaseOf, PhaseName
  <2> QED BY <1>2, <2>3, OneDeployMoves DEF Lifecycle!Moves
<1> QED BY <1>3, <1>4, <1>5, <1>6, <1>7 DEF TaskStep

\* Deleting a tenant removes the rows it has; a restart ends the requests that
\* had not inserted theirs.
LEMMA GlobalStepRefines ==
  ASSUME IInv, Crash \/ \E t \in Tenants : DeleteTenant(t)
  PROVE  Lifecycle!LNext
<1>1. TypeOK /\ \A k \in Deploys : RequestStage(k)
  BY DEF IInv, DeployInv
<1>2. Phase' = [k \in Deploys |-> PhaseOf(k)']
  BY DEF Phase, PhaseOf
<1>3. ASSUME NEW S \in SUBSET Deploys,
             \A k \in Deploys : PhaseOf(k)' = IF k \in S THEN "gone" ELSE PhaseOf(k)
      PROVE  Lifecycle!LNext
  <2> HIDE DEF PhaseOf
  <2>1. Lifecycle!Remove(S)
    BY <1>2, <1>3, PhaseIsPhaseOf DEF Lifecycle!Remove
  <2> QED BY <2>1 DEF Lifecycle!LNext
<1>4. CASE Crash
  <2> DEFINE S == {k \in Deploys : req[k] = "checked"}
  <2>1. ASSUME NEW k \in Deploys PROVE PhaseOf(k)' = IF k \in S THEN "gone" ELSE PhaseOf(k)
    <3>1. /\ row'[k] = row[k]
          /\ req'[k] = IF req[k] \in ReqLive THEN "lost" ELSE req[k]
      BY <1>4 DEF Crash, dbVars
    <3>2. req[k] = "checked" => row[k] = "none"
      BY <1>1 DEF RequestStage
    <3> QED BY <3>1, <3>2 DEF PhaseOf, ReqLive
  <2> QED BY <1>3, <2>1
<1>5. ASSUME NEW t \in Tenants, DeleteTenant(t) PROVE Lifecycle!LNext
  <2> DEFINE S == {k \in Deploys : TenantOf[k] = t /\ req[k] \notin {"idle", "checked"}}
  <2>1. ASSUME NEW k \in Deploys PROVE PhaseOf(k)' = IF k \in S THEN "gone" ELSE PhaseOf(k)
    <3>1. /\ row'[k] = IF TenantOf[k] = t THEN "none" ELSE row[k]
          /\ req'[k] = req[k]
      BY <1>5 DEF DeleteTenant
    <3>2. req[k] \in {"idle", "checked"} => row[k] = "none"
      BY <1>1 DEF RequestStage
    <3> QED BY <3>1, <3>2 DEF PhaseOf
  <2> QED BY <1>3, <2>1
<1> QED BY <1>4, <1>5

\* The deployment service implements JobLifecycle: every step is a promised move
\* of one row, the removal of a set of rows, or invisible in the database.
THEOREM DeploymentsRefineLifecycle == Spec => ImplementsLifecycle
<1>1. Init => Lifecycle!LInit
  BY DEF Init, Phase, Lifecycle!LInit
<1>2. ASSUME IInv, [Next]_vars PROVE [Lifecycle!LNext]_Phase
  <2>1. CASE \/ \E b \in Builds : BuildSucceeds(b)
             \/ \E t \in Tenants : PodReady(t) \/ RolloutStalls(t)
             \/ \E t \in Tenants, b \in Builds : PodGone(t, b)
             \/ UNCHANGED vars
    <3>1. UNCHANGED <<row, req>>
      BY <2>1 DEF BuildSucceeds, PodReady, RolloutStalls, PodGone, vars, dbVars
    <3> QED BY <3>1 DEF Phase
  <2> QED BY <1>2, <2>1, DeployStepRefines, GlobalStepRefines DEF Next
<1> QED BY Invariance, <1>1, <1>2, PTL DEF Spec, ImplementsLifecycle, Lifecycle!LSpec

-----------------------------------------------------------------------------
(* What is left to do for a deployment: the safety half of                  *)
(* DeploymentResolves.                                                      *)

\* Steps ahead of a request, up to the poller's first sleep and without the
\* polls, and ahead of a poller that has left its loop.
RequestWork == [idle |-> 7, checked |-> 6, inserted |-> 5, applied |-> 4, refused |-> 4,
                deploying |-> 3]
PollerWork == [up |-> 2, down |-> 2, timedout |-> 1, recorded_up |-> 1, recorded_down |-> 1]

\* How many steps of its coroutines a deployment has ahead of it at most, from
\* where its request and its poller are and how often the poller has slept.
WorkFrom(r, p, slept) ==
    IF r \in DOMAIN RequestWork THEN MaxPolls + RequestWork[r]
    ELSE IF p = "sleeping" THEN MaxPolls - slept + 2
    ELSE IF p \in DOMAIN PollerWork THEN PollerWork[p]
    ELSE 0

Work(d) == WorkFrom(req[d], poll[d], polls[d])

\* The work ahead is bounded by the timeout, and a deployment with none ahead
\* has a result, or no row, or a coroutine that was ended: no row stays pending
\* with nobody left to finish it.
NothingLeftBehind ==
    \A d \in Deploys :
        /\ Work(d) \in 0..(MaxPolls + 7)
        /\ Work(d) = 0 => row[d] \notin Pending \/ Broken(d)

\* Every step of a deployment's own coroutines, whatever it reads from the
\* cluster and whether its commits succeed or fail, uses up work of that
\* deployment, and no step of anybody gives work back.
WorkRunsOut ==
    [][\A d \in Deploys :
          /\ Work(d)' <= Work(d)
          /\ CreateDeployment(d) \/ TaskStep(d) => Work(d)' < Work(d)]_vars

\* The same by place in the code.
LEMMA WorkAt ==
  ASSUME NEW r \in ReqPCs, NEW p \in PollPCs, NEW n \in 0..MaxPolls
  PROVE  /\ r = "idle" => WorkFrom(r, p, n) = MaxPolls + 7
         /\ r = "checked" => WorkFrom(r, p, n) = MaxPolls + 6
         /\ r = "inserted" => WorkFrom(r, p, n) = MaxPolls + 5
         /\ r \in {"applied", "refused"} => WorkFrom(r, p, n) = MaxPolls + 4
         /\ r = "deploying" => WorkFrom(r, p, n) = MaxPolls + 3
         /\ r \in {"rejected", "done", "error", "lost"} =>
               /\ p = "sleeping" => WorkFrom(r, p, n) = MaxPolls - n + 2
               /\ p \in {"up", "down"} => WorkFrom(r, p, n) = 2
               /\ p \in {"timedout", "recorded_up", "recorded_down"} => WorkFrom(r, p, n) = 1
               /\ p \in {"none", "done", "dead", "lost"} => WorkFrom(r, p, n) = 0
<1>1. /\ DOMAIN RequestWork = {"idle", "checked", "inserted", "applied", "refused", "deploying"}
      /\ RequestWork["idle"] = 7 /\ RequestWork["checked"] = 6 /\ RequestWork["inserted"] = 5
      /\ RequestWork["applied"] = 4 /\ RequestWork["refused"] = 4
      /\ RequestWork["deploying"] = 3
  BY DEF RequestWork
<1>2. /\ DOMAIN PollerWork = {"up", "down", "timedout", "recorded_up", "recorded_down"}
      /\ PollerWork["up"] = 2 /\ PollerWork["down"] = 2
      /\ PollerWork["timedout"] = 1
      /\ PollerWork["recorded_up"] = 1 /\ PollerWork["recorded_down"] = 1
  BY DEF PollerWork
<1> QED BY <1>1, <1>2 DEF WorkFrom

\* Work is counted in natural numbers and starts at the timeout plus 7.
LEMMA WorkBounds ==
  ASSUME NEW r \in ReqPCs, NEW p \in PollPCs, NEW n \in 0..MaxPolls
  PROVE  WorkFrom(r, p, n) \in 0..(MaxPolls + 7)
<1>1. MaxPolls \in Nat
  BY PollsAssumption
<1> QED BY <1>1, WorkAt DEF ReqPCs, ReqLive, PollPCs, PollLive

\* The invariant leaves no pending row without work or an ended coroutine.
LEMMA NoneBehind == ASSUME IInv PROVE NothingLeftBehind
<1> SUFFICES ASSUME NEW d \in Deploys
             PROVE  /\ Work(d) \in 0..(MaxPolls + 7)
                    /\ Work(d) = 0 => row[d] \notin Pending \/ Broken(d)
  BY DEF NothingLeftBehind
<1>1. /\ RequestStage(d) /\ PollerStage(d) /\ MaxPolls \in Nat
      /\ req[d] \in ReqPCs /\ poll[d] \in PollPCs /\ polls[d] \in 0..MaxPolls
  BY PollsAssumption DEF IInv, DeployInv, TypeOK
<1>2. Work(d) \in 0..(MaxPolls + 7)
  BY <1>1, WorkBounds DEF Work
<1>3. ASSUME Work(d) = 0
      PROVE  /\ req[d] \in {"rejected", "done", "error", "lost"}
             /\ poll[d] \in {"none", "done", "dead", "lost"}
  BY <1>1, <1>3, WorkAt DEF Work, ReqPCs, ReqLive, PollPCs, PollLive
<1>4. /\ poll[d] \in {"none", "done"} /\ req[d] = "done" => row[d] \notin Pending
      /\ req[d] = "rejected" => row[d] \notin Pending
  BY <1>1 DEF RequestStage, PollerStage, Pending
<1> QED BY <1>2, <1>3, <1>4 DEF Broken

\* A step of a deployment's coroutines uses up work.
LEMMA OwnStepWorks ==
  ASSUME IInv, IInv', NEW d \in Deploys, CreateDeployment(d) \/ TaskStep(d)
  PROVE  Work(d)' < Work(d)
<1>1. /\ TypeOK /\ RequestStage(d) /\ PollerStage(d) /\ MaxPolls \in Nat
      /\ req[d] \in ReqPCs /\ poll[d] \in PollPCs /\ polls[d] \in 0..MaxPolls
  BY PollsAssumption DEF IInv, DeployInv, TypeOK
<1>2. /\ req'[d] \in ReqPCs /\ poll'[d] \in PollPCs /\ polls'[d] \in 0..MaxPolls
      /\ Work(d)' = WorkFrom(req'[d], poll'[d], polls'[d])
      /\ Work(d) = WorkFrom(req[d], poll[d], polls[d])
  BY DEF IInv, TypeOK, Work
<1>3. req[d] # "done" => poll[d] = "none" /\ polls[d] = 0
  BY <1>1 DEF RequestStage, PollerStage
<1>4. poll[d] # "none" => req[d] = "done"
  BY <1>1 DEF RequestStage
<1>5. CASE CreateDeployment(d)
  <2>1. req[d] = "idle" /\ poll' = poll /\ req'[d] \in {"checked", "rejected", "error"}
    BY <1>1, <1>5 DEF CreateDeployment, ReqGoes, TypeOK
  <2> QED BY <1>1, <1>2, <1>3, <2>1, WorkAt
<1>6. CASE InsertDeployment(d)
  <2>1. req[d] = "checked" /\ poll' = poll /\ req'[d] \in {"inserted", "error"}
    BY <1>1, <1>6 DEF InsertDeployment, ReqGoes, TypeOK
  <2> QED BY <1>1, <1>2, <1>3, <2>1, WorkAt
<1>7. CASE ApplyDeployment(d)
  <2>1. req[d] = "inserted" /\ poll' = poll /\ req'[d] \in {"applied", "refused", "error"}
    BY <1>1, <1>7 DEF ApplyDeployment, ReqGoes, TypeOK
  <2> QED BY <1>1, <1>2, <1>3, <2>1, WorkAt
<1>8. CASE CommitDeploying(d) \/ CommitRefused(d)
  <2>1. /\ req[d] \in {"applied", "refused"} /\ poll' = poll
        /\ req'[d] \in {"deploying", "done", "error"}
    BY <1>1, <1>8 DEF CommitDeploying, CommitRefused, ReqGoes, TypeOK
  <2> QED BY <1>1, <1>2, <1>3, <2>1, WorkAt
<1>9. CASE Respond(d)
  <2>1. /\ req[d] = "deploying" /\ polls' = polls
        /\ \/ req'[d] = "done" /\ poll'[d] = "sleeping"
           \/ req'[d] = "error" /\ poll' = poll
    BY <1>1, <1>9 DEF Respond, ReqGoes, TypeOK
  <2> QED BY <1>1, <1>2, <1>3, <2>1, WorkAt
<1>10. CASE PollStatus(d)
  <2>1. /\ poll[d] = "sleeping" /\ req' = req /\ polls'[d] = polls[d] + 1
        /\ \/ poll'[d] \in {"up", "down", "timedout", "dead"}
           \/ poll'[d] = "sleeping" /\ polls[d] + 1 < MaxPolls
    <3>1. DeploymentStatus(TenantOf[d]) \in {"unknown", "up", "down"}
      BY DEF DeploymentStatus
    <3>2. AfterUnknown(d) = "timedout" \/ (AfterUnknown(d) = "sleeping" /\ polls[d] + 1 < MaxPolls)
      BY DEF AfterUnknown
    <3> QED BY <1>1, <1>10, <3>1, <3>2 DEF PollStatus, PollGoes, TypeOK
  <2>2. polls[d] < MaxPolls
    BY <1>1, <2>1 DEF PollerStage
  <2> QED BY <1>1, <1>2, <1>4, <2>1, <2>2, WorkAt
<1>11. CASE PollRecord(d)
  <2>1. /\ poll[d] \in {"up", "down"} /\ req' = req
        /\ poll'[d] \in {"done", "recorded_up", "recorded_down", "dead"}
    BY <1>1, <1>11 DEF PollRecord, PollGoes, TypeOK
  <2> QED BY <1>1, <1>2, <1>4, <2>1, WorkAt
<1>12. CASE PollDispatch(d) \/ PollTimeout(d)
  <2>1. /\ poll[d] \in {"timedout", "recorded_up", "recorded_down"} /\ req' = req
        /\ poll'[d] \in {"done", "dead"}
    BY <1>1, <1>12 DEF PollDispatch, PollTimeout, PollGoes, TypeOK
  <2> QED BY <1>1, <1>2, <1>4, <2>1, WorkAt
<1> QED BY <1>5, <1>6, <1>7, <1>8, <1>9, <1>10, <1>11, <1>12 DEF TaskStep

\* Whoever moves, a deployment that does not move itself keeps its work or,
\* when the process is restarted, is left with none.
LEMMA OthersStepWorks ==
  ASSUME IInv, IInv', [Next]_vars, NEW d \in Deploys, ~CreateDeployment(d), ~TaskStep(d)
  PROVE  Work(d)' <= Work(d)
<1>1. TypeOK /\ Work(d) \in Nat
  BY NoneBehind, PollsAssumption DEF IInv, NothingLeftBehind
<1>2. ASSUME req'[d] = req[d], poll'[d] = poll[d], polls'[d] = polls[d]
      PROVE  Work(d)' <= Work(d)
  <2>1. Work(d)' = Work(d)
    BY <1>2 DEF Work
  <2> QED BY <1>1, <2>1
<1>3. CASE Crash
  <2>1. /\ req'[d] = IF req[d] \in ReqLive THEN "lost" ELSE req[d]
        /\ poll'[d] = IF poll[d] \in PollLive THEN "lost" ELSE poll[d]
        /\ polls'[d] = polls[d]
    BY <1>3 DEF Crash
  <2>2. CASE req[d] \notin ReqLive /\ poll[d] \notin PollLive
    BY <1>2, <2>1, <2>2
  <2>3. CASE req[d] \in ReqLive \/ poll[d] \in PollLive
    <3>1. RequestStage(d) /\ req[d] \in ReqPCs /\ poll[d] \in PollPCs
      BY DEF IInv, DeployInv, TypeOK
    <3>2. /\ req'[d] \in {"rejected", "done", "error", "lost"}
          /\ poll'[d] \in {"none", "done", "dead", "lost"}
      BY <2>1, <2>3, <3>1 DEF RequestStage, ReqPCs, ReqLive, PollPCs, PollLive
    <3>3. req'[d] \in ReqPCs /\ poll'[d] \in PollPCs /\ polls'[d] \in 0..MaxPolls
      BY DEF IInv, TypeOK
    <3>4. Work(d)' = 0
      BY <3>2, <3>3, WorkAt DEF Work
    <3> QED BY <1>1, <3>4
  <2> QED BY <2>2, <2>3
<1>4. ASSUME NEW k \in Deploys, k # d, CreateDeployment(k) \/ TaskStep(k)
      PROVE  req'[d] = req[d] /\ poll'[d] = poll[d] /\ polls'[d] = polls[d]
  <2>1. /\ req' = req \/ \E pc \in ReqPCs : ReqGoes(k, pc)
        /\ poll' = poll \/ \E pc : PollGoes(k, pc)
        /\ polls' = polls \/ polls' = [polls EXCEPT ![k] = @ + 1]
    BY <1>4 DEF CreateDeployment, TaskStep, InsertDeployment, ApplyDeployment, CommitDeploying,
       CommitRefused, Respond, PollStatus, PollRecord, PollDispatch, PollTimeout, ReqPCs,
       ReqLive, ReqGoes, PollGoes
  <2> QED BY <1>1, <1>4, <2>1 DEF ReqGoes, PollGoes, TypeOK
<1>5. ASSUME \/ UNCHANGED vars
             \/ \E b \in Builds : BuildSucceeds(b)
             \/ \E t \in Tenants : PodReady(t) \/ RolloutStalls(t) \/ DeleteTenant(t)
             \/ \E t \in Tenants, b \in Builds : PodGone(t, b)
      PROVE  req'[d] = req[d] /\ poll'[d] = poll[d] /\ polls'[d] = polls[d]
  BY <1>5 DEF vars, BuildSucceeds, PodReady, RolloutStalls, DeleteTenant, PodGone
<1> QED BY <1>2, <1>3, <1>4, <1>5 DEF Next

\* No deployment is left pending with no coroutine at work on it: once its work
\* is used up it has a result, or lost its row, or a coroutine of it was ended.
THEOREM NothingIsLeftBehind == Spec => []NothingLeftBehind
<1> QED BY Invariance, NoneBehind, PTL

\* The steps of create_deployment and poll_deployment_until_running for one
\* deployment are at most MaxPolls + 7, whatever the pods, the database and
\* other requests do: each uses up work, and nothing gives any back.
THEOREM WorkAlwaysRunsOut == Spec => WorkRunsOut
<1>1. ASSUME IInv, IInv', [Next]_vars
      PROVE  \A d \in Deploys : /\ Work(d)' <= Work(d)
                                /\ CreateDeployment(d) \/ TaskStep(d) => Work(d)' < Work(d)
  <2> TAKE d \in Deploys
  <2>1. Work(d) \in Nat
    BY <1>1, NoneBehind, PollsAssumption DEF NothingLeftBehind
  <2>2. Work(d)' \in Nat
    BY <1>1, WorkBounds, PollsAssumption DEF IInv, TypeOK, Work
  <2> QED BY <1>1, <2>1, <2>2, OwnStepWorks, OthersStepWorks
<1> QED BY Invariance, <1>1, PTL DEF Spec, WorkRunsOut

-----------------------------------------------------------------------------
(* Successes are announced.                                                 *)

\* A deployment that is running was announced, or the poller that recorded it
\* has yet to do so, or was ended by an exception or a restart.
Told(d) ==
    row[d] = "running" =>
        poll[d] \in {"recorded_up", "dead", "lost"} \/ event[d] = "deployment.running"

\* No "running" is dropped between the commit of the row and the call of
\* dispatch_tenant_webhooks.
NoResultForgotten == \A d \in Deploys : Told(d)

\* A deployment whose row and event stay, or whose row goes, is told as it was.
LEMMA ToldFrame ==
  ASSUME NEW d \in Deploys, Told(d), row'[d] \in {row[d], "none"}, event'[d] = event[d],
         poll'[d] = poll[d] \/ poll'[d] \in {"dead", "lost"}
  PROVE  Told(d)'
BY DEF Told

\* The steps of its own coroutines keep a deployment told.
LEMMA OwnStepTells ==
  ASSUME IInv, NEW d \in Deploys, Told(d), CreateDeployment(d) \/ TaskStep(d)
  PROVE  Told(d)'
<1>1. TypeOK /\ RequestStage(d) /\ PollerStage(d)
  BY DEF IInv, DeployInv
<1>2. CASE CreateDeployment(d) \/ ApplyDeployment(d)
  <2>1. row'[d] = row[d] /\ event'[d] = event[d] /\ poll'[d] = poll[d]
    BY <1>2 DEF CreateDeployment, ApplyDeployment, dbVars
  <2> QED BY <2>1, ToldFrame
<1>3. CASE InsertDeployment(d) \/ CommitDeploying(d) \/ CommitRefused(d)
  <2>1. /\ row'[d] \in {row[d], "pending", "deploying", "failed"}
        /\ event'[d] = event[d] /\ poll'[d] = poll[d]
    BY <1>1, <1>3 DEF InsertDeployment, CommitDeploying, CommitRefused, CommitOK, CommitFails,
                      TypeOK
  <2> QED BY <2>1, ToldFrame DEF Told
<1>4. CASE Respond(d) \/ PollStatus(d)
  <2>1. row'[d] = row[d] /\ row[d] \in {"none", "deploying"}
    BY <1>1, <1>4 DEF Respond, PollStatus, dbVars, RequestStage, PollerStage
  <2> QED BY <2>1 DEF Told
<1>5. CASE PollRecord(d)
  <2>1. \/ row'[d] = "none"
        \/ row'[d] = "failed"
        \/ poll'[d] = "recorded_up"
        \/ poll'[d] = "dead"
    BY <1>1, <1>5 DEF PollRecord, PollGoes, CommitOK, Verdict, TypeOK
  <2> QED BY <2>1 DEF Told
<1>6. CASE PollDispatch(d)
  <2>1. /\ row'[d] = row[d]
        /\ poll[d] = "recorded_up" \/ row[d] \in {"none", "failed"}
    BY <1>1, <1>6 DEF PollDispatch, dbVars, PollerStage
  <2>2. \/ poll[d] = "recorded_up" => event'[d] = "deployment.running"
        \/ poll'[d] = "dead"
    BY <1>1, <1>6 DEF PollDispatch, PollGoes, TypeOK
  <2> QED BY <2>1, <2>2 DEF Told
<1>7. CASE PollTimeout(d)
  <2>1. row[d] \in {"none", "deploying"} /\ row'[d] \in {row[d], "failed"}
    BY <1>1, <1>7 DEF PollTimeout, CommitOK, CommitFails, TypeOK, PollerStage
  <2> QED BY <2>1 DEF Told
<1> QED BY <1>2, <1>3, <1>4, <1>5, <1>6, <1>7 DEF TaskStep

\* Every step keeps every deployment told.
LEMMA ToldStep ==
  ASSUME IInv, NoResultForgotten, [Next]_vars
  PROVE  NoResultForgotten'
<1> SUFFICES ASSUME NEW d \in Deploys PROVE Told(d)'
  BY DEF NoResultForgotten
<1>1. TypeOK /\ Told(d)
  BY DEF IInv, NoResultForgotten
<1>2. CASE CreateDeployment(d) \/ TaskStep(d)
  BY <1>1, <1>2, OwnStepTells
<1>3. ASSUME NEW k \in Deploys, k # d, CreateDeployment(k) \/ TaskStep(k)
      PROVE  Told(d)'
  <2>1. OthersSame(k)
    BY <1>3, RequestStep, PollerStep DEF TaskStep
  <2> QED BY <1>1, <1>3, <2>1, ToldFrame DEF OthersSame, SameDeploy
<1>4. CASE \/ \E b \in Builds : BuildSucceeds(b)
           \/ \E t \in Tenants : PodReady(t) \/ RolloutStalls(t)
           \/ \E t \in Tenants, b \in Builds : PodGone(t, b)
           \/ UNCHANGED vars
  <2>1. row' = row /\ event' = event /\ poll' = poll
    BY <1>4 DEF BuildSucceeds, PodReady, RolloutStalls, PodGone, dbVars, vars
  <2> QED BY <1>1, <2>1, ToldFrame
<1>5. CASE Crash \/ \E t \in Tenants : DeleteTenant(t)
  <2>1. /\ row'[d] \in {row[d], "none"} /\ event'[d] = event[d]
        /\ poll'[d] = poll[d] \/ poll'[d] = "lost"
    BY <1>1, <1>5 DEF Crash, DeleteTenant, dbVars, TypeOK
  <2> QED BY <1>1, <2>1, ToldFrame
<1> QED BY <1>2, <1>3, <1>4, <1>5 DEF Next

\* A deployment that its row calls running is announced by the task that wrote
\* it, unless an exception or a restart ended that task.
THEOREM NoResultEverForgotten == Spec => []NoResultForgotten
<1>1. Init => NoResultForgotten
  BY DEF Init, NoResultForgotten, Told
<1> QED BY <1>1, ToldStep, Invariance, PTL DEF Spec
=============================================================================
