--------------------------- MODULE PlatformProofs ---------------------------
(***************************************************************************)
(* Proofs about Platform for any tenants, builds and deployments and any   *)
(* kinds of fault, from the invariant of BuildJobs.                        *)
(***************************************************************************)
EXTENDS Platform, BuildJobsProofs

\* kpack pushes only for an Image that exists.
PushedExists == \A j \in Jobs : pushed[j] # 0 => kpack[j] # "absent"

\* A build that ever succeeded has pushed an image.
BuiltPushed == built \subseteq Jobs /\ \A j \in built : pushed[j] # 0

\* The inductive invariant.
PInv ==
    /\ IInv
    /\ PushedExists
    /\ BuildsSeenRight
    /\ BuiltPushed

-----------------------------------------------------------------------------
(* The build side.                                                          *)

\* No statement of a build removes its row.
LEMMA RowStays ==
  ASSUME TypeOK, NEW j \in Jobs, row[j] # NoRow,
         CreateBuildJob(j) \/ TaskStep(j) \/ KpackResolve(j) \/ KpackRebuild(j)
  PROVE  row'[j] # NoRow
<1>1. /\ Queued # NoRow /\ Building(j) # NoRow /\ Resolved(j) # NoRow
      /\ \A why \in {"start", "build", "timeout"} : Failed(j, why) # NoRow
  BY WrittenRows, NoRowIsNoRow
<1>2. ASSUME NEW r, r # NoRow, CommitOK(j, r) \/ CommitFails(j, r)
      PROVE  row'[j] # NoRow
  BY <1>2 DEF CommitOK, CommitFails, TypeOK
<1>3. CASE InsertBuildJob(j)
  BY <1>1, <1>3 DEF InsertBuildJob, TypeOK
<1>4. CASE CommitBuilding(j) \/ CommitRefused(j) \/ PollRecord(j) \/ PollTimeout(j)
  <2>1. \/ row' = row
        \/ \E r \in {Building(j), Resolved(j), Failed(j, "start"), Failed(j, "timeout")} :
              CommitOK(j, r) \/ CommitFails(j, r)
    BY <1>4 DEF CommitBuilding, CommitRefused, PollRecord, PollTimeout
  <2> QED BY <1>1, <1>2, <2>1
<1>5. CASE \/ CreateBuildJob(j) \/ StartBuild(j) \/ Respond(j) \/ PollStatus(j) \/ PollDispatch(j)
           \/ KpackResolve(j) \/ KpackRebuild(j)
  BY <1>5 DEF CreateBuildJob, StartBuild, Respond, PollStatus, PollDispatch, KpackResolve,
              KpackRebuild, dbVars
<1> QED BY <1>3, <1>4, <1>5 DEF TaskStep

\* A step of one build: the others stay, and the invariant of BuildJobs with
\* what was pushed is kept.
LEMMA OneBuild ==
  ASSUME IInv, PushedExists, NEW j \in Jobs,
         CreateBuildJob(j) \/ TaskStep(j) \/ KpackResolve(j) \/ KpackRebuild(j)
  PROVE  /\ IInv' /\ PushedExists' /\ tenants' = tenants
         /\ \A k \in Jobs \ {j} : row'[k] = row[k]
         /\ \A k \in Jobs : pushed[k] # 0 => pushed'[k] # 0
<1>1. Next
  BY DEF Next
<1>2. IInv'
  BY <1>1, IInvStep
<1>3. OthersSame(j)
  BY RequestStep, PollerStep, KpackStep DEF TaskStep
<1>4. TypeOK
  BY DEF IInv
<1>5. tenants' = tenants
  BY DEF CreateBuildJob, TaskStep, InsertBuildJob, StartBuild, CommitBuilding, CommitRefused,
         Respond, PollStatus, PollRecord, PollDispatch, PollTimeout, KpackResolve, KpackRebuild,
         dbVars
<1>6. PushedExists' /\ \A k \in Jobs : pushed[k] # 0 => pushed'[k] # 0
  <2>1. CASE StartBuild(j)
    <3>1. /\ pushed' = pushed
          /\ \A k \in Jobs : kpack'[k] = kpack[k] \/ kpack'[k] = "unknown"
      BY <1>4, <2>1, StartBuildEffect DEF StartBuild
    <3> QED BY <3>1 DEF PushedExists
  <2>2. CASE KpackResolve(j) \/ KpackRebuild(j)
    <3>1. \A k \in Jobs : kpack'[k] # "absent" \/ kpack'[k] = kpack[k]
      BY <1>4, <2>2 DEF TypeOK, KpackResolve, KpackRebuild
    <3>2. \A k \in Jobs : pushed'[k] = pushed[k] \/ (k = j /\ kpack'[k] = "ready" /\ pushed'[k] = pushed[k] + 1)
      BY <1>4, <2>2 DEF TypeOK, KpackResolve, KpackRebuild
    <3>3. \A k \in Jobs : pushed[k] \in Nat
      BY <1>4, PushesAssumption DEF TypeOK
    <3> QED BY <3>1, <3>2, <3>3 DEF PushedExists
  <2>3. CASE \/ CreateBuildJob(j) \/ InsertBuildJob(j) \/ CommitBuilding(j) \/ CommitRefused(j)
             \/ Respond(j) \/ PollStatus(j) \/ PollRecord(j) \/ PollDispatch(j) \/ PollTimeout(j)
    <3>1. UNCHANGED <<kpack, pushed>>
      BY <2>3 DEF CreateBuildJob, InsertBuildJob, CommitBuilding, CommitRefused, Respond,
                  PollStatus, PollRecord, PollDispatch, PollTimeout, clusterVars
    <3> QED BY <3>1 DEF PushedExists
  <2> QED BY <2>1, <2>2, <2>3 DEF TaskStep
<1>7. \A k \in Jobs \ {j} : row'[k] = row[k]
  BY <1>3 DEF OthersSame, SameJob
<1> QED BY <1>2, <1>5, <1>6, <1>7

\* A row that says succeeded stands for an image that was pushed, in the
\* namespace of a tenant that is there.
LEMMA SucceededMeans ==
  ASSUME IInv, NEW j \in Jobs, SaysSucceeded(j)
  PROVE  pushed[j] # 0 /\ row[j].image \in 1..pushed[j] /\ TenantOf[j] \in tenants
<1>1. TypeOK /\ Explained(j) /\ RowsHaveTenant
  BY DEF IInv, JobInv
<1>2. row[j].image \in 1..pushed[j] /\ pushed[j] \in Nat
  BY <1>1, PushesAssumption DEF Explained, SaysSucceeded, TypeOK
<1>3. row[j] # NoRow
  BY DEF SaysSucceeded, NoRow
<1> QED BY <1>1, <1>2, <1>3 DEF RowsHaveTenant

\* A step of the build service: at most one build joins the ones that
\* succeeded, while its tenant is there.
LEMMA BuildServiceStep ==
  ASSUME PInv, BuildService
  PROVE  PInv' /\ (D!Next \/ UNCHANGED D!vars)
<1>1. PICK j \in Jobs : CreateBuildJob(j) \/ TaskStep(j) \/ KpackResolve(j) \/ KpackRebuild(j)
  BY DEF BuildService
<1>2. built' = built \cup {k \in Jobs : SaysSucceeded(k)'} /\ UNCHANGED varsD
  BY DEF BuildService
<1>3. /\ IInv' /\ PushedExists' /\ tenants' = tenants
      /\ \A k \in Jobs \ {j} : row'[k] = row[k]
      /\ \A k \in Jobs : pushed[k] # 0 => pushed'[k] # 0
  BY <1>1, OneBuild DEF PInv
<1>4. \A k \in Jobs \ {j} : SaysSucceeded(k)' <=> SaysSucceeded(k)
  BY <1>3 DEF SaysSucceeded
<1>5. built' = built \/ (j \notin built /\ built' = built \cup {j} /\ SaysSucceeded(j)')
  BY <1>2, <1>4 DEF PInv, BuildsSeenRight
<1>6. SaysSucceeded(j)' => pushed'[j] # 0 /\ TenantOf[j] \in tenants
  <2>1. ASSUME SaysSucceeded(j)' PROVE row'[j].status = "succeeded"
    BY <2>1 DEF SaysSucceeded
  <2>2. ASSUME row'[j].status = "succeeded" PROVE pushed'[j] # 0 /\ TenantOf[j] \in tenants'
    <3>1. TypeOK' /\ Explained(j)' /\ RowsHaveTenant'
      BY <1>3 DEF IInv, JobInv
    <3>2. row'[j].image \in 1..pushed'[j] /\ pushed'[j] \in Nat
      BY <2>2, <3>1, PushesAssumption DEF Explained, TypeOK
    <3>3. row'[j] # NoRow
      BY <2>2 DEF NoRow
    <3> QED BY <3>1, <3>2, <3>3 DEF RowsHaveTenant
  <2> QED BY <1>3, <2>1, <2>2
<1>7. SaysSucceeded(j) => SaysSucceeded(j)'
  <2> SUFFICES ASSUME SaysSucceeded(j) PROVE SaysSucceeded(j)'
    OBVIOUS
  <2>1. row[j].status \in Terminal /\ Next /\ row[j] # NoRow
    BY <1>1 DEF SaysSucceeded, Terminal, Next, NoRow
  <2>2. row'[j] \in {row[j], NoRow}
    BY <2>1, FrozenStep DEF PInv
  <2>3. row'[j] # NoRow
    BY <1>1, <2>1, RowStays DEF PInv, IInv
  <2> QED BY <2>2, <2>3 DEF SaysSucceeded
<1>8. BuildsSeenRight'
  <2>1. ASSUME NEW k \in Jobs PROVE SaysSucceeded(k)' <=> k \in built' /\ TenantOf[k] \in tenants'
    <3>1. CASE k # j
      BY <1>3, <1>4, <1>5, <3>1 DEF PInv, BuildsSeenRight
    <3>2. CASE k = j
      BY <1>2, <1>3, <1>5, <1>6, <1>7, <3>2 DEF PInv, BuildsSeenRight
    <3> QED BY <3>1, <3>2
  <2> QED BY <2>1 DEF BuildsSeenRight
<1>9. BuiltPushed'
  BY <1>3, <1>5, <1>6 DEF PInv, BuiltPushed
<1>10. D!Next \/ UNCHANGED D!vars
  <2>1. CASE built' = built
    BY <1>2, <1>3, <2>1 DEF varsD, D!vars
  <2>2. CASE j \notin built /\ built' = built \cup {j} /\ SaysSucceeded(j)'
    <3>1. D!BuildSucceeds(j)
      BY <1>2, <1>3, <1>6, <2>2 DEF D!BuildSucceeds, D!clusterVars, varsD
    <3> QED BY <3>1 DEF D!Next
  <2> QED BY <1>5, <2>1, <2>2
<1> QED BY <1>3, <1>8, <1>9, <1>10 DEF PInv

-----------------------------------------------------------------------------
(* The deployment side.                                                     *)

\* A step of the deployment service leaves builds, and what succeeded, alone.
LEMMA DeploymentServiceStep ==
  ASSUME PInv, DeploymentService
  PROVE  PInv' /\ D!Next
<1>1. UNCHANGED vars
  BY DEF DeploymentService
<1>2. D!Next
  BY DEF DeploymentService, D!Next
<1>3. IInv'
  BY <1>1, IInvStep DEF PInv
<1>4. built' = built
  BY DEF DeploymentService, D!CreateDeployment, D!TaskStep, D!InsertDeployment, D!ApplyDeployment,
         D!CommitDeploying, D!CommitRefused, D!Respond, D!PollStatus, D!PollRecord,
         D!PollDispatch, D!PollTimeout, D!PodReady, D!RolloutStalls, D!PodGone, D!dbVars
<1>5. PushedExists' /\ BuildsSeenRight' /\ BuiltPushed'
  BY <1>1, <1>4 DEF PInv, PushedExists, BuildsSeenRight, BuiltPushed, SaysSucceeded, vars
<1> QED BY <1>2, <1>3, <1>5 DEF PInv

\* A tenant goes with the rows of both services.
LEMMA RemoveStep ==
  ASSUME PInv, NEW t \in Tenants, RemoveTenant(t)
  PROVE  PInv' /\ D!Next
<1>1. DeleteTenant(t) /\ D!DeleteTenant(t)
  BY DEF RemoveTenant
<1>2. IInv' /\ D!Next
  BY <1>1, IInvStep DEF PInv, Next, D!Next
<1>3. /\ tenants' = tenants \ {t}
      /\ row' = [j \in Jobs |-> IF TenantOf[j] = t THEN NoRow ELSE row[j]]
      /\ UNCHANGED <<kpack, pushed, built>>
  BY <1>1 DEF DeleteTenant, clusterVars, D!DeleteTenant, D!clusterVars
<1>4. BuildsSeenRight'
  BY <1>3 DEF PInv, BuildsSeenRight, SaysSucceeded, NoRow
<1>5. PushedExists' /\ BuiltPushed'
  BY <1>3 DEF PInv, PushedExists, BuiltPushed
<1> QED BY <1>2, <1>4, <1>5 DEF PInv

\* A restart, or a step that changes nothing.
LEMMA RestartStep ==
  ASSUME PInv, Restart \/ UNCHANGED pvars
  PROVE  PInv' /\ (D!Next \/ UNCHANGED D!vars)
<1>1. /\ [Next]_vars
      /\ UNCHANGED <<tenants, row, kpack, pushed, built>>
  BY DEF Restart, Crash, D!Crash, pvars, vars, varsD, dbVars, clusterVars, D!dbVars,
         D!clusterVars, Next
<1>2. D!Next \/ UNCHANGED D!vars
  <2>1. CASE D!Crash
    BY <2>1 DEF D!Next
  <2>2. CASE UNCHANGED varsD
    BY <1>1, <2>2 DEF varsD, D!vars
  <2> QED BY <2>1, <2>2 DEF Restart, pvars
<1>3. IInv'
  BY <1>1, IInvStep DEF PInv
<1>4. PushedExists' /\ BuildsSeenRight' /\ BuiltPushed'
  BY <1>1 DEF PInv, PushedExists, BuildsSeenRight, SaysSucceeded, BuiltPushed
<1> QED BY <1>2, <1>3, <1>4 DEF PInv

\* Every step keeps the invariant and is a step of Deployments, or none.
LEMMA PStep ==
  ASSUME PInv, [PNext]_pvars
  PROVE  PInv' /\ [D!Next]_(D!vars)
BY BuildServiceStep, DeploymentServiceStep, RemoveStep, RestartStep DEF PNext

\* The invariant holds at the start.
LEMMA PInitHolds == PInit => PInv
<1> SUFFICES ASSUME PInit PROVE PInv
  OBVIOUS
<1>1. IInv
  BY InitIInv DEF PInit
<1>2. PushedExists /\ BuildsSeenRight
  BY DEF PInit, Init, D!Init, PushedExists, BuildsSeenRight, SaysSucceeded, NoRow
<1>3. BuiltPushed
  BY DEF PInit, D!Init, BuiltPushed
<1> QED BY <1>1, <1>2, <1>3 DEF PInv

-----------------------------------------------------------------------------
(* The theorems.                                                            *)

\* The invariant holds in every reachable state.
THEOREM PInvariance == PSpec => []PInv
<1>1. PInv /\ [PNext]_pvars => PInv'
  BY PStep
<1> QED BY <1>1, PInitHolds, PTL DEF PSpec

\* The deployment service sees of builds what the build service wrote.
THEOREM BuildsAlwaysSeenRight == PSpec => []BuildsSeenRight
<1>1. PInv => BuildsSeenRight
  BY DEF PInv
<1> QED BY <1>1, PInvariance, PTL

\* The two services together implement Deployments: what it assumes of builds
\* holds of the build service.
THEOREM DeploymentsEnvironment == PSpec => DeploymentsAssumeRight
<1>1. PInit => D!Init
  BY DEF PInit
<1>2. PInv /\ [PNext]_pvars => [D!Next]_(D!vars)
  BY PStep
<1> QED BY <1>1, <1>2, PInvariance, PTL DEF PSpec, DeploymentsAssumeRight, D!Spec

\* They implement BuildJobs as well: the deployment service writes nothing that
\* a build reads, and a deletion or a restart is one of both.
THEOREM BuildsEnvironment == PSpec => Spec
<1>1. PInit => Init
  BY DEF PInit
<1>2. ASSUME [PNext]_pvars PROVE [Next]_vars
  <2>1. CASE BuildService
    BY <2>1 DEF BuildService, Next
  <2>2. CASE DeploymentService
    BY <2>2 DEF DeploymentService
  <2>3. CASE \E t \in Tenants : RemoveTenant(t)
    BY <2>3 DEF RemoveTenant, Next
  <2>4. CASE Restart
    BY <2>4 DEF Restart, Next
  <2>5. CASE UNCHANGED pvars
    BY <2>5 DEF pvars
  <2> QED BY <1>2, <2>1, <2>2, <2>3, <2>4, <2>5 DEF PNext
<1> QED BY <1>1, <1>2, PTL DEF PSpec, Spec

\* What is proved of builds by themselves holds beside the deployment service.
THEOREM BuildsUndisturbed ==
    PSpec => /\ [](RowExplainsItself /\ GuardedBuilds /\ PendingHasOwner /\ EventMatchesRow)
             /\ [](NothingLeftBehind /\ NoResultForgotten)
             /\ TerminalFrozen /\ WorkRunsOut
             /\ ImplementsLifecycle
BY BuildsEnvironment, RowsAlwaysExplained, BuildsAlwaysGuarded, PendingAlwaysOwned,
   EventsAlwaysMatch, NothingIsLeftBehind, NoResultEverForgotten, ResultsAreFrozen,
   WorkAlwaysRunsOut, BuildsRefineLifecycle, PTL

-----------------------------------------------------------------------------
(* The theorems about Deployments, for the builds of BuildJobs.              *)

DP == INSTANCE DeploymentsProofs
        WITH Builds <- Jobs, BuildOwner <- TenantOf, TenantOf <- DeployOwner,
             MaxPolls <- MaxDPolls, row <- rowD, req <- reqD, poll <- pollD,
             polls <- pollsD, event <- eventD

\* The kinds of fault are those of BuildJobs.
LEMMA SameFaults == Faults \subseteq DP!FaultKinds
BY FaultsAssumption DEF FaultKinds, DP!FaultKinds

\* The copy of Deployments that the proofs are about is the one that Platform
\* is built from.
LEMMA SameNext == D!Next => DP!Next
<1> USE DEF D!dbVars, DP!dbVars, D!clusterVars, DP!clusterVars, D!Orders, DP!Orders, D!Nothing,
            DP!Nothing, D!ReqGoes, DP!ReqGoes, D!PollGoes, DP!PollGoes, D!CommitOK, DP!CommitOK,
            D!CommitFails, DP!CommitFails
<1>1. \A d \in Deploys : D!CreateDeployment(d) => DP!CreateDeployment(d)
  BY DEF D!CreateDeployment, DP!CreateDeployment, D!Deployable, DP!Deployable
<1>2. \A d \in Deploys : D!ApplyDeployment(d) => DP!ApplyDeployment(d)
  BY DEF D!ApplyDeployment, DP!ApplyDeployment, D!ApplyCalls, DP!ApplyCalls
<1>3. \A d \in Deploys : D!PollStatus(d) => DP!PollStatus(d)
  <2>1. \A S : D!Cardinality(S) = DP!Cardinality(S)
    BY DEF D!Cardinality, DP!Cardinality
  <2>2. \A t \in Tenants : D!DeploymentStatus(t) = DP!DeploymentStatus(t)
    BY <2>1 DEF D!DeploymentStatus, DP!DeploymentStatus, D!ReadyReplicas, DP!ReadyReplicas,
                D!ReadyPods, DP!ReadyPods
  <2>3. \A d \in Deploys : DeployOwner[d] \in Tenants
    BY DeployOwnerAssumption
  <2> QED BY <2>2, <2>3 DEF D!PollStatus, DP!PollStatus, D!AfterUnknown, DP!AfterUnknown
<1>4. \A d \in Deploys : D!PollRecord(d) => DP!PollRecord(d)
  BY DEF D!PollRecord, DP!PollRecord, D!Verdict, DP!Verdict
<1>5. \A d \in Deploys : D!TaskStep(d) => DP!TaskStep(d)
  BY <1>2, <1>3, <1>4
     DEF D!TaskStep, DP!TaskStep, D!InsertDeployment, DP!InsertDeployment, D!CommitDeploying,
         DP!CommitDeploying, D!CommitRefused, DP!CommitRefused, D!Respond, DP!Respond,
         D!PollDispatch, DP!PollDispatch, D!PollTimeout, DP!PollTimeout
<1>6. D!Crash => DP!Crash
  BY DEF D!Crash, DP!Crash, D!Running, DP!Running, D!ReqLive, DP!ReqLive, D!PollLive, DP!PollLive
<1> QED
  BY <1>1, <1>5, <1>6
     DEF D!Next, DP!Next, D!BuildSucceeds, DP!BuildSucceeds, D!PodReady, DP!PodReady,
         D!RolloutStalls, DP!RolloutStalls, D!DeleteTenant, DP!DeleteTenant, D!PodGone, DP!PodGone

\* So the composition implements that copy too.
LEMMA PlatformIsDeployments == PSpec => DP!Spec
<1>1. D!Init => DP!Init
  BY DEF D!Init, DP!Init, D!Nothing, DP!Nothing
<1>2. [D!Next]_(D!vars) => [DP!Next]_(DP!vars)
  BY SameNext DEF D!vars, DP!vars
<1> QED BY <1>1, <1>2, DeploymentsEnvironment, PTL DEF DeploymentsAssumeRight, D!Spec, DP!Spec

\* What is proved of deployments in an environment where builds just succeed
\* holds beside the build service, whose builds do so by the poller's commit.
THEOREM DeploymentsUndisturbed ==
    PSpec => /\ [](D!OwnImagesOnly /\ D!DeployedIsReachable /\ D!PendingHasOwner
                   /\ D!EventMatchesRow)
             /\ D!TerminalFrozen
             /\ D!SoleVerdictHonest
<1> USE TenantOfAssumption, DeployOwnerAssumption, ReplicasAssumption, DPollsAssumption, SameFaults
<1>1. DP!Spec => []DP!OwnImagesOnly
  BY DP!OwnImagesAlways, PTL
<1>2. DP!Spec => []DP!DeployedIsReachable
  BY DP!DeployedAlwaysReachable, PTL
<1>3. DP!Spec => []DP!PendingHasOwner
  BY DP!PendingAlwaysOwned, PTL
<1>4. DP!Spec => []DP!EventMatchesRow
  BY DP!EventsAlwaysMatch, PTL
<1>5. DP!Spec => DP!TerminalFrozen
  BY DP!ResultsAreFrozen, PTL
<1>6. DP!Spec => DP!SoleVerdictHonest
  BY DP!SoleVerdictsAlwaysHonest, PTL
<1>7. /\ DP!OwnImagesOnly => D!OwnImagesOnly
      /\ DP!DeployedIsReachable => D!DeployedIsReachable
      /\ DP!PendingHasOwner => D!PendingHasOwner
      /\ DP!EventMatchesRow => D!EventMatchesRow
  BY DEF D!OwnImagesOnly, DP!OwnImagesOnly, D!DeployedIsReachable, DP!DeployedIsReachable,
         D!PendingHasOwner, DP!PendingHasOwner, D!EventMatchesRow, DP!EventMatchesRow,
         D!Nothing, DP!Nothing, D!ReqLive, DP!ReqLive, D!PollLive, DP!PollLive
<1>8. DP!TerminalFrozen => D!TerminalFrozen
  BY PTL DEF DP!TerminalFrozen, D!TerminalFrozen, D!Terminal, DP!Terminal, D!vars, DP!vars
<1>9. DP!SoleVerdictHonest => D!SoleVerdictHonest
  BY PTL DEF DP!SoleVerdictHonest, D!SoleVerdictHonest, D!vars, DP!vars
<1> QED BY <1>1, <1>2, <1>3, <1>4, <1>5, <1>6, <1>7, <1>8, <1>9, PlatformIsDeployments, PTL

\* A tenant-app is created, and a pod runs, only behind all the guardrails and
\* from an image that was pushed for this tenant.
THEOREM DeployedAlwaysBuilt == PSpec => []DeployedWasBuilt
<1>1. PInv /\ D!OwnImagesOnly => DeployedWasBuilt
  <2> SUFFICES ASSUME PInv, D!OwnImagesOnly, NEW t \in Tenants, NEW j \in Images(t)
               PROVE  /\ TenantOf[j] = t
                      /\ objs[t] = NsObjects
                      /\ pushed[j] > 0
                      /\ t \in tenants => SaysSucceeded(j) /\ row[j].image \in 1..pushed[j]
    BY DEF DeployedWasBuilt
  <2>1. j \in built /\ TenantOf[j] = t /\ j \in Jobs
    BY DEF D!OwnImagesOnly, Images
  <2>2. pushed[j] # 0 /\ pushed[j] \in Nat
    BY <2>1, PushesAssumption DEF PInv, BuiltPushed, IInv, TypeOK
  <2>3. objs[t] = NsObjects
    BY <2>1, <2>2 DEF PInv, PushedExists, IInv, GuardedBuilds
  <2>4. t \in tenants => SaysSucceeded(j)
    BY <2>1 DEF PInv, BuildsSeenRight
  <2> QED BY <2>1, <2>2, <2>3, <2>4, SucceededMeans DEF PInv
<1> QED BY <1>1, PInvariance, DeploymentsUndisturbed, PTL
=============================================================================
