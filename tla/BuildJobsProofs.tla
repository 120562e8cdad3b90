--------------------------- MODULE BuildJobsProofs ---------------------------
(***************************************************************************)
(* Proofs about BuildJobs for any number of tenants, builds, polls and     *)
(* pushes, and any kinds of fault.                                         *)
(***************************************************************************)
EXTENDS BuildJobs, TLAPS

\* What the row looks like at each stage of the request coroutine, and that no
\* poller exists before the request has returned.
RequestStage(j) ==
    /\ req[j] \in {"idle", "loaded"} => row[j] = NoRow
    /\ req[j] \in {"inserted", "started", "refused"} => row[j].status \in {"none", "queued"}
    /\ req[j] = "building" => row[j].status \in {"none", "building"}
    /\ poll[j] # "none" => req[j] = "done"
    /\ req[j] = "done" /\ poll[j] = "none" => row[j].status \notin Pending

\* What the poller may find in the row, and what it holds in memory.
PollerStage(j) ==
    /\ poll[j] # "none" => row[j].status # "queued"
    /\ poll[j] \in {"sleeping", "ready", "notready", "timedout"}
          => row[j].status \in {"none", "building"}
    /\ poll[j] = "recorded" =>
          row[j].status \in {"none", IF seen[j] # 0 THEN "succeeded" ELSE "failed"}
    /\ poll[j] = "done" => row[j].status \notin Pending
    /\ poll[j] = "none" => polls[j] = 0
    /\ poll[j] = "sleeping" => polls[j] < MaxPolls
    /\ poll[j] \in {"none", "sleeping", "notready", "timedout"} => seen[j] = 0
    /\ poll[j] = "ready" => seen[j] # 0
    /\ event[j] # "none" => poll[j] \in {"done", "dead"}

\* Columns of a row by status, before and after it is final.
RowShape(j) ==
    /\ row[j].status = "queued" => row[j] = Queued
    /\ row[j].status = "building" =>
          row[j].image = 0 /\ row[j].error = "none" /\ row[j].stamps = {"started_at"}

\* Images are counted before they are reported.
PushShape(j) ==
    /\ seen[j] <= pushed[j]
    /\ kpack[j] = "ready" => pushed[j] # 0

\* Everything the invariant says of one job.
JobInv(j) ==
    /\ RequestStage(j) /\ PollerStage(j) /\ RowShape(j) /\ PushShape(j)
    /\ Explained(j) /\ Announced(j)

\* The inductive invariant.
IInv ==
    /\ TypeOK
    /\ RowsHaveTenant
    /\ GuardedBuilds
    /\ \A j \in Jobs : JobInv(j)

-----------------------------------------------------------------------------
(* Rows.                                                                    *)

\* The record that stands for a missing row is no row.
LEMMA NoRowIsNoRow == NoRow \notin Rows
BY DEF NoRow, Rows, Pending, Terminal

\* A record of the table is missing exactly when its status says so.
LEMMA AbsentRow ==
  ASSUME TypeOK, NEW j \in Jobs
  PROVE  (row[j] = NoRow) <=> (row[j].status = "none")
BY DEF TypeOK, NoRow, Rows, Pending, Terminal

\* What the services write is a row: the insert, and the updates of a row that
\* is there.
LEMMA WrittenRows ==
  ASSUME TypeOK, NEW j \in Jobs
  PROVE  /\ Queued \in Rows
         /\ row[j] # NoRow => Building(j) \in Rows
         /\ \A why \in {"start", "build", "timeout"} : row[j] # NoRow => Failed(j, why) \in Rows
         /\ row[j] # NoRow => Resolved(j) \in Rows
<1>1. Queued \in Rows
  BY PushesAssumption DEF Queued, NoRow, Rows, Pending, Terminal
<1>2. ASSUME row[j] # NoRow PROVE row[j] \in Rows
  BY <1>2 DEF TypeOK
<1>3. ASSUME row[j] # NoRow PROVE Building(j) \in Rows
  BY <1>2, <1>3 DEF Building, Rows, Pending, Terminal
<1>4. ASSUME row[j] # NoRow, NEW why \in {"start", "build", "timeout"}
      PROVE  Failed(j, why) \in Rows
  BY <1>2, <1>4 DEF Failed, Rows, Pending, Terminal
<1>5. ASSUME row[j] # NoRow PROVE Resolved(j) \in Rows
  <2>1. CASE poll[j] = "ready"
    BY <1>2, <1>5, <2>1 DEF Resolved, Rows, Pending, Terminal, TypeOK
  <2>2. CASE poll[j] # "ready"
    BY <1>4, <1>5, <2>2 DEF Resolved
  <2> QED BY <2>1, <2>2
<1> QED BY <1>1, <1>3, <1>4, <1>5

\* A commit of a row leaves the table well typed, whether it succeeds or not.
LEMMA CommitTyped ==
  ASSUME TypeOK, NEW j \in Jobs, NEW r, row[j] # NoRow => r \in Rows,
         CommitOK(j, r) \/ CommitFails(j, r)
  PROVE  row' \in [Jobs -> Rows \cup {NoRow}]
BY DEF TypeOK, CommitOK, CommitFails

-----------------------------------------------------------------------------
(* Cluster calls.                                                           *)

\* Start calls only add objects, and the Image comes with all the guardrails.
LEMMA StartCallsEffect ==
  ASSUME TypeOK, NEW j \in Jobs, NEW n \in Nat, StartCalls(j, n)
  PROVE  /\ objs' \in [Tenants -> SUBSET NsObjects]
         /\ \A t \in Tenants : objs[t] \subseteq objs'[t]
         /\ kpack' \in [Jobs -> {"absent", "unknown", "ready", "failed"}]
         /\ \A k \in Jobs : kpack'[k] = kpack[k] \/ (k = j /\ kpack'[k] = "unknown")
         /\ kpack' # kpack => objs'[TenantOf[j]] = NsObjects
<1> DEFINE made == {NsCalls[i] : i \in {k \in DOMAIN NsCalls : k <= n}}
<1>1. made \subseteq NsObjects
  BY DEF NsObjects
<1>2. objs' = [objs EXCEPT ![TenantOf[j]] = @ \cup made]
  BY DEF StartCalls
<1>3. TenantOf[j] \in Tenants
  BY TenantOfAssumption
<1>4. objs' \in [Tenants -> SUBSET NsObjects] /\ \A t \in Tenants : objs[t] \subseteq objs'[t]
  <2> HIDE DEF made
  <2> QED BY <1>1, <1>2, <1>3 DEF TypeOK
<1>5. /\ kpack' \in [Jobs -> {"absent", "unknown", "ready", "failed"}]
      /\ \A k \in Jobs : kpack'[k] = kpack[k] \/ (k = j /\ kpack'[k] = "unknown")
  BY DEF StartCalls, TypeOK
<1>6. ASSUME kpack' # kpack PROVE objs'[TenantOf[j]] = NsObjects
  <2>1. n > Len(NsCalls)
    BY <1>6 DEF StartCalls
  <2>2. \A k \in DOMAIN NsCalls : k <= n
    BY <2>1 DEF NsCalls
  <2>3. made = NsObjects
    BY <2>2 DEF NsObjects
  <2>4. objs'[TenantOf[j]] = objs[TenantOf[j]] \cup NsObjects
    <3> HIDE DEF made
    <3> QED BY <1>2, <1>3, <2>3 DEF TypeOK
  <2> QED BY <1>3, <2>4 DEF TypeOK
<1> QED BY <1>4, <1>5, <1>6

\* The whole action: refused, started or not attempted.
LEMMA StartBuildEffect ==
  ASSUME TypeOK, NEW j \in Jobs, StartBuild(j)
  PROVE  /\ objs' \in [Tenants -> SUBSET NsObjects]
         /\ \A t \in Tenants : objs[t] \subseteq objs'[t]
         /\ kpack' \in [Jobs -> {"absent", "unknown", "ready", "failed"}]
         /\ \A k \in Jobs : kpack'[k] = kpack[k] \/ (k = j /\ kpack'[k] = "unknown")
         /\ kpack' # kpack => objs'[TenantOf[j]] = NsObjects
<1>1. CASE UNCHANGED <<kpack, objs>>
  BY <1>1 DEF TypeOK
<1>2. CASE \E n \in Nat : StartCalls(j, n)
  BY <1>2, StartCallsEffect
<1>3. Len(NsCalls) + 1 \in Nat
  BY DEF NsCalls
<1>4. UNCHANGED <<kpack, objs>> \/ \E n \in Nat : StartCalls(j, n)
  BY <1>3 DEF StartBuild
<1> QED BY <1>1, <1>2, <1>4

-----------------------------------------------------------------------------
(* Types.                                                                   *)

\* The initial state satisfies the invariant.
LEMMA InitIInv == ASSUME Init PROVE IInv
<1>1. TypeOK
  BY PollsAssumption, PushesAssumption DEF Init, TypeOK, ReqPCs, PollPCs
<1>2. RowsHaveTenant /\ GuardedBuilds
  BY DEF Init, RowsHaveTenant, GuardedBuilds
<1>3. ASSUME NEW j \in Jobs PROVE JobInv(j)
  BY PollsAssumption DEF Init, JobInv, RequestStage, PollerStage, RowShape, PushShape,
                         Explained, Announced, NoRow, Pending
<1> QED BY <1>1, <1>2, <1>3 DEF IInv

\* Every step keeps the types: the counters stay within their bounds because a
\* poller that sleeps has turns left and kpack pushes only below its bound.
LEMMA TypeStep == ASSUME IInv, [Next]_vars PROVE TypeOK'
<1> USE DEF ReqPCs, PollPCs, ReqLive, PollLive
<1>1. TypeOK
  BY DEF IInv
<1>2. ASSUME NEW j \in Jobs, CreateBuildJob(j) PROVE TypeOK'
  BY <1>1, <1>2 DEF TypeOK, CreateBuildJob, ReqGoes, dbVars, clusterVars
<1>3. ASSUME NEW j \in Jobs, InsertBuildJob(j) PROVE TypeOK'
  <2>1. row' \in [Jobs -> Rows \cup {NoRow}]
    BY <1>1, <1>3, WrittenRows DEF TypeOK, InsertBuildJob
  <2> QED BY <1>1, <1>3, <2>1 DEF TypeOK, InsertBuildJob, ReqGoes, clusterVars
<1>4. ASSUME NEW j \in Jobs, StartBuild(j) PROVE TypeOK'
  BY <1>1, <1>4, StartBuildEffect DEF TypeOK, StartBuild, ReqGoes, dbVars
<1>5. ASSUME NEW j \in Jobs, CommitBuilding(j) PROVE TypeOK'
  <2>1. row' \in [Jobs -> Rows \cup {NoRow}]
    BY <1>1, <1>5, WrittenRows, CommitTyped DEF CommitBuilding
  <2> QED BY <1>1, <1>5, <2>1 DEF TypeOK, CommitBuilding, ReqGoes, clusterVars
<1>6. ASSUME NEW j \in Jobs, CommitRefused(j) PROVE TypeOK'
  <2>1. row' \in [Jobs -> Rows \cup {NoRow}]
    BY <1>1, <1>6, WrittenRows, CommitTyped DEF CommitRefused
  <2> QED BY <1>1, <1>6, <2>1 DEF TypeOK, CommitRefused, ReqGoes, clusterVars
<1>7. ASSUME NEW j \in Jobs, Respond(j) PROVE TypeOK'
  BY <1>1, <1>7 DEF TypeOK, Respond, ReqGoes, dbVars, clusterVars
<1>8. ASSUME NEW j \in Jobs, PollStatus(j) PROVE TypeOK'
  <2>1. polls[j] < MaxPolls
    BY <1>8 DEF IInv, JobInv, PollerStage, PollStatus
  <2> QED BY <1>1, <1>8, <2>1, PollsAssumption
          DEF TypeOK, PollStatus, PollGoes, AfterUnknown, BuildStatus, dbVars, clusterVars
<1>9. ASSUME NEW j \in Jobs, PollRecord(j) PROVE TypeOK'
  <2>1. row' \in [Jobs -> Rows \cup {NoRow}]
    <3>1. CASE UNCHANGED row
      BY <1>1, <3>1 DEF TypeOK
    <3>2. CASE CommitOK(j, Resolved(j)) \/ CommitFails(j, Resolved(j))
      BY <1>1, <3>2, WrittenRows, CommitTyped
    <3> QED BY <1>9, <3>1, <3>2 DEF PollRecord
  <2> QED BY <1>1, <1>9, <2>1 DEF TypeOK, PollRecord, PollGoes, clusterVars
<1>10. ASSUME NEW j \in Jobs, PollDispatch(j) PROVE TypeOK'
  BY <1>1, <1>10 DEF TypeOK, PollDispatch, PollGoes, dbVars, clusterVars
<1>11. ASSUME NEW j \in Jobs, PollTimeout(j) PROVE TypeOK'
  <2>1. row' \in [Jobs -> Rows \cup {NoRow}]
    <3>1. CASE UNCHANGED row
      BY <1>1, <3>1 DEF TypeOK
    <3>2. CASE CommitOK(j, Failed(j, "timeout")) \/ CommitFails(j, Failed(j, "timeout"))
      BY <1>1, <3>2, WrittenRows, CommitTyped
    <3> QED BY <1>11, <3>1, <3>2 DEF PollTimeout
  <2> QED BY <1>1, <1>11, <2>1 DEF TypeOK, PollTimeout, PollGoes, clusterVars
<1>12. ASSUME NEW j \in Jobs, KpackResolve(j) \/ KpackRebuild(j) PROVE TypeOK'
  BY <1>1, <1>12, PushesAssumption DEF TypeOK, KpackResolve, KpackRebuild, dbVars, taskVars
<1>13. ASSUME NEW t \in Tenants, DeleteTenant(t) PROVE TypeOK'
  BY <1>1, <1>13 DEF TypeOK, DeleteTenant, taskVars, clusterVars
<1>14. CASE Crash
  BY <1>1, <1>14 DEF TypeOK, Crash, dbVars, clusterVars
<1>15. CASE UNCHANGED vars
  BY <1>1, <1>15 DEF TypeOK, vars
<1> QED BY <1>2, <1>3, <1>4, <1>5, <1>6, <1>7, <1>8, <1>9, <1>10, <1>11, <1>12, <1>13,
           <1>14, <1>15 DEF Next, TaskStep

-----------------------------------------------------------------------------
(* What each step does to the job it is about, and that it leaves the other *)
(* jobs alone.                                                              *)

SameJob(k) ==
    /\ row'[k] = row[k] /\ req'[k] = req[k] /\ poll'[k] = poll[k] /\ polls'[k] = polls[k]
    /\ seen'[k] = seen[k] /\ kpack'[k] = kpack[k] /\ pushed'[k] = pushed[k]
    /\ event'[k] = event[k]

OthersSame(j) == \A k \in Jobs \ {j} : SameJob(k)

\* A job none of whose state changes keeps its invariant.
LEMMA Frame == ASSUME NEW k \in Jobs, JobInv(k), SameJob(k) PROVE JobInv(k)'
BY DEF SameJob, JobInv, RequestStage, PollerStage, RowShape, PushShape, Explained, Announced

\* The request coroutine.
LEMMA RequestStep ==
  ASSUME IInv, NEW j \in Jobs,
         \/ CreateBuildJob(j) \/ InsertBuildJob(j) \/ StartBuild(j)
         \/ CommitBuilding(j) \/ CommitRefused(j) \/ Respond(j)
  PROVE  JobInv(j)' /\ OthersSame(j)
<1> USE DEF JobInv, RequestStage, PollerStage, RowShape, PushShape, Explained, Announced,
            OthersSame, SameJob, Pending, ReqGoes
<1>1. TypeOK /\ JobInv(j)
  BY DEF IInv
<1>2. CASE CreateBuildJob(j)
  BY <1>1, <1>2 DEF TypeOK, CreateBuildJob, dbVars, clusterVars
<1>3. CASE InsertBuildJob(j)
  BY <1>1, <1>3 DEF TypeOK, InsertBuildJob, clusterVars, Queued, NoRow
<1>4. CASE StartBuild(j)
  <2>0. /\ \A k \in Jobs : kpack'[k] = kpack[k] \/ (k = j /\ kpack'[k] = "unknown")
        /\ \A k \in Jobs \ {j} : kpack'[k] = kpack[k]
    BY <1>1, <1>4, StartBuildEffect
  <2>1. /\ row'[j] = row[j] /\ poll'[j] = poll[j] /\ polls'[j] = polls[j] /\ seen'[j] = seen[j]
        /\ pushed'[j] = pushed[j] /\ event'[j] = event[j]
        /\ req'[j] \in {"error", "started", "refused"}
        /\ kpack'[j] = kpack[j] \/ kpack'[j] = "unknown"
    BY <1>1, <1>4, <2>0 DEF TypeOK, StartBuild, dbVars
  <2>2. poll[j] = "none"
    BY <1>1, <1>4 DEF StartBuild
  <2>3. JobInv(j)'
    BY <1>1, <1>4, <2>1, <2>2 DEF StartBuild
  <2>4. OthersSame(j)
    BY <1>1, <1>4, <2>0 DEF TypeOK, StartBuild, dbVars
  <2> QED BY <2>3, <2>4
<1>5. CASE CommitBuilding(j)
  <2>1. OthersSame(j)
    BY <1>1, <1>5 DEF TypeOK, CommitBuilding, CommitOK, CommitFails, clusterVars
  <2>2. /\ poll[j] = "none" /\ seen[j] = 0 /\ row[j].status \in {"none", "queued"}
    BY <1>1, <1>5 DEF CommitBuilding
  <2>3. /\ poll'[j] = poll[j] /\ polls'[j] = polls[j] /\ seen'[j] = seen[j]
        /\ kpack'[j] = kpack[j] /\ pushed'[j] = pushed[j] /\ event'[j] = event[j]
    BY <1>5 DEF CommitBuilding, clusterVars
  <2>4. \/ row'[j] = row[j] /\ req'[j] = "error"
        \/ row[j] # NoRow /\ row'[j] = Building(j) /\ req'[j] \in {"building", "error"}
    BY <1>1, <1>5 DEF TypeOK, CommitBuilding, CommitOK, CommitFails
  <2>5. ASSUME row[j] # NoRow
        PROVE  /\ Building(j).status = "building" /\ Building(j).image = 0
               /\ Building(j).error = "none" /\ Building(j).stamps = {"started_at"}
    <3>1. row[j] = Queued
      BY <1>1, <2>2, <2>5, AbsentRow
    <3> QED BY <3>1 DEF Building, Queued, NoRow
  <2>6. JobInv(j)'
    BY <1>1, <2>2, <2>3, <2>4, <2>5
  <2> QED BY <2>1, <2>6
<1>6. CASE CommitRefused(j)
  <2>1. OthersSame(j)
    BY <1>1, <1>6 DEF TypeOK, CommitRefused, CommitOK, CommitFails, clusterVars
  <2>2. /\ poll[j] = "none" /\ seen[j] = 0 /\ row[j].status \in {"none", "queued"}
    BY <1>1, <1>6 DEF CommitRefused
  <2>3. /\ poll'[j] = poll[j] /\ polls'[j] = polls[j] /\ seen'[j] = seen[j]
        /\ kpack'[j] = kpack[j] /\ pushed'[j] = pushed[j] /\ event'[j] = event[j]
    BY <1>6 DEF CommitRefused, clusterVars
  <2>4. \/ row'[j] = row[j] /\ req'[j] = "error"
        \/ row[j] # NoRow /\ row'[j] = Failed(j, "start") /\ req'[j] \in {"done", "error"}
    BY <1>1, <1>6 DEF TypeOK, CommitRefused, CommitOK, CommitFails
  <2>5. ASSUME row[j] # NoRow
        PROVE  /\ Failed(j, "start").status = "failed" /\ Failed(j, "start").image = 0
               /\ Failed(j, "start").error = "start" /\ Failed(j, "start").stamps = {"ended_at"}
    <3>1. row[j] = Queued
      BY <1>1, <2>2, <2>5, AbsentRow
    <3> QED BY <3>1 DEF Failed, Queued, NoRow
  <2>6. JobInv(j)'
    BY <1>1, <2>2, <2>3, <2>4, <2>5
  <2> QED BY <2>1, <2>6
<1>7. CASE Respond(j)
  <2>1. OthersSame(j)
    BY <1>1, <1>7 DEF TypeOK, Respond, dbVars, clusterVars
  <2>2. /\ poll[j] = "none" /\ seen[j] = 0 /\ row[j].status \in {"none", "building"}
    BY <1>1, <1>7 DEF Respond
  <2>3. /\ row'[j] = row[j] /\ polls'[j] = polls[j] /\ seen'[j] = seen[j]
        /\ kpack'[j] = kpack[j] /\ pushed'[j] = pushed[j] /\ event'[j] = event[j]
        /\ \/ req'[j] = "done" /\ poll'[j] = "sleeping"
           \/ req'[j] = "error" /\ poll'[j] = "none"
    BY <1>1, <1>7, <2>2 DEF TypeOK, Respond, dbVars, clusterVars
  <2>4. polls[j] = 0
    BY <1>1, <2>2
  <2>5. JobInv(j)'
    BY <1>1, <2>2, <2>3, <2>4, PollsAssumption DEF TypeOK
  <2> QED BY <2>1, <2>5
<1> QED BY <1>2, <1>3, <1>4, <1>5, <1>6, <1>7

\* The background task.
LEMMA PollerStep ==
  ASSUME IInv, NEW j \in Jobs,
         PollStatus(j) \/ PollRecord(j) \/ PollDispatch(j) \/ PollTimeout(j)
  PROVE  JobInv(j)' /\ OthersSame(j)
<1> USE DEF JobInv, RequestStage, PollerStage, RowShape, PushShape, Explained, Announced,
            OthersSame, SameJob, Pending, PollGoes
<1>1. TypeOK /\ JobInv(j)
  BY DEF IInv
<1>2. CASE PollStatus(j)
  <2>1. OthersSame(j)
    BY <1>1, <1>2 DEF TypeOK, PollStatus, BuildStatus, dbVars, clusterVars
  <2>2. /\ row'[j] = row[j] /\ req'[j] = req[j] /\ kpack'[j] = kpack[j]
        /\ pushed'[j] = pushed[j] /\ event'[j] = event[j] /\ polls'[j] = polls[j] + 1
        /\ \/ poll'[j] = AfterUnknown(j) /\ seen'[j] = seen[j]
           \/ poll'[j] = "ready" /\ seen'[j] = pushed[j] /\ kpack[j] = "ready"
           \/ poll'[j] \in {"notready", "dead"} /\ seen'[j] = seen[j]
    BY <1>1, <1>2 DEF TypeOK, PollStatus, BuildStatus, dbVars, clusterVars
  <2>3. poll[j] = "sleeping"
    BY <1>2 DEF PollStatus
  <2>4. JobInv(j)'
    BY <1>1, <2>2, <2>3, PollsAssumption, PushesAssumption DEF TypeOK, AfterUnknown
  <2> QED BY <2>1, <2>4
<1>3. CASE PollRecord(j)
  <2>1. OthersSame(j)
    BY <1>1, <1>3 DEF TypeOK, PollRecord, CommitOK, CommitFails, clusterVars
  <2>2. /\ poll[j] \in {"ready", "notready"} /\ row[j].status \in {"none", "building"}
        /\ event[j] = "none" /\ req[j] = "done"
    BY <1>1, <1>3 DEF PollRecord
  <2>3. /\ req'[j] = req[j] /\ polls'[j] = polls[j] /\ seen'[j] = seen[j]
        /\ kpack'[j] = kpack[j] /\ pushed'[j] = pushed[j] /\ event'[j] = event[j]
    BY <1>3 DEF PollRecord, clusterVars
  <2>4. \/ row[j] = NoRow /\ row'[j] = row[j] /\ poll'[j] = "done"
        \/ row[j] # NoRow /\ row'[j] = Resolved(j) /\ poll'[j] \in {"recorded", "dead"}
        \/ row'[j] = row[j] /\ poll'[j] = "dead"
    BY <1>1, <1>3 DEF TypeOK, PollRecord, CommitOK, CommitFails
  <2>5. ASSUME row[j] # NoRow
        PROVE  /\ Resolved(j).status = IF poll[j] = "ready" THEN "succeeded" ELSE "failed"
               /\ Resolved(j).image = IF poll[j] = "ready" THEN seen[j] ELSE 0
               /\ Resolved(j).error = IF poll[j] = "ready" THEN "none" ELSE "build"
               /\ Resolved(j).stamps = {"started_at", "ended_at"}
    <3>1. /\ row[j] \in Rows /\ row[j].image = 0 /\ row[j].error = "none"
          /\ row[j].stamps = {"started_at"}
      BY <1>1, <2>2, <2>5, AbsentRow DEF TypeOK
    <3>2. CASE poll[j] = "ready"
      BY <3>1, <3>2 DEF Resolved, Rows
    <3>3. CASE poll[j] # "ready"
      BY <3>1, <3>3 DEF Resolved, Failed, Rows
    <3> QED BY <3>2, <3>3
  <2>6. JobInv(j)'
    BY <1>1, <2>2, <2>3, <2>4, <2>5, AbsentRow DEF TypeOK
  <2> QED BY <2>1, <2>6
<1>4. CASE PollDispatch(j)
  <2>1. OthersSame(j)
    BY <1>1, <1>4 DEF TypeOK, PollDispatch, dbVars, clusterVars
  <2>2. /\ row'[j] = row[j] /\ req'[j] = req[j] /\ polls'[j] = polls[j] /\ seen'[j] = seen[j]
        /\ kpack'[j] = kpack[j] /\ pushed'[j] = pushed[j] /\ poll'[j] \in {"done", "dead"}
        /\ \/ event'[j] = event[j]
           \/ event'[j] = IF seen[j] # 0 THEN "build.succeeded" ELSE "build.failed"
    BY <1>1, <1>4 DEF TypeOK, PollDispatch, dbVars, clusterVars
  <2>3. poll[j] = "recorded"
    BY <1>4 DEF PollDispatch
  <2>4. JobInv(j)'
    BY <1>1, <2>2, <2>3
  <2> QED BY <2>1, <2>4
<1>5. CASE PollTimeout(j)
  <2>1. OthersSame(j)
    BY <1>1, <1>5 DEF TypeOK, PollTimeout, CommitOK, CommitFails, clusterVars
  <2>2. /\ poll[j] = "timedout" /\ row[j].status \in {"none", "building"}
        /\ event[j] = "none" /\ req[j] = "done"
    BY <1>1, <1>5 DEF PollTimeout
  <2>3. /\ req'[j] = req[j] /\ polls'[j] = polls[j] /\ seen'[j] = seen[j]
        /\ kpack'[j] = kpack[j] /\ pushed'[j] = pushed[j] /\ event'[j] = event[j]
    BY <1>5 DEF PollTimeout, clusterVars
  <2>4. \/ row[j].status # "building" /\ row'[j] = row[j] /\ poll'[j] = "done"
        \/ row[j] # NoRow /\ row'[j] = Failed(j, "timeout") /\ poll'[j] \in {"done", "dead"}
        \/ row'[j] = row[j] /\ poll'[j] = "dead"
    BY <1>1, <1>5 DEF TypeOK, PollTimeout, CommitOK, CommitFails
  <2>5. ASSUME row[j] # NoRow
        PROVE  /\ Failed(j, "timeout").status = "failed" /\ Failed(j, "timeout").image = 0
               /\ Failed(j, "timeout").error = "timeout"
               /\ Failed(j, "timeout").stamps = {"started_at", "ended_at"}
    <3>1. /\ row[j] \in Rows /\ row[j].image = 0 /\ row[j].stamps = {"started_at"}
      BY <1>1, <2>2, <2>5, AbsentRow DEF TypeOK
    <3> QED BY <3>1 DEF Failed, Rows
  <2>6. JobInv(j)'
    BY <1>1, <2>2, <2>3, <2>4, <2>5, AbsentRow DEF TypeOK
  <2> QED BY <2>1, <2>6
<1> QED BY <1>2, <1>3, <1>4, <1>5

\* kpack.
LEMMA KpackStep ==
  ASSUME IInv, NEW j \in Jobs, KpackResolve(j) \/ KpackRebuild(j)
  PROVE  JobInv(j)' /\ OthersSame(j)
<1>1. TypeOK /\ JobInv(j)
  BY DEF IInv
<1>2. OthersSame(j)
  BY <1>1 DEF TypeOK, KpackResolve, KpackRebuild, dbVars, taskVars, OthersSame, SameJob
<1>3. /\ row'[j] = row[j] /\ req'[j] = req[j] /\ poll'[j] = poll[j] /\ polls'[j] = polls[j]
      /\ seen'[j] = seen[j] /\ event'[j] = event[j] /\ pushed'[j] \in {pushed[j], pushed[j] + 1}
      /\ kpack'[j] = "ready" => pushed'[j] = pushed[j] + 1
  BY <1>1 DEF TypeOK, KpackResolve, KpackRebuild, dbVars, taskVars
<1>4. pushed[j] \in Nat /\ seen[j] \in Nat /\ row[j].image \in Nat
  BY <1>1, PushesAssumption DEF TypeOK, Rows, NoRow
<1>5. JobInv(j)'
  BY <1>1, <1>3, <1>4 DEF JobInv, RequestStage, PollerStage, RowShape, PushShape, Explained, Announced
<1> QED BY <1>2, <1>5

\* Deleting a tenant and restarting the process touch many jobs at once.
LEMMA GlobalStep ==
  ASSUME IInv, NEW k \in Jobs, Crash \/ \E t \in Tenants : DeleteTenant(t)
  PROVE  JobInv(k)'
<1> USE DEF JobInv, RequestStage, PollerStage, RowShape, PushShape, Explained, Announced, Pending
<1>1. TypeOK /\ JobInv(k)
  BY DEF IInv
<1>2. CASE Crash
  <2>1. /\ row'[k] = row[k] /\ polls'[k] = polls[k] /\ seen'[k] = seen[k]
        /\ kpack'[k] = kpack[k] /\ pushed'[k] = pushed[k] /\ event'[k] = event[k]
        /\ req'[k] = IF req[k] \in ReqLive THEN "lost" ELSE req[k]
        /\ poll'[k] = IF poll[k] \in PollLive THEN "lost" ELSE poll[k]
    BY <1>1, <1>2 DEF TypeOK, Crash, dbVars, clusterVars
  <2> QED BY <1>1, <2>1 DEF ReqLive, PollLive
<1>3. ASSUME NEW t \in Tenants, DeleteTenant(t) PROVE JobInv(k)'
  <2>1. /\ row'[k] \in {row[k], NoRow}
        /\ req'[k] = req[k] /\ poll'[k] = poll[k] /\ polls'[k] = polls[k] /\ seen'[k] = seen[k]
        /\ kpack'[k] = kpack[k] /\ pushed'[k] = pushed[k] /\ event'[k] = event[k]
    BY <1>1, <1>3 DEF TypeOK, DeleteTenant, taskVars, clusterVars
  <2>2. CASE row'[k] = row[k]
    BY <1>1, <2>1, <2>2
  <2>3. CASE row'[k] = NoRow
    BY <1>1, <2>1, <2>3 DEF NoRow
  <2> QED BY <2>1, <2>2, <2>3
<1> QED BY <1>2, <1>3

\* Rows are inserted only for a tenant that is there, and go with it.
LEMMA RowsStep == ASSUME IInv, [Next]_vars PROVE RowsHaveTenant'
<1> USE DEF RowsHaveTenant
<1>1. TypeOK /\ RowsHaveTenant
  BY DEF IInv
<1>2. ASSUME NEW j \in Jobs, InsertBuildJob(j) PROVE RowsHaveTenant'
  BY <1>1, <1>2 DEF TypeOK, InsertBuildJob
<1>3. ASSUME NEW j \in Jobs, NEW r, CommitOK(j, r) \/ CommitFails(j, r), tenants' = tenants
      PROVE  RowsHaveTenant'
  BY <1>1, <1>3 DEF TypeOK, CommitOK, CommitFails
<1>4. CASE UNCHANGED <<tenants, row>>
  BY <1>1, <1>4
<1>5. ASSUME NEW t \in Tenants, DeleteTenant(t) PROVE RowsHaveTenant'
  BY <1>1, <1>5 DEF TypeOK, DeleteTenant
<1>6. ASSUME NEW j \in Jobs, CommitBuilding(j) \/ CommitRefused(j) \/ PollRecord(j) \/ PollTimeout(j)
      PROVE  RowsHaveTenant'
  <2>1. tenants' = tenants
    BY <1>6 DEF CommitBuilding, CommitRefused, PollRecord, PollTimeout
  <2>2. (\E r : CommitOK(j, r) \/ CommitFails(j, r)) \/ UNCHANGED row
    BY <1>6 DEF CommitBuilding, CommitRefused, PollRecord, PollTimeout
  <2> QED BY <1>3, <1>4, <2>1, <2>2
<1>7. ASSUME NEW j \in Jobs,
             \/ CreateBuildJob(j) \/ StartBuild(j) \/ Respond(j) \/ PollStatus(j)
             \/ PollDispatch(j) \/ KpackResolve(j) \/ KpackRebuild(j)
      PROVE  UNCHANGED <<tenants, row>>
  BY <1>7 DEF CreateBuildJob, StartBuild, Respond, PollStatus, PollDispatch, KpackResolve,
              KpackRebuild, dbVars
<1>8. Crash \/ UNCHANGED vars => UNCHANGED <<tenants, row>>
  BY DEF Crash, vars, dbVars
<1> QED BY <1>2, <1>4, <1>5, <1>6, <1>7, <1>8 DEF Next, TaskStep

\* Objects are only added, and the Image is the last to be created.
LEMMA GuardedStep == ASSUME IInv, [Next]_vars PROVE GuardedBuilds'
<1> USE DEF GuardedBuilds
<1>1. TypeOK /\ GuardedBuilds
  BY DEF IInv
<1>2. ASSUME NEW j \in Jobs, StartBuild(j) PROVE GuardedBuilds'
  <2>1. /\ objs' \in [Tenants -> SUBSET NsObjects]
        /\ \A t \in Tenants : objs[t] \subseteq objs'[t]
        /\ \A k \in Jobs : kpack'[k] = kpack[k] \/ (k = j /\ kpack'[k] = "unknown")
        /\ kpack' # kpack => objs'[TenantOf[j]] = NsObjects
    BY <1>1, <1>2, StartBuildEffect
  <2>2. SUFFICES ASSUME NEW k \in Jobs, kpack'[k] # "absent"
                 PROVE  objs'[TenantOf[k]] = NsObjects
    OBVIOUS
  <2>3. TenantOf[k] \in Tenants
    BY TenantOfAssumption
  <2>4. CASE kpack'[k] = kpack[k]
    BY <1>1, <2>1, <2>2, <2>3, <2>4
  <2>5. CASE kpack'[k] # kpack[k]
    BY <2>1, <2>5
  <2> QED BY <2>4, <2>5
<1>3. ASSUME NEW j \in Jobs, KpackResolve(j) \/ KpackRebuild(j) PROVE GuardedBuilds'
  BY <1>1, <1>3 DEF TypeOK, KpackResolve, KpackRebuild
<1>4. CASE UNCHANGED <<kpack, objs>>
  BY <1>1, <1>4
<1>5. ASSUME NEW j \in Jobs,
             \/ CreateBuildJob(j) \/ InsertBuildJob(j) \/ CommitBuilding(j) \/ CommitRefused(j)
             \/ Respond(j) \/ PollStatus(j) \/ PollRecord(j) \/ PollDispatch(j) \/ PollTimeout(j)
      PROVE  UNCHANGED <<kpack, objs>>
  BY <1>5 DEF CreateBuildJob, InsertBuildJob, CommitBuilding, CommitRefused, Respond,
              PollStatus, PollRecord, PollDispatch, PollTimeout, clusterVars
<1>6. ASSUME NEW t \in Tenants, DeleteTenant(t) PROVE UNCHANGED <<kpack, objs>>
  BY <1>6 DEF DeleteTenant, clusterVars
<1>7. Crash \/ UNCHANGED vars => UNCHANGED <<kpack, objs>>
  BY DEF Crash, vars, clusterVars
<1> QED BY <1>2, <1>3, <1>4, <1>5, <1>6, <1>7 DEF Next, TaskStep

\* The invariant is inductive.
LEMMA IInvStep == ASSUME IInv, [Next]_vars PROVE IInv'
<1>1. TypeOK' /\ RowsHaveTenant' /\ GuardedBuilds'
  BY TypeStep, RowsStep, GuardedStep
<1>2. ASSUME NEW k \in Jobs PROVE JobInv(k)'
  <2>1. JobInv(k)
    BY DEF IInv
  <2>2. ASSUME NEW j \in Jobs, JobInv(j)' /\ OthersSame(j) PROVE JobInv(k)'
    BY <2>1, <2>2, Frame DEF OthersSame
  <2>3. CASE UNCHANGED vars
    BY <2>1, <2>3, Frame DEF vars, SameJob
  <2> QED BY <2>2, <2>3, RequestStep, PollerStep, KpackStep, GlobalStep DEF Next, TaskStep
<1> QED BY <1>1, <1>2 DEF IInv

\* Every reachable state satisfies the inductive invariant, for every number of
\* tenants, builds and polls and every kind of fault.
THEOREM Invariance == Spec => []IInv
BY InitIInv, IInvStep, PTL DEF Spec

-----------------------------------------------------------------------------
(* The safety properties of BuildJobs.                                      *)

\* Every variable keeps its type.
THEOREM TypeCorrect == Spec => []TypeOK
<1>1. IInv => TypeOK
  BY DEF IInv
<1> QED BY Invariance, <1>1, PTL

\* No row outlives its tenant, in whatever order deletions and awaits come.
THEOREM RowsHaveTenantAlways == Spec => []RowsHaveTenant
<1>1. IInv => RowsHaveTenant
  BY DEF IInv
<1> QED BY Invariance, <1>1, PTL

\* A kpack Image exists only behind every guardrail of its namespace.
THEOREM BuildsAlwaysGuarded == Spec => []GuardedBuilds
<1>1. IInv => GuardedBuilds
  BY DEF IInv
<1> QED BY Invariance, <1>1, PTL

\* A final row says why: an image that was pushed, or an error.
THEOREM RowsAlwaysExplained == Spec => []RowExplainsItself
<1>1. IInv => RowExplainsItself
  BY DEF IInv, JobInv, RowExplainsItself
<1> QED BY Invariance, <1>1, PTL

\* The event that is sent is the result in the row.
THEOREM EventsAlwaysMatch == Spec => []EventMatchesRow
<1>1. IInv => EventMatchesRow
  BY DEF IInv, JobInv, EventMatchesRow
<1> QED BY Invariance, <1>1, PTL

\* A pending row has a live coroutine, unless that coroutine was ended by an
\* error or a restart.
THEOREM PendingAlwaysOwned == Spec => []PendingHasOwner
<1>1. ASSUME IInv PROVE PendingHasOwner
  <2>1. SUFFICES ASSUME NEW j \in Jobs
                 PROVE  /\ ~(req[j] \in ReqLive /\ poll[j] \in PollLive)
                        /\ row[j].status = "queued" =>
                              req[j] \in {"inserted", "started", "refused", "error", "lost"}
                        /\ row[j].status = "building" =>
                              \/ req[j] \in {"building", "error", "lost"}
                              \/ poll[j] \in (PollLive \ {"recorded"}) \cup {"dead", "lost"}
    BY DEF PendingHasOwner
  <2>2. RequestStage(j) /\ PollerStage(j) /\ req[j] \in ReqPCs /\ poll[j] \in PollPCs
    BY <1>1 DEF IInv, JobInv, TypeOK
  <2>3. ~(req[j] \in ReqLive /\ poll[j] \in PollLive)
    BY <2>2 DEF RequestStage, ReqLive, PollLive
  <2>4. row[j].status = "queued" =>
            req[j] \in {"inserted", "started", "refused", "error", "lost"}
    BY <2>2 DEF RequestStage, PollerStage, ReqPCs, ReqLive, Pending, NoRow
  <2>5. row[j].status = "building" =>
            \/ req[j] \in {"building", "error", "lost"}
            \/ poll[j] \in (PollLive \ {"recorded"}) \cup {"dead", "lost"}
    BY <2>2 DEF RequestStage, PollerStage, ReqPCs, ReqLive, PollPCs, PollLive, Pending, NoRow
  <2> QED BY <2>3, <2>4, <2>5
<1> QED BY Invariance, <1>1, PTL

\* The steps that write a row write one that is not final.
LEMMA FrozenStep ==
  ASSUME IInv, [Next]_vars, NEW k \in Jobs, row[k].status \in Terminal
  PROVE  row'[k] \in {row[k], NoRow}
<1> USE DEF Terminal
<1>1. TypeOK /\ RequestStage(k) /\ PollerStage(k) /\ row[k] # NoRow
  BY AbsentRow DEF IInv, JobInv
<1>2. ASSUME NEW j \in Jobs, InsertBuildJob(j) PROVE row'[k] = row[k]
  BY <1>1, <1>2 DEF TypeOK, InsertBuildJob, RequestStage
<1>3. ASSUME NEW j \in Jobs, j # k, NEW r, CommitOK(j, r) \/ CommitFails(j, r)
      PROVE  row'[k] = row[k]
  BY <1>1, <1>3 DEF TypeOK, CommitOK, CommitFails
<1>4. ASSUME NEW j \in Jobs, CommitBuilding(j) \/ CommitRefused(j) \/ PollRecord(j) \/ PollTimeout(j)
      PROVE  row'[k] = row[k]
  <2>1. j # k
    BY <1>1, <1>4 DEF CommitBuilding, CommitRefused, PollRecord, PollTimeout,
                      RequestStage, PollerStage
  <2>2. (\E r : CommitOK(j, r) \/ CommitFails(j, r)) \/ UNCHANGED row
    BY <1>4 DEF CommitBuilding, CommitRefused, PollRecord, PollTimeout
  <2> QED BY <1>3, <2>1, <2>2
<1>5. ASSUME NEW j \in Jobs,
             \/ CreateBuildJob(j) \/ StartBuild(j) \/ Respond(j) \/ PollStatus(j)
             \/ PollDispatch(j) \/ KpackResolve(j) \/ KpackRebuild(j)
      PROVE  row' = row
  BY <1>5 DEF CreateBuildJob, StartBuild, Respond, PollStatus, PollDispatch, KpackResolve,
              KpackRebuild, dbVars
<1>6. ASSUME NEW t \in Tenants, DeleteTenant(t) PROVE row'[k] \in {row[k], NoRow}
  BY <1>1, <1>6 DEF DeleteTenant
<1>7. Crash \/ UNCHANGED vars => row' = row
  BY DEF Crash, vars, dbVars
<1> QED BY <1>2, <1>4, <1>5, <1>6, <1>7 DEF Next, TaskStep

\* A result is final: late answers, timeouts and error branches never rewrite a
\* row that says succeeded or failed.
THEOREM ResultsAreFrozen == Spec => TerminalFrozen
<1>1. ASSUME IInv, [Next]_vars
      PROVE  [\A j \in Jobs : row[j].status \in Terminal => row'[j] \in {row[j], NoRow}]_vars
  BY <1>1, FrozenStep
<1> QED BY Invariance, <1>1, PTL DEF Spec, TerminalFrozen

-----------------------------------------------------------------------------
(* Refinement of JobLifecycle.                                              *)

PhaseOf(j) == IF row[j] # NoRow THEN row[j].status
              ELSE IF req[j] \in {"idle", "loaded"} THEN "absent" ELSE "gone"

\* The phases of all jobs, from the phase of each.
LEMMA PhaseIsPhaseOf == Phase = [j \in Jobs |-> PhaseOf(j)]
BY DEF Phase, PhaseOf

\* A step that concerns one job and moves its phase in an allowed way is a step
\* of the abstract specification.
LEMMA OneJobMoves ==
  ASSUME NEW j \in Jobs, OthersSame(j),
         \/ PhaseOf(j)' \in {PhaseOf(j), "gone"}
         \/ <<PhaseOf(j), PhaseOf(j)'>> \in Lifecycle!Moves
  PROVE  Lifecycle!LNext
<1>1. \A k \in Jobs \ {j} : PhaseOf(k)' = PhaseOf(k)
  BY DEF OthersSame, SameJob, PhaseOf
<1>2. Phase' = [k \in Jobs |-> PhaseOf(k)']
  BY DEF Phase, PhaseOf
<1> HIDE DEF PhaseOf
<1>3. CASE PhaseOf(j)' = "gone"
  <2>1. Lifecycle!Remove({j})
    BY <1>1, <1>2, <1>3, PhaseIsPhaseOf DEF Lifecycle!Remove
  <2> QED BY <2>1 DEF Lifecycle!LNext
<1>4. CASE PhaseOf(j)' = PhaseOf(j)
  <2>1. Lifecycle!Remove({})
    BY <1>1, <1>2, <1>4, PhaseIsPhaseOf DEF Lifecycle!Remove
  <2> QED BY <2>1 DEF Lifecycle!LNext
<1>5. CASE <<PhaseOf(j), PhaseOf(j)'>> \in Lifecycle!Moves
  <2>1. Phase' = [Phase EXCEPT ![j] = PhaseOf(j)']
    BY <1>1, <1>2, PhaseIsPhaseOf
  <2>2. Phase[j] = PhaseOf(j)
    BY PhaseIsPhaseOf
  <2>3. PICK m \in Lifecycle!Moves : m[1] = PhaseOf(j) /\ m[2] = PhaseOf(j)'
    BY <1>5
  <2>4. Lifecycle!Advance(j)
    BY <2>1, <2>2, <2>3 DEF Lifecycle!Advance
  <2> QED BY <2>4 DEF Lifecycle!LNext
<1> QED BY <1>3, <1>4, <1>5

\* The steps of one job.
LEMMA JobStepRefines ==
  ASSUME IInv, NEW j \in Jobs,
         CreateBuildJob(j) \/ TaskStep(j) \/ KpackResolve(j) \/ KpackRebuild(j)
  PROVE  Lifecycle!LNext
<1>1. TypeOK /\ RequestStage(j) /\ PollerStage(j)
  BY DEF IInv, JobInv
<1>2. OthersSame(j)
  BY RequestStep, PollerStep, KpackStep DEF TaskStep
<1>3. CASE CreateBuildJob(j)
  <2>1. row'[j] = row[j] /\ row[j] = NoRow /\ req[j] = "idle" /\ req'[j] \in {"loaded", "error"}
    BY <1>1, <1>3 DEF TypeOK, CreateBuildJob, ReqGoes, RequestStage, dbVars
  <2>2. PhaseOf(j)' \in {PhaseOf(j), "gone"}
    BY <2>1 DEF PhaseOf
  <2> QED BY <1>2, <2>2, OneJobMoves
<1>4. CASE InsertBuildJob(j)
  <2>1. row[j] = NoRow /\ req[j] = "loaded" /\ req'[j] \in {"inserted", "error"}
    BY <1>1, <1>4 DEF TypeOK, InsertBuildJob, ReqGoes, RequestStage
  <2>2. row'[j] = Queued \/ (row'[j] = NoRow /\ req'[j] = "error")
    BY <1>1, <1>4, <2>1 DEF TypeOK, InsertBuildJob, ReqGoes
  <2>3. Queued # NoRow /\ Queued.status = "queued"
    BY DEF Queued, NoRow
  <2>4. PhaseOf(j)' = "gone" \/ (PhaseOf(j) = "absent" /\ PhaseOf(j)' = "queued")
    BY <2>1, <2>2, <2>3 DEF PhaseOf
  <2> QED BY <1>2, <2>4, OneJobMoves DEF Lifecycle!Moves
<1>5. CASE \/ StartBuild(j) \/ Respond(j) \/ PollStatus(j) \/ PollDispatch(j)
           \/ KpackResolve(j) \/ KpackRebuild(j)
  <2>1. row'[j] = row[j]
    BY <1>5 DEF StartBuild, Respond, PollStatus, PollDispatch, KpackResolve, KpackRebuild, dbVars
  <2>2. req'[j] \in {"idle", "loaded"} <=> req[j] \in {"idle", "loaded"}
    BY <1>1, <1>5 DEF TypeOK, StartBuild, Respond, PollStatus, PollDispatch, KpackResolve,
                      KpackRebuild, ReqGoes, taskVars
  <2>3. PhaseOf(j)' = PhaseOf(j)
    BY <2>1, <2>2 DEF PhaseOf
  <2> QED BY <1>2, <2>3, OneJobMoves
<1>6. ASSUME NEW r \in Rows, CommitOK(j, r) \/ CommitFails(j, r) \/ UNCHANGED row,
             row[j] # NoRow => <<row[j].status, r.status>> \in Lifecycle!Moves,
             req[j] \notin {"idle", "loaded"}, req'[j] \notin {"idle", "loaded"}
      PROVE  Lifecycle!LNext
  <2>1. row'[j] = row[j] \/ (row[j] # NoRow /\ row'[j] = r)
    BY <1>1, <1>6 DEF TypeOK, CommitOK, CommitFails
  <2>2. r # NoRow
    BY <1>6, NoRowIsNoRow
  <2>3. \/ PhaseOf(j)' \in {PhaseOf(j), "gone"}
        \/ <<PhaseOf(j), PhaseOf(j)'>> \in Lifecycle!Moves
    BY <1>6, <2>1, <2>2 DEF PhaseOf
  <2> QED BY <1>2, <2>3, OneJobMoves
<1>7. CASE UNCHANGED row /\ (req'[j] \in {"idle", "loaded"} <=> req[j] \in {"idle", "loaded"})
  <2>1. PhaseOf(j)' = PhaseOf(j)
    BY <1>7 DEF PhaseOf
  <2> QED BY <1>2, <2>1, OneJobMoves
<1>8. CASE CommitBuilding(j) \/ CommitRefused(j)
  <2>1. /\ req[j] \in {"started", "refused"} /\ req'[j] \notin {"idle", "loaded"}
        /\ row[j].status \in {"none", "queued"}
    BY <1>1, <1>8 DEF TypeOK, CommitBuilding, CommitRefused, ReqGoes, RequestStage
  <2>2. CASE row[j] = NoRow
    <3>1. UNCHANGED row
      BY <1>8, <2>2 DEF CommitBuilding, CommitRefused, CommitOK, CommitFails
    <3> QED BY <1>7, <2>1, <3>1
  <2>3. CASE row[j] # NoRow
    <3>1. row[j] \in Rows /\ row[j].status = "queued"
      BY <1>1, <2>1, <2>3, AbsentRow DEF TypeOK
    <3>2. Building(j) \in Rows /\ Failed(j, "start") \in Rows
      BY <1>1, <2>3, WrittenRows
    <3>3. Building(j).status = "building" /\ Failed(j, "start").status = "failed"
      BY <3>1 DEF Building, Failed, Rows
    <3>4. \/ CommitOK(j, Building(j)) \/ CommitFails(j, Building(j))
          \/ CommitOK(j, Failed(j, "start")) \/ CommitFails(j, Failed(j, "start"))
      BY <1>8 DEF CommitBuilding, CommitRefused
    <3>5. /\ <<row[j].status, Building(j).status>> \in Lifecycle!Moves
          /\ <<row[j].status, Failed(j, "start").status>> \in Lifecycle!Moves
      BY <3>1, <3>3 DEF Lifecycle!Moves
    <3> QED BY <1>6, <2>1, <3>2, <3>4, <3>5
  <2> QED BY <2>2, <2>3
<1>9. CASE PollRecord(j) \/ PollTimeout(j)
  <2>1. /\ req[j] = "done" /\ req'[j] = "done" /\ row[j].status \in {"none", "building"}
    BY <1>1, <1>9 DEF TypeOK, PollRecord, PollTimeout, RequestStage, PollerStage
  <2>2. CASE row[j] = NoRow
    <3>1. UNCHANGED row
      BY <1>9, <2>2 DEF PollRecord, PollTimeout, CommitOK, CommitFails
    <3> QED BY <1>7, <2>1, <3>1
  <2>3. CASE row[j] # NoRow
    <3>1. row[j] \in Rows /\ row[j].status = "building"
      BY <1>1, <2>1, <2>3, AbsentRow DEF TypeOK
    <3>2. Resolved(j) \in Rows /\ Failed(j, "timeout") \in Rows
      BY <1>1, <2>3, WrittenRows
    <3>3. Failed(j, "timeout").status = "failed"
      BY <3>1 DEF Failed, Rows
    <3>4. Resolved(j).status \in {"succeeded", "failed"}
      BY <3>1 DEF Resolved, Failed, Rows
    <3>5. /\ <<row[j].status, Resolved(j).status>> \in Lifecycle!Moves
          /\ <<row[j].status, Failed(j, "timeout").status>> \in Lifecycle!Moves
      BY <3>1, <3>3, <3>4 DEF Lifecycle!Moves
    <3>6. \/ CommitOK(j, Resolved(j)) \/ CommitFails(j, Resolved(j))
          \/ CommitOK(j, Failed(j, "timeout")) \/ CommitFails(j, Failed(j, "timeout"))
          \/ UNCHANGED row
      BY <1>9 DEF PollRecord, PollTimeout
    <3> QED BY <1>6, <1>7, <2>1, <3>2, <3>5, <3>6
  <2> QED BY <2>2, <2>3
<1> QED BY <1>3, <1>4, <1>5, <1>8, <1>9 DEF TaskStep

\* Deleting a tenant removes the rows it has; a restart ends the requests that
\* had not inserted theirs.
LEMMA GlobalStepRefines ==
  ASSUME IInv, Crash \/ \E t \in Tenants : DeleteTenant(t)
  PROVE  Lifecycle!LNext
<1>1. TypeOK /\ \A k \in Jobs : RequestStage(k)
  BY DEF IInv, JobInv
<1>2. Phase' = [k \in Jobs |-> PhaseOf(k)']
  BY DEF Phase, PhaseOf
<1>3. ASSUME NEW S \in SUBSET Jobs,
             \A k \in Jobs : PhaseOf(k)' = IF k \in S THEN "gone" ELSE PhaseOf(k)
      PROVE  Lifecycle!LNext
  <2> HIDE DEF PhaseOf
  <2>1. Lifecycle!Remove(S)
    BY <1>2, <1>3, PhaseIsPhaseOf DEF Lifecycle!Remove
  <2> QED BY <2>1 DEF Lifecycle!LNext
<1>4. CASE Crash
  <2> DEFINE S == {k \in Jobs : req[k] = "loaded"}
  <2>1. ASSUME NEW k \in Jobs PROVE PhaseOf(k)' = IF k \in S THEN "gone" ELSE PhaseOf(k)
    <3>1. /\ row'[k] = row[k]
          /\ req'[k] = IF req[k] \in ReqLive THEN "lost" ELSE req[k]
      BY <1>4 DEF Crash, dbVars
    <3>2. req[k] = "loaded" => row[k] = NoRow
      BY <1>1 DEF RequestStage
    <3> QED BY <3>1, <3>2 DEF PhaseOf, ReqLive
  <2> QED BY <1>3, <2>1
<1>5. ASSUME NEW t \in Tenants, DeleteTenant(t) PROVE Lifecycle!LNext
  <2> DEFINE S == {k \in Jobs : TenantOf[k] = t /\ req[k] \notin {"idle", "loaded"}}
  <2>1. ASSUME NEW k \in Jobs PROVE PhaseOf(k)' = IF k \in S THEN "gone" ELSE PhaseOf(k)
    <3>1. /\ row'[k] = IF TenantOf[k] = t THEN NoRow ELSE row[k]
          /\ req'[k] = req[k]
      BY <1>5 DEF DeleteTenant, taskVars
    <3>2. req[k] \in {"idle", "loaded"} => row[k] = NoRow
      BY <1>1 DEF RequestStage
    <3> QED BY <3>1, <3>2 DEF PhaseOf
  <2> QED BY <1>3, <2>1
<1> QED BY <1>4, <1>5

\* The build service implements JobLifecycle: every step is a promised move of
\* one row, the removal of a set of rows, or invisible in the database.
THEOREM BuildsRefineLifecycle == Spec => ImplementsLifecycle
<1>1. Init => Lifecycle!LInit
  BY DEF Init, Phase, Lifecycle!LInit
<1>2. ASSUME IInv, [Next]_vars PROVE [Lifecycle!LNext]_Phase
  <2>1. CASE UNCHANGED vars
    BY <2>1 DEF vars, Phase
  <2> QED BY <1>2, <2>1, JobStepRefines, GlobalStepRefines DEF Next
<1> QED BY Invariance, <1>1, <1>2, PTL DEF Spec, ImplementsLifecycle, Lifecycle!LSpec

-----------------------------------------------------------------------------
(* What is left to do for a build: the safety half of BuildResolves.        *)

\* Steps ahead of a request, up to the poller's first sleep and without the
\* polls, and ahead of a poller that has left its loop.
RequestWork == [idle |-> 7, loaded |-> 6, inserted |-> 5, started |-> 4, refused |-> 4,
                building |-> 3]
PollerWork == [ready |-> 2, notready |-> 2, timedout |-> 1, recorded |-> 1]

\* How many steps of its coroutines a job has ahead of it at most, from where
\* its request and its poller are and how often the poller has slept.
WorkFrom(r, p, slept) ==
    IF r \in DOMAIN RequestWork THEN MaxPolls + RequestWork[r]
    ELSE IF p = "sleeping" THEN MaxPolls - slept + 2
    ELSE IF p \in DOMAIN PollerWork THEN PollerWork[p]
    ELSE 0

Work(j) == WorkFrom(req[j], poll[j], polls[j])

\* The work ahead is bounded by the timeout, and a job with none ahead has a
\* result, or no row, or a coroutine that was ended: no row stays pending with
\* nobody left to finish it.
NothingLeftBehind ==
    \A j \in Jobs :
        /\ Work(j) \in 0..(MaxPolls + 7)
        /\ Work(j) = 0 => row[j].status \notin Pending \/ Broken(j)

\* Every step of a job's own coroutines, whatever it reads from kpack and
\* whether its commits succeed or fail, uses up work of that job, and no step
\* of anybody gives work back.
WorkRunsOut ==
    [][\A j \in Jobs :
          /\ Work(j)' <= Work(j)
          /\ CreateBuildJob(j) \/ TaskStep(j) => Work(j)' < Work(j)]_vars

\* The same by place in the code.
LEMMA WorkAt ==
  ASSUME NEW r \in ReqPCs, NEW p \in PollPCs, NEW n \in 0..MaxPolls
  PROVE  /\ r = "idle" => WorkFrom(r, p, n) = MaxPolls + 7
         /\ r = "loaded" => WorkFrom(r, p, n) = MaxPolls + 6
         /\ r = "inserted" => WorkFrom(r, p, n) = MaxPolls + 5
         /\ r \in {"started", "refused"} => WorkFrom(r, p, n) = MaxPolls + 4
         /\ r = "building" => WorkFrom(r, p, n) = MaxPolls + 3
         /\ r \in {"done", "error", "lost"} =>
               /\ p = "sleeping" => WorkFrom(r, p, n) = MaxPolls - n + 2
               /\ p \in {"ready", "notready"} => WorkFrom(r, p, n) = 2
               /\ p \in {"timedout", "recorded"} => WorkFrom(r, p, n) = 1
               /\ p \in {"none", "done", "dead", "lost"} => WorkFrom(r, p, n) = 0
<1>1. /\ DOMAIN RequestWork = {"idle", "loaded", "inserted", "started", "refused", "building"}
      /\ RequestWork["idle"] = 7 /\ RequestWork["loaded"] = 6 /\ RequestWork["inserted"] = 5
      /\ RequestWork["started"] = 4 /\ RequestWork["refused"] = 4
      /\ RequestWork["building"] = 3
  BY DEF RequestWork
<1>2. /\ DOMAIN PollerWork = {"ready", "notready", "timedout", "recorded"}
      /\ PollerWork["ready"] = 2 /\ PollerWork["notready"] = 2
      /\ PollerWork["timedout"] = 1 /\ PollerWork["recorded"] = 1
  BY DEF PollerWork
<1> QED BY <1>1, <1>2 DEF WorkFrom

\* Work is counted in natural numbers and starts at the timeout plus 7.
LEMMA WorkBounds ==
  ASSUME NEW r \in ReqPCs, NEW p \in PollPCs, NEW n \in 0..MaxPolls
  PROVE  WorkFrom(r, p, n) \in 0..(MaxPolls + 7)
<1>1. MaxPolls \in Nat
  BY PollsAssumption
<1> QED BY <1>1, WorkAt DEF ReqPCs, ReqLive, PollPCs, PollLive

\* The invariant leaves no pending row without work or an ended coroutine.
LEMMA NoneBehind == ASSUME IInv PROVE NothingLeftBehind
<1> SUFFICES ASSUME NEW j \in Jobs
             PROVE  /\ Work(j) \in 0..(MaxPolls + 7)
                    /\ Work(j) = 0 => row[j].status \notin Pending \/ Broken(j)
  BY DEF NothingLeftBehind
<1>1. /\ RequestStage(j) /\ PollerStage(j) /\ MaxPolls \in Nat
      /\ req[j] \in ReqPCs /\ poll[j] \in PollPCs /\ polls[j] \in 0..MaxPolls
  BY PollsAssumption DEF IInv, JobInv, TypeOK
<1>2. Work(j) \in 0..(MaxPolls + 7)
  BY <1>1, WorkBounds DEF Work
<1>3. ASSUME Work(j) = 0
      PROVE  req[j] \in {"done", "error", "lost"} /\ poll[j] \in {"none", "done", "dead", "lost"}
  BY <1>1, <1>3, WorkAt DEF Work, ReqPCs, ReqLive, PollPCs, PollLive
<1>4. poll[j] \in {"none", "done"} /\ req[j] = "done" => row[j].status \notin Pending
  BY <1>1 DEF RequestStage, PollerStage
<1> QED BY <1>2, <1>3, <1>4 DEF Broken

\* A step of a job's coroutines uses up work.
LEMMA OwnStepWorks ==
  ASSUME IInv, IInv', NEW j \in Jobs, CreateBuildJob(j) \/ TaskStep(j)
  PROVE  Work(j)' < Work(j)
<1>1. /\ TypeOK /\ RequestStage(j) /\ PollerStage(j) /\ MaxPolls \in Nat
      /\ req[j] \in ReqPCs /\ poll[j] \in PollPCs /\ polls[j] \in 0..MaxPolls
  BY PollsAssumption DEF IInv, JobInv, TypeOK
<1>2. /\ req'[j] \in ReqPCs /\ poll'[j] \in PollPCs /\ polls'[j] \in 0..MaxPolls
      /\ Work(j)' = WorkFrom(req'[j], poll'[j], polls'[j])
      /\ Work(j) = WorkFrom(req[j], poll[j], polls[j])
  BY DEF IInv, TypeOK, Work
<1>3. req[j] # "done" => poll[j] = "none" /\ polls[j] = 0
  BY <1>1 DEF RequestStage, PollerStage
<1>4. poll[j] # "none" => req[j] = "done"
  BY <1>1 DEF RequestStage
<1>5. CASE CreateBuildJob(j)
  <2>1. req[j] = "idle" /\ poll' = poll /\ req'[j] \in {"loaded", "error"}
    BY <1>1, <1>5 DEF CreateBuildJob, ReqGoes, TypeOK
  <2> QED BY <1>1, <1>2, <1>3, <2>1, WorkAt
<1>6. CASE InsertBuildJob(j)
  <2>1. req[j] = "loaded" /\ poll' = poll /\ req'[j] \in {"inserted", "error"}
    BY <1>1, <1>6 DEF InsertBuildJob, ReqGoes, TypeOK
  <2> QED BY <1>1, <1>2, <1>3, <2>1, WorkAt
<1>7. CASE StartBuild(j)
  <2>1. req[j] = "inserted" /\ poll' = poll /\ req'[j] \in {"started", "refused", "error"}
    BY <1>1, <1>7 DEF StartBuild, ReqGoes, TypeOK
  <2> QED BY <1>1, <1>2, <1>3, <2>1, WorkAt
<1>8. CASE CommitBuilding(j) \/ CommitRefused(j)
  <2>1. /\ req[j] \in {"started", "refused"} /\ poll' = poll
        /\ req'[j] \in {"building", "done", "error"}
    BY <1>1, <1>8 DEF CommitBuilding, CommitRefused, ReqGoes, TypeOK
  <2> QED BY <1>1, <1>2, <1>3, <2>1, WorkAt
<1>9. CASE Respond(j)
  <2>1. /\ req[j] = "building" /\ polls' = polls
        /\ \/ req'[j] = "done" /\ poll'[j] = "sleeping"
           \/ req'[j] = "error" /\ poll' = poll
    BY <1>1, <1>9 DEF Respond, ReqGoes, TypeOK
  <2> QED BY <1>1, <1>2, <1>3, <2>1, WorkAt
<1>10. CASE PollStatus(j)
  <2>1. /\ poll[j] = "sleeping" /\ req' = req /\ polls'[j] = polls[j] + 1
        /\ \/ poll'[j] \in {"ready", "notready", "timedout", "dead"}
           \/ poll'[j] = "sleeping" /\ polls[j] + 1 < MaxPolls
    <3>1. BuildStatus(j) \in {"unknown", "ready", "notready"}
      BY <1>1 DEF BuildStatus, TypeOK
    <3>2. AfterUnknown(j) = "timedout" \/ (AfterUnknown(j) = "sleeping" /\ polls[j] + 1 < MaxPolls)
      BY DEF AfterUnknown
    <3> QED BY <1>1, <1>10, <3>1, <3>2 DEF PollStatus, PollGoes, TypeOK
  <2>2. polls[j] < MaxPolls
    BY <1>1, <2>1 DEF PollerStage
  <2> QED BY <1>1, <1>2, <1>4, <2>1, <2>2, WorkAt
<1>11. CASE PollRecord(j)
  <2>1. /\ poll[j] \in {"ready", "notready"} /\ req' = req
        /\ poll'[j] \in {"done", "recorded", "dead"}
    BY <1>1, <1>11 DEF PollRecord, PollGoes, TypeOK
  <2> QED BY <1>1, <1>2, <1>4, <2>1, WorkAt
<1>12. CASE PollDispatch(j) \/ PollTimeout(j)
  <2>1. /\ poll[j] \in {"timedout", "recorded"} /\ req' = req
        /\ poll'[j] \in {"done", "dead"}
    BY <1>1, <1>12 DEF PollDispatch, PollTimeout, PollGoes, TypeOK
  <2> QED BY <1>1, <1>2, <1>4, <2>1, WorkAt
<1> QED BY <1>5, <1>6, <1>7, <1>8, <1>9, <1>10, <1>11, <1>12 DEF TaskStep

\* Whoever moves, a job that does not move itself keeps its work or, when the
\* process is restarted, is left with none.
LEMMA OthersStepWorks ==
  ASSUME IInv, IInv', [Next]_vars, NEW j \in Jobs, ~CreateBuildJob(j), ~TaskStep(j)
  PROVE  Work(j)' <= Work(j)
<1>1. TypeOK /\ Work(j) \in Nat
  BY NoneBehind, PollsAssumption DEF IInv, NothingLeftBehind
<1>2. ASSUME req'[j] = req[j], poll'[j] = poll[j], polls'[j] = polls[j]
      PROVE  Work(j)' <= Work(j)
  <2>1. Work(j)' = Work(j)
    BY <1>2 DEF Work
  <2> QED BY <1>1, <2>1
<1>3. CASE Crash
  <2>1. /\ req'[j] = IF req[j] \in ReqLive THEN "lost" ELSE req[j]
        /\ poll'[j] = IF poll[j] \in PollLive THEN "lost" ELSE poll[j]
        /\ polls'[j] = polls[j]
    BY <1>3 DEF Crash
  <2>2. CASE req[j] \notin ReqLive /\ poll[j] \notin PollLive
    BY <1>2, <2>1, <2>2
  <2>3. CASE req[j] \in ReqLive \/ poll[j] \in PollLive
    <3>1. RequestStage(j) /\ req[j] \in ReqPCs /\ poll[j] \in PollPCs
      BY DEF IInv, JobInv, TypeOK
    <3>2. /\ req'[j] \in {"done", "error", "lost"}
          /\ poll'[j] \in {"none", "done", "dead", "lost"}
      BY <2>1, <2>3, <3>1 DEF RequestStage, ReqPCs, ReqLive, PollPCs, PollLive
    <3>3. req'[j] \in ReqPCs /\ poll'[j] \in PollPCs /\ polls'[j] \in 0..MaxPolls
      BY DEF IInv, TypeOK
    <3>4. Work(j)' = 0
      BY <3>2, <3>3, WorkAt DEF Work
    <3> QED BY <1>1, <3>4
  <2> QED BY <2>2, <2>3
<1>4. ASSUME NEW k \in Jobs, k # j, CreateBuildJob(k) \/ TaskStep(k)
      PROVE  req'[j] = req[j] /\ poll'[j] = poll[j] /\ polls'[j] = polls[j]
  <2>1. /\ req' = req \/ \E pc \in ReqPCs : ReqGoes(k, pc)
        /\ poll' = poll \/ \E pc : PollGoes(k, pc)
        /\ polls' = polls \/ polls' = [polls EXCEPT ![k] = @ + 1]
    BY <1>4 DEF CreateBuildJob, TaskStep, InsertBuildJob, StartBuild, CommitBuilding,
       CommitRefused, Respond, PollStatus, PollRecord, PollDispatch, PollTimeout, ReqPCs,
       ReqLive, ReqGoes, PollGoes
  <2> QED BY <1>1, <1>4, <2>1 DEF ReqGoes, PollGoes, TypeOK
<1>5. ASSUME \/ UNCHANGED vars
             \/ \E k \in Jobs : KpackResolve(k) \/ KpackRebuild(k)
             \/ \E t \in Tenants : DeleteTenant(t)
      PROVE  req'[j] = req[j] /\ poll'[j] = poll[j] /\ polls'[j] = polls[j]
  BY <1>5 DEF vars, KpackResolve, KpackRebuild, DeleteTenant, taskVars
<1> QED BY <1>2, <1>3, <1>4, <1>5 DEF Next

\* No build is left pending with no coroutine at work on it: once its work is
\* used up it has a result, or lost its row, or a coroutine of it was ended.
THEOREM NothingIsLeftBehind == Spec => []NothingLeftBehind
<1> QED BY Invariance, NoneBehind, PTL

\* The steps of create_build_job and poll_build_until_done for one build are at
\* most MaxPolls + 7, whatever kpack, the database and other requests do: each
\* uses up work, and nothing gives any back.
THEOREM WorkAlwaysRunsOut == Spec => WorkRunsOut
<1>1. ASSUME IInv, IInv', [Next]_vars
      PROVE  \A j \in Jobs : /\ Work(j)' <= Work(j)
                             /\ CreateBuildJob(j) \/ TaskStep(j) => Work(j)' < Work(j)
  <2> TAKE j \in Jobs
  <2>1. Work(j) \in Nat
    BY <1>1, NoneBehind, PollsAssumption DEF NothingLeftBehind
  <2>2. Work(j)' \in Nat
    BY <1>1, WorkBounds, PollsAssumption DEF IInv, TypeOK, Work
  <2> QED BY <1>1, <2>1, <2>2, OwnStepWorks, OthersStepWorks
<1> QED BY Invariance, <1>1, PTL DEF Spec, WorkRunsOut

-----------------------------------------------------------------------------
(* Results are announced: the safety half of RecordedIsAnnounced.           *)

\* The poller that reached a result of kpack has yet to announce it, or was
\* ended by an exception or a restart.
InHand(j) == poll[j] \in {"recorded", "dead", "lost"}

\* A result that kpack gave was announced as what it is, or is in hand.
Told(j) ==
    /\ row[j].status = "succeeded" => InHand(j) \/ event[j] = "build.succeeded"
    /\ row[j].status = "failed" /\ row[j].error = "build" =>
          InHand(j) \/ event[j] = "build.failed"

\* No result of kpack is dropped between the commit of the row and the call of
\* dispatch_tenant_webhooks: a task that ends by itself has announced it.
NoResultForgotten == \A j \in Jobs : Told(j)

\* A job whose row and event stay, or whose row goes, is told as it was.
LEMMA ToldFrame ==
  ASSUME NEW j \in Jobs, Told(j), row'[j] \in {row[j], NoRow}, event'[j] = event[j],
         poll'[j] = poll[j] \/ poll'[j] \in {"dead", "lost"}
  PROVE  Told(j)'
BY DEF Told, InHand, NoRow

\* The steps of its own coroutines keep a job told.
LEMMA OwnStepTells ==
  ASSUME IInv, NEW j \in Jobs, Told(j), CreateBuildJob(j) \/ TaskStep(j)
  PROVE  Told(j)'
<1>1. TypeOK /\ RequestStage(j) /\ PollerStage(j) /\ RowShape(j) /\ Explained(j)
  BY DEF IInv, JobInv
<1>2. row[j] \in Rows \cup {NoRow} /\ (row[j] = NoRow <=> row[j].status = "none")
  BY <1>1, AbsentRow DEF TypeOK
<1>3. CASE CreateBuildJob(j) \/ StartBuild(j)
  <2>1. row'[j] = row[j] /\ event'[j] = event[j] /\ poll'[j] = poll[j]
    BY <1>3 DEF CreateBuildJob, StartBuild, dbVars
  <2> QED BY <2>1, ToldFrame
<1>4. CASE InsertBuildJob(j) \/ CommitBuilding(j)
  <2>1. row'[j] \in {row[j], Queued, Building(j)} /\ event'[j] = event[j] /\ poll'[j] = poll[j]
    BY <1>1, <1>4 DEF InsertBuildJob, CommitBuilding, CommitOK, CommitFails, TypeOK
  <2>2. CASE row'[j] = row[j]
    BY <2>1, <2>2, ToldFrame
  <2>3. Queued.status = "queued"
    BY DEF Queued, NoRow
  <2>4. Building(j).status = "building"
    BY <1>2 DEF Building, Rows, NoRow
  <2> QED BY <2>1, <2>2, <2>3, <2>4 DEF Told
<1>5. CASE CommitRefused(j) \/ PollTimeout(j)
  <2>1. /\ event'[j] = event[j] /\ poll[j] \in {"none", "timedout"}
        /\ row[j].status \in {"none", "queued", "building"} \/ (row' = row /\ row[j].status # "building")
        /\ row'[j] \in {row[j], Failed(j, "start"), Failed(j, "timeout")}
    BY <1>1, <1>5 DEF CommitRefused, PollTimeout, CommitOK, CommitFails, TypeOK, RequestStage,
                      PollerStage
  <2>2. \A why \in {"start", "timeout"} :
           Failed(j, why).status = "failed" /\ Failed(j, why).error = why
    BY <1>2 DEF Failed, Rows, NoRow
  <2>3. CASE row'[j] = row[j]
    <3>1. row[j].status \in {"none", "queued", "building"}
      BY <1>1, <1>5, <2>1 DEF CommitRefused, PollTimeout, RequestStage, PollerStage
    <3> QED BY <2>3, <3>1 DEF Told
  <2> QED BY <2>1, <2>2, <2>3 DEF Told
<1>6. CASE Respond(j) \/ PollStatus(j)
  <2>1. row'[j] = row[j] /\ row[j].status \in {"none", "building"}
    BY <1>1, <1>6 DEF Respond, PollStatus, dbVars, RequestStage, PollerStage
  <2> QED BY <2>1 DEF Told
<1>7. CASE PollRecord(j)
  <2>1. \/ row'[j] = row[j] /\ row[j] = NoRow
        \/ poll'[j] \in {"recorded", "dead"}
    BY <1>1, <1>7 DEF PollRecord, PollGoes, TypeOK
  <2> QED BY <2>1 DEF Told, InHand, NoRow
<1>8. CASE PollDispatch(j)
  <2>1. /\ row'[j] = row[j]
        /\ row[j].status \in {"none", IF seen[j] # 0 THEN "succeeded" ELSE "failed"}
    BY <1>1, <1>8 DEF PollDispatch, dbVars, PollerStage
  <2>2. \/ event'[j] = IF seen[j] # 0 THEN "build.succeeded" ELSE "build.failed"
        \/ poll'[j] = "dead"
    BY <1>1, <1>8 DEF PollDispatch, PollGoes, TypeOK
  <2> QED BY <2>1, <2>2 DEF Told, InHand
<1> QED BY <1>3, <1>4, <1>5, <1>6, <1>7, <1>8 DEF TaskStep

\* Every step keeps every job told.
LEMMA ToldStep ==
  ASSUME IInv, NoResultForgotten, [Next]_vars
  PROVE  NoResultForgotten'
<1> SUFFICES ASSUME NEW j \in Jobs PROVE Told(j)'
  BY DEF NoResultForgotten
<1>1. TypeOK /\ Told(j)
  BY DEF IInv, NoResultForgotten
<1>2. CASE CreateBuildJob(j) \/ TaskStep(j)
  BY <1>1, <1>2, OwnStepTells
<1>3. ASSUME NEW k \in Jobs, k # j, CreateBuildJob(k) \/ TaskStep(k)
      PROVE  Told(j)'
  <2>1. OthersSame(k)
    BY <1>3, RequestStep, PollerStep DEF TaskStep
  <2> QED BY <1>1, <1>3, <2>1, ToldFrame DEF OthersSame, SameJob
<1>4. ASSUME NEW k \in Jobs, KpackResolve(k) \/ KpackRebuild(k)
      PROVE  Told(j)'
  BY <1>1, <1>4, ToldFrame DEF KpackResolve, KpackRebuild, dbVars, taskVars
<1>5. CASE Crash \/ \E t \in Tenants : DeleteTenant(t)
  <2>1. /\ row'[j] \in {row[j], NoRow} /\ event'[j] = event[j]
        /\ poll'[j] = poll[j] \/ poll'[j] = "lost"
    BY <1>1, <1>5 DEF Crash, DeleteTenant, dbVars, taskVars, TypeOK
  <2> QED BY <1>1, <2>1, ToldFrame
<1>6. CASE UNCHANGED vars
  BY <1>1, <1>6, ToldFrame DEF vars, dbVars, taskVars
<1> QED BY <1>2, <1>3, <1>4, <1>5, <1>6 DEF Next

\* A success, and a failure that kpack reported, is announced by the task that
\* recorded it, unless an exception or a restart ended that task.  (What the
\* timeout or a refused start writes is announced by nobody.)
THEOREM NoResultEverForgotten == Spec => []NoResultForgotten
<1>1. Init => NoResultForgotten
  BY DEF Init, NoResultForgotten, Told, NoRow
<1> QED BY <1>1, ToldStep, Invariance, PTL DEF Spec
=============================================================================
