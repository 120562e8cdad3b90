---------------------------- MODULE JobLifecycle ----------------------------
(***************************************************************************)
(* What the control plane promises about the row of an asynchronous job, a *)
(* build or a deployment: the comment on the status column of              *)
(* models/build_jobs.py says                                               *)
(*                                                                         *)
(*      queued -> building -> succeeded | failed                           *)
(*                                                                         *)
(* and models/deployments.py says the same with the names pending,         *)
(* deploying and running.  A job may also fail before it starts.  Deleting *)
(* a tenant removes any set of rows at once, and a row that is gone (or    *)
(* was never inserted) does not come back: ids are never reused.           *)
(***************************************************************************)
CONSTANT Jobs

VARIABLE phase

Phases == {"absent", "queued", "building", "succeeded", "failed", "gone"}

\* The only changes of status that a step may make to a row that stays.
Moves == {<<"absent", "queued">>, <<"queued", "building">>, <<"queued", "failed">>,
          <<"building", "succeeded">>, <<"building", "failed">>}

LInit == phase = [j \in Jobs |-> "absent"]

Advance(j) ==
    \E m \in Moves :
        /\ phase[j] = m[1]
        /\ phase' = [phase EXCEPT ![j] = m[2]]

Remove(S) == phase' = [j \in Jobs |-> IF j \in S THEN "gone" ELSE phase[j]]

LNext == \/ \E j \in Jobs : Advance(j)
         \/ \E S \in SUBSET Jobs : Remove(S)

LSpec == LInit /\ [][LNext]_phase
=============================================================================
