------------------------ MODULE JobLifecycle_proofs -------------------------
(***************************************************************************)
(* Theorems about the life of the jobs, for any jobs and nodes. A job is   *)
(* started once, whatever fails. A job that is worked on keeps its nodes:  *)
(* the unlocking of one never reaches a node that another one holds. For   *)
(* the second five faults are left out, under each of which TLC finds      *)
(* HoldsTargets or NoForeignUnlock violated; among those that stay in are  *)
(* requests out of tries and a person who locks and unlocks free nodes.    *)
(* What is left of a job when it is over: its nodes are unlocked, or found *)
(* by find_stale_locks; nodes are marked down while they are locked, and   *)
(* described by their job as long as they are. Each theorem names the      *)
(* faults it leaves out.                                                   *)
(***************************************************************************)
EXTENDS JobLifecycle, FiniteSetTheorems, TLAPS

-----------------------------------------------------------------------------
(* Type correctness.                                                       *)

LEMMA PushTypes ==
  ASSUME PaddlesTypeOK, NEW j \in Jobs, NEW s \in Statuses, NEW p \in Pids,
         NEW t \in SUBSET Nodes, Push(j, s, p, t)
  PROVE  status' \in [Jobs -> Statuses] /\ pid' \in [Jobs -> Pids]
         /\ job_targets' \in [Jobs -> SUBSET Nodes]
BY DEF PaddlesTypeOK, Push, Accepted, jobVars

LEMMA UnlockNodeTypes ==
  ASSUME PaddlesTypeOK, NEW j \in Jobs, NEW n \in Nodes, NEW d \in Descriptions,
         UnlockNode(j, n, d)
  PROVE  /\ down' \subseteq Nodes
         /\ holder' \in [Nodes -> Jobs \cup {Free, Person}]
         /\ description' \in [Nodes -> Descriptions]
BY DEF PaddlesTypeOK, UnlockNode

\* One entry of a function of functions.
LEMMA UpdateEntry ==
  ASSUME NEW A, NEW B, NEW C, NEW f \in [A -> [B -> C]],
         NEW a \in A, NEW b \in B, NEW v \in C
  PROVE  [f EXCEPT ![a][b] = v] \in [A -> [B -> C]]
OBVIOUS

LEMMA UnlockStepTypes ==
  ASSUME TypeOK, NEW c \in Callers, Unlocking(c)
  PROVE  TypeOK'
<1>1. UNCHANGED <<killVars, supervisorVars, dispatcherVars>>
  BY DEF Unlocking
<1>2. KillTypeOK' /\ SupervisorTypeOK'
  BY <1>1 DEF TypeOK, KillTypeOK, SupervisorTypeOK, killVars, supervisorVars
<1>3. DispatcherTypeOK'
  BY <1>1 DEF TypeOK, DispatcherTypeOK, dispatcherVars
<1>4. PICK n \in Nodes : get_status(c, n) \/ node_active_job(c, n) \/ unlock_one(c, n)
  BY DEF Unlocking, UnlockStep
<1>5. JobOf(c) \in Jobs
  BY DEF JobOf, Callers
<1>6. CASE get_status(c, n) \/ node_active_job(c, n)
  <2>1. PaddlesTypeOK'
    BY <1>6 DEF get_status, Fail, node_active_job, TypeOK, PaddlesTypeOK, paddlesVars,
                nodeVars, jobVars
  <2>2. description[n] \in Descriptions
    BY DEF TypeOK, PaddlesTypeOK
  <2>3. unlocking' \in [Callers -> [Nodes -> Steps]]
    <3>1. \E s \in Steps : unlocking' = [unlocking EXCEPT ![c][n] = s]
      BY <1>6, Zenon DEF get_status, Fail, node_active_job, Steps
    <3> QED
      BY <3>1, UpdateEntry DEF TypeOK, UnlockTypeOK
  <2>4. seen' \in [Callers -> [Nodes -> Descriptions]]
    <3>1. seen' = seen \/ seen' = [seen EXCEPT ![c][n] = description[n]]
      BY <1>6, Zenon DEF get_status, Fail, node_active_job
    <3>2. [seen EXCEPT ![c][n] = description[n]] \in [Callers -> [Nodes -> Descriptions]]
      BY <2>2, UpdateEntry DEF TypeOK, UnlockTypeOK
    <3> QED
      BY <3>1, <3>2 DEF TypeOK, UnlockTypeOK
  <2> QED
    BY <2>1, <2>3, <2>4, <1>2, <1>3 DEF TypeOK, UnlockTypeOK
<1>8. CASE unlock_one(c, n)
  <2>1. seen[c][n] \in Descriptions
    BY DEF TypeOK, UnlockTypeOK
  <2>2. PaddlesTypeOK'
    BY <1>8, <1>5, <2>1, UnlockNodeTypes
       DEF unlock_one, Fail, TypeOK, PaddlesTypeOK, nodeVars, jobVars
  <2>3. UnlockTypeOK'
    <3>1. \/ unlocking' = unlocking
          \/ unlocking' = [unlocking EXCEPT ![c][n] = "idle"]
          \/ unlocking' = [unlocking EXCEPT ![c][n] = "failed"]
      BY <1>8, Zenon DEF unlock_one, Fail
    <3>2. "idle" \in Steps /\ "failed" \in Steps
      BY DEF Steps
    <3>3. /\ [unlocking EXCEPT ![c][n] = "idle"] \in [Callers -> [Nodes -> Steps]]
          /\ [unlocking EXCEPT ![c][n] = "failed"] \in [Callers -> [Nodes -> Steps]]
      BY <3>2, UpdateEntry DEF TypeOK, UnlockTypeOK
    <3>4. UNCHANGED seen
      BY <1>8 DEF unlock_one, Fail
    <3> QED
      BY <3>1, <3>3, <3>4 DEF TypeOK, UnlockTypeOK
  <2> QED
    BY <2>2, <2>3, <1>2, <1>3 DEF TypeOK
<1> QED
  BY <1>4, <1>6, <1>8

\* unlock_safe starts greenlets of the caller only.
LEMMA UnlockSafeTypes ==
  ASSUME UnlockTypeOK, NEW c \in Callers, NEW S \in SUBSET Nodes, unlock_safe(c, S)
  PROVE  UnlockTypeOK'
BY DEF UnlockTypeOK, unlock_safe, Steps

LEMMA DropGreenletsTypes ==
  ASSUME UnlockTypeOK, NEW C, DropGreenlets(C)
  PROVE  UnlockTypeOK'
BY DEF UnlockTypeOK, DropGreenlets, Idle, Steps

LEMMA UnlockRaisesTypes ==
  ASSUME UnlockTypeOK, NEW c \in Callers, UnlockRaises(c)
  PROVE  UnlockTypeOK'
BY DEF UnlockTypeOK, UnlockRaises, Steps

LEMMA UnlockUnchanged ==
  ASSUME UnlockTypeOK, UNCHANGED unlockVars
  PROVE  UnlockTypeOK'
BY DEF UnlockTypeOK, unlockVars

LEMMA PushPaddles ==
  ASSUME PaddlesTypeOK, NEW j \in Jobs, NEW s \in Statuses, NEW p \in Pids,
         NEW t \in SUBSET Nodes, Push(j, s, p, t) \/ UNCHANGED jobVars, UNCHANGED nodeVars
  PROVE  PaddlesTypeOK'
BY PushTypes DEF PaddlesTypeOK, nodeVars, jobVars

LEMMA MarkDownPaddles ==
  ASSUME PaddlesTypeOK, NEW n \in Nodes, NEW d \in Descriptions,
         MarkDown(n, d) \/ UNCHANGED nodeVars, UNCHANGED jobVars
  PROVE  PaddlesTypeOK'
BY DEF MarkDown, PaddlesTypeOK, nodeVars, jobVars

LEMMA SupervisorStepTypes ==
  ASSUME TypeOK, NEW j \in Jobs, SupervisorStep(j), UNCHANGED dispatcherVars
  PROVE  TypeOK'
<1> USE DEF Goto, loopVars, paddlesVars, nodeVars, jobVars, killVars,
            PaddlesTypeOK, KillTypeOK, SupervisorTypeOK,
            SupervisorSteps, ChildStates, Statuses, Pids
<1>1. DispatcherTypeOK'
  BY DEF TypeOK, DispatcherTypeOK, dispatcherVars
<1>2. PaddlesTypeOK /\ UnlockTypeOK /\ KillTypeOK /\ SupervisorTypeOK
  BY DEF TypeOK
<1>3. CASE sup_check_expiration(j)
  <2>3. UnlockTypeOK'
    BY <1>3, <1>2, UnlockUnchanged DEF sup_check_expiration, PushThen
  <2>1. (Push(j, "dead", pid[j], targets[j]) \/ UNCHANGED jobVars) /\ UNCHANGED nodeVars
    BY <1>3 DEF sup_check_expiration, PushThen, PushRaises
  <2>2. PaddlesTypeOK'
    BY <2>1, <1>2, PushPaddles
  <2>4. KillTypeOK' /\ SupervisorTypeOK'
    BY <1>3, <1>2 DEF sup_check_expiration, PushThen, PushRaises
  <2> QED
    BY <2>2, <2>3, <2>4, <1>1 DEF TypeOK
<1>4. CASE sup_push_pid(j)
  <2>3. UnlockTypeOK'
    BY <1>4, <1>2, UnlockUnchanged DEF sup_push_pid
  <2>1. (Push(j, status[j], "supervisor", job_targets[j]) \/ UNCHANGED jobVars) /\ UNCHANGED nodeVars
    BY <1>4 DEF sup_push_pid, PushRaises
  <2>2. PaddlesTypeOK'
    BY <2>1, <1>2, PushPaddles
  <2>4. KillTypeOK' /\ SupervisorTypeOK'
    BY <1>4, <1>2 DEF sup_push_pid, PushRaises
  <2> QED
    BY <2>2, <2>3, <2>4, <1>1 DEF TypeOK
<1>5. CASE reimage(j)
  <2>3. UnlockTypeOK'
    BY <1>5, <1>2, UnlockUnchanged DEF reimage, PushThen
  <2>1. (Push(j, "waiting", pid[j], targets[j]) \/ UNCHANGED jobVars) /\ UNCHANGED nodeVars
    BY <1>5 DEF reimage, PushThen, PushRaises
  <2>2. PaddlesTypeOK'
    BY <2>1, <1>2, PushPaddles
  <2>4. KillTypeOK' /\ SupervisorTypeOK'
    BY <1>5, <1>2 DEF reimage, PushThen, PushRaises
  <2> QED
    BY <2>2, <2>3, <2>4, <1>1 DEF TypeOK
<1>6. CASE reimage_machines(j)
  <2>3. UnlockTypeOK'
    BY <1>6, <1>2, UnlockUnchanged DEF reimage_machines, ReimageRaises
  <2>4. PaddlesTypeOK' /\ KillTypeOK' /\ SupervisorTypeOK'
    BY <1>6, <1>2 DEF reimage_machines, ReimageRaises
  <2> QED
    BY <2>3, <2>4, <1>1 DEF TypeOK
<1>25. CASE reimage_joined(j)
  <2>3. UnlockTypeOK'
    BY <1>25, <1>2, UnlockUnchanged DEF reimage_joined
  <2>4. PaddlesTypeOK' /\ KillTypeOK' /\ SupervisorTypeOK'
    BY <1>25, <1>2 DEF reimage_joined, ReimageRaises
  <2> QED
    BY <2>3, <2>4, <1>1 DEF TypeOK
<1>26. ASSUME NEW n \in Nodes, provision_reimage(j, n) PROVE TypeOK'
  <2>3. UnlockTypeOK'
    BY <1>26, <1>2, UnlockUnchanged DEF provision_reimage
  <2>4. PaddlesTypeOK' /\ KillTypeOK' /\ SupervisorTypeOK'
    BY <1>26, <1>2 DEF provision_reimage, ReimageRaises
  <2> QED
    BY <2>3, <2>4, <1>1 DEF TypeOK
<1>27. CASE unlock_targets_raises(j)
  <2>1. Self(j) \in Callers
    BY DEF Self, Callers
  <2>3. UnlockTypeOK'
    BY <1>27, <2>1, <1>2, UnlockRaisesTypes DEF unlock_targets_raises
  <2>4. PaddlesTypeOK' /\ KillTypeOK' /\ SupervisorTypeOK'
    BY <1>27, <1>2 DEF unlock_targets_raises
  <2> QED
    BY <2>3, <2>4, <1>1 DEF TypeOK
<1>7. CASE reimage_done(j)
  <2>3. UnlockTypeOK'
    BY <1>7, <1>2, UnlockUnchanged DEF reimage_done, PushThen
  <2>1. (Push(j, "running", pid[j], targets[j]) \/ UNCHANGED jobVars) /\ UNCHANGED nodeVars
    BY <1>7 DEF reimage_done, PushThen, PushRaises
  <2>2. PaddlesTypeOK'
    BY <2>1, <1>2, PushPaddles
  <2>4. KillTypeOK' /\ SupervisorTypeOK'
    BY <1>7, <1>2 DEF reimage_done, PushThen, PushRaises
  <2> QED
    BY <2>2, <2>3, <2>4, <1>1 DEF TypeOK
<1>8. CASE reimage_push_dead(j)
  <2>3. UnlockTypeOK'
    BY <1>8, <1>2, UnlockUnchanged DEF reimage_push_dead, PushThen
  <2>1. (Push(j, "dead", pid[j], targets[j]) \/ UNCHANGED jobVars) /\ UNCHANGED nodeVars
    BY <1>8 DEF reimage_push_dead, PushThen, PushRaises
  <2>2. PaddlesTypeOK'
    BY <2>1, <1>2, PushPaddles
  <2>4. KillTypeOK' /\ SupervisorTypeOK'
    BY <1>8, <1>2 DEF reimage_push_dead, PushThen, PushRaises
  <2> QED
    BY <2>2, <2>3, <2>4, <1>1 DEF TypeOK
<1>9. CASE reimage_raise(j)
  <2>3. UnlockTypeOK'
    BY <1>9, <1>2, UnlockUnchanged DEF reimage_raise
  <2>4. PaddlesTypeOK' /\ KillTypeOK' /\ SupervisorTypeOK'
    BY <1>9, <1>2 DEF reimage_raise
  <2> QED
    BY <2>3, <2>4, <1>1 DEF TypeOK
<1>10. CASE sup_spawn_job(j)
  <2>3. UnlockTypeOK'
    BY <1>10, <1>2, UnlockUnchanged DEF sup_spawn_job
  <2>4. PaddlesTypeOK' /\ KillTypeOK' /\ SupervisorTypeOK'
    BY <1>10, <1>2 DEF sup_spawn_job
  <2> QED
    BY <2>3, <2>4, <1>1 DEF TypeOK
<1>11. CASE watch_poll(j)
  <2>3. UnlockTypeOK'
    BY <1>11, <1>2, UnlockUnchanged DEF watch_poll
  <2>4. PaddlesTypeOK' /\ KillTypeOK' /\ SupervisorTypeOK'
    BY <1>11, <1>2 DEF watch_poll
  <2> QED
    BY <2>3, <2>4, <1>1 DEF TypeOK
<1>12. CASE watch_timeout(j)
  <2>3. UnlockTypeOK'
    BY <1>12, <1>2, UnlockUnchanged DEF watch_timeout
  <2>4. PaddlesTypeOK' /\ KillTypeOK' /\ SupervisorTypeOK'
    BY <1>12, <1>2 DEF watch_timeout, Self, Killers, KillSteps
  <2> QED
    BY <2>3, <2>4, <1>1 DEF TypeOK
<1>13. CASE watch_killed(j)
  <2>3. UnlockTypeOK'
    BY <1>13, <1>2, UnlockUnchanged DEF watch_killed
  <2>4. PaddlesTypeOK' /\ KillTypeOK' /\ SupervisorTypeOK'
    BY <1>13, <1>2 DEF watch_killed, Self, Killers, KillSteps
  <2> QED
    BY <2>3, <2>4, <1>1 DEF TypeOK
<1>14. CASE watch_final_push(j)
  <2>3. UnlockTypeOK'
    BY <1>14, <1>2, UnlockUnchanged DEF watch_final_push, PushThen
  <2>1. (Push(j, "dead", pid[j], job_targets[j]) \/ UNCHANGED jobVars) /\ UNCHANGED nodeVars
    BY <1>14 DEF watch_final_push, PushThen, PushRaises
  <2>2. PaddlesTypeOK'
    BY <2>1, <1>2, PushPaddles
  <2>4. KillTypeOK' /\ SupervisorTypeOK'
    BY <1>14, <1>2 DEF watch_final_push, PushThen, PushRaises
  <2> QED
    BY <2>2, <2>3, <2>4, <1>1 DEF TypeOK
<1>15. CASE ansible_checked(j)
  <2>3. UnlockTypeOK'
    BY <1>15, <1>2, UnlockUnchanged DEF ansible_checked
  <2>4. PaddlesTypeOK' /\ KillTypeOK' /\ SupervisorTypeOK'
    BY <1>15, <1>2 DEF ansible_checked
  <2> QED
    BY <2>3, <2>4, <1>1 DEF TypeOK
<1>16. CASE unlock_targets(j)
  <2>1. Self(j) \in Callers /\ locked[j] \subseteq Nodes
    BY <1>2 DEF Self, Callers
  <2>2. UNCHANGED unlockVars \/ unlock_safe(Self(j), locked[j])
    BY <1>16 DEF unlock_targets
  <2>3. UnlockTypeOK'
    BY <1>2, <2>1, <2>2, UnlockUnchanged, UnlockSafeTypes
  <2>4. PaddlesTypeOK' /\ KillTypeOK' /\ SupervisorTypeOK'
    BY <1>16, <1>2 DEF unlock_targets, AfterUnlock
  <2> QED
    BY <2>3, <2>4, <1>1 DEF TypeOK
<1>17. CASE unlock_targets_done(j)
  <2>3. UnlockTypeOK'
    BY <1>17, <1>2, UnlockUnchanged DEF unlock_targets_done
  <2>4. PaddlesTypeOK' /\ KillTypeOK' /\ SupervisorTypeOK'
    BY <1>17, <1>2 DEF unlock_targets_done, AfterUnlock
  <2> QED
    BY <2>3, <2>4, <1>1 DEF TypeOK
<1>18. CASE describe_listed(j)
  <2>3. UnlockTypeOK'
    BY <1>18, <1>2, UnlockUnchanged DEF describe_listed
  <2>4. PaddlesTypeOK' /\ KillTypeOK' /\ SupervisorTypeOK'
    BY <1>18, <1>2 DEF describe_listed
  <2> QED
    BY <2>3, <2>4, <1>1 DEF TypeOK
<1>19. CASE sup_exit(j)
  <2>3. UnlockTypeOK'
    BY <1>19, <1>2, UnlockUnchanged DEF sup_exit
  <2>4. PaddlesTypeOK' /\ KillTypeOK' /\ SupervisorTypeOK'
    BY <1>19, <1>2 DEF sup_exit
  <2> QED
    BY <2>3, <2>4, <1>1 DEF TypeOK
<1>20. ASSUME NEW n \in Nodes, check_for_reimage_failures_and_mark_down(j, n) PROVE TypeOK'
  <2>1. (MarkDown(n, "reimage failed") \/ UNCHANGED nodeVars) /\ UNCHANGED jobVars
    BY <1>20 DEF check_for_reimage_failures_and_mark_down, QueryRaises
  <2>2. PaddlesTypeOK'
    BY <2>1, <1>2, MarkDownPaddles DEF Descriptions
  <2>3. UnlockTypeOK'
    BY <1>20, <1>2, UnlockUnchanged DEF check_for_reimage_failures_and_mark_down, QueryRaises
  <2>4. KillTypeOK' /\ SupervisorTypeOK'
    BY <1>20, <1>2 DEF check_for_reimage_failures_and_mark_down, QueryRaises
  <2> QED
    BY <2>2, <2>3, <2>4, <1>1 DEF TypeOK
<1>21. ASSUME NEW n \in Nodes, check_for_ansible_failures_and_mark_down(j, n) PROVE TypeOK'
  <2>1. (MarkDown(n, description[n]) \/ UNCHANGED nodeVars) /\ UNCHANGED jobVars
    BY <1>21 DEF check_for_ansible_failures_and_mark_down
  <2>2. PaddlesTypeOK'
    BY <2>1, <1>2, MarkDownPaddles DEF Descriptions
  <2>3. UnlockTypeOK'
    BY <1>21, <1>2, UnlockUnchanged DEF check_for_ansible_failures_and_mark_down
  <2>4. KillTypeOK' /\ SupervisorTypeOK'
    BY <1>21, <1>2 DEF check_for_ansible_failures_and_mark_down
  <2> QED
    BY <2>2, <2>3, <2>4, <1>1 DEF TypeOK
<1>22. ASSUME NEW n \in Nodes, list_target(j, n) PROVE TypeOK'
  <2>3. UnlockTypeOK'
    BY <1>22, <1>2, UnlockUnchanged DEF list_target, QueryRaises
  <2>4. PaddlesTypeOK' /\ KillTypeOK' /\ SupervisorTypeOK'
    BY <1>22, <1>2 DEF list_target, QueryRaises
  <2> QED
    BY <2>3, <2>4, <1>1 DEF TypeOK
<1>23. ASSUME NEW n \in Nodes, describe_still_locked(j, n) PROVE TypeOK'
  <2>3. UnlockTypeOK'
    BY <1>23, <1>2, UnlockUnchanged DEF describe_still_locked, QueryRaises
  <2>4. PaddlesTypeOK' /\ KillTypeOK' /\ SupervisorTypeOK'
    BY <1>23, <1>2 DEF describe_still_locked, QueryRaises
  <2> QED
    BY <2>3, <2>4, <1>1 DEF TypeOK
<1>24. ASSUME NEW n \in Nodes, describe_disabled_targets(j, n) PROVE TypeOK'
  <2>3. UnlockTypeOK'
    BY <1>24, <1>2, UnlockUnchanged DEF describe_disabled_targets
  <2>4. PaddlesTypeOK' /\ KillTypeOK' /\ SupervisorTypeOK'
    BY <1>24, <1>2 DEF describe_disabled_targets, Describe, Descriptions
  <2> QED
    BY <2>3, <2>4, <1>1 DEF TypeOK
<1> QED
  BY <1>3, <1>4, <1>5, <1>6, <1>7, <1>8, <1>9, <1>10, <1>11, <1>12, <1>13, <1>14, <1>15,
     <1>16, <1>17, <1>18, <1>19, <1>20, <1>21, <1>22, <1>23, <1>24, <1>25, <1>26, <1>27
     DEF SupervisorStep

LEMMA JobStepTypes ==
  ASSUME TypeOK, NEW j \in Jobs, Running(j)
  PROVE  TypeOK'
<1>1. UNCHANGED <<unlockVars, killVars, spc, loopVars, nodeVars, dispatcherVars>>
  BY DEF Running, JobStep, job_start, report_outcome, job_dies, paddlesVars
<1>2. DispatcherTypeOK' /\ UnlockTypeOK'
  BY <1>1, UnlockUnchanged DEF TypeOK, DispatcherTypeOK, dispatcherVars
<1>3. child' \in [Jobs -> ChildStates]
  BY DEF Running, JobStep, job_start, report_outcome, job_dies, TypeOK, KillTypeOK, ChildStates
<1>4. KillTypeOK' /\ SupervisorTypeOK'
  BY <1>1, <1>3 DEF TypeOK, KillTypeOK, SupervisorTypeOK, killVars, loopVars
<1>5. PaddlesTypeOK'
  <2>1. UNCHANGED jobVars \/ \E s \in Statuses, p \in Pids : Push(j, s, p, targets[j])
    BY DEF Running, JobStep, job_start, report_outcome, job_dies, PushRaises, Statuses,
           Inactive, Pids, TypeOK, PaddlesTypeOK, paddlesVars
  <2> QED
    BY <1>1, <2>1, PushTypes DEF TypeOK, PaddlesTypeOK, SupervisorTypeOK, nodeVars, jobVars
<1> QED
  BY <1>2, <1>4, <1>5 DEF TypeOK

LEMMA KillStepTypes ==
  ASSUME TypeOK, NEW c \in Killers, KillStep(c), UNCHANGED <<loopVars, dispatcherVars>>
  PROVE  TypeOK'
<1>1. DispatcherTypeOK'
  BY DEF TypeOK, DispatcherTypeOK, dispatcherVars
<1>2. JobOf(c) \in Jobs /\ c \in Callers
  BY DEF JobOf, Killers, Callers
<1>3. CASE kill_get_jobs(c)
  BY <1>3, <1>1, <1>2, UnlockUnchanged
     DEF kill_get_jobs, TypeOK, PaddlesTypeOK, KillTypeOK, SupervisorTypeOK, KillSteps,
         paddlesVars, nodeVars, jobVars, loopVars
<1>4. CASE kill_processes(c)
  <2>1. PICK killed \in SUBSET ToKill(c) : SigTerm(JobOf(c), killed)
    BY <1>4 DEF kill_processes
  <2>2. UnlockTypeOK'
    BY <2>1, UnlockUnchanged, DropGreenletsTypes DEF SigTerm, TypeOK
  <2>3. spc' \in [Jobs -> SupervisorSteps] /\ child' \in [Jobs -> ChildStates]
    BY <2>1, <1>2 DEF SigTerm, TypeOK, KillTypeOK, SupervisorTypeOK, SupervisorSteps,
       ChildStates
  <2>4. kpc' \in [Killers -> KillSteps]
    BY <1>4 DEF kill_processes, TypeOK, KillTypeOK, KillSteps
  <2>5. UNCHANGED <<paddlesVars, kpid>>
    BY <1>4 DEF kill_processes
  <2> QED
    BY <2>2, <2>3, <2>4, <2>5, <1>1
       DEF TypeOK, PaddlesTypeOK, KillTypeOK, SupervisorTypeOK, paddlesVars, nodeVars, jobVars,
           loopVars
<1>5. CASE kill_push(c)
  <2>1. UNCHANGED jobVars \/ Push(JobOf(c), "dead", pid[JobOf(c)], job_targets[JobOf(c)])
    BY <1>5 DEF kill_push, PushStatus, PushRaises
  <2>2. PaddlesTypeOK'
    BY <1>5, <2>1, <1>2, PushTypes
       DEF kill_push, TypeOK, PaddlesTypeOK, nodeVars, jobVars, Statuses
  <2> QED
    BY <1>5, <2>2, <1>1, UnlockUnchanged
       DEF kill_push, TypeOK, KillTypeOK, SupervisorTypeOK, KillSteps, loopVars
<1>6. CASE kill_find_targets(c)
  <2>1. UnlockTypeOK'
    BY <1>6, <1>2, UnlockSafeTypes, UnlockUnchanged DEF kill_find_targets, TypeOK, PaddlesTypeOK
  <2> QED
    BY <1>6, <2>1, <1>1
       DEF kill_find_targets, TypeOK, PaddlesTypeOK, KillTypeOK, SupervisorTypeOK, KillSteps,
           paddlesVars, nodeVars, jobVars, loopVars
<1>7. CASE kill_return(c)
  BY <1>7, <1>1, UnlockUnchanged
     DEF kill_return, TypeOK, PaddlesTypeOK, KillTypeOK, SupervisorTypeOK, KillSteps,
         paddlesVars, nodeVars, jobVars, loopVars
<1>8. CASE kill_raises(c)
  BY <1>8, <1>1, <1>2, UnlockRaisesTypes
     DEF kill_raises, TypeOK, PaddlesTypeOK, KillTypeOK, SupervisorTypeOK, KillSteps,
         paddlesVars, nodeVars, jobVars, loopVars
<1> QED
  BY <1>3, <1>4, <1>5, <1>6, <1>7, <1>8 DEF KillStep

LEMMA TeuthologyKillTypes ==
  ASSUME TypeOK, NEW j \in Jobs, teuthology_kill(j), UNCHANGED <<loopVars, dispatcherVars>>
  PROVE  TypeOK'
<1>1. DispatcherTypeOK' /\ UnlockTypeOK'
  BY UnlockUnchanged DEF teuthology_kill, TypeOK, DispatcherTypeOK, dispatcherVars
<1> QED
  BY <1>1 DEF teuthology_kill, TypeOK, PaddlesTypeOK, KillTypeOK, SupervisorTypeOK, Killers,
              KillSteps, paddlesVars, nodeVars, jobVars, loopVars

-----------------------------------------------------------------------------
(* The dispatcher.                                                         *)

\* A turn of the main loop handles one job, which is taken off the queue
\* first, and the loop goes on only below max_loop_exits.
TurnInv ==
  /\ djob = NoJob <=> dpc \in {"loop", "exited", "stopped"}
  /\ dpc \notin {"loop", "reserved", "exited", "stopped"} =>
       queue[djob] \in {"buried", "deleted"}
  /\ dpc \notin {"exited", "stopped"} => loop_exit_count < MaxLoopExits

LEMMA BusyWithJob ==
  ASSUME TypeOK, TurnInv, dpc \notin {"loop", "exited", "stopped"}
  PROVE  djob \in Jobs
BY DEF TypeOK, DispatcherTypeOK, TurnInv

LEMMA LockNodesPaddles ==
  ASSUME PaddlesTypeOK, NEW j \in Jobs, NEW S \in SUBSET Nodes, LockNodes(j, S)
  PROVE  /\ down' \subseteq Nodes
         /\ holder' \in [Nodes -> Jobs \cup {Free, Person}]
         /\ description' \in [Nodes -> Descriptions]
BY DEF LockNodes, PaddlesTypeOK, Descriptions

LEMMA DispatcherStepTypes ==
  ASSUME TypeOK, TurnInv, DispatcherStep \/ DispatcherFault
  PROVE  TypeOK' /\ TurnInv'
<1> USE DispatcherAssumption DEF DispatcherTypeOK, TurnInv, DispatcherSteps, Continue
<1>1. PaddlesTypeOK /\ UnlockTypeOK /\ KillTypeOK /\ SupervisorTypeOK /\ DispatcherTypeOK
  BY DEF TypeOK
<1>2. ASSUME UNCHANGED paddlesVars PROVE PaddlesTypeOK'
  BY <1>1, <1>2 DEF PaddlesTypeOK, paddlesVars, nodeVars, jobVars
<1>3. ASSUME UNCHANGED killVars, UNCHANGED supervisorVars PROVE KillTypeOK' /\ SupervisorTypeOK'
  BY <1>1, <1>3 DEF KillTypeOK, SupervisorTypeOK, killVars, supervisorVars
<1>4. ASSUME NEW j \in Jobs, reserve(j) PROVE TypeOK' /\ TurnInv'
  <2>2. PaddlesTypeOK' /\ UnlockTypeOK' /\ KillTypeOK' /\ SupervisorTypeOK'
    BY <1>4, <1>1, <1>2, <1>3, UnlockUnchanged DEF reserve
  <2>3. DispatcherTypeOK' /\ TurnInv'
    BY <1>4, <1>1 DEF reserve
  <2> QED
    BY <2>2, <2>3 DEF TypeOK
<1>5. CASE leave_loop
  <2>2. PaddlesTypeOK' /\ UnlockTypeOK' /\ KillTypeOK' /\ SupervisorTypeOK'
    BY <1>5, <1>1, <1>2, <1>3, UnlockUnchanged DEF leave_loop
  <2>3. DispatcherTypeOK' /\ TurnInv'
    BY <1>5, <1>1 DEF leave_loop
  <2> QED
    BY <2>2, <2>3 DEF TypeOK
<1>6. CASE bury
  <2>1. djob \in Jobs
    BY <1>6, BusyWithJob DEF bury
  <2>2. PaddlesTypeOK' /\ UnlockTypeOK' /\ KillTypeOK' /\ SupervisorTypeOK'
    BY <1>6, <1>1, <1>2, <1>3, UnlockUnchanged DEF bury
  <2>3. DispatcherTypeOK' /\ TurnInv'
    BY <1>6, <1>1, <2>1 DEF bury
  <2> QED
    BY <2>2, <2>3 DEF TypeOK
<1>7. CASE list_locks
  <2>1. djob \in Jobs
    BY <1>7, BusyWithJob DEF list_locks
  <2>2. PaddlesTypeOK' /\ UnlockTypeOK' /\ KillTypeOK' /\ SupervisorTypeOK'
    BY <1>7, <1>1, <1>2, <1>3, UnlockUnchanged DEF list_locks
  <2>3. DispatcherTypeOK' /\ TurnInv'
    BY <1>7, <1>1, <2>1 DEF list_locks
  <2> QED
    BY <2>2, <2>3 DEF TypeOK
<1>8. CASE unlock_done
  <2>1. djob \in Jobs
    BY <1>8, BusyWithJob DEF unlock_done
  <2>2. PaddlesTypeOK' /\ UnlockTypeOK' /\ KillTypeOK' /\ SupervisorTypeOK'
    BY <1>8, <1>1, <1>2, <1>3, UnlockUnchanged DEF unlock_done
  <2>3. DispatcherTypeOK' /\ TurnInv'
    BY <1>8, <1>1, <2>1 DEF unlock_done
  <2> QED
    BY <2>2, <2>3 DEF TypeOK
<1>20. CASE unlock_raises
  <2>1. djob \in Jobs
    BY <1>20, BusyWithJob DEF unlock_raises
  <2>2. <<"dispatcher", djob>> \in Callers
    BY <2>1 DEF Callers
  <2>3. UnlockTypeOK'
    BY <1>20, <2>2, <1>1, UnlockRaisesTypes DEF unlock_raises
  <2>4. PaddlesTypeOK' /\ KillTypeOK' /\ SupervisorTypeOK'
    BY <1>20, <1>2, <1>3 DEF unlock_raises
  <2>5. DispatcherTypeOK' /\ TurnInv'
    BY <1>20, <1>1, <2>1 DEF unlock_raises
  <2> QED
    BY <2>3, <2>4, <2>5 DEF TypeOK
<1>9. CASE delete
  <2>1. djob \in Jobs
    BY <1>9, BusyWithJob DEF delete
  <2>2. PaddlesTypeOK' /\ UnlockTypeOK' /\ KillTypeOK' /\ SupervisorTypeOK'
    BY <1>9, <1>1, <1>2, <1>3, UnlockUnchanged DEF delete
  <2>3. DispatcherTypeOK' /\ TurnInv'
    BY <1>9, <1>1, <2>1 DEF delete
  <2> QED
    BY <2>2, <2>3 DEF TypeOK
<1>10. CASE loop_exit
  <2>2. PaddlesTypeOK' /\ UnlockTypeOK' /\ KillTypeOK' /\ SupervisorTypeOK'
    BY <1>10, <1>1, <1>2, <1>3, UnlockUnchanged DEF loop_exit
  <2>3. DispatcherTypeOK' /\ TurnInv'
    BY <1>10, <1>1 DEF loop_exit
  <2> QED
    BY <2>2, <2>3 DEF TypeOK
<1>11. CASE restart
  <2>2. PaddlesTypeOK' /\ UnlockTypeOK' /\ KillTypeOK' /\ SupervisorTypeOK'
    BY <1>11, <1>1, <1>2, <1>3, UnlockUnchanged DEF restart
  <2>3. stopping' \in BOOLEAN
    BY <1>11 DEF restart
  <2>4. 0 \in 0..MaxLoopExits /\ 0 < MaxLoopExits
    OBVIOUS
  <2>5. restarts' \in 0..MaxRestarts
    BY <1>11, <1>1 DEF restart
  <2>6. UNCHANGED <<queue, djob>> /\ dpc' = "loop" /\ dpc = "stopped" /\ job_procs' = {}
        /\ loop_exit_count' = 0
    BY <1>11 DEF restart
  <2>7. DispatcherTypeOK' /\ TurnInv'
    BY <1>1, <2>3, <2>4, <2>5, <2>6
  <2> QED
    BY <2>2, <2>7 DEF TypeOK
<1>12. CASE prep_job
  <2>1. djob \in Jobs
    BY <1>12, BusyWithJob DEF prep_job
  <2>2. \E s \in Statuses, t \in SUBSET Nodes :
          (Push(djob, s, pid[djob], t) \/ UNCHANGED jobVars) /\ UNCHANGED nodeVars
    <3>1. targets[djob] \in SUBSET Nodes /\ job_targets[djob] \in SUBSET Nodes
      BY <1>1, <2>1 DEF SupervisorTypeOK, PaddlesTypeOK
    <3> QED
      BY <1>12, <3>1 DEF prep_job, PushStatus, Statuses
  <2>3. PaddlesTypeOK'
    BY <1>1, <2>1, <2>2, PushPaddles DEF PaddlesTypeOK
  <2>4. UnlockTypeOK' /\ KillTypeOK' /\ SupervisorTypeOK'
    BY <1>12, <1>1, <1>3, UnlockUnchanged DEF prep_job
  <2>5. DispatcherTypeOK' /\ TurnInv'
    BY <1>12, <1>1, <2>1 DEF prep_job, LockMachinesRaises
  <2> QED
    BY <2>3, <2>4, <2>5 DEF TypeOK
<1>13. CASE lock_machines
  <2>1. djob \in Jobs
    BY <1>13, BusyWithJob DEF lock_machines
  <2>2. \E s \in Statuses, t \in SUBSET Nodes :
          (Push(djob, s, pid[djob], t) \/ UNCHANGED jobVars) /\ UNCHANGED nodeVars
    <3>1. targets[djob] \in SUBSET Nodes /\ job_targets[djob] \in SUBSET Nodes
      BY <1>1, <2>1 DEF SupervisorTypeOK, PaddlesTypeOK
    <3> QED
      BY <1>13, <3>1 DEF lock_machines, PushStatus, LockMachinesRaises, PushRaises, Statuses
  <2>3. PaddlesTypeOK'
    BY <1>1, <2>1, <2>2, PushPaddles DEF PaddlesTypeOK
  <2>4. UnlockTypeOK' /\ KillTypeOK' /\ SupervisorTypeOK'
    BY <1>13, <1>1, <1>3, UnlockUnchanged DEF lock_machines
  <2>5. DispatcherTypeOK' /\ TurnInv'
    BY <1>13, <1>1, <2>1 DEF lock_machines, LockMachinesRaises
  <2> QED
    BY <2>3, <2>4, <2>5 DEF TypeOK
<1>14. CASE report_locked
  <2>1. djob \in Jobs
    BY <1>14, BusyWithJob DEF report_locked
  <2>2. \E s \in Statuses, t \in SUBSET Nodes :
          (Push(djob, s, pid[djob], t) \/ UNCHANGED jobVars) /\ UNCHANGED nodeVars
    <3>1. targets[djob] \in SUBSET Nodes /\ job_targets[djob] \in SUBSET Nodes
      BY <1>1, <2>1 DEF SupervisorTypeOK, PaddlesTypeOK
    <3> QED
      BY <1>14, <3>1 DEF report_locked, PushStatus, LockMachinesRaises, PushRaises, Statuses
  <2>3. PaddlesTypeOK'
    BY <1>1, <2>1, <2>2, PushPaddles DEF PaddlesTypeOK
  <2>4. UnlockTypeOK' /\ KillTypeOK' /\ SupervisorTypeOK'
    BY <1>14, <1>1, <1>3, UnlockUnchanged DEF report_locked
  <2>5. DispatcherTypeOK' /\ TurnInv'
    BY <1>14, <1>1, <2>1 DEF report_locked, LockMachinesRaises
  <2> QED
    BY <2>3, <2>4, <2>5 DEF TypeOK
<1>15. CASE report_spawn_failed
  <2>1. djob \in Jobs
    BY <1>15, BusyWithJob DEF report_spawn_failed
  <2>2. \E s \in Statuses, t \in SUBSET Nodes :
          (Push(djob, s, pid[djob], t) \/ UNCHANGED jobVars) /\ UNCHANGED nodeVars
    <3>1. targets[djob] \in SUBSET Nodes /\ job_targets[djob] \in SUBSET Nodes
      BY <1>1, <2>1 DEF SupervisorTypeOK, PaddlesTypeOK
    <3> QED
      BY <1>15, <3>1 DEF report_spawn_failed, PushRaises, Statuses
  <2>3. PaddlesTypeOK'
    BY <1>1, <2>1, <2>2, PushPaddles DEF PaddlesTypeOK
  <2>4. UnlockTypeOK' /\ KillTypeOK' /\ SupervisorTypeOK'
    BY <1>15, <1>1, <1>3, UnlockUnchanged DEF report_spawn_failed
  <2>5. DispatcherTypeOK' /\ TurnInv'
    BY <1>15, <1>1, <2>1 DEF report_spawn_failed, LockMachinesRaises
  <2> QED
    BY <2>3, <2>4, <2>5 DEF TypeOK
<1>16. CASE lock_many
  <2>1. djob \in Jobs
    BY <1>16, BusyWithJob DEF lock_many
  <2>2. PICK S \in SUBSET Nodes : \/ LockNodes(djob, S) /\ targets' = [targets EXCEPT ![djob] = S]
                                  \/ UNCHANGED <<nodeVars, targets>>
    BY <1>16 DEF lock_many, Available
  <2>3. UNCHANGED jobVars
    BY <1>16 DEF lock_many
  <2>4. PaddlesTypeOK'
    BY <1>1, <2>1, <2>2, <2>3, LockNodesPaddles DEF PaddlesTypeOK, nodeVars, jobVars
  <2>5. UnlockTypeOK' /\ KillTypeOK' /\ SupervisorTypeOK'
    BY <1>16, <1>1, <2>1, <2>2, UnlockUnchanged
       DEF lock_many, KillTypeOK, SupervisorTypeOK, killVars, dispatcherRest
  <2>6. DispatcherTypeOK' /\ TurnInv'
    BY <1>16, <1>1, <2>1 DEF lock_many
  <2> QED
    BY <2>4, <2>5, <2>6 DEF TypeOK
<1>17. CASE lock_many_raises
  <2>1. djob \in Jobs
    BY <1>17, BusyWithJob DEF lock_many_raises
  <2>2. PICK S \in SUBSET Nodes : LockNodes(djob, S) \/ UNCHANGED nodeVars
    BY <1>17 DEF lock_many_raises, Available
  <2>3. Push(djob, "dead", pid[djob], job_targets[djob]) \/ UNCHANGED jobVars
    BY <1>17 DEF lock_many_raises, LockMachinesRaises, PushStatus, PushRaises
  <2>4. PaddlesTypeOK'
    <3>1. /\ status' \in [Jobs -> Statuses] /\ pid' \in [Jobs -> Pids]
          /\ job_targets' \in [Jobs -> SUBSET Nodes]
      BY <1>1, <2>1, <2>3, PushTypes DEF PaddlesTypeOK, jobVars, Statuses
    <3> QED
      BY <3>1, <1>1, <2>1, <2>2, LockNodesPaddles DEF PaddlesTypeOK, nodeVars
  <2>5. UnlockTypeOK' /\ KillTypeOK' /\ SupervisorTypeOK'
    BY <1>17, <1>1, <1>3, UnlockUnchanged DEF lock_many_raises
  <2>6. DispatcherTypeOK' /\ TurnInv'
    BY <1>17, <1>1, <2>1 DEF lock_many_raises, LockMachinesRaises
  <2> QED
    BY <2>4, <2>5, <2>6 DEF TypeOK
<1>18. CASE popen
  <2>1. djob \in Jobs
    BY <1>18, BusyWithJob DEF popen
  <2>2. <<"dispatcher", djob>> \in Callers /\ targets[djob] \in SUBSET Nodes
    BY <1>1, <2>1 DEF Callers, SupervisorTypeOK
  <2>3. UNCHANGED unlockVars \/ unlock_safe(<<"dispatcher", djob>>, targets[djob])
    BY <1>18 DEF popen
  <2>4. PaddlesTypeOK' /\ UnlockTypeOK'
    BY <1>18, <1>1, <1>2, <2>2, <2>3, UnlockUnchanged, UnlockSafeTypes DEF popen
  <2>5. KillTypeOK' /\ SupervisorTypeOK'
    BY <1>18, <1>1, <2>1
       DEF popen, KillTypeOK, SupervisorTypeOK, SupervisorSteps, killVars, dispatcherRest
  <2>6. DispatcherTypeOK' /\ TurnInv'
    BY <1>18, <1>1, <2>1 DEF popen
  <2> QED
    BY <2>4, <2>5, <2>6 DEF TypeOK
<1>19. CASE crash
  <2>1. UnlockTypeOK'
    BY <1>19, <1>1, DropGreenletsTypes DEF crash
  <2>2. PaddlesTypeOK' /\ KillTypeOK' /\ SupervisorTypeOK'
    BY <1>19, <1>1, <1>2, <1>3 DEF crash
  <2>3. DispatcherTypeOK' /\ TurnInv'
    BY <1>19, <1>1 DEF crash
  <2> QED
    BY <2>1, <2>2, <2>3 DEF TypeOK
<1> QED
  BY <1>4, <1>5, <1>6, <1>7, <1>8, <1>9, <1>10, <1>11, <1>12, <1>13, <1>14, <1>15, <1>16,
     <1>17, <1>18, <1>19, <1>20 DEF DispatcherStep, DispatcherFault

LEMMA PersonTypes ==
  ASSUME TypeOK, teuthology_lock
  PROVE  TypeOK'
<1>1. UnlockTypeOK' /\ KillTypeOK' /\ SupervisorTypeOK' /\ DispatcherTypeOK'
  BY UnlockUnchanged DEF teuthology_lock, TypeOK, KillTypeOK, SupervisorTypeOK,
     DispatcherTypeOK, killVars, supervisorVars, dispatcherVars
<1>2. PaddlesTypeOK'
  BY DEF teuthology_lock, person_lock, person_unlock, TypeOK, PaddlesTypeOK, Descriptions,
     nodeVars, jobVars
<1> QED
  BY <1>1, <1>2 DEF TypeOK

LEMMA TurnUnchanged ==
  ASSUME TurnInv, UNCHANGED dispatcherVars
  PROVE  TurnInv'
BY DEF TurnInv, dispatcherVars

LEMMA TypesInit == Init => TypeOK /\ TurnInv
<1> SUFFICES ASSUME Init PROVE TypeOK /\ TurnInv
  OBVIOUS
<1>1. PaddlesTypeOK
  BY DEF Init, PaddlesInit, PaddlesTypeOK, Descriptions, Statuses, Pids
<1>2. UnlockTypeOK /\ KillTypeOK
  BY DEF Init, UnlockInit, KillInit, UnlockTypeOK, KillTypeOK, Idle, Steps, Descriptions,
         KillSteps, ChildStates, Pids
<1>3. SupervisorTypeOK
  BY DEF Init, SupervisorInit, SupervisorTypeOK, SupervisorSteps
<1>4. DispatcherTypeOK /\ TurnInv
  <2>1. stopping \in BOOLEAN
    BY DEF Init, DispatcherInit
  <2>2. loop_exit_count \in 0..MaxLoopExits /\ 0 < MaxLoopExits /\ loop_exit_count = 0
    BY DispatcherAssumption DEF Init, DispatcherInit
  <2>3. restarts \in 0..MaxRestarts
    BY DispatcherAssumption DEF Init, DispatcherInit
  <2>4. queue \in [Jobs -> {"ready", "reserved", "buried", "deleted"}]
        /\ dpc = "loop" /\ djob = NoJob /\ job_procs = {}
    BY DEF Init, DispatcherInit
  <2> QED
    BY <2>1, <2>2, <2>3, <2>4 DEF DispatcherTypeOK, DispatcherSteps, TurnInv
<1> QED
  BY <1>1, <1>2, <1>3, <1>4 DEF TypeOK

LEMMA StepTypes ==
  ASSUME TypeOK, TurnInv, [Next]_vars
  PROVE  TypeOK' /\ TurnInv'
<1>1. CASE UNCHANGED vars
  BY <1>1, TurnUnchanged, UnlockUnchanged
     DEF vars, TypeOK, PaddlesTypeOK, KillTypeOK, SupervisorTypeOK, DispatcherTypeOK,
         paddlesVars, nodeVars, jobVars, killVars, supervisorVars, dispatcherVars
<1>2. CASE DispatcherStep \/ DispatcherFault
  BY <1>2, DispatcherStepTypes
<1>3. ASSUME NEW c \in Callers, Unlocking(c) PROVE TypeOK' /\ TurnInv'
  BY <1>3, UnlockStepTypes, TurnUnchanged DEF Unlocking
<1>4. ASSUME NEW j \in Jobs, Supervising(j) PROVE TypeOK' /\ TurnInv'
  <2>1. Self(j) \in Callers /\ Self(j) \in Killers
    BY DEF Self, Callers, Killers
  <2> QED
    BY <1>4, <2>1, <1>3, SupervisorStepTypes, KillStepTypes, TurnUnchanged DEF Supervising
<1>5. ASSUME NEW j \in Jobs, Running(j) PROVE TypeOK' /\ TurnInv'
  BY <1>5, JobStepTypes, TurnUnchanged DEF Running
<1>6. ASSUME NEW j \in Jobs, Killing(j) PROVE TypeOK' /\ TurnInv'
  <2>1. <<"kill", j>> \in Callers /\ <<"kill", j>> \in Killers
    BY DEF Callers, Killers
  <2> QED
    BY <1>6, <2>1, <1>3, TeuthologyKillTypes, KillStepTypes, TurnUnchanged DEF Killing
<1>7. ASSUME NEW j \in Jobs PROVE <<"dispatcher", j>> \in Callers
  BY DEF Callers
<1>8. CASE teuthology_lock
  BY <1>8, PersonTypes, TurnUnchanged DEF teuthology_lock
<1> QED
  BY <1>1, <1>2, <1>3, <1>4, <1>5, <1>6, <1>7, <1>8 DEF Next, Dispatching

(* Every variable keeps its type, the dispatcher's LoopExit counter stays  *)
(* within max_loop_exits, and a turn of its loop has a job (main(), the    *)
(* busy steps of dispatcher/__init__.py use job.stats and job.body).       *)
THEOREM TypeCorrect == Spec => [](TypeOK /\ TurnInv)
<1>1. TypeOK /\ TurnInv /\ [Next]_vars => (TypeOK /\ TurnInv)'
  BY StepTypes
<1> QED
  BY <1>1, TypesInit, PTL DEF Spec

-----------------------------------------------------------------------------
(* A job is started once.                                                  *)

\* A SIGTERM reaches only a supervisor that is alive, so kill_job starts none.
LEMMA KillStartsNothing ==
  ASSUME TypeOK, NEW c \in Killers, KillStep(c), NEW j \in Jobs, spc[j] = "none"
  PROVE  spc'[j] = "none"
<1>1. CASE kill_processes(c)
  <2>1. PICK killed \in SUBSET ToKill(c) : SigTerm(JobOf(c), killed)
    BY <1>1 DEF kill_processes
  <2>2. "supervisor" \in killed => SupervisorAlive(JobOf(c))
    BY DEF ToKill, Alive
  <2>3. "supervisor" \in killed => JobOf(c) # j
    BY <2>2 DEF SupervisorAlive
  <2> QED
    BY <2>1, <2>3 DEF SigTerm, TypeOK, SupervisorTypeOK
<1> QED
  BY <1>1 DEF KillStep, kill_get_jobs, kill_push, kill_find_targets, kill_return, kill_raises

LEMMA SupervisorStartsNothing ==
  ASSUME TypeOK, NEW i \in Jobs, Supervising(i), NEW j \in Jobs, spc[j] = "none"
  PROVE  spc'[j] = "none"
<1>1. CASE SupervisorStep(i)
  <2>1. spc[i] # "none" \/ UNCHANGED spc
    BY <1>1 DEF SupervisorStep, sup_check_expiration, sup_push_pid, reimage, reimage_machines,
       ReimageRaises, provision_reimage, reimage_joined, reimage_done, reimage_push_dead,
       reimage_raise, sup_spawn_job, watch_poll, watch_timeout, watch_killed, watch_final_push,
       ansible_checked, unlock_targets, unlock_targets_done, unlock_targets_raises,
       describe_listed, sup_exit, check_for_reimage_failures_and_mark_down, QueryRaises,
       check_for_ansible_failures_and_mark_down, list_target, describe_still_locked,
       describe_disabled_targets
  <2>2. j # i => spc'[j] = spc[j]
    BY <1>1 DEF SupervisorStep, sup_check_expiration, sup_push_pid, reimage, reimage_machines,
       ReimageRaises, provision_reimage, reimage_joined, reimage_done, reimage_push_dead,
       reimage_raise, sup_spawn_job, watch_poll, watch_timeout, watch_killed, watch_final_push,
       ansible_checked, unlock_targets, unlock_targets_done, unlock_targets_raises,
       describe_listed, sup_exit, check_for_reimage_failures_and_mark_down, QueryRaises,
       check_for_ansible_failures_and_mark_down, list_target, describe_still_locked,
       describe_disabled_targets, PushThen, Goto, TypeOK, SupervisorTypeOK
  <2> QED
    BY <2>1, <2>2
<1>2. CASE KillStep(Self(i))
  BY <1>2, KillStartsNothing DEF Self, Killers
<1>3. CASE Unlocking(Self(i))
  BY <1>3 DEF Unlocking, supervisorVars
<1> QED
  BY <1>1, <1>2, <1>3 DEF Supervising

\* Only the dispatcher changes the queue, and only popen starts a supervisor.
LEMMA DispatcherStartsBuried ==
  ASSUME TypeOK, TurnInv, StartedOnce, DispatcherStep \/ DispatcherFault, NEW j \in Jobs
  PROVE  spc'[j] # "none" => queue'[j] \in {"buried", "deleted"}
<1> USE DEF StartedOnce, TypeOK, SupervisorTypeOK, DispatcherTypeOK
<1>1. CASE UNCHANGED spc
  <2>1. CASE bury \/ delete
    <3>1. djob \in Jobs
      BY <2>1, BusyWithJob DEF bury, delete
    <3> QED
      BY <1>1, <2>1, <3>1 DEF bury, delete
  <2>2. CASE ~(bury \/ delete)
    <3>1. \/ queue' = queue
          \/ \E i \in Jobs : queue[i] = "ready" /\ queue' = [queue EXCEPT ![i] = "reserved"]
          \/ crash
      BY <2>2 DEF DispatcherStep, DispatcherFault, reserve, leave_loop, prep_job,
         lock_machines, list_locks, lock_many, report_locked, popen, unlock_done,
         unlock_raises, report_spawn_failed, lock_many_raises, loop_exit, restart
    <3> QED
      BY <1>1, <3>1 DEF crash
  <2> QED
    BY <2>1, <2>2
<1>2. CASE ~UNCHANGED spc
  <2>1. popen
    BY <1>2 DEF DispatcherStep, DispatcherFault, reserve, leave_loop, bury, prep_job,
       lock_machines, list_locks, lock_many, report_locked, unlock_done, unlock_raises,
       report_spawn_failed, delete, lock_many_raises, loop_exit, crash, restart, supervisorVars
  <2>2. djob \in Jobs /\ queue[djob] \in {"buried", "deleted"}
    BY <2>1, BusyWithJob DEF popen, TurnInv
  <2>3. spc' = [spc EXCEPT ![djob] = "start"] /\ UNCHANGED queue
    BY <1>2, <2>1 DEF popen
  <2> QED
    BY <2>2, <2>3
<1> QED
  BY <1>1, <1>2

LEMMA StepStartedOnce ==
  ASSUME TypeOK, TurnInv, StartedOnce, [Next]_vars
  PROVE  StartedOnce'
<1>1. CASE DispatcherStep \/ DispatcherFault
  BY <1>1, DispatcherStartsBuried DEF StartedOnce
<1>2. CASE UNCHANGED queue /\ \A j \in Jobs : spc[j] = "none" => spc'[j] = "none"
  BY <1>2 DEF StartedOnce
<1>3. ASSUME NEW i \in Jobs, Supervising(i) PROVE UNCHANGED queue
  BY <1>3 DEF Supervising, Unlocking, dispatcherVars
<1>4. ASSUME NEW i \in Jobs, Running(i) PROVE UNCHANGED <<queue, spc>>
  BY <1>4 DEF Running, JobStep, job_start, report_outcome, job_dies, dispatcherVars
<1>5. ASSUME NEW i \in Jobs, Killing(i)
      PROVE  UNCHANGED queue /\ \A j \in Jobs : spc[j] = "none" => spc'[j] = "none"
  <2>1. CASE KillStep(<<"kill", i>>)
    BY <1>5, <2>1, KillStartsNothing
       DEF Killers, Killing, Unlocking, dispatcherVars, teuthology_kill
  <2>2. CASE ~KillStep(<<"kill", i>>)
    BY <1>5, <2>2 DEF Killing, Unlocking, teuthology_kill, dispatcherVars, supervisorVars
  <2> QED
    BY <2>1, <2>2
<1>6. ASSUME NEW i \in Jobs, Unlocking(<<"dispatcher", i>>) PROVE UNCHANGED <<queue, spc>>
  BY <1>6 DEF Unlocking, dispatcherVars, supervisorVars
<1>7. CASE UNCHANGED vars
  BY <1>7 DEF vars, StartedOnce, supervisorVars, dispatcherVars
<1>8. CASE teuthology_lock
  BY <1>8 DEF teuthology_lock, StartedOnce, supervisorVars, dispatcherVars
<1> QED
  BY <1>1, <1>2, <1>3, <1>4, <1>5, <1>6, <1>7, <1>8, SupervisorStartsNothing
     DEF Next, Dispatching

(* However often the dispatcher is stopped, restarted or hit by a LoopExit *)
(* (main() of dispatcher/__init__.py), whatever fails and whoever kills    *)
(* jobs, a job that has a supervisor is never in the queue again: burying  *)
(* comes before Popen in every turn.                                       *)
THEOREM StartedOnceHolds == Spec => []StartedOnce
<1>1. Init => StartedOnce
  BY DEF Init, SupervisorInit, StartedOnce
<1>2. TypeOK /\ TurnInv /\ StartedOnce /\ [Next]_vars => StartedOnce'
  BY StepStartedOnce
<1> QED
  BY <1>1, <1>2, TypeCorrect, PTL DEF Spec

\* Without them a node is unlocked by its own job, and only when it is done.
Benign == Faults \cap {"kill", "retry", "streak", "linger", "straggle"} = {}

-----------------------------------------------------------------------------
(* The inductive invariant                                                 *)

\* Where the dispatcher is before it has locked, and while it holds, the nodes of
\* the job it handles.
Locking == {"reserved", "prep", "lock_machines", "block", "list", "lock_many"}
Holding == {"locked", "popen"}

BeforeChild == {"none", "start", "push_pid", "reimage", "reimaging", "joining",
                "reimaged", "reimage_failed", "reimage_unlock", "reimage_dead",
                "reimage_mark_down", "spawn"}
AfterChild  == {"final_push", "ansible", "list", "unlock", "describe", "set_description"}

Holds(j, S) == \A n \in S : holder[n] = j

\* From its start until the watchdog unlocks, or its process ends, a job owns its
\* targets.
Owning(j) ==
  \/ spc[j] \in {"start", "push_pid", "reimage", "reimaging", "joining", "reimaged", "spawn",
                  "kill_only"}
  \/ child[j] \in {"starting", "running"}
  \/ /\ spc[j] = "kill_unlock"
     /\ kpc[Self(j)] \in {"get_jobs", "kill_processes", "push", "find_targets"}

\* What unlock_targets has listed is held until it is unlocked.
HeldInv(j) ==
  /\ Owning(j) => Holds(j, targets[j])
  /\ spc[j] \in {"reimage_failed", "list"} => Holds(j, locked[j])

\* A job process lives between its spawning and the end of the watchdog; kill_job
\* goes on only when it is gone.
ChildInv(j) ==
  /\ child[j] # "dying"
  /\ spc[j] \in BeforeChild => child[j] = "none"
  /\ spc[j] \in AfterChild  => child[j] = "ended"
  /\ spc[j] \in {"watch", "kill_only", "kill_unlock"} => child[j] # "none"
  /\ kpc[Self(j)] \in {"push", "find_targets", "unlock_safe"} =>
       child[j] \notin {"starting", "running"}

\* Only the watchdog runs kill_job, and its second call unlocks.
KillInv(j) ==
  /\ kpc[<<"kill", j>>] = "idle"
  /\ kpc[Self(j)] # "idle" => spc[j] \in {"kill_only", "kill_unlock"}
  /\ kpc[Self(j)] \in {"find_targets", "unlock_safe"} => spc[j] = "kill_unlock"

\* A node that is about to be described is down and free: nobody can lock it.
FailInv(j) ==
  /\ failures[j] \subseteq down
  /\ spc[j] = "describe" => Holds(Free, failures[j] \ todo[j])
  /\ spc[j] = "set_description" => Holds(Free, failures[j])

\* What paddles has on record as targets was locked; a job in the queue has none.
RecordInv(j) ==
  /\ job_targets[j] \subseteq targets[j]
  /\ queue[j] \in {"ready", "reserved"} => targets[j] = {}

\* Only while reimage_machines waits for them does a node's reimaging go on.
ImagingInv(j) == imaging[j] # {} => spc[j] = "joining" /\ imaging[j] \subseteq targets[j]

JobInv(j) == HeldInv(j) /\ ChildInv(j) /\ KillInv(j) /\ FailInv(j) /\ RecordInv(j)
             /\ ImagingInv(j)

TurnOwns ==
  /\ dpc \in Locking => targets[djob] = {}
  /\ dpc \in Locking \cup Holding \cup {"unlock"} => spc[djob] = "none"
  /\ dpc \in Holding => Holds(djob, targets[djob])

\* A locked node is described by the job that has it.
DescInv == \A n \in Nodes : holder[n] # Free => description[n] = holder[n]

\* Where the greenlets of unlock_safe run.
Unlocks(c) ==
  \/ c[1] = "supervisor" /\ spc[JobOf(c)] \in {"reimage_unlock", "unlock"}
  \/ c[1] = "supervisor" /\ kpc[c] = "unlock_safe"
  \/ c[1] = "dispatcher" /\ dpc = "unlock" /\ djob = JobOf(c)

\* A node is unlocked only for the job that has it; when one greenlet fails, the
\* others have ended.
CallerInv(c) ==
  /\ \A n \in Nodes :
       unlocking[c][n] # "idle" =>
         Unlocks(c) /\ (unlocking[c][n] = "failed" \/ holder[n] = JobOf(c))
  /\ UnlockFailed(c) => \A n \in Nodes : unlocking[c][n] \in {"idle", "failed"}

OwnInv ==
  /\ \A j \in Jobs : JobInv(j)
  /\ \A c \in Callers : CallerInv(c)
  /\ TurnOwns
  /\ DescInv

-----------------------------------------------------------------------------
(* What the steps for one job leave alone                                  *)

\* Only the nodes of job j change hands, and none that is down is locked.
Moves(j) ==
  /\ down \subseteq down'
  /\ \A n \in Nodes :
       \/ holder'[n] = holder[n]
       \/ holder[n] = Free /\ holder'[n] = j /\ n \notin down
       \/ holder[n] = j /\ holder'[n] = Free

SameJob(i) ==
  /\ spc'[i] = spc[i] /\ child'[i] = child[i]
  /\ kpc'[Self(i)] = kpc[Self(i)] /\ kpc'[<<"kill", i>>] = kpc[<<"kill", i>>]
  /\ imaging'[i] = imaging[i] /\ targets'[i] = targets[i] /\ todo'[i] = todo[i]
  /\ locked'[i] = locked[i] /\ failures'[i] = failures[i]
  /\ job_targets'[i] = job_targets[i]

LEMMA FreeIsNoJob == Free \notin Jobs
BY JobsAssumption

LEMMA OthersKept ==
  ASSUME TypeOK, NEW j \in Jobs, NEW i \in Jobs, i # j, JobInv(i), Moves(j), SameJob(i),
         queue'[i] \in {"ready", "reserved"} => queue[i] \in {"ready", "reserved"}
  PROVE  JobInv(i)'
<1>1. ASSUME NEW S \in SUBSET Nodes, Holds(i, S) PROVE \A n \in S : holder'[n] = i
  BY <1>1, FreeIsNoJob DEF Holds, Moves
<1>2. ASSUME NEW S \in SUBSET Nodes, S \subseteq down, Holds(Free, S)
      PROVE  \A n \in S : holder'[n] = Free
  BY <1>2 DEF Holds, Moves
<1>3. targets[i] \in SUBSET Nodes /\ locked[i] \in SUBSET Nodes /\ failures[i] \in SUBSET Nodes
  BY DEF TypeOK, SupervisorTypeOK
<1>4. HeldInv(i)'
  BY <1>1, <1>3 DEF JobInv, HeldInv, SameJob, Owning, Holds
<1>5. ChildInv(i)' /\ KillInv(i)' /\ RecordInv(i)' /\ ImagingInv(i)'
  BY DEF JobInv, ChildInv, KillInv, RecordInv, ImagingInv, SameJob
<1>6. FailInv(i)'
  <2>1. failures[i] \subseteq down
    BY DEF JobInv, FailInv
  <2>2. failures[i] \ todo[i] \in SUBSET Nodes /\ failures[i] \ todo[i] \subseteq down
    BY <1>3, <2>1
  <2> QED
    BY <1>2, <1>3, <2>1, <2>2 DEF JobInv, FailInv, SameJob, Moves, Holds
<1> QED
  BY <1>4, <1>5, <1>6 DEF JobInv

\* The other jobs' greenlets do not notice.
LEMMA CallersKept ==
  ASSUME NEW j \in Jobs, NEW c \in Callers, JobOf(c) # j, CallerInv(c), Moves(j),
         SameJob(JobOf(c)), unlocking'[c] = unlocking[c],
         dpc = "unlock" => UNCHANGED <<dpc, djob>>
  PROVE  CallerInv(c)'
<1>1. Unlocks(c) => Unlocks(c)'
  <2>1. c[1] = "supervisor" => c = Self(JobOf(c))
    BY DEF Callers, JobOf, Self
  <2> QED
    BY <2>1 DEF Unlocks, SameJob, JobOf
<1>2. \A n \in Nodes : holder[n] = JobOf(c) => holder'[n] = JobOf(c)
  BY FreeIsNoJob DEF Moves, Callers, JobOf
<1> QED
  BY <1>1, <1>2 DEF CallerInv, UnlockFailed, JobOf

-----------------------------------------------------------------------------
(* Steps of unlock_safe                                                    *)

\* Nobody kills jobs but the watchdogs: no greenlet belongs to teuthology-kill.
LEMMA OnlyOwnGreenlets ==
  ASSUME OwnInv, NEW j \in Jobs, NEW c \in Callers, JobOf(c) = j, c # Self(j),
         NEW n \in Nodes, unlocking[c][n] # "idle"
  PROVE  dpc = "unlock" /\ djob = j /\ spc[j] = "none"
<1>1. Unlocks(c) /\ c[1] # "supervisor"
  BY DEF OwnInv, CallerInv, Callers, JobOf, Self
<1> QED
  BY <1>1 DEF Unlocks, OwnInv, TurnOwns

\* Whoever unlocks for a job, nobody works on its nodes any more.
LEMMA UnlocksNotOwning ==
  ASSUME OwnInv, NEW c \in Callers, Unlocks(c)
  PROVE  ~Owning(JobOf(c)) /\ spc[JobOf(c)] \notin {"reimage_failed", "list"}
         /\ ~(dpc \in Holding /\ djob = JobOf(c))
<1> DEFINE j == JobOf(c)
<1>1. j \in Jobs /\ (c[1] = "supervisor" => c = Self(j))
  BY DEF Callers, JobOf, Self
<1>2. ChildInv(j) /\ KillInv(j) /\ TurnOwns
  BY <1>1 DEF OwnInv, JobInv
<1>3. CASE c[1] = "supervisor" /\ spc[j] \in {"reimage_unlock", "unlock"}
  BY <1>2, <1>3 DEF ChildInv, KillInv, TurnOwns, Owning, BeforeChild, AfterChild, Holding
<1>4. CASE c[1] = "supervisor" /\ kpc[c] = "unlock_safe"
  BY <1>1, <1>2, <1>4 DEF ChildInv, KillInv, TurnOwns, Owning, Holding
<1>5. CASE c[1] = "dispatcher" /\ dpc = "unlock" /\ djob = j
  BY <1>2, <1>5 DEF ChildInv, KillInv, TurnOwns, Owning, BeforeChild, Holding
<1> QED
  BY <1>3, <1>4, <1>5 DEF Unlocks

\* Never two of them for the same job.
LEMMA OneUnlocks ==
  ASSUME OwnInv, NEW c \in Callers, NEW d \in Callers, JobOf(c) = JobOf(d),
         Unlocks(c), Unlocks(d)
  PROVE  c = d
<1> DEFINE j == JobOf(c)
<1>1. j \in Jobs /\ c = <<c[1], j>> /\ d = <<d[1], j>>
  BY DEF Callers, JobOf
<1>2. KillInv(j) /\ TurnOwns
  BY <1>1 DEF OwnInv, JobInv
<1>3. ASSUME NEW e \in Callers, JobOf(e) = j, Unlocks(e)
      PROVE  e[1] = IF spc[j] = "none" THEN "dispatcher" ELSE "supervisor"
  <2>1. e = <<e[1], j>>
    BY <1>3 DEF Callers, JobOf
  <2>2. CASE e[1] = "supervisor"
    BY <2>1, <2>2, <1>2, <1>3 DEF Unlocks, KillInv, Self, JobOf
  <2>3. CASE e[1] # "supervisor"
    BY <2>1, <2>3, <1>2, <1>3 DEF Unlocks, TurnOwns, JobOf
  <2> QED
    BY <2>2, <2>3
<1>4. c[1] = d[1]
  BY <1>3
<1> QED
  BY <1>1, <1>4

LEMMA UnlockingOwns ==
  ASSUME TypeOK, TurnInv, OwnInv, Benign, NEW c \in Callers, Unlocking(c)
  PROVE  OwnInv'
<1> DEFINE j == JobOf(c)
<1>1. PICK n \in Nodes : get_status(c, n) \/ node_active_job(c, n) \/ unlock_one(c, n)
  BY DEF Unlocking, UnlockStep
<1>2. UNCHANGED <<killVars, supervisorVars, dispatcherVars>>
  BY DEF Unlocking
<1>3. unlocking[c][n] # "idle"
  BY <1>1 DEF get_status, Fail, node_active_job, unlock_one
<1>4. /\ j \in Jobs /\ Unlocks(c)
      /\ unlocking[c][n] # "failed" /\ holder[n] = j /\ ~UnlockFailed(c)
  BY <1>1, <1>3 DEF OwnInv, CallerInv, Callers, JobOf, get_status, node_active_job, unlock_one
<1>5. \A d \in Callers, m \in Nodes :
        d # c \/ m # n => unlocking'[d][m] = unlocking[d][m]
  <2>1. PICK s \in Steps : unlocking' = [unlocking EXCEPT ![c][n] = s]
    <3>1. CASE get_status(c, n)
      BY <3>1, Zenon DEF get_status, Fail, Steps
    <3>2. CASE node_active_job(c, n)
      BY <3>2, Zenon DEF node_active_job, Fail, Steps
    <3>3. CASE unlock_one(c, n)
      <4>1. \/ unlocking' = [unlocking EXCEPT ![c][n] = "idle"]
            \/ unlocking' = [unlocking EXCEPT ![c][n] = "failed"]
        BY <3>3 DEF unlock_one, Fail, Benign
      <4> QED
        BY <4>1, Zenon DEF Steps
    <3> QED
      BY <1>1, <3>1, <3>2, <3>3
  <2> QED
    BY <2>1 DEF TypeOK, UnlockTypeOK
<1>6. /\ UNCHANGED <<down, jobVars>>
      /\ \/ UNCHANGED <<holder, description>>
         \/ /\ unlocking'[c][n] \in {"idle", "failed"}
            /\ holder' = [holder EXCEPT ![n] = Free]
            /\ \A m \in Nodes : m # n => description'[m] = description[m]
  <2>1. CASE get_status(c, n) \/ node_active_job(c, n)
    BY <2>1 DEF get_status, Fail, node_active_job, paddlesVars, nodeVars
  <2>2. CASE unlock_one(c, n)
    <3>1. \/ unlocking' = [unlocking EXCEPT ![c][n] = "idle"]
          \/ unlocking' = [unlocking EXCEPT ![c][n] = "failed"]
      BY <2>2 DEF unlock_one, Fail, Benign
    <3>2. unlocking'[c][n] \in {"idle", "failed"}
      BY <3>1 DEF TypeOK, UnlockTypeOK
    <3> QED
      BY <2>2, <3>2 DEF unlock_one, Fail, UnlockNode, TypeOK, PaddlesTypeOK, nodeVars
  <2> QED
    BY <1>1, <2>1, <2>2
<1>7. /\ \A m \in Nodes : holder'[m] = holder[m] \/ (m = n /\ holder'[m] = Free)
      /\ UNCHANGED holder \/ unlocking'[c][n] \in {"idle", "failed"}
  BY <1>6 DEF TypeOK, PaddlesTypeOK
<1>8. Moves(j)
  BY <1>4, <1>6, <1>7 DEF Moves
<1>9. \A i \in Jobs : SameJob(i)
  BY <1>2, <1>6 DEF SameJob, killVars, supervisorVars, jobVars
<1>10. UNCHANGED <<queue, dpc, djob>>
  BY <1>2 DEF dispatcherVars
<1>11. ASSUME NEW i \in Jobs, i # j PROVE JobInv(i)'
  BY <1>4, <1>8, <1>9, <1>10, <1>11, OthersKept DEF OwnInv
<1>12. JobInv(j)'
  <2>1. JobInv(j) /\ SameJob(j)
    BY <1>4, <1>9 DEF OwnInv
  <2>2. HeldInv(j)'
    <3>1. ~Owning(j)' /\ spc'[j] \notin {"reimage_failed", "list"}
      BY <1>4, <2>1, UnlocksNotOwning DEF SameJob, Owning
    <3> QED
      BY <3>1 DEF HeldInv
  <2>3. ChildInv(j)' /\ KillInv(j)' /\ RecordInv(j)' /\ ImagingInv(j)'
    BY <2>1, <1>10 DEF JobInv, ChildInv, KillInv, RecordInv, ImagingInv, SameJob
  <2>4. FailInv(j)'
    BY <2>1, <1>4, <1>6, <1>7 DEF JobInv, FailInv, SameJob, Holds, TypeOK, SupervisorTypeOK
  <2> QED
    BY <2>2, <2>3, <2>4 DEF JobInv
<1>13. ASSUME NEW d \in Callers PROVE CallerInv(d)'
  <2>5. ASSUME NEW m \in Nodes, unlocking'[d][m] # "idle"
        PROVE  Unlocks(d)' /\ (unlocking'[d][m] = "failed" \/ holder'[m] = JobOf(d))
    <3>1. unlocking[d][m] # "idle"
      BY <1>3, <1>5, <2>5
    <3>2. Unlocks(d) /\ (unlocking[d][m] = "failed" \/ holder[m] = JobOf(d))
      BY <3>1 DEF OwnInv, CallerInv
    <3>3. Unlocks(d)'
      BY <3>2, <1>2 DEF Unlocks, JobOf, killVars, supervisorVars, dispatcherVars
    <3>4. CASE m # n
      BY <3>2, <3>3, <3>4, <1>5, <1>7
    <3>5. CASE m = n /\ d = c
      BY <2>5, <3>3, <3>5, <1>4, <1>7
    <3>6. CASE m = n /\ d # c
      BY <3>2, <3>3, <3>6, <1>4, <1>5, OneUnlocks
    <3> QED
      BY <3>4, <3>5, <3>6
  <2>6. UnlockFailed(d)' => \A m \in Nodes : unlocking'[d][m] \in {"idle", "failed"}
    <3>1. CASE d # c
      BY <3>1, <1>5 DEF OwnInv, CallerInv, UnlockFailed
    <3>2. CASE d = c /\ unlocking'[c][n] = "failed"
      <4>1. CanFail(c, n)
        <5>1. unlocking' # [unlocking EXCEPT ![c][n] = "idle"]
              /\ unlocking' # [unlocking EXCEPT ![c][n] = "node_active_job"]
              /\ unlocking' # [unlocking EXCEPT ![c][n] = "unlock_one"]
          BY <3>2 DEF TypeOK, UnlockTypeOK
        <5> QED
          BY <5>1, <1>1 DEF get_status, node_active_job, unlock_one, Fail, Benign
      <4> QED
        BY <3>2, <4>1, <1>5 DEF CanFail, Benign
    <3>3. CASE d = c /\ unlocking'[c][n] # "failed"
      BY <3>3, <1>4, <1>5 DEF UnlockFailed
    <3> QED
      BY <3>1, <3>2, <3>3
  <2> QED
    BY <2>5, <2>6 DEF CallerInv, JobOf
<1>14. TurnOwns'
  <2>1. ~(dpc \in Holding /\ djob = j)
    BY <1>4, UnlocksNotOwning
  <2>2. TurnOwns /\ UNCHANGED <<spc, targets>>
    BY <1>2 DEF OwnInv, supervisorVars
  <2>3. dpc \in Holding => Holds(djob, targets[djob])'
    <3> SUFFICES ASSUME dpc \in Holding, NEW m \in targets[djob]
                 PROVE  holder'[m] = djob
      BY <2>2, <1>10 DEF Holds
    <3>1. holder[m] = djob /\ m # n
      BY <1>4, <2>1, <2>2 DEF TurnOwns, Holds
    <3>2. m \in Nodes
      BY BusyWithJob DEF Holding, TypeOK, SupervisorTypeOK
    <3> QED
      BY <3>1, <3>2, <1>7
  <2> QED
    BY <2>2, <2>3, <1>10 DEF TurnOwns
<1>15. DescInv'
  BY <1>6 DEF DescInv, OwnInv, TypeOK, PaddlesTypeOK
<1> QED
  BY <1>11, <1>12, <1>13, <1>14, <1>15 DEF OwnInv

-----------------------------------------------------------------------------
(* Steps of the supervisors, their kill_job and the job processes          *)

\* What is left to show of a step of job j that locks and unlocks nothing.
LEMMA JobSide ==
  ASSUME TypeOK, TurnInv, OwnInv, NEW j \in Jobs, spc[j] # "none", spc'[j] # "none",
         UNCHANGED <<holder, targets, queue, dpc, djob>>, down \subseteq down',
         \A i \in Jobs : i # j => SameJob(i),
         \A c \in Callers : c # Self(j) => unlocking'[c] = unlocking[c],
         JobInv(j)', CallerInv(Self(j))', DescInv'
  PROVE  OwnInv'
<1>1. Moves(j)
  BY DEF Moves
<1>2. ASSUME NEW i \in Jobs, i # j PROVE JobInv(i)'
  BY <1>1, <1>2, OthersKept DEF OwnInv
<1>3. ASSUME NEW c \in Callers, c # Self(j) PROVE CallerInv(c)'
  <2>1. CASE JobOf(c) # j
    <3>1. JobOf(c) \in Jobs
      BY DEF Callers, JobOf
    <3> QED
      BY <3>1, <2>1, <1>1, <1>3, CallersKept DEF OwnInv
  <2>2. CASE JobOf(c) = j
    BY <2>2, <1>3, OnlyOwnGreenlets DEF CallerInv, UnlockFailed
  <2> QED
    BY <2>1, <2>2
<1>4. TurnOwns'
  <2>1. dpc \in Locking \cup Holding \cup {"unlock"} => djob \in Jobs /\ djob # j
    BY BusyWithJob DEF OwnInv, TurnOwns, Locking, Holding
  <2>2. dpc \in Locking \cup Holding \cup {"unlock"} => spc'[djob] = spc[djob]
    BY <2>1 DEF SameJob
  <2> QED
    BY <2>2 DEF OwnInv, TurnOwns, Holds, Holding
<1> QED
  BY <1>2, <1>3, <1>4 DEF OwnInv

\* A step of job j is not one of any other job.
LEMMA PushSame ==
  ASSUME TypeOK, NEW j \in Jobs, NEW s, NEW p, NEW t,
         Push(j, s, p, t) \/ UNCHANGED jobVars
  PROVE  /\ \A i \in Jobs : i # j => job_targets'[i] = job_targets[i]
         /\ job_targets'[j] \in {job_targets[j], t}
BY DEF Push, TypeOK, PaddlesTypeOK, jobVars

\* A step of job j that only reads the lock server.
LEMMA QuietSide ==
  ASSUME TypeOK, TurnInv, OwnInv, NEW j \in Jobs, spc[j] # "none", spc'[j] # "none",
         UNCHANGED <<nodeVars, unlockVars, dispatcherVars, targets>>,
         \A i \in Jobs : i # j => SameJob(i),
         \/ spc[j] \notin {"reimage_unlock", "unlock"} /\ kpc[Self(j)] # "unlock_safe"
         \/ UNCHANGED <<spc, kpc>>
         \/ \A n \in Nodes : unlocking[Self(j)][n] = "idle",
         JobInv(j)'
  PROVE  OwnInv'
<1>1. UNCHANGED <<holder, description, down, unlocking, queue, dpc, djob>>
  BY DEF nodeVars, unlockVars, dispatcherVars
<1>2. CallerInv(Self(j))'
  <2>1. Self(j) \in Callers /\ JobOf(Self(j)) = j /\ Self(j)[1] = "supervisor"
    BY DEF Self, Callers, JobOf
  <2>2. CallerInv(Self(j))
    BY <2>1 DEF OwnInv
  <2> QED
    BY <1>1, <2>1, <2>2 DEF CallerInv, UnlockFailed, Unlocks, JobOf
<1>3. DescInv'
  BY <1>1 DEF OwnInv, DescInv
<1> QED
  BY <1>1, <1>2, <1>3, JobSide

\* Reports to the results server.
LEMMA ReportOwns ==
  ASSUME TypeOK, TurnInv, OwnInv, NEW j \in Jobs, UNCHANGED dispatcherVars,
         \/ sup_check_expiration(j) \/ sup_push_pid(j) \/ reimage(j) \/ reimage_done(j)
         \/ reimage_push_dead(j) \/ watch_final_push(j)
  PROVE  OwnInv'
<1> DEFINE Step(from, to) == spc[j] = from /\ spc' = [spc EXCEPT ![j] = to]
<1>1. \/ Step("start", "push_pid") \/ Step("push_pid", "reimage")
      \/ Step("reimage", "reimaging") \/ Step("reimaged", "spawn")
      \/ Step("reimage_dead", "reimage_mark_down") \/ Step("final_push", "ansible")
      \/ /\ spc[j] \in {"start", "push_pid", "reimage", "reimaged", "reimage_dead", "final_push"}
         /\ spc' = [spc EXCEPT ![j] = "exited"]
  BY DEF sup_check_expiration, sup_push_pid, reimage, reimage_done, reimage_push_dead,
         watch_final_push, PushThen, Goto
<1>2. /\ UNCHANGED <<nodeVars, unlockVars, killVars, child, imaging, targets, locked, failures>>
      /\ UNCHANGED todo \/ todo' = [todo EXCEPT ![j] = targets[j]]
  BY DEF sup_check_expiration, sup_push_pid, reimage, reimage_done, reimage_push_dead,
         watch_final_push, PushThen, loopVars, paddlesVars
<1>3. \E s, p : \E t \in {job_targets[j], targets[j]} :
         Push(j, s, p, t) \/ UNCHANGED jobVars
  BY Zenon
     DEF sup_check_expiration, sup_push_pid, reimage, reimage_done, reimage_push_dead,
         watch_final_push, PushThen, PushRaises, paddlesVars
<1>4. /\ \A i \in Jobs : i # j => job_targets'[i] = job_targets[i]
      /\ job_targets'[j] \in {job_targets[j], targets[j]}
  BY <1>3, PushSame
<1>5. ASSUME NEW i \in Jobs, i # j PROVE SameJob(i)
  BY <1>1, <1>2, <1>4, <1>5 DEF SameJob, killVars, TypeOK, SupervisorTypeOK
<1>6. JobInv(j)'
  <2>1. JobInv(j)
    BY DEF OwnInv
  <2>2. HeldInv(j)'
    BY <1>1, <1>2, <2>1 DEF JobInv, HeldInv, Owning, Holds, ChildInv, BeforeChild, AfterChild,
       nodeVars, killVars, TypeOK, SupervisorTypeOK
  <2>3. ChildInv(j)'
    BY <1>1, <1>2, <2>1 DEF JobInv, ChildInv, BeforeChild, AfterChild, killVars, TypeOK,
       SupervisorTypeOK
  <2>4. KillInv(j)'
    BY <1>1, <1>2, <2>1 DEF JobInv, KillInv, killVars, TypeOK, SupervisorTypeOK
  <2>5. FailInv(j)'
    BY <1>1, <1>2, <2>1 DEF JobInv, FailInv, Holds, nodeVars, TypeOK, SupervisorTypeOK
  <2>6. RecordInv(j)'
    BY <1>2, <1>4, <2>1 DEF JobInv, RecordInv, dispatcherVars
  <2>7. ImagingInv(j)'
    BY <1>1, <1>2, <2>1 DEF JobInv, ImagingInv, TypeOK, SupervisorTypeOK
  <2> QED
    BY <2>2, <2>3, <2>4, <2>5, <2>6, <2>7 DEF JobInv
<1>7. spc[j] # "none" /\ spc'[j] # "none" /\ spc[j] \notin {"reimage_unlock", "unlock"}
      /\ kpc[Self(j)] # "unlock_safe"
  BY <1>1 DEF OwnInv, JobInv, KillInv, TypeOK, SupervisorTypeOK
<1> QED
  BY <1>2, <1>5, <1>6, <1>7, QuietSide

\* The job process and the end of the supervisor.
LEMMA GotoOwns ==
  ASSUME TypeOK, TurnInv, OwnInv, NEW j \in Jobs, UNCHANGED dispatcherVars,
         \/ reimage_raise(j) \/ sup_spawn_job(j) \/ watch_poll(j)
         \/ describe_listed(j) \/ sup_exit(j)
         \/ /\ spc[j] \in {"reimage_failed", "list", "describe", "reimage_mark_down"}
            /\ QueryRaises(j) /\ UNCHANGED <<jobVars, unlockVars, killVars, child>>
  PROVE  OwnInv'
<1> DEFINE Step(from, to) == spc[j] = from /\ spc' = [spc EXCEPT ![j] = to]
<1>1. \/ Step("reimage_mark_down", "exited") /\ UNCHANGED child
      \/ Step("spawn", "watch") /\ child' = [child EXCEPT ![j] = "starting"]
      \/ Step("watch", "final_push") /\ child[j] = "ended" /\ UNCHANGED child
      \/ Step("describe", "set_description") /\ todo[j] = {} /\ UNCHANGED child
      \/ Step("set_description", "exited") /\ UNCHANGED child
      \/ /\ spc[j] \in {"reimage_failed", "list", "describe", "reimage_mark_down"}
         /\ spc' = [spc EXCEPT ![j] = "exited"] /\ UNCHANGED child
  BY DEF reimage_raise, sup_spawn_job, watch_poll, describe_listed, sup_exit, QueryRaises, Goto
<1>2. /\ UNCHANGED <<nodeVars, job_targets, unlockVars, killVars, imaging, targets>>
      /\ UNCHANGED <<todo, locked, failures>>
  BY DEF reimage_raise, sup_spawn_job, watch_poll, describe_listed, sup_exit, QueryRaises,
         loopVars, paddlesVars, jobVars
<1>3. ASSUME NEW i \in Jobs, i # j PROVE SameJob(i)
  BY <1>1, <1>2, <1>3 DEF SameJob, killVars, TypeOK, SupervisorTypeOK, KillTypeOK
<1>4. JobInv(j)'
  <2>1. JobInv(j)
    BY DEF OwnInv
  <2>2. HeldInv(j)'
    BY <1>1, <1>2, <2>1 DEF JobInv, HeldInv, Owning, Holds, ChildInv, BeforeChild, AfterChild,
       nodeVars, killVars, TypeOK, SupervisorTypeOK, KillTypeOK
  <2>3. KillInv(j)'
    BY <1>1, <1>2, <2>1 DEF JobInv, KillInv, killVars, TypeOK, SupervisorTypeOK
  <2>4. ChildInv(j)'
    BY <1>1, <1>2, <2>1 DEF JobInv, ChildInv, KillInv, BeforeChild, AfterChild, killVars,
       TypeOK,
       SupervisorTypeOK, KillTypeOK
  <2>5. FailInv(j)'
    BY <1>1, <1>2, <2>1 DEF JobInv, FailInv, Holds, nodeVars, TypeOK, SupervisorTypeOK
  <2>6. RecordInv(j)'
    BY <1>2, <2>1 DEF JobInv, RecordInv, dispatcherVars
  <2>7. ImagingInv(j)'
    BY <1>1, <1>2, <2>1 DEF JobInv, ImagingInv, TypeOK, SupervisorTypeOK
  <2> QED
    BY <2>2, <2>3, <2>4, <2>5, <2>6, <2>7 DEF JobInv
<1>5. spc[j] # "none" /\ spc'[j] # "none" /\ spc[j] \notin {"reimage_unlock", "unlock"}
      /\ kpc[Self(j)] # "unlock_safe"
  BY <1>1 DEF OwnInv, JobInv, KillInv, TypeOK, SupervisorTypeOK
<1> QED
  BY <1>2, <1>3, <1>4, <1>5, QuietSide

\* The watchdog's two calls of kill_job.
LEMMA WatchdogOwns ==
  ASSUME TypeOK, TurnInv, OwnInv, NEW j \in Jobs, UNCHANGED dispatcherVars,
         watch_timeout(j) \/ watch_killed(j)
  PROVE  OwnInv'
<1> DEFINE Step(from, to) == spc[j] = from /\ spc' = [spc EXCEPT ![j] = to]
           Kill(to)       == kpc' = [kpc EXCEPT ![Self(j)] = to]
<1>1. \/ Step("watch", "kill_only") /\ Kill("get_jobs") /\ child[j] # "ended"
      \/ /\ Step("kill_only", "kill_unlock") /\ Kill("get_jobs")
         /\ kpc[Self(j)] \in {"returned", "failed"}
      \/ /\ Step("kill_unlock", "watch") /\ Kill("idle")
         /\ kpc[Self(j)] \in {"returned", "failed"}
  BY DEF watch_timeout, watch_killed, Goto
<1>2. /\ UNCHANGED <<nodeVars, job_targets, unlockVars, child>>
      /\ UNCHANGED <<imaging, targets, todo, locked, failures>>
  BY DEF watch_timeout, watch_killed, loopVars, paddlesVars, jobVars
<1>3. Self(j) \in Killers /\ <<"kill", j>> \in Killers /\ <<"kill", j>> # Self(j)
      /\ \A i \in Jobs : i # j => Self(i) # Self(j) /\ <<"kill", i>> # Self(j)
  BY DEF Self, Killers
<1>4. kpc'[<<"kill", j>>] = kpc[<<"kill", j>>] /\ kpc'[Self(j)] \in {"get_jobs", "idle"}
      /\ (kpc'[Self(j)] = "idle" <=> spc'[j] = "watch")
  BY <1>1, <1>3 DEF TypeOK, KillTypeOK, SupervisorTypeOK
<1>5. ASSUME NEW i \in Jobs, i # j PROVE SameJob(i)
  <2>1. kpc'[Self(i)] = kpc[Self(i)] /\ kpc'[<<"kill", i>>] = kpc[<<"kill", i>>]
    <3>1. Self(i) \in Killers /\ <<"kill", i>> \in Killers
      BY DEF Self, Killers
    <3> QED
      BY <1>1, <1>3, <1>5, <3>1 DEF TypeOK, KillTypeOK
  <2> QED
    BY <1>1, <1>2, <1>5, <2>1 DEF SameJob, TypeOK, SupervisorTypeOK
<1>6. spc[j] \in {"watch", "kill_only", "kill_unlock"}
      /\ spc'[j] \in {"watch", "kill_only", "kill_unlock"}
  BY <1>1 DEF TypeOK, SupervisorTypeOK
<1>7. JobInv(j)'
  <2>1. JobInv(j)
    BY DEF OwnInv
  <2>2. HeldInv(j)'
    <3>1. Owning(j)' => Owning(j)
      BY <1>1, <1>2, <2>1 DEF JobInv, Owning, ChildInv, TypeOK, SupervisorTypeOK, KillTypeOK,
         ChildStates
    <3> QED
      BY <1>2, <1>6, <2>1, <3>1 DEF JobInv, HeldInv, Holds, nodeVars
  <2>3. KillInv(j)'
    BY <1>4, <1>6, <2>1 DEF JobInv, KillInv
  <2>4. ChildInv(j)'
    BY <1>2, <1>4, <1>6, <2>1 DEF JobInv, ChildInv, BeforeChild, AfterChild
  <2>5. FailInv(j)'
    BY <1>2, <1>6, <2>1 DEF JobInv, FailInv, nodeVars
  <2>6. RecordInv(j)'
    BY <1>2, <2>1 DEF JobInv, RecordInv, dispatcherVars
  <2>7. ImagingInv(j)'
    BY <1>1, <1>2, <2>1 DEF JobInv, ImagingInv, TypeOK, SupervisorTypeOK
  <2> QED
    BY <2>2, <2>3, <2>4, <2>5, <2>6, <2>7 DEF JobInv
<1>8. kpc[Self(j)] # "unlock_safe"
  <2>1. KillInv(j)
    BY DEF OwnInv, JobInv
  <2> QED
    BY <1>1, <2>1 DEF KillInv
<1> QED
  BY <1>2, <1>5, <1>6, <1>7, <1>8, QuietSide

\* The loops over the targets start and end.
LEMMA LoopOwns ==
  ASSUME TypeOK, TurnInv, OwnInv, Benign, NEW j \in Jobs, UNCHANGED dispatcherVars,
         \/ reimage_machines(j) \/ reimage_joined(j)
         \/ \E n \in Nodes : provision_reimage(j, n)
         \/ ansible_checked(j) \/ unlock_targets_done(j)
         \/ unlock_targets(j) /\ (locked[j] = {} \/ j \in KeepLocked)
  PROVE  OwnInv'
<1> DEFINE Step(from, to) == spc[j] \in from /\ spc' = [spc EXCEPT ![j] = to]
<1>1. \/ Step({"reimaging"}, "joining") /\ UNCHANGED <<todo, locked>>
      \/ Step({"joining"}, "reimaged") /\ UNCHANGED <<todo, locked>>
      \/ spc[j] = "joining" /\ UNCHANGED <<spc, todo, locked>>
      \/ Step({"reimaging", "joining"}, "reimage_failed") /\ locked' = [locked EXCEPT ![j] = {}]
      \/ Step({"ansible"}, "list") /\ locked' = [locked EXCEPT ![j] = {}]
      \/ /\ Step({"list", "unlock"}, "describe") /\ UNCHANGED locked
         /\ todo' = [todo EXCEPT ![j] = failures[j]]
      \/ Step({"reimage_failed", "reimage_unlock"}, "reimage_dead") /\ UNCHANGED locked
  <2>1. CASE \E n \in Nodes : provision_reimage(j, n)
    BY <2>1 DEF provision_reimage, ReimageRaises, Goto, OwnInv, JobInv, ImagingInv
  <2> QED
    BY <2>1 DEF reimage_machines, reimage_joined, ReimageRaises, ansible_checked,
       unlock_targets, unlock_targets_done, Goto, AfterUnlock
<1>2. /\ UNCHANGED <<nodeVars, job_targets, unlockVars, killVars, child, targets, failures>>
      /\ todo' = todo \/ todo' = [todo EXCEPT ![j] = targets[j]]
                      \/ todo' = [todo EXCEPT ![j] = failures[j]]
  BY DEF reimage_machines, reimage_joined, provision_reimage, ReimageRaises, ansible_checked,
         unlock_targets, unlock_targets_done, paddlesVars, jobVars
<1>7. /\ \A i \in Jobs : i # j => imaging'[i] = imaging[i]
      /\ imaging'[j] # {} => spc'[j] = "joining" /\ imaging'[j] \subseteq targets[j]
  <2>1. JobInv(j)
    BY DEF OwnInv
  <2>2. CASE reimage_machines(j)
    <3>1. \/ imaging' = [imaging EXCEPT ![j] = targets[j]] /\ spc' = [spc EXCEPT ![j] = "joining"]
          \/ imaging' = [imaging EXCEPT ![j] = {}]
      BY <2>2 DEF reimage_machines, Goto, Benign
    <3> QED
      BY <3>1 DEF TypeOK, SupervisorTypeOK
  <2>3. ASSUME NEW n \in Nodes, provision_reimage(j, n)
        PROVE  /\ \A i \in Jobs : i # j => imaging'[i] = imaging[i]
               /\ imaging'[j] # {} => spc'[j] = "joining" /\ imaging'[j] \subseteq targets[j]
    <3>1. imaging' = [imaging EXCEPT ![j] = @ \ {n}] /\ n \in imaging[j]
          /\ (UNCHANGED spc \/ imaging[j] = {n})
      BY <2>3 DEF provision_reimage, Benign
    <3> QED
      BY <3>1, <2>1 DEF JobInv, ImagingInv, TypeOK, SupervisorTypeOK
  <2>4. CASE UNCHANGED imaging /\ spc[j] # "joining"
    BY <2>1, <2>4 DEF JobInv, ImagingInv
  <2>5. CASE reimage_joined(j)
    BY <2>5 DEF reimage_joined
  <2> QED
    BY <2>2, <2>3, <2>4, <2>5 DEF ansible_checked, unlock_targets, unlock_targets_done
<1>3. ASSUME NEW i \in Jobs, i # j PROVE SameJob(i)
  BY <1>1, <1>2, <1>3, <1>7 DEF SameJob, killVars, TypeOK, SupervisorTypeOK
<1>4. JobInv(j)'
  <2>1. JobInv(j)
    BY DEF OwnInv
  <2>2. HeldInv(j)'
    BY <1>1, <1>2, <2>1 DEF JobInv, HeldInv, Owning, Holds, ChildInv, BeforeChild, AfterChild,
       nodeVars, killVars, TypeOK, SupervisorTypeOK
  <2>3. KillInv(j)'
    BY <1>1, <1>2, <2>1 DEF JobInv, KillInv, killVars, TypeOK, SupervisorTypeOK
  <2>4. ChildInv(j)'
    BY <1>1, <1>2, <2>1 DEF JobInv, ChildInv, BeforeChild, AfterChild, killVars, TypeOK,
       SupervisorTypeOK
  <2>5. FailInv(j)'
    BY <1>1, <1>2, <2>1 DEF JobInv, FailInv, Holds, nodeVars, TypeOK, SupervisorTypeOK
  <2>6. RecordInv(j)'
    BY <1>2, <2>1 DEF JobInv, RecordInv, dispatcherVars
  <2>7. ImagingInv(j)'
    BY <1>2, <1>7 DEF ImagingInv
  <2> QED
    BY <2>2, <2>3, <2>4, <2>5, <2>6, <2>7 DEF JobInv
<1>5. spc[j] # "none" /\ spc'[j] # "none" /\ kpc[Self(j)] # "unlock_safe"
  BY <1>1 DEF OwnInv, JobInv, KillInv, TypeOK, SupervisorTypeOK
<1>6. \/ spc[j] \notin {"reimage_unlock", "unlock"}
      \/ \A n \in Nodes : unlocking[Self(j)][n] = "idle"
  <2>1. CASE unlock_targets_done(j)
    BY <2>1 DEF unlock_targets_done, Unlocked, Idle
  <2> QED
    BY <2>1, <1>1 DEF reimage_machines, reimage_joined, provision_reimage, ReimageRaises,
       ansible_checked, unlock_targets, OwnInv, JobInv, ImagingInv
<1> QED
  BY <1>2, <1>3, <1>4, <1>5, <1>6, QuietSide

\* ... and visit one target, of which they read what the lock server has.
LEMMA VisitOwns ==
  ASSUME TypeOK, TurnInv, OwnInv, Benign, NEW j \in Jobs, UNCHANGED dispatcherVars,
         NEW n \in Nodes, ~QueryRaises(j),
         \/ list_target(j, n) \/ describe_still_locked(j, n)
         \/ check_for_reimage_failures_and_mark_down(j, n)
  PROVE  OwnInv'
<1>1. \/ /\ spc[j] \in {"reimage_failed", "list"} /\ UNCHANGED failures
         /\ \/ UNCHANGED locked
            \/ /\ holder[n] # Free /\ description[n] = j
               /\ locked' = [locked EXCEPT ![j] = @ \cup {n}]
      \/ /\ spc[j] = "describe" /\ UNCHANGED locked
         /\ failures' = IF holder[n] # Free THEN [failures EXCEPT ![j] = @ \ {n}] ELSE failures
      \/ spc[j] = "reimage_mark_down" /\ UNCHANGED <<locked, failures>>
  BY DEF list_target, describe_still_locked, check_for_reimage_failures_and_mark_down
<1>2. /\ UNCHANGED <<nodeVars, job_targets, unlockVars, killVars, spc, child>>
      /\ UNCHANGED <<imaging, targets>>
      /\ todo' = [todo EXCEPT ![j] = @ \ {n}]
  BY DEF list_target, describe_still_locked,
         check_for_reimage_failures_and_mark_down, paddlesVars, jobVars, Benign
<1>3. ASSUME NEW i \in Jobs, i # j PROVE SameJob(i)
  BY <1>1, <1>2, <1>3 DEF SameJob, killVars, TypeOK, SupervisorTypeOK
<1>4. JobInv(j)'
  <2>1. JobInv(j)
    BY DEF OwnInv
  <2>2. HeldInv(j)'
    <3>1. (Owning(j) => Holds(j, targets[j]))'
      BY <1>2, <2>1 DEF JobInv, HeldInv, Owning, Holds, nodeVars, killVars
    <3>2. ASSUME spc[j] \in {"reimage_failed", "list"} PROVE Holds(j, locked[j])'
      <4>1. locked'[j] = locked[j] \/ (holder[n] = j /\ locked'[j] = locked[j] \cup {n})
        BY <1>1, <3>2 DEF OwnInv, DescInv, TypeOK, SupervisorTypeOK
      <4> QED
        BY <1>2, <2>1, <3>2, <4>1 DEF JobInv, HeldInv, Holds, nodeVars
    <3> QED
      BY <1>2, <3>1, <3>2 DEF HeldInv
  <2>3. ChildInv(j)' /\ KillInv(j)'
    BY <1>2, <2>1 DEF JobInv, ChildInv, KillInv, killVars
  <2>4. FailInv(j)'
    BY <1>1, <1>2, <2>1 DEF JobInv, FailInv, Holds, nodeVars, TypeOK, SupervisorTypeOK
  <2>5. RecordInv(j)' /\ ImagingInv(j)'
    BY <1>2, <2>1 DEF JobInv, RecordInv, ImagingInv, dispatcherVars
  <2> QED
    BY <2>2, <2>3, <2>4, <2>5 DEF JobInv
<1>5. spc[j] # "none" /\ spc'[j] # "none" /\ UNCHANGED <<spc, kpc>>
  BY <1>1, <1>2 DEF killVars
<1> QED
  BY <1>2, <1>3, <1>4, <1>5, QuietSide

\* The nodes ansible found broken.
LEMMA FailuresOwns ==
  ASSUME TypeOK, TurnInv, OwnInv, NEW j \in Jobs, UNCHANGED dispatcherVars, NEW n \in Nodes,
         \/ check_for_ansible_failures_and_mark_down(j, n)
         \/ describe_disabled_targets(j, n)
  PROVE  OwnInv'
<1>1. \/ /\ spc[j] = "ansible"
         /\ \/ /\ down' = down \cup {n}
               /\ description' = [description EXCEPT ![n] = description[n]]
               /\ failures' = [failures EXCEPT ![j] = @ \cup {n}]
            \/ /\ down' = down \cup {n}
               /\ description' = [description EXCEPT ![n] = description[n]]
               /\ UNCHANGED failures
            \/ UNCHANGED <<down, description, failures>>
      \/ /\ spc[j] = "set_description"
         /\ n \in failures[j]
         /\ UNCHANGED down
         /\ \/ description' = [description EXCEPT ![n] = "ansible failure"]
            \/ UNCHANGED description
         /\ failures' = [failures EXCEPT ![j] = @ \ {n}]
  BY DEF check_for_ansible_failures_and_mark_down, describe_disabled_targets, MarkDown,
     Describe,
         nodeVars
<1>2. /\ UNCHANGED <<holder, job_targets, unlocking, spc, child, kpc, imaging, targets, locked>>
      /\ todo' = todo \/ todo' = [todo EXCEPT ![j] = @ \ {n}]
      /\ UNCHANGED <<queue, dpc, djob>>
  BY DEF check_for_ansible_failures_and_mark_down, describe_disabled_targets, MarkDown,
     Describe,
         nodeVars, jobVars, unlockVars, killVars, dispatcherVars
<1>3. down \subseteq down'
  BY <1>1
<1>4. ASSUME NEW i \in Jobs, i # j PROVE SameJob(i)
  BY <1>1, <1>2, <1>4 DEF SameJob, TypeOK, SupervisorTypeOK
<1>5. JobInv(j)'
  <2>1. JobInv(j)
    BY DEF OwnInv
  <2>2. HeldInv(j)' /\ ChildInv(j)' /\ KillInv(j)' /\ RecordInv(j)' /\ ImagingInv(j)'
    BY <1>2, <2>1 DEF JobInv, HeldInv, ChildInv, KillInv, RecordInv, ImagingInv, Owning, Holds
  <2>3. FailInv(j)'
    BY <1>1, <1>2, <2>1 DEF JobInv, FailInv, Holds, TypeOK, SupervisorTypeOK
  <2> QED
    BY <2>2, <2>3 DEF JobInv
<1>6. CallerInv(Self(j))'
  <2>1. Self(j) \in Callers
    BY DEF Self, Callers
  <2> QED
    BY <1>2, <2>1 DEF OwnInv, CallerInv, UnlockFailed, Unlocks, JobOf
<1>7. DescInv'
  <2>1. spc[j] = "set_description" => Holds(Free, failures[j])
    BY DEF OwnInv, JobInv, FailInv
  <2> QED
    BY <1>1, <1>2, <2>1 DEF OwnInv, DescInv, Holds, TypeOK, PaddlesTypeOK
<1>8. spc[j] # "none" /\ spc'[j] # "none"
  BY <1>1, <1>2
<1> QED
  BY <1>2, <1>3, <1>4, <1>5, <1>6, <1>7, <1>8, JobSide

\* The two places where a supervisor starts to unlock.
LEMMA StartUnlockOwns ==
  ASSUME TypeOK, TurnInv, OwnInv, NEW j \in Jobs, UNCHANGED dispatcherVars,
         \/ unlock_targets(j) /\ locked[j] # {} /\ j \notin KeepLocked
         \/ /\ kill_find_targets(Self(j)) /\ kpc'[Self(j)] = "unlock_safe"
            /\ UNCHANGED loopVars
  PROVE  OwnInv'
<1>1. Self(j) \in Callers /\ JobOf(Self(j)) = j /\ Self(j)[1] = "supervisor"
      /\ Self(j) \in Killers
  BY DEF Self, Callers, JobOf, Killers
<1>2. JobInv(j) /\ DescInv
  BY DEF OwnInv
<1>3. PICK S \in SUBSET Nodes : unlock_safe(Self(j), S) /\ Holds(j, S)
  <2>1. CASE unlock_targets(j) /\ locked[j] # {} /\ j \notin KeepLocked
    <3>1. spc[j] \in {"reimage_failed", "list"} /\ unlock_safe(Self(j), locked[j])
      BY <2>1 DEF unlock_targets
    <3>2. locked[j] \in SUBSET Nodes
      BY DEF TypeOK, SupervisorTypeOK
    <3> QED
      BY <3>1, <3>2, <1>2 DEF JobInv, HeldInv
  <2>2. CASE kill_find_targets(Self(j)) /\ kpc'[Self(j)] = "unlock_safe"
    <3>1. kpc[Self(j)] = "find_targets" /\ unlock_safe(Self(j), job_targets[j])
      BY <2>2, <1>1 DEF kill_find_targets, TypeOK, KillTypeOK
    <3>2. Owning(j)
      BY <3>1, <1>2 DEF JobInv, KillInv, Owning
    <3>3. job_targets[j] \subseteq targets[j] /\ targets[j] \in SUBSET Nodes
      BY <1>2 DEF JobInv, RecordInv, TypeOK, SupervisorTypeOK
    <3> QED
      BY <3>1, <3>2, <3>3, <1>2 DEF JobInv, HeldInv, Holds
  <2> QED
    BY <2>1, <2>2
<1>4. /\ UNCHANGED <<down, holder, description, job_targets, child, imaging, targets>>
      /\ UNCHANGED <<todo, locked, failures, queue, dpc, djob>>
      /\ \/ /\ spc[j] = "list" /\ spc' = [spc EXCEPT ![j] = "unlock"] /\ UNCHANGED kpc
         \/ /\ spc[j] = "reimage_failed" /\ spc' = [spc EXCEPT ![j] = "reimage_unlock"]
            /\ UNCHANGED kpc
         \/ /\ kpc[Self(j)] = "find_targets" /\ kpc' = [kpc EXCEPT ![Self(j)] = "unlock_safe"]
            /\ UNCHANGED spc
  BY <1>1 DEF unlock_targets, kill_find_targets, Goto, paddlesVars, nodeVars, jobVars,
              killVars, loopVars, dispatcherVars, TypeOK, KillTypeOK
<1>5. kpc'[Self(j)] = kpc[Self(j)] \/ (kpc[Self(j)] = "find_targets" /\ kpc'[Self(j)] = "unlock_safe")
  BY <1>1, <1>4 DEF TypeOK, KillTypeOK
<1>6. /\ \A k \in Killers : k # Self(j) => kpc'[k] = kpc[k]
      /\ \A i \in Jobs : i # j => spc'[i] = spc[i]
  BY <1>4 DEF TypeOK, KillTypeOK, SupervisorTypeOK
<1>7. ASSUME NEW i \in Jobs, i # j PROVE SameJob(i)
  <2>1. Self(i) \in Killers /\ Self(i) # Self(j) /\ <<"kill", i>> \in Killers /\ <<"kill", i>> # Self(j)
    BY <1>7 DEF Self, Killers
  <2> QED
    BY <1>4, <1>6, <1>7, <2>1 DEF SameJob
<1>8. ASSUME NEW c \in Callers, c # Self(j) PROVE unlocking'[c] = unlocking[c]
  BY <1>3, <1>8 DEF unlock_safe, TypeOK, UnlockTypeOK
<1>9. kpc'[<<"kill", j>>] = kpc[<<"kill", j>>]
  BY <1>6 DEF Killers, Self
<1>10. JobInv(j)'
  <2>1. HeldInv(j)'
    BY <1>2, <1>4, <1>5 DEF JobInv, HeldInv, ChildInv, Owning, Holds, AfterChild, BeforeChild,
       TypeOK, SupervisorTypeOK
  <2>2. ChildInv(j)'
    BY <1>2, <1>4, <1>5 DEF JobInv, ChildInv, BeforeChild, AfterChild, TypeOK, SupervisorTypeOK
  <2>3. KillInv(j)'
    BY <1>2, <1>4, <1>5, <1>9 DEF JobInv, KillInv, TypeOK, SupervisorTypeOK
  <2>4. FailInv(j)' /\ RecordInv(j)' /\ ImagingInv(j)'
    BY <1>2, <1>4 DEF JobInv, FailInv, RecordInv, ImagingInv, Holds, TypeOK, SupervisorTypeOK
  <2> QED
    BY <2>1, <2>2, <2>3, <2>4 DEF JobInv
<1>11. CallerInv(Self(j))'
  <2>1. Unlocks(Self(j))'
    BY <1>1, <1>4 DEF Unlocks, JobOf, TypeOK, KillTypeOK, SupervisorTypeOK
  <2>2. \A n \in Nodes : unlocking[Self(j)][n] = "idle"
    <3>1. ~Unlocks(Self(j))
      BY <1>1, <1>2, <1>4 DEF Unlocks, JobInv, KillInv
    <3> QED
      BY <1>1, <3>1 DEF OwnInv, CallerInv
  <2>3. \A n \in Nodes :
          unlocking'[Self(j)][n] = IF n \in S THEN "get_status" ELSE "idle"
    BY <1>1, <1>3, <2>2 DEF unlock_safe, TypeOK, UnlockTypeOK
  <2> QED
    BY <1>1, <1>3, <1>4, <2>1, <2>3 DEF CallerInv, UnlockFailed, Holds, JobOf
<1>12. DescInv'
  BY <1>2, <1>4 DEF DescInv
<1>13. spc[j] # "none" /\ spc'[j] # "none"
  BY <1>2, <1>4 DEF JobInv, KillInv, TypeOK, SupervisorTypeOK
<1> QED
  BY <1>4, <1>7, <1>8, <1>10, <1>11, <1>12, <1>13, JobSide

\* ... and where it ends because a greenlet has failed: none is left.
LEMMA UnlockRaisesOwns ==
  ASSUME TypeOK, TurnInv, OwnInv, NEW j \in Jobs, UNCHANGED dispatcherVars,
         \/ unlock_targets_raises(j)
         \/ kill_raises(Self(j)) /\ UNCHANGED loopVars
  PROVE  OwnInv'
<1>1. Self(j) \in Callers /\ JobOf(Self(j)) = j /\ Self(j)[1] = "supervisor"
      /\ Self(j) \in Killers
  BY DEF Self, Callers, JobOf, Killers
<1>2. JobInv(j) /\ DescInv /\ CallerInv(Self(j))
  BY <1>1 DEF OwnInv
<1>3. UnlockRaises(Self(j))
  BY DEF unlock_targets_raises, kill_raises
<1>4. /\ UNCHANGED <<down, holder, description, job_targets, child, imaging, targets>>
      /\ UNCHANGED <<todo, locked, failures, queue, dpc, djob>>
      /\ \/ /\ spc[j] \in {"reimage_unlock", "unlock"}
            /\ spc' = [spc EXCEPT ![j] = "exited"] /\ UNCHANGED kpc
         \/ /\ kpc[Self(j)] = "unlock_safe" /\ kpc' = [kpc EXCEPT ![Self(j)] = "failed"]
            /\ UNCHANGED spc
  BY DEF unlock_targets_raises, kill_raises, Goto, paddlesVars, nodeVars, jobVars,
         killVars, loopVars, dispatcherVars
<1>5. kpc'[Self(j)] = kpc[Self(j)] \/ (kpc[Self(j)] = "unlock_safe" /\ kpc'[Self(j)] = "failed")
  BY <1>1, <1>4 DEF TypeOK, KillTypeOK
<1>6. /\ \A k \in Killers : k # Self(j) => kpc'[k] = kpc[k]
      /\ \A i \in Jobs : i # j => spc'[i] = spc[i]
  BY <1>4 DEF TypeOK, KillTypeOK, SupervisorTypeOK
<1>7. ASSUME NEW i \in Jobs, i # j PROVE SameJob(i)
  <2>1. /\ Self(i) \in Killers /\ Self(i) # Self(j)
        /\ <<"kill", i>> \in Killers /\ <<"kill", i>> # Self(j)
    BY <1>7 DEF Self, Killers
  <2> QED
    BY <1>4, <1>6, <1>7, <2>1 DEF SameJob
<1>8. ASSUME NEW c \in Callers, c # Self(j) PROVE unlocking'[c] = unlocking[c]
  BY <1>3, <1>8 DEF UnlockRaises, TypeOK, UnlockTypeOK
<1>9. kpc'[<<"kill", j>>] = kpc[<<"kill", j>>]
  BY <1>6 DEF Killers, Self
<1>10. JobInv(j)'
  <2>1. HeldInv(j)'
    BY <1>2, <1>4, <1>5 DEF JobInv, HeldInv, ChildInv, KillInv, Owning, Holds, AfterChild,
       BeforeChild, TypeOK, SupervisorTypeOK
  <2>2. ChildInv(j)'
    BY <1>2, <1>4, <1>5 DEF JobInv, ChildInv, BeforeChild, AfterChild, TypeOK, SupervisorTypeOK
  <2>3. KillInv(j)'
    BY <1>2, <1>4, <1>5, <1>9 DEF JobInv, KillInv, TypeOK, SupervisorTypeOK
  <2>4. FailInv(j)' /\ RecordInv(j)' /\ ImagingInv(j)'
    BY <1>2, <1>4 DEF JobInv, FailInv, RecordInv, ImagingInv, Holds, TypeOK, SupervisorTypeOK
  <2> QED
    BY <2>1, <2>2, <2>3, <2>4 DEF JobInv
<1>11. CallerInv(Self(j))'
  <2>1. \A n \in Nodes : unlocking'[Self(j)][n] = "idle"
    BY <1>1, <1>2, <1>3 DEF UnlockRaises, CallerInv, TypeOK, UnlockTypeOK
  <2> QED
    BY <2>1 DEF CallerInv, UnlockFailed
<1>12. DescInv'
  BY <1>2, <1>4 DEF DescInv
<1>13. spc[j] # "none" /\ spc'[j] # "none"
  BY <1>2, <1>4 DEF JobInv, KillInv, TypeOK, SupervisorTypeOK
<1> QED
  BY <1>4, <1>7, <1>8, <1>10, <1>11, <1>12, <1>13, JobSide

\* kill_job asks the results server, reports to it, and returns.
LEMMA KillReportOwns ==
  ASSUME TypeOK, TurnInv, OwnInv, NEW j \in Jobs, UNCHANGED <<loopVars, dispatcherVars>>,
         \/ kill_get_jobs(Self(j)) \/ kill_push(Self(j)) \/ kill_return(Self(j))
         \/ kill_find_targets(Self(j)) /\ kpc'[Self(j)] # "unlock_safe"
  PROVE  OwnInv'
<1> DEFINE Kill(from, to) == kpc[Self(j)] = from /\ kpc' = [kpc EXCEPT ![Self(j)] = to]
<1>1. Self(j) \in Killers /\ JobOf(Self(j)) = j /\ Self(j)[1] = "supervisor"
  BY DEF Self, JobOf, Killers
<1>2. JobInv(j)
  BY DEF OwnInv
<1>3. spc[j] \in {"kill_only", "kill_unlock"}
  BY <1>2 DEF JobInv, KillInv, kill_get_jobs, kill_push, kill_find_targets, kill_return
<1>4. \/ Kill("get_jobs", "kill_processes") \/ Kill("get_jobs", "failed")
      \/ Kill("push", "returned") \/ Kill("push", "failed")
      \/ Kill("push", "find_targets") /\ spc[j] = "kill_unlock"
      \/ Kill("find_targets", "failed") /\ UNCHANGED unlockVars
      \/ Kill("unlock_safe", "returned") /\ unlocking[Self(j)] = Idle
  <2>1. CASE kill_find_targets(Self(j)) /\ kpc'[Self(j)] # "unlock_safe"
    BY <1>1, <2>1 DEF kill_find_targets, TypeOK, KillTypeOK
  <2> QED
    BY <1>1, <1>3, <2>1, Zenon DEF kill_get_jobs, kill_push, kill_return, SkipUnlock, Unlocked
<1>5. UNCHANGED <<nodeVars, unlockVars, spc, child, imaging, targets, todo, locked, failures>>
  <2>1. kill_find_targets(Self(j)) => UNCHANGED unlockVars
    BY <1>4 DEF kill_find_targets, kill_get_jobs, kill_push, kill_return
  <2> QED
    BY <2>1 DEF kill_get_jobs, kill_push, kill_find_targets, kill_return, paddlesVars, loopVars
<1>6. UNCHANGED job_targets
  <2>1. PushStatus(j, "dead") \/ UNCHANGED jobVars
    BY <1>1 DEF kill_get_jobs, kill_push, kill_find_targets, kill_return, paddlesVars,
       PushRaises
  <2> QED
    BY <2>1 DEF PushStatus, Push, jobVars, TypeOK, PaddlesTypeOK
<1>7. \A k \in Killers : k # Self(j) => kpc'[k] = kpc[k]
  BY <1>4 DEF TypeOK, KillTypeOK
<1>8. ASSUME NEW i \in Jobs, i # j PROVE SameJob(i)
  <2>1. Self(i) \in Killers /\ Self(i) # Self(j) /\ <<"kill", i>> \in Killers /\ <<"kill", i>> # Self(j)
    BY <1>8 DEF Self, Killers
  <2> QED
    BY <1>5, <1>6, <1>7, <2>1 DEF SameJob
<1>9. kpc'[<<"kill", j>>] = kpc[<<"kill", j>>]
  BY <1>7 DEF Killers, Self
<1>10. \/ kpc[Self(j)] = "get_jobs" /\ kpc'[Self(j)] \in {"kill_processes", "failed"}
       \/ kpc[Self(j)] = "find_targets" /\ kpc'[Self(j)] = "failed"
       \/ kpc[Self(j)] = "push" /\ kpc'[Self(j)] \in {"returned", "failed"}
       \/ kpc[Self(j)] = "push" /\ kpc'[Self(j)] = "find_targets" /\ spc[j] = "kill_unlock"
       \/ kpc[Self(j)] = "unlock_safe" /\ kpc'[Self(j)] = "returned"
  BY <1>1, <1>4 DEF TypeOK, KillTypeOK
<1>11. JobInv(j)'
  <2>1. HeldInv(j)'
    BY <1>2, <1>3, <1>5, <1>10 DEF JobInv, HeldInv, Owning, Holds, nodeVars
  <2>2. ChildInv(j)' /\ KillInv(j)'
    BY <1>2, <1>3, <1>5, <1>9, <1>10 DEF JobInv, ChildInv, KillInv
  <2>3. FailInv(j)' /\ RecordInv(j)' /\ ImagingInv(j)'
    BY <1>2, <1>3, <1>5, <1>6 DEF JobInv, FailInv, RecordInv, ImagingInv, Holds, nodeVars,
       dispatcherVars
  <2> QED
    BY <2>1, <2>2, <2>3 DEF JobInv
<1>12. \/ kpc[Self(j)] # "unlock_safe"
       \/ \A n \in Nodes : unlocking[Self(j)][n] = "idle"
  BY <1>4 DEF Idle
<1> QED
  BY <1>3, <1>5, <1>8, <1>11, <1>12, QuietSide

\* The watchdog's SIGTERM ends the job process, or its own supervisor.
LEMMA KillProcessesOwns ==
  ASSUME TypeOK, TurnInv, OwnInv, Benign, NEW j \in Jobs,
         UNCHANGED <<loopVars, dispatcherVars>>, kill_processes(Self(j))
  PROVE  OwnInv'
<1>1. Self(j) \in Killers /\ Self(j) \in Callers /\ JobOf(Self(j)) = j
      /\ Self(j)[1] = "supervisor" /\ Self(j) = <<"supervisor", j>>
  BY DEF Self, JobOf, Killers, Callers
<1>2. JobInv(j) /\ DescInv /\ CallerInv(Self(j))
  BY <1>1 DEF OwnInv
<1>3. spc[j] \in {"kill_only", "kill_unlock"} /\ kpc[Self(j)] = "kill_processes"
  BY <1>2 DEF JobInv, KillInv, kill_processes
<1>4. PICK killed \in SUBSET ToKill(Self(j)) :
        /\ SigTerm(j, killed)
        /\ kpc' = [k \in Killers |->
                     IF k = Self(j) /\ "supervisor" \in killed THEN "idle"
                     ELSE IF k # Self(j) THEN kpc[k]
                     ELSE IF killed = ToKill(Self(j)) THEN "push" ELSE "failed"]
  BY <1>1 DEF kill_processes
<1>5. /\ UNCHANGED <<nodeVars, job_targets, imaging, targets, todo, locked, failures>>
      /\ UNCHANGED <<queue, dpc, djob>>
  BY DEF kill_processes, paddlesVars, jobVars, loopVars, dispatcherVars
<1>6. /\ spc' = IF "supervisor" \in killed THEN [spc EXCEPT ![j] = "killed"] ELSE spc
      /\ IF "job" \in killed THEN child' = [child EXCEPT ![j] = "ended"] ELSE UNCHANGED child
  BY <1>1, <1>4 DEF SigTerm, Benign
<1>17. \A c \in Callers :
         unlocking'[c] = unlocking[c] \/ (c = Self(j) /\ unlocking'[c] = Idle)
  <2>1. DropGreenlets({<<"supervisor", j>>}) \/ UNCHANGED unlockVars
    BY <1>4, Zenon DEF SigTerm
  <2> QED
    BY <1>1, <2>1 DEF DropGreenlets, unlockVars
<1>7. ASSUME killed = ToKill(Self(j)), "supervisor" \notin killed
      PROVE  child'[j] \notin {"starting", "running"}
  <2>1. SupervisorAlive(j)
    BY <1>3 DEF SupervisorAlive
  <2>2. kpid[Self(j)] \in {"none", "job"}
    BY <1>1, <1>7, <2>1 DEF ToKill, Alive, TypeOK, KillTypeOK, Pids
  <2>3. ChildAlive(j) => "job" \in killed
    BY <1>1, <1>7, <2>2 DEF ToKill, Alive
  <2> QED
    BY <1>6, <2>3 DEF ChildAlive, TypeOK, KillTypeOK
<1>8. /\ \A k \in Killers : k # Self(j) => kpc'[k] = kpc[k]
      /\ kpc'[Self(j)] = IF "supervisor" \in killed THEN "idle"
                         ELSE IF killed = ToKill(Self(j)) THEN "push" ELSE "failed"
  BY <1>1, <1>4
<1>9. ASSUME NEW i \in Jobs, i # j PROVE SameJob(i)
  <2>1. Self(i) \in Killers /\ Self(i) # Self(j) /\ <<"kill", i>> \in Killers /\ <<"kill", i>> # Self(j)
    BY <1>9 DEF Self, Killers
  <2>2. spc'[i] = spc[i] /\ child'[i] = child[i]
    BY <1>6, <1>9 DEF TypeOK, SupervisorTypeOK, KillTypeOK
  <2> QED
    BY <1>5, <1>8, <2>1, <2>2 DEF SameJob
<1>10. /\ spc'[j] = IF "supervisor" \in killed THEN "killed" ELSE spc[j]
       /\ child'[j] = IF "job" \in killed THEN "ended" ELSE child[j]
  BY <1>6 DEF TypeOK, SupervisorTypeOK, KillTypeOK
<1>11. kpc'[<<"kill", j>>] = kpc[<<"kill", j>>]
  BY <1>8 DEF Killers, Self
<1>12. JobInv(j)'
  <2>1. HeldInv(j)'
    <3>1. Owning(j)' => Owning(j)
      BY <1>3, <1>10 DEF Owning
    <3>2. UNCHANGED <<holder, targets, locked>> /\ spc'[j] \notin {"reimage_failed", "list"}
      BY <1>3, <1>5, <1>10 DEF nodeVars
    <3> QED
      BY <1>2, <3>1, <3>2 DEF JobInv, HeldInv, Holds
  <2>2. ChildInv(j)'
    BY <1>2, <1>3, <1>7, <1>8, <1>10 DEF JobInv, ChildInv, BeforeChild, AfterChild
  <2>3. KillInv(j)'
    BY <1>2, <1>3, <1>8, <1>10, <1>11 DEF JobInv, KillInv
  <2>4. FailInv(j)' /\ RecordInv(j)' /\ ImagingInv(j)'
    BY <1>2, <1>3, <1>5, <1>10 DEF JobInv, FailInv, RecordInv, ImagingInv, nodeVars
  <2> QED
    BY <2>1, <2>2, <2>3, <2>4 DEF JobInv
<1>13. CallerInv(Self(j))'
  <2>1. \A n \in Nodes : unlocking[Self(j)][n] = "idle"
    BY <1>1, <1>2, <1>3 DEF CallerInv, Unlocks, JobOf
  <2>2. \A n \in Nodes : unlocking'[Self(j)][n] = "idle"
    BY <1>1, <1>17, <2>1 DEF Idle
  <2> QED
    BY <2>2 DEF CallerInv, UnlockFailed
<1>14. ASSUME NEW c \in Callers, c # Self(j) PROVE unlocking'[c] = unlocking[c]
  BY <1>17, <1>14
<1>15. DescInv'
  BY <1>2, <1>5 DEF DescInv, nodeVars
<1>16. spc[j] # "none" /\ spc'[j] # "none" /\ UNCHANGED holder /\ down \subseteq down'
  BY <1>3, <1>5, <1>10 DEF nodeVars
<1> QED
  BY <1>5, <1>9, <1>12, <1>13, <1>14, <1>15, <1>16, JobSide

\* The job process reports and ends.
LEMMA JobStepOwns ==
  ASSUME TypeOK, TurnInv, OwnInv, NEW j \in Jobs, UNCHANGED dispatcherVars, JobStep(j)
  PROVE  OwnInv'
<1>1. JobInv(j) /\ child[j] \in {"starting", "running"}
  BY DEF OwnInv, JobInv, ChildInv, JobStep, job_start, report_outcome, job_dies
<1>2. /\ UNCHANGED <<nodeVars, unlockVars, killVars, spc, imaging, targets>>
      /\ UNCHANGED <<todo, locked, failures>>
      /\ \/ child[j] = "starting" /\ child' = [child EXCEPT ![j] = "running"]
         \/ child' = [child EXCEPT ![j] = "ended"]
  BY DEF JobStep, job_start, report_outcome, job_dies, paddlesVars, loopVars
<1>3. \E s, p : Push(j, s, p, targets[j]) \/ UNCHANGED jobVars
  BY Zenon DEF JobStep, job_start, report_outcome, job_dies, PushRaises, paddlesVars
<1>4. /\ \A i \in Jobs : i # j => job_targets'[i] = job_targets[i]
      /\ job_targets'[j] \in {job_targets[j], targets[j]}
  BY <1>3, PushSame
<1>5. ASSUME NEW i \in Jobs, i # j PROVE SameJob(i)
  BY <1>2, <1>4, <1>5 DEF SameJob, killVars, TypeOK, KillTypeOK
<1>6. spc[j] # "none" /\ spc'[j] # "none"
  BY <1>1, <1>2 DEF JobInv, ChildInv, BeforeChild
<1>7. child'[j] \in {"running", "ended"}
  BY <1>2 DEF TypeOK, KillTypeOK
<1>8. JobInv(j)'
  <2>1. HeldInv(j)'
    BY <1>1, <1>2 DEF JobInv, HeldInv, Owning, Holds, nodeVars, killVars
  <2>2. ChildInv(j)'
    BY <1>1, <1>2, <1>7 DEF JobInv, ChildInv, killVars
  <2>3. KillInv(j)' /\ FailInv(j)' /\ RecordInv(j)' /\ ImagingInv(j)'
    BY <1>1, <1>2, <1>4
       DEF JobInv, KillInv, FailInv, RecordInv, ImagingInv, Holds, nodeVars, killVars,
       dispatcherVars
  <2> QED
    BY <2>1, <2>2, <2>3 DEF JobInv
<1> QED
  BY <1>2, <1>5, <1>6, <1>8, QuietSide DEF killVars

-----------------------------------------------------------------------------
(* Steps of the dispatcher                                                 *)

\* What is left to show of a turn that leaves the nodes and the jobs alone.
LEMMA QuietTurn ==
  ASSUME TypeOK, OwnInv, UNCHANGED <<nodeVars, killVars, supervisorVars>>,
         \A i \in Jobs : job_targets'[i] \in {job_targets[i], targets[i]},
         \A i \in Jobs : queue'[i] \in {"ready", "reserved"} =>
                           queue[i] \in {"ready", "reserved"},
         \A c \in Callers, n \in Nodes :
           unlocking'[c][n] # "idle" =>
             Unlocks(c)' /\ (unlocking'[c][n] = "failed" \/ holder[n] = JobOf(c)),
         \A c \in Callers :
           UnlockFailed(c)' => \A n \in Nodes : unlocking'[c][n] \in {"idle", "failed"},
         TurnOwns'
  PROVE  OwnInv'
<1>1. /\ UNCHANGED <<down, holder, description, spc, child, kpc, imaging, targets>>
      /\ UNCHANGED <<todo, locked, failures>>
  BY DEF nodeVars, killVars, supervisorVars
<1>2. ASSUME NEW i \in Jobs PROVE JobInv(i)'
  <2>1. JobInv(i)
    BY DEF OwnInv
  <2>2. HeldInv(i)' /\ ChildInv(i)' /\ KillInv(i)' /\ FailInv(i)' /\ ImagingInv(i)'
    BY <1>1, <2>1 DEF JobInv, HeldInv, ChildInv, KillInv, FailInv, ImagingInv, Owning, Holds
  <2>3. RecordInv(i)'
    BY <1>1, <2>1 DEF JobInv, RecordInv
  <2> QED
    BY <2>2, <2>3 DEF JobInv
<1>3. \A c \in Callers : CallerInv(c)'
  BY <1>1 DEF CallerInv, JobOf
<1>4. DescInv'
  BY <1>1 DEF OwnInv, DescInv
<1> QED
  BY <1>2, <1>3, <1>4 DEF OwnInv

\* A turn in which no greenlet of the dispatcher is started or left behind.
LEMMA LoopTurn ==
  ASSUME TypeOK, OwnInv, UNCHANGED <<nodeVars, unlockVars, killVars, supervisorVars>>,
         \A i \in Jobs : job_targets'[i] \in {job_targets[i], targets[i]},
         \A i \in Jobs : queue'[i] \in {"ready", "reserved"} =>
                           queue[i] \in {"ready", "reserved"},
         dpc = "unlock" => Unlocked(<<"dispatcher", djob>>),
         TurnOwns'
  PROVE  OwnInv'
<1>1. ASSUME NEW c \in Callers, NEW n \in Nodes, unlocking'[c][n] # "idle"
      PROVE  Unlocks(c)' /\ (unlocking'[c][n] = "failed" \/ holder[n] = JobOf(c))
  <2>1. /\ unlocking[c][n] # "idle" /\ Unlocks(c)
        /\ unlocking'[c][n] = "failed" \/ holder[n] = JobOf(c)
    BY <1>1 DEF OwnInv, CallerInv, unlockVars
  <2>2. ~(c[1] = "dispatcher" /\ dpc = "unlock" /\ djob = JobOf(c))
    BY <2>1 DEF Unlocked, Idle, Callers, JobOf
  <2> QED
    BY <2>1, <2>2 DEF Unlocks, JobOf, killVars, supervisorVars
<1>2. ASSUME NEW c \in Callers, UnlockFailed(c)'
      PROVE  \A n \in Nodes : unlocking'[c][n] \in {"idle", "failed"}
  BY <1>2 DEF OwnInv, CallerInv, UnlockFailed, unlockVars
<1> QED
  BY <1>1, <1>2, QuietTurn

\* What a report of the dispatcher records.
LEMMA PushRecords ==
  ASSUME TypeOK, TurnInv, djob \in Jobs,
         \E s, p : \E t \in {job_targets[djob], targets[djob]} :
           Push(djob, s, p, t) \/ UNCHANGED jobVars
  PROVE  \A i \in Jobs : job_targets'[i] \in {job_targets[i], targets[i]}
BY PushSame

LEMMA LoopTurnsOwn ==
  ASSUME TypeOK, TurnInv, OwnInv, StartedOnce,
         \/ \E j \in Jobs : reserve(j)
         \/ leave_loop \/ bury \/ prep_job \/ lock_machines \/ list_locks \/ report_locked
         \/ unlock_done \/ report_spawn_failed \/ delete \/ loop_exit \/ restart
         \/ popen /\ dpc' = "loop"
  PROVE  OwnInv'
<1>1. UNCHANGED <<nodeVars, unlockVars, killVars, supervisorVars>>
  BY DEF reserve, leave_loop, bury, prep_job, lock_machines, list_locks, report_locked,
         unlock_done, report_spawn_failed, delete, loop_exit, restart, popen,
         paddlesVars, dispatcherRest, supervisorVars
<1>2. \A i \in Jobs : job_targets'[i] \in {job_targets[i], targets[i]}
  <2>1. CASE prep_job \/ lock_machines \/ report_locked \/ report_spawn_failed
    <3>1. djob \in Jobs
      BY <2>1, BusyWithJob DEF prep_job, lock_machines, report_locked, report_spawn_failed
    <3>2. \E s, p : \E t \in {job_targets[djob], targets[djob]} :
            Push(djob, s, p, t) \/ UNCHANGED jobVars
      BY <2>1, Zenon DEF prep_job, lock_machines, report_locked, report_spawn_failed,
         PushStatus,
         LockMachinesRaises, PushRaises
    <3> QED
      BY <3>1, <3>2, PushRecords
  <2>2. CASE ~(prep_job \/ lock_machines \/ report_locked \/ report_spawn_failed)
    <3>1. UNCHANGED job_targets
      BY <2>2 DEF reserve, leave_loop, bury, list_locks, unlock_done, delete, loop_exit,
         restart,
         popen, paddlesVars, jobVars
    <3> QED
      BY <3>1
  <2> QED
    BY <2>1, <2>2
<1>3. ASSUME NEW i \in Jobs, queue'[i] \in {"ready", "reserved"}
      PROVE  queue[i] \in {"ready", "reserved"}
  <2>1. CASE bury \/ delete
    <3>1. djob \in Jobs
      BY <2>1, BusyWithJob DEF bury, delete
    <3> QED
      BY <1>3, <2>1, <3>1 DEF bury, delete, TypeOK, DispatcherTypeOK
  <2>2. CASE \E j \in Jobs : reserve(j)
    BY <1>3, <2>2 DEF reserve, TypeOK, DispatcherTypeOK
  <2>3. CASE ~(bury \/ delete \/ \E j \in Jobs : reserve(j))
    BY <1>3, <2>3 DEF leave_loop, prep_job, lock_machines, list_locks, report_locked,
       unlock_done, report_spawn_failed, loop_exit, restart, popen
  <2> QED
    BY <2>1, <2>2, <2>3
<1>4. dpc = "unlock" => Unlocked(<<"dispatcher", djob>>)
  BY DEF reserve, leave_loop, bury, prep_job, lock_machines, list_locks, report_locked,
         unlock_done, report_spawn_failed, delete, loop_exit, restart, popen
<1>5. TurnOwns'
  <2>1. UNCHANGED <<spc, targets, holder>> /\ TurnOwns
    BY <1>1 DEF supervisorVars, nodeVars, OwnInv
  <2>2. CASE \E j \in Jobs : reserve(j)
    <3>1. PICK j \in Jobs : reserve(j)
      BY <2>2
    <3>2. djob' = j /\ dpc' = "reserved" /\ queue[j] = "ready"
      BY <3>1 DEF reserve
    <3>3. targets[j] = {} /\ spc[j] = "none"
      BY <3>2 DEF OwnInv, JobInv, RecordInv, StartedOnce
    <3> QED
      BY <2>1, <3>2, <3>3 DEF TurnOwns, Holding
  <2>3. CASE /\ UNCHANGED djob
             /\ \/ dpc \in Locking /\ dpc' \in Locking
                \/ dpc = "locked" /\ dpc' = "popen"
    BY <2>1, <2>3 DEF TurnOwns, Holds, Locking, Holding
  <2>4. CASE dpc' \in {"loop", "exited", "fail", "delete"}
    BY <2>4 DEF TurnOwns, Locking, Holding
  <2> QED
    BY <2>2, <2>3, <2>4 DEF leave_loop, bury, prep_job, lock_machines, list_locks,
       report_locked, unlock_done, report_spawn_failed, delete, loop_exit, restart,
       Continue, LockMachinesRaises, Locking
<1> QED
  BY <1>1, <1>2, <1>3, <1>4, <1>5, LoopTurn

\* A greenlet of the dispatcher's unlock_safe has failed: none is left.
LEMMA TurnRaisesOwns ==
  ASSUME TypeOK, TurnInv, OwnInv, unlock_raises
  PROVE  OwnInv'
<1> DEFINE c0 == <<"dispatcher", djob>>
<1>1. /\ UNCHANGED <<nodeVars, killVars, supervisorVars, job_targets, queue>>
      /\ dpc = "unlock" /\ dpc' = "loop"
  BY DEF unlock_raises, Continue, paddlesVars, jobVars
<1>2. djob \in Jobs /\ c0 \in Callers
  BY <1>1, BusyWithJob DEF Callers
<1>3. \A c \in Callers : c # c0 => unlocking'[c] = unlocking[c]
  BY DEF unlock_raises, UnlockRaises, TypeOK, UnlockTypeOK
<1>4. \A n \in Nodes : unlocking'[c0][n] = "idle"
  <2>1. CallerInv(c0)
    BY <1>2 DEF OwnInv
  <2> QED
    BY <1>2, <2>1 DEF unlock_raises, UnlockRaises, CallerInv, TypeOK, UnlockTypeOK
<1>5. ASSUME NEW c \in Callers, NEW n \in Nodes, unlocking'[c][n] # "idle"
      PROVE  Unlocks(c)' /\ (unlocking'[c][n] = "failed" \/ holder[n] = JobOf(c))
  <2>1. c # c0
    BY <1>4, <1>5
  <2>2. /\ unlocking'[c][n] = unlocking[c][n] /\ Unlocks(c)
        /\ unlocking'[c][n] = "failed" \/ holder[n] = JobOf(c)
    BY <2>1, <1>3, <1>5 DEF OwnInv, CallerInv
  <2>3. ~(c[1] = "dispatcher" /\ djob = JobOf(c))
    BY <2>1 DEF Callers, JobOf
  <2> QED
    BY <1>1, <2>2, <2>3 DEF Unlocks, JobOf, killVars, supervisorVars
<1>6. ASSUME NEW c \in Callers, UnlockFailed(c)'
      PROVE  \A n \in Nodes : unlocking'[c][n] \in {"idle", "failed"}
  <2>1. CASE c = c0
    BY <2>1, <1>4
  <2>2. CASE c # c0
    BY <2>2, <1>3, <1>6 DEF OwnInv, CallerInv, UnlockFailed
  <2> QED
    BY <2>1, <2>2
<1>7. TurnOwns'
  BY <1>1 DEF TurnOwns, Locking, Holding
<1> QED
  BY <1>1, <1>5, <1>6, <1>7, QuietTurn

\* The supervisor is started, or cannot be and the nodes are given back.
LEMMA PopenOwns ==
  ASSUME TypeOK, TurnInv, OwnInv, StartedOnce, popen
  PROVE  OwnInv'
<1>1. PICK j \in Jobs : djob = j /\ dpc = "popen"
  BY BusyWithJob DEF popen
<1>2. JobInv(j) /\ TurnOwns /\ DescInv
  BY <1>1 DEF OwnInv
<1>3. spc[j] = "none" /\ Holds(j, targets[j])
  BY <1>1, <1>2 DEF TurnOwns, Holding
<1>4. /\ UNCHANGED <<nodeVars, killVars, targets, child, imaging, todo, locked, failures>>
      /\ UNCHANGED <<job_targets, queue>>
  BY DEF popen, paddlesVars, jobVars, dispatcherRest
<1>5. CASE dpc' = "delete"
  <2>1. spc' = [spc EXCEPT ![j] = "start"] /\ UNCHANGED unlockVars
    BY <1>1, <1>5 DEF popen, Continue
  <2>2. ASSUME NEW i \in Jobs, i # j PROVE JobInv(i)'
    <3>1. Moves(j) /\ SameJob(i)
      BY <1>4, <2>1, <2>2 DEF Moves, SameJob, nodeVars, killVars
    <3> QED
      BY <1>1, <1>4, <2>2, <3>1, OthersKept DEF OwnInv
  <2>3. JobInv(j)'
    <3>1. spc'[j] = "start" /\ UNCHANGED <<holder, kpc, down>>
      BY <1>1, <1>4, <2>1 DEF TypeOK, SupervisorTypeOK, nodeVars, killVars
    <3>2. HeldInv(j)'
      BY <1>3, <1>4, <3>1 DEF HeldInv, Holds
    <3>3. ChildInv(j)' /\ KillInv(j)'
      BY <1>2, <1>3, <1>4, <3>1 DEF JobInv, ChildInv, KillInv, BeforeChild, AfterChild
    <3>4. FailInv(j)' /\ RecordInv(j)' /\ ImagingInv(j)'
      BY <1>2, <1>3, <1>4, <3>1 DEF JobInv, FailInv, RecordInv, ImagingInv
    <3> QED
      BY <3>2, <3>3, <3>4 DEF JobInv
  <2>4. ASSUME NEW c \in Callers PROVE CallerInv(c)'
    <3>1. CASE JobOf(c) = j
      <4>1. ~Unlocks(c)
        BY <3>1, <1>1, <1>2, <1>3 DEF Unlocks, Callers, JobOf, JobInv, KillInv, Self
      <4> QED
        BY <2>1, <4>1 DEF OwnInv, CallerInv, UnlockFailed, unlockVars
    <3>2. CASE JobOf(c) # j
      <4>1. JobOf(c) \in Jobs
        BY DEF Callers, JobOf
      <4>2. Moves(j) /\ SameJob(JobOf(c)) /\ UNCHANGED unlocking
        BY <1>4, <2>1, <3>2, <4>1 DEF Moves, SameJob, nodeVars, killVars, unlockVars
      <4> QED
        BY <1>1, <3>2, <4>2, CallersKept DEF OwnInv
    <3> QED
      BY <3>1, <3>2
  <2>5. TurnOwns' /\ DescInv'
    BY <1>2, <1>4, <1>5 DEF TurnOwns, DescInv, Locking, Holding, nodeVars
  <2> QED
    BY <2>2, <2>3, <2>4, <2>5 DEF OwnInv
<1>6. CASE dpc' = "unlock"
  <2> DEFINE c0 == <<"dispatcher", j>>
  <2>1. /\ unlock_safe(c0, targets[j]) /\ UNCHANGED <<spc, djob>>
    BY <1>1, <1>6 DEF popen, Continue
  <2>2. targets[j] \in SUBSET Nodes /\ c0 \in Callers /\ JobOf(c0) = j
    BY <1>1 DEF TypeOK, SupervisorTypeOK, Callers, JobOf
  <2>6. \A n \in Nodes : unlocking[c0][n] = "idle"
    <3>1. ~Unlocks(c0)
      BY <1>1 DEF Unlocks
    <3> QED
      BY <2>2, <3>1 DEF OwnInv, CallerInv
  <2>7. ASSUME NEW c \in Callers, UnlockFailed(c)'
        PROVE  \A n \in Nodes : unlocking'[c][n] \in {"idle", "failed"}
    <3>1. c # c0
      BY <2>1, <2>2, <2>6, <2>7 DEF UnlockFailed, unlock_safe, TypeOK, UnlockTypeOK
    <3>2. unlocking'[c] = unlocking[c]
      BY <2>1, <3>1 DEF unlock_safe, TypeOK, UnlockTypeOK
    <3> QED
      BY <2>7, <3>2 DEF OwnInv, CallerInv, UnlockFailed
  <2>3. ASSUME NEW c \in Callers, NEW n \in Nodes, unlocking'[c][n] # "idle"
        PROVE  Unlocks(c)' /\ (unlocking'[c][n] = "failed" \/ holder[n] = JobOf(c))
    <3>1. CASE c = c0
      <4>1. n \in targets[j]
        BY <2>1, <2>2, <2>3, <2>6, <3>1 DEF unlock_safe, TypeOK, UnlockTypeOK
      <4> QED
        BY <1>1, <1>3, <1>6, <2>1, <2>2, <3>1, <4>1 DEF Unlocks, Holds, JobOf
    <3>2. CASE c # c0
      <4>1. unlocking[c][n] # "idle" /\ unlocking'[c][n] = unlocking[c][n]
        BY <2>1, <2>2, <2>3, <3>2 DEF unlock_safe, TypeOK, UnlockTypeOK
      <4>2. Unlocks(c) /\ (unlocking[c][n] = "failed" \/ holder[n] = JobOf(c))
        BY <4>1 DEF OwnInv, CallerInv
      <4> QED
        BY <1>1, <1>4, <2>1, <4>1, <4>2 DEF Unlocks, JobOf, killVars
    <3> QED
      BY <3>1, <3>2
  <2>4. TurnOwns'
    BY <1>1, <1>3, <1>6, <2>1 DEF TurnOwns, Locking, Holding
  <2>5. UNCHANGED supervisorVars
    BY <1>4, <2>1 DEF supervisorVars
  <2> QED
    BY <1>4, <2>3, <2>4, <2>5, <2>7, QuietTurn
<1>7. CASE dpc' = "loop"
  BY <1>7, LoopTurnsOwn
<1> QED
  BY <1>5, <1>6, <1>7 DEF popen, Continue

LEMMA CrashOwns ==
  ASSUME TypeOK, OwnInv, crash
  PROVE  OwnInv'
<1>1. dpc' = "stopped" /\ UNCHANGED <<paddlesVars, killVars, supervisorVars>>
  BY DEF crash
<1>2. \A c \in Callers : unlocking'[c] = IF c[1] = "dispatcher" THEN Idle ELSE unlocking[c]
  BY DEF crash, DropGreenlets, Callers
<1>3. ASSUME NEW c \in Callers, NEW n \in Nodes, unlocking'[c][n] # "idle"
      PROVE  Unlocks(c)' /\ (unlocking'[c][n] = "failed" \/ holder[n] = JobOf(c))
  <2>1. c[1] # "dispatcher" /\ unlocking'[c][n] = unlocking[c][n]
    BY <1>2, <1>3 DEF Idle
  <2>2. Unlocks(c) /\ (unlocking[c][n] = "failed" \/ holder[n] = JobOf(c))
    BY <1>3, <2>1 DEF OwnInv, CallerInv
  <2> QED
    BY <1>1, <2>1, <2>2 DEF Unlocks, JobOf, killVars, supervisorVars
<1>4. ASSUME NEW c \in Callers, UnlockFailed(c)'
      PROVE  \A n \in Nodes : unlocking'[c][n] \in {"idle", "failed"}
  BY <1>2, <1>4 DEF OwnInv, CallerInv, UnlockFailed, Idle
<1>5. \A i \in Jobs : queue'[i] \in {"ready", "reserved"} => queue[i] \in {"ready", "reserved"}
  BY DEF crash
<1>6. TurnOwns'
  BY <1>1 DEF TurnOwns, Locking, Holding
<1> QED
  BY <1>1, <1>3, <1>4, <1>5, <1>6, QuietTurn DEF paddlesVars, jobVars

-----------------------------------------------------------------------------
(* Locking: the only step that gives a job nodes                           *)

LEMMA LockOwns ==
  ASSUME TypeOK, TurnInv, OwnInv, lock_many \/ lock_many_raises
  PROVE  OwnInv'
<1>1. PICK j \in Jobs : djob = j /\ dpc \in {"list", "lock_many"}
  BY BusyWithJob DEF lock_many, lock_many_raises
<1>2. JobInv(j) /\ TurnOwns /\ DescInv /\ targets[j] = {} /\ spc[j] = "none"
      /\ queue[j] \notin {"ready", "reserved"}
  BY <1>1 DEF OwnInv, TurnOwns, Locking, TurnInv
<1>3. PICK S \in SUBSET Nodes :
        /\ LockNodes(j, S) \/ (UNCHANGED nodeVars /\ S = {})
        /\ \/ targets' = [targets EXCEPT ![j] = S] /\ dpc' = "locked" /\ UNCHANGED djob
              /\ LockNodes(j, S)
           \/ UNCHANGED targets /\ dpc' = "loop"
           \/ UNCHANGED <<targets, djob>> /\ dpc' = "list"
  <2>1. CASE lock_many
    <3>1. CASE \E S \in SUBSET Available :
                 LockNodes(j, S) /\ targets' = [targets EXCEPT ![j] = S] /\ dpc' = "locked"
      <4>1. PICK S \in SUBSET Available :
                 LockNodes(j, S) /\ targets' = [targets EXCEPT ![j] = S] /\ dpc' = "locked"
        BY <3>1
      <4>2. S \in SUBSET Nodes
        BY DEF Available
      <4> QED
        BY <2>1, <4>1, <4>2 DEF lock_many
    <3>2. CASE UNCHANGED <<nodeVars, targets>> /\ dpc' = "list"
      <4>1. {} \in SUBSET Nodes /\ UNCHANGED djob
        BY <2>1 DEF lock_many
      <4> QED
        BY <3>2, <4>1
    <3> QED
      BY <1>1, <2>1, <3>1, <3>2 DEF lock_many
  <2>2. CASE lock_many_raises
    <3>1. PICK S \in SUBSET Nodes : LockNodes(j, S) \/ (UNCHANGED nodeVars /\ S = {})
      BY <1>1, <2>2 DEF lock_many_raises, Available
    <3>2. UNCHANGED targets /\ dpc' = "loop"
      BY <2>2 DEF lock_many_raises, LockMachinesRaises, Continue, supervisorVars
    <3> QED
      BY <3>1, <3>2
  <2> QED
    BY <2>1, <2>2
<1>4. /\ UNCHANGED <<down, unlocking, spc, child, kpc, imaging, todo, locked, failures, queue>>
      /\ PushStatus(j, "dead") \/ UNCHANGED jobVars
  <2>1. UNCHANGED down
    BY <1>3 DEF LockNodes, nodeVars
  <2>2. CASE lock_many
    BY <2>1, <2>2 DEF lock_many, dispatcherRest, killVars, unlockVars
  <2>3. CASE lock_many_raises
    BY <1>1, <2>1, <2>3 DEF lock_many_raises, LockMachinesRaises, PushRaises, supervisorVars,
       killVars, unlockVars
  <2> QED
    BY <2>2, <2>3
<1>5. UNCHANGED job_targets
  BY <1>1, <1>4 DEF PushStatus, Push, jobVars, TypeOK, PaddlesTypeOK
<1>6. \A n \in Nodes :
        \/ holder'[n] = holder[n] /\ description'[n] = description[n]
        \/ /\ holder[n] = Free /\ holder'[n] = j /\ n \notin down /\ description'[n] = j
  BY <1>3 DEF LockNodes, Available, nodeVars, TypeOK, PaddlesTypeOK
<1>7. Moves(j)
  BY <1>4, <1>6 DEF Moves
<1>8. ASSUME NEW i \in Jobs, i # j PROVE SameJob(i)
  BY <1>1, <1>3, <1>4, <1>5, <1>8 DEF SameJob, TypeOK, SupervisorTypeOK
<1>9. ASSUME NEW i \in Jobs, i # j PROVE JobInv(i)'
  BY <1>1, <1>4, <1>7, <1>8, <1>9, OthersKept DEF OwnInv
<1>10. JobInv(j)'
  <2>1. HeldInv(j)'
    BY <1>2, <1>4 DEF JobInv, HeldInv, Owning, ChildInv, BeforeChild
  <2>2. ChildInv(j)' /\ KillInv(j)'
    BY <1>2, <1>4 DEF JobInv, ChildInv, KillInv
  <2>3. FailInv(j)' /\ RecordInv(j)' /\ ImagingInv(j)'
    BY <1>2, <1>4, <1>5 DEF JobInv, FailInv, RecordInv, ImagingInv
  <2> QED
    BY <2>1, <2>2, <2>3 DEF JobInv
<1>11. ASSUME NEW c \in Callers PROVE CallerInv(c)'
  <2>1. CASE JobOf(c) = j
    <3>1. ~Unlocks(c)
      BY <2>1, <1>1, <1>2 DEF Unlocks, Callers, JobOf, JobInv, KillInv, Self
    <3> QED
      BY <1>4, <3>1 DEF OwnInv, CallerInv, UnlockFailed
  <2>2. CASE JobOf(c) # j
    <3>1. JobOf(c) \in Jobs
      BY DEF Callers, JobOf
    <3> QED
      BY <1>1, <1>4, <1>7, <1>8, <2>2, <3>1, CallersKept DEF OwnInv
  <2> QED
    BY <2>1, <2>2
<1>12. TurnOwns'
  <2>1. CASE dpc' = "locked"
    <3>1. LockNodes(j, S) /\ targets'[j] = S /\ djob' = j
      BY <1>1, <1>3, <2>1 DEF TypeOK, SupervisorTypeOK
    <3>2. \A n \in S : holder'[n] = j
      BY <3>1 DEF LockNodes
    <3> QED
      BY <1>2, <1>4, <2>1, <3>1, <3>2 DEF TurnOwns, Holds, Locking
  <2>2. CASE dpc' \in {"loop", "list"}
    BY <1>1, <1>2, <1>3, <1>4, <2>2 DEF TurnOwns, Locking, Holding
  <2> QED
    BY <1>3, <2>1, <2>2
<1>13. DescInv'
  BY <1>2, <1>6 DEF DescInv
<1> QED
  BY <1>9, <1>10, <1>11, <1>12, <1>13 DEF OwnInv

-----------------------------------------------------------------------------
(* The invariant, and what follows from it                                 *)

LEMMA InitOwns == Init => OwnInv
<1> SUFFICES ASSUME Init PROVE OwnInv
  OBVIOUS
<1>1. ASSUME NEW j \in Jobs PROVE JobInv(j)
  <2>1. <<"kill", j>> \in Killers /\ Self(j) \in Killers
    BY DEF Killers, Self
  <2>2. HeldInv(j) /\ ChildInv(j) /\ KillInv(j)
    BY <2>1 DEF Init, KillInit, SupervisorInit, HeldInv, ChildInv, KillInv, Owning, AfterChild
  <2>3. FailInv(j) /\ RecordInv(j) /\ ImagingInv(j)
    BY DEF Init, PaddlesInit, SupervisorInit, DispatcherInit, FailInv, RecordInv,
           ImagingInv
  <2> QED
    BY <2>2, <2>3 DEF JobInv
<1>2. \A c \in Callers : CallerInv(c)
  BY DEF Init, UnlockInit, Idle, CallerInv, UnlockFailed
<1>3. TurnOwns /\ DescInv
  BY DEF Init, PaddlesInit, DispatcherInit, TurnOwns, DescInv, Locking, Holding
<1> QED
  BY <1>1, <1>2, <1>3 DEF OwnInv

\* Who locks with teuthology-lock takes free nodes only, and gives back their own.
LEMMA PersonOwns ==
  ASSUME TypeOK, TurnInv, OwnInv, teuthology_lock
  PROVE  OwnInv'
<1>1. UNCHANGED <<unlockVars, killVars, supervisorVars, dispatcherVars, down, jobVars>>
  BY DEF teuthology_lock, person_lock, person_unlock
<1>2. \A n \in Nodes :
        \/ holder'[n] = holder[n] /\ description'[n] = description[n]
        \/ /\ holder[n] = Free /\ n \notin down
           /\ holder'[n] = Person /\ description'[n] = Person
        \/ holder[n] = Person /\ holder'[n] = Free
  BY DEF teuthology_lock, person_lock, person_unlock, Available, TypeOK, PaddlesTypeOK
<1>3. /\ \A n \in Nodes, i \in Jobs : holder[n] = i => holder'[n] = i
      /\ \A n \in down : holder[n] = Free => holder'[n] = Free
  BY <1>2, JobsAssumption DEF TypeOK, PaddlesTypeOK
<1>4. ASSUME NEW i \in Jobs PROVE JobInv(i)'
  <2>1. /\ targets[i] \in SUBSET Nodes /\ locked[i] \in SUBSET Nodes
        /\ failures[i] \in SUBSET Nodes /\ JobInv(i)
    BY DEF TypeOK, SupervisorTypeOK, OwnInv
  <2>2. HeldInv(i)' /\ FailInv(i)'
    BY <1>1, <1>3, <2>1
       DEF JobInv, HeldInv, FailInv, Owning, Holds, killVars, supervisorVars
  <2>3. ChildInv(i)' /\ KillInv(i)' /\ RecordInv(i)' /\ ImagingInv(i)'
    BY <1>1, <2>1 DEF JobInv, ChildInv, KillInv, RecordInv, ImagingInv, killVars,
       supervisorVars, dispatcherVars, jobVars
  <2> QED
    BY <2>2, <2>3 DEF JobInv
<1>5. ASSUME NEW c \in Callers PROVE CallerInv(c)'
  <2>1. JobOf(c) \in Jobs
    BY DEF Callers, JobOf
  <2> QED
    BY <1>1, <1>3, <2>1 DEF OwnInv, CallerInv, UnlockFailed, Unlocks, JobOf, unlockVars,
       killVars, supervisorVars, dispatcherVars
<1>6. TurnOwns'
  <2>1. dpc \in Holding => djob \in Jobs
    BY BusyWithJob DEF Holding
  <2> QED
    BY <1>1, <1>3, <2>1 DEF OwnInv, TurnOwns, Holds, TypeOK, SupervisorTypeOK,
       supervisorVars, dispatcherVars
<1>7. DescInv'
  BY <1>2 DEF OwnInv, DescInv
<1> QED
  BY <1>4, <1>5, <1>6, <1>7 DEF OwnInv

LEMMA SupervisingOwns ==
  ASSUME TypeOK, TurnInv, OwnInv, Benign, NEW j \in Jobs, Supervising(j)
  PROVE  OwnInv'
<1>1. CASE SupervisorStep(j) /\ UNCHANGED dispatcherVars
  <2>1. CASE \/ sup_check_expiration(j) \/ sup_push_pid(j) \/ reimage(j) \/ reimage_done(j)
             \/ reimage_push_dead(j) \/ watch_final_push(j)
    BY <1>1, <2>1, ReportOwns
  <2>2. CASE \/ reimage_raise(j) \/ sup_spawn_job(j) \/ watch_poll(j)
             \/ describe_listed(j) \/ sup_exit(j)
    BY <1>1, <2>2, GotoOwns
  <2>8. CASE unlock_targets_raises(j)
    BY <1>1, <2>8, UnlockRaisesOwns
  <2>3. CASE watch_timeout(j) \/ watch_killed(j)
    BY <1>1, <2>3, WatchdogOwns
  <2>4. CASE \/ reimage_machines(j) \/ reimage_joined(j)
             \/ \E n \in Nodes : provision_reimage(j, n)
             \/ ansible_checked(j) \/ unlock_targets_done(j)
             \/ unlock_targets(j) /\ (locked[j] = {} \/ j \in KeepLocked)
    BY <1>1, <2>4, LoopOwns
  <2>5. CASE unlock_targets(j) /\ locked[j] # {} /\ j \notin KeepLocked
    BY <1>1, <2>5, StartUnlockOwns
  <2>6. ASSUME NEW n \in Nodes,
               \/ list_target(j, n) \/ describe_still_locked(j, n)
               \/ check_for_reimage_failures_and_mark_down(j, n)
        PROVE  OwnInv'
    <3>1. CASE QueryRaises(j)
      <4>1. /\ spc[j] \in {"reimage_failed", "list", "describe", "reimage_mark_down"}
            /\ UNCHANGED <<jobVars, unlockVars, killVars, child>>
        BY <2>6 DEF list_target, describe_still_locked,
                    check_for_reimage_failures_and_mark_down, paddlesVars
      <4> QED
        BY <1>1, <3>1, <4>1, GotoOwns
    <3>2. CASE ~QueryRaises(j)
      BY <1>1, <2>6, <3>2, VisitOwns
    <3> QED
      BY <3>1, <3>2
  <2>7. ASSUME NEW n \in Nodes,
               \/ check_for_ansible_failures_and_mark_down(j, n)
               \/ describe_disabled_targets(j, n)
        PROVE  OwnInv'
    BY <1>1, <2>7, FailuresOwns
  <2> QED
    BY <1>1, <2>1, <2>2, <2>3, <2>4, <2>5, <2>6, <2>7, <2>8 DEF SupervisorStep
<1>2. CASE KillStep(Self(j)) /\ UNCHANGED <<loopVars, dispatcherVars>>
  BY <1>2, KillReportOwns, KillProcessesOwns, StartUnlockOwns, UnlockRaisesOwns DEF KillStep
<1>3. CASE Unlocking(Self(j))
  BY <1>3, UnlockingOwns DEF Self, Callers
<1> QED
  BY <1>1, <1>2, <1>3 DEF Supervising

LEMMA DispatchingOwns ==
  ASSUME TypeOK, TurnInv, OwnInv, StartedOnce, DispatcherStep \/ DispatcherFault
  PROVE  OwnInv'
BY LoopTurnsOwn, TurnRaisesOwns, PopenOwns, CrashOwns, LockOwns DEF DispatcherStep,
   DispatcherFault

\* Nobody runs teuthology-kill.
LEMMA NobodyKills ==
  ASSUME OwnInv, Benign, NEW j \in Jobs PROVE ~Killing(j)
<1>1. <<"kill", j>> \in Callers /\ KillInv(j) /\ CallerInv(<<"kill", j>>)
  BY DEF Callers, OwnInv, JobInv
<1>2. ~teuthology_kill(j)
  BY DEF teuthology_kill, Benign
<1>3. ~KillStep(<<"kill", j>>)
  BY <1>1 DEF KillInv, KillStep, kill_get_jobs, kill_processes, kill_push, kill_find_targets,
     kill_return, kill_raises
<1>4. ~Unlocking(<<"kill", j>>)
  BY <1>1 DEF Unlocking, UnlockStep, get_status, Fail, node_active_job, unlock_one, CallerInv,
              Unlocks
<1> QED
  BY <1>2, <1>3, <1>4 DEF Killing

LEMMA StepOwns ==
  ASSUME TypeOK, TurnInv, OwnInv, StartedOnce, Benign, [Next]_vars
  PROVE  OwnInv'
<1>1. CASE UNCHANGED vars
  <2>1. /\ UNCHANGED <<nodeVars, unlockVars, killVars, supervisorVars>>
        /\ UNCHANGED <<job_targets, queue, dpc, djob>>
    BY <1>1 DEF vars, paddlesVars, jobVars, dispatcherVars
  <2>2. TurnOwns'
    BY <2>1 DEF OwnInv, TurnOwns, Holds, nodeVars, supervisorVars
  <2>3. ASSUME NEW c \in Callers, NEW n \in Nodes, unlocking'[c][n] # "idle"
        PROVE  Unlocks(c)' /\ (unlocking'[c][n] = "failed" \/ holder[n] = JobOf(c))
    BY <2>1, <2>3 DEF OwnInv, CallerInv, Unlocks, JobOf, unlockVars, killVars, supervisorVars
  <2>4. ASSUME NEW c \in Callers, UnlockFailed(c)'
        PROVE  \A n \in Nodes : unlocking'[c][n] \in {"idle", "failed"}
    BY <2>1, <2>4 DEF OwnInv, CallerInv, UnlockFailed, unlockVars
  <2> QED
    BY <2>1, <2>2, <2>3, <2>4, QuietTurn
<1>2. CASE DispatcherStep \/ DispatcherFault
  BY <1>2, DispatchingOwns
<1>3. ASSUME NEW j \in Jobs, Unlocking(<<"dispatcher", j>>) PROVE OwnInv'
  BY <1>3, UnlockingOwns DEF Callers
<1>4. ASSUME NEW j \in Jobs, Running(j) PROVE OwnInv'
  BY <1>4, JobStepOwns DEF Running
<1>5. CASE teuthology_lock
  BY <1>5, PersonOwns
<1> QED
  BY <1>1, <1>2, <1>3, <1>4, <1>5, SupervisingOwns, NobodyKills DEF Next, Dispatching

LEMMA OwnHolds == ASSUME Benign PROVE Spec => []OwnInv
<1>1. TypeOK /\ TurnInv /\ StartedOnce /\ OwnInv /\ [Next]_vars => OwnInv'
  BY StepOwns
<1> QED
  BY <1>1, InitOwns, TypeCorrect, StartedOnceHolds, PTL DEF Spec

\* What somebody works on is his, in the invariant's terms.
LEMMA WorkersOwn ==
  ASSUME TypeOK, OwnInv, NEW j \in Jobs
  PROVE  /\ WorkedOn(j) \in SUBSET Nodes
         /\ Owning(j) \/ WorkedOn(j) = {}
         /\ \A n \in WorkedOn(j) : holder[n] = j
<1>1. HeldInv(j) /\ ImagingInv(j)
  BY DEF OwnInv, JobInv
<1>2. Working(j) => Owning(j)
  BY DEF Working, Owning
<1>3. WorkedOn(j) = IF Working(j) THEN targets[j] ELSE {}
  BY <1>1 DEF WorkedOn, Imaging, ImagingInv, Working
<1> QED
  BY <1>1, <1>2, <1>3 DEF HeldInv, Holds, TypeOK, SupervisorTypeOK

(* From the reimaging to the end of the job process the targets are locked *)
(* for this job and carry its description, whatever the other jobs, the    *)
(* dispatcher and the watchdogs do (supervisor.py and lock/ops.py): unless *)
(* somebody kills the job, or a greenlet goes on where another has failed. *)
THEOREM HoldsTargetsHolds == ASSUME Benign PROVE Spec => []HoldsTargets
<1>1. TypeOK /\ OwnInv => HoldsTargets
  BY WorkersOwn, FreeIsNoJob DEF HoldsTargets, OwnInv, DescInv
<1> QED
  BY <1>1, OwnHolds, TypeCorrect, PTL

(* No unlock of one job is under way to a node another job has locked: the *)
(* checks of unlock_targets and unlock_one_safe still hold when the PUT of *)
(* unlock_one is sent (lock/ops.py).                                       *)
THEOREM NoForeignUnlockHolds == ASSUME Benign PROVE Spec => []NoForeignUnlock
<1>1. OwnInv => NoForeignUnlock
  BY DEF OwnInv, CallerInv, NoForeignUnlock
<1> QED
  BY <1>1, OwnHolds, PTL

-----------------------------------------------------------------------------
(* The processes implement NodeOwnership                                   *)

\* What `working` of NodeOwnership stands for.
AllAtWork == [j \in Jobs |-> WorkedOn(j)]

OthersSame(j) ==
  \A i \in Jobs : i # j => UNCHANGED <<spc[i], child[i], imaging[i], targets[i]>>

LEMMA SameWork ==
  ASSUME NEW i \in Jobs, UNCHANGED <<spc[i], child[i], imaging[i], targets[i]>>
  PROVE  WorkedOn(i)' = WorkedOn(i)
BY DEF WorkedOn, Imaging, SupervisorAlive, Working

\* One job's step that locks and unlocks nothing starts or ends its work.
LEMMA WorkStep ==
  ASSUME TypeOK, TypeOK', OwnInv', NEW j \in Jobs, UNCHANGED holder, OthersSame(j)
  PROVE  [Ownership!Next]_(Ownership!vars)
<1>1. \A i \in Jobs : i # j => WorkedOn(i)' = WorkedOn(i)
  BY SameWork DEF OthersSame
<1>2. WorkedOn(j)' \in SUBSET Nodes /\ \A n \in WorkedOn(j)' : holder[n] = j
  <2>1. (WorkedOn(j) \in SUBSET Nodes /\ \A n \in WorkedOn(j) : holder[n] = j)'
    <3>1. HeldInv(j)' /\ ImagingInv(j)'
      BY DEF OwnInv, JobInv
    <3>2. (Working(j) => Owning(j))'
      BY DEF Working, Owning
    <3>3. (WorkedOn(j) = IF Working(j) THEN targets[j] ELSE {})'
      BY <3>1 DEF WorkedOn, Imaging, ImagingInv, Working
    <3> QED
      BY <3>1, <3>2, <3>3 DEF HeldInv, Holds, TypeOK, SupervisorTypeOK
  <2> QED
    BY <2>1
<1>3. PICK S \in SUBSET Nodes : S = WorkedOn(j)'
  BY <1>2
<1>4. AllAtWork' = [AllAtWork EXCEPT ![j] = S]
  BY <1>1, <1>3 DEF AllAtWork
<1>5. Ownership!Work(j, S)
  BY <1>2, <1>3, <1>4 DEF Ownership!Work, AllAtWork
<1> QED
  BY <1>5 DEF Ownership!Next

LEMMA SupervisorTouches ==
  ASSUME TypeOK, NEW j \in Jobs, SupervisorStep(j)
  PROVE  UNCHANGED <<holder, targets>> /\ OthersSame(j)
<1>1. UNCHANGED <<holder, targets>>
  BY DEF SupervisorStep, sup_check_expiration, sup_push_pid, reimage, reimage_machines,
     ReimageRaises, provision_reimage, reimage_joined, reimage_done, reimage_push_dead,
     reimage_raise, sup_spawn_job, watch_poll, watch_timeout, watch_killed, watch_final_push,
     ansible_checked, unlock_targets, unlock_targets_done, unlock_targets_raises,
     describe_listed, sup_exit, check_for_reimage_failures_and_mark_down, QueryRaises,
     check_for_ansible_failures_and_mark_down, list_target, describe_still_locked,
     describe_disabled_targets, PushThen, MarkDown, Describe, paddlesVars, nodeVars, loopVars
<1>2. UNCHANGED child \/ \E s \in ChildStates : child' = [child EXCEPT ![j] = s]
  BY DEF SupervisorStep, sup_check_expiration, sup_push_pid, reimage, reimage_machines,
     ReimageRaises, provision_reimage, reimage_joined, reimage_done, reimage_push_dead,
     reimage_raise, sup_spawn_job, watch_poll, watch_timeout, watch_killed, watch_final_push,
     ansible_checked, unlock_targets, unlock_targets_done, unlock_targets_raises,
     describe_listed, sup_exit, check_for_reimage_failures_and_mark_down, QueryRaises,
     check_for_ansible_failures_and_mark_down, list_target, describe_still_locked,
     describe_disabled_targets, PushThen, ChildStates
<1>3. \A i \in Jobs : i # j => spc'[i] = spc[i]
  BY DEF SupervisorStep, sup_check_expiration, sup_push_pid, reimage, reimage_machines,
     ReimageRaises, provision_reimage, reimage_joined, reimage_done, reimage_push_dead,
     reimage_raise, sup_spawn_job, watch_poll, watch_timeout, watch_killed, watch_final_push,
     ansible_checked, unlock_targets, unlock_targets_done, unlock_targets_raises,
     describe_listed, sup_exit, check_for_reimage_failures_and_mark_down, QueryRaises,
     check_for_ansible_failures_and_mark_down, list_target, describe_still_locked,
     describe_disabled_targets, PushThen, Goto, TypeOK, SupervisorTypeOK
<1>4. \A i \in Jobs : i # j => imaging'[i] = imaging[i]
  BY DEF SupervisorStep, sup_check_expiration, sup_push_pid, reimage, reimage_machines,
     ReimageRaises, provision_reimage, reimage_joined, reimage_done, reimage_push_dead,
     reimage_raise, sup_spawn_job, watch_poll, watch_timeout, watch_killed, watch_final_push,
     ansible_checked, unlock_targets, unlock_targets_done, unlock_targets_raises,
     describe_listed, sup_exit, check_for_reimage_failures_and_mark_down, QueryRaises,
     check_for_ansible_failures_and_mark_down, list_target, describe_still_locked,
     describe_disabled_targets, loopVars, TypeOK, SupervisorTypeOK
<1> QED
  BY <1>1, <1>2, <1>3, <1>4 DEF OthersSame, TypeOK, KillTypeOK

LEMMA KillTouches ==
  ASSUME TypeOK, NEW j \in Jobs, KillStep(Self(j)), UNCHANGED loopVars
  PROVE  UNCHANGED holder /\ OthersSame(j)
<1>1. UNCHANGED <<holder, imaging, targets>>
  BY DEF KillStep, kill_get_jobs, kill_processes, kill_push, kill_find_targets, kill_return,
     kill_raises, loopVars, paddlesVars, nodeVars
<1>2. CASE kill_processes(Self(j))
  BY <1>1, <1>2 DEF kill_processes, SigTerm, Self, JobOf, OthersSame, TypeOK, SupervisorTypeOK,
     KillTypeOK
<1>3. CASE ~kill_processes(Self(j))
  BY <1>1, <1>3 DEF KillStep, kill_get_jobs, kill_push, kill_find_targets, kill_return,
                    kill_raises, OthersSame
<1> QED
  BY <1>1, <1>2, <1>3

LEMMA RunTouches ==
  ASSUME TypeOK, NEW j \in Jobs, JobStep(j)
  PROVE  UNCHANGED holder /\ OthersSame(j)
BY DEF JobStep, job_start, report_outcome, job_dies, paddlesVars, nodeVars, loopVars,
   OthersSame,
   TypeOK, KillTypeOK

\* An unlock takes a node from somebody who does not work on it.
LEMMA UnlockImplements ==
  ASSUME TypeOK, TurnInv, OwnInv, Benign, NEW c \in Callers, Unlocking(c)
  PROVE  [Ownership!Next]_(Ownership!vars)
<1>1. UNCHANGED <<spc, child, imaging, targets>>
  BY DEF Unlocking, supervisorVars
<1>2. UNCHANGED AllAtWork
  BY <1>1, SameWork DEF AllAtWork
<1>3. PICK n \in Nodes : get_status(c, n) \/ node_active_job(c, n) \/ unlock_one(c, n)
  BY DEF Unlocking, UnlockStep
<1>4. UNCHANGED holder \/ holder' = [holder EXCEPT ![n] = Free]
  BY <1>3 DEF get_status, Fail, node_active_job, unlock_one, UnlockNode, paddlesVars, nodeVars
<1>5. Unlocks(c) /\ holder[n] = JobOf(c) /\ JobOf(c) \in Jobs
  BY <1>3 DEF get_status, Fail, node_active_job, unlock_one, OwnInv, CallerInv, Callers, JobOf
<1>6. \A i \in Jobs : n \notin WorkedOn(i)
  <2>1. ~Owning(JobOf(c))
    BY <1>5, UnlocksNotOwning
  <2>2. WorkedOn(JobOf(c)) = {}
    BY <1>5, <2>1, WorkersOwn
  <2>3. \A i \in Jobs : n \in WorkedOn(i) => i = JobOf(c)
    BY <1>5, WorkersOwn
  <2> QED
    BY <2>2, <2>3
<1> QED
  BY <1>2, <1>4, <1>6 DEF AllAtWork, Ownership!Next, Ownership!GiveBack, Ownership!vars

\* Locking takes free nodes, for a job nobody works on yet.
LEMMA LockImplements ==
  ASSUME TypeOK, TurnInv, OwnInv, lock_many \/ lock_many_raises
  PROVE  [Ownership!Next]_(Ownership!vars)
<1>1. PICK j \in Jobs : djob = j /\ dpc \in {"list", "lock_many"}
  BY BusyWithJob DEF lock_many, lock_many_raises
<1>2. /\ UNCHANGED <<spc, child, imaging>>
      /\ \A i \in Jobs : i # j => targets'[i] = targets[i]
  BY <1>1 DEF lock_many, lock_many_raises, supervisorVars, dispatcherRest, TypeOK,
     SupervisorTypeOK
<1>3. WorkedOn(j) = {} /\ WorkedOn(j)' = {}
  <2>1. spc[j] = "none" /\ child[j] = "none"
    BY <1>1 DEF OwnInv, TurnOwns, Locking, JobInv, ChildInv, BeforeChild
  <2> QED
    BY <1>2, <2>1 DEF WorkedOn, Imaging, SupervisorAlive, Working
<1>4. UNCHANGED AllAtWork
  BY <1>2, <1>3, SameWork DEF AllAtWork
<1>5. CASE UNCHANGED holder
  BY <1>4, <1>5 DEF AllAtWork, Ownership!vars
<1>6. CASE \E S \in SUBSET Available : LockNodes(j, S)
  <2>1. PICK S \in SUBSET Nodes : LockNodes(j, S)
    BY <1>6 DEF Available
  <2>2. Ownership!Take(j, S)
    BY <1>4, <2>1 DEF LockNodes, Available, Ownership!Take, AllAtWork
  <2> QED
    BY <2>1, <2>2 DEF Ownership!Next
<1> QED
  BY <1>1, <1>5, <1>6 DEF lock_many, lock_many_raises, nodeVars

\* So does somebody with teuthology-lock.
LEMMA PersonImplements ==
  ASSUME TypeOK, OwnInv, teuthology_lock
  PROVE  [Ownership!Next]_(Ownership!vars)
<1>1. UNCHANGED AllAtWork
  BY SameWork DEF teuthology_lock, supervisorVars, AllAtWork
<1>2. PICK n \in Nodes : person_lock(n) \/ person_unlock(n)
  BY DEF teuthology_lock
<1>3. CASE person_lock(n)
  <2>1. Ownership!Take(Person, {n})
    BY <1>1, <1>3 DEF person_lock, Available, Ownership!Take, AllAtWork, TypeOK, PaddlesTypeOK
  <2> QED
    BY <2>1 DEF Ownership!Next
<1>4. CASE person_unlock(n)
  <2>1. \A i \in Jobs : n \notin WorkedOn(i)
    BY <1>4, WorkersOwn, JobsAssumption DEF person_unlock
  <2>2. Ownership!GiveBack(n)
    BY <1>1, <1>4, <2>1 DEF person_unlock, Ownership!GiveBack, AllAtWork
  <2> QED
    BY <2>2 DEF Ownership!Next
<1> QED
  BY <1>2, <1>3, <1>4

LEMMA StepImplements ==
  ASSUME TypeOK, TypeOK', TurnInv, OwnInv, OwnInv', Benign, [Next]_vars
  PROVE  [Ownership!Next]_(Ownership!vars)
<1>1. CASE UNCHANGED vars
  BY <1>1, SameWork DEF vars, paddlesVars, nodeVars, supervisorVars, Ownership!vars
<1>2. CASE lock_many \/ lock_many_raises
  BY <1>2, LockImplements
<1>3. CASE popen
  <2>1. PICK j \in Jobs : djob = j
    BY <1>3, BusyWithJob DEF popen
  <2>2. UNCHANGED holder /\ OthersSame(j)
    BY <1>3, <2>1 DEF popen, OthersSame, paddlesVars, nodeVars, dispatcherRest, TypeOK,
       SupervisorTypeOK
  <2> QED
    BY <2>2, WorkStep
<1>4. CASE (DispatcherStep \/ DispatcherFault) /\ ~(lock_many \/ lock_many_raises \/ popen)
  <2>1. UNCHANGED <<holder, supervisorVars>>
    BY <1>4 DEF DispatcherStep, DispatcherFault, reserve, leave_loop, bury, prep_job,
       lock_machines, list_locks, report_locked, unlock_done, unlock_raises,
       report_spawn_failed, delete, loop_exit, crash, restart, paddlesVars, nodeVars
  <2> QED
    BY <2>1, SameWork DEF supervisorVars, Ownership!vars
<1>5. ASSUME NEW c \in Callers, Unlocking(c) PROVE [Ownership!Next]_(Ownership!vars)
  BY <1>5, UnlockImplements
<1>6. ASSUME NEW j \in Jobs, Supervising(j) PROVE [Ownership!Next]_(Ownership!vars)
  <2>1. Self(j) \in Callers
    BY DEF Self, Callers
  <2> QED
    BY <1>5, <1>6, <2>1, SupervisorTouches, KillTouches, WorkStep DEF Supervising
<1>7. ASSUME NEW j \in Jobs, Running(j) PROVE [Ownership!Next]_(Ownership!vars)
  BY <1>7, RunTouches, WorkStep DEF Running
<1>8. \A j \in Jobs : <<"dispatcher", j>> \in Callers
  BY DEF Callers
<1> QED
  BY <1>1, <1>2, <1>3, <1>4, <1>5, <1>6, <1>7, <1>8, PersonImplements, NobodyKills
     DEF Next, Dispatching

(* The dispatcher, the supervisors, their watchdogs and the job processes, *)
(* with the requests they send to the lock server, implement the promise   *)
(* of NodeOwnership: a node is taken by one job or person at a time, and   *)
(* given back when no job process works on it and no greenlet reimages it. *)
(* Left out is a reimaging that fails while other nodes are still at it,   *)
(* whose nodes the code does give away (supervisor.py:334-336).            *)
THEOREM OwnershipImplemented == ASSUME Benign PROVE Spec => ImplementsOwnership
<1>1. Init => Ownership!Init
  BY DEF Init, PaddlesInit, KillInit, SupervisorInit, Ownership!Init, WorkedOn, Imaging, Working
<1>2. /\ TypeOK /\ TypeOK' /\ TurnInv /\ OwnInv /\ OwnInv' /\ [Next]_vars
      => [Ownership!Next]_(Ownership!vars)
  BY StepImplements
<1> QED
  BY <1>1, <1>2, OwnHolds, TypeCorrect, PTL DEF Spec, ImplementsOwnership, Ownership!Spec

-----------------------------------------------------------------------------
(* Who talks to the lock server keeps the description of a node that stays *)
(* locked: update_lock without a description, and a description only for a *)
(* node that is free (supervisor.py describe_disabled_targets).            *)
THEOREM DescriptionKeptHolds == ASSUME Benign PROVE Spec => DescriptionKept
<1>1. OwnInv /\ OwnInv' => [\A n \in Nodes : holder[n] # Free /\ holder'[n] = holder[n]
                                            => description'[n] = description[n]]_vars
  BY DEF OwnInv, DescInv
<1> QED
  BY <1>1, OwnHolds, PTL DEF DescriptionKept

-----------------------------------------------------------------------------
(* Jobs no watchdog has to kill                                            *)

\* kill_job, which unlocks what paddles has on record, is not called.
Quiet == Benign /\ "timeout" \notin Faults

\* Nobody unlocks a job's targets before they have been checked.
WatchInv(j) ==
  /\ kpc[Self(j)] = "idle"
  /\ spc[j] \notin {"kill_only", "kill_unlock", "killed"}
  /\ spc[j] \in {"watch", "final_push", "ansible"} => Holds(j, targets[j])
  /\ spc[j] = "ansible" => todo[j] \subseteq targets[j]
  /\ spc[j] # "watch" => child[j] \in {"none", "ended"}
  /\ child[j] # "none" => spc[j] \in {"watch", "exited"} \cup AfterChild

LEMMA NoWatchdog ==
  ASSUME TypeOK, Quiet, NEW j \in Jobs, WatchInv(j)
  PROVE  ~KillStep(Self(j)) /\ ~watch_timeout(j) /\ ~watch_killed(j)
BY DEF Quiet, WatchInv, KillStep, kill_get_jobs, kill_processes, kill_push, kill_find_targets,
   kill_return, kill_raises, watch_timeout, watch_killed

\* A step of a supervisor is no concern of the others.
SameFor(i) ==
  /\ spc'[i] = spc[i] /\ child'[i] = child[i] /\ todo'[i] = todo[i]
  /\ locked'[i] = locked[i] /\ status'[i] = status[i]

LEMMA SupervisorKeeps ==
  ASSUME TypeOK, Quiet, NEW j \in Jobs, WatchInv(j), SupervisorStep(j)
  PROVE  /\ UNCHANGED <<holder, targets, kpc, seen>>
         /\ \A i \in Jobs : i # j => SameFor(i)
         /\ \A c \in Callers : c # Self(j) => unlocking'[c] = unlocking[c]
<1> USE DEF TypeOK, SupervisorTypeOK, KillTypeOK, PaddlesTypeOK, UnlockTypeOK
<1>1. /\ UNCHANGED <<holder, targets>>
      /\ \A i \in Jobs : i # j => spc'[i] = spc[i] /\ child'[i] = child[i]
  BY SupervisorTouches DEF OthersSame
<1>2. UNCHANGED kpc
  BY NoWatchdog DEF SupervisorStep, sup_check_expiration, sup_push_pid, reimage,
     reimage_machines, ReimageRaises, provision_reimage, reimage_joined, reimage_done,
     reimage_push_dead, reimage_raise, sup_spawn_job, watch_poll, watch_final_push,
     ansible_checked, unlock_targets, unlock_targets_done, unlock_targets_raises,
     describe_listed, sup_exit, check_for_reimage_failures_and_mark_down, QueryRaises,
     check_for_ansible_failures_and_mark_down, list_target, describe_still_locked,
     describe_disabled_targets, PushThen, killVars
<1>3. UNCHANGED unlockVars \/ unlock_safe(Self(j), locked[j]) \/ UnlockRaises(Self(j))
  BY NoWatchdog DEF SupervisorStep, sup_check_expiration, sup_push_pid, reimage,
     reimage_machines, ReimageRaises, provision_reimage, reimage_joined, reimage_done,
     reimage_push_dead, reimage_raise, sup_spawn_job, watch_poll, watch_final_push,
     ansible_checked, unlock_targets, unlock_targets_done, unlock_targets_raises,
     describe_listed, sup_exit, check_for_reimage_failures_and_mark_down, QueryRaises,
     check_for_ansible_failures_and_mark_down, list_target, describe_still_locked,
     describe_disabled_targets, PushThen
<1>4. UNCHANGED seen /\ \A c \in Callers : c # Self(j) => unlocking'[c] = unlocking[c]
  BY <1>3 DEF unlock_safe, UnlockRaises, unlockVars
<1>5. \A i \in Jobs : i # j => todo'[i] = todo[i] /\ locked'[i] = locked[i]
  <2>1. CASE \/ sup_check_expiration(j) \/ sup_push_pid(j) \/ reimage(j) \/ reimage_done(j)
             \/ reimage_raise(j) \/ sup_spawn_job(j) \/ watch_poll(j)
             \/ unlock_targets_raises(j) \/ describe_listed(j) \/ sup_exit(j)
             \/ \E n \in Nodes : describe_disabled_targets(j, n)
    BY <2>1 DEF sup_check_expiration, sup_push_pid, reimage, reimage_done, reimage_raise,
       sup_spawn_job, watch_poll, unlock_targets_raises, describe_listed, sup_exit,
       describe_disabled_targets, loopVars
  <2>2. CASE \/ reimage_machines(j) \/ reimage_joined(j) \/ reimage_push_dead(j)
             \/ \E n \in Nodes : \/ provision_reimage(j, n)
                                \/ check_for_reimage_failures_and_mark_down(j, n)
    BY <2>2 DEF reimage_machines, ReimageRaises, reimage_joined, reimage_push_dead,
       provision_reimage, check_for_reimage_failures_and_mark_down, QueryRaises, loopVars
  <2>3. CASE \/ watch_final_push(j) \/ ansible_checked(j) \/ unlock_targets(j)
             \/ unlock_targets_done(j)
             \/ \E n \in Nodes : \/ check_for_ansible_failures_and_mark_down(j, n)
                                \/ list_target(j, n) \/ describe_still_locked(j, n)
    BY <2>3 DEF watch_final_push, ansible_checked, unlock_targets, unlock_targets_done,
       check_for_ansible_failures_and_mark_down, list_target, describe_still_locked,
       QueryRaises, loopVars
  <2> HIDE DEF TypeOK, SupervisorTypeOK, KillTypeOK, PaddlesTypeOK, UnlockTypeOK
  <2> QED
    BY <2>1, <2>2, <2>3, NoWatchdog DEF SupervisorStep
<1>6. \A i \in Jobs : i # j => status'[i] = status[i]
  <2>1. CASE \/ sup_check_expiration(j) \/ sup_push_pid(j) \/ reimage(j) \/ reimage_done(j)
             \/ reimage_push_dead(j) \/ watch_final_push(j)
    <3>1. \E s : UNCHANGED status \/ status' = [status EXCEPT ![j] = Accepted(@, s)]
      BY <2>1 DEF sup_check_expiration, sup_push_pid, reimage, reimage_done,
         reimage_push_dead, watch_final_push, PushThen, PushRaises, Push, paddlesVars,
         jobVars
    <3> QED
      BY <3>1
  <2>2. CASE UNCHANGED status
    BY <2>2
  <2> QED
    BY <2>1, <2>2, NoWatchdog DEF SupervisorStep, reimage_machines, ReimageRaises,
       provision_reimage, reimage_joined, reimage_raise, sup_spawn_job, watch_poll,
       ansible_checked, unlock_targets,
       unlock_targets_done, unlock_targets_raises, describe_listed, sup_exit,
       check_for_reimage_failures_and_mark_down, QueryRaises,
       check_for_ansible_failures_and_mark_down, list_target, describe_still_locked,
       describe_disabled_targets, paddlesVars, jobVars
<1> QED
  BY <1>1, <1>2, <1>4, <1>5, <1>6 DEF SameFor

\* Where a step takes a supervisor, and what it does to its loop.
LEMMA SupervisorWatches ==
  ASSUME TypeOK, OwnInv, Quiet, NEW j \in Jobs, WatchInv(j), SupervisorStep(j)
  PROVE  WatchInv(j)'
<1> USE DEF WatchInv, AfterChild, Goto, Holds, TypeOK, SupervisorTypeOK, KillTypeOK
<1>1. UNCHANGED <<holder, targets, kpc>>
  BY SupervisorKeeps
<1>2. CASE sup_check_expiration(j) \/ sup_push_pid(j) \/ reimage(j)
  BY <1>1, <1>2 DEF sup_check_expiration, sup_push_pid, reimage, PushThen, PushRaises
<1>3. CASE reimage_done(j) \/ reimage_push_dead(j)
  BY <1>1, <1>3 DEF reimage_done, reimage_push_dead, PushThen, PushRaises
<1>4. CASE watch_final_push(j)
  BY <1>1, <1>4 DEF watch_final_push, PushThen, PushRaises
<1>5. CASE reimage_machines(j) \/ reimage_joined(j) \/ reimage_raise(j)
  BY <1>1, <1>5 DEF reimage_machines, reimage_joined, ReimageRaises, reimage_raise
<1>12. ASSUME NEW n \in Nodes, provision_reimage(j, n) PROVE WatchInv(j)'
  BY <1>1, <1>12 DEF provision_reimage, ReimageRaises
<1>6. CASE sup_spawn_job(j)
  BY <1>1, <1>6 DEF sup_spawn_job, OwnInv, JobInv, HeldInv, Owning
<1>7. CASE watch_poll(j)
  BY <1>1, <1>7 DEF watch_poll, AfterChild
<1>8. CASE ansible_checked(j) \/ describe_listed(j) \/ sup_exit(j)
  BY <1>1, <1>8 DEF ansible_checked, describe_listed, sup_exit, AfterChild
<1>9. CASE unlock_targets(j) \/ unlock_targets_done(j) \/ unlock_targets_raises(j)
  BY <1>1, <1>9 DEF unlock_targets, unlock_targets_done, unlock_targets_raises, AfterUnlock,
                    AfterChild
<1>10. ASSUME NEW n \in Nodes,
              \/ check_for_reimage_failures_and_mark_down(j, n) \/ list_target(j, n)
              \/ describe_still_locked(j, n) \/ describe_disabled_targets(j, n)
       PROVE  WatchInv(j)'
  BY <1>1, <1>10 DEF check_for_reimage_failures_and_mark_down, QueryRaises, list_target,
     describe_still_locked, describe_disabled_targets
<1>11. ASSUME NEW n \in Nodes, check_for_ansible_failures_and_mark_down(j, n)
       PROVE  WatchInv(j)'
  BY <1>1, <1>11 DEF check_for_ansible_failures_and_mark_down
<1> QED
  BY <1>2, <1>3, <1>4, <1>5, <1>6, <1>7, <1>8, <1>9, <1>10, <1>11, <1>12,
     NoWatchdog DEF SupervisorStep

\* An unlock frees at most a node of the job it is for.
LEMMA UnlockingFrees ==
  ASSUME TypeOK, OwnInv, NEW c \in Callers, Unlocking(c)
  PROVE  /\ UNCHANGED <<down, jobVars, killVars, supervisorVars, dispatcherVars>>
         /\ Unlocks(c)
         /\ \A n \in Nodes : \/ holder'[n] = holder[n]
                             \/ holder[n] = JobOf(c) /\ holder'[n] = Free
<1>1. PICK n \in Nodes : get_status(c, n) \/ node_active_job(c, n) \/ unlock_one(c, n)
  BY DEF Unlocking, UnlockStep
<1>2. UNCHANGED <<killVars, supervisorVars, dispatcherVars>>
  BY DEF Unlocking
<1>3. Unlocks(c) /\ holder[n] = JobOf(c)
  BY <1>1 DEF OwnInv, CallerInv, get_status, Fail, node_active_job, unlock_one
<1>4. /\ UNCHANGED <<down, jobVars>>
      /\ UNCHANGED holder \/ holder' = [holder EXCEPT ![n] = Free]
  BY <1>1 DEF get_status, Fail, node_active_job, unlock_one, UnlockNode, paddlesVars, nodeVars
<1> QED
  BY <1>2, <1>3, <1>4 DEF TypeOK, PaddlesTypeOK

\* The dispatcher locks nodes that are free, for a job that has no supervisor.
LEMMA DispatcherLocks ==
  ASSUME TypeOK, TurnInv, OwnInv, DispatcherStep \/ DispatcherFault
  PROVE  /\ UNCHANGED <<down, kpc, child, todo, locked, seen>>
         /\ \A n \in Nodes : \/ holder'[n] = holder[n]
                             \/ /\ holder[n] = Free /\ n \notin down
                                /\ dpc = "lock_many" /\ holder'[n] = djob
         /\ dpc \in Locking \cup Holding => djob \in Jobs /\ spc[djob] = "none"
         /\ \A i \in Jobs : (spc'[i] = spc[i] /\ targets'[i] = targets[i])
                            \/ (/\ djob = i /\ dpc \in {"lock_many", "popen"}
                                /\ spc'[i] \in {"none", "start"})
<1>1. dpc \in Locking \cup Holding => djob \in Jobs /\ spc[djob] = "none"
  BY BusyWithJob DEF OwnInv, TurnOwns, Locking, Holding
<1>2. CASE lock_many \/ lock_many_raises
  <2>1. UNCHANGED <<down, kpc, child, todo, locked, seen, spc>> /\ dpc \in {"list", "lock_many"}
    <3>1. CASE lock_many
      BY <3>1 DEF lock_many, LockNodes, nodeVars, unlockVars, killVars, dispatcherRest
    <3>2. CASE lock_many_raises
      BY <3>2 DEF lock_many_raises, LockNodes, nodeVars, unlockVars, killVars,
         supervisorVars
    <3> QED
      BY <1>2, <3>1, <3>2
  <2>2. \/ UNCHANGED holder
        \/ dpc = "lock_many" /\ \E S \in SUBSET Available : LockNodes(djob, S)
    BY <1>2 DEF lock_many, lock_many_raises, nodeVars
  <2>3. \A n \in Nodes : \/ holder'[n] = holder[n]
                         \/ /\ holder[n] = Free /\ n \notin down
                            /\ dpc = "lock_many" /\ holder'[n] = djob
    BY <2>2 DEF LockNodes, Available, TypeOK, PaddlesTypeOK
  <2>4. \A i \in Jobs : targets'[i] = targets[i] \/ (djob = i /\ dpc = "lock_many")
    BY <1>2 DEF lock_many, lock_many_raises, supervisorVars, TypeOK, SupervisorTypeOK
  <2> QED
    BY <1>1, <2>1, <2>3, <2>4 DEF Locking
<1>3. CASE popen
  <2>1. /\ UNCHANGED <<down, holder, kpc, child, todo, locked, seen, targets>>
        /\ dpc = "popen" /\ (UNCHANGED spc \/ spc' = [spc EXCEPT ![djob] = "start"])
    BY <1>3 DEF popen, unlock_safe, paddlesVars, nodeVars, killVars, unlockVars,
       dispatcherRest
  <2> QED
    BY <1>1, <2>1 DEF Holding, TypeOK, SupervisorTypeOK
<1>4. CASE ~(lock_many \/ lock_many_raises \/ popen)
  <2>1. UNCHANGED <<nodeVars, killVars, supervisorVars, seen>>
    BY <1>4 DEF DispatcherStep, DispatcherFault, reserve, leave_loop, bury, prep_job,
       lock_machines, list_locks, report_locked, unlock_done, unlock_raises,
       report_spawn_failed, delete, loop_exit, crash, restart, paddlesVars, unlockVars,
       UnlockRaises, DropGreenlets
  <2> QED
    BY <1>1, <2>1 DEF nodeVars, killVars, supervisorVars
<1> QED
  BY <1>2, <1>3, <1>4

\* The job process.
LEMMA JobKeeps ==
  ASSUME TypeOK, NEW j \in Jobs, JobStep(j)
  PROVE  /\ UNCHANGED <<nodeVars, unlockVars, killVars, spc, loopVars>>
         /\ child[j] \in {"starting", "running", "dying"}
         /\ child'[j] \in {"running", "ended"}
         /\ \A i \in Jobs : i # j => SameFor(i)
<1>1. /\ UNCHANGED <<nodeVars, unlockVars, killVars, spc, loopVars>>
      /\ child[j] \in {"starting", "running", "dying"}
      /\ \E s \in {"running", "ended"} : child' = [child EXCEPT ![j] = s]
  BY DEF JobStep, job_start, report_outcome, job_dies, paddlesVars
<1>2. \A i \in Jobs : i # j => status'[i] = status[i]
  <2>1. \E s : UNCHANGED status \/ status' = [status EXCEPT ![j] = Accepted(@, s)]
    BY DEF JobStep, job_start, report_outcome, job_dies, PushRaises, Push, paddlesVars,
       jobVars
  <2> QED
    BY <2>1 DEF TypeOK, PaddlesTypeOK
<1> QED
  BY <1>1, <1>2 DEF SameFor, loopVars, TypeOK, KillTypeOK

LEMMA StepWatches ==
  ASSUME TypeOK, TurnInv, OwnInv, Quiet, [Next]_vars, \A j \in Jobs : WatchInv(j)
  PROVE  \A j \in Jobs : WatchInv(j)'
<1> SUFFICES ASSUME NEW i \in Jobs PROVE WatchInv(i)'
  OBVIOUS
<1>1. CASE UNCHANGED vars
  BY <1>1 DEF vars, WatchInv, Holds, paddlesVars, nodeVars, killVars, supervisorVars
<1>2. CASE DispatcherStep \/ DispatcherFault
  <2>1. targets[i] \in SUBSET Nodes
    BY DEF TypeOK, SupervisorTypeOK
  <2>2. spc[i] \in {"watch", "final_push", "ansible"} => UNCHANGED <<spc[i], targets[i]>>
    BY <1>2, DispatcherLocks DEF Locking, Holding
  <2>3. \A n \in Nodes : holder[n] = i => holder'[n] = i
    BY <1>2, DispatcherLocks, FreeIsNoJob
  <2> QED
    BY <1>2, <2>1, <2>2, <2>3, DispatcherLocks DEF WatchInv, Holds, Locking, Holding,
       AfterChild
<1>3. ASSUME NEW c \in Callers, Unlocking(c) PROVE WatchInv(i)'
  <2>1. JobOf(c) = i => spc[i] \notin {"watch", "final_push", "ansible"}
    <3>1. c[1] = "supervisor" => c = Self(JobOf(c))
      BY DEF Callers, JobOf, Self
    <3> QED
      BY <1>3, <3>1, UnlockingFrees DEF Unlocks, WatchInv, OwnInv, TurnOwns
  <2>2. targets[i] \in SUBSET Nodes
    BY DEF TypeOK, SupervisorTypeOK
  <2> QED
    BY <1>3, <2>1, <2>2, UnlockingFrees DEF WatchInv, Holds, killVars, supervisorVars
<1>4. ASSUME NEW j \in Jobs, SupervisorStep(j) PROVE WatchInv(i)'
  BY <1>4, SupervisorKeeps, SupervisorWatches DEF SameFor, WatchInv, Holds
<1>5. ASSUME NEW j \in Jobs, JobStep(j) PROVE WatchInv(i)'
  BY <1>5, JobKeeps DEF SameFor, WatchInv, Holds, nodeVars, killVars, loopVars
<1>6. \A j \in Jobs : Self(j) \in Callers /\ <<"dispatcher", j>> \in Callers
  BY DEF Self, Callers
<1>7. CASE teuthology_lock
  <2>1. \A n \in Nodes : holder[n] = i => holder'[n] = i
    BY <1>7, JobsAssumption DEF teuthology_lock, person_lock, person_unlock, Available,
       TypeOK, PaddlesTypeOK
  <2>2. targets[i] \in SUBSET Nodes
    BY DEF TypeOK, SupervisorTypeOK
  <2> QED
    BY <1>7, <2>1, <2>2 DEF teuthology_lock, WatchInv, Holds, killVars, supervisorVars
<1> QED
  BY <1>1, <1>2, <1>3, <1>4, <1>5, <1>6, <1>7, NoWatchdog, NobodyKills DEF Next, Dispatching,
     Supervising, Running, Quiet

-----------------------------------------------------------------------------
(* Nodes are marked down while they are locked                             *)

LEMMA StepMarks ==
  ASSUME TypeOK, TurnInv, OwnInv, Quiet, [Next]_vars, \A j \in Jobs : WatchInv(j),
         NEW n \in down' \ down
  PROVE  holder[n] # Free
<1>1. ASSUME NEW j \in Jobs, SupervisorStep(j) PROVE holder[n] # Free
  <2>1. ASSUME NEW m \in Nodes, check_for_ansible_failures_and_mark_down(j, m)
        PROVE  holder[n] # Free
    <3>1. n = m /\ n \in targets[j] /\ Holds(j, targets[j])
      BY <2>1 DEF check_for_ansible_failures_and_mark_down, MarkDown, nodeVars, WatchInv
    <3> QED
      BY <3>1, FreeIsNoJob DEF Holds
  <2>2. ASSUME UNCHANGED nodeVars PROVE FALSE
    BY <2>2 DEF nodeVars
  <2>3. ASSUME NEW m \in Nodes, describe_disabled_targets(j, m) PROVE FALSE
    BY <2>2, <2>3 DEF describe_disabled_targets, Describe
  <2>4. ASSUME NEW m \in Nodes,
               \/ check_for_reimage_failures_and_mark_down(j, m)
               \/ list_target(j, m) \/ describe_still_locked(j, m)
        PROVE  FALSE
    BY <2>2, <2>4 DEF check_for_reimage_failures_and_mark_down, QueryRaises, list_target,
       describe_still_locked, paddlesVars, Quiet, Benign
  <2>5. CASE \/ sup_check_expiration(j) \/ sup_push_pid(j) \/ reimage(j) \/ reimage_done(j)
             \/ reimage_push_dead(j) \/ watch_final_push(j)
    BY <2>2, <2>5 DEF sup_check_expiration, sup_push_pid, reimage, reimage_done,
       reimage_push_dead, watch_final_push, PushThen, paddlesVars
  <2>6. CASE \/ reimage_machines(j) \/ reimage_joined(j) \/ reimage_raise(j)
             \/ sup_spawn_job(j) \/ watch_poll(j) \/ watch_timeout(j) \/ watch_killed(j)
             \/ ansible_checked(j) \/ unlock_targets(j) \/ unlock_targets_done(j)
             \/ unlock_targets_raises(j) \/ describe_listed(j) \/ sup_exit(j)
             \/ \E m \in Nodes : provision_reimage(j, m)
    BY <2>2, <2>6 DEF reimage_machines, provision_reimage, reimage_joined, reimage_raise,
       sup_spawn_job, watch_poll, watch_timeout, watch_killed, ansible_checked,
       unlock_targets, unlock_targets_done, unlock_targets_raises, describe_listed, sup_exit,
       paddlesVars
  <2> QED
    BY <1>1, <2>1, <2>3, <2>4, <2>5, <2>6 DEF SupervisorStep
<1>2. ASSUME NEW c \in Callers, Unlocking(c) PROVE FALSE
  BY <1>2, UnlockingFrees
<1>3. ~UNCHANGED vars
  BY DEF vars, paddlesVars, nodeVars
<1>4. ~(DispatcherStep \/ DispatcherFault)
  BY DispatcherLocks
<1>5. ASSUME NEW j \in Jobs, JobStep(j) PROVE FALSE
  BY <1>5, JobKeeps DEF nodeVars
<1>6. \A j \in Jobs : Self(j) \in Callers /\ <<"dispatcher", j>> \in Callers
  BY DEF Self, Callers
<1>7. ~teuthology_lock
  BY DEF teuthology_lock, person_lock, person_unlock
<1> QED
  BY <1>1, <1>2, <1>3, <1>4, <1>5, <1>6, <1>7, NoWatchdog, NobodyKills DEF Next, Dispatching,
     Supervising, Running, Quiet

LEMMA QuietHolds == ASSUME Quiet PROVE Spec => []\A j \in Jobs : WatchInv(j)
<1>1. Init => \A j \in Jobs : WatchInv(j)
  <2>1. \A j \in Jobs : Self(j) \in Killers
    BY DEF Self, Killers
  <2> QED
    BY <2>1 DEF Init, KillInit, SupervisorInit, WatchInv
<1>2. TypeOK /\ TurnInv /\ OwnInv /\ (\A j \in Jobs : WatchInv(j)) /\ [Next]_vars
      => (\A j \in Jobs : WatchInv(j))'
  BY StepWatches
<1>3. Benign
  BY DEF Quiet
<1> QED
  BY <1>1, <1>2, <1>3, OwnHolds, TypeCorrect, PTL DEF Spec

(* A supervisor marks a node down only while it is locked: ansible's       *)
(* failures are checked before unlock_targets, and unless kill_job had to  *)
(* come first the targets are still the job's (supervisor.py).             *)
THEOREM MarkedDownHolds == ASSUME Quiet PROVE Spec => MarkedDownWhileLocked
<1>1. TypeOK /\ TurnInv /\ OwnInv /\ (\A j \in Jobs : WatchInv(j)) /\ [Next]_vars
      => [\A n \in down' \ down : holder[n] # Free]_vars
  BY StepMarks
<1>2. Benign
  BY DEF Quiet
<1> QED
  BY <1>1, <1>2, QuietHolds, OwnHolds, TypeCorrect, PTL DEF Spec, MarkedDownWhileLocked

-----------------------------------------------------------------------------
(* Unlocked when it is over                                                *)

\* A supervisor is not ended by a report, a query or an unlock out of tries.
Told == Quiet /\ Faults \cap {"report", "server"} = {}

None(j)   == \A n \in Nodes : holder[n] # j
Remain(c) == \A n \in Nodes : holder[n] = JobOf(c) => unlocking[c][n] # "idle"

\* A greenlet does not fail, and has read the description of its own job.
SeenInv(c) ==
  \A n \in Nodes :
    /\ unlocking[c][n] # "failed"
    /\ unlocking[c][n] \in {"node_active_job", "unlock_one"} => seen[c][n] = JobOf(c)

\* Once it has a supervisor, a job has no other nodes than its targets.
TargetInv(j) ==
  /\ spc[j] # "none" \/ (djob = j /\ dpc \in Holding) =>
       \A n \in Nodes : holder[n] = j => n \in targets[j]
  /\ queue[j] \in {"ready", "reserved"} \/ (djob = j /\ dpc \in Locking) => None(j)

\* None of them is forgotten on the way from the list to the PUT.
ListInv(j) ==
  /\ spc[j] = "list" => \A n \in Nodes : holder[n] = j => n \in todo[j] \cup locked[j]
  /\ spc[j] = "unlock" => Remain(Self(j))
  /\ spc[j] \in {"describe", "set_description"} => None(j)
  /\ spc[j] = "exited" /\ child[j] = "ended" => None(j)

GoneInv ==
  /\ \A c \in Callers : SeenInv(c)
  /\ \A j \in Jobs : TargetInv(j) /\ (j \notin KeepLocked => ListInv(j))

\* A greenlet ends when its node is unlocked.
LEMMA UnlockingReaches ==
  ASSUME TypeOK, OwnInv, Told, NEW c \in Callers, Unlocking(c), SeenInv(c)
  PROVE  /\ \A d \in Callers : d # c => unlocking'[d] = unlocking[d] /\ seen'[d] = seen[d]
         /\ SeenInv(c)'
         /\ Remain(c) => Remain(c)'
<1>1. PICK n \in Nodes : get_status(c, n) \/ node_active_job(c, n) \/ unlock_one(c, n)
  BY DEF Unlocking, UnlockStep
<1>2. holder[n] = JobOf(c) /\ holder[n] # Free /\ description[n] = JobOf(c) /\ JobOf(c) \in Jobs
  BY <1>1, FreeIsNoJob DEF OwnInv, CallerInv, DescInv, get_status, Fail, node_active_job,
     unlock_one, Callers, JobOf
<1>6. ~CanFail(c, n) /\ "retry" \notin Faults
  BY DEF CanFail, Told, Quiet, Benign
<1> USE DEF TypeOK, UnlockTypeOK, PaddlesTypeOK
<1>3. CASE get_status(c, n)
  <2>1. /\ unlocking' = [unlocking EXCEPT ![c][n] = "node_active_job"]
        /\ seen' = [seen EXCEPT ![c][n] = JobOf(c)] /\ UNCHANGED holder
    BY <1>2, <1>3, <1>6 DEF get_status, Fail, paddlesVars, nodeVars
  <2> QED
    BY <2>1 DEF SeenInv, Remain, JobOf
<1>4. CASE node_active_job(c, n)
  <2>1. unlocking' = [unlocking EXCEPT ![c][n] = "unlock_one"] /\ UNCHANGED <<seen, holder>>
    BY <1>2, <1>4, <1>6 DEF node_active_job, Fail, SeenInv, MayUnlock, paddlesVars, nodeVars
  <2>2. unlocking[c][n] = "node_active_job"
    BY <1>4 DEF node_active_job, Fail
  <2> QED
    BY <2>1, <2>2 DEF SeenInv, Remain, JobOf
<1>5. CASE unlock_one(c, n)
  <2>1. /\ unlocking' = [unlocking EXCEPT ![c][n] = "idle"] /\ UNCHANGED seen
        /\ holder' = [holder EXCEPT ![n] = Free]
    BY <1>2, <1>5, <1>6 DEF unlock_one, Fail, UnlockNode
  <2> QED
    BY <1>2, <2>1 DEF SeenInv, Remain, JobOf
<1> QED
  BY <1>1, <1>3, <1>4, <1>5

LEMMA UnlockingRemains ==
  ASSUME TypeOK, OwnInv, Told, NEW c \in Callers, Unlocking(c), SeenInv(c),
         NEW d \in Callers, Remain(d)
  PROVE  Remain(d)'
<1>1. \A n \in Nodes : holder'[n] = JobOf(d) => holder[n] = JobOf(d)
  BY UnlockingFrees, FreeIsNoJob DEF Callers, JobOf
<1>2. CASE d = c
  BY <1>2, UnlockingReaches
<1>3. CASE d # c
  BY <1>1, <1>3, UnlockingReaches DEF Remain, JobOf
<1> QED
  BY <1>2, <1>3

LEMMA UnlockingGone ==
  ASSUME TypeOK, OwnInv, Told, NEW c \in Callers, Unlocking(c), GoneInv
  PROVE  GoneInv'
<1>1. /\ UNCHANGED <<killVars, supervisorVars, dispatcherVars>>
      /\ \A i \in Jobs, n \in Nodes : holder'[n] = i => holder[n] = i
  BY UnlockingFrees, FreeIsNoJob
<1>2. \A d \in Callers : d # c => unlocking'[d] = unlocking[d] /\ seen'[d] = seen[d]
  BY UnlockingReaches DEF GoneInv
<1>3. \A d \in Callers : SeenInv(d)'
  BY <1>2, UnlockingReaches DEF SeenInv, GoneInv, JobOf
<1>4. \A d \in Callers : Remain(d) => Remain(d)'
  BY UnlockingRemains DEF GoneInv
<1>5. ASSUME NEW i \in Jobs PROVE TargetInv(i)' /\ (i \notin KeepLocked => ListInv(i)')
  <2>1. TargetInv(i)'
    BY <1>1 DEF GoneInv, TargetInv, None, supervisorVars, dispatcherVars
  <2>2. Self(i) \in Callers
    BY DEF Self, Callers
  <2> QED
    BY <1>1, <1>4, <2>1, <2>2 DEF GoneInv, ListInv, None, killVars, supervisorVars
<1> QED
  BY <1>3, <1>5 DEF GoneInv

LEMMA DispatcherGone ==
  ASSUME TypeOK, TurnInv, OwnInv, GoneInv, DispatcherStep \/ DispatcherFault
  PROVE  GoneInv'
<1> USE DEF Locking, Holding
<1>1. ASSUME NEW c \in Callers PROVE SeenInv(c)'
  <2>1. \/ UNCHANGED unlocking
        \/ \E d \in Callers : unlock_safe(d, targets[djob]) \/ UnlockRaises(d)
       \/ \E S \in SUBSET Callers : DropGreenlets(S)
    <3>1. CASE popen \/ unlock_raises
      <4>1. <<"dispatcher", djob>> \in Callers
        BY <3>1, BusyWithJob DEF popen, unlock_raises, Callers
      <4> QED
        BY <3>1, <4>1 DEF popen, unlock_raises, unlockVars
    <3>3. CASE crash
      <4>1. {"dispatcher"} \X Jobs \in SUBSET Callers
        BY DEF Callers
      <4> QED
        BY <3>3, <4>1 DEF crash
    <3>2. CASE ~(popen \/ unlock_raises \/ crash)
      BY <3>2 DEF DispatcherStep, DispatcherFault, reserve, leave_loop, bury, prep_job,
         lock_machines, list_locks, lock_many, report_locked, unlock_done,
         report_spawn_failed, delete, lock_many_raises, loop_exit, restart, unlockVars
    <3> QED
      BY <3>1, <3>2, <3>3
  <2>2. \A n \in Nodes : \/ unlocking'[c][n] = unlocking[c][n]
                         \/ unlocking'[c][n] \in {"get_status", "idle"}
    BY <2>1 DEF unlock_safe, UnlockRaises, DropGreenlets, Idle, TypeOK, UnlockTypeOK
  <2>3. UNCHANGED seen
    BY DispatcherLocks
  <2> QED
    BY <2>2, <2>3 DEF GoneInv, SeenInv, JobOf
<1>2. ASSUME NEW i \in Jobs PROVE TargetInv(i)'
  <2>1. TargetInv(i)
    BY DEF GoneInv
  <2>2. CASE lock_many
    <3>1. djob \in Jobs /\ dpc = "lock_many" /\ None(djob) /\ UNCHANGED <<djob, queue, spc>>
          /\ queue[djob] \in {"buried", "deleted"}
      BY <2>2, BusyWithJob DEF lock_many, GoneInv, TargetInv, TurnInv
    <3>2. CASE UNCHANGED <<nodeVars, targets>> /\ dpc' = "list"
      BY <3>1, <3>2, <2>1 DEF TargetInv, None, nodeVars
    <3>3. CASE ~(UNCHANGED <<nodeVars, targets>> /\ dpc' = "list")
      <4>1. PICK S \in SUBSET Available :
              LockNodes(djob, S) /\ targets' = [targets EXCEPT ![djob] = S] /\ dpc' = "locked"
        BY <2>2, <3>3 DEF lock_many
      <4>2. \A n \in Nodes : holder'[n] = IF n \in S THEN djob ELSE holder[n]
        BY <4>1 DEF LockNodes
      <4>3. CASE i = djob
        <5>1. targets'[i] = S
          BY <4>1, <4>3 DEF TypeOK, SupervisorTypeOK
        <5>2. \A n \in Nodes : holder'[n] = i => n \in targets'[i]
          BY <3>1, <4>2, <4>3, <5>1 DEF None
        <5> QED
          BY <3>1, <4>1, <4>3, <5>2 DEF TargetInv
      <4>4. CASE i # djob
        <5>1. targets'[i] = targets[i]
          BY <4>1, <4>4 DEF TypeOK, SupervisorTypeOK
        <5>2. \A n \in Nodes : holder'[n] = i => holder[n] = i
          BY <4>2, <4>4
        <5> QED
          BY <2>1, <3>1, <4>1, <4>4, <5>1, <5>2 DEF TargetInv, None
      <4> QED
        BY <4>3, <4>4
    <3> QED
      BY <3>2, <3>3
  <2>3. CASE lock_many_raises
    <3>1. /\ djob \in Jobs /\ spc[djob] = "none" /\ queue[djob] \in {"buried", "deleted"}
          /\ UNCHANGED <<queue, spc, targets>> /\ dpc' = "loop" /\ djob' = NoJob
      BY <2>3, BusyWithJob, DispatcherLocks DEF lock_many_raises, LockMachinesRaises,
         Continue, TurnInv, supervisorVars
    <3>2. i # djob => \A n \in Nodes : holder'[n] = i => holder[n] = i
      BY DispatcherLocks
    <3> QED
      BY <2>1, <3>1, <3>2 DEF TargetInv, None
  <2>4. CASE popen
    <3>1. /\ djob \in Jobs /\ spc[djob] = "none"
          /\ dpc = "popen" /\ dpc' \notin Locking \cup Holding
          /\ UNCHANGED <<queue, holder, targets>>
          /\ UNCHANGED spc \/ spc' = [spc EXCEPT ![djob] = "start"]
      BY <2>4, BusyWithJob, DispatcherLocks DEF popen, Continue, paddlesVars, nodeVars,
         OwnInv, TurnOwns
    <3> QED
      BY <2>1, <3>1 DEF TargetInv, None, TypeOK, SupervisorTypeOK
  <2>5. CASE reserve(i)
    BY <2>1, <2>5 DEF reserve, TargetInv, None, paddlesVars, nodeVars, supervisorVars,
       TypeOK, DispatcherTypeOK
  <2>6. ASSUME NEW j \in Jobs, j # i, reserve(j) PROVE TargetInv(i)'
    BY <2>1, <2>6 DEF reserve, TargetInv, None, paddlesVars, nodeVars, supervisorVars
  <2>7. CASE bury \/ delete \/ crash \/ restart \/ unlock_raises
    <3>1. /\ UNCHANGED <<holder, targets, spc>> /\ dpc' \notin Holding
          /\ dpc' \in Locking => dpc \in Locking /\ UNCHANGED djob
          /\ queue'[i] \in {"ready", "reserved"} => queue[i] \in {"ready", "reserved"}
      <4>1. bury \/ delete => djob \in Jobs
        BY BusyWithJob DEF bury, delete
      <4> QED
        BY <2>7, <4>1 DEF bury, delete, crash, restart, unlock_raises, Continue, paddlesVars,
           nodeVars,
           supervisorVars, TypeOK, DispatcherTypeOK
    <3> QED
      BY <2>1, <3>1 DEF TargetInv, None
  <2>8. CASE ~(lock_many \/ lock_many_raises \/ popen \/ bury \/ delete \/ crash \/ restart
               \/ unlock_raises)
             /\ ~\E j \in Jobs : reserve(j)
    <3>1. /\ UNCHANGED <<holder, targets, spc, queue>>
          /\ dpc' \in Holding => dpc \in Holding /\ UNCHANGED djob
          /\ dpc' \in Locking => dpc \in Locking /\ UNCHANGED djob
      BY <2>8 DEF DispatcherStep, DispatcherFault, leave_loop, prep_job, lock_machines,
         list_locks, report_locked, unlock_done, report_spawn_failed, loop_exit,
         LockMachinesRaises, Continue, paddlesVars, nodeVars, supervisorVars
    <3> QED
      BY <2>1, <3>1 DEF TargetInv, None
  <2> QED
    BY <2>2, <2>3, <2>4, <2>5, <2>6, <2>7, <2>8
<1>3. ASSUME NEW i \in Jobs, ListInv(i) PROVE ListInv(i)'
  <2>1. UNCHANGED child /\ UNCHANGED todo /\ UNCHANGED locked
    BY DispatcherLocks
  <2>2. spc[i] \notin {"none", "start"} =>
          spc'[i] = spc[i] /\ \A n \in Nodes : holder'[n] = i => holder[n] = i
    BY DispatcherLocks
  <2>3. spc'[i] = spc[i] \/ spc'[i] \in {"none", "start"}
    BY DispatcherLocks
  <2>4. spc[i] = "unlock" => unlocking'[Self(i)] = unlocking[Self(i)]
    <3>1. CASE popen \/ crash \/ unlock_raises
      <4>1. /\ Self(i) \in Callers /\ Self(i) # <<"dispatcher", djob>>
            /\ Self(i) \notin {"dispatcher"} \X Jobs
        BY DEF Self, Callers
      <4> QED
        BY <3>1, <4>1 DEF popen, crash, unlock_raises, UnlockRaises, unlock_safe,
           DropGreenlets, unlockVars, TypeOK,
           UnlockTypeOK
    <3>2. CASE ~(popen \/ crash \/ unlock_raises)
      BY <3>2 DEF DispatcherStep, DispatcherFault, reserve, leave_loop, bury, prep_job,
         lock_machines, list_locks, lock_many, report_locked, unlock_done,
         report_spawn_failed, delete, lock_many_raises, loop_exit, restart, unlockVars
    <3> QED
      BY <3>1, <3>2
  <2> QED
    BY <1>3, <2>1, <2>2, <2>3, <2>4 DEF ListInv, None, Remain, Self, JobOf
<1> QED
  BY <1>1, <1>2, <1>3 DEF GoneInv

\* The supervisor's own way through unlock_targets.
LEMMA SupervisorLists ==
  ASSUME TypeOK, OwnInv, Told, NEW j \in Jobs, WatchInv(j), SupervisorStep(j),
         j \notin KeepLocked, TargetInv(j), ListInv(j),
         ~UnlockFailed(Self(j))
  PROVE  ListInv(j)'
<1> USE DEF Goto, ListInv, None, TypeOK, SupervisorTypeOK, KillTypeOK
<1>1. UNCHANGED <<holder, targets>> /\ Quiet /\ "server" \notin Faults
  BY SupervisorKeeps DEF Told
<1>2. spc[j] \in BeforeChild => child[j] = "none"
  BY DEF OwnInv, JobInv, ChildInv
<1>3. CASE sup_check_expiration(j) \/ sup_push_pid(j) \/ reimage(j) \/ reimage_done(j)
           \/ reimage_push_dead(j) \/ watch_final_push(j)
  <2>1. /\ UNCHANGED child
        /\ spc[j] \in BeforeChild \cup {"final_push"}
        /\ \/ spc' = [spc EXCEPT ![j] = "exited"] /\ spc[j] \in BeforeChild
           \/ \E t \in {"push_pid", "reimage", "reimaging", "spawn",
                        "reimage_mark_down", "ansible"} :
                spc' = [spc EXCEPT ![j] = t]
    BY <1>3 DEF sup_check_expiration, sup_push_pid, reimage, reimage_done,
       reimage_push_dead, watch_final_push, PushThen, PushRaises, Told, BeforeChild
  <2> QED
    BY <1>1, <1>2, <2>1
<1>4. CASE reimage_machines(j) \/ reimage_joined(j) \/ reimage_raise(j) \/ sup_spawn_job(j)
           \/ watch_poll(j) \/ \E n \in Nodes : provision_reimage(j, n)
  <2>1. /\ \/ UNCHANGED spc
           \/ /\ spc[j] \in BeforeChild \cup {"watch"}
              /\ \/ spc' = [spc EXCEPT ![j] = "exited"] /\ spc[j] \in BeforeChild /\ UNCHANGED child
                 \/ \E t \in {"joining", "reimage_failed", "reimaged", "watch", "final_push"} :
                      spc' = [spc EXCEPT ![j] = t]
        /\ UNCHANGED <<unlocking, child>> \/ (spc'[j] = "watch")
        /\ spc[j] \in {"list", "unlock"} => UNCHANGED <<todo, locked>>
    BY <1>4 DEF reimage_machines, reimage_joined, provision_reimage, ReimageRaises,
       reimage_raise, sup_spawn_job, watch_poll, BeforeChild, unlockVars, loopVars
  <2> QED
    BY <1>1, <1>2, <2>1 DEF Remain, JobOf, Self
<1>5. CASE ansible_checked(j)
  BY <1>1, <1>5 DEF ansible_checked, TargetInv
<1>6. CASE describe_listed(j) \/ sup_exit(j)
  BY <1>1, <1>6 DEF describe_listed, sup_exit
<1>7. CASE unlock_targets(j)
  <2>1. CASE locked[j] = {}
    BY <1>1, <1>7, <2>1 DEF unlock_targets, AfterUnlock
  <2>2. CASE locked[j] # {}
    <3>1. Self(j) \in Callers /\ JobOf(Self(j)) = j
      BY DEF Self, Callers, JobOf
    <3>2. /\ todo[j] = {} /\ unlock_safe(Self(j), locked[j]) /\ UNCHANGED locked
          /\ \/ spc[j] = "list" /\ spc' = [spc EXCEPT ![j] = "unlock"]
             \/ spc' = [spc EXCEPT ![j] = "reimage_unlock"]
      BY <1>7, <2>2 DEF unlock_targets
    <3>3. spc[j] = "list" => Remain(Self(j))'
      BY <1>1, <3>1, <3>2 DEF unlock_safe, Remain, JobOf, UnlockTypeOK
    <3> QED
      BY <3>2, <3>3
  <2> QED
    BY <2>1, <2>2
<1>11. ~unlock_targets_raises(j)
  BY DEF unlock_targets_raises, UnlockRaises
<1>8. CASE unlock_targets_done(j)
  <2>1. spc[j] = "unlock" => None(j)
    <3>1. Unlocked(Self(j)) /\ JobOf(Self(j)) = j
      BY <1>8 DEF unlock_targets_done, Self, JobOf
    <3> QED
      BY <3>1 DEF Unlocked, Idle, Remain
  <2> QED
    BY <1>1, <1>8, <2>1 DEF unlock_targets_done, AfterUnlock
<1>9. ASSUME NEW n \in Nodes, list_target(j, n) PROVE ListInv(j)'
  <2>1. holder[n] = j => holder[n] # Free /\ description[n] = j
    BY FreeIsNoJob DEF OwnInv, DescInv
  <2> QED
    BY <1>1, <1>9, <2>1 DEF list_target, QueryRaises
<1>10. ASSUME NEW n \in Nodes,
              \/ check_for_reimage_failures_and_mark_down(j, n)
              \/ check_for_ansible_failures_and_mark_down(j, n)
              \/ describe_still_locked(j, n) \/ describe_disabled_targets(j, n)
       PROVE  ListInv(j)'
  <2>1. /\ UNCHANGED <<spc, child>>
        /\ spc[j] \in {"reimage_mark_down", "ansible", "describe", "set_description"}
    BY <1>1, <1>10 DEF check_for_reimage_failures_and_mark_down, QueryRaises,
       check_for_ansible_failures_and_mark_down, describe_still_locked,
       describe_disabled_targets
  <2> QED
    BY <1>1, <2>1
<1> QED
  BY <1>1, <1>3, <1>4, <1>5, <1>6, <1>7, <1>8, <1>9, <1>10, <1>11, NoWatchdog DEF
     SupervisorStep

LEMMA SupervisorGone ==
  ASSUME TypeOK, OwnInv, Told, NEW j \in Jobs, WatchInv(j), SupervisorStep(j),
         UNCHANGED dispatcherVars, GoneInv
  PROVE  GoneInv'
<1>1. Quiet /\ UNCHANGED <<holder, targets, seen, queue, dpc, djob>>
  BY SupervisorKeeps DEF Told, dispatcherVars
<1>2. \A i \in Jobs : i # j => SameFor(i)
  BY <1>1, SupervisorKeeps
<1>3. ASSUME NEW c \in Callers PROVE SeenInv(c)'
  <2>1. UNCHANGED unlockVars \/ unlock_safe(Self(j), locked[j]) \/ UnlockRaises(Self(j))
    BY <1>1, NoWatchdog DEF SupervisorStep, sup_check_expiration, sup_push_pid, reimage,
       reimage_machines, ReimageRaises, provision_reimage, reimage_joined, reimage_done,
       reimage_push_dead, reimage_raise, sup_spawn_job, watch_poll, watch_final_push,
       ansible_checked, unlock_targets, unlock_targets_done, unlock_targets_raises,
       describe_listed, sup_exit, check_for_reimage_failures_and_mark_down, QueryRaises,
       check_for_ansible_failures_and_mark_down, list_target, describe_still_locked,
       describe_disabled_targets, PushThen
  <2>2. \A n \in Nodes : \/ unlocking'[c][n] = unlocking[c][n]
                         \/ unlocking'[c][n] \in {"get_status", "idle"}
    BY <2>1 DEF unlock_safe, UnlockRaises, unlockVars, TypeOK, UnlockTypeOK
  <2> QED
    BY <1>1, <2>2 DEF GoneInv, SeenInv, JobOf
<1>4. ASSUME NEW i \in Jobs PROVE TargetInv(i)'
  <2>1. spc[i] = "none" => spc'[i] = "none"
    BY SupervisorStartsNothing DEF Supervising
  <2> QED
    BY <1>1, <2>1 DEF GoneInv, TargetInv, None
<1>5. ASSUME NEW i \in Jobs, i # j, ListInv(i) PROVE ListInv(i)'
  <2>1. unlocking'[Self(i)] = unlocking[Self(i)]
    <3>1. Self(i) \in Callers /\ Self(i) # Self(j)
      BY <1>5 DEF Self, Callers
    <3> QED
      BY <1>1, <3>1, SupervisorKeeps
  <2> QED
    BY <1>1, <1>2, <1>5, <2>1 DEF ListInv, None, Remain, SameFor, JobOf, Self
<1>6. ~UnlockFailed(Self(j))
  BY DEF GoneInv, SeenInv, UnlockFailed, Self, Callers
<1> QED
  BY <1>3, <1>4, <1>5, <1>6, SupervisorLists DEF GoneInv

LEMMA JobGone ==
  ASSUME TypeOK, NEW j \in Jobs, WatchInv(j), JobStep(j), UNCHANGED dispatcherVars, GoneInv
  PROVE  GoneInv'
<1>1. UNCHANGED <<holder, unlocking, seen, spc, targets, todo, locked, queue, dpc, djob>>
  BY JobKeeps DEF nodeVars, unlockVars, loopVars, dispatcherVars
<1>2. spc[j] = "watch"
  BY JobKeeps DEF WatchInv
<1>3. \A i \in Jobs : i # j => child'[i] = child[i]
  BY JobKeeps DEF SameFor
<1>4. ASSUME NEW i \in Jobs PROVE TargetInv(i)' /\ (i \notin KeepLocked => ListInv(i)')
  BY <1>1, <1>2, <1>3 DEF GoneInv, TargetInv, ListInv, None, Remain, JobOf, Self
<1> QED
  BY <1>1, <1>4 DEF GoneInv, SeenInv, JobOf

LEMMA StepGone ==
  ASSUME TypeOK, TurnInv, OwnInv, Told, \A j \in Jobs : WatchInv(j), GoneInv, [Next]_vars
  PROVE  GoneInv'
<1>1. Quiet /\ Benign
  BY DEF Told, Quiet
<1>2. CASE UNCHANGED vars
  BY <1>2 DEF vars, GoneInv, SeenInv, TargetInv, ListInv, None, Remain, JobOf, Self,
     paddlesVars, nodeVars, unlockVars, killVars, supervisorVars, dispatcherVars
<1>3. \A j \in Jobs : Self(j) \in Callers /\ <<"dispatcher", j>> \in Callers
  BY DEF Self, Callers
<1>4. CASE teuthology_lock
  <2>1. /\ UNCHANGED <<unlockVars, killVars, supervisorVars, dispatcherVars>>
        /\ \A i \in Jobs, n \in Nodes : holder'[n] = i => holder[n] = i
    BY <1>4, JobsAssumption DEF teuthology_lock, person_lock, person_unlock, TypeOK,
       PaddlesTypeOK
  <2>2. \A c \in Callers : SeenInv(c)' /\ (Remain(c) => Remain(c)')
    BY <2>1 DEF GoneInv, SeenInv, Remain, JobOf, unlockVars, Callers
  <2> QED
    BY <1>3, <2>1, <2>2 DEF GoneInv, TargetInv, ListInv, None, supervisorVars, dispatcherVars,
       killVars
<1> QED
  BY <1>1, <1>2, <1>3, <1>4, DispatcherGone, UnlockingGone, SupervisorGone, JobGone,
     NoWatchdog, NobodyKills DEF Next, Dispatching, Supervising, Running

LEMMA GoneHolds == ASSUME Told PROVE Spec => []GoneInv
<1>1. Init => GoneInv
  BY FreeIsNoJob DEF Init, PaddlesInit, UnlockInit, SupervisorInit, DispatcherInit,
     GoneInv, SeenInv, TargetInv, ListInv, None, Idle, Holding
<1>2. /\ TypeOK /\ TurnInv /\ OwnInv /\ (\A j \in Jobs : WatchInv(j)) /\ GoneInv /\ [Next]_vars
      => GoneInv'
  BY StepGone
<1>3. Quiet /\ Benign
  BY DEF Told, Quiet
<1> QED
  BY <1>1, <1>2, <1>3, QuietHolds, OwnHolds, TypeCorrect, PTL DEF Spec

(* However the job process ends, and whatever becomes of the other jobs    *)
(* and the dispatcher: when its supervisor has ended as well, the job has  *)
(* no node any more (supervisor.py run_with_watchdog, unlock_targets), as  *)
(* long as the lock server answers the supervisor within its tries.        *)
THEOREM UnlocksAfterExecutionHolds == ASSUME Told PROVE Spec => []UnlocksAfterExecution
<1>1. ASSUME OwnInv, \A j \in Jobs : WatchInv(j), GoneInv PROVE UnlocksAfterExecution
  <2> SUFFICES ASSUME NEW j \in Jobs \ KeepLocked, ~SupervisorAlive(j), child[j] = "ended"
               PROVE  None(j)
    BY DEF UnlocksAfterExecution, None
  <2>1. spc[j] \in {"none", "exited", "killed"} /\ WatchInv(j) /\ ChildInv(j) /\ ListInv(j)
    BY <1>1 DEF SupervisorAlive, OwnInv, JobInv, GoneInv
  <2> QED
    BY <2>1 DEF WatchInv, ChildInv, ListInv, BeforeChild
<1>2. Quiet /\ Benign
  BY DEF Told, Quiet
<1> QED
  BY <1>1, <1>2, GoneHolds, QuietHolds, OwnHolds, PTL

-----------------------------------------------------------------------------
(* Found when it is left locked                                            *)

\* ... nor is a status lost, and the dispatcher does not drop a job with nodes.
Recorded == Told /\ Faults \cap {"push", "write", "crash"} = {}

Final == {"reimage_mark_down", "ansible", "list", "unlock",
          "describe", "set_description", "exited"}

\* A job that has nodes is worked for, or has a status find_stale_locks looks
\* for; its supervisor sees to that before it unlocks.
LeftInv(j) ==
  /\ \/ None(j)
     \/ djob = j /\ dpc \in Holding \cup {"unlock"}
     \/ SupervisorAlive(j)
     \/ status[j] \in Inactive
  /\ spc[j] \in Final => status[j] \in Inactive

\* The dispatcher unlocks what it has locked for a job it cannot start.
TurnLeft == dpc = "unlock" => Remain(<<"dispatcher", djob>>)

LEMMA PushIsRecorded ==
  ASSUME TypeOK, Recorded, NEW j \in Jobs, NEW s, NEW p, NEW t, Push(j, s, p, t)
  PROVE  /\ status'[j] = Accepted(status[j], s)
         /\ s \in Inactive => status'[j] \in Inactive
         /\ \A i \in Jobs : i # j => status'[i] = status[i]
<1>1. status' = [status EXCEPT ![j] = Accepted(@, s)]
  BY DEF Push, Recorded
<1> QED
  BY <1>1 DEF Accepted, Inactive, TypeOK, PaddlesTypeOK

LEMMA DispatcherLeft ==
  ASSUME TypeOK, TurnInv, OwnInv, Recorded, GoneInv, TurnLeft, NEW i \in Jobs, LeftInv(i),
         DispatcherStep \/ DispatcherFault
  PROVE  LeftInv(i)'
<1> USE DEF Locking, Holding
<1>1. /\ \A n \in Nodes : holder'[n] = i => holder[n] = i \/ (dpc = "lock_many" /\ djob = i)
      /\ \/ spc'[i] = spc[i]
         \/ djob = i /\ dpc \in {"lock_many", "popen"} /\ spc'[i] \in {"none", "start"}
  BY DispatcherLocks, FreeIsNoJob
<1>2. dpc \in Locking \cup Holding \cup {"unlock"} => djob \in Jobs /\ spc[djob] = "none"
  BY BusyWithJob DEF OwnInv, TurnOwns
<1>3. PushRaises => FALSE
  BY DEF PushRaises, Recorded, Told
<1>6. ~unlock_raises
  <2>1. dpc = "unlock" => <<"dispatcher", djob>> \in Callers
    BY BusyWithJob DEF Callers
  <2> QED
    BY <2>1 DEF unlock_raises, UnlockRaises, UnlockFailed, GoneInv, SeenInv
<1>4. CASE djob # i
  <2>1. status'[i] = status[i]
    <3>1. CASE UNCHANGED jobVars
      BY <3>1 DEF jobVars
    <3>2. CASE \/ prep_job \/ lock_machines \/ lock_many_raises
               \/ report_locked \/ report_spawn_failed
      <4>1. djob \in Jobs
        BY <3>2, BusyWithJob DEF prep_job, lock_machines, lock_many_raises,
           report_locked, report_spawn_failed
      <4> QED
        BY <1>3, <1>4, <3>1, <3>2, <4>1, PushIsRecorded DEF prep_job, lock_machines,
           lock_many_raises, report_locked, report_spawn_failed, LockMachinesRaises,
           PushStatus
    <3> QED
      BY <1>6, <3>1, <3>2 DEF DispatcherStep, DispatcherFault, reserve, leave_loop, bury,
         list_locks, lock_many, popen, unlock_done, delete, loop_exit, crash, restart,
         paddlesVars
  <2> QED
    BY <1>1, <1>4, <2>1 DEF LeftInv, None, SupervisorAlive
<1>5. CASE djob = i
  <2>1. dpc \notin {"loop", "exited", "stopped"}
    BY <1>5, DispatcherAssumption DEF TurnInv
  <2>2. CASE status'[i] \in Inactive
    BY <1>1, <1>2, <1>5, <2>2 DEF LeftInv, Final
  <2>3. CASE status'[i] \notin Inactive
    <3>1. CASE prep_job
      <4>1. UNCHANGED <<jobVars, nodeVars, spc>> /\ dpc = "prep"
        BY <1>5, <2>3, <3>1, PushIsRecorded DEF prep_job, PushStatus, Inactive,
           supervisorVars
      <4> QED
        BY <1>5, <4>1 DEF LeftInv, None, SupervisorAlive, jobVars, nodeVars
    <3>2. CASE lock_machines
      <4>1. UNCHANGED <<nodeVars, spc>> /\ None(i) /\ spc[i] = "none"
        BY <1>2, <1>5, <3>2 DEF lock_machines, GoneInv, TargetInv, supervisorVars
      <4> QED
        BY <4>1 DEF LeftInv, None, Final, nodeVars
    <3>3. CASE lock_many_raises
      <4>1. LockMachinesRaises
        BY <3>3 DEF lock_many_raises
      <4> QED
        BY <1>3, <1>5, <2>3, <4>1, PushIsRecorded DEF LockMachinesRaises, PushStatus,
           Inactive
    <3>4. CASE report_locked
      <4>1. UNCHANGED <<djob, spc>> /\ dpc' = "popen" /\ spc[i] = "none"
        BY <1>2, <1>3, <1>5, <2>3, <3>4, PushIsRecorded DEF report_locked,
           LockMachinesRaises, PushStatus, Inactive, supervisorVars
      <4> QED
        BY <1>5, <4>1 DEF LeftInv, Final
    <3>5. CASE report_spawn_failed
      BY <1>3, <1>5, <2>3, <3>5, PushIsRecorded DEF report_spawn_failed, Inactive
    <3>6. CASE lock_many
      <4>1. UNCHANGED <<djob, spc>> /\ spc[i] = "none"
            /\ (dpc' = "locked" \/ (None(i) /\ UNCHANGED nodeVars))
        BY <1>2, <1>5, <3>6 DEF lock_many, GoneInv, TargetInv
      <4> QED
        BY <1>5, <4>1 DEF LeftInv, Final, None, nodeVars
    <3>7. CASE popen
      <4>1. \/ spc'[i] = "start"
            \/ UNCHANGED <<djob, spc>> /\ dpc' = "unlock" /\ spc[i] = "none"
        BY <1>2, <1>5, <3>7 DEF popen, Recorded, TypeOK, SupervisorTypeOK
      <4> QED
        BY <1>5, <4>1 DEF LeftInv, Final, SupervisorAlive
    <3>8. CASE unlock_done
      <4>1. None(i) /\ spc[i] = "none" /\ UNCHANGED <<nodeVars, spc>>
        BY <1>2, <1>5, <3>8 DEF unlock_done, TurnLeft, Remain, Unlocked, Idle, JobOf,
           None, paddlesVars, supervisorVars
      <4> QED
        BY <4>1 DEF LeftInv, Final, None, nodeVars
    <3>9. CASE ~(prep_job \/ lock_machines \/ lock_many_raises \/ report_locked
                 \/ report_spawn_failed \/ lock_many \/ popen \/ unlock_done)
      <4>1. UNCHANGED <<paddlesVars, spc>> /\ dpc \notin Holding \cup {"unlock"}
        BY <1>6, <2>1, <3>9 DEF DispatcherStep, DispatcherFault, reserve, leave_loop, bury,
           list_locks, delete, loop_exit, crash, restart, supervisorVars, Recorded
      <4> QED
        BY <4>1 DEF LeftInv, None, SupervisorAlive, paddlesVars, nodeVars, jobVars
    <3> QED
      BY <3>1, <3>2, <3>3, <3>4, <3>5, <3>6, <3>7, <3>8, <3>9
  <2> QED
    BY <2>2, <2>3
<1> QED
  BY <1>4, <1>5

LEMMA DispatcherTurnLeft ==
  ASSUME TypeOK, TurnInv, OwnInv, Recorded, GoneInv, DispatcherStep \/ DispatcherFault
  PROVE  TurnLeft'
<1> SUFFICES ASSUME dpc' = "unlock" PROVE Remain(<<"dispatcher", djob>>)'
  BY DEF TurnLeft
<1>1. popen
  BY DEF DispatcherStep, DispatcherFault, reserve, leave_loop, bury, prep_job, lock_machines,
     list_locks, lock_many, report_locked, unlock_done, unlock_raises, report_spawn_failed,
     delete, lock_many_raises, LockMachinesRaises, Continue, loop_exit, crash, restart
<1>2. /\ djob \in Jobs /\ UNCHANGED <<djob, holder, targets>>
      /\ unlock_safe(<<"dispatcher", djob>>, targets[djob])
      /\ \A n \in Nodes : holder[n] = djob => n \in targets[djob]
  BY <1>1, BusyWithJob DEF popen, Continue, GoneInv, TargetInv, Holding, paddlesVars,
     nodeVars
<1>3. <<"dispatcher", djob>> \in Callers
  BY <1>2 DEF Callers
<1> QED
  BY <1>2, <1>3 DEF Remain, JobOf, unlock_safe, TypeOK, UnlockTypeOK

\* A supervisor reports its job dead before it unlocks or ends.
LEMMA SupervisorLeft ==
  ASSUME TypeOK, Recorded, NEW j \in Jobs, WatchInv(j), WatchInv(j)', LeftInv(j),
         SupervisorStep(j), ~UnlockFailed(Self(j))
  PROVE  LeftInv(j)'
<1> USE DEF Goto, Final, TypeOK, SupervisorTypeOK
<1>1. Quiet /\ Told /\ ~PushRaises /\ ~QueryRaises(j) /\ ~unlock_targets_raises(j)
  BY DEF Recorded, Told, PushRaises, QueryRaises, unlock_targets_raises, UnlockRaises
<1>2. spc'[j] # "none"
  <2>1. /\ spc[j] # "none"
        /\ \/ UNCHANGED spc
           \/ \E t \in SupervisorSteps \ {"none"} : spc' = [spc EXCEPT ![j] = t]
    BY <1>1, NoWatchdog DEF SupervisorStep, sup_check_expiration, sup_push_pid, reimage,
       reimage_machines, ReimageRaises, provision_reimage, reimage_joined, reimage_done,
       reimage_push_dead, reimage_raise, sup_spawn_job, watch_poll, watch_final_push,
       ansible_checked, unlock_targets, unlock_targets_done, unlock_targets_raises,
       describe_listed, sup_exit, check_for_reimage_failures_and_mark_down, QueryRaises,
       check_for_ansible_failures_and_mark_down, list_target, describe_still_locked,
       describe_disabled_targets, PushThen, AfterUnlock, SupervisorSteps, SupervisorAlive
  <2> QED
    BY <2>1
<1>3. (spc[j] \in Final => status[j] \in Inactive)'
  <2>1. CASE sup_push_pid(j) \/ reimage(j) \/ reimage_done(j)
    BY <1>1, <2>1 DEF sup_push_pid, reimage, reimage_done, PushThen
  <2>2. CASE sup_check_expiration(j) \/ reimage_push_dead(j) \/ watch_final_push(j)
    <3>1. \/ spc'[j] \notin Final
          \/ \E t : Push(j, "dead", pid[j], t)
      BY <1>1, <2>2 DEF sup_check_expiration, reimage_push_dead, watch_final_push,
         PushThen
    <3> QED
      BY <3>1, PushIsRecorded DEF Inactive
  <2>3. CASE UNCHANGED status /\ (spc'[j] \in Final => spc[j] \in Final)
    BY <2>3 DEF LeftInv
  <2> QED
    BY <1>1, <2>1, <2>2, <2>3, NoWatchdog DEF SupervisorStep, reimage_machines, ReimageRaises,
       provision_reimage, reimage_joined, reimage_raise, sup_spawn_job, watch_poll,
       ansible_checked, unlock_targets, unlock_targets_done, AfterUnlock, describe_listed,
       sup_exit, check_for_reimage_failures_and_mark_down,
       check_for_ansible_failures_and_mark_down, list_target, describe_still_locked,
       describe_disabled_targets, paddlesVars, jobVars
<1> QED
  BY <1>2, <1>3 DEF LeftInv, SupervisorAlive, WatchInv

LEMMA StepLeft ==
  ASSUME TypeOK, TurnInv, OwnInv, Recorded, \A j \in Jobs : WatchInv(j),
         \A j \in Jobs : WatchInv(j)', GoneInv, TurnLeft,
         \A j \in Jobs : LeftInv(j), [Next]_vars
  PROVE  TurnLeft' /\ \A j \in Jobs : LeftInv(j)'
<1>1. Quiet /\ Told /\ Benign
  BY DEF Recorded, Told, Quiet
<1>2. CASE UNCHANGED vars
  BY <1>2 DEF vars, TurnLeft, LeftInv, None, Remain, SupervisorAlive, JobOf,
     paddlesVars, nodeVars, jobVars, unlockVars, killVars, supervisorVars,
     dispatcherVars
<1>3. CASE DispatcherStep \/ DispatcherFault
  BY <1>3, DispatcherLeft, DispatcherTurnLeft
<1>4. ASSUME NEW c \in Callers, Unlocking(c) PROVE TurnLeft' /\ \A i \in Jobs : LeftInv(i)'
  <2>1. /\ UNCHANGED <<spc, status, dpc, djob>>
        /\ \A i \in Jobs, n \in Nodes : holder'[n] = i => holder[n] = i
    BY <1>4, UnlockingFrees, FreeIsNoJob DEF supervisorVars, jobVars, dispatcherVars
  <2>2. dpc = "unlock" => <<"dispatcher", djob>> \in Callers
    BY BusyWithJob DEF Callers
  <2>3. TurnLeft'
    BY <1>1, <1>4, <2>1, <2>2, UnlockingRemains DEF TurnLeft, GoneInv, Remain, JobOf
  <2> QED
    BY <2>1, <2>3 DEF LeftInv, None, SupervisorAlive
<1>5. ASSUME NEW j \in Jobs, SupervisorStep(j), UNCHANGED dispatcherVars
      PROVE  TurnLeft' /\ \A i \in Jobs : LeftInv(i)'
  <2>1. UNCHANGED <<holder, dpc, djob>>
    BY <1>1, <1>5, SupervisorKeeps DEF dispatcherVars
  <2>2. dpc = "unlock" => UNCHANGED unlocking[<<"dispatcher", djob>>]
    <3>1. dpc = "unlock" =>
            <<"dispatcher", djob>> \in Callers /\ <<"dispatcher", djob>> # Self(j)
      BY BusyWithJob DEF Callers, Self
    <3> QED
      BY <1>1, <1>5, <2>1, <3>1, SupervisorKeeps
  <2>3. ASSUME NEW i \in Jobs, i # j PROVE LeftInv(i)'
    BY <1>1, <1>5, <2>1, <2>3, SupervisorKeeps DEF LeftInv, SameFor, None,
       SupervisorAlive
  <2>4. TurnLeft'
    BY <2>1, <2>2 DEF TurnLeft, Remain, JobOf
  <2>5. ~UnlockFailed(Self(j))
    BY DEF GoneInv, SeenInv, UnlockFailed, Self, Callers
  <2> QED
    BY <1>5, <2>3, <2>4, <2>5, SupervisorLeft
<1>6. ASSUME NEW j \in Jobs, JobStep(j), UNCHANGED dispatcherVars
      PROVE  TurnLeft' /\ \A i \in Jobs : LeftInv(i)'
  <2>1. UNCHANGED <<holder, unlocking, spc, dpc, djob>>
    BY <1>6, JobKeeps DEF dispatcherVars, nodeVars, unlockVars
  <2>2. spc[j] = "watch"
    BY <1>6, JobKeeps DEF WatchInv
  <2>3. \A i \in Jobs : i # j => status'[i] = status[i]
    BY <1>6, JobKeeps DEF SameFor
  <2> QED
    BY <2>1, <2>2, <2>3 DEF TurnLeft, Remain, JobOf, LeftInv, None, SupervisorAlive,
       Final
<1>8. CASE teuthology_lock
  <2>1. /\ UNCHANGED <<unlockVars, supervisorVars, dispatcherVars, status>>
        /\ \A i \in Jobs, n \in Nodes : holder'[n] = i => holder[n] = i
    BY <1>8, JobsAssumption DEF teuthology_lock, person_lock, person_unlock, jobVars,
       TypeOK, PaddlesTypeOK
  <2>2. dpc = "unlock" => djob \in Jobs
    BY BusyWithJob
  <2> QED
    BY <2>1, <2>2 DEF TurnLeft, Remain, JobOf, LeftInv, None, SupervisorAlive, unlockVars,
       supervisorVars, dispatcherVars
<1>7. \A j \in Jobs : Self(j) \in Callers /\ <<"dispatcher", j>> \in Callers
  BY DEF Self, Callers
<1> QED
  BY <1>1, <1>2, <1>3, <1>4, <1>5, <1>6, <1>7, <1>8, NoWatchdog, NobodyKills DEF Next,
     Dispatching, Supervising, Running

LEMMA LeftHolds == ASSUME Recorded PROVE Spec => [](TurnLeft /\ \A j \in Jobs : LeftInv(j))
<1>1. Init => TurnLeft /\ \A j \in Jobs : LeftInv(j)
  BY FreeIsNoJob DEF Init, PaddlesInit, SupervisorInit, DispatcherInit, TurnLeft,
     LeftInv, None, Final
<1>2. /\ TypeOK /\ TurnInv /\ OwnInv /\ (\A j \in Jobs : WatchInv(j))
      /\ (\A j \in Jobs : WatchInv(j))' /\ GoneInv /\ TurnLeft /\ (\A j \in Jobs : LeftInv(j))
      /\ [Next]_vars
      => (TurnLeft /\ \A j \in Jobs : LeftInv(j))'
  BY StepLeft
<1>3. Told /\ Quiet /\ Benign
  BY DEF Recorded, Told, Quiet
<1> QED
  BY <1>1, <1>2, <1>3, GoneHolds, QuietHolds, OwnHolds, TypeCorrect, PTL DEF Spec

(* Nodes that are left locked when nobody works for their job any more are *)
(* found: the job has a status that says it is over, and the nodes still   *)
(* carry its description (lock/query.py find_stale_locks). Left out is the *)
(* lock server's silence, after which unlock_targets raises before the job *)
(* is reported dead (supervisor.py:336-338).                               *)
THEOREM StaleLocksFoundHolds == ASSUME Recorded PROVE Spec => []StaleLocksFound
<1>1. ASSUME OwnInv, \A j \in Jobs : LeftInv(j) PROVE StaleLocksFound
  <2> SUFFICES ASSUME NEW n \in Nodes, NEW j \in Jobs, holder[n] = j, Over(j)
               PROVE  n \in find_stale_locks
    BY DEF StaleLocksFound
  <2>1. description[n] = j /\ holder[n] # Free
    BY <1>1, FreeIsNoJob DEF OwnInv, DescInv
  <2>2. status[j] \in Inactive
    BY <1>1 DEF LeftInv, None, Over
  <2> QED
    BY <2>1, <2>2 DEF find_stale_locks
<1>2. Told /\ Quiet /\ Benign
  BY DEF Recorded, Told, Quiet
<1> QED
  BY <1>1, <1>2, LeftHolds, OwnHolds, PTL

-----------------------------------------------------------------------------
(* Found although the lock server is silent                                *)

\* No watchdog kills a job, and no status is lost; the lock server may be silent.
Stored == Quiet /\ Faults \cap {"push", "report"} = {}

\* A job that was executed has a final status before its nodes are turned to.
ExecutedInv(j) ==
  \/ spc[j] \in AfterChild \ {"final_push"}
  \/ spc[j] = "exited" /\ child[j] = "ended"
  => status[j] \in Inactive

LEMMA PushIsStored ==
  ASSUME TypeOK, Stored, NEW j \in Jobs, NEW s, NEW p, NEW t, Push(j, s, p, t)
  PROVE  /\ s \in Inactive => status'[j] \in Inactive
         /\ \A i \in Jobs : i # j => status'[i] = status[i]
<1>1. status' = [status EXCEPT ![j] = Accepted(@, s)]
  BY DEF Push, Stored
<1> QED
  BY <1>1 DEF Accepted, Inactive, TypeOK, PaddlesTypeOK

\* The dispatcher writes the status of its own job only, and a job that has a
\* supervisor is not written to any more.
LEMMA DispatcherExecuted ==
  ASSUME TypeOK, TurnInv, OwnInv, Stored, NEW i \in Jobs, ExecutedInv(i),
         DispatcherStep \/ DispatcherFault
  PROVE  ExecutedInv(i)'
<1> USE DEF Locking, Holding
<1>1. /\ UNCHANGED child
      /\ \/ spc'[i] = spc[i]
         \/ spc'[i] \in {"none", "start"}
  BY DispatcherLocks
<1>2. status'[i] = status[i] \/ status'[i] \in Inactive \/ spc[i] = "none"
  <2>1. PushRaises => FALSE
    BY DEF PushRaises, Stored
  <2>2. CASE UNCHANGED jobVars
    BY <2>2 DEF jobVars
  <2>3. CASE lock_machines \/ report_locked
    <3>1. djob \in Jobs /\ spc[djob] = "none"
      BY <2>3, BusyWithJob DEF lock_machines, report_locked, OwnInv, TurnOwns
    <3>2. djob # i => status'[i] = status[i]
      BY <2>1, <2>3, <3>1, PushIsStored DEF lock_machines, report_locked, LockMachinesRaises,
         PushStatus
    <3> QED
      BY <3>1, <3>2
  <2>4. CASE prep_job \/ lock_many_raises \/ report_spawn_failed
    <3>1. djob \in Jobs
      BY <2>4, BusyWithJob DEF prep_job, lock_many_raises, report_spawn_failed
    <3>2. UNCHANGED jobVars \/ \E s \in Inactive : \E p, t : Push(djob, s, p, t)
      BY <2>1, <2>4 DEF prep_job, lock_many_raises, report_spawn_failed, LockMachinesRaises,
         PushStatus, Inactive
    <3> QED
      BY <2>2, <3>1, <3>2, PushIsStored
  <2> QED
    BY <2>2, <2>3, <2>4 DEF DispatcherStep, DispatcherFault, reserve, leave_loop, bury,
       list_locks, lock_many, popen, unlock_done, unlock_raises, delete, loop_exit, crash,
       restart, paddlesVars
<1> QED
  BY <1>1, <1>2 DEF ExecutedInv, AfterChild

\* The supervisor of a job that was executed has reported it before it can end.
LEMMA SupervisorExecuted ==
  ASSUME TypeOK, Stored, NEW j \in Jobs, WatchInv(j), WatchInv(j)', ExecutedInv(j),
         SupervisorStep(j)
  PROVE  ExecutedInv(j)'
<1> USE DEF Goto, AfterChild, TypeOK, SupervisorTypeOK, KillTypeOK
<1>1. Quiet /\ ~PushRaises
  BY DEF Stored, PushRaises
<1>2. CASE watch_final_push(j)
  <2>1. \E t : Push(j, "dead", pid[j], t)
    BY <1>1, <1>2 DEF watch_final_push, PushThen
  <2> QED
    BY <2>1, PushIsStored DEF ExecutedInv, Inactive
<1>3. CASE sup_check_expiration(j) \/ sup_push_pid(j) \/ reimage(j) \/ reimage_done(j)
           \/ reimage_push_dead(j)
  <2>1. child'[j] = "none" /\ spc'[j] \notin AfterChild
    BY <1>1, <1>3 DEF WatchInv, sup_check_expiration, sup_push_pid, reimage, reimage_done,
       reimage_push_dead, PushThen, KillTypeOK
  <2> QED
    BY <2>1 DEF ExecutedInv
<1>4. CASE sup_spawn_job(j) \/ watch_poll(j)
  BY <1>4 DEF sup_spawn_job, watch_poll, ExecutedInv
<1>5. CASE reimage_machines(j) \/ reimage_joined(j) \/ reimage_raise(j)
           \/ \E n \in Nodes : provision_reimage(j, n)
                             \/ check_for_reimage_failures_and_mark_down(j, n)
  <2>1. UNCHANGED <<child, status>>
    BY <1>5 DEF reimage_machines, reimage_joined, reimage_raise, provision_reimage,
       check_for_reimage_failures_and_mark_down, paddlesVars, jobVars
  <2>2. \/ spc'[j] = spc[j]
        \/ spc'[j] \notin AfterChild /\ (spc'[j] = "exited" => child[j] # "ended")
    BY <1>5 DEF WatchInv, reimage_machines, reimage_joined, ReimageRaises, reimage_raise,
       provision_reimage, check_for_reimage_failures_and_mark_down, QueryRaises
  <2> QED
    BY <2>1, <2>2 DEF ExecutedInv
<1>6. CASE ansible_checked(j) \/ unlock_targets(j) \/ unlock_targets_done(j)
           \/ unlock_targets_raises(j) \/ describe_listed(j) \/ sup_exit(j)
           \/ \E n \in Nodes : \/ check_for_ansible_failures_and_mark_down(j, n)
                              \/ list_target(j, n) \/ describe_still_locked(j, n)
                              \/ describe_disabled_targets(j, n)
  <2>1. UNCHANGED <<child, status>>
    BY <1>6 DEF ansible_checked, unlock_targets, unlock_targets_done, unlock_targets_raises,
       describe_listed, sup_exit, check_for_ansible_failures_and_mark_down, list_target,
       describe_still_locked, describe_disabled_targets, paddlesVars, jobVars
  <2>2. spc[j] \in (AfterChild \ {"final_push"}) \cup {"reimage_failed", "reimage_unlock"}
    BY <1>6 DEF ansible_checked, unlock_targets, unlock_targets_done, unlock_targets_raises,
       describe_listed, sup_exit, check_for_ansible_failures_and_mark_down, list_target,
       describe_still_locked, describe_disabled_targets
  <2>3. spc[j] \in {"reimage_failed", "reimage_unlock"} =>
          spc'[j] \notin AfterChild /\ child[j] # "ended"
    BY <1>6 DEF WatchInv, ansible_checked, unlock_targets, unlock_targets_done,
       unlock_targets_raises, AfterUnlock, describe_listed, sup_exit,
       check_for_ansible_failures_and_mark_down, list_target, QueryRaises,
       describe_still_locked, describe_disabled_targets
  <2> QED
    BY <2>1, <2>2, <2>3 DEF ExecutedInv
<1> QED
  BY <1>1, <1>2, <1>3, <1>4, <1>5, <1>6, NoWatchdog DEF SupervisorStep

LEMMA StepExecuted ==
  ASSUME TypeOK, TurnInv, OwnInv, Stored, \A j \in Jobs : WatchInv(j),
         \A j \in Jobs : WatchInv(j)', \A j \in Jobs : ExecutedInv(j), [Next]_vars
  PROVE  \A j \in Jobs : ExecutedInv(j)'
<1>1. Quiet /\ Benign
  BY DEF Stored, Quiet
<1>2. CASE UNCHANGED <<spc, child, status>>
  BY <1>2 DEF ExecutedInv
<1>3. CASE DispatcherStep \/ DispatcherFault
  BY <1>3, DispatcherExecuted
<1>4. ASSUME NEW c \in Callers, Unlocking(c) PROVE UNCHANGED <<spc, child, status>>
  BY <1>4, UnlockingFrees DEF supervisorVars, jobVars
<1>5. ASSUME NEW j \in Jobs, SupervisorStep(j) PROVE \A i \in Jobs : ExecutedInv(i)'
  <2>1. ASSUME NEW i \in Jobs, i # j PROVE ExecutedInv(i)'
    BY <1>1, <1>5, <2>1, SupervisorKeeps DEF SameFor, ExecutedInv
  <2> QED
    BY <1>5, <2>1, SupervisorExecuted
<1>6. ASSUME NEW j \in Jobs, JobStep(j) PROVE \A i \in Jobs : ExecutedInv(i)'
  <2>1. spc[j] = "watch" /\ UNCHANGED spc
    BY <1>6, JobKeeps DEF WatchInv
  <2>2. ASSUME NEW i \in Jobs, i # j PROVE ExecutedInv(i)'
    BY <1>6, <2>2, JobKeeps DEF SameFor, ExecutedInv
  <2> QED
    BY <2>1, <2>2 DEF ExecutedInv, AfterChild
<1>7. CASE teuthology_lock
  BY <1>2, <1>7 DEF teuthology_lock, person_lock, person_unlock, supervisorVars, jobVars
<1>8. \A j \in Jobs : Self(j) \in Callers /\ <<"dispatcher", j>> \in Callers
  BY DEF Self, Callers
<1>9. CASE UNCHANGED vars
  BY <1>2, <1>9 DEF vars, paddlesVars, jobVars, supervisorVars
<1> QED
  BY <1>1, <1>2, <1>3, <1>4, <1>5, <1>6, <1>7, <1>8, <1>9, NoWatchdog, NobodyKills DEF Next,
     Dispatching, Supervising, Running

(* Whatever the lock server fails to answer (lock/query.py:21-28, 164-186, *)
(* lock/ops.py:254-266), when a job has been executed and its supervisor   *)
(* has ended, the nodes it leaves locked are listed by find_stale_locks:   *)
(* the supervisor reports the job before it unlocks.                       *)
THEOREM ExecutedFoundHolds == ASSUME Stored PROVE Spec => []ExecutedFound
<1>1. Init => \A j \in Jobs : ExecutedInv(j)
  BY DEF Init, SupervisorInit, ExecutedInv, AfterChild
<1>2. /\ TypeOK /\ TurnInv /\ OwnInv /\ (\A j \in Jobs : WatchInv(j))
      /\ (\A j \in Jobs : WatchInv(j))' /\ (\A j \in Jobs : ExecutedInv(j)) /\ [Next]_vars
      => (\A j \in Jobs : ExecutedInv(j))'
  BY StepExecuted
<1>3. ASSUME TypeOK, OwnInv, \A j \in Jobs : WatchInv(j), \A j \in Jobs : ExecutedInv(j)
      PROVE  ExecutedFound
  <2> SUFFICES ASSUME NEW n \in Nodes, NEW j \in Jobs, holder[n] = j, ~SupervisorAlive(j),
                      child[j] = "ended"
               PROVE  n \in find_stale_locks
    BY DEF ExecutedFound
  <2>1. description[n] = j /\ holder[n] # Free
    BY <1>3, FreeIsNoJob DEF OwnInv, DescInv
  <2>2. spc[j] = "exited"
    BY <1>3 DEF WatchInv, SupervisorAlive, AfterChild
  <2> QED
    BY <1>3, <2>1, <2>2 DEF find_stale_locks, ExecutedInv
<1>4. Quiet /\ Benign
  BY DEF Stored, Quiet
<1> QED
  BY <1>1, <1>2, <1>3, <1>4, QuietHolds, OwnHolds, TypeCorrect, PTL DEF Spec
=============================================================================
