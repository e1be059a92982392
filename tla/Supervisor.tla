----------------------------- MODULE Supervisor -----------------------------
(***************************************************************************)
(* teuthology/dispatcher/supervisor.py: one supervisor process per job     *)
(* reimages the job's targets, starts the job process, watches it, and     *)
(* marks down, unlocks and describes the targets when it has ended.  The   *)
(* job process itself (teuthology/run) is modelled by what it reports.     *)
(***************************************************************************)
EXTENDS KillJob

CONSTANT KeepLocked \* the jobs with unlock_on_failure: false

VARIABLES
  imaging, \* the nodes whose provision.reimage greenlet has not ended
  targets, \* job_config['targets'], which the dispatcher hands over
  todo,    \* the targets the current loop over them has still to visit
  locked,  \* unlock_targets: the list `locked`
  failures \* the machines check_for_ansible_failures_and_mark_down marked down

supervisorVars == <<spc, child, imaging, targets, todo, locked, failures>>

SupervisorSteps == {
  "none", "start", "push_pid", "reimage", "reimaging", "joining", "reimaged",
  "reimage_failed", "reimage_unlock", "reimage_dead", "reimage_mark_down",
  "spawn", "watch", "kill_only", "kill_unlock", "final_push",
  "ansible", "list", "unlock", "describe", "set_description",
  "exited", "killed"}

SupervisorTypeOK ==
  /\ spc \in [Jobs -> SupervisorSteps]
  /\ imaging \in [Jobs -> SUBSET Nodes]
  /\ targets \in [Jobs -> SUBSET Nodes]
  /\ todo \in [Jobs -> SUBSET Nodes]
  /\ locked \in [Jobs -> SUBSET Nodes]
  /\ failures \in [Jobs -> SUBSET Nodes]

SupervisorInit ==
  /\ spc = [j \in Jobs |-> "none"]
  /\ imaging = [j \in Jobs |-> {}]
  /\ targets = [j \in Jobs |-> {}]
  /\ todo = [j \in Jobs |-> {}]
  /\ locked = [j \in Jobs |-> {}]
  /\ failures = [j \in Jobs |-> {}]

Self(j) == <<"supervisor", j>>

Goto(j, step) == spc' = [spc EXCEPT ![j] = step]

\* The nodes being reimaged, and the sets of the loops over the targets.
loopVars == <<imaging, targets, todo, locked, failures>>

\* The greenlets that reimage nodes end with their process.
Imaging(j) == IF SupervisorAlive(j) THEN imaging[j] ELSE {}

\* A query of the lock server that is not caught ends the supervisor.
QueryRaises(j) ==
  /\ "server" \in Faults
  /\ Goto(j, "exited")
  /\ UNCHANGED <<nodeVars, loopVars>>

\* A push of job_info with status s; MaxWhileTries ends the supervisor.
PushThen(j, s, t, step) ==
  /\ \/ Push(j, s, pid[j], t) /\ Goto(j, step)
     \/ PushRaises /\ Goto(j, "exited")
  /\ UNCHANGED <<nodeVars, unlockVars, killVars, child>>

-----------------------------------------------------------------------------
(* main() up to reimage()                                                  *)

\* check_job_expiration: an expired job is reported dead and main returns 0.
sup_check_expiration(j) ==
  /\ spc[j] = "start"
  /\ \/ /\ Goto(j, "push_pid")
        /\ UNCHANGED <<paddlesVars, unlockVars, killVars, child>>
     \/ "expire" \in Faults /\ PushThen(j, "dead", targets[j], "exited")
  /\ UNCHANGED loopVars

sup_push_pid(j) ==
  /\ spc[j] = "push_pid"
  /\ \/ Push(j, status[j], "supervisor", job_targets[j]) /\ Goto(j, "reimage")
     \/ PushRaises /\ Goto(j, "exited")
  /\ UNCHANGED <<nodeVars, unlockVars, killVars, child, loopVars>>

reimage(j) ==
  /\ spc[j] = "reimage"
  /\ PushThen(j, "waiting", targets[j], "reimaging")
  /\ UNCHANGED loopVars

\* reimage_machines raises: unlock_targets is called at once.
ReimageRaises(j) ==
  /\ "reimage" \in Faults
  /\ Goto(j, "reimage_failed")
  /\ todo' = [todo EXCEPT ![j] = targets[j]]
  /\ locked' = [locked EXCEPT ![j] = {}]

\* A greenlet for every target, unless update_nodes raises in between.
reimage_machines(j) ==
  /\ spc[j] = "reimaging"
  /\ \/ /\ imaging' = [imaging EXCEPT ![j] = targets[j]]
        /\ Goto(j, "joining")
        /\ UNCHANGED <<todo, locked>>
     \/ /\ \E S \in SUBSET targets[j] :
             /\ S = {} \/ "straggle" \in Faults
             /\ imaging' = [imaging EXCEPT ![j] = S]
        /\ ReimageRaises(j)
  /\ UNCHANGED <<paddlesVars, unlockVars, killVars, child, targets, failures>>

\* The greenlet of one node ends.  The first that fails while parallel() waits
\* for them makes it raise, whatever the others are still at (module Parallel).
provision_reimage(j, n) ==
  /\ SupervisorAlive(j)
  /\ n \in imaging[j]
  /\ imaging' = [imaging EXCEPT ![j] = @ \ {n}]
  /\ \/ UNCHANGED <<spc, todo, locked>>
     \/ /\ spc[j] = "joining"
        /\ imaging[j] = {n} \/ "straggle" \in Faults
        /\ ReimageRaises(j)
  /\ UNCHANGED <<paddlesVars, unlockVars, killVars, child, targets, failures>>

\* All have ended well, and their keys are updated: do_update_keys may raise.
reimage_joined(j) ==
  /\ spc[j] = "joining"
  /\ imaging[j] = {}
  /\ \/ Goto(j, "reimaged") /\ UNCHANGED <<todo, locked>>
     \/ ReimageRaises(j)
  /\ UNCHANGED <<paddlesVars, unlockVars, killVars, child, imaging, targets, failures>>

reimage_done(j) ==
  /\ spc[j] = "reimaged"
  /\ PushThen(j, "running", targets[j], "spawn")
  /\ UNCHANGED loopVars

\* Mutant of reimage_push_dead: the failure is not reported.
reimage_unreported(j) ==
  /\ spc[j] = "reimage_dead"
  /\ Goto(j, "reimage_mark_down")
  /\ todo' = [todo EXCEPT ![j] = targets[j]]
  /\ UNCHANGED <<paddlesVars, unlockVars, killVars, child, imaging, targets, locked, failures>>

reimage_push_dead(j) ==
  /\ spc[j] = "reimage_dead"
  /\ PushThen(j, "dead", targets[j], "reimage_mark_down")
  /\ todo' = [todo EXCEPT ![j] = targets[j]]
  /\ UNCHANGED <<imaging, targets, locked, failures>>

\* One target: its last ten jobs either all failed to reimage, or did not.
check_for_reimage_failures_and_mark_down(j, n) ==
  /\ spc[j] = "reimage_mark_down"
  /\ n \in todo[j]
  /\ \/ /\ todo' = [todo EXCEPT ![j] = @ \ {n}]
        /\ \/ "streak" \in Faults /\ MarkDown(n, "reimage failed")
           \/ UNCHANGED nodeVars
        /\ UNCHANGED <<spc, imaging, targets, locked, failures>>
     \/ QueryRaises(j)
  /\ UNCHANGED <<jobVars, unlockVars, killVars, child>>

\* Mutant of reimage_raise: the exception is swallowed, and the job is run.
reimage_swallowed(j) ==
  /\ spc[j] = "reimage_mark_down"
  /\ todo[j] = {}
  /\ Goto(j, "spawn")
  /\ UNCHANGED <<paddlesVars, unlockVars, killVars, child, loopVars>>

reimage_raise(j) ==
  /\ spc[j] = "reimage_mark_down"
  /\ todo[j] = {}
  /\ Goto(j, "exited")
  /\ UNCHANGED <<paddlesVars, unlockVars, killVars, child, loopVars>>

-----------------------------------------------------------------------------
(* run_job() and run_with_watchdog()                                       *)

sup_spawn_job(j) ==
  /\ spc[j] = "spawn"
  /\ Goto(j, "watch")
  /\ child' = [child EXCEPT ![j] = "starting"]
  /\ UNCHANGED <<paddlesVars, unlockVars, killVars, loopVars>>

\* process.poll() returns: the job process has ended.
watch_poll(j) ==
  /\ spc[j] = "watch"
  /\ child[j] = "ended"
  /\ Goto(j, "final_push")
  /\ UNCHANGED <<paddlesVars, unlockVars, killVars, child, loopVars>>

\* Past max_job_time: kill_job(skip_unlock=True), save the logs, kill_job.
watch_timeout(j) ==
  /\ "timeout" \in Faults
  /\ spc[j] = "watch"
  /\ child[j] # "ended"
  /\ Goto(j, "kill_only")
  /\ kpc' = [kpc EXCEPT ![Self(j)] = "get_jobs"]
  /\ UNCHANGED <<paddlesVars, unlockVars, kpid, child, loopVars>>

\* Either kill_job has returned or raised; both are caught.  The second one is
\* followed by a push without a status and the next turn of the loop.
watch_killed(j) ==
  /\ kpc[Self(j)] \in {"returned", "failed"}
  /\ \/ /\ spc[j] = "kill_only"
        /\ Goto(j, "kill_unlock")
        /\ kpc' = [kpc EXCEPT ![Self(j)] = "get_jobs"]
     \/ /\ spc[j] = "kill_unlock"
        /\ Goto(j, "watch")
        /\ kpc' = [kpc EXCEPT ![Self(j)] = "idle"]
  /\ UNCHANGED <<paddlesVars, unlockVars, kpid, child, loopVars>>

\* Mutant of watch_final_push: the unlocking starts before the nodes are checked.
unlock_before_check(j) ==
  /\ spc[j] = "final_push"
  /\ Push(j, "dead", pid[j], job_targets[j])
  /\ Goto(j, "ansible")
  /\ unlock_safe(Self(j), targets[j])
  /\ todo' = [todo EXCEPT ![j] = targets[j]]
  /\ UNCHANGED <<nodeVars, killVars, child, imaging, targets, locked, failures>>

\* "Let's make sure that paddles knows the job is finished."
watch_final_push(j) ==
  /\ spc[j] = "final_push"
  /\ PushThen(j, "dead", job_targets[j], "ansible")
  /\ todo' = [todo EXCEPT ![j] = targets[j]]
  /\ UNCHANGED <<imaging, targets, locked, failures>>

\* Mutant of check_for_ansible_failures_and_mark_down: the reason becomes the
\* description at once, as it does when reimaging fails.
mark_down_with_reason(j, n) ==
  /\ spc[j] = "ansible"
  /\ n \in todo[j]
  /\ todo' = [todo EXCEPT ![j] = @ \ {n}]
  /\ \/ /\ "ansible" \in Faults
        /\ MarkDown(n, "ansible failure")
        /\ failures' = [failures EXCEPT ![j] = @ \cup {n}]
     \/ UNCHANGED <<nodeVars, failures>>
  /\ UNCHANGED <<jobVars, unlockVars, killVars, spc, child, imaging, targets, locked>>

\* One target: the archived ansible log names it, or does not.  Only the
\* status is updated; the description stays that of the lock.  update_lock may raise,
\* which is caught, also when the server has heard it.
check_for_ansible_failures_and_mark_down(j, n) ==
  /\ spc[j] = "ansible"
  /\ n \in todo[j]
  /\ todo' = [todo EXCEPT ![j] = @ \ {n}]
  /\ \/ /\ "ansible" \in Faults
        /\ MarkDown(n, description[n])
        /\ \/ failures' = [failures EXCEPT ![j] = @ \cup {n}]
           \/ "server" \in Faults /\ UNCHANGED failures
     \/ UNCHANGED <<nodeVars, failures>>
  /\ UNCHANGED <<jobVars, unlockVars, killVars, spc, child, imaging, targets, locked>>

ansible_checked(j) ==
  /\ spc[j] = "ansible"
  /\ todo[j] = {}
  /\ Goto(j, "list")
  /\ todo' = [todo EXCEPT ![j] = targets[j]]
  /\ locked' = [locked EXCEPT ![j] = {}]
  /\ UNCHANGED <<paddlesVars, unlockVars, killVars, child, imaging, targets, failures>>

-----------------------------------------------------------------------------
(* unlock_targets(), after a failed reimage and after the job              *)

\* get_statuses: a target that is locked with our description is ours.
list_target(j, n) ==
  /\ spc[j] \in {"reimage_failed", "list"}
  /\ n \in todo[j]
  /\ \/ /\ todo' = [todo EXCEPT ![j] = @ \ {n}]
        /\ locked' = IF holder[n] # Free /\ description[n] = j
                     THEN [locked EXCEPT ![j] = @ \cup {n}]
                     ELSE locked
        /\ UNCHANGED <<spc, imaging, targets, failures>>
     \/ QueryRaises(j)
  /\ UNCHANGED <<paddlesVars, unlockVars, killVars, child>>

AfterUnlock(step) ==
  IF step \in {"reimage_failed", "reimage_unlock"} THEN "reimage_dead" ELSE "describe"

\* Mutant of unlock_targets: unlock_on_failure is read the wrong way round.
unlock_targets_inverted(j) ==
  /\ spc[j] \in {"reimage_failed", "list"}
  /\ todo[j] = {}
  /\ \/ /\ locked[j] = {} \/ j \notin KeepLocked
        /\ Goto(j, AfterUnlock(spc[j]))
        /\ todo' = [todo EXCEPT ![j] = failures[j]]
        /\ UNCHANGED unlockVars
     \/ /\ locked[j] # {} /\ j \in KeepLocked
        /\ Goto(j, IF spc[j] = "list" THEN "unlock" ELSE "reimage_unlock")
        /\ unlock_safe(Self(j), locked[j])
        /\ UNCHANGED todo
  /\ UNCHANGED <<paddlesVars, killVars, child, imaging, targets, locked, failures>>

unlock_targets(j) ==
  /\ spc[j] \in {"reimage_failed", "list"}
  /\ todo[j] = {}
  /\ \/ /\ locked[j] = {} \/ j \in KeepLocked
        /\ Goto(j, AfterUnlock(spc[j]))
        /\ todo' = [todo EXCEPT ![j] = failures[j]]
        /\ UNCHANGED unlockVars
     \/ /\ locked[j] # {} /\ j \notin KeepLocked
        /\ Goto(j, IF spc[j] = "list" THEN "unlock" ELSE "reimage_unlock")
        /\ unlock_safe(Self(j), locked[j])
        /\ UNCHANGED todo
  /\ UNCHANGED <<paddlesVars, killVars, child, imaging, targets, locked, failures>>

unlock_targets_done(j) ==
  /\ spc[j] \in {"reimage_unlock", "unlock"}
  /\ Unlocked(Self(j))
  /\ Goto(j, AfterUnlock(spc[j]))
  /\ todo' = [todo EXCEPT ![j] = failures[j]]
  /\ UNCHANGED <<paddlesVars, unlockVars, killVars, child, imaging, targets, locked, failures>>

\* A greenlet of unlock_safe has failed: nothing up to main() catches that.
unlock_targets_raises(j) ==
  /\ spc[j] \in {"reimage_unlock", "unlock"}
  /\ UnlockRaises(Self(j))
  /\ Goto(j, "exited")
  /\ UNCHANGED <<paddlesVars, killVars, child, loopVars>>

-----------------------------------------------------------------------------
(* describe_disabled_targets()                                             *)

\* get_statuses(failures): a machine that is still locked is left alone.
describe_still_locked(j, n) ==
  /\ spc[j] = "describe"
  /\ n \in todo[j]
  /\ \/ /\ todo' = [todo EXCEPT ![j] = @ \ {n}]
        /\ failures' = IF holder[n] # Free THEN [failures EXCEPT ![j] = @ \ {n}]
                                           ELSE failures
        /\ UNCHANGED <<spc, imaging, targets, locked>>
     \/ QueryRaises(j)
  /\ UNCHANGED <<paddlesVars, unlockVars, killVars, child>>

describe_listed(j) ==
  /\ spc[j] = "describe"
  /\ todo[j] = {}
  /\ Goto(j, "set_description")
  /\ UNCHANGED <<paddlesVars, unlockVars, killVars, child, loopVars>>

describe_disabled_targets(j, n) ==
  /\ spc[j] = "set_description"
  /\ n \in failures[j]
  /\ \/ Describe(n, "ansible failure")
     \/ "server" \in Faults /\ UNCHANGED nodeVars
  /\ failures' = [failures EXCEPT ![j] = @ \ {n}]
  /\ UNCHANGED <<jobVars, unlockVars, killVars, spc, child, imaging, targets, todo, locked>>

sup_exit(j) ==
  /\ spc[j] = "set_description"
  /\ failures[j] = {}
  /\ Goto(j, "exited")
  /\ UNCHANGED <<paddlesVars, unlockVars, killVars, child, loopVars>>

SupervisorStep(j) ==
  \/ sup_check_expiration(j) \/ sup_push_pid(j)
  \/ reimage(j) \/ reimage_machines(j) \/ reimage_joined(j) \/ reimage_done(j)
  \/ reimage_push_dead(j) \/ reimage_raise(j)
  \/ sup_spawn_job(j) \/ watch_poll(j) \/ watch_timeout(j) \/ watch_killed(j)
  \/ watch_final_push(j) \/ ansible_checked(j)
  \/ unlock_targets(j) \/ unlock_targets_done(j) \/ unlock_targets_raises(j)
  \/ describe_listed(j) \/ sup_exit(j)
  \/ \E n \in Nodes : \/ provision_reimage(j, n)
                      \/ check_for_reimage_failures_and_mark_down(j, n)
                      \/ check_for_ansible_failures_and_mark_down(j, n)
                      \/ list_target(j, n)
                      \/ describe_still_locked(j, n)
                      \/ describe_disabled_targets(j, n)

-----------------------------------------------------------------------------
(* The job process: teuthology/run/__init__.py.                            *)

\* main() reports itself running, with its own process id.
job_start(j) ==
  /\ child[j] = "starting"
  /\ \/ /\ Push(j, "running", "job", targets[j])
        /\ child' = [child EXCEPT ![j] = "running"]
     \/ PushRaises /\ child' = [child EXCEPT ![j] = "ended"]
  /\ UNCHANGED <<nodeVars, unlockVars, killVars, spc, loopVars>>

\* report_outcome() in the `finally` of main().
report_outcome(j) ==
  /\ child[j] = "running"
  /\ \/ \E s \in Inactive : Push(j, s, pid[j], targets[j])
     \/ PushRaises
  /\ child' = [child EXCEPT ![j] = "ended"]
  /\ UNCHANGED <<nodeVars, unlockVars, killVars, spc, loopVars>>

\* It ends without a report: killed, or failing before run_tasks.
job_dies(j) ==
  /\ \/ child[j] = "dying"
     \/ "die" \in Faults /\ child[j] \in {"starting", "running"}
  /\ child' = [child EXCEPT ![j] = "ended"]
  /\ UNCHANGED <<paddlesVars, unlockVars, killVars, spc, loopVars>>

JobStep(j) == job_start(j) \/ report_outcome(j) \/ job_dies(j)
=============================================================================
