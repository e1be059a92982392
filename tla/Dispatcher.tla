----------------------------- MODULE Dispatcher -----------------------------
(***************************************************************************)
(* teuthology/dispatcher/__init__.py: the one dispatcher of a machine type *)
(* takes jobs off the beanstalk queue, locks their nodes                   *)
(* (lock/ops.py block_and_lock_machines) and starts their supervisors.     *)
(***************************************************************************)
EXTENDS Supervisor

CONSTANTS
  Need,          \* how many nodes each job's roles ask for
  Reserved,      \* config.reserve_machines, left for non-automated jobs
  Scheduled,     \* the jobs whose owner starts with 'scheduled'
  StopWorker,    \* the jobs with stop_worker set
  ExitOnEmpty,   \* --exit-on-empty-queue
  MaxLoopExits,  \* max_loop_exits
  MaxRestarts,   \* bound: how often the dispatcher is started again
  NoJob

ASSUME NeedAssumption == Need \in [Jobs -> Nat \ {0}] /\ Reserved \in Nat
ASSUME DispatcherAssumption ==
  /\ StopWorker \subseteq Jobs
  /\ Scheduled \subseteq Jobs
  /\ ExitOnEmpty \in BOOLEAN
  /\ MaxLoopExits \in Nat \ {0}
  /\ MaxRestarts \in Nat
  /\ NoJob \notin Jobs

VARIABLES
  queue,           \* the state of each job in beanstalk
  dpc,             \* where the dispatcher is
  djob,            \* the job it is handling
  job_procs,       \* the jobs whose supervisors this dispatcher has started
  stopping,        \* ~keep_running
  loop_exit_count,
  restarts

dispatcherVars == <<queue, dpc, djob, job_procs, stopping, loop_exit_count, restarts>>

DispatcherSteps == {"loop", "reserved", "prep", "lock_machines", "block", "list",
                    "lock_many", "locked", "popen", "unlock", "fail", "delete",
                    "exited", "stopped"}

DispatcherTypeOK ==
  /\ queue \in [Jobs -> {"ready", "reserved", "buried", "deleted"}]
  /\ dpc \in DispatcherSteps
  /\ djob \in Jobs \cup {NoJob}
  /\ job_procs \subseteq Jobs
  /\ stopping \in BOOLEAN
  /\ loop_exit_count \in 0..MaxLoopExits
  /\ restarts \in 0..MaxRestarts

DispatcherInit ==
  /\ queue = [j \in Jobs |-> "ready"]
  /\ dpc = "loop"
  /\ djob = NoJob
  /\ job_procs = {}
  /\ stopping = FALSE
  /\ loop_exit_count = 0
  /\ restarts = 0

dispatcherRest == <<child, imaging, todo, locked, failures>>

Continue == dpc' = "loop" /\ djob' = NoJob

-----------------------------------------------------------------------------
(* The main loop                                                           *)

reserve(j) ==
  /\ dpc = "loop" /\ ~stopping
  /\ queue[j] = "ready"
  /\ queue' = [queue EXCEPT ![j] = "reserved"]
  /\ dpc' = "reserved"
  /\ djob' = j
  /\ UNCHANGED <<paddlesVars, unlockVars, killVars, supervisorVars,
                 job_procs, stopping, loop_exit_count, restarts>>

\* The loop ends after a job with stop_worker; or, if asked to, when reserve()
\* times out and no supervisor is running.
leave_loop ==
  /\ dpc = "loop"
  /\ \/ stopping
     \/ /\ ExitOnEmpty
        /\ \A j \in Jobs : queue[j] # "ready"
        /\ \A j \in job_procs : ~SupervisorAlive(j)
  /\ dpc' = "exited"
  /\ UNCHANGED <<paddlesVars, unlockVars, killVars, supervisorVars,
                 queue, djob, job_procs, stopping, loop_exit_count, restarts>>

\* Mutant of bury: the job is left reserved while it is handled.
bury_not ==
  /\ dpc = "reserved"
  /\ stopping' = (djob \in StopWorker)
  /\ dpc' = "prep"
  /\ UNCHANGED <<paddlesVars, unlockVars, killVars, supervisorVars,
                 queue, djob, job_procs, loop_exit_count, restarts>>

\* "bury the job so it won't be re-run if it fails"
bury ==
  /\ dpc = "reserved"
  /\ queue' = [queue EXCEPT ![djob] = "buried"]
  /\ stopping' = (djob \in StopWorker)
  /\ dpc' = "prep"
  /\ UNCHANGED <<paddlesVars, unlockVars, killVars, supervisorVars,
                 djob, job_procs, loop_exit_count, restarts>>

\* check_job_expiration, then the teuthology and suite branches: SkipJob after
\* reporting the job dead; another exception goes to the main loop unreported.
prep_job ==
  /\ dpc = "prep"
  /\ \/ dpc' = "lock_machines" /\ UNCHANGED <<jobVars, djob>>
     \/ /\ Faults \cap {"prep", "expire"} # {}
        /\ PushStatus(djob, "dead")
        /\ Continue
     \/ /\ "prep" \in Faults \/ "report" \in Faults
        /\ Continue
        /\ UNCHANGED jobVars
  /\ UNCHANGED <<nodeVars, unlockVars, killVars, supervisorVars,
                 queue, job_procs, stopping, loop_exit_count, restarts>>

-----------------------------------------------------------------------------
(* lock_machines(): an exception is reported, and the next job is taken    *)

\* Mutant of LockMachinesRaises: the exception is only logged.
LockMachinesUnreported == UNCHANGED jobVars /\ Continue

LockMachinesRaises ==
  /\ PushStatus(djob, "dead") \/ PushRaises
  /\ Continue

lock_machines ==
  /\ dpc \in {"lock_machines", "block"}
  /\ \/ /\ PushStatus(djob, IF dpc = "block" THEN "waiting" ELSE "running")
        /\ dpc' = IF dpc = "block" THEN "list" ELSE "block"
        /\ UNCHANGED djob
     \/ Faults \cap {"report", "loopexit"} # {} /\ LockMachinesRaises
  /\ UNCHANGED <<nodeVars, unlockVars, killVars, supervisorVars,
                 queue, job_procs, stopping, loop_exit_count, restarts>>

\* list_locks(up=True, locked=False, count=requested + reserved): with fewer
\* machines than that, a scheduled job sleeps and lists again.
list_locks ==
  /\ dpc = "list"
  /\ djob \in Scheduled => Cardinality(Available) >= Need[djob] + Reserved
  /\ dpc' = "lock_many"
  /\ UNCHANGED <<paddlesVars, unlockVars, killVars, supervisorVars,
                 queue, djob, job_procs, stopping, loop_exit_count, restarts>>

\* All the machines, or a 503 and another turn of the loop.
lock_many ==
  /\ dpc = "lock_many"
  /\ \/ \E S \in SUBSET Available :
          /\ Cardinality(S) = Need[djob]
          /\ LockNodes(djob, S)
          /\ targets' = [targets EXCEPT ![djob] = S]
          /\ dpc' = "locked"
     \/ /\ Cardinality(Available) < Need[djob]
        /\ dpc' = "list"
        /\ UNCHANGED <<nodeVars, targets>>
  /\ UNCHANGED <<jobVars, unlockVars, killVars, spc, dispatcherRest,
                 queue, djob, job_procs, stopping, loop_exit_count, restarts>>

\* An exception (a LoopExit too) while machines are listed or locked; whether
\* the request got to the server or not.
lock_many_raises ==
  /\ dpc \in {"list", "lock_many"}
  /\ Faults \cap {"lock", "loopexit"} # {}
  /\ \/ UNCHANGED nodeVars
     \/ /\ dpc = "lock_many"
        /\ \E S \in SUBSET Available :
             Cardinality(S) = Need[djob] /\ LockNodes(djob, S)
  /\ LockMachinesRaises
  /\ UNCHANGED <<unlockVars, killVars, supervisorVars,
                 queue, job_procs, stopping, loop_exit_count, restarts>>

\* "successfully locked machines, change status back to running"
report_locked ==
  /\ dpc = "locked"
  /\ \/ /\ Push(djob, "running", pid[djob], targets[djob])
        /\ dpc' = "popen"
        /\ UNCHANGED djob
     \/ Faults \cap {"report", "loopexit"} # {} /\ LockMachinesRaises
  /\ UNCHANGED <<nodeVars, unlockVars, killVars, supervisorVars,
                 queue, job_procs, stopping, loop_exit_count, restarts>>

-----------------------------------------------------------------------------
(* The supervisor, and the end of the turn                                 *)

popen ==
  /\ dpc = "popen"
  /\ \/ /\ spc' = [spc EXCEPT ![djob] = "start"]
        /\ job_procs' = job_procs \cup {djob}
        /\ dpc' = "delete"
        /\ UNCHANGED <<unlockVars, djob>>
     \/ /\ "spawn" \in Faults
        /\ unlock_safe(<<"dispatcher", djob>>, targets[djob])
        /\ dpc' = "unlock"
        /\ UNCHANGED <<spc, djob, job_procs>>
     \/ /\ "write" \in Faults       \* orig.config.yaml: the main loop goes on
        /\ Continue
        /\ UNCHANGED <<unlockVars, spc, job_procs>>
  /\ UNCHANGED <<paddlesVars, killVars, targets, dispatcherRest,
                 queue, stopping, loop_exit_count, restarts>>

unlock_done ==
  /\ dpc = "unlock"
  /\ Unlocked(<<"dispatcher", djob>>)
  /\ dpc' = "fail"
  /\ UNCHANGED <<paddlesVars, unlockVars, killVars, supervisorVars,
                 queue, djob, job_procs, stopping, loop_exit_count, restarts>>

\* What unlock_safe raises gets to the main loop, which goes on: the job is
\* not reported, and stays buried.
unlock_raises ==
  /\ dpc = "unlock"
  /\ UnlockRaises(<<"dispatcher", djob>>)
  /\ Continue
  /\ UNCHANGED <<paddlesVars, killVars, supervisorVars,
                 queue, job_procs, stopping, loop_exit_count, restarts>>

report_spawn_failed ==
  /\ dpc = "fail"
  /\ \/ /\ Push(djob, "fail", pid[djob], targets[djob])
        /\ dpc' = "delete"
        /\ UNCHANGED djob
     \/ PushRaises /\ Continue
  /\ UNCHANGED <<nodeVars, unlockVars, killVars, supervisorVars,
                 queue, job_procs, stopping, loop_exit_count, restarts>>

\* job.delete(), whose failure is logged; the turn was successful.
delete ==
  /\ dpc = "delete"
  /\ \/ queue' = [queue EXCEPT ![djob] = "deleted"]
     \/ "delete" \in Faults /\ UNCHANGED queue
  /\ loop_exit_count' = 0
  /\ Continue
  /\ UNCHANGED <<paddlesVars, unlockVars, killVars, supervisorVars,
                 job_procs, stopping, restarts>>

-----------------------------------------------------------------------------
(* LoopExit outside lock_machines, SIGTERM, and the next start             *)

\* The job being handled is dropped; at max_loop_exits the dispatcher exits.
loop_exit ==
  /\ "loopexit" \in Faults
  /\ dpc \in {"loop", "reserved", "prep", "fail", "delete"}
  /\ dpc # "loop" \/ ~stopping
  /\ loop_exit_count' = loop_exit_count + 1
  /\ dpc' = IF loop_exit_count' >= MaxLoopExits THEN "exited" ELSE "loop"
  /\ djob' = NoJob
  /\ UNCHANGED <<paddlesVars, unlockVars, killVars, supervisorVars,
                 queue, job_procs, stopping, restarts>>

\* stop(): sys.exit(0) wherever the dispatcher is.  Its supervisors go on; its
\* connection closes, so beanstalk takes back a job it had only reserved.
crash ==
  /\ "crash" \in Faults
  /\ dpc \notin {"exited", "stopped"}
  /\ dpc' = "stopped"
  /\ djob' = NoJob
  /\ queue' = [j \in Jobs |-> IF queue[j] = "reserved" THEN "ready" ELSE queue[j]]
  /\ DropGreenlets({"dispatcher"} \X Jobs)
  /\ UNCHANGED <<paddlesVars, killVars, supervisorVars,
                 job_procs, stopping, loop_exit_count, restarts>>

restart ==
  /\ dpc = "stopped"
  /\ restarts < MaxRestarts
  /\ restarts' = restarts + 1
  /\ dpc' = "loop"
  /\ job_procs' = {}
  /\ stopping' = FALSE
  /\ loop_exit_count' = 0
  /\ UNCHANGED <<paddlesVars, unlockVars, killVars, supervisorVars, queue, djob>>

\* What the dispatcher does of its own accord.
DispatcherStep ==
  \/ \E j \in Jobs : reserve(j)
  \/ leave_loop \/ bury \/ prep_job \/ lock_machines \/ list_locks \/ lock_many
  \/ report_locked \/ popen \/ unlock_done \/ unlock_raises
  \/ report_spawn_failed \/ delete

DispatcherFault == lock_many_raises \/ loop_exit \/ crash \/ restart
=============================================================================
