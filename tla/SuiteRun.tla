------------------------------ MODULE SuiteRun ------------------------------
(***************************************************************************)
(* One run of a suite: teuthology-suite puts its jobs into beanstalk and   *)
(* reports them to paddles, the dispatcher and the supervisors work them   *)
(* off (modules Dispatcher and Supervisor, here without their failures),   *)
(* teuthology-results and `teuthology-suite --wait` wait for them to end,  *)
(* and somebody runs `teuthology-kill -r <run>` meanwhile.                 *)
(***************************************************************************)
EXTENDS Naturals, FiniteSets

CONSTANTS
  Count,  \* how many jobs the suite has
  Faults  \* which of FaultKinds may happen

FaultKinds == {
  "prep",    \* prep_job cannot find a branch: the job is dead
  "late",    \* the dispatcher takes a job before it is reported 'queued'
  "survive", \* kill(1) fails for a process
  "kill"}    \* somebody runs teuthology-kill

ASSUME SuiteRunAssumption == Count \in Nat \ {0} /\ Faults \subseteq FaultKinds

\* Jobs are numbered as beanstalk does, in the order they are put.
Foreign == 0          \* a job of another run, in the queue before
Suite   == 1..Count
Last    == Count + 1  \* the --last-in-suite job, which sends the results
Jobs    == 0..Last
OfRun   == Jobs \ {Foreign}

VARIABLES
  queue,   \* beanstalk: the state of each job
  record,  \* paddles: the status of each job's record
  pid,     \* ... and the process it names
  locked,  \* the jobs whose nodes are locked
  stage,   \* where the dispatcher, and then the supervisor, is with a job
  child,   \* the job's own process
  next,    \* teuthology-suite: the job it schedules
  put,     \* ... and whether it has put it into beanstalk
  results, \* teuthology-results
  wait, exit_code, \* teuthology-suite --wait
  kpc,     \* kill_run: where it is
  kpids,   \* ... the pids it has read
  curjobs, \* ... how many jobs of the queue it has yet to see
  kids     \* ... the job ids it has read

jobVars  == <<queue, record, pid, locked, stage, child>>
waitVars == <<next, put, results, wait, exit_code>>
killVars == <<kpc, kpids, curjobs, kids>>
vars     == <<jobVars, waitVars, killVars>>

NoPids     == [j \in Jobs |-> "none"]
Inactive   == {"pass", "fail", "dead"}
Unfinished == {"queued", "running", "waiting"}   \* UNFINISHED_STATUSES
KillSteps  == {"idle", "stats", "reserve", "get_queued", "try_delete", "delete_run",
               "delete_job", "kill_processes", "find_targets", "unlock", "get_jobs",
               "report", "done", "failed", "raised"}

TypeOK ==
  /\ queue \in [Jobs -> {"none", "ready", "held", "buried", "deleted"}]
  /\ record \in [Jobs -> Inactive \cup Unfinished \cup {"absent"}]
  /\ pid \in [Jobs -> {"none", "supervisor", "job"}]
  /\ locked \subseteq Jobs
  /\ stage \in [Jobs -> {"none", "prep", "lock", "start", "reimage", "watch", "gone"}]
  /\ child \in [Jobs -> {"none", "running", "gone"}]
  /\ next \in 1..(Last + 1)
  /\ put \in BOOLEAN
  /\ results \in {"none", "waiting", "gathered", "timed_out", "raised", "killed"}
  /\ wait \in {"waiting", "done", "raised"}
  /\ exit_code \in {0, 1}
  /\ kpc \in KillSteps
  /\ kpids \in [Jobs -> {"none", "supervisor", "job"}]
  /\ curjobs \in 0..Cardinality(Jobs)
  /\ kids \subseteq OfRun

Init ==
  /\ queue = [j \in Jobs |-> IF j = Foreign THEN "ready" ELSE "none"]
  /\ record = [j \in Jobs |-> IF j = Foreign THEN "queued" ELSE "absent"]
  /\ pid = NoPids
  /\ locked = {}
  /\ stage = [j \in Jobs |-> "none"]
  /\ child = [j \in Jobs |-> "none"]
  /\ next = 1
  /\ put = FALSE
  /\ results = "none"
  /\ wait = "waiting"
  /\ exit_code = 0
  /\ kpc = "idle"
  /\ kpids = NoPids
  /\ curjobs = 0
  /\ kids = {}

\* The next job beanstalk gives to whoever asks.
Ready   == {j \in Jobs : queue[j] = "ready"}
Head(j) == j \in Ready /\ \A i \in Ready : j <= i

\* paddles ignores "dead" for a job that has passed or failed.
Accepted(old, new) == IF new = "dead" /\ old \in {"pass", "fail"} THEN old ELSE new
Report(j, s) == record' = [record EXCEPT ![j] = Accepted(@, s)]
Stage(j, s)  == stage' = [stage EXCEPT ![j] = s]

-----------------------------------------------------------------------------
(* teuthology-suite runs teuthology-schedule for one job after the other.  *)

schedule_put ==
  /\ next <= Last /\ ~put
  /\ queue' = [queue EXCEPT ![next] = "ready"]
  /\ IF next = Last THEN next' = next + 1 /\ UNCHANGED put
                    ELSE put' = TRUE /\ UNCHANGED next
  /\ UNCHANGED <<record, pid, locked, stage, child, results, wait, exit_code, killVars>>

\* The jobs of a suite are reported 'queued', its last one is not.
schedule_report ==
  /\ put
  /\ Report(next, "queued")
  /\ put' = FALSE
  /\ next' = next + 1
  /\ UNCHANGED <<queue, pid, locked, stage, child, results, wait, exit_code, killVars>>

-----------------------------------------------------------------------------
(* The dispatcher, the supervisors and the job processes                   *)

reserve(j) ==
  /\ Head(j)
  /\ "late" \in Faults \/ ~put \/ j # next
  /\ \A i \in Jobs : stage[i] \notin {"prep", "lock"}
  /\ queue' = [queue EXCEPT ![j] = "buried"]
  /\ Stage(j, "prep")
  /\ UNCHANGED <<record, pid, locked, child, waitVars, killVars>>

\* The last job has no roles: its supervisor starts teuthology-results at once.
\* What becomes of the other run's job is not followed any further.
prep_job(j) ==
  /\ stage[j] = "prep"
  /\ \/ /\ j \in Suite
        /\ Report(j, "waiting")
        /\ Stage(j, "lock")
        /\ UNCHANGED <<queue, results>>
     \/ /\ j \notin Suite
        /\ results' = IF j = Last THEN "waiting" ELSE results
        /\ queue' = [queue EXCEPT ![j] = "deleted"]
        /\ Stage(j, "gone")
        /\ UNCHANGED record
     \/ /\ "prep" \in Faults
        /\ Report(j, "dead")
        /\ Stage(j, "gone")
        /\ UNCHANGED <<queue, results>>
  /\ UNCHANGED <<pid, locked, child, next, put, wait, exit_code, killVars>>

lock_machines(j) ==
  /\ stage[j] = "lock"
  /\ Report(j, "running")
  /\ locked' = locked \cup {j}
  /\ queue' = [queue EXCEPT ![j] = "deleted"]
  /\ Stage(j, "start")
  /\ UNCHANGED <<pid, child, waitVars, killVars>>

\* Pushing a pid creates the record anew if it has been deleted.
supervisor(j) ==
  /\ stage[j] = "start"
  /\ pid' = [pid EXCEPT ![j] = "supervisor"]
  /\ IF record[j] = "absent" THEN Report(j, "running") ELSE UNCHANGED record
  /\ Stage(j, "reimage")
  /\ UNCHANGED <<queue, locked, child, waitVars, killVars>>

run_job(j) ==
  /\ stage[j] = "reimage"
  /\ child' = [child EXCEPT ![j] = "running"]
  /\ pid' = [pid EXCEPT ![j] = "job"]
  /\ Report(j, "running")
  /\ Stage(j, "watch")
  /\ UNCHANGED <<queue, locked, waitVars, killVars>>

job_end(j) ==
  /\ child[j] = "running"
  /\ child' = [child EXCEPT ![j] = "gone"]
  /\ \E s \in {"pass", "fail"} : Report(j, s)
  /\ UNCHANGED <<queue, pid, locked, stage, waitVars, killVars>>

\* The supervisor sees that the job has ended, reports 'dead' in case nobody has
\* reported anything else, and unlocks.
supervisor_end(j) ==
  /\ stage[j] = "watch" /\ child[j] = "gone"
  /\ Report(j, "dead")
  /\ locked' = locked \ {j}
  /\ Stage(j, "gone")
  /\ UNCHANGED <<queue, pid, child, waitVars, killVars>>

JobStep(j) ==
  \/ reserve(j) \/ prep_job(j) \/ lock_machines(j) \/ supervisor(j) \/ run_job(j)
  \/ job_end(j) \/ supervisor_end(j)

-----------------------------------------------------------------------------
(* results() and wait()                                                    *)

Records == {j \in OfRun : record[j] # "absent"}

\* Mutant of unfinished: only jobs that have not started count.
unfinished_not_started == {j \in OfRun : record[j] \in {"queued", "waiting"}}

unfinished == {j \in OfRun : record[j] \in Unfinished}

\* Each scan asks paddles for the run's jobs; without any, that is a 404.
gather_results ==
  /\ results = "waiting"
  /\ results' = IF Records = {} THEN "raised"
                ELSE IF unfinished = {} THEN "gathered" ELSE "timed_out"
  /\ UNCHANGED <<jobVars, next, put, wait, exit_code, killVars>>

\* Mutant of wait_scan: only a job that fails counts as one that did not pass.
wait_scan_dead_passes ==
  /\ next > Last /\ wait = "waiting"
  /\ exit_code' = IF \E j \in OfRun : record[j] = "fail" THEN 1 ELSE exit_code
  /\ wait' = IF unfinished = {} THEN "done" ELSE "waiting"
  /\ UNCHANGED <<jobVars, next, put, results, killVars>>

\* A job that has not passed in one scan makes the exit code 1; with unfinished
\* ones there is another scan, or no progress for too long.
wait_scan ==
  /\ next > Last /\ wait = "waiting"
  /\ exit_code' = IF Records \cap {j \in OfRun : record[j] \in {"fail", "dead"}} # {}
                  THEN 1 ELSE exit_code
  /\ IF Records = {} THEN wait' = "raised"
     ELSE IF unfinished = {} THEN wait' = "done"
     ELSE wait' \in {"waiting", "raised"}
  /\ UNCHANGED <<jobVars, next, put, results, killVars>>

-----------------------------------------------------------------------------
(* kill_run                                                                *)

\* Bound: once, and not before teuthology-suite has scheduled everything.
kill_run ==
  /\ "kill" \in Faults
  /\ kpc = "idle" /\ next > Last
  /\ IF Records = {} THEN kpc' = "raised" ELSE kpc' \in {"stats", "kill_processes"}
  /\ kpids' = [j \in Jobs |-> IF j \in Records THEN pid[j] ELSE "none"]
  /\ UNCHANGED <<jobVars, waitVars, curjobs, kids>>

KillGoto(step) == kpc' = step

\* current-jobs-ready counts the jobs of all runs.
stats_tube ==
  /\ kpc = "stats"
  /\ curjobs' = Cardinality(Ready)
  /\ KillGoto(IF curjobs' = 0 THEN "get_queued" ELSE "reserve")
  /\ UNCHANGED <<jobVars, waitVars, kpids, kids>>

Delete(j) == queue' = [queue EXCEPT ![j] = "deleted"]

\* `while x != curjobs`, with x = 1 at first: a job of the run is deleted, one
\* of another run stays reserved, none at all is a timeout.
remove_beanstalk_job ==
  /\ kpc = "reserve" /\ curjobs > 1
  /\ curjobs' = curjobs - 1
  /\ \/ \E j \in OfRun : Head(j) /\ Delete(j)
     \/ Head(Foreign) /\ queue' = [queue EXCEPT ![Foreign] = "held"]
     \/ Ready = {} /\ UNCHANGED queue
  /\ UNCHANGED <<record, pid, locked, stage, child, waitVars, kpc, kpids, kids>>

\* Mutant of close: the connection stays open.
close_not ==
  /\ kpc = "reserve" /\ curjobs <= 1
  /\ curjobs' = 0
  /\ KillGoto("get_queued")
  /\ UNCHANGED <<jobVars, waitVars, kpids, kids>>

\* beanstalk takes back what the connection had reserved.
close ==
  /\ kpc = "reserve" /\ curjobs <= 1
  /\ queue' = [j \in Jobs |-> IF queue[j] = "held" THEN "ready" ELSE queue[j]]
  /\ curjobs' = 0
  /\ KillGoto("get_queued")
  /\ UNCHANGED <<record, pid, locked, stage, child, waitVars, kpids, kids>>

remove_paddles_jobs ==
  /\ kpc = "get_queued"
  /\ kids' = {j \in OfRun : record[j] = "queued"}
  /\ KillGoto(IF Records = {} THEN "raised"
              ELSE IF kids' = {} THEN "kill_processes" ELSE "try_delete")
  /\ UNCHANGED <<jobVars, waitVars, kpids, curjobs>>

\* If these are all the jobs the run has, the run is deleted.
try_delete_jobs ==
  /\ kpc = "try_delete"
  /\ KillGoto(IF kids = Records THEN "delete_run" ELSE "delete_job")
  /\ UNCHANGED <<jobVars, waitVars, kpids, curjobs, kids>>

Forget(S) == record' = [j \in Jobs |-> IF j \in S THEN "absent" ELSE record[j]]
             /\ pid' = [j \in Jobs |-> IF j \in S THEN "none" ELSE pid[j]]

delete_run ==
  /\ kpc = "delete_run"
  /\ Forget(OfRun)
  /\ kids' = {}
  /\ KillGoto("kill_processes")
  /\ UNCHANGED <<queue, locked, stage, child, waitVars, kpids, curjobs>>

delete_job ==
  /\ kpc = "delete_job"
  /\ \E j \in kids : Forget({j}) /\ kids' = kids \ {j}
  /\ KillGoto(IF kids' = {} THEN "kill_processes" ELSE "delete_job")
  /\ UNCHANGED <<queue, locked, stage, child, waitVars, kpids, curjobs>>

\* The processes with the run's name in their command line.
Processes ==
  {<<"supervisor", j>> : j \in {i \in OfRun : stage[i] \in {"start", "reimage", "watch"}}}
  \cup {<<"job", j>> : j \in {i \in OfRun : child[i] = "running"}}
  \cup (IF results = "waiting" THEN {<<"results", Last>>} ELSE {})

\* With pids, those of them that are still alive; without, all.
ToKill ==
  IF \E j \in Jobs : kpids[j] # "none"
  THEN Processes \cap {<<kpids[j], j>> : j \in Jobs}
  ELSE Processes

\* Then the targets are unlocked, if an owner is given.
kill_processes ==
  /\ kpc = "kill_processes"
  /\ \E killed \in SUBSET ToKill :
       /\ killed = ToKill \/ "survive" \in Faults
       /\ stage' = [j \in Jobs |-> IF <<"supervisor", j>> \in killed THEN "gone" ELSE stage[j]]
       /\ child' = [j \in Jobs |-> IF <<"job", j>> \in killed THEN "gone" ELSE child[j]]
       /\ results' = IF <<"results", Last>> \in killed THEN "killed" ELSE results
       /\ IF killed = ToKill THEN kpc' \in {"find_targets", "get_jobs"} ELSE kpc' = "failed"
  /\ kpids' = NoPids
  /\ UNCHANGED <<queue, record, pid, locked, next, put, wait, exit_code, curjobs, kids>>

find_targets ==
  /\ kpc = "find_targets"
  /\ kids' = {j \in OfRun \cap locked : record[j] \in {"running", "waiting"}}
  /\ KillGoto(IF Records = {} THEN "raised" ELSE "unlock")
  /\ UNCHANGED <<jobVars, waitVars, kpids, curjobs>>

\* Mutant of MayUnlock: the run's name matches the path of its jobs.
MayUnlock_run(j) == j \in OfRun

\* A node's description ends with the job's id, never with the run's name
\* alone: only nodes of jobs that have ended meanwhile are unlocked.
MayUnlock(j) == record[j] \in Inactive

unlock_safe ==
  /\ kpc = "unlock"
  /\ locked' = locked \ {j \in kids : MayUnlock(j)}
  /\ kids' = {}
  /\ KillGoto("get_jobs")
  /\ UNCHANGED <<queue, record, pid, stage, child, waitVars, kpids, curjobs>>

try_mark_run_dead ==
  /\ kpc = "get_jobs"
  /\ kids' = {j \in Records : record[j] \notin Inactive}
  /\ KillGoto(IF Records = {} THEN "raised" ELSE "report")
  /\ UNCHANGED <<jobVars, waitVars, kpids, curjobs>>

\* Mutant of report_dead: the first job is enough.
report_dead_once ==
  /\ kpc = "report"
  /\ IF kids = {} THEN UNCHANGED record
     ELSE Report(CHOOSE j \in kids : TRUE, "dead")
  /\ kids' = {}
  /\ KillGoto("done")
  /\ UNCHANGED <<queue, pid, locked, stage, child, waitVars, kpids, curjobs>>

\* report_job(dead=True), with what the archive says of the job: 'dead' unless
\* the job has got as far as writing its summary.
report_dead ==
  /\ kpc = "report"
  /\ IF kids = {} THEN KillGoto("done") /\ UNCHANGED <<record, kids>>
     ELSE \E j \in kids : Report(j, "dead") /\ kids' = kids \ {j} /\ UNCHANGED kpc
  /\ UNCHANGED <<queue, pid, locked, stage, child, waitVars, kpids, curjobs>>

KillStep ==
  \/ stats_tube \/ remove_beanstalk_job \/ close \/ remove_paddles_jobs
  \/ try_delete_jobs \/ delete_run \/ delete_job \/ kill_processes \/ find_targets
  \/ unlock_safe \/ try_mark_run_dead \/ report_dead

-----------------------------------------------------------------------------
Scheduling == schedule_put \/ schedule_report

Next ==
  \/ Scheduling \/ gather_results \/ wait_scan \/ kill_run \/ KillStep
  \/ \E j \in Jobs : JobStep(j)

\* Each process takes its next step; nobody need run teuthology-kill.
Fairness == /\ WF_vars(Scheduling) /\ WF_vars(KillStep)
            /\ \A j \in Jobs : WF_vars(JobStep(j))

Spec == Init /\ [][Next]_vars /\ Fairness

-----------------------------------------------------------------------------
\* Nobody handles the job, or will.
Over(j) == /\ queue[j] \in {"buried", "deleted"}
           /\ stage[j] \in {"watch", "gone"} /\ child[j] # "running"

(* results() mails a run that has finished, not one with jobs that are     *)
(* still queued, wait for nodes or run; unless somebody has meddled with   *)
(* its records.                                                            *)
ResultsComplete ==
  results = "gathered" /\ kpc = "idle" => \A j \in Suite : Over(j)

(* `teuthology-suite --wait` ends with 0 only if every job of the suite    *)
(* has passed, again without a kill_run.                                   *)
WaitTellsFailure ==
  wait = "done" /\ exit_code = 0 /\ kpc = "idle" => \A j \in Suite : record[j] = "pass"

(* While its supervisor or its process works on a job, its nodes stay      *)
(* locked, whatever kill_run unlocks.                                      *)
HoldsNodes ==
  \A j \in Jobs : stage[j] \in {"start", "reimage"} \/ child[j] = "running" => j \in locked

(* kill_run reserves the jobs of other runs to look at them; the           *)
(* dispatcher gets them nevertheless.                                      *)
OtherRunsGoOn == <>(stage[Foreign] = "gone")

(* A run settles: in the end each of its jobs has a final status, or no    *)
(* record; also when it is killed, in the middle of whatever happens.      *)
RunSettles == <>[](\A j \in Suite : record[j] \notin Unfinished)

(* scripts/kill.py: "Removes any queued jobs from the beanstalk queue".    *)
KilledRunLeavesQueue == kpc = "done" => \A j \in OfRun : queue[j] # "ready"
=============================================================================
