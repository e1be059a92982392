--------------------------- MODULE SuiteRun_proofs ---------------------------
(***************************************************************************)
(* For a suite of any size and any faults: nodes stay locked while they    *)
(* are used, results are mailed when the run has finished, and --wait does *)
(* not end with 0 for a run that has not passed.                           *)
(***************************************************************************)
EXTENDS SuiteRun, TLAPS

\* The part of TypeOK that is needed.
TypeInv ==
  /\ queue \in [Jobs -> {"none", "ready", "held", "buried", "deleted"}]
  /\ record \in [Jobs -> Inactive \cup Unfinished \cup {"absent"}]
  /\ stage \in [Jobs -> {"none", "prep", "lock", "start", "reimage", "watch", "gone"}]
  /\ child \in [Jobs -> {"none", "running", "gone"}]
  /\ locked \subseteq Jobs
  /\ next \in 1..(Last + 1)
  /\ put => next \in Suite
  /\ exit_code \in {0, 1}

\* The stages before the job's own process is started.
Before == {"none", "prep", "lock", "start", "reimage"}

\* A job is handled once it has left the queue, and has a process at the end.
StageInv(j) ==
  /\ queue[j] \in {"none", "ready", "held"} => stage[j] = "none"
  /\ stage[j] \in Before => child[j] # "running"

\* teuthology-suite has not put a job yet.
QueueInv(j) ==
  j \in OfRun /\ (j > next \/ (j = next /\ ~put)) => queue[j] = "none"

\* A job that has its nodes, or is about to get them, has no final status
\* before kill_run comes to report one, which it does after it has unlocked.
Works(j)   == stage[j] \in {"start", "reimage"} \/ child[j] = "running"
LockInv(j) ==
  /\ Works(j) => j \in locked
  /\ Works(j) \/ stage[j] = "lock" => kpc \in {"report", "done"} \/ record[j] \notin Inactive

\* Without a kill_run, a job that was reported keeps its record, and a final
\* status is that of a job that is over.
RecordInv(j) ==
  kpc = "idle" /\ j \in Suite =>
    /\ j < next => record[j] # "absent"
    /\ record[j] \in Inactive => stage[j] \in {"watch", "gone"} /\ child[j] # "running"

\* Who looks at the results does so when all jobs have been scheduled.
ScheduledInv == results # "none" \/ wait # "waiting" => next > Last

JobInv(j) == StageInv(j) /\ QueueInv(j) /\ LockInv(j) /\ RecordInv(j)

IInv ==
  /\ TypeInv /\ ScheduledInv
  /\ \A j \in Jobs : JobInv(j)
  /\ ResultsComplete /\ WaitTellsFailure

-----------------------------------------------------------------------------
LEMMA InitIInv == Init => IInv
  <1> SUFFICES ASSUME Init PROVE IInv OBVIOUS
  <1> USE SuiteRunAssumption DEF Init, Jobs, OfRun, Suite, Last, Foreign
  <1>1. TypeInv
    <2>1. next \in 1..(Last + 1) /\ (put => next \in Suite)
      OBVIOUS
    <2>2. /\ queue \in [Jobs -> {"none", "ready", "held", "buried", "deleted"}]
          /\ record \in [Jobs -> Inactive \cup Unfinished \cup {"absent"}]
      BY DEF Unfinished
    <2> QED BY <2>1, <2>2 DEF TypeInv
  <1>2. ASSUME NEW j \in Jobs PROVE JobInv(j)
    BY DEF JobInv, StageInv, QueueInv, LockInv, Works, RecordInv, Inactive
  <1> QED BY <1>1, <1>2 DEF IInv, ScheduledInv, ResultsComplete, WaitTellsFailure

\* teuthology-suite.
LEMMA schedule_put_step ==
  ASSUME IInv, schedule_put
  PROVE  IInv'
  <1> USE SuiteRunAssumption DEF IInv, TypeInv, schedule_put, killVars
  <1>1. TypeInv'
    <2>1. next \in Jobs /\ next' \in 1..(Last + 1)
      BY DEF Jobs
    <2>2. put' => next' \in Suite
      <3>1. next # Last => next \in Suite /\ next' = next
        BY DEF Suite, Last
      <3>2. next = Last => ~put'
        OBVIOUS
      <3> QED BY <3>1, <3>2
    <2> QED BY <2>1, <2>2
  <1>2. ScheduledInv'
    BY DEF ScheduledInv
  <1>3. ASSUME NEW i \in Jobs PROVE JobInv(i)'
    <2>1. StageInv(i)'
      BY DEF JobInv, StageInv, QueueInv, OfRun, Foreign
    <2>2. QueueInv(i)'
      BY DEF JobInv, QueueInv, Jobs
    <2>3. LockInv(i)'
      BY DEF JobInv, LockInv, Works
    <2>4. RecordInv(i)'
      BY DEF JobInv, RecordInv, Suite, Last
    <2> QED BY <2>1, <2>2, <2>3, <2>4 DEF JobInv
  <1>4. ResultsComplete'
    BY DEF ResultsComplete, Over, ScheduledInv, Last
  <1>5. WaitTellsFailure'
    BY DEF WaitTellsFailure
  <1> QED BY <1>1, <1>2, <1>3, <1>4, <1>5

LEMMA schedule_report_step ==
  ASSUME IInv, schedule_report
  PROVE  IInv'
  <1> USE SuiteRunAssumption DEF IInv, TypeInv, schedule_report, Report, Accepted,
     killVars
  <1>1. TypeInv'
    <2>1. next \in Jobs /\ next' \in 1..(Last + 1)
      BY DEF Jobs, Suite, Last
    <2>2. put' => next' \in Suite
      OBVIOUS
    <2> QED BY <2>1, <2>2 DEF Unfinished
  <1>2. ScheduledInv'
    BY DEF ScheduledInv, Last
  <1>3. ASSUME NEW i \in Jobs PROVE JobInv(i)'
    <2>1. StageInv(i)'
      BY DEF JobInv, StageInv
    <2>2. QueueInv(i)'
      BY DEF JobInv, QueueInv, Jobs
    <2>3. LockInv(i)'
      BY DEF JobInv, LockInv, Works, Inactive
    <2>4. RecordInv(i)'
      BY DEF JobInv, RecordInv, Inactive, Suite
    <2> QED BY <2>1, <2>2, <2>3, <2>4 DEF JobInv
  <1>4. ResultsComplete'
    BY DEF ResultsComplete, Over
  <1>5. WaitTellsFailure'
    BY DEF WaitTellsFailure, ScheduledInv, Suite, Last
  <1> QED BY <1>1, <1>2, <1>3, <1>4, <1>5

\* The dispatcher and the supervisors.
LEMMA reserve_step ==
  ASSUME IInv, NEW j \in Jobs, reserve(j)
  PROVE  IInv'
  <1> USE SuiteRunAssumption DEF IInv, TypeInv, reserve, Stage, waitVars, killVars
  <1>1. TypeInv'
    OBVIOUS
  <1>2. ScheduledInv'
    BY DEF ScheduledInv
  <1>3. ASSUME NEW i \in Jobs PROVE JobInv(i)'
    <2>1. StageInv(i)'
      BY DEF JobInv, StageInv, Before, Head, Ready
    <2>2. QueueInv(i)'
      BY DEF JobInv, QueueInv, Head, Ready
    <2>3. LockInv(i)'
      BY DEF JobInv, LockInv, Works
    <2>4. RecordInv(i)'
      BY DEF JobInv, StageInv, RecordInv, Head, Ready
    <2> QED BY <2>1, <2>2, <2>3, <2>4 DEF JobInv
  <1>4. ResultsComplete'
    BY DEF ResultsComplete, Over, Head, Ready
  <1>5. WaitTellsFailure'
    BY DEF WaitTellsFailure
  <1> QED BY <1>1, <1>2, <1>3, <1>4, <1>5

LEMMA prep_job_step ==
  ASSUME IInv, NEW j \in Jobs, prep_job(j)
  PROVE  IInv'
  <1> USE SuiteRunAssumption DEF IInv, TypeInv, prep_job, Report, Accepted, Stage,
     killVars
  <1>1. TypeInv'
    BY DEF Inactive, Unfinished
  <1>2. ScheduledInv'
    BY DEF ScheduledInv, JobInv, StageInv, QueueInv, OfRun, Last, Foreign
  <1>3. ASSUME NEW i \in Jobs PROVE JobInv(i)'
    <2>1. StageInv(i)'
      BY DEF JobInv, StageInv, Before
    <2>2. QueueInv(i)'
      BY DEF JobInv, StageInv, QueueInv
    <2>3. LockInv(i)'
      BY DEF JobInv, StageInv, LockInv, Works, Before, Inactive
    <2>4. RecordInv(i)'
      BY DEF JobInv, StageInv, RecordInv, Before, Inactive
    <2> QED BY <2>1, <2>2, <2>3, <2>4 DEF JobInv
  <1>4. ResultsComplete'
    BY DEF ResultsComplete, Over, Jobs, Suite, Last
  <1>5. WaitTellsFailure'
    BY DEF WaitTellsFailure, JobInv, RecordInv, Inactive, Jobs, Suite, Last
  <1> QED BY <1>1, <1>2, <1>3, <1>4, <1>5

LEMMA lock_machines_step ==
  ASSUME IInv, NEW j \in Jobs, lock_machines(j)
  PROVE  IInv'
  <1> USE SuiteRunAssumption DEF IInv, TypeInv, lock_machines, Report, Accepted, Stage,
     waitVars, killVars
  <1>1. TypeInv'
    BY DEF Unfinished
  <1>2. ScheduledInv'
    BY DEF ScheduledInv
  <1>3. ASSUME NEW i \in Jobs PROVE JobInv(i)'
    <2>1. StageInv(i)'
      BY DEF JobInv, StageInv, Before
    <2>2. QueueInv(i)'
      BY DEF JobInv, StageInv, QueueInv
    <2>3. LockInv(i)'
      BY DEF JobInv, LockInv, Works, Inactive
    <2>4. RecordInv(i)'
      BY DEF JobInv, RecordInv, Inactive
    <2> QED BY <2>1, <2>2, <2>3, <2>4 DEF JobInv
  <1>4. ResultsComplete'
    <2>1. \A i \in Suite : Over(i) => Over(i)'
      BY DEF Over
    <2> QED BY <2>1 DEF ResultsComplete
  <1>5. WaitTellsFailure'
    BY DEF WaitTellsFailure, JobInv, RecordInv, Inactive
  <1> QED BY <1>1, <1>2, <1>3, <1>4, <1>5

LEMMA supervisor_step ==
  ASSUME IInv, NEW j \in Jobs, supervisor(j)
  PROVE  IInv'
  <1> USE SuiteRunAssumption DEF IInv, TypeInv, supervisor, Report, Accepted, Stage,
     waitVars, killVars
  <1>1. TypeInv'
    BY DEF Unfinished
  <1>2. ScheduledInv'
    BY DEF ScheduledInv
  <1>3. ASSUME NEW i \in Jobs PROVE JobInv(i)'
    <2>1. StageInv(i)'
      BY DEF JobInv, StageInv, Before
    <2>2. QueueInv(i)'
      BY DEF JobInv, QueueInv
    <2>3. LockInv(i)'
      BY DEF JobInv, LockInv, Works, Inactive
    <2>4. RecordInv(i)'
      BY DEF JobInv, RecordInv, Inactive
    <2> QED BY <2>1, <2>2, <2>3, <2>4 DEF JobInv
  <1>4. ResultsComplete'
    BY DEF ResultsComplete, Over
  <1>5. WaitTellsFailure'
    BY DEF WaitTellsFailure, Jobs, Suite, Last
  <1> QED BY <1>1, <1>2, <1>3, <1>4, <1>5

LEMMA run_job_step ==
  ASSUME IInv, NEW j \in Jobs, run_job(j)
  PROVE  IInv'
  <1> USE SuiteRunAssumption DEF IInv, TypeInv, run_job, Report, Accepted, Stage,
     waitVars, killVars
  <1>1. TypeInv'
    BY DEF Unfinished
  <1>2. ScheduledInv'
    BY DEF ScheduledInv
  <1>3. ASSUME NEW i \in Jobs PROVE JobInv(i)'
    <2>1. StageInv(i)'
      BY DEF JobInv, StageInv, Before
    <2>2. QueueInv(i)'
      BY DEF JobInv, QueueInv
    <2>3. LockInv(i)'
      BY DEF JobInv, LockInv, Works, Inactive
    <2>4. RecordInv(i)'
      BY DEF JobInv, RecordInv, Inactive
    <2> QED BY <2>1, <2>2, <2>3, <2>4 DEF JobInv
  <1>4. ResultsComplete'
    BY DEF ResultsComplete, Over
  <1>5. WaitTellsFailure'
    BY DEF WaitTellsFailure, JobInv, RecordInv, Inactive
  <1> QED BY <1>1, <1>2, <1>3, <1>4, <1>5

LEMMA job_end_step ==
  ASSUME IInv, NEW j \in Jobs, job_end(j)
  PROVE  IInv'
  <1> USE SuiteRunAssumption DEF IInv, TypeInv, job_end, Report, Accepted, waitVars,
     killVars
  <1>1. TypeInv'
    BY DEF Inactive
  <1>2. ScheduledInv'
    BY DEF ScheduledInv
  <1>3. ASSUME NEW i \in Jobs PROVE JobInv(i)'
    <2>1. StageInv(i)'
      BY DEF JobInv, StageInv
    <2>2. QueueInv(i)'
      BY DEF JobInv, QueueInv
    <2>3. LockInv(i)'
      BY DEF JobInv, StageInv, LockInv, Works, Before
    <2>4. RecordInv(i)'
      BY DEF JobInv, StageInv, RecordInv, Before
    <2> QED BY <2>1, <2>2, <2>3, <2>4 DEF JobInv
  <1>4. ResultsComplete'
    BY DEF ResultsComplete, Over
  <1>5. WaitTellsFailure'
    BY DEF WaitTellsFailure, JobInv, RecordInv, Inactive
  <1> QED BY <1>1, <1>2, <1>3, <1>4, <1>5

LEMMA supervisor_end_step ==
  ASSUME IInv, NEW j \in Jobs, supervisor_end(j)
  PROVE  IInv'
  <1> USE SuiteRunAssumption DEF IInv, TypeInv, supervisor_end, Report, Accepted, Stage,
     waitVars, killVars
  <1>1. TypeInv'
    BY DEF Inactive
  <1>2. ScheduledInv'
    BY DEF ScheduledInv
  <1>3. ASSUME NEW i \in Jobs PROVE JobInv(i)'
    <2>1. StageInv(i)'
      BY DEF JobInv, StageInv
    <2>2. QueueInv(i)'
      BY DEF JobInv, QueueInv
    <2>3. LockInv(i)'
      BY DEF JobInv, LockInv, Works
    <2>4. RecordInv(i)'
      BY DEF JobInv, RecordInv
    <2> QED BY <2>1, <2>2, <2>3, <2>4 DEF JobInv
  <1>4. ResultsComplete'
    BY DEF ResultsComplete, Over
  <1>5. WaitTellsFailure'
    BY DEF WaitTellsFailure
  <1> QED BY <1>1, <1>2, <1>3, <1>4, <1>5

\* Whoever only reads the records.
LEMMA LookStep ==
  ASSUME IInv, gather_results \/ wait_scan
  PROVE  IInv'
  <1> USE SuiteRunAssumption DEF IInv, TypeInv, jobVars, killVars
  <1>1. TypeInv' /\ ScheduledInv'
    BY DEF gather_results, wait_scan, ScheduledInv
  <1>2. ASSUME NEW i \in Jobs PROVE JobInv(i)'
    BY DEF gather_results, wait_scan, JobInv, StageInv, QueueInv, LockInv, Works,
       RecordInv
  <1>3. ResultsComplete'
    BY DEF gather_results, wait_scan, ResultsComplete, Over, ScheduledInv, JobInv,
       StageInv, RecordInv, Before, unfinished, Unfinished, Inactive, Jobs, OfRun,
       Suite, Last, Foreign
  <1>4. WaitTellsFailure'
    BY DEF gather_results, wait_scan, WaitTellsFailure, JobInv, RecordInv, Records,
       unfinished, Inactive, Jobs, OfRun, Suite, Last, Foreign
  <1> QED BY <1>1, <1>2, <1>3, <1>4

\* kill_run: once it has begun, nothing is said of the records any more.  Until
\* it has unlocked, it changes no record but to delete it ...
LEMMA ReadStep ==
  ASSUME IInv,
         \/ kill_run \/ stats_tube \/ remove_paddles_jobs
         \/ try_delete_jobs \/ find_targets \/ try_mark_run_dead
  PROVE  IInv'
  BY DEF kill_run, stats_tube, remove_paddles_jobs, try_delete_jobs, find_targets,
     try_mark_run_dead, KillGoto, jobVars, waitVars, IInv, TypeInv, ScheduledInv,
     JobInv, StageInv, QueueInv, LockInv, Works, RecordInv, ResultsComplete,
     WaitTellsFailure

LEMMA BeanstalkStep ==
  ASSUME IInv, remove_beanstalk_job \/ close
  PROVE  IInv'
  <1> USE DEF IInv, TypeInv, remove_beanstalk_job, close, Delete, KillGoto, waitVars
  <1>1. TypeInv' /\ ScheduledInv'
    <2>1. queue' \in [Jobs -> {"none", "ready", "held", "buried", "deleted"}]
      OBVIOUS
    <2> QED BY <2>1 DEF ScheduledInv
  <1>2. ASSUME NEW i \in Jobs PROVE JobInv(i)'
    <2>1. queue'[i] = queue[i] \/ queue[i] \in {"ready", "held"}
      BY SuiteRunAssumption DEF Head, Ready
    <2>2. /\ UNCHANGED <<record, stage, child, locked, next, put>>
          /\ kpc # "idle" /\ kpc' # "idle" /\ kpc \notin {"report", "done"}
      OBVIOUS
    <2>3. queue'[i] \in {"none", "ready", "held"} => queue[i] \in {"none", "ready", "held"}
      BY SuiteRunAssumption DEF Head, Ready
    <2> QED BY <2>1, <2>2, <2>3 DEF JobInv, StageInv, QueueInv, LockInv, Works,
       RecordInv
  <1> QED BY <1>1, <1>2 DEF ResultsComplete, WaitTellsFailure

LEMMA DeleteStep ==
  ASSUME IInv, delete_run \/ delete_job
  PROVE  IInv'
  <1> USE DEF IInv, TypeInv, delete_run, delete_job, Forget, KillGoto, waitVars
  <1>1. TypeInv' /\ ScheduledInv'
    BY DEF ScheduledInv
  <1>2. ASSUME NEW i \in Jobs PROVE JobInv(i)'
    BY DEF JobInv, StageInv, QueueInv, LockInv, Works, RecordInv, Inactive
  <1> QED BY <1>1, <1>2 DEF ResultsComplete, WaitTellsFailure

\* ... it kills what there is ...
LEMMA KilledWas ==
  ASSUME NEW killed \in SUBSET ToKill, NEW j \in Jobs
  PROVE  /\ <<"supervisor", j>> \in killed => stage[j] \in {"start", "reimage", "watch"}
         /\ <<"results", Last>> \in killed => results = "waiting"
  <1>1. killed \subseteq Processes
    BY DEF ToKill
  <1> QED BY <1>1 DEF Processes

LEMMA kill_processes_step ==
  ASSUME IInv, kill_processes
  PROVE  IInv'
  <1> USE DEF IInv, TypeInv
  <1> PICK killed \in SUBSET ToKill :
        /\ stage' = [j \in Jobs |-> IF <<"supervisor", j>> \in killed THEN "gone" ELSE stage[j]]
        /\ child' = [j \in Jobs |-> IF <<"job", j>> \in killed THEN "gone" ELSE child[j]]
        /\ results' = IF <<"results", Last>> \in killed THEN "killed" ELSE results
    BY DEF kill_processes
  <1>1. /\ kpc = "kill_processes" /\ kpc' \in {"find_targets", "get_jobs", "failed"}
        /\ UNCHANGED <<queue, record, pid, locked, next, put, wait, exit_code>>
    BY DEF kill_processes
  <1>2. TypeInv'
    BY <1>1
  <1>3. ScheduledInv'
    <2>1. results' # "none" => results # "none"
      <3>1. Last \in Jobs
        BY SuiteRunAssumption DEF Jobs, Last
      <3> QED BY <3>1, KilledWas
    <2> QED BY <1>1, <2>1 DEF ScheduledInv
  <1>4. ASSUME NEW i \in Jobs PROVE JobInv(i)'
    <2>1. stage'[i] = stage[i] \/ (stage'[i] = "gone" /\ stage[i] \in {"start", "reimage", "watch"})
      BY KilledWas
    <2>2. child'[i] = child[i] \/ child'[i] = "gone"
      OBVIOUS
    <2> QED BY <1>1, <2>1, <2>2 DEF JobInv, StageInv, QueueInv, LockInv, Works,
       RecordInv, Before
  <1> QED BY <1>1, <1>2, <1>3, <1>4 DEF ResultsComplete, WaitTellsFailure

\* ... it unlocks the nodes of jobs that are over, and reports after that.
LEMMA UnlockStep ==
  ASSUME IInv, unlock_safe \/ report_dead
  PROVE  IInv'
  <1> USE DEF IInv, TypeInv, unlock_safe, report_dead, Report, Accepted, MayUnlock,
     KillGoto, waitVars
  <1>1. TypeInv' /\ ScheduledInv'
    BY DEF ScheduledInv, Inactive
  <1>2. ASSUME NEW i \in Jobs PROVE JobInv(i)'
    BY DEF JobInv, StageInv, QueueInv, LockInv, Works, RecordInv
  <1> QED BY <1>1, <1>2 DEF ResultsComplete, WaitTellsFailure

LEMMA NextIInv == IInv /\ [Next]_vars => IInv'
  <1> SUFFICES ASSUME IInv, [Next]_vars PROVE IInv' OBVIOUS
  <1>1. CASE UNCHANGED vars
    BY <1>1 DEF vars, jobVars, waitVars, killVars, IInv, TypeInv, ScheduledInv, JobInv,
       StageInv, QueueInv, LockInv, Works, RecordInv, ResultsComplete, Over,
       WaitTellsFailure
  <1>2. CASE Scheduling \/ gather_results \/ wait_scan \/ kill_run \/ KillStep
    BY <1>2, schedule_put_step, schedule_report_step, LookStep, ReadStep, BeanstalkStep,
       DeleteStep, kill_processes_step, UnlockStep DEF Scheduling, KillStep
  <1>3. CASE \E j \in Jobs : JobStep(j)
    BY <1>3, reserve_step, prep_job_step, lock_machines_step, supervisor_step,
       run_job_step, job_end_step, supervisor_end_step DEF JobStep
  <1> QED BY <1>1, <1>2, <1>3 DEF Next

LEMMA IInvAlways == Spec => []IInv
  BY InitIInv, NextIInv, PTL DEF Spec

-----------------------------------------------------------------------------
\* kill_run unlocks nodes by what it has read long before; while a supervisor
\* or a job works they stay locked.
THEOREM HoldsNodesHolds == Spec => []HoldsNodes
  <1>1. IInv => HoldsNodes
    BY DEF IInv, JobInv, LockInv, Works, HoldsNodes
  <1> QED BY <1>1, IInvAlways, PTL

\* results() mails only a run whose jobs nobody handles any more.
THEOREM ResultsCompleteHolds == Spec => []ResultsComplete
  <1>1. IInv => ResultsComplete
    BY DEF IInv
  <1> QED BY <1>1, IInvAlways, PTL

\* `teuthology-suite --wait` ends with 0 only when every job has passed.
THEOREM WaitTellsFailureHolds == Spec => []WaitTellsFailure
  <1>1. IInv => WaitTellsFailure
    BY DEF IInv
  <1> QED BY <1>1, IInvAlways, PTL
=============================================================================
