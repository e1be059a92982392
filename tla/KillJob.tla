------------------------------ MODULE KillJob -------------------------------
(***************************************************************************)
(* teuthology/kill.py kill_job, as the supervisor's watchdog and the       *)
(* teuthology-kill command call it: find the job's process in paddles,     *)
(* send it a SIGTERM, report the job dead, unlock the targets paddles      *)
(* knows of.                                                               *)
(***************************************************************************)
EXTENDS UnlockSafe

VARIABLES
  spc,   \* per job, where its supervisor process is
  child, \* per job, the state of the job process (the teuthology command)
  kpc,   \* per caller, where its kill_job is
  kpid   \* per caller, the process id kill_job read from paddles

killVars == <<kpc, kpid>>

\* kill_job runs in the supervisor (watchdog) and in teuthology-kill.
Killers == {"supervisor", "kill"} \X Jobs
KillSteps == {"idle", "get_jobs", "kill_processes", "push", "find_targets",
              "unlock_safe", "returned", "failed"}
ChildStates == {"none", "starting", "running", "dying", "ended"}

KillTypeOK ==
  /\ child \in [Jobs -> ChildStates]
  /\ kpc \in [Killers -> KillSteps]
  /\ kpid \in [Killers -> Pids]

KillInit ==
  /\ child = [j \in Jobs |-> "none"]
  /\ kpc = [c \in Killers |-> "idle"]
  /\ kpid = [c \in Killers |-> "none"]

SupervisorAlive(j) == spc[j] \notin {"none", "exited", "killed"}
ChildAlive(j)      == child[j] \in {"starting", "running", "dying"}
Alive(j) == {p \in {"supervisor", "job"} :
               \/ p = "supervisor" /\ SupervisorAlive(j)
               \/ p = "job" /\ ChildAlive(j)}

-----------------------------------------------------------------------------
\* get_jobs: the pid in the job's record, which may be older than the process.
kill_get_jobs(c) ==
  /\ kpc[c] = "get_jobs"
  /\ \/ /\ kpc' = [kpc EXCEPT ![c] = "kill_processes"]
        /\ kpid' = [kpid EXCEPT ![c] = pid[JobOf(c)]]
     \/ /\ "server" \in Faults
        /\ kpc' = [kpc EXCEPT ![c] = "failed"]
        /\ UNCHANGED kpid
  /\ UNCHANGED <<paddlesVars, unlockVars, spc, child>>

\* Mutant of ToKill: every process of the job is killed, the caller as well.
ToKill_all(c) == Alive(JobOf(c))

\* With a pid, only that process; without one, every process with the job in
\* its command line (find_pids), except those of the caller's own program.
ToKill(c) ==
  IF kpid[c] = "none"
  THEN Alive(JobOf(c)) \ (IF c[1] = "supervisor" THEN {"supervisor"} ELSE {})
  ELSE Alive(JobOf(c)) \cap {kpid[c]}

\* A supervisor that gets a SIGTERM is gone, in the middle of whatever it did;
\* a job process may first run the handlers of exit.py.
SigTerm(j, procs) ==
  /\ spc' = IF "supervisor" \in procs THEN [spc EXCEPT ![j] = "killed"] ELSE spc
  /\ \/ "job" \notin procs /\ UNCHANGED child
     \/ "job" \in procs /\ child' = [child EXCEPT ![j] = "ended"]
     \/ "job" \in procs /\ "linger" \in Faults /\ child' = [child EXCEPT ![j] = "dying"]
  /\ IF "supervisor" \in procs THEN DropGreenlets({<<"supervisor", j>>})
                               ELSE UNCHANGED unlockVars

\* Mutant of kill_processes: kill_job goes on although processes survived.
kill_processes_regardless(c) ==
  /\ kpc[c] = "kill_processes"
  /\ \E killed \in SUBSET ToKill(c) :
       /\ killed = ToKill(c) \/ "survive" \in Faults
       /\ SigTerm(JobOf(c), killed)
       /\ kpc' = [kpc EXCEPT ![c] = IF c[1] = "supervisor" /\ "supervisor" \in killed
                                    THEN "idle" ELSE "push"]
  /\ UNCHANGED <<paddlesVars, kpid>>

\* Processes that kill(1) fails for are survivors, and kill_job returns early.
kill_processes(c) ==
  /\ kpc[c] = "kill_processes"
  /\ \E killed \in SUBSET ToKill(c) :
       /\ killed = ToKill(c) \/ "survive" \in Faults
       /\ SigTerm(JobOf(c), killed)
       /\ kpc' = [k \in Killers |->
                    IF k = <<"supervisor", JobOf(c)>> /\ "supervisor" \in killed
                    THEN "idle"
                    ELSE IF k # c THEN kpc[k]
                    ELSE IF killed = ToKill(c) THEN "push" ELSE "failed"]
  /\ UNCHANGED <<paddlesVars, kpid>>

\* The watchdog's first kill_job has skip_unlock=True.
SkipUnlock(c) == c[1] = "supervisor" /\ spc[JobOf(c)] = "kill_only"

kill_push(c) ==
  /\ kpc[c] = "push"
  /\ \/ /\ PushStatus(JobOf(c), "dead")
        /\ kpc' = [kpc EXCEPT ![c] = IF SkipUnlock(c) THEN "returned" ELSE "find_targets"]
     \/ /\ PushRaises
        /\ kpc' = [kpc EXCEPT ![c] = "failed"]
  /\ UNCHANGED <<nodeVars, unlockVars, spc, child, kpid>>

\* find_targets asks paddles once more, for the targets.
kill_find_targets(c) ==
  /\ kpc[c] = "find_targets"
  /\ \/ /\ unlock_safe(c, job_targets[JobOf(c)])
        /\ kpc' = [kpc EXCEPT ![c] = "unlock_safe"]
     \/ /\ "server" \in Faults
        /\ kpc' = [kpc EXCEPT ![c] = "failed"]
        /\ UNCHANGED unlockVars
  /\ UNCHANGED <<paddlesVars, spc, child, kpid>>

kill_return(c) ==
  /\ kpc[c] = "unlock_safe"
  /\ Unlocked(c)
  /\ kpc' = [kpc EXCEPT ![c] = "returned"]
  /\ UNCHANGED <<paddlesVars, unlockVars, spc, child, kpid>>

kill_raises(c) ==
  /\ kpc[c] = "unlock_safe"
  /\ UnlockRaises(c)
  /\ kpc' = [kpc EXCEPT ![c] = "failed"]
  /\ UNCHANGED <<paddlesVars, spc, child, kpid>>

KillStep(c) == \/ kill_get_jobs(c) \/ kill_processes(c) \/ kill_push(c)
               \/ kill_find_targets(c) \/ kill_return(c) \/ kill_raises(c)

\* teuthology-kill -r <run> -j <job>, at most once per job.
teuthology_kill(j) ==
  /\ "kill" \in Faults
  /\ kpc[<<"kill", j>>] = "idle"
  /\ kpc' = [kpc EXCEPT ![<<"kill", j>>] = "get_jobs"]
  /\ UNCHANGED <<paddlesVars, unlockVars, spc, child, kpid>>
=============================================================================
