---------------------------- MODULE JobLifecycle ----------------------------
(***************************************************************************)
(* The life of the jobs of one queue: the dispatcher, the supervisors, the *)
(* job processes, teuthology-kill and the users of teuthology-lock run     *)
(* concurrently and meet in the lock server and the results server.        *)
(***************************************************************************)
EXTENDS Dispatcher

vars == <<paddlesVars, unlockVars, killVars, supervisorVars, dispatcherVars>>

Init == /\ PaddlesInit /\ UnlockInit /\ KillInit
        /\ SupervisorInit /\ DispatcherInit

Unlocking(c) ==
  /\ UnlockStep(c)
  /\ UNCHANGED <<killVars, supervisorVars, dispatcherVars>>

Supervising(j) ==
  \/ SupervisorStep(j) /\ UNCHANGED dispatcherVars
  \/ KillStep(Self(j)) /\ UNCHANGED <<loopVars, dispatcherVars>>
  \/ SupervisorAlive(j) /\ Unlocking(Self(j))

Running(j) == JobStep(j) /\ UNCHANGED dispatcherVars

Dispatching ==
  \/ DispatcherStep
  \/ dpc # "exited" /\ \E j \in Jobs : Unlocking(<<"dispatcher", j>>)

Killing(j) ==
  \/ teuthology_kill(j) /\ UNCHANGED <<loopVars, dispatcherVars>>
  \/ KillStep(<<"kill", j>>) /\ UNCHANGED <<loopVars, dispatcherVars>>
  \/ kpc[<<"kill", j>>] = "unlock_safe" /\ Unlocking(<<"kill", j>>)

teuthology_lock ==
  /\ \E n \in Nodes : person_lock(n) \/ person_unlock(n)
  /\ UNCHANGED <<unlockVars, killVars, supervisorVars, dispatcherVars>>

Next ==
  \/ Dispatching \/ DispatcherFault \/ teuthology_lock
  \/ \E j \in Jobs : Supervising(j) \/ Running(j) \/ Killing(j)

Spec == Init /\ [][Next]_vars

\* Each process takes its next step: the dispatcher's loop, a supervisor with
\* its watchdog, a job process.  Faults and what people do need not happen.
Fairness ==
  /\ WF_vars(Dispatching)
  /\ \A j \in Jobs : WF_vars(Supervising(j)) /\ WF_vars(Running(j))

FairSpec == Spec /\ Fairness

-----------------------------------------------------------------------------
TypeOK == /\ PaddlesTypeOK /\ UnlockTypeOK /\ KillTypeOK
          /\ SupervisorTypeOK /\ DispatcherTypeOK

(* A job is started once: burying it before anything else keeps a job that *)
(* has a supervisor out of the queue, even when the dispatcher is stopped  *)
(* and started again.                                                      *)
StartedOnce ==
  \A j \in Jobs : spc[j] # "none" => queue[j] \in {"buried", "deleted"}

\* A supervisor that reimages or is about to start the job, and a job process
\* nobody has told to end, work on the job's targets; a greenlet that reimages
\* a node works on it, also when reimage_machines has raised.
Working(j) == \/ spc[j] \in {"reimage", "reimaging", "joining", "reimaged", "spawn"}
              \/ child[j] \in {"starting", "running"}
WorkedOn(j) == Imaging(j) \cup IF Working(j) THEN targets[j] ELSE {}

(* docs/node_health.rst: "the supervisor is what owns the nodes for the    *)
(* duration of a job": a node somebody works on for a job is locked for     *)
(* this job and carries its description.                                   *)
HoldsTargets ==
  \A j \in Jobs : \A n \in WorkedOn(j) : holder[n] = j /\ description[n] = j

(* unlock_targets, docstring: "Unlock machines only if locked and          *)
(* description matches."  No unlock of one job is on its way to a node     *)
(* that another job has locked: the checks of unlock_targets and           *)
(* unlock_one_safe still hold when the PUT is sent.                        *)
NoForeignUnlock ==
  \A c \in Callers, n \in Nodes :
    unlocking[c][n] = "unlock_one" => holder[n] \in {JobOf(c), Free}

(* While a node stays locked its description stays: the description is     *)
(* what unlock_targets and find_stale_locks know the job by.               *)
DescriptionKept ==
  [][\A n \in Nodes :
       holder[n] # Free /\ holder'[n] = holder[n] => description'[n] = description[n]]_vars

(* docs/node_health.rst: "Nodes are always marked down before they're      *)
(* unlocked, so another job can't grab one in the meantime."               *)
MarkedDownWhileLocked ==
  [][\A n \in down' \ down : holder[n] # Free]_vars

(* lock_machines, comment: "make sure there are machines for non-automated *)
(* jobs to run": when machines are locked for a scheduled job, Reserved    *)
(* others are free.  They are counted in one request and locked in another,*)
(* and may be marked down in between.                                      *)
ReserveKept ==
  [][\A n \in Nodes : holder[n] = Free /\ holder'[n] \in Scheduled =>
       Cardinality(Available') >= Reserved]_vars

\* A job nobody works for any more.
Over(j) ==
  /\ queue[j] \in {"buried", "deleted"} /\ djob # j
  /\ ~SupervisorAlive(j) /\ ~ChildAlive(j)

\* query.py: locked nodes with a job description whose job is not active.
find_stale_locks ==
  {n \in Nodes : /\ holder[n] # Free
                 /\ description[n] \in Jobs
                 /\ status[description[n]] \in Inactive}

(* find_stale_locks, docstring: "nodes that were locked to run a job, but  *)
(* the job is no longer running.  The purpose of this is to enable us to   *)
(* find nodes that were left locked".  Not those of a supervisor that the  *)
(* lock server did not answer after a failed reimage: then nobody reports  *)
(* the job dead (the fault "server").                                      *)
StaleLocksFound ==
  \A n \in Nodes, j \in Jobs : holder[n] = j /\ Over(j) => n \in find_stale_locks

(* docs/COMPONENTS.rst: "After the execution is completed (ie teuthology   *)
(* process exits), supervisor unlocks the target machines."  It does so    *)
(* when the lock server answers (without the fault "server").              *)
UnlocksAfterExecution ==
  \A j \in Jobs \ KeepLocked :
    ~SupervisorAlive(j) /\ child[j] = "ended" => \A n \in Nodes : holder[n] # j

(* The same when the lock server does not answer: what the supervisor of a *)
(* job that was executed leaves locked is found, as it has told paddles    *)
(* that the job is over before it turns to its nodes (supervisor.py,       *)
(* "Let's make sure that paddles knows the job is finished").              *)
(* Not when the watchdog kills the pid paddles has while it is still the   *)
(* supervisor's own, and the job dies unreported ("timeout" and "die").     *)
ExecutedFound ==
  \A n \in Nodes, j \in Jobs :
    holder[n] = j /\ ~SupervisorAlive(j) /\ child[j] = "ended" => n \in find_stale_locks

(* The lab's promise: module NodeOwnership.                                *)
Ownership == INSTANCE NodeOwnership WITH
  Takers  <- Jobs \cup {Person},
  owner   <- holder,
  working <- [j \in Jobs |-> WorkedOn(j)]

(* The processes keep the promise.                                         *)
ImplementsOwnership == Ownership!Spec

\* A job waits for machines, and there are too few of them.
TooFewMachines ==
  /\ dpc \in {"list", "lock_many"}
  /\ Cardinality(Available) < Need[djob] + IF djob \in Scheduled THEN Reserved ELSE 0

(* Every job ends with a status results() and the users wait for, unless   *)
(* too many machines are down, kept or left locked: then one waits for     *)
(* them, and those in the queue behind it do too.                          *)
EveryJobEnds == \A j \in Jobs : <>(status[j] \in Inactive) \/ <>[]TooFewMachines

(* As long as the lock server answers, every lock is given back by the     *)
(* dispatcher or the supervisor; what the expiry of a job or a failed lock *)
(* request leaves behind is found by find_stale_locks, and that only of a  *)
(* job that was never run.                                                 *)
NodesReturned ==
  \A n \in Nodes, j \in Jobs \ KeepLocked :
    holder[n] = j ~> \/ holder[n] # j
                     \/ n \in find_stale_locks /\ child[j] = "none"
=============================================================================
