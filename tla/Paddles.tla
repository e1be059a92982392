------------------------------- MODULE Paddles ------------------------------
(***************************************************************************)
(* The lock server and results server (paddles) as src/ uses it: the node  *)
(* records teuthology/lock/ops.py and query.py read and change, and the    *)
(* job records teuthology/report.py pushes to.  The server itself is not   *)
(* under src/; what its requests do is taken from how their callers use    *)
(* them.                                                                   *)
(***************************************************************************)
EXTENDS Naturals, FiniteSets

CONSTANTS
  Jobs,     \* the jobs of the queue; a job also stands for its archive path,
            \* which is the description its nodes are locked with
  Nodes,    \* the nodes of one machine type
  Owner,    \* the owner of each job, which the server knows a lock by
  Free,     \* the holder of an unlocked node
  Person,   \* somebody who locks nodes with teuthology-lock, and what their
            \* description of such a lock says: it has no '/'
  Faults    \* which of FaultKinds the environment may produce in this run

FaultKinds == {
  "push",     \* try_push_job_info swallows a RequestException: nothing stored
  "report",   \* report_job runs out of tries: MaxWhileTries reaches the caller
  "retry",    \* an unlock PUT is applied, its response lost, and it is retried
  "prep",     \* prep_job cannot find or fetch a branch, or raises
  "expire",   \* the job's expiration date passes
  "lock",     \* lock_many raises
  "write",    \* the job's configuration cannot be written
  "spawn",    \* the supervisor cannot be started
  "delete",   \* beanstalk refuses to delete the job
  "loopexit", \* gevent raises LoopExit in the dispatcher
  "crash",    \* the dispatcher gets a SIGTERM and is started again
  "reimage",  \* reimaging fails
  "streak",   \* a node's last ten jobs all failed to reimage
  "ansible",  \* ansible reports a failure that means the node is broken
  "die",      \* the job process ends without reporting a status
  "timeout",  \* the job runs longer than max_job_time
  "survive",  \* kill(1) fails for a process
  "linger",   \* a process that got a SIGTERM takes its time to end
  "server",   \* paddles does not answer a query or an unlock PUT for as long
              \* as it is tried: MaxWhileTries, or a ConnectionError
  "straggle", \* a greenlet of a `with parallel()` raises while others still
              \* run: they go on when the block has raised
  "person",   \* somebody locks and unlocks free nodes with teuthology-lock
  "kill"}     \* somebody runs teuthology-kill for a job

Statuses     == {"queued", "waiting", "running", "pass", "fail", "dead"}
Inactive     == {"pass", "fail", "dead"}
Descriptions == Jobs \cup {Person, "none", "reimage failed", "ansible failure"}
Pids         == {"none", "supervisor", "job"}

ASSUME JobsAssumption ==
  /\ Free \notin Jobs /\ Person \notin Jobs /\ Person # Free
  /\ Jobs \cap {"none", "reimage failed", "ansible failure"} = {}
ASSUME NodesAssumption  == IsFiniteSet(Nodes)
ASSUME FaultsAssumption == Faults \subseteq FaultKinds

VARIABLES
  down,        \* the nodes that are marked down
  holder,      \* the job, or person, whose request locked a node; of a job
               \* the server itself only keeps its owner, as locked_by
  description, \* the description of a node
  status,      \* the status of a job
  pid,         \* whose process id a job's record holds
  job_targets  \* the targets a job's record holds

nodeVars    == <<down, holder, description>>
jobVars     == <<status, pid, job_targets>>
paddlesVars == <<nodeVars, jobVars>>

PaddlesTypeOK ==
  /\ down \subseteq Nodes
  /\ holder \in [Nodes -> Jobs \cup {Free, Person}]
  /\ description \in [Nodes -> Descriptions]
  /\ status \in [Jobs -> Statuses]
  /\ pid \in [Jobs -> Pids]
  /\ job_targets \in [Jobs -> SUBSET Nodes]

PaddlesInit ==
  /\ down = {}
  /\ holder = [n \in Nodes |-> Free]
  /\ description = [n \in Nodes |-> "none"]
  /\ status = [j \in Jobs |-> "queued"]
  /\ pid = [j \in Jobs |-> "none"]
  /\ job_targets = [j \in Jobs |-> {}]

-----------------------------------------------------------------------------
(* Node requests.                                                          *)

Available == {n \in Nodes \ down : holder[n] = Free}   \* ?up=1&locked=0

\* POST nodes/lock_many/: the server locks all it is asked for, or answers 503.
LockNodes(j, S) ==
  /\ S \subseteq Available
  /\ holder' = [n \in Nodes |-> IF n \in S THEN j ELSE holder[n]]
  /\ description' = [n \in Nodes |-> IF n \in S THEN j ELSE description[n]]
  /\ UNCHANGED down

\* PUT nodes/<n>/lock/ with locked=False, as the owner of job j: refused unless
\* the node is locked by that owner; d is the description in the request.
UnlockNode(j, n, d) ==
  /\ IF holder[n] \in Jobs /\ Owner[holder[n]] = Owner[j]
     THEN /\ holder' = [holder EXCEPT ![n] = Free]
          /\ description' = [description EXCEPT ![n] = d]
     ELSE UNCHANGED <<holder, description>>
  /\ UNCHANGED down

\* PUT nodes/<n>/: update_lock(n, description=d, status='down').
MarkDown(n, d) ==
  /\ down' = down \cup {n}
  /\ description' = [description EXCEPT ![n] = d]
  /\ UNCHANGED holder

\* update_lock(n, description=d): the other fields are not in the request.
Describe(n, d) ==
  /\ description' = [description EXCEPT ![n] = d]
  /\ UNCHANGED <<down, holder>>

\* teuthology-lock --lock n, and --unlock n: by somebody who owns no job.  The
\* request to unlock has description=None, as unlock_one is given no other.
person_lock(n) ==
  /\ "person" \in Faults
  /\ n \in Available
  /\ holder' = [holder EXCEPT ![n] = Person]
  /\ description' = [description EXCEPT ![n] = Person]
  /\ UNCHANGED <<down, jobVars>>

person_unlock(n) ==
  /\ holder[n] = Person
  /\ holder' = [holder EXCEPT ![n] = Free]
  /\ description' = [description EXCEPT ![n] = "none"]
  /\ UNCHANGED <<down, jobVars>>

-----------------------------------------------------------------------------
(* Job requests.                                                           *)

\* "if it was a pass or fail it will have already been reported to paddles. In
\* that case paddles ignores the 'dead' status" (supervisor.py).
Accepted(old, new) == IF new = "dead" /\ old \in {"pass", "fail"} THEN old ELSE new

\* try_push_job_info of job j with a status s, a process id p and targets t:
\* recorded, or lost with a RequestException that is only logged.
Push(j, s, p, t) ==
  \/ /\ status' = [status EXCEPT ![j] = Accepted(@, s)]
     /\ pid' = [pid EXCEPT ![j] = p]
     /\ job_targets' = [job_targets EXCEPT ![j] = t]
  \/ "push" \in Faults /\ UNCHANGED jobVars

PushStatus(j, s) == Push(j, s, pid[j], job_targets[j])

\* try_push_job_info raises: MaxWhileTries is no RequestException.
PushRaises == "report" \in Faults /\ UNCHANGED jobVars
=============================================================================
