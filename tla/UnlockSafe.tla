----------------------------- MODULE UnlockSafe -----------------------------
(***************************************************************************)
(* lock/ops.py unlock_safe: one greenlet per node (module Parallel), each  *)
(* running unlock_one_safe: read the node's status, ask whether the job in *)
(* its description is active, then unlock_one: stop the node and send the  *)
(* PUT that unlocks it.  The three requests are separate steps; whatever   *)
(* else talks to the lock server runs between them.  Each is tried for a   *)
(* while, and raises when the server has not answered by then.             *)
(***************************************************************************)
EXTENDS Paddles

VARIABLES
  unlocking, \* per caller and node, the step its greenlet is at
  seen       \* per caller and node, the description it read

unlockVars == <<unlocking, seen>>

\* Who calls unlock_safe on behalf of which job: the job's supervisor, the
\* dispatcher that cannot start one, or somebody's teuthology-kill.
Callers == {"supervisor", "dispatcher", "kill"} \X Jobs
JobOf(c) == c[2]
Steps == {"idle", "get_status", "node_active_job", "unlock_one", "failed"}

UnlockTypeOK ==
  /\ unlocking \in [Callers -> [Nodes -> Steps]]
  /\ seen \in [Callers -> [Nodes -> Descriptions]]

Idle == [n \in Nodes |-> "idle"]

UnlockInit ==
  /\ unlocking = [c \in Callers |-> Idle]
  /\ seen = [c \in Callers |-> [n \in Nodes |-> "none"]]

\* unlock_safe(names, ...) spawns a greenlet for every name.  One that is left
\* of an earlier call goes on, or is taken over by a new one for its node.
unlock_safe(c, names) ==
  /\ unlocking' = [unlocking EXCEPT ![c] =
                     [n \in Nodes |-> IF n \in names THEN "get_status"
                                      ELSE IF @[n] = "failed" THEN "idle" ELSE @[n]]]
  /\ UNCHANGED seen

\* ... and its with block ends when they have all ended, or raises with the
\* first that has failed: the others are not waited for, and go on.
Unlocked(c)     == unlocking[c] = Idle
UnlockFailed(c) == \E n \in Nodes : unlocking[c][n] = "failed"

UnlockRaises(c) ==
  /\ UnlockFailed(c)
  /\ unlocking' = [unlocking EXCEPT ![c] =
                     [n \in Nodes |-> IF @[n] = "failed" THEN "idle" ELSE @[n]]]
  /\ UNCHANGED seen

\* The greenlets of a process end with it.
DropGreenlets(callers) ==
  /\ unlocking' = [c \in Callers |-> IF c \in callers THEN Idle ELSE unlocking[c]]
  /\ UNCHANGED seen

-----------------------------------------------------------------------------
(* unlock_one_safe for node n.                                             *)

\* A request of the greenlet for n is out of tries.
CanFail(c, n) ==
  /\ "server" \in Faults
  /\ \/ "straggle" \in Faults
     \/ \A m \in Nodes \ {n} : unlocking[c][m] \in {"idle", "failed"}

Fail(c, n) ==
  /\ CanFail(c, n)
  /\ unlocking' = [unlocking EXCEPT ![c][n] = "failed"]
  /\ UNCHANGED seen

get_status(c, n) ==
  /\ unlocking[c][n] = "get_status"
  /\ \/ /\ holder[n] = Free
        /\ unlocking' = [unlocking EXCEPT ![c][n] = "idle"]
        /\ UNCHANGED seen
     \/ /\ holder[n] # Free
        /\ unlocking' = [unlocking EXCEPT ![c][n] = "node_active_job"]
        /\ seen' = [seen EXCEPT ![c][n] = description[n]]
     \/ Fail(c, n)
  /\ UNCHANGED paddlesVars

\* A description without '/' counts as an active job, one that never matches
\* ours; a job that paddles knows to have ended leaves the node to anybody.
MayUnlock(c, d) ==
  /\ d \in Jobs
  /\ status[d] \in Inactive \/ d = JobOf(c)

node_active_job(c, n) ==
  /\ unlocking[c][n] = "node_active_job"
  /\ \/ /\ unlocking' = [unlocking EXCEPT ![c][n] =
                            IF MayUnlock(c, seen[c][n]) THEN "unlock_one" ELSE "idle"]
        /\ UNCHANGED seen
     \/ Fail(c, n)
  /\ UNCHANGED paddlesVars

\* Mutant of unlock_one: its loop goes on after a response.
unlock_one_again(c, n) ==
  /\ unlocking[c][n] = "unlock_one"
  /\ UnlockNode(JobOf(c), n, seen[c][n])
  /\ unlocking' \in {unlocking, [unlocking EXCEPT ![c][n] = "idle"]}
  /\ UNCHANGED <<jobVars, seen>>

\* unlock_one stops the node, which takes time, then sends the PUT.  A 403 and
\* a success both end the loop; a ConnectionError sends it once more, also
\* when only the response was lost.
unlock_one(c, n) ==
  /\ unlocking[c][n] = "unlock_one"
  /\ \/ /\ UnlockNode(JobOf(c), n, seen[c][n])
        /\ \/ unlocking' = [unlocking EXCEPT ![c][n] = "idle"]
           \/ "retry" \in Faults /\ UNCHANGED unlocking
        /\ UNCHANGED seen
     \/ Fail(c, n) /\ (UNCHANGED nodeVars \/ UnlockNode(JobOf(c), n, seen[c][n]))
  /\ UNCHANGED jobVars

UnlockStep(c) ==
  \E n \in Nodes : get_status(c, n) \/ node_active_job(c, n) \/ unlock_one(c, n)
=============================================================================
