------------------------------ MODULE Pelagos -------------------------------
(***************************************************************************)
(* provision/pelagos.py: Pelagos.create, which starts a provisioning task  *)
(* and polls it.  It can neither cancel a task nor does it look at what    *)
(* was installed.                                                          *)
(***************************************************************************)
EXTENDS Machine

VARIABLES
  ended,    \* how the current call's task has ended
  abandoned \* history: a task of before was under way when the current call began

pelagos == <<ended, abandoned>>

PelagosSteps == {"poll", "cancel_task", "judge", "park"}

PelagosTypeOK == ended \in {"no", "ok", "error", "lost"} /\ abandoned \in BOOLEAN

PelagosInit == ended = "no" /\ abandoned = FALSE

AtPelagos(step) == At("pelagos", step)

\* POST node/provision; without a location there is nothing to cancel.
provision ==
  /\ AtPelagos("create")
  /\ ended' = "no"
  /\ \/ Image[want] = Nothing /\ Goto("refused") /\ UNCHANGED <<deploys, boot>>
     \/ /\ Image[want] # Nothing
        /\ Accepted(Image[want]) /\ boot' = "installer"
        /\ Goto("poll") \/ (Fault("request") /\ GotoMissed("failed"))
     \/ Fault("request") /\ GotoMissed("failed") /\ UNCHANGED <<deploys, boot>>
  /\ UNCHANGED <<os, imaged, abandoned>>

\* is_task_active; it does not raise for a bad status, but for a lost answer.
is_task_active ==
  /\ AtPelagos("poll")
  /\ \/ ended # "no" /\ Goto("judge")
     \/ Fault("timeout") /\ Goto("cancel_task")
     \/ Fault("request") /\ GotoMissed("cancel_task")
  /\ UNCHANGED <<node, pelagos>>

\* cancel_deploy_task returns without doing anything.
cancel_nothing ==
  /\ AtPelagos("cancel_task")
  /\ Goto("failed")
  /\ UNCHANGED <<node, pelagos>>

\* The last answer must have been a 200.
judge ==
  /\ AtPelagos("judge")
  /\ Goto(IF ended = "ok" THEN "record" ELSE "failed")
  /\ UNCHANGED <<node, pelagos>>

\* park_node does not wait for the maintenance image.
park_node ==
  /\ AtPelagos("park")
  /\ \/ /\ deploys' = deploys \cup {[call |-> 0, os |-> Nothing]} /\ boot' = "installer"
        /\ Goto("idle") \/ (Fault("request") /\ GotoMissed("failed"))
     \/ Fault("request") /\ GotoMissed("failed") /\ UNCHANGED <<deploys, boot>>
  /\ UNCHANGED <<os, imaged, pelagos>>

PelagosCall == provision \/ is_task_active \/ cancel_nothing \/ judge \/ park_node

\* A task ends well, or not, in any order.
PelagosServer ==
  /\ Uses("pelagos")
  /\ \E d \in deploys :
       \/ Written(d) /\ ended' = IF d.call = calls THEN "ok" ELSE ended
       \/ /\ Fault("install")
          /\ deploys' = deploys \ {d} /\ os' = Nothing /\ boot' = "hung"
          /\ ended' = IF d.call = calls THEN "error" ELSE ended
          /\ UNCHANGED imaged
  /\ UNCHANGED <<inventory, request, pc, missed, abandoned>>
=============================================================================
