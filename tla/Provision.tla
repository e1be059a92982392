----------------------------- MODULE Provision ------------------------------
(***************************************************************************)
(* Reimaging a node, again and again: ops.reimage_machines (a job's        *)
(* supervisor) or teuthology-reimage, provision.reimage, and one of the    *)
(* three provisioners, which are components of their own.                  *)
(***************************************************************************)
EXTENDS Fog, Maas, Pelagos

vars == <<machine, fog, maas, pelagos>>

Steps == Ended \cup {"reset", "choose", "create", "record"}
         \cup FogSteps \cup MaasSteps \cup PelagosSteps

TypeOK ==
  /\ MachineTypeOK /\ FogTypeOK /\ MaasTypeOK /\ PelagosTypeOK
  /\ pc \in Steps

Init == MachineInit /\ FogInit /\ MaasInit /\ PelagosInit

provisioners == <<fog, maas, pelagos>>

\* The next call: reimage_machines skips a machine type that has no provisioner,
\* teuthology-reimage refuses it.
reimage_machines ==
  /\ pc \in Ended /\ calls < MaxCalls
  /\ calls' = calls + 1 /\ op' = "create" /\ want' \in Wants
  /\ pc' \in IF claims = {} THEN {"skipped", "refused"} ELSE {"reset"}
  /\ imaged' = FALSE /\ missed' = FALSE
  /\ abandoned' = (Uses("pelagos") /\ deploys # {})
  /\ UNCHANGED <<os, boot, deploys, inventory, claims, faults, fog, maas, ended>>

\* unlock_one of a bare-metal node stops it, with the provisioner of its type.
stop_node ==
  /\ pc \in Ended \ {"idle"}
  /\ op' = "stop" /\ missed' = FALSE
  /\ \/ Uses("fog") /\ pc' = "stop"
     \/ Uses("pelagos") /\ pc' = "park"
     \/ Uses("maas") /\ pc' = "release"
  /\ UNCHANGED <<node, inventory, claims, faults, calls, want, provisioners>>

\* update_nodes([machine], True): paddles forgets the OS; ten tries.
reset_inventory ==
  /\ pc = "reset"
  /\ \/ inventory' = Nothing /\ pc' = "choose" /\ UNCHANGED missed
     \/ Fault("request") /\ inventory' \in {inventory, Nothing} /\ pc' = "failed" /\ missed' = TRUE
  /\ UNCHANGED <<node, request, provisioners>>

\* provision.reimage: exactly one provisioner may have the machine type.
reimage ==
  /\ pc = "choose"
  /\ Goto(IF \E p \in claims : claims = {p} THEN "create" ELSE "refused")
  /\ UNCHANGED <<node, provisioners>>

\* do_update_keys and update_nodes: paddles is told what the node runs.
record_inventory ==
  /\ pc = "record"
  /\ \/ inventory' = os /\ pc' = "success" /\ UNCHANGED missed
     \/ Fault("ssh") /\ pc' = "failed" /\ UNCHANGED <<inventory, missed>>
     \/ Fault("request") /\ inventory' \in {inventory, os} /\ pc' = "failed" /\ missed' = TRUE
  /\ UNCHANGED <<node, request, provisioners>>

\* The process that makes the call is killed.
Kill ==
  /\ pc \notin Ended /\ Fault("kill")
  /\ pc' = "killed"
  /\ UNCHANGED <<node, inventory, request, missed, provisioners>>

Call ==
  \/ reset_inventory \/ reimage \/ record_inventory
  \/ FogCall /\ UNCHANGED <<maas, pelagos>>
  \/ MaasCall /\ UNCHANGED <<fog, pelagos>>
  \/ PelagosCall /\ UNCHANGED <<fog, maas>>

Server ==
  \/ FogServer /\ UNCHANGED <<maas, pelagos>>
  \/ MaasServer /\ UNCHANGED <<fog, pelagos>>
  \/ PelagosServer /\ UNCHANGED <<fog, maas>>

Next ==
  \/ reimage_machines \/ stop_node \/ Call \/ Kill \/ Server
  \/ Reboot /\ UNCHANGED provisioners

Spec     == Init /\ [][Next]_vars
FairSpec == Spec /\ WF_vars(Call) /\ WF_vars(Server)

---------------------------------------------------------------------------
\* A call that returns without an exception has deployed the wanted system itself,
\* whatever earlier calls have left behind (create, and update_nodes after it).
FreshOnSuccess ==
  [][pc # "success" /\ pc' = "success" /\ ~abandoned => imaged /\ os = Image[want]]_vars

\* The disk of a node that a job was given does not change under it, also when the
\* job reboots it: no deployment is left waiting (schedule_deploy_task, create).
JobKeepsNode ==
  [][pc = "success" /\ pc' = "success" /\ ~abandoned => os' = os]_vars

\* A call that failed, and missed no answer of the server, has stopped what it had
\* started (cancel_deploy_task, abort_deploy); Pelagos cannot.
NothingLeftRunning ==
  pc = "failed" /\ ~missed /\ ~Uses("pelagos") => \A d \in deploys : d.call # calls

\* A machine that was stopped for being unlocked is free for MAAS to deploy, whatever
\* state a killed or failed call had left it in (release).
StoppedIsReleased ==
  Uses("maas") /\ op = "stop" /\ pc = "idle" =>
    ~locked /\ status \in {"new", "ready", "allocated"}

\* Whatever became of the calls before, the last one, which meets no fault, reimages
\* the node, unless it asks for what there is not, or finds MAAS at work
\* (schedule_deploy_task's cancelling, release's unlocking).
Recovers == calls = MaxCalls /\ op = "create" ~> pc \in {"success", "skipped", "refused"}
=============================================================================
