-------------------------------- MODULE Fog ---------------------------------
(***************************************************************************)
(* provision/fog.py: FOG.create, one step for each request to the FOG      *)
(* server or command to the node.  FOG deploys to a node that boots over   *)
(* the network while it has an active task.                                *)
(***************************************************************************)
EXTENDS Machine

VARIABLES
  host_image, \* the host's image on the server
  found,      \* get_deploy_tasks: what schedule_deploy_task still has to cancel
  task_id,    \* what schedule_deploy_task returned: a call's task, or 0 for None
  cycled      \* ipmi_cycle_sent

fog == <<host_image, found, task_id, cycled>>

FogSteps == {"image", "find", "cancel", "post", "pick", "power_off", "power_on",
             "wait", "abort", "ready", "hostname", "verify", "stop"}

FogTypeOK ==
  /\ host_image \in OSes \cup {Nothing}
  /\ found \subseteq 1..MaxCalls
  /\ task_id \in 0..MaxCalls
  /\ cycled \in BOOLEAN

FogInit == host_image = Nothing /\ found = {} /\ task_id = 0 /\ cycled = FALSE

AtFog(step) == At("fog", step)

\* do_request raises outside of create's try.
FogRaises ==
  /\ \E step \in {"image", "find", "cancel", "pick"} : AtFog(step)
  /\ Fault("request")
  /\ GotoMissed("failed") /\ UNCHANGED <<node, fog>>

\* get_host_data raises as well when the server knows no such host, or several.
get_host_data ==
  /\ AtFog("create")
  /\ \/ Goto("image")
     \/ Fault("request") /\ GotoMissed("failed")
  /\ task_id' = 0 /\ cycled' = FALSE
  /\ UNCHANGED <<node, host_image, found>>

\* get_image_data, which takes the latest point release of a major version.
set_image ==
  /\ AtFog("image")
  /\ \/ /\ Image[want] = Nothing
        /\ Goto("refused") /\ UNCHANGED host_image
     \/ /\ Image[want] # Nothing
        /\ host_image' = Image[want] /\ Goto("find")
  /\ UNCHANGED <<node, found, task_id, cycled>>

\* get_deploy_tasks takes an answer it cannot parse for an empty list.
find_tasks ==
  /\ AtFog("find")
  /\ \/ found' = {d.call : d \in deploys} /\ Goto("cancel")
     \/ Fault("unparsable") /\ found' = {} /\ GotoMissed("cancel")
  /\ UNCHANGED <<node, host_image, task_id, cycled>>

cancel_existing ==
  /\ AtFog("cancel")
  /\ \/ /\ found = {}
        /\ Goto("post") /\ UNCHANGED <<deploys, found>>
     \/ \E id \in found :
          /\ found' = found \ {id}
          /\ deploys' = {d \in deploys : d.call # id}
          /\ Goto("cancel")
  /\ UNCHANGED <<os, boot, imaged, host_image, task_id, cycled>>

\* The POST of the task, with the host's image.
post_task ==
  /\ AtFog("post")
  /\ \/ Accepted(host_image) /\ Goto("pick")
     \/ /\ Fault("request")
        /\ Accepted(host_image) \/ UNCHANGED deploys
        /\ GotoMissed("failed")
  /\ UNCHANGED <<os, boot, imaged, fog>>

\* Mutant: the id of the task is not returned.
pick_task_unreturned ==
  /\ AtFog("pick")
  /\ task_id' = 0 /\ Goto("power_off")
  /\ UNCHANGED <<node, host_image, found, cycled>>

\* Of the host's tasks, the one that is less than five seconds old by this clock.
pick_task ==
  /\ AtFog("pick")
  /\ \/ task_id' = calls /\ Goto("power_off")
     \/ /\ Fault("unparsable") \/ Fault("late")
        /\ task_id' = 0 /\ GotoMissed("power_off")
  /\ UNCHANGED <<node, host_image, found, cycled>>

fog_power_off ==
  /\ AtFog("power_off")
  /\ power_off /\ Goto("power_on") /\ UNCHANGED fog

fog_power_on ==
  /\ AtFog("power_on")
  /\ \/ power_on /\ Goto("wait")
     \/ power_on_raises /\ Goto("abort")
  /\ UNCHANGED fog

\* Mutant: looks in the list from before the task was scheduled.
Active_stale == task_id \in found

\* deploy_task_active
Active == \E d \in deploys : d.call = task_id

\* A poll that finds the task gone; one that cannot be parsed; one that raises.
wait_for_deploy_task ==
  /\ AtFog("wait")
  /\ \/ ~Active /\ Goto("ready")
     \/ Fault("unparsable") /\ GotoMissed("ready")
     \/ Active /\ Fault("timeout") /\ Goto("abort")
     \/ Fault("request") /\ GotoMissed("abort")
  /\ UNCHANGED <<node, fog>>

\* Mutant: the task is left to the server.
cancel_deploy_task_not ==
  /\ AtFog("abort")
  /\ Goto("failed") /\ UNCHANGED <<node, fog>>

\* The except clause: the server refuses to cancel a task without an id.
cancel_deploy_task ==
  /\ AtFog("abort")
  /\ \/ deploys' = {d \in deploys : d.call # task_id} /\ Goto("failed")
     \/ Fault("request") /\ GotoMissed("failed") /\ UNCHANGED deploys
  /\ UNCHANGED <<os, boot, imaged, fog>>

\* Connected; half of the time is over (whatever set_power raises is caught); all of it.
wait_for_ready ==
  /\ AtFog("ready")
  /\ \/ Reachable /\ Goto("hostname") /\ UNCHANGED <<node, cycled>>
     \/ /\ ~cycled /\ Fault("timeout")
        /\ cycled' = TRUE
        /\ \/ boot' = Booted /\ os' \in BrokenOff
           \/ Fault("power") /\ boot' \in {boot, "off"} /\ os' \in BrokenOff
        /\ UNCHANGED <<deploys, imaged>>
        /\ Goto("ready")
     \/ Fault("timeout") /\ Goto("failed") /\ UNCHANGED <<node, cycled>>
  /\ UNCHANGED <<host_image, found, task_id>>

\* Waiting for the sentinel file, and _fix_hostname, are commands on the node.
fix_hostname ==
  /\ AtFog("hostname")
  /\ \/ Reachable /\ Goto("verify")
     \/ (~Reachable \/ Fault("ssh")) /\ Goto("failed")
  /\ UNCHANGED <<node, fog>>

verify_installed_os ==
  /\ AtFog("verify")
  /\ \/ Reachable /\ Goto(IF os = Image[want] THEN "record" ELSE "failed")
     \/ (~Reachable \/ Fault("ssh")) /\ Goto("failed")
  /\ UNCHANGED <<node, fog>>

\* stop_node only switches the node off: a task that is there stays.
fog_stop_node ==
  /\ AtFog("stop")
  /\ power_off /\ Goto("idle") /\ UNCHANGED fog

FogCall ==
  \/ FogRaises \/ get_host_data \/ set_image \/ find_tasks \/ cancel_existing
  \/ post_task \/ pick_task \/ fog_power_off \/ fog_power_on
  \/ wait_for_deploy_task \/ cancel_deploy_task \/ wait_for_ready
  \/ fix_hostname \/ verify_installed_os \/ fog_stop_node

\* The installer writes the image of a task, fails, or finds its task cancelled.
FogServer ==
  /\ Uses("fog") /\ boot = "installer"
  /\ \/ \E d \in deploys : Written(d)
     \/ Fault("install") /\ os' = Nothing /\ boot' = "hung" /\ UNCHANGED <<deploys, imaged>>
     \/ deploys = {} /\ boot' = "os" /\ os' \in BrokenOff /\ UNCHANGED <<deploys, imaged>>
  /\ UNCHANGED <<inventory, request, pc, missed, fog>>
=============================================================================
