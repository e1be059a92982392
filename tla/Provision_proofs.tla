-------------------------- MODULE Provision_proofs ---------------------------
(***************************************************************************)
(* For any number of calls, any images and any faults: a call that fails   *)
(* has stopped what it started, and a node that was stopped for being      *)
(* unlocked is free. With the faults but one pair: a call that succeeds    *)
(* has installed the node afresh, and nothing will be written over it.     *)
(***************************************************************************)
EXTENDS Provision, TLAPS

\* The server has nothing under way for the current call.
NoTask == \A d \in deploys : d.call # calls

CallInv ==
  /\ calls \in Nat
  /\ claims \subseteq {"fog", "maas", "pelagos"}
  /\ \A d \in deploys : d.call \in Nat /\ d.call <= calls
  /\ (\A p \in claims : claims # {p}) => deploys = {}

\* FOG.create knows its task from pick_task on, unless it has missed an answer,
\* and goes on to the node only when the task is gone.
FogInv ==
  Uses("fog") =>
    /\ pc \in {"reset", "choose", "create", "image", "find", "cancel", "post"} => NoTask
    /\ pc \in {"power_off", "power_on", "wait", "abort"} /\ ~missed => task_id = calls
    /\ pc \in {"ready", "hostname", "verify", "record", "failed"} /\ ~missed => NoTask

\* MAAS: what the status says of the deployments and of the lock, and what is
\* left of the status when a step comes to act on what an earlier one has read.
MaasInv ==
  Uses("maas") =>
    /\ status \in Statuses
    /\ locked => status = "deployed"
    /\ deploys # {} => status = "deploying"
    /\ \A d, e \in deploys : d = e
    /\ pc = "deploy" => status \in {"new", "ready", "allocated"}
    /\ pc = "unlock" => status = "deployed"
    /\ pc \in {"op_release", "abort_deploy", "op_abort", "wait_deployed"} => ~locked
    /\ pc = "op_release" => status # "deploying"
    /\ pc = "wait_ready" => status \in {"releasing", "ready"}
    /\ pc \in {"lock", "verify_os", "record"} => status = "deployed"
    /\ pc = "failed" /\ ~missed => status # "deploying"
    /\ pc = "idle" /\ op = "stop" => status \in {"new", "ready", "allocated"}

IInv == CallInv /\ FogInv /\ MaasInv

-----------------------------------------------------------------------------
LEMMA InitIInv == Init => IInv
  <1> SUFFICES ASSUME Init PROVE IInv OBVIOUS
  <1> USE DEF Init, MachineInit
  <1>1. CallInv
    BY DEF CallInv
  <1>2. FogInv
    BY DEF FogInv, NoTask
  <1>3. MaasInv
    BY DEF MaasInit, MaasInv, Statuses
  <1> QED BY <1>1, <1>2, <1>3 DEF IInv

\* FOG.create and stop_node.
LEMMA FogStep ==
  ASSUME IInv, FogCall, UNCHANGED <<maas, pelagos>>
  PROVE  IInv'
  <1> USE DEF IInv, CallInv, Uses, At, Goto, GotoMissed, AtFog, node, request, fog
  <1>1. CASE FogRaises
    BY <1>1 DEF FogRaises, FogInv, MaasInv, NoTask
  <1>2. CASE get_host_data
    BY <1>2 DEF get_host_data, FogInv, MaasInv, NoTask
  <1>3. CASE set_image
    BY <1>3 DEF set_image, FogInv, MaasInv, NoTask
  <1>4. CASE find_tasks
    BY <1>4 DEF find_tasks, FogInv, MaasInv, NoTask
  <1>5. CASE cancel_existing
    BY <1>5 DEF cancel_existing, FogInv, MaasInv, NoTask
  <1>6. CASE post_task
    BY <1>6 DEF post_task, Accepted, FogInv, MaasInv, NoTask
  <1>7. CASE pick_task
    BY <1>7 DEF pick_task, FogInv, MaasInv, NoTask
  <1>8. CASE fog_power_off
    BY <1>8 DEF fog_power_off, power_off, FogInv, MaasInv, NoTask
  <1>9. CASE fog_power_on
    BY <1>9 DEF fog_power_on, power_on, power_on_raises, FogInv, MaasInv, NoTask
  <1>10. CASE wait_for_deploy_task
    BY <1>10 DEF wait_for_deploy_task, Active, FogInv, MaasInv, NoTask
  <1>11. CASE cancel_deploy_task
    BY <1>11 DEF cancel_deploy_task, FogInv, MaasInv, NoTask
  <1>12. CASE wait_for_ready
    BY <1>12 DEF wait_for_ready, FogInv, MaasInv, NoTask
  <1>13. CASE fix_hostname
    BY <1>13 DEF fix_hostname, FogInv, MaasInv, NoTask
  <1>14. CASE verify_installed_os
    BY <1>14 DEF verify_installed_os, FogInv, MaasInv, NoTask
  <1>15. CASE fog_stop_node
    BY <1>15 DEF fog_stop_node, power_off, FogInv, MaasInv, NoTask
  <1> QED BY <1>1, <1>2, <1>3, <1>4, <1>5, <1>6, <1>7, <1>8, <1>9, <1>10, <1>11, <1>12,
     <1>13, <1>14, <1>15 DEF FogCall

\* MAAS.create and MAAS.release.
LEMMA MaasStep ==
  ASSUME IInv, MaasCall, UNCHANGED <<fog, pelagos>>
  PROVE  IInv'
  <1> USE DEF IInv, CallInv, Uses, At, Goto, GotoMissed, AtMaas, node, request, maas
  <1>1. CASE MaasRaises
    BY <1>1 DEF MaasRaises, FogInv, MaasInv
  <1>2. CASE maas_create
    BY <1>2 DEF maas_create, CreateStep, FogInv, MaasInv
  <1>3. CASE release
    BY <1>3 DEF release, ReleaseStep, Released, FogInv, MaasInv
  <1>4. CASE unlock_machine
    BY <1>4 DEF unlock_machine, FogInv, MaasInv
  <1>5. CASE release_machine
    BY <1>5 DEF release_machine, Statuses, FogInv, MaasInv
  <1>6. CASE wait_for_ready_status
    BY <1>6 DEF wait_for_ready_status, Released, FogInv, MaasInv
  <1>7. CASE deploy_machine
    <2>1. Uses("maas") /\ claims' = claims /\ deploys = {} /\ ~locked
      BY <1>7 DEF deploy_machine, MaasInv
    <2> DEFINE mine == {[call |-> calls, os |-> Image[want]]}
    <2>2. deploys \cup mine = mine
      BY <2>1
    <2>3. \/ deploys' = {} /\ pc' = "abort_deploy" /\ UNCHANGED status
          \/ deploys' = mine /\ status' = "deploying" /\ pc' \in {"wait_deployed", "abort_deploy"}
      BY <1>7, <2>1, <2>2 DEF deploy_machine, Accepted
    <2>4. CallInv'
      BY <1>7, <2>1, <2>3 DEF deploy_machine
    <2>5. FogInv' /\ MaasInv'
      BY <1>7, <2>1, <2>3 DEF deploy_machine, Statuses, FogInv, MaasInv
    <2> QED BY <2>4, <2>5
  <1>8. CASE wait_for_deployed
    BY <1>8 DEF wait_for_deployed, FogInv, MaasInv
  <1>9. CASE abort_deploy
    BY <1>9 DEF abort_deploy, Aborted, FogInv, MaasInv
  <1>10. CASE op_abort
    BY <1>10 DEF op_abort, Aborted, Statuses, FogInv, MaasInv
  <1>11. CASE lock_machine
    BY <1>11 DEF lock_machine, FogInv, MaasInv
  <1>12. CASE maas_verify_installed_os
    BY <1>12 DEF maas_verify_installed_os, FogInv, MaasInv
  <1> QED BY <1>1, <1>2, <1>3, <1>4, <1>5, <1>6, <1>7, <1>8, <1>9, <1>10, <1>11,
     <1>12 DEF MaasCall

\* Pelagos.create and park_node.
LEMMA PelagosStep ==
  ASSUME IInv, PelagosCall, UNCHANGED <<fog, maas>>
  PROVE  IInv'
  <1> USE DEF IInv, CallInv, Uses, At, Goto, GotoMissed, AtPelagos, node, request, pelagos
  <1>1. CASE provision
    BY <1>1 DEF provision, Accepted, FogInv, MaasInv
  <1>2. CASE is_task_active
    BY <1>2 DEF is_task_active, FogInv, MaasInv
  <1>3. CASE cancel_nothing
    BY <1>3 DEF cancel_nothing, FogInv, MaasInv
  <1>4. CASE judge
    BY <1>4 DEF judge, FogInv, MaasInv
  <1>5. CASE park_node
    BY <1>5 DEF park_node, FogInv, MaasInv
  <1> QED BY <1>1, <1>2, <1>3, <1>4, <1>5 DEF PelagosCall

\* What all three have in common.
LEMMA CommonStep ==
  ASSUME IInv, reset_inventory \/ reimage \/ record_inventory \/ Kill
  PROVE  IInv'
  <1> USE DEF IInv, CallInv, FogInv, MaasInv, NoTask, Uses, Goto, node, request, provisioners, fog,
         maas, pelagos
  <1>1. CASE reset_inventory
    BY <1>1 DEF reset_inventory
  <1>2. CASE reimage
    BY <1>2 DEF reimage
  <1>3. CASE record_inventory
    BY <1>3 DEF record_inventory
  <1>4. CASE Kill
    BY <1>4 DEF Kill, Ended
  <1> QED BY <1>1, <1>2, <1>3, <1>4

\* A call begins, and with it nothing is its own; a reboot.
LEMMA UserStep ==
  ASSUME IInv, reimage_machines \/ stop_node \/ (Reboot /\ UNCHANGED provisioners)
  PROVE  IInv'
  <1> USE DEF IInv, CallInv, FogInv, MaasInv, NoTask, Uses, node, request, provisioners, fog, maas,
         pelagos
  <1>1. CASE reimage_machines
    BY <1>1 DEF reimage_machines
  <1>2. CASE stop_node
    BY <1>2 DEF stop_node
  <1>3. CASE Reboot /\ UNCHANGED provisioners
    BY <1>3 DEF Reboot
  <1> QED BY <1>1, <1>2, <1>3

\* The servers: a deployment that ends is gone, and MAAS deploys no more.
LEMMA ServerStep ==
  ASSUME IInv, Server
  PROVE  IInv'
  <1> USE DEF IInv, CallInv, FogInv, MaasInv, NoTask, Uses, Written, node, request, fog, maas, pelagos
  <1>1. CASE FogServer /\ UNCHANGED <<maas, pelagos>>
    BY <1>1 DEF FogServer
  <1>2. CASE MaasServer /\ UNCHANGED <<fog, pelagos>>
    BY <1>2 DEF MaasServer, Statuses
  <1>3. CASE PelagosServer /\ UNCHANGED <<fog, maas>>
    BY <1>3 DEF PelagosServer
  <1> QED BY <1>1, <1>2, <1>3 DEF Server

LEMMA NextIInv == IInv /\ [Next]_vars => IInv'
  <1> SUFFICES ASSUME IInv, [Next]_vars PROVE IInv' OBVIOUS
  <1>1. CASE UNCHANGED vars
    BY <1>1 DEF vars, machine, node, request, fog, maas, pelagos, IInv, CallInv, FogInv, MaasInv,
       NoTask, Uses
  <1>2. CASE Next
    BY <1>2, FogStep, MaasStep, PelagosStep, CommonStep, UserStep, ServerStep DEF Next, Call
  <1> QED BY <1>1, <1>2

LEMMA IInvAlways == Spec => []IInv
  BY InitIInv, NextIInv, PTL DEF Spec

-----------------------------------------------------------------------------
\* A call that failed without missing an answer has nothing under way: FOG's task
\* is cancelled by its id, MAAS's deployment is aborted.
THEOREM NothingLeftRunningHolds == Spec => []NothingLeftRunning
  <1>1. IInv => NothingLeftRunning
    BY DEF IInv, CallInv, FogInv, MaasInv, NoTask, Uses, NothingLeftRunning
  <1> QED BY <1>1, IInvAlways, PTL

\* stop_node gives a machine back to MAAS, whatever a killed or failed call has
\* left it in.
THEOREM StoppedIsReleasedHolds == Spec => []StoppedIsReleased
  <1>1. IInv => StoppedIsReleased
    BY DEF IInv, MaasInv, StoppedIsReleased
  <1> QED BY <1>1, IInvAlways, PTL
-----------------------------------------------------------------------------
(* What a call that succeeds leaves on the disk                            *)

\* A power_off that fails unseen does not come together with a task that is not
\* known by its id, or is taken for ended.
PowerSeen == \A f \in FaultSets : "power" \in f => f \cap {"late", "unparsable"} = {}

\* Only this call has something under way, and all that it may have is its own.
Mine == deploys \subseteq {[call |-> calls, os |-> Image[want]]}

\* The task that was scheduled is there or was carried out; ...
FogDiskInv ==
  Uses("fog") =>
    /\ pc \in {"pick", "power_off", "power_on", "wait", "ready", "hostname", "verify"} =>
         imaged \/ ~NoTask
    \* ... either each task is known, and the node gets no further before it is gone,
    /\ "power" \in faults =>
         /\ pc = "cancel" => \A d \in deploys : d.call \in found
         /\ pc = "post" => deploys = {}
         /\ pc \in {"pick", "power_off", "power_on", "wait"} => \A d \in deploys : d.call = calls
         /\ pc \in {"power_off", "power_on", "wait"} => task_id = calls
         /\ pc \in {"ready", "hostname", "verify"} => deploys = {}
    \* or the node is off before it boots, and runs no system before all are gone.
    /\ "power" \notin faults =>
         /\ pc = "power_on" => boot = "off"
         /\ pc \in {"wait", "ready", "hostname", "verify"} /\ boot = "os" => deploys = {}
    /\ pc \in {"hostname", "verify"} => boot = "os"
    /\ pc = "record" => boot = "os" /\ deploys = {}
    /\ pc = "success" => boot \in {"os", "off"} /\ deploys = {}

MaasDiskInv ==
  Uses("maas") =>
    /\ pc = "wait_deployed" => /\ \A d \in deploys : d.call = calls
                               /\ status = "deployed" => imaged
                               /\ status \in {"deploying", "deployed", "failed deployment"}
    /\ pc \in {"lock", "verify_os"} => imaged
    /\ pc = "success" => status = "deployed"

PelagosDiskInv ==
  Uses("pelagos") /\ ~abandoned =>
    /\ pc \in {"reset", "choose", "create"} => deploys = {}
    /\ pc \in {"poll", "judge"} =>
         /\ Mine
         /\ ended # "no" => deploys = {}
         /\ ended = "ok" => imaged /\ os = Image[want]
    /\ pc \in {"record", "success"} => deploys = {}

DiskInv ==
  /\ faults \in FaultSets
  /\ pc \in {"create", "record", "success"} => Uses("fog") \/ Uses("maas") \/ Uses("pelagos")
  /\ pc = "record" /\ ~abandoned => imaged /\ os = Image[want]
  /\ FogDiskInv /\ MaasDiskInv /\ PelagosDiskInv

LEMMA InitDiskInv == Init => DiskInv
  BY MachineAssumption DEF Init, MachineInit, MaasInit, DiskInv, FogDiskInv, MaasDiskInv,
     PelagosDiskInv, Uses

\* FOG.create and stop_node; steps of FOG say nothing of the other two.
LEMMA FogDisk ==
  ASSUME PowerSeen, IInv, DiskInv, FogCall, UNCHANGED <<maas, pelagos>>
  PROVE  DiskInv'
  <1>1. Uses("fog") /\ Uses("fog")' /\ ~Uses("maas")' /\ ~Uses("pelagos")'
    BY DEF FogCall, FogRaises, get_host_data, set_image, find_tasks, cancel_existing, post_task,
       pick_task, fog_power_off, fog_power_on, wait_for_deploy_task, cancel_deploy_task,
       wait_for_ready, fix_hostname, verify_installed_os, fog_stop_node, AtFog, At, Uses, Goto,
       GotoMissed, request
  <1>2. UNCHANGED <<request, abandoned>> /\ faults \in FaultSets /\ CallInv
    BY DEF FogCall, FogRaises, get_host_data, set_image, find_tasks, cancel_existing, post_task,
       pick_task, fog_power_off, fog_power_on, wait_for_deploy_task, cancel_deploy_task,
       wait_for_ready, fix_hostname, verify_installed_os, fog_stop_node, AtFog, Goto,
       GotoMissed, pelagos, DiskInv, IInv
  <1>3. SUFFICES /\ FogDiskInv'
                 /\ pc' = "record" => imaged' /\ os' = Image[want]
    BY <1>1, <1>2 DEF DiskInv, MaasDiskInv, PelagosDiskInv, request
  <1> USE <1>1, <1>2 DEF DiskInv, FogDiskInv, CallInv, NoTask, AtFog, At, Goto, GotoMissed, node,
          request, fog
  <1>4. CASE FogRaises
    BY <1>4 DEF FogRaises
  <1>5. CASE get_host_data
    BY <1>5 DEF get_host_data
  <1>6. CASE set_image
    BY <1>6 DEF set_image
  <1>7. CASE find_tasks
    BY <1>7 DEF find_tasks, Fault, PowerSeen
  <1>8. CASE cancel_existing
    BY <1>8 DEF cancel_existing
  <1>9. CASE post_task
    <2> DEFINE mine == [call |-> calls, os |-> host_image]
    <2>1. /\ pc = "post" /\ pc' \in {"pick", "failed"} /\ UNCHANGED faults
          /\ deploys' \in {deploys, deploys \cup {mine}}
          /\ pc' = "pick" => deploys' = deploys \cup {mine}
      BY <1>9 DEF post_task, Accepted
    <2>2. mine.call = calls
      OBVIOUS
    <2>3. pc' = "pick" => ~NoTask'
      BY <2>1, <2>2
    <2>4. "power" \in faults => \A d \in deploys' : d.call = calls
      BY <2>1, <2>2
    <2> HIDE DEF mine
    <2> QED BY <2>1, <2>3, <2>4
  <1>10. CASE pick_task
    BY <1>10 DEF pick_task, Fault, PowerSeen
  <1>11. CASE fog_power_off
    BY <1>11 DEF fog_power_off, power_off, Fault
  <1>12. CASE fog_power_on
    BY <1>12 DEF fog_power_on, power_on, power_on_raises, Fault, Booted
  <1>13. CASE wait_for_deploy_task
    BY <1>13 DEF wait_for_deploy_task, Active, Fault, PowerSeen
  <1>14. CASE cancel_deploy_task
    BY <1>14 DEF cancel_deploy_task
  <1>15. CASE wait_for_ready
    BY <1>15 DEF wait_for_ready, Fault, Booted, Reachable
  <1>16. CASE fix_hostname
    BY <1>16 DEF fix_hostname
  <1>17. CASE verify_installed_os
    BY <1>17 DEF verify_installed_os, Reachable
  <1>18. CASE fog_stop_node
    BY <1>18 DEF fog_stop_node, power_off
  <1> QED BY <1>4, <1>5, <1>6, <1>7, <1>8, <1>9, <1>10, <1>11, <1>12, <1>13, <1>14, <1>15,
     <1>16, <1>17, <1>18 DEF FogCall

\* MAAS.create and MAAS.release.
LEMMA MaasDisk ==
  ASSUME IInv, DiskInv, MaasCall, UNCHANGED <<fog, pelagos>>
  PROVE  DiskInv'
  <1>1. Uses("maas") /\ Uses("maas")' /\ ~Uses("fog")' /\ ~Uses("pelagos")'
    BY DEF MaasCall, MaasRaises, maas_create, release, unlock_machine, release_machine,
       wait_for_ready_status, deploy_machine, wait_for_deployed, abort_deploy, op_abort,
       lock_machine, maas_verify_installed_os, AtMaas, At, Uses, Goto, GotoMissed, request
  <1>2. UNCHANGED <<request, abandoned>> /\ faults \in FaultSets
    BY DEF MaasCall, MaasRaises, maas_create, release, unlock_machine, release_machine,
       wait_for_ready_status, deploy_machine, wait_for_deployed, abort_deploy, op_abort,
       lock_machine, maas_verify_installed_os, Goto, GotoMissed, pelagos, DiskInv
  <1>3. SUFFICES /\ MaasDiskInv'
                 /\ pc' = "record" => imaged' /\ os' = Image[want]
    BY <1>1, <1>2 DEF DiskInv, FogDiskInv, PelagosDiskInv, request
  <1> USE <1>1, <1>2 DEF IInv, MaasInv, DiskInv, MaasDiskInv, AtMaas, At, Goto, GotoMissed, node,
          request, maas
  <1>4. CASE MaasRaises
    BY <1>4 DEF MaasRaises
  <1>5. CASE maas_create
    BY <1>5 DEF maas_create, CreateStep
  <1>6. CASE release
    BY <1>6 DEF release, ReleaseStep, Released
  <1>7. CASE unlock_machine
    BY <1>7 DEF unlock_machine
  <1>8. CASE release_machine
    BY <1>8 DEF release_machine
  <1>9. CASE wait_for_ready_status
    BY <1>9 DEF wait_for_ready_status, Released
  <1>10. CASE deploy_machine
    <2> DEFINE mine == [call |-> calls, os |-> Image[want]]
    <2>1. /\ pc = "deploy" /\ pc' \in {"wait_deployed", "abort_deploy"}
          /\ pc' = "wait_deployed" => deploys' = deploys \cup {mine} /\ status' = "deploying"
      BY <1>10 DEF deploy_machine, Accepted
    <2>2. deploys = {} /\ mine.call = calls
      BY <2>1
    <2>3. pc' = "wait_deployed" => \A d \in deploys' : d.call = calls
      BY <2>1, <2>2
    <2> HIDE DEF mine
    <2> QED BY <2>1, <2>3
  <1>11. CASE wait_for_deployed
    BY <1>11 DEF wait_for_deployed
  <1>12. CASE abort_deploy
    BY <1>12 DEF abort_deploy, Aborted
  <1>13. CASE op_abort
    BY <1>13 DEF op_abort, Aborted
  <1>14. CASE lock_machine
    BY <1>14 DEF lock_machine
  <1>15. CASE maas_verify_installed_os
    BY <1>15 DEF maas_verify_installed_os
  <1> QED BY <1>4, <1>5, <1>6, <1>7, <1>8, <1>9, <1>10, <1>11, <1>12, <1>13, <1>14, <1>15
     DEF MaasCall

\* Pelagos.create and park_node.
LEMMA PelagosDisk ==
  ASSUME IInv, DiskInv, PelagosCall, UNCHANGED <<fog, maas>>
  PROVE  DiskInv'
  <1>1. Uses("pelagos") /\ Uses("pelagos")' /\ ~Uses("fog")' /\ ~Uses("maas")'
    BY DEF PelagosCall, provision, is_task_active, cancel_nothing, judge, park_node, AtPelagos, At,
       Uses, Goto, GotoMissed, request
  <1> USE <1>1 DEF IInv, CallInv, DiskInv, FogDiskInv, MaasDiskInv, PelagosDiskInv, Mine, AtPelagos,
          At, Goto, GotoMissed, node, request, pelagos
  <1>2. CASE provision
    BY <1>2 DEF provision, Accepted
  <1>3. CASE is_task_active
    BY <1>3 DEF is_task_active
  <1>4. CASE cancel_nothing
    BY <1>4 DEF cancel_nothing
  <1>5. CASE judge
    BY <1>5 DEF judge
  <1>6. CASE park_node
    BY <1>6 DEF park_node
  <1> QED BY <1>2, <1>3, <1>4, <1>5, <1>6 DEF PelagosCall

\* What all three have in common: a success comes after a record.
LEMMA CommonDisk ==
  ASSUME IInv, DiskInv, reset_inventory \/ reimage \/ record_inventory \/ Kill
  PROVE  DiskInv'
  <1> USE DEF IInv, CallInv, MaasInv, DiskInv, FogDiskInv, MaasDiskInv, PelagosDiskInv, Uses, Goto,
         node, request, provisioners, fog, maas, pelagos
  <1>1. CASE reset_inventory
    BY <1>1 DEF reset_inventory
  <1>2. CASE reimage
    BY <1>2 DEF reimage
  <1>3. CASE record_inventory
    BY <1>3 DEF record_inventory
  <1>4. CASE Kill
    BY <1>4 DEF Kill
  <1> QED BY <1>1, <1>2, <1>3, <1>4

\* A call of Pelagos that is not abandoned begins with nothing under way; a node
\* that is rebooted has nothing waiting for it.
LEMMA UserDisk ==
  ASSUME IInv, DiskInv, reimage_machines \/ stop_node \/ (Reboot /\ UNCHANGED provisioners)
  PROVE  DiskInv'
  <1> USE DEF IInv, CallInv, DiskInv, FogDiskInv, MaasDiskInv, PelagosDiskInv, Uses, node, request,
         provisioners, fog, maas, pelagos
  <1>1. CASE reimage_machines
    BY <1>1 DEF reimage_machines
  <1>2. CASE stop_node
    BY <1>2 DEF stop_node
  <1>3. CASE Reboot /\ UNCHANGED provisioners
    BY <1>3 DEF Reboot, Booted
  <1> QED BY <1>1, <1>2, <1>3

\* The servers carry out what is under way, and nothing else.
LEMMA ServerDisk ==
  ASSUME IInv, DiskInv, Server
  PROVE  DiskInv'
  <1> USE DEF IInv, CallInv, DiskInv, FogDiskInv, MaasDiskInv, PelagosDiskInv, NoTask, Mine, Uses,
         Written, node, request, fog, maas, pelagos
  <1>1. CASE FogServer /\ UNCHANGED <<maas, pelagos>>
    BY <1>1 DEF FogServer
  <1>2. CASE MaasServer /\ UNCHANGED <<fog, pelagos>>
    BY <1>2 DEF MaasServer, MaasInv
  <1>3. CASE PelagosServer /\ UNCHANGED <<fog, maas>>
    <2>1. PICK d \in deploys :
            /\ deploys' = deploys \ {d}
            /\ \/ imaged' = (imaged \/ d.call = calls) /\ os' = d.os
                  /\ ended' = IF d.call = calls THEN "ok" ELSE ended
               \/ ended' = IF d.call = calls THEN "error" ELSE ended
      BY <1>3 DEF PelagosServer
    <2>2. /\ Uses("pelagos") /\ ~Uses("fog") /\ ~Uses("maas")
          /\ UNCHANGED <<claims, faults, calls, want, pc, abandoned>>
      BY <1>3 DEF PelagosServer
    <2>3. CASE abandoned
      BY <2>2, <2>3
    <2>4. CASE ~abandoned /\ pc \in {"poll", "judge"}
      <3>1. d = [call |-> calls, os |-> Image[want]]
        BY <2>4, <2>2
      <3>2. deploys' = {} /\ d.call = calls /\ d.os = Image[want]
        BY <2>1, <2>2, <2>4, <3>1
      <3> QED BY <2>1, <2>2, <2>4, <3>2
    <2>5. CASE ~abandoned /\ pc \notin {"poll", "judge"}
      BY <2>1, <2>2, <2>5
    <2> QED BY <2>3, <2>4, <2>5
  <1> QED BY <1>1, <1>2, <1>3 DEF Server

LEMMA NextDiskInv == PowerSeen /\ IInv /\ DiskInv /\ [Next]_vars => DiskInv'
  <1> SUFFICES ASSUME PowerSeen, IInv, DiskInv, [Next]_vars PROVE DiskInv' OBVIOUS
  <1>1. CASE UNCHANGED vars
    <2>1. FogDiskInv'
      BY <1>1 DEF vars, machine, node, request, fog, DiskInv, FogDiskInv, NoTask, Uses
    <2>2. MaasDiskInv'
      BY <1>1 DEF vars, machine, node, request, maas, DiskInv, MaasDiskInv, Uses
    <2>3. PelagosDiskInv'
      BY <1>1 DEF vars, machine, node, request, pelagos, DiskInv, PelagosDiskInv, Mine, Uses
    <2> QED BY <1>1, <2>1, <2>2, <2>3 DEF vars, machine, node, request, pelagos, DiskInv, Uses
  <1>2. CASE Next
    BY <1>2, FogDisk, MaasDisk, PelagosDisk, CommonDisk, UserDisk, ServerDisk DEF Next, Call
  <1> QED BY <1>1, <1>2

LEMMA DiskInvAlways == ASSUME PowerSeen PROVE Spec => []DiskInv
  <1>1. IInv /\ DiskInv /\ [Next]_vars => DiskInv'
    BY NextDiskInv
  <1> QED BY <1>1, InitDiskInv, IInvAlways, PTL DEF Spec

\* create, and update_nodes after it, return only when the call's own deployment was
\* written and the node runs the wanted system, whatever was left of earlier calls.
THEOREM FreshOnSuccessHolds == ASSUME PowerSeen PROVE Spec => FreshOnSuccess
  <1>1. IInv /\ DiskInv /\ [Next]_vars =>
          [pc # "success" /\ pc' = "success" /\ ~abandoned => imaged /\ os = Image[want]]_vars
    <2> SUFFICES ASSUME IInv, DiskInv, Next, pc # "success", pc' = "success", ~abandoned
                 PROVE  imaged /\ os = Image[want]
      OBVIOUS
    <2>1. record_inventory
      <3>1. Call
        BY DEF Next, reimage_machines, stop_node, Kill, Server, FogServer, MaasServer,
           PelagosServer, Reboot, Ended
      <3>2. ~FogCall
        BY DEF FogCall, FogRaises, get_host_data, set_image, find_tasks, cancel_existing, post_task,
           pick_task, fog_power_off, fog_power_on, wait_for_deploy_task, cancel_deploy_task,
           wait_for_ready, fix_hostname, verify_installed_os, fog_stop_node, Goto, GotoMissed
      <3>3. ~MaasCall
        <4>1. ~maas_create
          BY DEF maas_create, CreateStep, AtMaas, At, IInv, MaasInv, Goto
        <4>2. ~release
          BY DEF release, ReleaseStep, Released, AtMaas, At, IInv, MaasInv, Goto
        <4> QED BY <4>1, <4>2 DEF MaasCall, MaasRaises, unlock_machine, release_machine,
                wait_for_ready_status, Released, deploy_machine, wait_for_deployed,
                abort_deploy, op_abort, Aborted, lock_machine, maas_verify_installed_os, Goto,
                GotoMissed
      <3>4. ~PelagosCall
        BY DEF PelagosCall, provision, is_task_active, cancel_nothing, judge, park_node, Goto,
           GotoMissed
      <3> QED BY <3>1, <3>2, <3>3, <3>4 DEF Call, reset_inventory, reimage, Goto
    <2> QED BY <2>1 DEF record_inventory, DiskInv
  <1> QED BY <1>1, IInvAlways, DiskInvAlways, PTL DEF Spec, FreshOnSuccess

\* No deployment is left that would be written to a node a job has: a reboot finds
\* the system that was put there.
THEOREM JobKeepsNodeHolds == ASSUME PowerSeen PROVE Spec => JobKeepsNode
  <1>1. IInv /\ DiskInv /\ [Next]_vars =>
          [pc = "success" /\ pc' = "success" /\ ~abandoned => os' = os]_vars
    <2> SUFFICES ASSUME IInv, DiskInv, Next, pc = "success", pc' = "success", ~abandoned
                 PROVE  os' = os
      OBVIOUS
    <2>1. Server \/ Reboot
      <3>1. ~reimage_machines /\ ~stop_node /\ ~Kill
        BY DEF reimage_machines, stop_node, Kill, Ended
      <3>2. ~reset_inventory /\ ~reimage /\ ~record_inventory
        BY DEF reset_inventory, reimage, record_inventory
      <3>3. ~FogCall
        BY DEF FogCall, FogRaises, get_host_data, set_image, find_tasks, cancel_existing, post_task,
           pick_task, fog_power_off, fog_power_on, wait_for_deploy_task, cancel_deploy_task,
           wait_for_ready, fix_hostname, verify_installed_os, fog_stop_node, AtFog, At
      <3>4. ~MaasCall /\ ~PelagosCall
        BY DEF MaasCall, MaasRaises, maas_create, release, unlock_machine, release_machine,
           wait_for_ready_status, deploy_machine, wait_for_deployed, abort_deploy, op_abort,
           lock_machine, maas_verify_installed_os, AtMaas, PelagosCall, provision,
           is_task_active, cancel_nothing, judge, park_node, AtPelagos, At
      <3> QED BY <3>1, <3>2, <3>3, <3>4 DEF Next, Call
    <2>2. CASE Reboot
      BY <2>2 DEF Reboot
    <2>3. CASE FogServer
      BY <2>3 DEF FogServer, Written, DiskInv, FogDiskInv
    <2>4. CASE MaasServer
      BY <2>4 DEF MaasServer, Written, node, IInv, MaasInv, DiskInv, MaasDiskInv
    <2>5. CASE PelagosServer
      BY <2>5 DEF PelagosServer, DiskInv, PelagosDiskInv
    <2> QED BY <2>1, <2>2, <2>3, <2>4, <2>5 DEF Server
  <1> QED BY <1>1, IInvAlways, DiskInvAlways, PTL DEF Spec, JobKeepsNode
=============================================================================
