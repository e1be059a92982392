------------------------------ MODULE Machine ------------------------------
(***************************************************************************)
(* A bare-metal node that its owner reimages again and again: what it runs *)
(* and what is on its disk, the deployments a provisioning server has      *)
(* under way for it, and the call of provision.reimage that works on it.   *)
(* Between the calls the node may be unlocked, which stops it.  A call has *)
(* the node for itself, but it may be killed, and what it asked of the     *)
(* server goes on.                                                         *)
(***************************************************************************)
EXTENDS Naturals

CONSTANTS
  OSes,      \* what can be on the disk
  Nothing,   \* no usable system on the disk, no record of it, no image
  Image,     \* the image for each os_type and os_version that is asked for
  FaultSets, \* the sets of faults that may come together, each \subseteq FaultKinds
  MaxCalls   \* bound: calls, the last of which meets no new fault

FaultKinds == {"request", "unparsable", "late", "power", "timeout", "install", "ssh", "kill"}
Wants == DOMAIN Image

ASSUME MachineAssumption ==
  /\ Nothing \notin OSes
  /\ \A w \in Wants : Image[w] \in OSes \cup {Nothing}
  /\ \A f \in FaultSets : f \subseteq FaultKinds
  /\ MaxCalls \in Nat \ {0}

VARIABLES
  os,        \* what is on the disk
  boot,      \* what the node runs
  deploys,   \* the server's deployments under way for it, each of a call
  imaged,    \* history: the current call's deployment was written to the disk
  inventory, \* the OS that paddles has on record
  claims,    \* the provisioners configured for its machine type
  faults,    \* which faults may happen
  calls,     \* which call is the current one
  op,        \* what it does: create, or stop_node
  pc, want,  \* where it is, and the OS it was asked for
  missed     \* history: an answer of the server did not reach it

node    == <<os, boot, deploys, imaged>>
request == <<claims, faults, calls, op, want>>
machine == <<node, inventory, request, pc, missed>>

\* "idle": it was never called, or the node was stopped.
Ended == {"idle", "skipped", "refused", "failed", "killed", "success"}

MachineTypeOK ==
  /\ os \in OSes \cup {Nothing}
  /\ boot \in {"off", "hung", "installer", "os"}
  /\ deploys \subseteq [call : 0..MaxCalls, os : OSes \cup {Nothing}]
  /\ inventory \in OSes \cup {Nothing}
  /\ claims \subseteq {"fog", "maas", "pelagos"}
  /\ faults \in FaultSets
  /\ calls \in 0..MaxCalls /\ op \in {"create", "stop"}
  /\ want \in Wants
  /\ imaged \in BOOLEAN /\ missed \in BOOLEAN

MachineInit ==
  /\ os \in OSes /\ boot = "os" /\ deploys = {} /\ imaged = FALSE
  /\ inventory = os
  /\ claims \in SUBSET {"fog", "maas", "pelagos"}
  /\ faults \in FaultSets
  /\ calls = 0 /\ op = "create" /\ pc = "idle" /\ want \in Wants /\ missed = FALSE

Fault(f) == f \in faults /\ calls < MaxCalls

Uses(provisioner) == claims = {provisioner}

At(provisioner, step) == Uses(provisioner) /\ pc = step

\* The current call goes on with step; nothing else of it changes.
Goto(step) == pc' = step /\ UNCHANGED <<request, missed, inventory>>

\* It goes on after an answer of the server got lost.
GotoMissed(step) ==
  pc' = step /\ missed' = TRUE /\ UNCHANGED <<request, inventory>>

---------------------------------------------------------------------------
\* What the node and the server do.

\* What a node runs after it was switched on: FOG boots it over the network.
Booted == IF deploys = {} THEN "os" ELSE "installer"

\* An installer that is broken off has written all, or nothing of use.
BrokenOff == IF boot = "installer" THEN {os, Nothing} ELSE {os}

\* Deployment d is written to the disk, and the node boots from there.
Written(d) ==
  /\ os' = d.os
  /\ deploys' = deploys \ {d}
  /\ boot' = IF deploys' = {} THEN "os" ELSE "installer"
  /\ imaged' = (imaged \/ d.call = calls)

\* The server accepts the current call's deployment of what.
Accepted(what) == deploys' = deploys \cup {[call |-> calls, os |-> what]}

\* ssh works.
Reachable == boot = "os" /\ os # Nothing

\* PhysicalConsole.set_power, which power_off calls in a try: `except: pass`.
power_off ==
  /\ \/ boot' = "off" /\ os' \in BrokenOff
     \/ Fault("power") /\ UNCHANGED <<boot, os>>
  /\ UNCHANGED <<deploys, imaged>>

\* The same of power_on, which raises when it is not told that the power is on.
power_on ==
  /\ boot' = IF boot = "off" THEN Booted ELSE boot
  /\ UNCHANGED <<os, deploys, imaged>>

power_on_raises ==
  /\ Fault("power")
  /\ boot' \in {boot, IF boot = "off" THEN Booted ELSE boot}
  /\ UNCHANGED <<os, deploys, imaged>>

\* The job that has the node reboots it.
Reboot ==
  /\ pc = "success"
  /\ \/ boot = "os" /\ boot' = "off"
     \/ boot = "off" /\ boot' = Booted
  /\ UNCHANGED <<os, deploys, imaged, inventory, request, pc, missed>>
=============================================================================
