-------------------------------- MODULE Maas --------------------------------
(***************************************************************************)
(* provision/maas.py: MAAS.create and MAAS.release with what they call,    *)
(* one step for each request.  MAAS gives the node a status, changes it as *)
(* it is told, and refuses what the status does not allow.                 *)
(***************************************************************************)
EXTENDS Machine

VARIABLES
  status, \* the machine's status_name
  locked  \* locked machines are not released

maas == <<status, locked>>

Statuses == {"new", "ready", "allocated", "deploying", "deployed",
             "failed deployment", "releasing", "broken"}

MaasSteps == {"release", "unlock", "op_release", "wait_ready", "deploy",
              "wait_deployed", "abort_deploy", "op_abort", "lock", "verify_os"}

MaasTypeOK == status \in Statuses /\ locked \in BOOLEAN

MaasInit ==
  /\ status \in IF Uses("maas") THEN Statuses \ {"deploying", "releasing"} ELSE {"new"}
  /\ locked \in {status = "deployed", FALSE}

AtMaas(step) == At("maas", step)

\* A request raises outside of create's try.
MaasRaises ==
  /\ \E step \in {"create", "release", "unlock", "op_release", "wait_ready",
                  "abort_deploy", "op_abort", "lock"} : AtMaas(step)
  /\ Fault("request")
  /\ GotoMissed("failed") /\ UNCHANGED <<node, maas>>

\* What create does with the status it reads.
CreateStep == [s \in Statuses |->
  CASE s \in {"deployed", "failed deployment"} -> "release"
    [] s \in {"ready", "allocated"}            -> "deploy"
    [] OTHER                                   -> "refused"]

maas_create ==
  /\ AtMaas("create")
  /\ Goto(CreateStep[status]) /\ UNCHANGED <<node, maas>>

\* What follows a release: create deploys.
Released == IF op = "stop" THEN "idle" ELSE "deploy"

\* What release does with the status, and the lock, it reads.
ReleaseStep == [s \in Statuses |->
  CASE s \in {"new", "allocated", "ready"} -> Released
    [] s = "deploying"                     -> "abort_deploy"
    [] s = "deployed" /\ locked            -> "unlock"
    [] s = "deployed" /\ ~locked           -> "op_release"
    [] s = "failed deployment"             -> "op_release"
    [] OTHER                               -> "failed"]

\* Mutant: a locked machine is released as it is.
release_locked ==
  /\ AtMaas("release")
  /\ Goto(IF status = "deployed" THEN "op_release" ELSE ReleaseStep[status])
  /\ UNCHANGED <<node, maas>>

\* Mutant: a machine that is being deployed is taken for released.
release_deploying ==
  /\ AtMaas("release")
  /\ Goto(IF status = "deploying" THEN Released ELSE ReleaseStep[status])
  /\ UNCHANGED <<node, maas>>

release ==
  /\ AtMaas("release")
  /\ Goto(ReleaseStep[status])
  /\ UNCHANGED <<node, maas>>

unlock_machine ==
  /\ AtMaas("unlock")
  /\ locked' = FALSE
  /\ Goto("op_release")
  /\ UNCHANGED <<node, status>>

\* The server refuses to release a locked machine.
release_machine ==
  /\ AtMaas("op_release")
  /\ status' = IF locked THEN status ELSE "releasing"
  /\ boot' = IF locked THEN boot ELSE "off"
  /\ Goto(IF locked THEN "failed" ELSE "wait_ready")
  /\ UNCHANGED <<os, deploys, imaged, locked>>

wait_for_ready_status ==
  /\ AtMaas("wait_ready")
  /\ \/ status = "ready" /\ Goto(Released)
     \/ Fault("timeout") /\ Goto("failed")
  /\ UNCHANGED <<node, maas>>

\* A missing image, and whatever is raised while deploying, ends in the except clause.
deploy_machine ==
  /\ AtMaas("deploy")
  /\ \/ Image[want] = Nothing /\ Goto("abort_deploy") /\ UNCHANGED <<boot, deploys, status>>
     \/ /\ Image[want] # Nothing
        /\ Accepted(Image[want]) /\ status' = "deploying" /\ boot' = "installer"
        /\ Goto("wait_deployed")
     \/ Fault("request") /\ GotoMissed("abort_deploy") /\ UNCHANGED <<boot, deploys, status>>
     \/ /\ Fault("request") /\ Image[want] # Nothing
        /\ Accepted(Image[want]) /\ status' = "deploying" /\ boot' = "installer"
        /\ GotoMissed("abort_deploy")
  /\ UNCHANGED <<os, imaged, locked>>

\* It waits for "Deployed" also when the deployment has failed.
wait_for_deployed ==
  /\ AtMaas("wait_deployed")
  /\ \/ status = "deployed" /\ Goto("lock")
     \/ status # "deployed" /\ Fault("timeout") /\ Goto("abort_deploy")
     \/ Fault("request") /\ GotoMissed("abort_deploy")
  /\ UNCHANGED <<node, maas>>

\* What follows abort_deploy: release goes on, create raises.
Aborted == IF op = "stop" THEN "op_release" ELSE
           IF Image[want] = Nothing THEN "refused" ELSE "failed"

\* abort_deploy reads the status, and then aborts: the deployment may have ended.
abort_deploy ==
  /\ AtMaas("abort_deploy")
  /\ Goto(IF status = "deploying" THEN "op_abort" ELSE Aborted)
  /\ UNCHANGED <<node, maas>>

\* With _wait_for_status("allocated"), which may time out.
op_abort ==
  /\ AtMaas("op_abort")
  /\ \/ /\ status = "deploying"
        /\ status' = "allocated" /\ deploys' = {} /\ boot' = "off" /\ os' \in BrokenOff
        /\ Goto(Aborted) \/ (Fault("timeout") /\ Goto("failed"))
     \/ /\ status # "deploying"
        /\ Goto("failed") /\ UNCHANGED <<status, deploys, boot, os>>
  /\ UNCHANGED <<imaged, locked>>

lock_machine ==
  /\ AtMaas("lock")
  /\ locked' = TRUE
  /\ \/ Goto("verify_os")
     \/ Fault("request") /\ GotoMissed("failed")
  /\ UNCHANGED <<node, status>>

maas_verify_installed_os ==
  /\ AtMaas("verify_os")
  /\ \/ Reachable /\ Goto(IF os = Image[want] THEN "record" ELSE "failed")
     \/ (~Reachable \/ Fault("ssh")) /\ Goto("failed")
  /\ UNCHANGED <<node, maas>>

MaasCall ==
  \/ MaasRaises \/ maas_create \/ release \/ unlock_machine \/ release_machine
  \/ wait_for_ready_status \/ deploy_machine \/ wait_for_deployed
  \/ abort_deploy \/ op_abort \/ lock_machine \/ maas_verify_installed_os

\* The server ends a deployment, or a release.
MaasServer ==
  /\ \/ \E d \in deploys : Written(d) /\ status' = "deployed"
     \/ /\ Fault("install") /\ status = "deploying"
        /\ status' = "failed deployment" /\ deploys' = {}
        /\ os' = Nothing /\ boot' = "hung" /\ UNCHANGED imaged
     \/ status = "releasing" /\ status' = "ready" /\ UNCHANGED node
  /\ Uses("maas")
  /\ UNCHANGED <<inventory, request, pc, missed, locked>>
=============================================================================
