---------------------------- MODULE MCProvision -----------------------------
(* Provision with small values.                                            *)
EXTENDS Provision, TLC

CONSTANTS o1, o2

\* One version is asked for by its major number and stands for o2, one has no image.
MCImage == "o1" :> o1 @@ "o2" :> o2 @@ "major" :> o2 @@ "none" :> Nothing

\* power_off that fails unseen is not combined with a task whose id is not known, or
\* that is taken for ended: FOG.create returns then without having deployed.
MCFaults == { {"request", "power", "timeout", "install", "ssh", "kill"},
              {"request", "unparsable", "late", "timeout", "install", "ssh", "kill"} }
=============================================================================
