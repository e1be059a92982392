------------------------------ MODULE ForkJoin ------------------------------
(***************************************************************************)
(* What the callers of parallel() count on, whatever happens inside: the   *)
(* functions end in some order; the block is left exactly once, normally   *)
(* only after every function has ended without an exception, and with an   *)
(* exception only if some function raised one.                             *)
(***************************************************************************)
CONSTANT Funcs
VARIABLES ok, failed, verdict

vars == <<ok, failed, verdict>>

Init == ok = {} /\ failed = {} /\ verdict = "open"

End(f) == /\ f \notin ok \cup failed
          /\ \/ ok' = ok \cup {f} /\ UNCHANGED failed
             \/ failed' = failed \cup {f} /\ UNCHANGED ok
          /\ UNCHANGED verdict

Return == /\ verdict = "open"
          /\ ok = Funcs
          /\ verdict' = "returned"
          /\ UNCHANGED <<ok, failed>>

Raise  == /\ verdict = "open"
          /\ failed # {}
          /\ verdict' = "raised"
          /\ UNCHANGED <<ok, failed>>

Next == (\E f \in Funcs : End(f)) \/ Return \/ Raise
Spec == Init /\ [][Next]_vars
=============================================================================
