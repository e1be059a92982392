------------------------------ MODULE Parallel ------------------------------
(***************************************************************************)
(* teuthology/parallel.py: the `with parallel() as p` context manager that *)
(* unlock_safe, reimage_machines and many tasks use to run functions in    *)
(* gevent greenlets.  One block is modelled: its body spawns every member  *)
(* of Funcs, may then iterate over the results, and __exit__ drains what   *)
(* is left.                                                                *)
(*                                                                         *)
(* gevent is cooperative: a greenlet, or the link callback that runs when  *)
(* one ends, gets the processor only while the main greenlet has given it  *)
(* up, i.e. while it blocks in the body, blocks in results.get(), or has   *)
(* left the block.                                                         *)
(***************************************************************************)
EXTENDS Integers, Sequences, FiniteSets

CONSTANT Funcs \* the functions the body passes to p.spawn

ASSUME FuncsAssumption == IsFiniteSet(Funcs)

VARIABLES
  blocks,           \* does the body give up the processor between two spawns?
                    \* FALSE in unlock_safe; TRUE in reimage_machines, whose
                    \* loop does HTTP requests (update_nodes) between them
  iterates,         \* does the body end with `return all(p)`, as unlock_safe?
  pc,               \* where the main greenlet is
  greenlet,         \* the state of the greenlet of each function
  outcome,          \* what each function returned or raised
  results,          \* self.results
  count,            \* self.count
  any_spawned,      \* self.any_spawned
  iteration_stopped \* self.iteration_stopped

bodyVars == <<blocks, iterates>>   \* what kind of body it is; never changed
vars == <<bodyVars, pc, greenlet, outcome, results, count, any_spawned, iteration_stopped>>

Outcomes == {"true", "false", "error"}   \* truthy value, falsy value, exception
StopItem == "StopIteration"
Items    == Outcomes \cup {StopItem}

Blocked  == {"body_blocked", "iter_blocked", "exit_blocked"}
Left     == {"returned", "raised"}
PCs      == {"body", "iter", "exit"} \cup Blocked \cup Left

Init ==
  /\ blocks \in BOOLEAN /\ iterates \in BOOLEAN
  /\ pc = "body"
  /\ greenlet = [f \in Funcs |-> "unspawned"]
  /\ outcome = [f \in Funcs |-> "none"]
  /\ results = <<>>
  /\ count = 0
  /\ any_spawned = FALSE
  /\ iteration_stopped = FALSE

-----------------------------------------------------------------------------
(* The body of the with block.                                             *)

spawn(f) ==
  /\ pc = "body"
  /\ greenlet[f] = "unspawned"
  /\ count' = count + 1
  /\ any_spawned' = TRUE
  /\ greenlet' = [greenlet EXCEPT ![f] = "started"]
  /\ UNCHANGED <<pc, outcome, results, iteration_stopped, bodyVars>>

\* A blocking call between two spawns: it returns, or raises out of the body;
\* __exit__ then sees a value and returns False without draining.
BodyBlock ==
  /\ blocks
  /\ pc = "body"
  /\ \E f \in Funcs : greenlet[f] = "unspawned"
  /\ pc' = "body_blocked"
  /\ UNCHANGED <<greenlet, outcome, results, count, any_spawned, iteration_stopped, bodyVars>>

BodyResume ==
  /\ pc = "body_blocked"
  /\ pc' \in {"body", "raised"}
  /\ UNCHANGED <<greenlet, outcome, results, count, any_spawned, iteration_stopped, bodyVars>>

BodyEnd ==
  /\ pc = "body"
  /\ \A f \in Funcs : greenlet[f] # "unspawned"
  /\ pc' = IF iterates THEN "iter" ELSE "exit"
  /\ UNCHANGED <<greenlet, outcome, results, count, any_spawned, iteration_stopped, bodyVars>>

-----------------------------------------------------------------------------
(* __next__, called by all(p) in the body and by the loop in __exit__.     *)

\* What the caller does when __next__ stops: all(p) returns, so the with block
\* ends and __exit__ runs; the loop of __exit__ ends, so the block is left.
AfterStop == IF pc = "iter" THEN "exit" ELSE "returned"

\* Nothing was spawned, or StopIteration was seen before.
NextStops ==
  /\ pc \in {"iter", "exit"}
  /\ ~any_spawned \/ iteration_stopped
  /\ pc' = AfterStop
  /\ UNCHANGED <<greenlet, outcome, results, count, any_spawned, iteration_stopped, bodyVars>>

\* Mutant of NextTakes: the exception a function raised is not raised again.
NextTakesQuietly ==
  /\ pc \in {"iter", "exit"}
  /\ any_spawned /\ ~iteration_stopped
  /\ results # <<>>
  /\ results' = Tail(results)
  /\ iteration_stopped' = (Head(results) = StopItem)
  /\ pc' = IF Head(results) = StopItem THEN AfterStop ELSE "exit"
  /\ UNCHANGED <<greenlet, outcome, count, any_spawned, bodyVars>>

\* results.get() finds an item: resurrect_traceback raises what it holds.
NextTakes ==
  /\ pc \in {"iter", "exit"}
  /\ any_spawned /\ ~iteration_stopped
  /\ results # <<>>
  /\ results' = Tail(results)
  /\ iteration_stopped' = (Head(results) = StopItem)
  /\ pc' = CASE Head(results) = StopItem -> AfterStop
             [] Head(results) = "error"  -> "raised"
             [] Head(results) = "false"  -> "exit"    \* all(p) short-circuits
             [] Head(results) = "true"   -> pc
  /\ UNCHANGED <<greenlet, outcome, count, any_spawned, bodyVars>>

\* results.get() finds the queue empty and switches to the hub.
NextBlocks ==
  /\ pc \in {"iter", "exit"}
  /\ any_spawned /\ ~iteration_stopped
  /\ results = <<>>
  /\ pc' = IF pc = "iter" THEN "iter_blocked" ELSE "exit_blocked"
  /\ UNCHANGED <<greenlet, outcome, results, count, any_spawned, iteration_stopped, bodyVars>>

NextResumes ==
  /\ pc \in {"iter_blocked", "exit_blocked"}
  /\ results # <<>>
  /\ pc' = IF pc = "iter_blocked" THEN "iter" ELSE "exit"
  /\ UNCHANGED <<greenlet, outcome, results, count, any_spawned, iteration_stopped, bodyVars>>

-----------------------------------------------------------------------------
(* The greenlets and their link callbacks, run by the hub.                 *)

HubRuns == pc \in Blocked \cup Left

\* capture_traceback(func): func returns, or the exception it raises is held.
Finish(f) ==
  /\ HubRuns
  /\ greenlet[f] = "started"
  /\ greenlet' = [greenlet EXCEPT ![f] = "finished"]
  /\ \E o \in Outcomes : outcome' = [outcome EXCEPT ![f] = o]
  /\ UNCHANGED <<pc, results, count, any_spawned, iteration_stopped, bodyVars>>

\* Mutant of _finish: off by one, the last callback does not stop the results.
_finish_late(f) ==
  /\ HubRuns
  /\ greenlet[f] = "finished"
  /\ greenlet' = [greenlet EXCEPT ![f] = "linked"]
  /\ count' = count - 1
  /\ results' = results \o (IF count' < 0 THEN <<outcome[f], StopItem>>
                                         ELSE <<outcome[f]>>)
  /\ UNCHANGED <<pc, outcome, any_spawned, iteration_stopped, bodyVars>>

_finish(f) ==
  /\ HubRuns
  /\ greenlet[f] = "finished"
  /\ greenlet' = [greenlet EXCEPT ![f] = "linked"]
  /\ count' = count - 1
  /\ results' = results \o (IF count' <= 0 THEN <<outcome[f], StopItem>>
                                          ELSE <<outcome[f]>>)
  /\ UNCHANGED <<pc, outcome, any_spawned, iteration_stopped, bodyVars>>

-----------------------------------------------------------------------------
Main == \/ \E f \in Funcs : spawn(f)
        \/ BodyBlock \/ BodyResume \/ BodyEnd
        \/ NextStops \/ NextTakes \/ NextBlocks \/ NextResumes

Hub == \E f \in Funcs : Finish(f) \/ _finish(f)

Next == Main \/ Hub

\* The hub runs whatever is runnable; every spawned function ends, which is
\* what the caller of parallel() relies on; the main greenlet is scheduled, and
\* the body blocks only so often before it spawns the next function.
Fairness == /\ WF_vars(Main)
            /\ SF_vars(\E f \in Funcs : spawn(f))
            /\ \A f \in Funcs : WF_vars(Finish(f)) /\ WF_vars(_finish(f))

Spec     == Init /\ [][Next]_vars
FairSpec == Spec /\ Fairness

-----------------------------------------------------------------------------
(* Docstring of class parallel: "At the end of the with block, the main    *)
(* thread waits until all spawned functions have completed".               *)
WaitsForAll ==
  pc = "returned" => \A f \in Funcs : greenlet[f] \in {"finished", "linked"}

(* Docstring: "If one of the spawned functions throws an exception, it     *)
(* will be thrown when iterating over the results, or when the with block  *)
(* ends": a block that returned normally hides no exception.               *)
NoErrorLost ==
  pc = "returned" => \A f \in Funcs : outcome[f] # "error"

(* The block as its callers see it: which functions have returned a value, *)
(* which have raised, and how the block was left.                          *)
Abstract == INSTANCE ForkJoin WITH
  ok      <- {f \in Funcs : outcome[f] \in {"true", "false"}},
  failed  <- {f \in Funcs : outcome[f] = "error"},
  verdict <- IF pc \in Left /\ ~blocks THEN pc ELSE "open"

(* A block whose body does not block between spawns is a fork-join: it     *)
(* returns only when every function has ended without an exception, and    *)
(* raises only if one raised.  (WaitsForAll fails for the others: how they *)
(* are left is hidden.)                                                    *)
ImplementsForkJoin == Abstract!Spec

(* Docstring: "... or, if one exited with an exception, kills the rest and *)
(* raises the exception."  (A body that raises while it blocks is left     *)
(* out: its exception is not that of a spawned function.)                  *)
KillsTheRest ==
  pc = "raised" /\ ~blocks => \A f \in Funcs : greenlet[f] # "started"

(* The with block is left, whatever the functions do.                      *)
LeavesBlock == <>(pc \in Left)
=============================================================================
