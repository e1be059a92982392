---------------------------- MODULE ManagerStack ----------------------------
(***************************************************************************)
(* What docs/detailed_test_config.rst promises about the context managers  *)
(* of tasks: each one "added to a stack, and the stack will be unwound",   *)
(* "in reverse order, both on success and failure".                        *)
(***************************************************************************)
EXTENDS Naturals, Sequences

CONSTANT Tasks
VARIABLES open, unwinding, over

vars == <<open, unwinding, over>>

Init == open = <<>> /\ unwinding = FALSE /\ over = FALSE

Open(t) ==
  /\ ~unwinding /\ ~over
  /\ open' = Append(open, t)
  /\ UNCHANGED over
  /\ unwinding' \in BOOLEAN   \* the first failure, or the last task

Unwind ==
  /\ ~unwinding /\ ~over
  /\ unwinding' = TRUE
  /\ UNCHANGED <<open, over>>

Close ==
  /\ unwinding
  /\ open # <<>>
  /\ open' = SubSeq(open, 1, Len(open) - 1)
  /\ UNCHANGED <<unwinding, over>>

\* Nothing is open any more: the end, or the next group of tasks.
AllClosed ==
  /\ unwinding
  /\ open = <<>>
  /\ unwinding' = FALSE
  /\ over' \in BOOLEAN
  /\ UNCHANGED open

\* The runner is interrupted: nothing is opened or closed any more.
Abandon ==
  /\ unwinding
  /\ over' = TRUE
  /\ unwinding' = FALSE
  /\ open' \in {open, SubSeq(open, 1, Len(open) - 1)}

Next == (\E t \in Tasks : Open(t)) \/ Unwind \/ Close \/ AllClosed \/ Abandon

Spec == Init /\ [][Next]_vars
=============================================================================
