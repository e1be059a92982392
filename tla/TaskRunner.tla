----------------------------- MODULE TaskRunner -----------------------------
(***************************************************************************)
(* How a job runs its tasks: run_tasks.py keeps a stack of the context     *)
(* managers its tasks return, and unwinds it at the end.  The same is done *)
(* by contextutil.nested for what a task is made of, by the task           *)
(* 'sequential' (and 'loop') for a group of tasks, and for one task after  *)
(* the other by 'full_sequential' (and each task of 'parallel'); they      *)
(* differ in what they do with exceptions.                                 *)
(***************************************************************************)
EXTENDS Naturals, Sequences

CONSTANTS
  Runners,  \* which of the implementations this run looks at
  N,        \* the number of tasks
  Faults    \* which of the FaultKinds may happen

\* Exceptions: ConnectionLostError, another Exception, and a BaseException that
\* is none (KeyboardInterrupt, SystemExit); "none" is (None, None, None).
Exceptions == {"lost", "error", "base"}
FaultKinds == {"enter", "exit", "base_exit", "flag", "notify"}

ASSUME TaskRunnerAssumption ==
  /\ Runners \subseteq {"run_tasks", "nested", "sequential", "full_sequential"}
  /\ N \in Nat
  /\ Faults \subseteq FaultKinds

VARIABLES
  runner,   \* the implementation at work
  pc,
  next,     \* the task to run next
  stack,    \* the managers that are to be exited
  exc,      \* what the __exit__ methods are given
  flying,   \* the exception that is on its way out of the runner
  yielded,  \* nested: its body has been run
  status,   \* ctx.summary['status'], "pass" for success=True
  last      \* history: the last of a failure and a quenched exception

vars == <<runner, pc, next, stack, exc, flying, yielded, status, last>>

Tasks == 1..N
Init ==
  /\ runner \in Runners
  /\ pc = "tasks"
  /\ next = 1
  /\ stack = <<>>
  /\ exc = "none" /\ flying = "none"
  /\ yielded = FALSE
  /\ status = "pass"
  /\ last = "none"

-----------------------------------------------------------------------------
(* Running the tasks                                                       *)

\* A task that is a plain function.
run_one_task ==
  /\ pc = "tasks"
  /\ next \in Tasks
  /\ next' = next + 1
  /\ UNCHANGED <<runner, pc, stack, exc, flying, yielded, status, last>>

\* A task whose manager is entered; full_sequential exits it at once.
enter ==
  /\ pc = "tasks"
  /\ next \in Tasks
  /\ next' = next + 1
  /\ stack' = Append(stack, next)
  /\ pc' = IF runner = "full_sequential" THEN "unwind" ELSE "tasks"
  /\ UNCHANGED <<runner, exc, flying, yielded, status, last>>

\* set_status after an exception.  A status of 'dead' is kept while the tasks
\* are run; it may also come from the task itself (check_packages).
Summarize(e, keep_dead) ==
  status' \in IF e = "lost" THEN {"dead"}
              ELSE IF ~keep_dead THEN {"fail"}
              ELSE IF status = "dead" THEN {"dead"} ELSE {"fail", "dead"}

\* An exception e while the tasks are run.  run_tasks catches all of
\* them; its `finally` then finds sys.exc_info() empty.  nested catches and
\* keeps an Exception; the others have no except clause.
Caught(e) ==
  IF runner = "run_tasks"
  THEN /\ Summarize(e, TRUE)
       /\ exc' = "none"
       /\ flying' = "none"
       /\ pc' = "before_teardown"
  ELSE /\ UNCHANGED status
       /\ pc' = "unwind"
       /\ exc' = IF runner = "nested" /\ e = "base" THEN "none" ELSE e
       /\ flying' = IF runner = "nested" /\ e # "base" THEN "none" ELSE e

\* The task or the __enter__ of its manager raises.  run_tasks has put the
\* manager on the stack before, full_sequential exits it in any case.
enter_fails ==
  /\ "enter" \in Faults
  /\ pc = "tasks"
  /\ next \in Tasks
  /\ next' = next + 1
  /\ \E e \in Exceptions : Caught(e)
  /\ \/ UNCHANGED stack
     \/ runner \in {"run_tasks", "full_sequential"} /\ stack' = Append(stack, next)
  /\ last' = "failed"
  /\ UNCHANGED <<runner, yielded>>

tasks_done ==
  /\ pc = "tasks"
  /\ next = N + 1
  /\ pc' = CASE runner = "run_tasks" -> "before_teardown"
             [] runner = "nested"    -> "body"
             [] OTHER                -> "unwind"
  /\ UNCHANGED <<runner, next, stack, exc, flying, yielded, status, last>>

\* nested yields; what runs in its with block raises, or does not.
body ==
  /\ pc = "body"
  /\ yielded' = TRUE
  /\ \/ /\ pc' = "unwind"
        /\ UNCHANGED <<exc, flying, status, last>>
     \/ /\ "enter" \in Faults
        /\ \E e \in Exceptions : Caught(e)
        /\ last' = "failed"
  /\ UNCHANGED <<runner, next, stack>>

-----------------------------------------------------------------------------
(* Unwinding                                                               *)

\* sleep_before_teardown: the mail or the chat message about it may fail, in
\* the `finally`, before the stack is looked at.
before_teardown ==
  /\ pc = "before_teardown"
  /\ \/ pc' = "unwind" /\ UNCHANGED <<flying, last>>
     \/ "notify" \in Faults /\ pc' = "ended" /\ flying' = "error" /\ last' = "failed"
  /\ UNCHANGED <<runner, next, stack, exc, yielded, status>>

Pop == stack' = SubSeq(stack, 1, Len(stack) - 1)

\* What an __exit__ that returns may have done: nothing, a status of its own
\* (coredump, syslog; the other runners have no view of it), or a quenched
\* exception, which only run_tasks and nested allow.
Exited ==
  \/ UNCHANGED <<exc, status, last>>
  \/ /\ "flag" \in Faults
     /\ runner = "run_tasks"
     /\ status' = "fail"
     /\ last' = "failed"
     /\ UNCHANGED exc
  \/ /\ runner \in {"run_tasks", "nested"}
     /\ exc # "none"
     /\ exc' = "none"
     /\ last' = "quenched"
     /\ UNCHANGED status

\* Mutant of exit: in the order the managers were entered.
exit_in_order ==
  /\ pc = "unwind"
  /\ stack # <<>>
  /\ stack' = Tail(stack)
  /\ Exited
  /\ UNCHANGED <<runner, pc, next, flying, yielded>>

\* An __exit__ returns.
exit ==
  /\ pc = "unwind"
  /\ stack # <<>>
  /\ Pop
  /\ Exited
  /\ UNCHANGED <<runner, pc, next, flying, yielded>>

\* Mutant of exit_fails: the exception of an __exit__ is logged only.
exit_fails_quietly ==
  /\ pc = "unwind"
  /\ stack # <<>>
  /\ "exit" \in Faults
  /\ Pop
  /\ last' = "failed"
  /\ UNCHANGED <<runner, pc, next, exc, flying, yielded, status>>

\* An __exit__ raises an Exception.  run_tasks and nested go on with the next
\* manager, sequential leaves the rest.
exit_fails ==
  /\ pc = "unwind"
  /\ stack # <<>>
  /\ "exit" \in Faults
  /\ Pop
  /\ last' = "failed"
  /\ \E e \in {"lost", "error"} :
       \/ /\ runner = "run_tasks"
          /\ Summarize(e, FALSE)
          /\ exc' = IF exc = "none" THEN e ELSE exc
          /\ UNCHANGED <<pc, flying>>
       \/ /\ runner = "nested"
          /\ exc' = e
          /\ UNCHANGED <<pc, flying, status>>
       \/ /\ runner \in {"sequential", "full_sequential"}
          /\ flying' = e
          /\ pc' = IF runner = "sequential" THEN "ended" ELSE "unwind"
          /\ UNCHANGED <<exc, status>>
  /\ UNCHANGED <<runner, next, yielded>>

\* An __exit__ raises what is no Exception: nobody catches it.
exit_interrupted ==
  /\ pc = "unwind"
  /\ stack # <<>>
  /\ "base_exit" \in Faults
  /\ Pop
  /\ flying' = "base"
  /\ pc' = "ended"
  /\ last' = "failed"
  /\ UNCHANGED <<runner, next, exc, yielded, status>>

\* Mutant of finish: nested raises nothing.
finish_quietly ==
  /\ pc = "unwind"
  /\ stack = <<>>
  /\ pc' = IF runner = "full_sequential" /\ flying = "none" /\ next \in Tasks
           THEN "tasks" ELSE "ended"
  /\ flying' = IF runner = "run_tasks" /\ exc # "none" THEN "base" ELSE flying
  /\ UNCHANGED <<runner, next, stack, exc, yielded, status, last>>

\* run_tasks raises SystemExit(1) if an exception is left, nested raises what is
\* left; a nested that never got to its yield is an error to contextlib.
finish ==
  /\ pc = "unwind"
  /\ stack = <<>>
  /\ pc' = IF runner = "full_sequential" /\ flying = "none" /\ next \in Tasks
           THEN "tasks" ELSE "ended"
  /\ flying' = CASE runner = "run_tasks" /\ exc # "none"  -> "base"
                 [] runner = "nested" /\ exc # "none"     -> exc
                 [] runner = "nested" /\ exc = "none" /\ flying = "none" /\ ~yielded -> "error"
                 [] OTHER                                 -> flying
  /\ UNCHANGED <<runner, next, stack, exc, yielded, status, last>>

Next ==
  \/ run_one_task \/ enter \/ enter_fails \/ tasks_done \/ body
  \/ before_teardown \/ exit \/ exit_fails \/ exit_interrupted \/ finish

Spec == Init /\ [][Next]_vars

-----------------------------------------------------------------------------
(* The managers are exited in the reverse order of their entering, none    *)
(* twice, and none is entered while others are being exited, by each of    *)
(* the runners and in spite of failures (docs/detailed_test_config.rst).   *)
Stack == INSTANCE ManagerStack WITH
  open      <- stack,
  unwinding <- pc \in {"body", "before_teardown", "unwind"},
  over      <- pc = "ended"

ImplementsManagerStack == Stack!Spec

(* run_tasks: a job passes, and its runner returns, just when no task and  *)
(* no manager failed: one whose failure was quenched does not pass either. *)
PassIsEarned ==
  pc = "ended" /\ runner = "run_tasks" =>
    (status = "pass" /\ flying = "none" <=> last = "none")

(* A failure that no manager has quenched, and a manager that was not      *)
(* exited, show: in the summary, or as an exception for the caller.        *)
FailureShows ==
  pc = "ended" /\ (last = "failed" \/ stack # <<>>) =>
    flying # "none" \/ status # "pass"

(* run_tasks.py: "if first failure is in an __exit__, we don't have        *)
(* exc_info set yet".  When it is in a task, the managers are told of it.  *)
ToldOfFailure ==
  pc = "unwind" /\ stack # <<>> /\ last = "failed" => exc # "none" \/ flying # "none"
=============================================================================
