-------------------------- MODULE TaskRunner_proofs --------------------------
(***************************************************************************)
(* For any number of tasks, any of the runners and any faults: what        *)
(* run_tasks says of a job is true, no runner hides a failure, and all     *)
(* exit their managers in the reverse order.                               *)
(***************************************************************************)
EXTENDS TaskRunner, TLAPS

AllRunners == {"run_tasks", "nested", "sequential", "full_sequential"}

\* A run without failures has left no trace.
QuietInv == runner = "run_tasks" /\ last = "none" => status = "pass" /\ exc = "none" /\ flying = "none"

\* Whatever went wrong in run_tasks is in the summary, or ended it; and the
\* managers are told of nothing that is not in the summary.
SummaryInv ==
  runner = "run_tasks" =>
    /\ last # "none" => status # "pass" \/ (pc = "ended" /\ flying # "none")
    /\ exc # "none" => status # "pass"

\* A manager that is left on the stack was left by an exception.
AbandonInv == pc = "ended" /\ stack # <<>> => flying # "none"

\* The other runners hold the exception: nested keeps one while it unwinds.
HeldInv ==
  last = "failed" =>
    /\ runner \in {"sequential", "full_sequential"} => flying # "none"
    /\ runner = "nested" => flying # "none" \/ (pc # "ended" /\ exc # "none")

IInv ==
  /\ runner \in AllRunners
  /\ QuietInv /\ SummaryInv /\ AbandonInv /\ HeldInv

-----------------------------------------------------------------------------
LEMMA InitIInv == Init => IInv
  BY TaskRunnerAssumption
  DEF Init, IInv, AllRunners, QuietInv, SummaryInv, AbandonInv, HeldInv

\* Steps that meet no failure.
LEMMA PlainStep ==
  ASSUME IInv, run_one_task \/ enter \/ tasks_done
  PROVE  IInv'
  BY DEF run_one_task, enter, tasks_done, IInv, AllRunners, QuietInv, SummaryInv, AbandonInv, HeldInv

\* An exception while the tasks, or the body of nested, are run.
LEMMA CaughtStep ==
  ASSUME IInv, NEW e \in Exceptions, Caught(e), last' = "failed", runner' = runner
  PROVE  IInv'
  <1>1. CASE runner = "run_tasks"
    BY <1>1 DEF Caught, Summarize, IInv, AllRunners, QuietInv, SummaryInv, AbandonInv, HeldInv
  <1>2. CASE runner # "run_tasks"
    BY <1>2 DEF Caught, Exceptions, IInv, AllRunners, QuietInv, SummaryInv, AbandonInv, HeldInv
  <1> QED BY <1>1, <1>2

LEMMA EnterFailsStep ==
  ASSUME IInv, enter_fails
  PROVE  IInv'
  BY CaughtStep DEF enter_fails

LEMMA BodyStep ==
  ASSUME IInv, body
  PROVE  IInv'
  <1>1. CASE pc' = "unwind" /\ UNCHANGED <<exc, flying, status, last>>
    BY <1>1 DEF body, IInv, AllRunners, QuietInv, SummaryInv, AbandonInv, HeldInv
  <1>2. CASE \E e \in Exceptions : Caught(e) /\ last' = "failed"
    BY <1>2, CaughtStep DEF body
  <1> QED BY <1>1, <1>2 DEF body

LEMMA TeardownStep ==
  ASSUME IInv, before_teardown
  PROVE  IInv'
  BY DEF before_teardown, IInv, AllRunners, QuietInv, SummaryInv, AbandonInv, HeldInv

\* An exit that returns, with what it may have done on the way.
LEMMA ExitStep ==
  ASSUME IInv, exit
  PROVE  IInv'
  BY DEF exit, Exited, IInv, AllRunners, QuietInv, SummaryInv, AbandonInv, HeldInv

LEMMA ExitFailsStep ==
  ASSUME IInv, exit_fails
  PROVE  IInv'
  <1>1. CASE runner = "run_tasks"
    BY <1>1 DEF exit_fails, Summarize, IInv, AllRunners, QuietInv, SummaryInv, AbandonInv, HeldInv
  <1>2. CASE runner = "nested"
    BY <1>2 DEF exit_fails, IInv, AllRunners, QuietInv, SummaryInv, AbandonInv, HeldInv
  <1>3. CASE runner \in {"sequential", "full_sequential"}
    BY <1>3 DEF exit_fails, IInv, AllRunners, QuietInv, SummaryInv, AbandonInv, HeldInv
  <1> QED BY <1>1, <1>2, <1>3 DEF IInv, AllRunners

LEMMA InterruptedStep ==
  ASSUME IInv, exit_interrupted
  PROVE  IInv'
  BY DEF exit_interrupted, IInv, AllRunners, QuietInv, SummaryInv, AbandonInv, HeldInv

\* What nested has kept flies when it ends.
LEMMA FinishStep ==
  ASSUME IInv, finish
  PROVE  IInv'
  BY DEF finish, IInv, AllRunners, QuietInv, SummaryInv, AbandonInv, HeldInv

LEMMA NextIInv == IInv /\ [Next]_vars => IInv'
  <1> SUFFICES ASSUME IInv, [Next]_vars PROVE IInv' OBVIOUS
  <1>1. CASE UNCHANGED vars
    BY <1>1 DEF vars, IInv, AllRunners, QuietInv, SummaryInv, AbandonInv, HeldInv
  <1>2. CASE Next
    BY <1>2, PlainStep, EnterFailsStep, BodyStep, TeardownStep, ExitStep, ExitFailsStep,
       InterruptedStep, FinishStep DEF Next
  <1> QED BY <1>1, <1>2

LEMMA IInvAlways == Spec => []IInv
  BY InitIInv, NextIInv, PTL DEF Spec

\* A job passes, and run_tasks returns, just when nothing failed.
THEOREM PassIsEarnedHolds == Spec => []PassIsEarned
  <1>1. IInv => PassIsEarned
    BY DEF IInv, QuietInv, SummaryInv, PassIsEarned
  <1> QED BY <1>1, IInvAlways, PTL

\* Every failure that no manager has quenched, and every manager that was
\* left, shows.
THEOREM FailureShowsHolds == Spec => []FailureShows
  <1>1. IInv => FailureShows
    BY DEF IInv, AllRunners, SummaryInv, AbandonInv, HeldInv, FailureShows
  <1> QED BY <1>1, IInvAlways, PTL

-----------------------------------------------------------------------------
(* The stack of managers                                                   *)

LEMMA StackInit == Init => Stack!Init
  BY DEF Init, Stack!Init

\* While the tasks are run.
LEMMA OpeningStep ==
  ASSUME run_one_task \/ enter \/ enter_fails \/ tasks_done
  PROVE  [Stack!Next]_(Stack!vars)
  <1>1. CASE run_one_task
    BY <1>1 DEF run_one_task, Stack!vars
  <1>2. CASE enter
    <2>1. Stack!Open(next)
      BY <1>2 DEF enter, Stack!Open
    <2> QED BY <1>2, <2>1 DEF enter, Stack!Next
  <1>3. CASE enter_fails
    <2>1. pc = "tasks" /\ pc' \in {"before_teardown", "unwind"} /\ next \in Tasks
      BY <1>3 DEF enter_fails, Caught
    <2>2. CASE UNCHANGED stack
      BY <2>1, <2>2 DEF Stack!Unwind, Stack!Next
    <2>3. CASE stack' = Append(stack, next)
      BY <2>1, <2>3 DEF Stack!Open, Stack!Next
    <2> QED BY <1>3, <2>2, <2>3 DEF enter_fails
  <1>4. CASE tasks_done
    BY <1>4 DEF tasks_done, Stack!Unwind, Stack!Next
  <1> QED BY <1>1, <1>2, <1>3, <1>4

\* While it is unwound.
LEMMA ClosingStep ==
  ASSUME body \/ before_teardown \/ exit \/ exit_fails \/ exit_interrupted \/ finish
  PROVE  [Stack!Next]_(Stack!vars)
  <1>1. CASE body
    <2>1. pc = "body" /\ pc' \in {"before_teardown", "unwind"} /\ UNCHANGED stack
      BY <1>1 DEF body, Caught
    <2> QED BY <2>1 DEF Stack!vars
  <1>2. CASE before_teardown
    BY <1>2 DEF before_teardown, Stack!Abandon, Stack!Next, Stack!vars
  <1>3. CASE exit
    BY <1>3 DEF exit, Pop, Stack!Close, Stack!Next
  <1>4. CASE exit_fails
    <2>1. pc = "unwind" /\ pc' \in {"unwind", "ended"} /\ stack # <<>> /\ Pop
      BY <1>4 DEF exit_fails
    <2> QED BY <2>1 DEF Pop, Stack!Close, Stack!Abandon, Stack!Next
  <1>5. CASE exit_interrupted
    BY <1>5 DEF exit_interrupted, Pop, Stack!Abandon, Stack!Next
  <1>6. CASE finish
    BY <1>6 DEF finish, Stack!AllClosed, Stack!Next
  <1> QED BY <1>1, <1>2, <1>3, <1>4, <1>5, <1>6

\* Managers are exited in the reverse order of their entering, none twice, by
\* every runner and in spite of every failure.
THEOREM ManagersStacked == Spec => ImplementsManagerStack
  <1>1. [Next]_vars => [Stack!Next]_(Stack!vars)
    <2>1. CASE UNCHANGED vars
      BY <2>1 DEF vars, Stack!vars
    <2>2. CASE Next
      BY <2>2, OpeningStep, ClosingStep DEF Next
    <2> QED BY <2>1, <2>2
  <1> QED BY <1>1, StackInit, PTL DEF Spec, ImplementsManagerStack, Stack!Spec
=============================================================================
