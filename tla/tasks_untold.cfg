SPECIFICATION Spec
CONSTANTS
  Runners = {"run_tasks"}
  N = 2
  Faults = {"enter"}
INVARIANT ToldOfFailure
CHECK_DEADLOCK FALSE
