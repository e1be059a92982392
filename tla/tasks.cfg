SPECIFICATION Spec
CONSTANTS
  Runners = {"run_tasks", "nested", "sequential", "full_sequential"}
  N = 4
  Faults = {"enter", "exit", "base_exit", "flag", "notify"}
INVARIANTS
  PassIsEarned
  FailureShows
PROPERTIES
  ImplementsManagerStack
\* The runner ends.
CHECK_DEADLOCK FALSE
