\* One job, and every fault there is.
SPECIFICATION Spec
CONSTANTS
  j1 = j1
  j2 = j2
  Jobs = {j1}
  Nodes = {n1}
  Free = Free
  Person = Person
  NoJob = NoJob
  Owner <- OneOwner
  Need <- OneEach
  Faults = {"push", "report", "retry", "prep", "expire", "lock", "write", "spawn", "delete", "loopexit", "crash", "reimage", "streak", "die", "timeout", "survive", "linger", "server", "straggle", "kill"}
  KeepLocked = {j1}
  Scheduled = {j1}
  Reserved = 0
  StopWorker = {j1}
  ExitOnEmpty = FALSE
  MaxLoopExits = 2
  MaxRestarts = 1
INVARIANTS
  StartedOnce
\* The dispatcher may exit, and every job may have ended.
CHECK_DEADLOCK FALSE
