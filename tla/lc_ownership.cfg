\* Two jobs that compete for two nodes, with a person, a watchdog that breaks off
\* what a job does, and a lock server that may not answer.
SPECIFICATION Spec
CONSTANTS
  j1 = j1
  j2 = j2
  Jobs = {j1, j2}
  Nodes = {n1, n2}
  Free = Free
  Person = Person
  NoJob = NoJob
  Owner <- OneOwner
  Need <- TwoAndOne
  Faults = {"reimage", "timeout", "survive", "server", "person"}
  KeepLocked = {}
  Scheduled = {j1, j2}
  Reserved = 0
  StopWorker = {}
  ExitOnEmpty = FALSE
  MaxLoopExits = 2
  MaxRestarts = 0
SYMMETRY Symmetry
INVARIANTS
  HoldsTargets
  NoForeignUnlock
  ExecutedFound
PROPERTIES
  ImplementsOwnership
\* The dispatcher may exit, and every job may have ended.
CHECK_DEADLOCK FALSE
