\* A scheduled job that needs one of two nodes and leaves the other in reserve,
\* and a user's job that needs both.  The dispatcher exits on an empty queue.
SPECIFICATION FairSpec
CONSTANTS
  j1 = j1
  j2 = j2
  Jobs = {j1, j2}
  Nodes = {n1, n2}
  Free = Free
  Person = Person
  NoJob = NoJob
  Owner <- OneOwner
  Need <- TwoAndOne
  Faults = {"expire", "reimage", "lock", "spawn", "die", "ansible"}
  KeepLocked = {}
  Scheduled = {j2}
  Reserved = 1
  StopWorker = {}
  ExitOnEmpty = TRUE
  MaxLoopExits = 2
  MaxRestarts = 1
INVARIANTS
  StaleLocksFound
  UnlocksAfterExecution
PROPERTIES
  DescriptionKept
  MarkedDownWhileLocked
  EveryJobEnds
  NodesReturned
\* The dispatcher may exit, and every job may have ended.
CHECK_DEADLOCK FALSE
