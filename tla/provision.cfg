\* Three calls for one node; the first two may meet faults.
SPECIFICATION FairSpec
CONSTANTS
  o1 = o1
  o2 = o2
  OSes = {o1, o2}
  Nothing = Nothing
  Image <- MCImage
  FaultSets <- MCFaults
  MaxCalls = 3
INVARIANTS
  NothingLeftRunning
  StoppedIsReleased
PROPERTIES
  FreshOnSuccess
  JobKeepsNode
  Recovers
\* After the last call there may be nothing left to do.
CHECK_DEADLOCK FALSE
