SPECIFICATION Spec
CONSTANTS
  Count = 2
  Faults = {"prep", "kill"}
INVARIANTS
  ResultsComplete
  WaitTellsFailure
  HoldsNodes
PROPERTIES
  OtherRunsGoOn
  RunSettles
\* The suite's run comes to its end.
CHECK_DEADLOCK FALSE
