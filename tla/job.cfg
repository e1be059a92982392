SPECIFICATION Spec
CONSTANTS
  n1 = n1
  n2 = n2
  Nodes = {n1, n2}
  Here = Here
  Jobs <- Various
INVARIANTS
  TroubleShows
  CleanAfterPass
  KernelWanted
  SameBuild
  CleanRunPasses
PROPERTIES
  EvidenceKept
