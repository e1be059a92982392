SPECIFICATION Spec
CONSTANTS
  p1 = p1
  p2 = p2
  main = main
  c1 = c1
  Procs = {p1, p2}
  Branches = {main}
  Commits = {c1}
  Nobody = Nobody
  NoRef = NoRef
  Bootstrap = TRUE
  Tries = 2
  MaxRev = 1
  Faults = {"git", "reset", "bootstrap", "crash"}
PROPERTIES
  RightRevision
  CommitStable
  FetchEnds
