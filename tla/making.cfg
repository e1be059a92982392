\* Suites of files, lists, products, concatenations and random choices, with the
\* arguments that matter, and a rerun of those that have at most four jobs.
SPECIFICATION Spec
CONSTANTS
  jobs_of <- build_matrix
  Failed <- AssertionError
  Fragments <- MCFragments
  Draw <- NextDraw
  Cases <- AllCases
  Reruns <- SomeReruns
  Tip = 3
  Premerge <- SomePremerge
  Postmerge <- SomePostmerge
  NamedLike <- NoNames
  Few = 2
  Many = 4
  MaxRerun = 4
INVARIANTS
  CombinationsOnce
  GoodPieces
  NewestConsistent
  RerunSelects
  RunIsFramed
CHECK_DEADLOCK FALSE
