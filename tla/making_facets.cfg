\* A list of two products of different sizes, in up to four pieces.
SPECIFICATION Spec
CONSTANTS
  jobs_of <- build_matrix
  Failed <- AssertionError
  Fragments <- MCFragments
  Draw <- NextDraw
  Cases <- UnevenCases
  Reruns <- NoReruns
  Tip = 3
  Premerge <- NoScripts
  Postmerge <- NoScripts
  NamedLike <- NoNames
  Few = 2
  Many = 4
  MaxRerun = 4
INVARIANT
  EveryFacet
CHECK_DEADLOCK FALSE
