------------------------------ MODULE SuiteJobs ------------------------------
(***************************************************************************)
(* What module ScheduleSuite takes as given, the jobs of a directory, is   *)
(* what module Matrix makes of it: jobs_of is build_matrix.                *)
(***************************************************************************)
EXTENDS Matrix, ScheduleSuite

Plain(c) == c.filter_in = {} /\ c.filter_out = {} /\ c.filter_all = {}
            /\ c.limit = 0 /\ ~c.sleep_before_teardown /\ c.excluded = {}

\* A suite with nothing random in it that is scheduled as a whole has each of its
\* combinations, and each of them once (build_matrix.py:31-34, matrix.py:164-178).
CombinationsOnce ==
  pc = "merge" /\ conf.subset = NoSubset /\ IsPlain(dir) =>
    /\ ToSet(configs) = Combinations(dir)
    /\ Len(configs) = Cardinality(Combinations(dir))

\* Every piece of a suite that is a product has each facet (build_matrix.py:16-20).
GoodPieces ==
  pc = "merge" /\ conf.subset # NoSubset /\ IsPlain(dir) /\ dir.kind = "product" =>
    UNION ToSet(configs) = Facets(dir)

\* --subset breaks a suite "into <outof> pieces (each of which will contain each facet
\* at least once)" (scripts/suite.py:129-130), whatever its directory is.
EveryFacet ==
  pc = "merge" /\ conf.subset # NoSubset /\ IsPlain(dir) /\ dir.kind # "concat" =>
    UNION ToSet(configs) = Facets(dir)
=============================================================================
