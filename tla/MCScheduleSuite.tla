-------------------------- MODULE MCScheduleSuite --------------------------
(* Instances of ScheduleSuite for TLC.                                     *)
EXTENDS SuiteJobs

Files(a, b) == [k \in 1..(b - a + 1) |-> File(a + k - 1)]
OneOf(a, b) == Dir("list", Files(a, b))
AllOf(a, b) == Dir("concat", Files(a, b))

Small == {
  OneOf(1, 3),
  Dir("product", <<OneOf(1, 2), OneOf(3, 4), Nothing>>),
  Dir("product", <<File(1), AllOf(2, 3), OneOf(4, 5)>>),
  Dir("list", <<File(1), Dir("product", <<OneOf(2, 3), File(4)>>)>>),
  Dir("product", <<Dir("random", Files(1, 3)), OneOf(4, 5)>>),
  Nested(<<OneOf(1, 2), OneOf(3, 4)>>, 2)}

Large == {
  Dir("product", <<OneOf(1, 3), OneOf(4, 6)>>),
  Dir("product", <<OneOf(1, 6), OneOf(7, 8), OneOf(9, 11)>>),
  Dir("product", <<OneOf(1, 4), Dir("product", <<OneOf(5, 6), OneOf(7, 8)>>)>>),
  Dir("product", <<Dir("list", <<OneOf(1, 2), Dir("product", <<OneOf(3, 4), OneOf(5, 7)>>)>>), OneOf(8, 9)>>),
  Dir("product", <<Dir("product", <<OneOf(1, 2), OneOf(3, 5)>>), Dir("product", <<OneOf(6, 7), OneOf(8, 9)>>)>>),
  Dir("product", <<File(1), Dir("concat", <<OneOf(2, 3), File(4)>>), OneOf(5, 7)>>),
  Dir("list", <<OneOf(1, 3), OneOf(4, 5), File(6), Nothing>>),
  Dir("list", <<Dir("product", <<OneOf(1, 3), OneOf(4, 5)>>), OneOf(6, 9), AllOf(10, 11)>>)}

Uneven == {
  Dir("list", <<Dir("product", <<OneOf(1, 3)>>),
                Dir("product", <<OneOf(4, 6), File(7), OneOf(8, 10)>>)>>)}

MCFragments == 1..11
Default == [
  subset |-> NoSubset, no_nested_subset |-> FALSE, seed |-> 1, filter_in |-> {}, filter_out |-> {},
  filter_all |-> {}, excluded |-> {}, limit |-> 0, sleep_before_teardown |-> FALSE, newest |-> 0,
  same_repo |-> FALSE, allow_missing_packages |-> FALSE, num |-> 1, job_threshold |-> 0, priority |-> 0,
  force_priority |-> FALSE, rerun |-> FALSE, statuses |-> {}]

Pieces(n) == {<<k, d>>: k \in 0..(n - 1), d \in 1..n}
Word(f)   == [is |-> "word", of |-> {f}]

Subsets == {NoSubset} \cup {p \in Pieces(4): p[1] < p[2]}

Built == [s \in 0..Tip |-> {}]
Builds == {Built, [Built EXCEPT ![Tip] = {3}], [Built EXCEPT ![Tip] = {2, 4}, ![Tip - 1] = {4}],
           [s \in 0..Tip |-> IF s = 0 THEN {} ELSE {4}], [s \in 0..Tip |-> {4, 5}]}

Of(dirs, builds, confs) == [dir: dirs, build: builds, conf: confs]

SubsetCases == Of(Small \cup Large, {Built}, {[Default EXCEPT !.subset = s, !.limit = 5]: s \in Subsets})
SeedCases   == Of(Small, {Built}, {[Default EXCEPT !.seed = -1, !.subset = s, !.no_nested_subset = n]:
                                    s \in {NoSubset, <<1, 2>>}, n \in BOOLEAN})
NewestCases == Of(Small, Builds, {[Default EXCEPT !.newest = n, !.same_repo = r, !.limit = l, !.excluded = x]:
                                    n \in 0..3, r \in BOOLEAN, l \in {0, 2}, x \in {{}, {1}}})
FilterCases == Of(Small, {Built}, {[Default EXCEPT !.filter_in = i, !.filter_out = o, !.filter_all = a]:
                                    i \in {{}, {Word(1), Word(4)}}, o \in {{}, {Word(2)}}, a \in {{}, {Word(3)}}})
CheckCases  == Of(Small, {[Built EXCEPT ![Tip] = {4}]},
                  {[Default EXCEPT !.priority = p, !.force_priority = f, !.job_threshold = t, !.num = 2,
                                   !.sleep_before_teardown = s, !.allow_missing_packages = m]:
                    p \in {0, 40, 60, 100, 200}, f \in BOOLEAN, t \in {0, 3}, s \in BOOLEAN, m \in BOOLEAN})
AllCases == SubsetCases \cup SeedCases \cup NewestCases \cup FilterCases \cup CheckCases

UnevenCases == Of(Uneven, {Built}, {[Default EXCEPT !.subset = s]: s \in Subsets})

Again == [Default EXCEPT !.rerun = TRUE, !.seed = -1, !.statuses = {"fail"}]
SomeReruns == {Again, [Again EXCEPT !.statuses = {"fail", "pass"}, !.seed = 1],
               [Again EXCEPT !.subset = <<0, 2>>], [Again EXCEPT !.no_nested_subset = TRUE]}

NoReruns == {}

NextDraw(seed, i, n) == (seed + i) % n

NoScripts   == [f \in MCFragments |-> {}]
SomePremerge  == [NoScripts EXCEPT ![4] = {1}]
SomePostmerge == [NoScripts EXCEPT ![5] = {2}, ![4] = {3}]
NoNames == {}
=============================================================================
