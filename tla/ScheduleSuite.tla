---------------------------- MODULE ScheduleSuite ---------------------------
(***************************************************************************)
(* teuthology-suite: a run is scheduled from a suite's directory, its jobs *)
(* end, and teuthology-suite --rerun schedules some of them again.         *)
(***************************************************************************)
EXTENDS Integers, SequencesExt

CONSTANTS
  jobs_of(_, _, _, _), \* build_matrix: of a suite, its subset, no_nested_subset and the seed
  Failed,     \* in a job whose fragments build_matrix could not find: an assert
  Fragments,  \* what the jobs are made of
  Cases,      \* [dir, build, conf]: a suite, the fragments whose packages each commit
              \* is without, and the arguments of the first teuthology-suite
  Reruns,     \* the arguments of the one with --rerun
  Tip,        \* the newest commit; the parent of commit c is c - 1
  Premerge,   \* fragment -> the fragments its premerge script rejects it after
  Postmerge,  \* fragment -> the fragments its postmerge script rejects a job for
  NamedLike,  \* <<a, b>>: the name of fragment b starts with that of a
  Few, Many,  \* check_priority's 25 and 100 jobs
  MaxRerun    \* only runs of at most so many jobs are rerun

\* Piece <<k, n>> of n pieces; all of the suite.
NoSubset == <<0, 1>>

Filters == [is: {"word", "desc"}, of: SUBSET Fragments]
Confs == [subset: Nat \X Nat, no_nested_subset: BOOLEAN, seed: Int, filter_in: SUBSET Filters,
          filter_out: SUBSET Filters, filter_all: SUBSET Filters, excluded: SUBSET Fragments,
          limit: Nat, sleep_before_teardown: BOOLEAN, newest: Nat, same_repo: BOOLEAN,
          allow_missing_packages: BOOLEAN, num: Nat, job_threshold: Nat, priority: Nat,
          force_priority: BOOLEAN, rerun: BOOLEAN, statuses: SUBSET {"pass", "fail"}]

ASSUME ScheduleSuiteAssumption ==
  /\ Tip \in Nat /\ Few \in Nat /\ Many \in Nat /\ Few < Many /\ MaxRerun \in Nat
  /\ \A c \in Cases: c.conf \in Confs /\ ~c.conf.rerun
  /\ \A c \in Reruns: c \in Confs /\ c.rerun

ASSUME JobsAssumption ==
  \A c \in Cases, no_nested \in BOOLEAN: \A seed \in {c.conf.seed, 0, 1}:
    jobs_of(c.dir, c.conf.subset, no_nested, seed) \in Seq(SUBSET (Fragments \cup {Failed}))

VARIABLES
  dir,      \* the suite
  build,    \* what shaman lacks
  conf,     \* the arguments
  base,     \* base_config: sha1, suite_sha1 and what a rerun needs
  pc,       \* where teuthology-suite is
  configs,  \* the jobs' configurations
  missing, jobs, sha1s, backtrack,  \* of schedule_suite
  queue,    \* what was put into beanstalk
  record,   \* paddles: the jobs of the first run
  first     \* ... and its arguments, which nobody keeps: only for what is checked

vars == <<dir, build, conf, base, pc, configs, missing, jobs, sha1s, backtrack, queue, record, first>>

Steps == {"main", "generate", "merge", "collect", "memo", "check_priority", "check_num_jobs",
          "schedule", "write_result", "done", "failed", "raised", "exited"}
Over  == {"done", "failed", "raised", "exited"}

Init ==
  /\ \E c \in Cases: dir = c.dir /\ build = c.build /\ conf = c.conf
  /\ base = [sha1 |-> Tip, suite_sha1 |-> Tip, subset |-> NoSubset, seed |-> 0]
  /\ pc = "main"
  /\ configs = <<>> /\ missing = <<>> /\ jobs = <<>> /\ sha1s = <<>> /\ backtrack = 0
  /\ queue = <<>> /\ record = <<>> /\ first = conf

suiteVars == <<configs, missing, jobs, sha1s, backtrack>>

(* main, with get_rerun_conf_overrides *)
\* Mutant of RerunSubset: the rerun is made from the whole suite.
RerunSubset_whole(job0) == NoSubset
RerunSubset(job0) == job0.subset   \* '1/1' when there is none

get_rerun_filters(statuses) ==
  {[is |-> "desc", of |-> record[k].desc]: k \in {j \in DOMAIN record: record[j].status \in statuses}}

Mismatch(job0) ==
  \/ conf.seed >= 0 /\ conf.seed # job0.seed
  \/ conf.subset # NoSubset /\ conf.subset # RerunSubset(job0)
  \/ conf.no_nested_subset \* no job of a run carries it

overridden(c, job0) ==
  [c EXCEPT !.seed = job0.seed, !.subset = RerunSubset(job0), !.no_nested_subset = FALSE,
            !.filter_in = @ \cup get_rerun_filters(c.statuses)]

build_base_config(c, sha1, suite_sha1) ==
  [sha1 |-> sha1, suite_sha1 |-> suite_sha1, subset |-> c.subset, seed |-> c.seed]

main ==
  /\ pc = "main"
  /\ IF conf.rerun /\ Mismatch(record[1])
     THEN pc' = "exited" /\ UNCHANGED <<conf, base>>
     ELSE \E random \in 0..1:
            LET c == IF conf.rerun THEN overridden(conf, record[1]) ELSE conf
            IN /\ conf' = IF c.seed < 0 THEN [c EXCEPT !.seed = random] ELSE c
               /\ base' = build_base_config(conf', Tip, Tip)
               /\ pc' = "generate"
  /\ UNCHANGED <<dir, build, first, suiteVars, queue, record>>

generate ==
  LET made == jobs_of(dir, conf.subset, conf.no_nested_subset, conf.seed)
  IN /\ pc = "generate"
     /\ IF \E i \in DOMAIN made: Failed \in made[i]
        THEN pc' = "raised" /\ UNCHANGED configs
        ELSE configs' = made /\ pc' = "merge"
     /\ UNCHANGED <<dir, build, first, conf, base, missing, jobs, sha1s, backtrack, queue, record>>

\* The elements of s that are in T.
Select(s, T) ==
  LET select[n \in 0..Len(s)] ==
        IF n = 0 THEN <<>>
        ELSE IF s[n] \in T THEN Append(select[n - 1], s[n]) ELSE select[n - 1]
  IN select[Len(s)]

(* config_merge: the fragments of a job in the order of their paths, each of which may
   drop itself and, once all are merged, the job. *)
merged(desc) ==
  LET Add(f, frags) == IF Premerge[f] \cap frags = {} THEN frags \cup {f} ELSE frags
  IN MapThenFoldSet(Add, {}, LAMBDA f: f, Max, desc)   \* the smallest first

matches(desc, f) ==
  IF f.is = "word" THEN f.of \subseteq desc
  ELSE \/ desc = f.of
       \/ \E p \in NamedLike: f.of = {p[1]} /\ desc = {p[2]}

check_filters(desc) ==
  /\ \A f \in conf.filter_all: matches(desc, f)
  /\ conf.filter_in = {} \/ \E f \in conf.filter_in: matches(desc, f)
  /\ ~\E f \in conf.filter_out: matches(desc, f)

Accepted(desc) == /\ check_filters(desc)
                  /\ \A f \in merged(desc): Postmerge[f] \cap merged(desc) = {}

config(desc) == [desc |-> desc, frags |-> merged(desc), sha1 |-> base.sha1, suite_sha1 |-> base.suite_sha1]

config_merge ==
  LET kept == Select(configs, {desc \in ToSet(configs): Accepted(desc)})
  IN /\ pc = "merge"
     /\ configs' = [i \in DOMAIN kept |-> config(kept[i])]
     /\ pc' = "collect"
     /\ UNCHANGED <<dir, build, first, conf, base, missing, jobs, sha1s, backtrack, queue, record>>

(* collect_jobs *)
job_limit == IF conf.sleep_before_teardown /\ conf.limit = 0 THEN 1 ELSE conf.limit

\* Mutant of update_key: the suite's commit stays the one a job was merged with.
update_key_first(c) == [c EXCEPT !.sha1 = base.sha1]
update_key(c) == [c EXCEPT !.sha1 = base.sha1, !.suite_sha1 = base.suite_sha1]

PackageMissing(c) == build[c.sha1] \cap c.frags # {}

\* The configurations it visits: those that are not excluded, up to the limit.
Wanted == {i \in DOMAIN configs: conf.excluded \cap configs[i].frags = {}}
Visited ==
  LET wanted == Select([i \in DOMAIN configs |-> i], Wanted)
  IN IF job_limit = 0 \/ Len(wanted) <= job_limit THEN wanted ELSE SubSeq(wanted, 1, job_limit)

Lacking(visited) == Select(visited, {i \in ToSet(visited): PackageMissing(update_key(configs[i]))})

Collected ==
  LET visited == Visited
      lacking == Lacking(visited)
      \* with --newest the first missing package ends the search
      given_up == conf.newest > 0 /\ lacking # <<>>
      updated  == IF given_up THEN {i \in ToSet(visited): i <= lacking[1]} ELSE ToSet(visited)
      Jobs(is) == [k \in DOMAIN is |-> update_key(configs[is[k]])]
  IN [configs |-> [i \in DOMAIN configs |-> IF i \in updated THEN update_key(configs[i]) ELSE configs[i]],
      missing |-> Jobs(IF given_up THEN <<lacking[1]>> ELSE lacking),
      jobs    |-> IF given_up THEN <<>> ELSE Jobs(visited)]

find_git_parents(sha1, count) == [k \in 1..(IF sha1 < count THEN sha1 ELSE count) |-> sha1 - k]

\* schedule_suite's loop over the commits --newest may go back to.
collect_jobs ==
  LET found   == Collected
      parents == IF sha1s = <<>> THEN find_git_parents(base.sha1, conf.newest) ELSE sha1s
  IN /\ pc = "collect"
     /\ configs' = found.configs /\ missing' = found.missing /\ jobs' = found.jobs
     /\ IF found.missing = <<>> \/ conf.newest = 0
        THEN pc' = "memo" /\ UNCHANGED <<base, sha1s, backtrack>>
        ELSE IF parents = <<>>
        THEN pc' = "failed" /\ UNCHANGED <<base, sha1s, backtrack>>
        ELSE /\ base' = build_base_config(conf, Head(parents),
                                          IF conf.same_repo THEN Head(parents) ELSE base.suite_sha1)
             /\ sha1s' = Tail(parents)
             /\ backtrack' = backtrack + 1
             /\ pc' = IF backtrack' <= conf.newest THEN "collect" ELSE "failed"
     /\ UNCHANGED <<dir, build, first, conf, queue, record>>

(* What teuthology-schedule puts into beanstalk. *)
Put(what, k, num) == [what |-> what, job |-> k, num |-> num]

\* Mutant of write_rerun_memo: also for a run without jobs.
write_rerun_memo_always ==
  /\ pc = "memo"
  /\ queue' = Append(queue, Put("memo", 0, 1))
  /\ pc' = "check_priority"
  /\ UNCHANGED <<dir, build, first, conf, base, suiteVars, record>>

write_rerun_memo ==
  /\ pc = "memo"
  /\ queue' = IF jobs = <<>> THEN queue ELSE Append(queue, Put("memo", 0, 1))
  /\ pc' = "check_priority"
  /\ UNCHANGED <<dir, build, first, conf, base, suiteVars, record>>

TooManyFor(priority, n) == \/ priority < 50
                           \/ priority < 75 /\ n > Few
                           \/ priority < 150 /\ n > Many

check_priority ==
  /\ pc = "check_priority"
  /\ pc' = IF conf.priority > 0 /\ jobs # <<>> /\ ~conf.force_priority
              /\ TooManyFor(conf.priority, Len(jobs))
           THEN "failed" ELSE "check_num_jobs"
  /\ UNCHANGED <<dir, build, first, conf, base, suiteVars, queue, record>>

check_num_jobs ==
  /\ pc = "check_num_jobs"
  /\ pc' = IF conf.job_threshold > 0 /\ Len(jobs) > conf.job_threshold THEN "failed" ELSE "schedule"
  /\ UNCHANGED <<dir, build, first, conf, base, suiteVars, queue, record>>

Scheduled == Cardinality({k \in DOMAIN queue: queue[k].what = "job"})

schedule_jobs ==
  LET k == Scheduled + 1
  IN /\ pc = "schedule"
     /\ IF k > Len(jobs)
        THEN pc' = "write_result" /\ UNCHANGED <<queue, record>>
        ELSE IF jobs[k] \in ToSet(missing) /\ ~conf.allow_missing_packages
        THEN pc' = "failed" /\ UNCHANGED <<queue, record>>
        ELSE /\ queue' = Append(queue, Put("job", k, conf.num))
             /\ record' = IF conf.rerun THEN record
                          ELSE Append(record, [desc |-> jobs[k].desc, subset |-> base.subset,
                                               seed |-> base.seed, status |-> "queued"])
             /\ UNCHANGED pc
     /\ UNCHANGED <<dir, build, first, conf, base, suiteVars>>

write_result ==
  /\ pc = "write_result"
  /\ queue' = IF jobs = <<>> THEN queue ELSE Append(queue, Put("last", 0, 1))
  /\ pc' = "done"
  /\ UNCHANGED <<dir, build, first, conf, base, suiteVars, record>>

(* The jobs of the first run end, and somebody reruns it. *)
Rerun ==
  /\ pc \in {"done", "failed"} /\ ~conf.rerun
  /\ Len(record) \in 1..MaxRerun
  /\ \E ends \in [DOMAIN record -> {"pass", "fail"}], c \in Reruns:
       /\ record' = [k \in DOMAIN record |-> [record[k] EXCEPT !.status = ends[k]]]
       /\ conf' = c
  /\ pc' = "main"
  /\ configs' = <<>> /\ missing' = <<>> /\ jobs' = <<>> /\ sha1s' = <<>> /\ backtrack' = 0
  /\ queue' = <<>>
  /\ UNCHANGED <<dir, build, first, base>>

Next == \/ main \/ generate \/ config_merge \/ collect_jobs \/ write_rerun_memo
        \/ check_priority \/ check_num_jobs \/ schedule_jobs \/ write_result
        \/ Rerun

Spec == Init /\ [][Next]_vars

-----------------------------------------------------------------------------
\* --newest schedules all jobs with one commit, the newest one that all have their
\* packages for, and goes no further back than it was told (scripts/suite.py:52-55).
NewestConsistent ==
  pc = "done" /\ conf.newest > 0 /\ jobs # <<>> =>
    LET chosen == jobs[1].sha1
    IN /\ chosen + conf.newest >= Tip
       /\ \A k \in DOMAIN jobs: /\ jobs[k].sha1 = chosen
                                /\ build[chosen] \cap jobs[k].frags = {}
                                /\ jobs[k].suite_sha1 = IF conf.same_repo THEN chosen ELSE Tip
       /\ job_limit = 0 => \A newer \in (chosen + 1)..Tip:
                             \E k \in Wanted: build[newer] \cap configs[k].frags # {}

\* A rerun schedules the jobs of the run with the statuses it was given and no others
\* (docs/intro_testers.rst:75-79), although it knows of the run only what paddles has.
\* Not so when there are none, or the run was made with --no-nested-subset.
Chosen == {record[k].desc: k \in {j \in DOMAIN record: record[j].status \in conf.statuses}}
RerunSelects ==
  pc = "done" /\ conf.rerun /\ Chosen # {} /\ ~first.no_nested_subset =>
    {jobs[queue[k].job].desc: k \in {j \in DOMAIN queue: queue[j].what = "job"}} = Chosen

\* What is in beanstalk is a memo, the jobs in their order and a last job, or nothing;
\* a run that is refused has no job there unless it was refused for its packages.
RunIsFramed ==
  /\ pc = "done" => queue = IF jobs = <<>> THEN <<>>
                            ELSE <<Put("memo", 0, 1)>>
                                 \o [k \in DOMAIN jobs |-> Put("job", k, conf.num)]
                                 \o <<Put("last", 0, 1)>>
  /\ pc = "failed" /\ Scheduled > 0 => jobs[Scheduled + 1] \in ToSet(missing)
=============================================================================
