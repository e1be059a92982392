------------------------ MODULE ScheduleSuite_proofs ------------------------
(***************************************************************************)
(* Theorems about the scheduling of a run, for any suite, arguments,       *)
(* history and builds, and whatever jobs the suite is made into: what is   *)
(* in beanstalk, which commit --newest finds, which jobs a rerun chooses.  *)
(***************************************************************************)
EXTENDS ScheduleSuite, FiniteSetTheorems, SequenceTheorems, WellFoundedInduction, TLAPS

(* Sequences *)

\* A set of natural numbers has a least one: what stands for induction here, where a
\* theorem over an operator cannot be cited.
LEMMA LeastNat ==
  ASSUME NEW S, S \subseteq Nat, S # {}
  PROVE  \E n \in S: \A m \in S: n <= m
  <1>1. PICK n \in S: \A m \in S: ~(<<m, n>> \in OpToRel(<, Nat))
    BY NatLessThanWellFounded, WFMin
  <1>2. \A m \in S: ~(m < n)
    BY <1>1 DEF OpToRel
  <1> QED BY <1>2

\* What Select builds from the first n elements, for every n up to last.
Selects(f, s, T, last) ==
  f = [n \in 0..last |-> IF n = 0 THEN <<>>
                         ELSE IF s[n] \in T THEN Append(f[n - 1], s[n]) ELSE f[n - 1]]

\* There is such a function, for every sequence.
LEMMA SelectsExists ==
  ASSUME NEW s, NEW T, NEW last \in Nat
  PROVE  \E f: Selects(f, s, T, last)
  <1> DEFINE Bad == {n \in Nat: ~\E f: Selects(f, s, T, n)}
  <1> SUFFICES ASSUME Bad # {} PROVE FALSE
    OBVIOUS
  <1>1. PICK n \in Bad: \A m \in Bad: n <= m
    <2> HIDE DEF Bad
    <2> QED BY LeastNat, Bad \subseteq Nat DEF Bad
  <1>2. CASE n = 0
    <2> DEFINE f == [k \in 0..0 |-> <<>>]
    <2>1. Selects(f, s, T, 0)
      BY DEF Selects
    <2> QED BY <1>1, <1>2, <2>1
  <1>3. CASE n # 0
    <2>1. n - 1 \in Nat /\ n \in Nat /\ ~(n <= n - 1)
      BY <1>1, <1>3
    <2>2. PICK g: Selects(g, s, T, n - 1)
      BY <1>1, <2>1
    <2> DEFINE f == [k \in 0..n |-> IF k = n THEN IF s[n] \in T THEN Append(g[n - 1], s[n]) ELSE g[n - 1]
                                    ELSE g[k]]
    <2>3. \A k \in 0..(n - 1): f[k] = g[k] /\ k # n
      BY <2>1
    <2>4. \A k \in 0..n: f[k] = IF k = 0 THEN <<>>
                                ELSE IF s[k] \in T THEN Append(f[k - 1], s[k]) ELSE f[k - 1]
      <3> TAKE k \in 0..n
      <3>1. CASE k = n
        <4>1. f[n - 1] = g[n - 1] /\ n \in 0..n
          BY <2>1, <2>3
        <4> QED BY <3>1, <4>1, <1>3
      <3>2. CASE k # n
        <4>1. k \in 0..(n - 1) /\ (k # 0 => k - 1 \in 0..(n - 1))
          BY <3>2, <2>1
        <4>2. g[k] = IF k = 0 THEN <<>> ELSE IF s[k] \in T THEN Append(g[k - 1], s[k]) ELSE g[k - 1]
          <5> HIDE DEF f
          <5> QED BY <2>2, <4>1 DEF Selects
        <4> HIDE DEF f
        <4> QED BY <4>1, <4>2, <2>3
      <3> QED BY <3>1, <3>2
    <2>5. Selects(f, s, T, n)
      <3>1. f = [k \in 0..n |-> f[k]]
        OBVIOUS
      <3> HIDE DEF f
      <3> QED BY <2>4, <3>1 DEF Selects
    <2> QED BY <1>1, <2>5
  <1> QED BY <1>2, <1>3

\* What the first n elements are.
First(s, n) == {s[i]: i \in 1..n}

\* What it has of the first n elements: those that are in T.
LEMMA SelectsParts ==
  ASSUME NEW S, NEW s \in Seq(S), NEW T, NEW f, Selects(f, s, T, Len(s)), NEW k \in 0..Len(s)
  PROVE  /\ f[k] \in Seq(S)
         /\ ToSet(f[k]) = First(s, k) \cap T
  <1> DEFINE Good(n) == /\ f[n] \in Seq(S)
                        /\ {f[n][i]: i \in DOMAIN f[n]} = {s[i]: i \in 1..n} \cap T
             Bad == {n \in 0..Len(s): ~Good(n)}
  <1> USE DEF ToSet, First
  <1>0. \A n \in 0..Len(s): f[n] = IF n = 0 THEN <<>>
                                   ELSE IF s[n] \in T THEN Append(f[n - 1], s[n]) ELSE f[n - 1]
    BY DEF Selects
  <1> SUFFICES ASSUME Bad # {} PROVE FALSE
    OBVIOUS
  <1>1. PICK n \in Bad: \A m \in Bad: n <= m
    <2> HIDE DEF Good
    <2>1. Bad \subseteq Nat
      OBVIOUS
    <2> HIDE DEF Bad
    <2> QED BY <2>1, LeastNat
  <1>2. CASE n = 0
    <2>1. f[0] = <<>>
      BY <1>0, Len(s) \in Nat, 0 \in 0..Len(s)
    <2>2. f[0] \in Seq(S) /\ DOMAIN f[0] = {} /\ 1..0 = {}
      BY <2>1
    <2>3. Good(0)
      BY <2>2
    <2> QED BY <1>1, <1>2, <2>3
  <1>3. CASE n # 0
    <2>1. n \in 1..Len(s) /\ n - 1 \in 0..Len(s) /\ ~(n <= n - 1)
      BY <1>1, <1>3
    <2>2. Good(n - 1)
      <3> HIDE DEF Good
      <3> QED BY <1>1, <2>1
    <2>3. s[n] \in S
      BY <2>1
    <2>4. {s[i]: i \in 1..n} = {s[i]: i \in 1..(n - 1)} \cup {s[n]}
      <3>1. 1..n = 1..(n - 1) \cup {n}
        BY <2>1
      <3> QED BY <3>1
    <2>5. CASE s[n] \in T
      <3>1. f[n] = Append(f[n - 1], s[n])
        BY <1>0, <2>1, <2>5, <1>3
      <3>2. f[n] \in Seq(S)
        BY <3>1, <2>2, <2>3
      <3>3. /\ DOMAIN f[n] = DOMAIN f[n - 1] \cup {Len(f[n - 1]) + 1}
            /\ \A i \in DOMAIN f[n - 1]: f[n][i] = f[n - 1][i]
            /\ f[n][Len(f[n - 1]) + 1] = s[n]
        BY <3>1, <2>2, <2>3
      <3>4. {f[n][i]: i \in DOMAIN f[n]} = {f[n - 1][i]: i \in DOMAIN f[n - 1]} \cup {s[n]}
        BY <3>3
      <3> QED BY <1>1, <3>2, <3>4, <2>2, <2>4, <2>5
    <2>6. CASE s[n] \notin T
      <3>1. f[n] = f[n - 1]
        BY <1>0, <2>1, <2>6, <1>3
      <3>2. {s[i]: i \in 1..n} \cap T = {s[i]: i \in 1..(n - 1)} \cap T
        BY <2>4, <2>6
      <3>3. Good(n)
        BY <3>1, <3>2, <2>2
      <3> QED BY <1>1, <3>3
    <2> QED BY <2>5, <2>6
  <1> QED BY <1>2, <1>3

\* Select keeps the elements that are in T, and only those.
LEMMA SelectKeeps ==
  ASSUME NEW S, NEW s \in Seq(S), NEW T
  PROVE  /\ Select(s, T) \in Seq(S)
         /\ ToSet(Select(s, T)) = ToSet(s) \cap T
  <1>1. PICK f: f = CHOOSE g: Selects(g, s, T, Len(s))
    OBVIOUS
  <1>2. Len(s) \in Nat
    OBVIOUS
  <1>3. Selects(f, s, T, Len(s))
    BY <1>1, <1>2, SelectsExists
  <1>4. Select(s, T) = f[Len(s)]
    BY <1>1 DEF Select, Selects
  <1>5. Len(s) \in 0..Len(s) /\ DOMAIN s = 1..Len(s)
    BY <1>2
  <1>6. f[Len(s)] \in Seq(S) /\ ToSet(f[Len(s)]) = First(s, Len(s)) \cap T
    BY ONLY <1>3, <1>5, SelectsParts, s \in Seq(S)
  <1>7. First(s, Len(s)) = ToSet(s)
    BY <1>5 DEF First, ToSet
  <1> QED BY <1>4, <1>6, <1>7

(* What the variables are, and where what they hold comes from *)

Descs   == SUBSET Fragments
Merged  == {c \in [desc: Descs, frags: {merged(desc): desc \in Descs}, sha1: 0..Tip, suite_sha1: 0..Tip]:
              c.frags = merged(c.desc)}
Puts    == [what: {"memo", "job", "last"}, job: Nat, num: Nat]
Entries == [desc: Descs, subset: Nat \X Nat, seed: Int, status: {"queued", "pass", "fail"}]

Collecting == {"collect"}
Collects   == {"memo", "check_priority", "check_num_jobs", "schedule", "write_result", "done"}

TypeInv ==
  /\ conf \in Confs /\ first \in Confs
  /\ base \in [sha1: 0..Tip, suite_sha1: 0..Tip, subset: Nat \X Nat, seed: Int]
  /\ pc \in Steps
  /\ pc = "merge" => configs \in Seq(Descs)
  /\ pc \in Collecting \cup Collects => configs \in Seq(Merged)
  /\ missing \in Seq(Merged) /\ jobs \in Seq(Merged) /\ sha1s \in Seq(0..Tip) /\ backtrack \in Nat
  /\ queue \in Seq(Puts) /\ record \in Seq(Entries)

\* The seeds of a run whose arguments have this one: one is drawn when it is negative.
Seeds(seed) == {seed, 0, 1} \cap Nat

\* The suite and the arguments are those of a case. Once main is over the subset and the
\* seed are those the run was made with, in a rerun too, which has them from its jobs.
OriginInv ==
  /\ \E c \in Cases: dir = c.dir /\ build = c.build /\ first = c.conf
  /\ conf.rerun => record # <<>>
  /\ ~conf.rerun => conf = [first EXCEPT !.seed = conf.seed]
  /\ ~conf.rerun /\ pc = "main" => conf.seed = first.seed
  /\ pc \in Steps \ {"main", "exited"} =>
       /\ conf.subset = first.subset /\ conf.seed \in Seeds(first.seed)
       /\ base.subset = conf.subset /\ base.seed = conf.seed
  /\ \A k \in DOMAIN record: /\ record[k].subset = first.subset
                             /\ record[k].seed = record[1].seed
                             /\ record[k].seed \in Seeds(first.seed)
                             /\ ~conf.rerun => record[k].seed = conf.seed
  /\ ~conf.rerun /\ pc \notin {"schedule", "write_result", "done", "failed"} => record = <<>>

LEMMA InitShape == Init => TypeInv /\ OriginInv
  <1> SUFFICES ASSUME Init PROVE TypeInv /\ OriginInv
    OBVIOUS
  <1>1. PICK c \in Cases: dir = c.dir /\ build = c.build /\ conf = c.conf
    BY DEF Init
  <1>2. conf \in Confs /\ first \in Confs /\ ~conf.rerun
    BY <1>1, ScheduleSuiteAssumption DEF Init
  <1>3. TypeInv
    BY <1>2, ScheduleSuiteAssumption DEF Init, TypeInv, Steps, NoSubset, Collecting, Collects
  <1>4. conf = [first EXCEPT !.seed = conf.seed]
    BY <1>2 DEF Init, Confs
  <1>5. OriginInv
    BY <1>1, <1>2, <1>4 DEF Init, OriginInv
  <1> QED BY <1>3, <1>5

\* What jobs a run is made of, wherever its arguments come from.
LEMMA MadeTyped ==
  ASSUME TypeInv, OriginInv, pc = "generate"
  PROVE  jobs_of(dir, conf.subset, conf.no_nested_subset, conf.seed)
         \in Seq(SUBSET (Fragments \cup {Failed}))
  <1>1. PICK c \in Cases: dir = c.dir /\ first = c.conf
    BY DEF OriginInv
  <1>2. conf.subset = c.conf.subset /\ conf.seed \in {c.conf.seed, 0, 1}
    BY <1>1 DEF OriginInv, Steps, Seeds
  <1>3. conf.no_nested_subset \in BOOLEAN
    BY DEF TypeInv, Confs
  <1> QED BY <1>1, <1>2, <1>3, JobsAssumption

LEMMA Reseeded ==
  ASSUME NEW c \in Confs, NEW n \in Int
  PROVE  /\ [c EXCEPT !.seed = n] \in Confs
         /\ [c EXCEPT !.seed = n].rerun = c.rerun /\ [c EXCEPT !.seed = n].subset = c.subset
         /\ [c EXCEPT !.seed = n].seed = n
         /\ \A m \in Int: [[c EXCEPT !.seed = n] EXCEPT !.seed = m] = [c EXCEPT !.seed = m]
  BY DEF Confs

LEMMA MainShape ==
  ASSUME TypeInv, OriginInv, main
  PROVE  TypeInv' /\ OriginInv'
  <1>1. CASE conf.rerun /\ Mismatch(record[1])
    <2>1. pc' = "exited" /\ UNCHANGED <<dir, build, first, conf, base, suiteVars, queue, record>>
      BY <1>1 DEF main
    <2>2. TypeInv'
      BY <2>1 DEF TypeInv, Steps, Collecting, Collects, suiteVars
    <2>3. OriginInv'
      BY <2>1, pc = "main" DEF OriginInv, main
    <2> QED BY <2>2, <2>3
  <1>2. CASE ~(conf.rerun /\ Mismatch(record[1]))
    <2> DEFINE c == IF conf.rerun THEN overridden(conf, record[1]) ELSE conf
    <2>1. PICK random \in 0..1:
            /\ conf' = IF c.seed < 0 THEN [c EXCEPT !.seed = random] ELSE c
            /\ base' = [sha1 |-> Tip, suite_sha1 |-> Tip, subset |-> conf'.subset, seed |-> conf'.seed]
            /\ pc' = "generate"
      BY <1>2 DEF main, build_base_config
    <2>2. UNCHANGED <<dir, build, first, suiteVars, queue, record>>
      BY DEF main
    <2>3. /\ c \in Confs /\ c.rerun = conf.rerun /\ c.subset = first.subset
          /\ c.seed \in {first.seed, 0, 1} /\ c.seed \in Int
          /\ ~conf.rerun => c = [first EXCEPT !.seed = c.seed]
          /\ conf.rerun => c.seed = record[1].seed
      <3>1. CASE conf.rerun
        <4>1. record[1] \in Entries /\ 1 \in DOMAIN record
          BY <3>1 DEF TypeInv, OriginInv
        <4>2. get_rerun_filters(conf.statuses) \subseteq Filters
          <5>1. \A k \in DOMAIN record: record[k].desc \in SUBSET Fragments
            <6> TAKE k \in DOMAIN record
            <6>1. record[k] \in Entries
              BY DEF TypeInv
            <6> QED BY <6>1 DEF Entries, Descs
          <5> QED BY <5>1 DEF get_rerun_filters, Filters
        <4>3. c = [conf EXCEPT !.seed = record[1].seed, !.subset = record[1].subset,
                               !.no_nested_subset = FALSE,
                               !.filter_in = conf.filter_in \cup get_rerun_filters(conf.statuses)]
          BY <3>1 DEF overridden, RerunSubset
        <4>4. record[1].seed \in Int /\ record[1].subset \in Nat \X Nat
          BY <4>1 DEF Entries
        <4>5. conf.filter_in \cup get_rerun_filters(conf.statuses) \in SUBSET Filters
          BY <4>2 DEF TypeInv, Confs
        <4> HIDE DEF c
        <4>6. /\ c \in Confs /\ c.rerun = conf.rerun
              /\ c.seed = record[1].seed /\ c.subset = record[1].subset
          BY <4>3, <4>4, <4>5 DEF TypeInv, Confs
        <4>7. record[1].subset = first.subset /\ record[1].seed \in Seeds(first.seed)
          BY <4>1 DEF OriginInv
        <4> QED BY <3>1, <4>4, <4>6, <4>7 DEF Seeds
      <3>2. CASE ~conf.rerun
        <4>1. conf = [first EXCEPT !.seed = conf.seed] /\ conf \in Confs /\ first \in Confs
          BY <3>2 DEF OriginInv, TypeInv
        <4>2. conf.subset = first.subset
          BY <4>1 DEF Confs
        <4>3. conf.seed = first.seed /\ conf.seed \in Int
          BY <3>2, <4>1 DEF OriginInv, Confs, main
        <4> QED BY <3>2, <4>1, <4>2, <4>3
      <3> QED BY <3>1, <3>2
    <2> HIDE DEF c
    <2>4. /\ conf' \in Confs /\ conf'.rerun = conf.rerun /\ conf'.subset = first.subset
          /\ conf'.seed \in Seeds(first.seed) /\ conf'.seed \in Int
          /\ ~conf.rerun => conf' = [first EXCEPT !.seed = conf'.seed]
      <3>1. CASE c.seed < 0
        <4>1. conf' = [c EXCEPT !.seed = random]
          BY <2>1, <3>1
        <4>2. random \in {0, 1} /\ first \in Confs
          BY DEF TypeInv
        <4>3. /\ conf' \in Confs /\ conf'.rerun = c.rerun /\ conf'.subset = c.subset /\ conf'.seed = random
              /\ ~conf.rerun => conf' = [first EXCEPT !.seed = random]
          <5>1. random \in Int /\ c.seed \in Int /\ c \in Confs
            BY <2>3
          <5>2. conf' \in Confs /\ conf'.rerun = c.rerun /\ conf'.subset = c.subset /\ conf'.seed = random
            BY <4>1, <5>1, Reseeded
          <5>3. ASSUME ~conf.rerun PROVE conf' = [first EXCEPT !.seed = random]
            <6>1. c = [first EXCEPT !.seed = c.seed]
              BY <2>3, <5>3
            <6>2. [[first EXCEPT !.seed = c.seed] EXCEPT !.seed = random] = [first EXCEPT !.seed = random]
              BY <4>2, <5>1, Reseeded
            <6> QED BY <4>1, <6>1, <6>2
          <5> QED BY <5>2, <5>3
        <4> QED BY <4>2, <4>3, <2>3 DEF Seeds
      <3>2. CASE ~(c.seed < 0)
        BY <2>1, <2>3, <3>2 DEF Seeds
      <3> QED BY <3>1, <3>2
    <2>5. conf'.subset \in Nat \X Nat
      BY <2>4 DEF Confs
    <2>6. TypeInv'
      BY <2>1, <2>2, <2>4, <2>5, ScheduleSuiteAssumption DEF TypeInv, Steps, Collecting, Collects, suiteVars
    <2>7. OriginInv'
      <3>1. ~conf.rerun => record = <<>>
        BY DEF OriginInv, main
      <3>2. \A k \in DOMAIN record: conf.rerun
        BY <3>1
      <3> QED BY <2>1, <2>2, <2>4, <3>1, <3>2 DEF OriginInv
    <2> QED BY <2>6, <2>7
  <1> QED BY <1>1, <1>2

LEMMA GenerateShape ==
  ASSUME TypeInv, OriginInv, generate
  PROVE  TypeInv' /\ OriginInv'
  <1> DEFINE made == jobs_of(dir, conf.subset, conf.no_nested_subset, conf.seed)
  <1>1. made \in Seq(SUBSET (Fragments \cup {Failed})) /\ pc = "generate"
    BY MadeTyped DEF generate
  <1>2. UNCHANGED <<dir, build, first, conf, base, missing, jobs, sha1s, backtrack, queue, record>>
    BY DEF generate
  <1>3. \/ pc' = "raised" /\ UNCHANGED configs
        \/ pc' = "merge" /\ configs' = made /\ \A i \in DOMAIN made: Failed \notin made[i]
    BY DEF generate
  <1>4. pc' = "merge" => configs' \in Seq(Descs)
    <2> HAVE pc' = "merge"
    <2>1. configs' = made /\ \A i \in DOMAIN made: Failed \notin made[i]
      BY <1>3
    <2> HIDE DEF made
    <2>2. \A i \in 1..Len(made): made[i] \in Descs
      <3> TAKE i \in 1..Len(made)
      <3>1. made[i] \in SUBSET (Fragments \cup {Failed}) /\ Failed \notin made[i]
        BY <1>1, <2>1
      <3> QED BY <3>1 DEF Descs
    <2> QED BY <1>1, <2>1, <2>2
  <1>5. TypeInv'
    BY <1>2, <1>3, <1>4 DEF TypeInv, Steps, Collecting, Collects
  <1>6. OriginInv'
    BY <1>1, <1>2, <1>3 DEF OriginInv, Steps
  <1> QED BY <1>5, <1>6

\* What config_merge makes of the jobs: those it accepts.
LEMMA MergedIs ==
  ASSUME NEW s \in Seq(Descs), NEW accepted \in SUBSET Descs,
         base \in [sha1: 0..Tip, suite_sha1: 0..Tip, subset: Nat \X Nat, seed: Int]
  PROVE  LET kept == Select(s, accepted)
             made == [i \in DOMAIN kept |-> config(kept[i])]
         IN /\ made \in Seq(Merged)
            /\ {made[i].desc: i \in DOMAIN made} = ToSet(s) \cap accepted
  <1> DEFINE kept == Select(s, accepted)
             made == [i \in DOMAIN kept |-> config(kept[i])]
  <1>1. kept \in Seq(Descs) /\ ToSet(kept) = ToSet(s) \cap accepted
    BY SelectKeeps
  <1> HIDE DEF kept
  <1>2. \A i \in DOMAIN kept: kept[i] \in Descs
    BY <1>1
  <1>3. \A i \in DOMAIN kept: config(kept[i]) \in Merged /\ config(kept[i]).desc = kept[i]
    BY <1>2 DEF config, Merged
  <1>4. DOMAIN kept = 1..Len(kept) /\ Len(kept) \in Nat
    BY <1>1
  <1>5. made \in Seq(Merged)
    BY <1>3, <1>4
  <1>6. {made[i].desc: i \in DOMAIN made} = ToSet(kept)
    BY <1>3 DEF ToSet
  <1> QED BY <1>1, <1>5, <1>6 DEF kept

LEMMA MergeShape ==
  ASSUME TypeInv, OriginInv, config_merge
  PROVE  TypeInv' /\ OriginInv'
  <1> DEFINE accepted == {desc \in ToSet(configs): Accepted(desc)}
             kept == Select(configs, accepted)
             made == [i \in DOMAIN kept |-> config(kept[i])]
  <1>1. /\ pc = "merge" /\ pc' = "collect" /\ configs' = made
        /\ UNCHANGED <<dir, build, first, conf, base, missing, jobs, sha1s, backtrack, queue, record>>
    BY DEF config_merge
  <1>2. configs \in Seq(Descs) /\ accepted \in SUBSET Descs
    BY <1>1 DEF TypeInv, ToSet
  <1>3. base \in [sha1: 0..Tip, suite_sha1: 0..Tip, subset: Nat \X Nat, seed: Int]
    BY DEF TypeInv
  <1> HIDE DEF accepted
  <1>4. made \in Seq(Merged)
    BY <1>2, <1>3, MergedIs
  <1> HIDE DEF made
  <1>5. TypeInv'
    BY <1>1, <1>4 DEF TypeInv, Steps, Collecting, Collects
  <1>6. OriginInv'
    BY <1>1 DEF OriginInv, Steps
  <1> QED BY <1>5, <1>6

\* What collect_jobs visits.
LEMMA VisitedIs ==
  ASSUME configs \in Seq(Merged), conf \in Confs
  PROVE  /\ Visited \in Seq(DOMAIN configs) /\ ToSet(Visited) \subseteq Wanted
         /\ job_limit = 0 => ToSet(Visited) = Wanted
  <1> DEFINE all == [i \in DOMAIN configs |-> i]
             wanted == Select(all, Wanted)
  <1>1. all \in Seq(DOMAIN configs) /\ ToSet(all) = DOMAIN configs
    <2>1. DOMAIN configs = 1..Len(configs) /\ Len(configs) \in Nat
      OBVIOUS
    <2>2. DOMAIN all = DOMAIN configs /\ \A i \in DOMAIN configs: all[i] = i
      OBVIOUS
    <2>3. all \in Seq(DOMAIN configs)
      BY <2>1
    <2> HIDE DEF all
    <2> QED BY <2>2, <2>3 DEF ToSet
  <1>2. Wanted \subseteq DOMAIN configs
    BY DEF Wanted
  <1> HIDE DEF all
  <1>3. wanted \in Seq(DOMAIN configs) /\ ToSet(wanted) = Wanted
    <2>1. wanted \in Seq(DOMAIN configs) /\ ToSet(wanted) = ToSet(all) \cap Wanted
      BY <1>1, SelectKeeps
    <2> QED BY <1>1, <1>2, <2>1
  <1>4. Visited = IF job_limit = 0 \/ Len(wanted) <= job_limit THEN wanted
                  ELSE SubSeq(wanted, 1, job_limit)
    BY DEF Visited, all
  <1>5. job_limit \in Nat
    BY DEF job_limit, Confs
  <1> HIDE DEF wanted
  <1>6. CASE job_limit = 0 \/ Len(wanted) <= job_limit
    BY <1>3, <1>4, <1>6
  <1>7. CASE ~(job_limit = 0 \/ Len(wanted) <= job_limit)
    <2>1. Visited = SubSeq(wanted, 1, job_limit) /\ job_limit < Len(wanted)
      BY <1>3, <1>4, <1>5, <1>7
    <2>2. /\ Visited \in Seq(DOMAIN configs) /\ DOMAIN Visited = 1..job_limit
          /\ \A i \in 1..job_limit: Visited[i] = wanted[i] /\ i \in DOMAIN wanted
      BY <2>1, <1>3, <1>5
    <2> QED BY <1>3, <1>7, <2>2 DEF ToSet
  <1> QED BY <1>6, <1>7

LEMMA UpdatedKeeps ==
  ASSUME NEW c \in Merged, base \in [sha1: 0..Tip, suite_sha1: 0..Tip, subset: Nat \X Nat, seed: Int]
  PROVE  /\ update_key(c) \in Merged /\ update_key(c).desc = c.desc /\ update_key(c).frags = c.frags
         /\ update_key(c).sha1 = base.sha1 /\ update_key(c).suite_sha1 = base.suite_sha1
  BY DEF Merged, update_key

LEMMA JobsIs ==
  ASSUME NEW is \in Seq(DOMAIN configs), configs \in Seq(Merged),
         base \in [sha1: 0..Tip, suite_sha1: 0..Tip, subset: Nat \X Nat, seed: Int]
  PROVE  /\ [k \in DOMAIN is |-> update_key(configs[is[k]])] \in Seq(Merged)
         /\ is # <<>> => [k \in DOMAIN is |-> update_key(configs[is[k]])] # <<>>
  <1>1. \A k \in DOMAIN is: is[k] \in DOMAIN configs
    OBVIOUS
  <1>2. \A k \in DOMAIN is: update_key(configs[is[k]]) \in Merged
    BY <1>1, UpdatedKeeps
  <1>3. DOMAIN is = 1..Len(is) /\ Len(is) \in Nat
    OBVIOUS
  <1>4. is # <<>> => 1 \in DOMAIN is
    OBVIOUS
  <1> QED BY <1>2, <1>3, <1>4

\* What is collected at one commit, whatever search it is part of: no configuration changes
\* but for the commit; the jobs are of the wanted ones, and what is missing is told.
LEMMA CollectedIs ==
  ASSUME configs \in Seq(Merged), conf \in Confs,
         base \in [sha1: 0..Tip, suite_sha1: 0..Tip, subset: Nat \X Nat, seed: Int]
  PROVE  /\ Collected.configs \in Seq(Merged) /\ DOMAIN Collected.configs = DOMAIN configs
         /\ \A i \in DOMAIN configs: /\ Collected.configs[i].desc = configs[i].desc
                                     /\ Collected.configs[i].frags = configs[i].frags
         /\ Collected.missing \in Seq(Merged) /\ Collected.jobs \in Seq(Merged)
         /\ \A k \in DOMAIN Collected.jobs: \E i \in Wanted: Collected.jobs[k] = update_key(configs[i])
         /\ Collected.missing = <<>> =>
              \A k \in DOMAIN Collected.jobs: build[base.sha1] \cap Collected.jobs[k].frags = {}
         /\ Collected.missing # <<>> /\ job_limit = 0 =>
              \E i \in Wanted: build[base.sha1] \cap configs[i].frags # {}
         /\ Collected.missing = <<>> \/ conf.newest = 0 =>
              (job_limit = 0 => \A i \in Wanted: \E k \in DOMAIN Collected.jobs:
                                  Collected.jobs[k] = update_key(configs[i]))
  <1> DEFINE visited  == Visited
             lacking  == Lacking(visited)
             given_up == conf.newest > 0 /\ lacking # <<>>
             updated  == IF given_up THEN {i \in ToSet(visited): i <= lacking[1]} ELSE ToSet(visited)
             Jobs(is) == [k \in DOMAIN is |-> update_key(configs[is[k]])]
             new      == [i \in DOMAIN configs |->
                           IF i \in updated THEN update_key(configs[i]) ELSE configs[i]]
             short    == IF given_up THEN <<lacking[1]>> ELSE lacking
             collected == IF given_up THEN <<>> ELSE Jobs(visited)
  <1>1. Collected.configs = new /\ Collected.missing = Jobs(short) /\ Collected.jobs = collected
    BY DEF Collected
  <1>2. /\ visited \in Seq(DOMAIN configs) /\ ToSet(visited) \subseteq Wanted
        /\ job_limit = 0 => ToSet(visited) = Wanted
    BY VisitedIs
  <1> DEFINE lacks == {i \in ToSet(visited): PackageMissing(update_key(configs[i]))}
  <1>3. lacking \in Seq(DOMAIN configs) /\ ToSet(lacking) = lacks
    <2>1. lacking = Select(visited, lacks)
      BY DEF Lacking
    <2>2. lacks \subseteq ToSet(visited)
      OBVIOUS
    <2> HIDE DEF lacking, lacks, visited
    <2>3. lacking \in Seq(DOMAIN configs) /\ ToSet(lacking) = ToSet(visited) \cap lacks
      BY <1>2, <2>1, SelectKeeps
    <2> QED BY <2>2, <2>3
  <1>4. \A i \in DOMAIN configs: configs[i] \in Merged
    OBVIOUS
  <1>5. Wanted \subseteq DOMAIN configs
    BY DEF Wanted
  <1>6. \A i \in ToSet(visited): i \in lacks <=> build[base.sha1] \cap configs[i].frags # {}
    <2> TAKE i \in ToSet(visited)
    <2>1. configs[i] \in Merged
      BY <1>2, <1>4, <1>5
    <2>2. update_key(configs[i]).sha1 = base.sha1 /\ update_key(configs[i]).frags = configs[i].frags
      BY <2>1, UpdatedKeeps
    <2> QED BY <2>2 DEF PackageMissing
  <1> HIDE DEF visited, lacking, lacks
  <1>7. new \in Seq(Merged) /\ DOMAIN new = DOMAIN configs
    <2>1. \A i \in DOMAIN configs: update_key(configs[i]) \in Merged
      BY <1>4, UpdatedKeeps
    <2>2. DOMAIN configs = 1..Len(configs) /\ Len(configs) \in Nat
      OBVIOUS
    <2> HIDE DEF updated
    <2> QED BY <1>4, <2>1, <2>2
  <1>8. \A i \in DOMAIN configs: new[i].desc = configs[i].desc /\ new[i].frags = configs[i].frags
    <2>1. \A i \in DOMAIN configs: /\ update_key(configs[i]).desc = configs[i].desc
                                   /\ update_key(configs[i]).frags = configs[i].frags
      BY <1>4, UpdatedKeeps
    <2> HIDE DEF updated
    <2> QED BY <2>1
  <1>9. short \in Seq(DOMAIN configs) /\ (lacking # <<>> <=> short # <<>>)
    <2>1. lacking # <<>> => <<lacking[1]>> \in Seq(DOMAIN configs) /\ <<lacking[1]>> # <<>>
      BY <1>3
    <2>2. given_up => lacking # <<>>
      OBVIOUS
    <2> HIDE DEF given_up
    <2> QED BY <1>3, <2>1, <2>2
  <1> HIDE DEF short, given_up
  <1>10. Jobs(short) \in Seq(Merged) /\ (short # <<>> => Jobs(short) # <<>>)
    BY <1>9, JobsIs
  <1>11. Jobs(visited) \in Seq(Merged)
    BY <1>2, JobsIs
  <1>12. collected \in Seq(Merged)
    BY <1>11
  <1>13. \A k \in DOMAIN visited: visited[k] \in ToSet(visited)
    BY DEF ToSet
  <1>14. \A k \in DOMAIN collected: /\ k \in DOMAIN visited
                                    /\ collected[k] = update_key(configs[visited[k]])
    OBVIOUS
  <1>15. \A k \in DOMAIN collected: \E i \in Wanted: collected[k] = update_key(configs[i])
    BY <1>2, <1>13, <1>14
  <1>16. Jobs(short) = <<>> => \A k \in DOMAIN collected: build[base.sha1] \cap collected[k].frags = {}
    <2> SUFFICES ASSUME Jobs(short) = <<>>, NEW k \in DOMAIN collected
                 PROVE  build[base.sha1] \cap collected[k].frags = {}
      OBVIOUS
    <2>1. lacking = <<>>
      BY <1>9, <1>10
    <2>2. lacks = {}
      BY <1>3, <2>1 DEF ToSet
    <2>3. visited[k] \in ToSet(visited) /\ collected[k] = update_key(configs[visited[k]])
      BY <1>13, <1>14
    <2>4. build[base.sha1] \cap configs[visited[k]].frags = {}
      BY <1>6, <2>2, <2>3
    <2>5. configs[visited[k]] \in Merged
      BY <1>2, <1>4, <1>5, <2>3
    <2> QED BY <2>3, <2>4, <2>5, UpdatedKeeps
  <1>17. Jobs(short) # <<>> /\ job_limit = 0 =>
           \E i \in Wanted: build[base.sha1] \cap configs[i].frags # {}
    <2> HAVE Jobs(short) # <<>> /\ job_limit = 0
    <2>1. short # <<>>
      OBVIOUS
    <2>2. lacking # <<>>
      BY <1>9, <2>1
    <2>3. lacking[1] \in lacks
      BY <1>3, <2>2 DEF ToSet
    <2>4. lacking[1] \in ToSet(visited)
      BY <2>3 DEF lacks
    <2> QED BY <1>2, <1>6, <2>3, <2>4
  <1>18. Jobs(short) = <<>> \/ conf.newest = 0 =>
           (job_limit = 0 =>
              \A i \in Wanted: \E k \in DOMAIN collected: collected[k] = update_key(configs[i]))
    <2> SUFFICES ASSUME Jobs(short) = <<>> \/ conf.newest = 0, job_limit = 0, NEW i \in Wanted
                 PROVE  \E k \in DOMAIN collected: collected[k] = update_key(configs[i])
      OBVIOUS
    <2>1. ~given_up
      BY <1>9, <1>10 DEF given_up
    <2>2. collected = Jobs(visited)
      BY <2>1
    <2>3. PICK k \in DOMAIN visited: visited[k] = i
      BY <1>2 DEF ToSet
    <2> QED BY <2>2, <2>3
  <1> HIDE DEF new, collected, Jobs
  <1> QED BY ONLY <1>1, <1>7, <1>8, <1>10, <1>12, <1>15, <1>16, <1>17, <1>18

\* The commits collect_jobs goes on to.
Parents == IF sha1s = <<>> THEN find_git_parents(base.sha1, conf.newest) ELSE sha1s

LEMMA ParentsTyped ==
  ASSUME TypeInv
  PROVE  Parents \in Seq(0..Tip)
  <1>1. base.sha1 \in 0..Tip /\ conf.newest \in Nat /\ Tip \in Nat
    BY ScheduleSuiteAssumption DEF TypeInv, Confs
  <1>2. find_git_parents(base.sha1, conf.newest) \in Seq(0..Tip)
    <2> DEFINE m == IF base.sha1 < conf.newest THEN base.sha1 ELSE conf.newest
    <2>1. m \in Nat /\ m <= base.sha1
      BY <1>1
    <2> HIDE DEF m
    <2>2. \A k \in 1..m: base.sha1 - k \in 0..Tip
      BY <1>1, <2>1
    <2>3. [k \in 1..m |-> base.sha1 - k] \in Seq(0..Tip)
      BY <2>1, <2>2
    <2> QED BY <2>3 DEF find_git_parents, m
  <1> QED BY <1>2 DEF Parents, TypeInv

\* What collect_jobs leaves: the jobs of one commit, and either the end of the search,
\* or no commit to go on to, or the next one.
LEMMA CollectSteps ==
  ASSUME collect_jobs
  PROVE  /\ pc = "collect"
         /\ configs' = Collected.configs /\ missing' = Collected.missing /\ jobs' = Collected.jobs
         /\ UNCHANGED <<dir, build, first, conf, queue, record>>
         /\ \/ /\ pc' = "memo" /\ UNCHANGED <<base, sha1s, backtrack>>
               /\ Collected.missing = <<>> \/ conf.newest = 0
            \/ pc' = "failed" /\ UNCHANGED <<base, sha1s, backtrack>>
            \/ /\ Collected.missing # <<>> /\ Parents # <<>>
               /\ base' = [sha1 |-> Head(Parents),
                           suite_sha1 |-> IF conf.same_repo THEN Head(Parents) ELSE base.suite_sha1,
                           subset |-> conf.subset, seed |-> conf.seed]
               /\ sha1s' = Tail(Parents) /\ backtrack' = backtrack + 1
               /\ pc' = IF backtrack' <= conf.newest THEN "collect" ELSE "failed"
  BY DEF collect_jobs, Parents, build_base_config

LEMMA CollectShape ==
  ASSUME TypeInv, OriginInv, collect_jobs
  PROVE  TypeInv' /\ OriginInv'
  <1>1. pc = "collect" /\ UNCHANGED <<dir, build, first, conf, queue, record>>
    BY CollectSteps
  <1>2. configs \in Seq(Merged) /\ conf \in Confs
        /\ base \in [sha1: 0..Tip, suite_sha1: 0..Tip, subset: Nat \X Nat, seed: Int]
    BY <1>1 DEF TypeInv, Collecting
  <1>3. configs' \in Seq(Merged) /\ missing' \in Seq(Merged) /\ jobs' \in Seq(Merged)
    BY <1>2, CollectedIs, CollectSteps
  <1>4. /\ base' \in [sha1: 0..Tip, suite_sha1: 0..Tip, subset: Nat \X Nat, seed: Int]
        /\ base'.subset = conf.subset /\ base'.seed = conf.seed
        /\ sha1s' \in Seq(0..Tip) /\ backtrack' \in Nat /\ pc' \in {"collect", "memo", "failed"}
    <2>1. CASE UNCHANGED <<base, sha1s, backtrack>> /\ pc' \in {"memo", "failed"}
      <3>1. base.subset = conf.subset /\ base.seed = conf.seed
        BY <1>1 DEF OriginInv, Steps
      <3> QED BY <2>1, <1>2, <3>1 DEF TypeInv
    <2>2. CASE /\ Parents # <<>>
               /\ base' = [sha1 |-> Head(Parents),
                           suite_sha1 |-> IF conf.same_repo THEN Head(Parents) ELSE base.suite_sha1,
                           subset |-> conf.subset, seed |-> conf.seed]
               /\ sha1s' = Tail(Parents) /\ backtrack' = backtrack + 1
               /\ pc' \in {"collect", "failed"}
      <3>1. Parents \in Seq(0..Tip)
        BY ParentsTyped
      <3>2. Head(Parents) \in 0..Tip /\ Tail(Parents) \in Seq(0..Tip)
        BY <2>2, <3>1, HeadTailProperties
      <3>3. conf.subset \in Nat \X Nat /\ conf.seed \in Int /\ backtrack \in Nat
        BY <1>2 DEF Confs, TypeInv
      <3> QED BY <2>2, <3>2, <3>3, <1>2
    <2> QED BY <2>1, <2>2, CollectSteps
  <1>5. TypeInv'
    BY <1>1, <1>3, <1>4 DEF TypeInv, Steps
  <1>6. OriginInv'
    BY <1>1, <1>4 DEF OriginInv, Steps
  <1> QED BY <1>5, <1>6

\* What is put into beanstalk before the jobs and after them.
LEMMA MemoShape ==
  ASSUME TypeInv, OriginInv, write_rerun_memo \/ write_result
  PROVE  TypeInv' /\ OriginInv'
  <1>1. /\ (pc = "memo" /\ pc' = "check_priority") \/ (pc = "write_result" /\ pc' = "done")
        /\ UNCHANGED <<dir, build, first, conf, base, suiteVars, record>>
        /\ queue' = queue
           \/ queue' = Append(queue, Put("memo", 0, 1))
           \/ queue' = Append(queue, Put("last", 0, 1))
    BY DEF write_rerun_memo, write_result
  <1>2. queue' \in Seq(Puts)
    <2>1. Put("memo", 0, 1) \in Puts /\ Put("last", 0, 1) \in Puts /\ queue \in Seq(Puts)
      BY DEF Put, Puts, TypeInv
    <2> QED BY <1>1, <2>1
  <1>3. TypeInv'
    BY <1>1, <1>2 DEF TypeInv, Steps, Collecting, Collects, suiteVars
  <1>4. OriginInv'
    BY <1>1 DEF OriginInv, Steps
  <1> QED BY <1>3, <1>4

LEMMA CheckShape ==
  ASSUME TypeInv, OriginInv, check_priority \/ check_num_jobs
  PROVE  TypeInv' /\ OriginInv'
  <1>1. /\ pc \in {"check_priority", "check_num_jobs"} /\ pc' \in {"check_num_jobs", "schedule", "failed"}
        /\ UNCHANGED <<dir, build, first, conf, base, suiteVars, queue, record>>
    BY DEF check_priority, check_num_jobs
  <1>2. TypeInv'
    BY <1>1 DEF TypeInv, Steps, Collecting, Collects, suiteVars
  <1>3. OriginInv'
    BY <1>1 DEF OriginInv, Steps
  <1> QED BY <1>2, <1>3

LEMMA ScheduleShape ==
  ASSUME TypeInv, OriginInv, schedule_jobs, Scheduled \in Nat
  PROVE  TypeInv' /\ OriginInv'
  <1> DEFINE k == Scheduled + 1
             entry == [desc |-> jobs[k].desc, subset |-> base.subset, seed |-> base.seed,
                       status |-> "queued"]
  <1>1. pc = "schedule" /\ UNCHANGED <<dir, build, first, conf, base, suiteVars>>
    BY DEF schedule_jobs
  <1>2. CASE pc' \in {"write_result", "failed"} /\ UNCHANGED <<queue, record>>
    <2>1. TypeInv'
      BY <1>1, <1>2 DEF TypeInv, Steps, Collecting, Collects, suiteVars
    <2>2. OriginInv'
      BY <1>1, <1>2 DEF OriginInv, Steps
    <2> QED BY <2>1, <2>2
  <1>3. CASE /\ k <= Len(jobs) /\ UNCHANGED pc
             /\ queue' = Append(queue, Put("job", k, conf.num))
             /\ record' = IF conf.rerun THEN record ELSE Append(record, entry)
    <2>1. jobs \in Seq(Merged) /\ conf \in Confs /\ record \in Seq(Entries) /\ queue \in Seq(Puts)
      BY DEF TypeInv
    <2>2. k \in Nat /\ k \in DOMAIN jobs
      BY <1>3, <2>1
    <2>3. Put("job", k, conf.num) \in Puts
      BY <2>1, <2>2 DEF Put, Puts, Confs
    <2>4. entry \in Entries
      <3>1. jobs[k] \in Merged
        BY <2>1, <2>2
      <3>2. base.subset \in Nat \X Nat /\ base.seed \in Int /\ jobs[k].desc \in Descs
        BY <3>1 DEF TypeInv, Merged
      <3> QED BY <3>2 DEF Entries
    <2>5. base.subset = first.subset /\ base.seed = conf.seed /\ conf.seed \in Seeds(first.seed)
      BY <1>1 DEF OriginInv, Steps
    <2>6. entry.subset = base.subset /\ entry.seed = base.seed
      OBVIOUS
    <2> HIDE DEF entry, k
    <2>7. TypeInv'
      <3>1. queue' \in Seq(Puts) /\ record' \in Seq(Entries)
        BY <1>3, <2>1, <2>3, <2>4
      <3> QED BY <1>1, <1>3, <3>1 DEF TypeInv, Steps, Collecting, Collects, suiteVars
    <2>8. \A j \in DOMAIN record': /\ record'[j].subset = first.subset
                                   /\ record'[j].seed = record'[1].seed
                                   /\ record'[j].seed \in Seeds(first.seed)
                                   /\ ~conf.rerun => record'[j].seed = conf.seed
      <3>1. CASE conf.rerun
        BY <1>3, <3>1 DEF OriginInv
      <3>2. CASE ~conf.rerun
        <4>1. record' = Append(record, entry)
          BY <1>3, <3>2
        <4>2. \A j \in DOMAIN record: record[j].subset = first.subset /\ record[j].seed = conf.seed
          BY <3>2 DEF OriginInv
        <4>3. \A j \in DOMAIN record': record'[j] = entry \/ (j \in DOMAIN record /\ record'[j] = record[j])
          BY <2>1, <2>4, <4>1
        <4>4. \A j \in DOMAIN record': record'[j].subset = first.subset /\ record'[j].seed = conf.seed
          BY <2>5, <2>6, <4>2, <4>3
        <4>5. 1 \in DOMAIN record'
          BY <2>1, <2>4, <4>1
        <4> QED BY <2>5, <4>4, <4>5
      <3> QED BY <3>1, <3>2
    <2>9. OriginInv'
      <3>1. conf.rerun => record' # <<>>
        BY <1>3 DEF OriginInv
      <3> QED BY <1>1, <1>3, <2>8, <3>1 DEF OriginInv, Steps
    <2> QED BY <2>7, <2>9
  <1> QED
    <2>1. jobs \in Seq(Merged)
      BY DEF TypeInv
    <2> QED BY <1>2, <1>3, <2>1 DEF schedule_jobs

LEMMA RerunShape ==
  ASSUME TypeInv, OriginInv, Rerun
  PROVE  TypeInv' /\ OriginInv'
  <1>1. PICK ends \in [DOMAIN record -> {"pass", "fail"}], c \in Reruns:
          record' = [k \in DOMAIN record |-> [record[k] EXCEPT !.status = ends[k]]] /\ conf' = c
    BY DEF Rerun
  <1>2. /\ pc \in {"done", "failed"} /\ ~conf.rerun /\ pc' = "main" /\ Len(record) \in 1..MaxRerun
        /\ configs' = <<>> /\ missing' = <<>> /\ jobs' = <<>> /\ sha1s' = <<>> /\ backtrack' = 0
        /\ queue' = <<>> /\ UNCHANGED <<dir, build, first, base>>
    BY DEF Rerun
  <1>3. c \in Confs /\ c.rerun /\ record \in Seq(Entries)
    BY ScheduleSuiteAssumption DEF TypeInv
  <1>4. DOMAIN record' = DOMAIN record /\ DOMAIN record = 1..Len(record) /\ Len(record) \in Nat \ {0}
    BY <1>1, <1>2, <1>3
  <1>5. \A k \in DOMAIN record: /\ record'[k] \in Entries /\ record'[k].subset = record[k].subset
                                /\ record'[k].seed = record[k].seed
    <2> TAKE k \in DOMAIN record
    <2>1. record[k] \in Entries /\ ends[k] \in {"pass", "fail"}
      BY <1>3
    <2>2. record'[k] = [record[k] EXCEPT !.status = ends[k]]
      BY <1>1
    <2> QED BY <2>1, <2>2 DEF Entries
  <1>6. record' \in Seq(Entries) /\ record' # <<>>
    <2>1. record' = [k \in 1..Len(record) |-> record'[k]]
      BY <1>1, <1>4
    <2>2. \A k \in 1..Len(record): record'[k] \in Entries
      BY <1>4, <1>5
    <2>3. record' \in Seq(Entries)
      BY <1>4, <2>1, <2>2
    <2> QED BY <1>4, <2>3
  <1>7. TypeInv'
    BY <1>1, <1>2, <1>3, <1>6, ScheduleSuiteAssumption DEF TypeInv, Steps, Collecting, Collects
  <1>8. OriginInv'
    <2>1. \A k \in DOMAIN record: /\ record[k].subset = first.subset /\ record[k].seed = record[1].seed
                                  /\ record[k].seed \in Seeds(first.seed)
      BY DEF OriginInv
    <2>2. 1 \in DOMAIN record
      BY <1>4
    <2>3. \A k \in DOMAIN record': /\ record'[k].subset = first.subset /\ record'[k].seed = record'[1].seed
                                   /\ record'[k].seed \in Seeds(first.seed)
      BY <1>4, <1>5, <2>1, <2>2
    <2> QED BY <1>1, <1>2, <1>3, <1>6, <2>3 DEF OriginInv
  <1> QED BY <1>7, <1>8

LEMMA ScheduledIsNat ==
  ASSUME TypeInv
  PROVE  Scheduled \in Nat
  <1>1. queue \in Seq(Puts)
    BY DEF TypeInv
  <1>2. IsFiniteSet(1..Len(queue)) /\ DOMAIN queue = 1..Len(queue)
    BY <1>1, FS_Interval
  <1>3. IsFiniteSet({k \in DOMAIN queue: queue[k].what = "job"})
    BY <1>2, FS_Subset
  <1> QED BY <1>3, FS_CardinalityType DEF Scheduled

LEMMA NextShape ==
  ASSUME TypeInv, OriginInv, [Next]_vars
  PROVE  TypeInv' /\ OriginInv'
  <1>1. CASE UNCHANGED vars
    BY <1>1 DEF TypeInv, OriginInv, vars, suiteVars
  <1>2. CASE main
    BY <1>2, MainShape
  <1>3. CASE generate
    BY <1>3, GenerateShape
  <1>4. CASE config_merge
    BY <1>4, MergeShape
  <1>5. CASE collect_jobs
    BY <1>5, CollectShape
  <1>6. CASE write_rerun_memo \/ write_result
    BY <1>6, MemoShape
  <1>7. CASE check_priority \/ check_num_jobs
    BY <1>7, CheckShape
  <1>8. CASE schedule_jobs
    BY <1>8, ScheduleShape, ScheduledIsNat
  <1>9. CASE Rerun
    BY <1>9, RerunShape
  <1> QED BY <1>1, <1>2, <1>3, <1>4, <1>5, <1>6, <1>7, <1>8, <1>9 DEF Next

\* teuthology-suite never reads what is not there: the first job of the run it reruns, a
\* commit before the first.
THEOREM ShapeAlways == Spec => [](TypeInv /\ OriginInv)
  <1>1. Init => TypeInv /\ OriginInv
    BY InitShape
  <1>2. TypeInv /\ OriginInv /\ [Next]_vars => TypeInv' /\ OriginInv'
    BY NextShape
  <1> QED BY <1>1, <1>2, PTL DEF Spec

(* What is in beanstalk *)

\* A memo, unless there are no jobs, and the first n jobs.
Framed(n) ==
  LET m == IF jobs = <<>> THEN 0 ELSE 1
  IN /\ Len(queue) = m + n
     /\ jobs # <<>> => queue[1] = Put("memo", 0, 1)
     /\ \A k \in 1..n: queue[m + k] = Put("job", k, conf.num)

QueueInv ==
  /\ pc \in {"main", "generate", "merge", "collect", "memo"} => queue = <<>>
  /\ pc \in {"check_priority", "check_num_jobs"} => Framed(0)
  /\ pc = "schedule" => \E n \in 0..Len(jobs): Framed(n)
  /\ pc = "write_result" => Framed(Len(jobs))
  /\ RunIsFramed

LEMMA ScheduledCounts ==
  ASSUME TypeInv, NEW n \in Nat, Framed(n)
  PROVE  Scheduled = n
  <1> DEFINE m == IF jobs = <<>> THEN 0 ELSE 1
  <1>1. queue \in Seq(Puts) /\ Len(queue) = m + n /\ m \in {0, 1}
    BY DEF TypeInv, Framed
  <1>2. {k \in DOMAIN queue: queue[k].what = "job"} = (m + 1)..(m + n)
    <2>1. \A k \in (m + 1)..(m + n): k \in DOMAIN queue /\ queue[k].what = "job"
      <3> TAKE k \in (m + 1)..(m + n)
      <3>1. k - m \in 1..n /\ m + (k - m) = k /\ k \in 1..Len(queue)
        BY <1>1
      <3>2. queue[m + (k - m)] = Put("job", k - m, conf.num)
        BY <3>1 DEF Framed
      <3> QED BY <1>1, <3>1, <3>2 DEF Put
    <2>2. \A k \in DOMAIN queue: k \notin (m + 1)..(m + n) => queue[k].what # "job"
      <3> SUFFICES ASSUME NEW k \in DOMAIN queue, k \notin (m + 1)..(m + n)
                   PROVE  queue[k].what # "job"
        OBVIOUS
      <3>1. m = 1 /\ k = 1
        BY <1>1
      <3>2. queue[1] = Put("memo", 0, 1)
        BY <3>1 DEF Framed
      <3> QED BY <3>1, <3>2 DEF Put
    <2> QED BY <1>1, <2>1, <2>2
  <1>3. Cardinality((m + 1)..(m + n)) = n
    <2>1. m + 1 \in Int /\ m + n \in Int
      BY <1>1
    <2> HIDE DEF m
    <2>2. Cardinality((m + 1)..(m + n)) = IF m + 1 > m + n THEN 0 ELSE (m + n) - (m + 1) + 1
      BY <2>1, FS_Interval
    <2> QED BY <1>1, <2>2
  <1> QED BY <1>2, <1>3 DEF Scheduled

\* Putting the n-th thing into the queue.
LEMMA FramedNext ==
  ASSUME TypeInv, NEW n \in Nat, Framed(n), UNCHANGED <<jobs, conf>>,
         queue' = Append(queue, Put("job", n + 1, conf.num))
  PROVE  Framed(n + 1)'
  <1> DEFINE m == IF jobs = <<>> THEN 0 ELSE 1
  <1>1. /\ queue \in Seq(Puts) /\ Put("job", n + 1, conf.num) \in Puts
        /\ Len(queue) = m + n /\ m \in {0, 1}
    BY DEF TypeInv, Framed, Put, Puts, Confs
  <1>2. /\ Len(queue') = m + n + 1 /\ queue'[m + n + 1] = Put("job", n + 1, conf.num)
        /\ \A k \in 1..(m + n): queue'[k] = queue[k]
    BY <1>1
  <1>3. \A k \in 1..(n + 1): queue'[m + k] = Put("job", k, conf.num)
    <2> TAKE k \in 1..(n + 1)
    <2>1. CASE k = n + 1
      BY <1>1, <1>2, <2>1
    <2>2. CASE k # n + 1
      <3>1. k \in 1..n /\ m + k \in 1..(m + n)
        BY <1>1, <2>2
      <3>2. queue[m + k] = Put("job", k, conf.num)
        BY <3>1 DEF Framed
      <3> QED BY <1>2, <3>1, <3>2
    <2> QED BY <2>1, <2>2
  <1>4. jobs # <<>> => queue'[1] = Put("memo", 0, 1)
    <2> HAVE jobs # <<>>
    <2>1. 1 \in 1..(m + n) /\ queue[1] = Put("memo", 0, 1)
      BY DEF Framed
    <2> QED BY <1>2, <2>1
  <1> QED BY <1>1, <1>2, <1>3, <1>4 DEF Framed

LEMMA FramedDone ==
  ASSUME TypeInv, Framed(Len(jobs)), jobs # <<>>
  PROVE  Append(queue, Put("last", 0, 1)) =
           <<Put("memo", 0, 1)>> \o [k \in DOMAIN jobs |-> Put("job", k, conf.num)]
           \o <<Put("last", 0, 1)>>
  <1> DEFINE row == [k \in DOMAIN jobs |-> Put("job", k, conf.num)]
             n == Len(jobs)
  <1>1. /\ queue \in Seq(Puts) /\ jobs \in Seq(Merged) /\ n \in Nat /\ DOMAIN jobs = 1..n
        /\ Len(queue) = 1 + n /\ queue[1] = Put("memo", 0, 1)
        /\ \A k \in 1..n: queue[1 + k] = Put("job", k, conf.num)
    BY DEF TypeInv, Framed
  <1>2. row \in Seq(Puts) /\ Len(row) = n /\ \A k \in 1..n: row[k] = Put("job", k, conf.num)
    <2>1. \A k \in 1..n: Put("job", k, conf.num) \in Puts
      BY DEF TypeInv, Put, Puts, Confs
    <2> QED BY <1>1, <2>1
  <1> HIDE DEF row, n
  <1>3. queue = <<Put("memo", 0, 1)>> \o row
    <2>1. Put("memo", 0, 1) \in Puts
      BY DEF Put, Puts
    <2> DEFINE framed == <<Put("memo", 0, 1)>> \o row
    <2>2. /\ framed \in Seq(Puts) /\ Len(framed) = 1 + n /\ framed[1] = Put("memo", 0, 1)
          /\ \A k \in 1..n: framed[1 + k] = row[k]
      BY <1>1, <1>2, <2>1
    <2> HIDE DEF framed
    <2>3. \A k \in 1..(1 + n): queue[k] = framed[k]
      <3> TAKE k \in 1..(1 + n)
      <3>1. CASE k = 1
        BY <1>1, <2>2, <3>1
      <3>2. CASE k # 1
        <4>1. k - 1 \in 1..n /\ 1 + (k - 1) = k
          BY <1>1, <3>2
        <4> QED BY <1>1, <1>2, <2>2, <4>1
      <3> QED BY <3>1, <3>2
    <2>4. queue = framed
      BY <1>1, <2>2, <2>3
    <2> QED BY <2>4 DEF framed
  <1>4. Put("last", 0, 1) \in Puts
    BY DEF Put, Puts
  <1>5. Append(queue, Put("last", 0, 1)) = queue \o <<Put("last", 0, 1)>>
    BY <1>1, <1>4, AppendIsConcat
  <1> QED BY <1>3, <1>5 DEF row

LEMMA MainQueue ==
  ASSUME TypeInv, QueueInv, main \/ generate \/ config_merge \/ collect_jobs \/ Rerun
  PROVE  QueueInv'
  <1>1. queue' = <<>> /\ pc' \in {"main", "generate", "merge", "collect", "memo", "raised", "exited", "failed"}
    BY CollectSteps DEF main, generate, config_merge, Rerun, QueueInv
  <1>2. Scheduled' = 0
    <2>1. {k \in DOMAIN queue': queue'[k].what = "job"} = {}
      BY <1>1
    <2> QED BY <2>1, FS_EmptySet DEF Scheduled
  <1> QED BY <1>1, <1>2 DEF QueueInv, RunIsFramed

LEMMA MemoQueue ==
  ASSUME TypeInv, QueueInv, write_rerun_memo
  PROVE  QueueInv'
  <1>1. /\ queue = <<>> /\ pc' = "check_priority" /\ UNCHANGED <<jobs, conf>>
        /\ queue' = IF jobs = <<>> THEN queue ELSE Append(queue, Put("memo", 0, 1))
    BY DEF write_rerun_memo, QueueInv, suiteVars
  <1>2. Framed(0)'
    <2>1. CASE jobs = <<>>
      BY <1>1, <2>1 DEF Framed
    <2>2. CASE jobs # <<>>
      <3>1. queue' = <<Put("memo", 0, 1)>>
        BY <1>1, <2>2
      <3> QED BY <1>1, <2>2, <3>1 DEF Framed
    <2> QED BY <2>1, <2>2
  <1> QED BY <1>1, <1>2 DEF QueueInv, RunIsFramed

LEMMA CheckQueue ==
  ASSUME TypeInv, QueueInv, check_priority \/ check_num_jobs
  PROVE  QueueInv'
  <1>1. /\ pc \in {"check_priority", "check_num_jobs"} /\ pc' \in {"check_num_jobs", "schedule", "failed"}
        /\ UNCHANGED <<jobs, conf, queue, missing>>
    BY DEF check_priority, check_num_jobs, suiteVars
  <1>2. Framed(0)
    BY <1>1 DEF QueueInv
  <1>3. Framed(0)' /\ Scheduled = 0
    BY <1>1, <1>2, ScheduledCounts DEF Framed
  <1>4. Scheduled' = 0 /\ 0 \in 0..Len(jobs)'
    BY <1>1, <1>3 DEF Scheduled, TypeInv
  <1> QED BY <1>1, <1>3, <1>4 DEF QueueInv, RunIsFramed

LEMMA ScheduleQueue ==
  ASSUME TypeInv, QueueInv, schedule_jobs
  PROVE  QueueInv'
  <1>1. pc = "schedule" /\ UNCHANGED <<jobs, conf, missing>>
    BY DEF schedule_jobs, suiteVars
  <1>2. PICK n \in 0..Len(jobs): Framed(n)
    BY <1>1 DEF QueueInv
  <1>3. Scheduled = n /\ n \in Nat /\ Len(jobs) \in Nat
    BY <1>2, ScheduledCounts DEF TypeInv
  <1>4. CASE n + 1 > Len(jobs)
    <2>1. pc' = "write_result" /\ UNCHANGED queue /\ n = Len(jobs)
      BY <1>3, <1>4 DEF schedule_jobs
    <2>2. Framed(Len(jobs))'
      BY <1>1, <1>2, <2>1 DEF Framed
    <2> QED BY <2>1, <2>2 DEF QueueInv, RunIsFramed
  <1>5. CASE n + 1 <= Len(jobs) /\ jobs[n + 1] \in ToSet(missing) /\ ~conf.allow_missing_packages
    <2>1. pc' = "failed" /\ UNCHANGED queue
      BY <1>3, <1>5 DEF schedule_jobs
    <2>2. Scheduled' = n
      BY <1>3, <2>1 DEF Scheduled
    <2> QED BY <1>1, <1>5, <2>1, <2>2 DEF QueueInv, RunIsFramed
  <1>6. CASE n + 1 <= Len(jobs) /\ ~(jobs[n + 1] \in ToSet(missing) /\ ~conf.allow_missing_packages)
    <2>1. UNCHANGED pc /\ queue' = Append(queue, Put("job", n + 1, conf.num))
      BY <1>3, <1>6 DEF schedule_jobs
    <2>2. Framed(n + 1)'
      BY <1>1, <1>2, <1>3, <2>1, FramedNext
    <2>3. n + 1 \in 0..Len(jobs)'
      BY <1>1, <1>3, <1>6
    <2> QED BY <1>1, <2>1, <2>2, <2>3 DEF QueueInv, RunIsFramed
  <1> QED BY <1>3, <1>4, <1>5, <1>6

LEMMA ResultQueue ==
  ASSUME TypeInv, QueueInv, write_result
  PROVE  QueueInv'
  <1>1. /\ pc = "write_result" /\ pc' = "done" /\ UNCHANGED <<jobs, conf>>
        /\ queue' = IF jobs = <<>> THEN queue ELSE Append(queue, Put("last", 0, 1))
    BY DEF write_result, suiteVars
  <1>2. Framed(Len(jobs))
    BY <1>1 DEF QueueInv
  <1>3. jobs = <<>> => queue = <<>>
    BY <1>2 DEF Framed, TypeInv
  <1>4. jobs # <<>> =>
          queue' = <<Put("memo", 0, 1)>> \o [k \in DOMAIN jobs |-> Put("job", k, conf.num)]
                   \o <<Put("last", 0, 1)>>
    BY <1>1, <1>2, FramedDone
  <1> QED BY <1>1, <1>3, <1>4 DEF QueueInv, RunIsFramed

LEMMA NextQueue ==
  ASSUME TypeInv, QueueInv, [Next]_vars
  PROVE  QueueInv'
  <1>1. CASE UNCHANGED vars
    BY <1>1 DEF QueueInv, RunIsFramed, Framed, Scheduled, vars, suiteVars
  <1>2. CASE main \/ generate \/ config_merge \/ collect_jobs \/ Rerun
    BY <1>2, MainQueue
  <1>3. CASE write_rerun_memo
    BY <1>3, MemoQueue
  <1>4. CASE check_priority \/ check_num_jobs
    BY <1>4, CheckQueue
  <1>5. CASE schedule_jobs
    BY <1>5, ScheduleQueue
  <1>6. CASE write_result
    BY <1>6, ResultQueue
  <1> QED BY <1>1, <1>2, <1>3, <1>4, <1>5, <1>6 DEF Next

LEMMA QueueAlways == Spec => []QueueInv
  <1>1. Init => QueueInv
    <2> SUFFICES ASSUME Init PROVE QueueInv
      OBVIOUS
    <2>1. queue = <<>> /\ pc = "main"
      BY DEF Init
    <2> QED BY <2>1 DEF QueueInv, RunIsFramed
  <1>2. TypeInv /\ OriginInv /\ QueueInv /\ [Next]_vars => QueueInv'
    BY NextQueue
  <1> QED BY <1>1, <1>2, ShapeAlways, PTL DEF Spec

\* What is in beanstalk is a memo, the jobs in their order and a last job, or nothing,
\* for every suite and every arguments; a run that is refused after it put a job there
\* is refused for its packages.
THEOREM RunIsFramedHolds == Spec => []RunIsFramed
  <1>1. QueueInv => RunIsFramed
    BY DEF QueueInv
  <1> QED BY <1>1, QueueAlways, PTL

(* What --newest finds *)

\* The commit the search is at, and those it would go on to.
AtCommit ==
  /\ pc \in {"generate", "merge"} \cup Collecting \cup Collects =>
       /\ base.sha1 + backtrack = Tip /\ backtrack <= conf.newest
       /\ base.suite_sha1 = IF conf.same_repo THEN base.sha1 ELSE Tip
  /\ pc \in {"main", "generate", "merge"} => backtrack = 0 /\ sha1s = <<>>
  /\ pc \in Collecting => /\ Len(sha1s) <= base.sha1
                          /\ \A k \in 1..Len(sha1s): sha1s[k] = base.sha1 - k

\* No newer commit has all packages, and the jobs are of this one, which has them.
NewestInv ==
  /\ AtCommit
  /\ pc \in Collecting \cup Collects =>
       (job_limit = 0 => \A newer \in (base.sha1 + 1)..Tip:
                           \E i \in Wanted: build[newer] \cap configs[i].frags # {})
  /\ pc \in Collects => \A k \in DOMAIN jobs: /\ jobs[k].sha1 = base.sha1
                                              /\ jobs[k].suite_sha1 = base.suite_sha1
                                              /\ conf.newest > 0 => build[base.sha1] \cap jobs[k].frags = {}

LEMMA MainNewest ==
  ASSUME TypeInv, NewestInv, main \/ generate \/ config_merge \/ Rerun
  PROVE  NewestInv'
  <1>1. pc' \in {"main", "generate", "merge", "collect", "exited", "raised"}
    BY DEF main, generate, config_merge, Rerun
  <1>2. backtrack' = 0 /\ sha1s' = <<>>
    BY DEF main, generate, config_merge, Rerun, NewestInv, AtCommit, suiteVars
  <1>3. pc' \in {"generate", "merge", "collect"} =>
          /\ base'.sha1 = Tip /\ base'.suite_sha1 = Tip /\ conf'.newest \in Nat
    <2>1. CASE main
      <3> SUFFICES ASSUME pc' # "exited"
                   PROVE  base'.sha1 = Tip /\ base'.suite_sha1 = Tip /\ conf'.newest \in Nat
        BY <2>1 DEF main
      <3> DEFINE c == IF conf.rerun THEN overridden(conf, record[1]) ELSE conf
      <3>1. PICK random \in 0..1: /\ conf' = IF c.seed < 0 THEN [c EXCEPT !.seed = random] ELSE c
                                  /\ base' = build_base_config(conf', Tip, Tip)
        BY <2>1 DEF main
      <3>2. conf \in Confs
        BY DEF TypeInv
      <3>3. c.newest = conf.newest /\ "newest" \in DOMAIN c
        BY <3>2 DEF overridden, Confs
      <3> HIDE DEF c
      <3>4. conf'.newest = conf.newest
        BY <3>1, <3>3
      <3> QED BY <3>1, <3>2, <3>4 DEF build_base_config, Confs
    <2>2. CASE generate \/ config_merge
      <3>1. UNCHANGED <<base, conf>> /\ pc \in {"generate", "merge"}
        BY <2>2 DEF generate, config_merge
      <3>2. base.sha1 + 0 = Tip /\ base.suite_sha1 = IF conf.same_repo THEN base.sha1 ELSE Tip
        BY <3>1 DEF NewestInv, AtCommit
      <3>3. base.sha1 \in Nat /\ conf.newest \in Nat
        BY ScheduleSuiteAssumption DEF TypeInv, Confs
      <3> QED BY <3>1, <3>2, <3>3
    <2>3. CASE Rerun
      BY <2>3 DEF Rerun
    <2> QED BY <2>1, <2>2, <2>3
  <1>4. Tip \in Nat
    BY ScheduleSuiteAssumption
  <1>5. AtCommit'
    BY <1>1, <1>2, <1>3, <1>4 DEF AtCommit, Collecting, Collects
  <1>6. pc' \in Collecting => (base'.sha1 + 1)..Tip = {}
    BY <1>3, <1>4 DEF Collecting
  <1>7. pc' \notin Collects
    BY <1>1 DEF Collects
  <1> QED BY <1>5, <1>6, <1>7 DEF NewestInv

LEMMA CollectNewest ==
  ASSUME TypeInv, NewestInv, collect_jobs
  PROVE  NewestInv'
  <1>1. /\ pc = "collect" /\ UNCHANGED <<dir, build, first, conf, queue, record>>
        /\ configs' = Collected.configs /\ missing' = Collected.missing /\ jobs' = Collected.jobs
    BY CollectSteps
  <1>2. configs \in Seq(Merged) /\ conf \in Confs
        /\ base \in [sha1: 0..Tip, suite_sha1: 0..Tip, subset: Nat \X Nat, seed: Int]
    BY <1>1 DEF TypeInv, Collecting
  <1>3. DOMAIN configs' = DOMAIN configs /\ \A i \in DOMAIN configs: configs'[i].frags = configs[i].frags
    BY <1>1, <1>2, CollectedIs
  <1>4. Wanted' = Wanted /\ job_limit' = job_limit
    BY <1>1, <1>3 DEF Wanted, job_limit
  <1>5. job_limit = 0 => \A newer \in (base.sha1 + 1)..Tip:
                           \E i \in Wanted: build[newer] \cap configs[i].frags # {}
    BY <1>1 DEF NewestInv, Collecting
  <1>6. Wanted \subseteq DOMAIN configs
    BY DEF Wanted
  <1>7. /\ base.sha1 + backtrack = Tip /\ backtrack <= conf.newest
        /\ base.suite_sha1 = IF conf.same_repo THEN base.sha1 ELSE Tip
    BY <1>1 DEF NewestInv, AtCommit, Collecting
  <1>8. CASE UNCHANGED <<base, sha1s, backtrack>> /\ pc' = "memo"
             /\ (Collected.missing = <<>> \/ conf.newest = 0)
    <2>1. \A k \in DOMAIN jobs': jobs'[k].sha1 = base.sha1 /\ jobs'[k].suite_sha1 = base.suite_sha1
      <3> TAKE k \in DOMAIN jobs'
      <3>1. PICK i \in Wanted: jobs'[k] = update_key(configs[i])
        BY <1>1, <1>2, CollectedIs
      <3>2. configs[i] \in Merged
        BY <1>2, <1>6
      <3> QED BY <1>2, <3>1, <3>2, UpdatedKeeps
    <2>2. conf.newest > 0 => \A k \in DOMAIN jobs': build[base.sha1] \cap jobs'[k].frags = {}
      <3> HAVE conf.newest > 0
      <3>1. Collected.missing = <<>>
        BY <1>8
      <3> QED BY <1>1, <1>2, <3>1, CollectedIs
    <2>3. AtCommit'
      BY <1>1, <1>7, <1>8 DEF AtCommit, Collecting
    <2>4. job_limit' = 0 => \A newer \in (base'.sha1 + 1)..Tip:
                              \E i \in Wanted': build'[newer] \cap configs'[i].frags # {}
      BY <1>1, <1>3, <1>4, <1>5, <1>6, <1>8
    <2> QED BY <1>1, <1>8, <2>1, <2>2, <2>3, <2>4 DEF NewestInv
  <1>9. CASE pc' = "failed"
    BY <1>9 DEF NewestInv, AtCommit, Collecting, Collects
  <1>10. CASE /\ Collected.missing # <<>> /\ Parents # <<>> /\ pc' = "collect"
              /\ base' = [sha1 |-> Head(Parents),
                          suite_sha1 |-> IF conf.same_repo THEN Head(Parents) ELSE base.suite_sha1,
                          subset |-> conf.subset, seed |-> conf.seed]
              /\ sha1s' = Tail(Parents) /\ backtrack' = backtrack + 1 /\ backtrack' <= conf.newest
    <2>1. /\ Parents \in Seq(0..Tip) /\ Len(Parents) <= base.sha1
          /\ \A k \in 1..Len(Parents): Parents[k] = base.sha1 - k
      <3>1. CASE sha1s # <<>>
        BY <1>1, <3>1, ParentsTyped DEF Parents, NewestInv, AtCommit, Collecting
      <3>2. CASE sha1s = <<>>
        <4>1. base.sha1 \in Nat /\ conf.newest \in Nat
          BY <1>2, ScheduleSuiteAssumption DEF Confs
        <4> DEFINE m == IF base.sha1 < conf.newest THEN base.sha1 ELSE conf.newest
        <4>2. m \in Nat /\ m <= base.sha1
          BY <4>1
        <4>3. Parents = [k \in 1..m |-> base.sha1 - k]
          BY <3>2 DEF Parents, find_git_parents
        <4> HIDE DEF m
        <4>4. Len(Parents) = m
          BY <4>2, <4>3
        <4> QED BY <4>2, <4>3, <4>4, ParentsTyped
      <3> QED BY <3>1, <3>2
    <2>2. base'.sha1 = base.sha1 - 1
      <3>1. 1 \in 1..Len(Parents) /\ Head(Parents) = Parents[1]
        BY <1>10, <2>1
      <3> QED BY <1>10, <2>1, <3>1
    <2>3. /\ Len(sha1s') <= base'.sha1
          /\ \A k \in 1..Len(sha1s'): sha1s'[k] = base'.sha1 - k
      <3>1. /\ Len(Tail(Parents)) = Len(Parents) - 1
            /\ \A k \in 1..Len(Tail(Parents)): Tail(Parents)[k] = Parents[k + 1]
        BY <1>10, <2>1, HeadTailProperties
      <3>2. base.sha1 \in Nat /\ Len(Parents) \in Nat
        BY <1>2, <2>1, ScheduleSuiteAssumption
      <3>3. \A k \in 1..Len(Tail(Parents)):
              k + 1 \in 1..Len(Parents) /\ base.sha1 - (k + 1) = base.sha1 - 1 - k
        BY <3>1, <3>2
      <3> QED BY <1>10, <2>1, <2>2, <3>1, <3>2, <3>3
    <2>4. base'.suite_sha1 = IF conf.same_repo THEN base'.sha1 ELSE Tip
      BY <1>7, <1>10
    <2>5. AtCommit'
      <3>1. base.sha1 \in Nat /\ backtrack \in Nat
        BY <1>2, ScheduleSuiteAssumption DEF TypeInv
      <3>2. base'.sha1 + backtrack' = Tip
        BY <1>7, <1>10, <2>2, <3>1
      <3> QED BY <1>1, <1>10, <2>3, <2>4, <3>2 DEF AtCommit, Collecting, Collects
    <2>6. ASSUME job_limit = 0, NEW newer \in (base'.sha1 + 1)..Tip
          PROVE  \E i \in Wanted: build[newer] \cap configs[i].frags # {}
      <3>1. CASE newer = base.sha1
        BY <1>2, <1>10, <2>6, <3>1, CollectedIs
      <3>2. CASE newer # base.sha1
        <4>1. newer \in (base.sha1 + 1)..Tip
          BY <1>2, <2>2, <3>2, ScheduleSuiteAssumption
        <4> QED BY <1>5, <2>6, <4>1
      <3> QED BY <3>1, <3>2
    <2>7. job_limit' = 0 => \A newer \in (base'.sha1 + 1)..Tip:
                              \E i \in Wanted': build'[newer] \cap configs'[i].frags # {}
      BY <1>1, <1>3, <1>4, <1>6, <2>6
    <2> QED BY <1>10, <2>5, <2>7 DEF NewestInv, Collects
  <1> QED BY <1>8, <1>9, <1>10, CollectSteps

LEMMA NextNewest ==
  ASSUME TypeInv, NewestInv, [Next]_vars
  PROVE  NewestInv'
  <1>1. CASE /\ UNCHANGED <<build, base, conf, suiteVars>>
             /\ pc' = pc \/ (pc \in Collects /\ pc' \in Collects \cup {"failed"})
    BY <1>1 DEF NewestInv, AtCommit, suiteVars, job_limit, Wanted, Collecting, Collects
  <1>2. CASE main \/ generate \/ config_merge \/ Rerun
    BY <1>2, MainNewest
  <1>3. CASE collect_jobs
    BY <1>3, CollectNewest
  <1>4. CASE UNCHANGED vars
    BY <1>1, <1>4 DEF vars, suiteVars
  <1>5. CASE write_rerun_memo \/ write_result \/ check_priority \/ check_num_jobs
    BY <1>1, <1>5 DEF write_rerun_memo, write_result, check_priority, check_num_jobs, Collects
  <1>6. CASE schedule_jobs
    BY <1>1, <1>6 DEF schedule_jobs, Collects
  <1> QED BY <1>2, <1>3, <1>4, <1>5, <1>6 DEF Next

LEMMA NewestAlways == Spec => []NewestInv
  <1>1. Init => NewestInv
    <2> SUFFICES ASSUME Init PROVE NewestInv
      OBVIOUS
    <2>1. pc = "main" /\ backtrack = 0 /\ sha1s = <<>>
      BY DEF Init
    <2> QED BY <2>1 DEF NewestInv, AtCommit, Collecting, Collects
  <1>2. TypeInv /\ OriginInv /\ NewestInv /\ [Next]_vars => NewestInv'
    BY NextNewest
  <1> QED BY <1>1, <1>2, ShapeAlways, PTL DEF Spec

\* --newest schedules all jobs with one commit, the newest that all jobs have their
\* packages for, however many commits there are and whatever each of them lacks.
THEOREM NewestConsistentHolds == Spec => []NewestConsistent
  <1>1. TypeInv /\ NewestInv => NewestConsistent
    <2> SUFFICES ASSUME TypeInv, NewestInv, pc = "done", conf.newest > 0, jobs # <<>>
                 PROVE  LET chosen == jobs[1].sha1
                        IN /\ chosen + conf.newest >= Tip
                           /\ \A k \in DOMAIN jobs: /\ jobs[k].sha1 = chosen
                                                    /\ build[chosen] \cap jobs[k].frags = {}
                                                    /\ jobs[k].suite_sha1 = IF conf.same_repo THEN chosen ELSE Tip
                           /\ job_limit = 0 => \A newer \in (chosen + 1)..Tip:
                                                 \E k \in Wanted: build[newer] \cap configs[k].frags # {}
      BY DEF NewestConsistent
    <2>1. jobs \in Seq(Merged) /\ 1 \in DOMAIN jobs
      BY DEF TypeInv
    <2>2. jobs[1].sha1 = base.sha1
      BY <2>1 DEF NewestInv, Collects
    <2>3. base.sha1 \in Nat /\ backtrack \in Nat /\ conf.newest \in Nat /\ Tip \in Nat
      BY ScheduleSuiteAssumption DEF TypeInv, Confs
    <2>4. /\ base.sha1 + backtrack = Tip /\ backtrack <= conf.newest
          /\ base.suite_sha1 = IF conf.same_repo THEN base.sha1 ELSE Tip
      BY DEF NewestInv, AtCommit, Collects
    <2>5. base.sha1 + conf.newest >= Tip
      BY <2>3, <2>4
    <2> QED BY <2>2, <2>4, <2>5 DEF NewestInv, Collects
  <1> QED BY <1>1, NewestAlways, ShapeAlways, PTL

(* What a rerun schedules *)

\* The reruns that are to schedule all jobs they choose: without filters, a limit or
\* excluded keywords of their own, and with no job's name the start of another's.
PlainReruns ==
  /\ NamedLike = {}
  /\ \A c \in Reruns: /\ c.filter_in = {} /\ c.filter_out = {} /\ c.filter_all = {} /\ c.excluded = {}
                      /\ c.limit = 0 /\ ~c.sleep_before_teardown

\* A job of the suite, the way the run was made, that no postmerge script rejects.
Made(of, subset, desc, seed) ==
  /\ desc \in ToSet(jobs_of(of, subset, FALSE, seed))
  /\ \A f \in merged(desc): Postmerge[f] \cap merged(desc) = {}

\* What paddles has of the run is enough to make it again.
KeptInv ==
  ~first.no_nested_subset =>
    /\ \A k \in DOMAIN record: Made(dir, first.subset, record[k].desc, record[k].seed)
    /\ pc \in Steps \ {"main", "exited"} => ~conf.no_nested_subset
    /\ pc = "merge" => configs = jobs_of(dir, first.subset, FALSE, conf.seed)
    /\ pc \in Collecting \cup Collects =>
         \A i \in DOMAIN configs: Made(dir, first.subset, configs[i].desc, conf.seed)
    /\ pc \in Collects => \A k \in DOMAIN jobs: Made(dir, first.subset, jobs[k].desc, conf.seed)

LEMMA MainKept ==
  ASSUME TypeInv, OriginInv, KeptInv, main
  PROVE  KeptInv'
  <1> SUFFICES ASSUME ~first.no_nested_subset
               PROVE  /\ \A k \in DOMAIN record: Made(dir, first.subset, record[k].desc, record[k].seed)
                      /\ pc' # "exited" => pc' = "generate" /\ ~conf'.no_nested_subset
    BY DEF KeptInv, main, Collecting, Collects
  <1>1. UNCHANGED <<dir, first, record>>
    BY DEF main
  <1>2. \A k \in DOMAIN record: Made(dir, first.subset, record[k].desc, record[k].seed)
    BY <1>1 DEF KeptInv, Made
  <1>3. ASSUME pc' # "exited" PROVE pc' = "generate" /\ ~conf'.no_nested_subset
    <2> DEFINE c == IF conf.rerun THEN overridden(conf, record[1]) ELSE conf
    <2>1. PICK random \in 0..1: /\ conf' = IF c.seed < 0 THEN [c EXCEPT !.seed = random] ELSE c
                                /\ pc' = "generate"
      BY <1>3 DEF main
    <2>2. conf \in Confs /\ first \in Confs
      BY DEF TypeInv
    <2>3. ~c.no_nested_subset /\ "no_nested_subset" \in DOMAIN c
      <3>1. CASE conf.rerun
        BY <2>2, <3>1 DEF overridden, Confs
      <3>2. CASE ~conf.rerun
        <4>1. conf = [first EXCEPT !.seed = conf.seed]
          BY <3>2 DEF OriginInv
        <4> QED BY <2>2, <3>2, <4>1 DEF Confs
      <3> QED BY <3>1, <3>2
    <2> HIDE DEF c
    <2> QED BY <2>1, <2>3
  <1> QED BY <1>2, <1>3

LEMMA GenerateKept ==
  ASSUME TypeInv, OriginInv, KeptInv, generate
  PROVE  KeptInv'
  <1> SUFFICES ASSUME ~first.no_nested_subset
               PROVE  /\ \A k \in DOMAIN record: Made(dir, first.subset, record[k].desc, record[k].seed)
                      /\ ~conf.no_nested_subset
                      /\ pc' = "merge" => configs' = jobs_of(dir, first.subset, FALSE, conf.seed)
    BY DEF KeptInv, generate, Collecting, Collects
  <1>1. pc = "generate" /\ UNCHANGED <<dir, first, record>>
    BY DEF generate
  <1>2. \A k \in DOMAIN record: Made(dir, first.subset, record[k].desc, record[k].seed)
    BY <1>1 DEF KeptInv, Made
  <1>3. ~conf.no_nested_subset /\ conf.no_nested_subset \in BOOLEAN /\ conf.subset = first.subset
    BY <1>1 DEF KeptInv, OriginInv, TypeInv, Steps, Confs
  <1>4. conf.no_nested_subset = FALSE
    BY <1>3
  <1>5. pc' = "merge" => configs' = jobs_of(dir, conf.subset, conf.no_nested_subset, conf.seed)
    BY DEF generate
  <1> QED BY <1>2, <1>3, <1>4, <1>5

LEMMA MergeKept ==
  ASSUME TypeInv, KeptInv, config_merge
  PROVE  KeptInv'
  <1> SUFFICES ASSUME ~first.no_nested_subset
               PROVE  /\ \A k \in DOMAIN record: Made(dir, first.subset, record[k].desc, record[k].seed)
                      /\ ~conf.no_nested_subset
                      /\ \A i \in DOMAIN configs': Made(dir, first.subset, configs'[i].desc, conf.seed)
    BY DEF KeptInv, config_merge, Collecting, Collects
  <1> DEFINE accepted == {desc \in ToSet(configs): Accepted(desc)}
             kept == Select(configs, accepted)
             made == [i \in DOMAIN kept |-> config(kept[i])]
  <1>1. /\ pc = "merge" /\ configs' = made
        /\ UNCHANGED <<dir, first, record, conf>>
    BY DEF config_merge
  <1>2. \A k \in DOMAIN record: Made(dir, first.subset, record[k].desc, record[k].seed)
    BY <1>1 DEF KeptInv, Made
  <1>3. ~conf.no_nested_subset /\ configs = jobs_of(dir, first.subset, FALSE, conf.seed)
    BY <1>1 DEF KeptInv, Steps
  <1>4. configs \in Seq(Descs) /\ accepted \in SUBSET Descs
    BY <1>1 DEF TypeInv, ToSet
  <1>5. accepted \subseteq ToSet(configs) /\ \A d \in accepted: Accepted(d)
    OBVIOUS
  <1> HIDE DEF accepted
  <1>6. {made[i].desc: i \in DOMAIN made} = ToSet(configs) \cap accepted
    BY <1>4, MergedIs DEF TypeInv
  <1> HIDE DEF made
  <1>7. \A i \in DOMAIN configs': Made(dir, first.subset, configs'[i].desc, conf.seed)
    <2> TAKE i \in DOMAIN configs'
    <2>1. configs'[i].desc \in accepted
      BY <1>1, <1>6
    <2> QED BY <1>1, <1>3, <1>5, <2>1 DEF Made, Accepted
  <1> QED BY <1>2, <1>3, <1>7

LEMMA CollectKept ==
  ASSUME TypeInv, KeptInv, collect_jobs
  PROVE  KeptInv'
  <1> SUFFICES ASSUME ~first.no_nested_subset
               PROVE  /\ \A k \in DOMAIN record: Made(dir, first.subset, record[k].desc, record[k].seed)
                      /\ ~conf.no_nested_subset
                      /\ \A i \in DOMAIN configs': Made(dir, first.subset, configs'[i].desc, conf.seed)
                      /\ \A k \in DOMAIN jobs': Made(dir, first.subset, jobs'[k].desc, conf.seed)
    BY CollectSteps DEF KeptInv
  <1>1. /\ pc = "collect" /\ UNCHANGED <<dir, build, first, conf, queue, record>>
        /\ configs' = Collected.configs /\ jobs' = Collected.jobs
    BY CollectSteps
  <1>2. configs \in Seq(Merged) /\ conf \in Confs
        /\ base \in [sha1: 0..Tip, suite_sha1: 0..Tip, subset: Nat \X Nat, seed: Int]
    BY <1>1 DEF TypeInv, Collecting
  <1>3. \A i \in DOMAIN configs: Made(dir, first.subset, configs[i].desc, conf.seed)
    BY <1>1 DEF KeptInv, Collecting
  <1>4. \A k \in DOMAIN record: Made(dir, first.subset, record[k].desc, record[k].seed)
    BY <1>1 DEF KeptInv, Made
  <1>5. \A i \in DOMAIN configs': Made(dir, first.subset, configs'[i].desc, conf.seed)
    <2>1. \A i \in DOMAIN configs': i \in DOMAIN configs /\ configs'[i].desc = configs[i].desc
      BY <1>1, <1>2, CollectedIs
    <2> QED BY <1>1, <1>3, <2>1 DEF Made
  <1>6. \A k \in DOMAIN jobs': Made(dir, first.subset, jobs'[k].desc, conf.seed)
    <2> TAKE k \in DOMAIN jobs'
    <2>1. PICK i \in Wanted: jobs'[k] = update_key(configs[i])
      BY <1>1, <1>2, CollectedIs
    <2>2. i \in DOMAIN configs /\ configs[i] \in Merged
      BY <1>2 DEF Wanted
    <2>3. jobs'[k].desc = configs[i].desc
      BY <1>2, <2>1, <2>2, UpdatedKeeps
    <2> QED BY <1>1, <1>3, <2>2, <2>3 DEF Made
  <1> QED BY <1>1, <1>4, <1>5, <1>6 DEF KeptInv, Steps

LEMMA ScheduleKept ==
  ASSUME TypeInv, OriginInv, KeptInv, schedule_jobs
  PROVE  KeptInv'
  <1> SUFFICES ASSUME ~first.no_nested_subset
               PROVE  \A k \in DOMAIN record': Made(dir, first.subset, record'[k].desc, record'[k].seed)
    <2>1. /\ UNCHANGED <<dir, first, conf, configs, jobs>> /\ pc = "schedule"
          /\ pc' \in {"schedule", "write_result", "failed"}
      BY DEF schedule_jobs, suiteVars
    <2> QED BY <2>1 DEF KeptInv, Made, Collecting, Collects, Steps
  <1>1. pc = "schedule" /\ UNCHANGED <<dir, first>>
    BY DEF schedule_jobs
  <1>2. \A k \in DOMAIN record: Made(dir, first.subset, record[k].desc, record[k].seed)
    BY DEF KeptInv
  <1>3. CASE UNCHANGED record
    BY <1>1, <1>2, <1>3 DEF Made
  <1>4. CASE ~UNCHANGED record
    <2> DEFINE k == Scheduled + 1
               entry == [desc |-> jobs[k].desc, subset |-> base.subset, seed |-> base.seed,
                       status |-> "queued"]
    <2>1. ~(k > Len(jobs)) /\ record' = Append(record, entry)
      BY <1>4 DEF schedule_jobs
    <2>2. k \in DOMAIN jobs
      BY <2>1, ScheduledIsNat DEF TypeInv
    <2>3. entry.desc = jobs[k].desc /\ entry.seed = conf.seed
      BY <1>1 DEF OriginInv, Steps
    <2>4. Made(dir, first.subset, entry.desc, entry.seed)
      BY <1>1, <2>2, <2>3 DEF KeptInv, Collects
    <2> HIDE DEF entry
    <2>5. record \in Seq(Entries)
      BY DEF TypeInv
    <2>6. \A j \in DOMAIN record': record'[j] = entry \/ (j \in DOMAIN record /\ record'[j] = record[j])
      BY <2>1, <2>5
    <2>7. \A j \in DOMAIN record': Made(dir, first.subset, record'[j].desc, record'[j].seed)
      BY <1>2, <2>4, <2>6
    <2> QED BY <1>1, <2>7 DEF Made
  <1> QED BY <1>3, <1>4

LEMMA RerunKept ==
  ASSUME TypeInv, KeptInv, Rerun
  PROVE  KeptInv'
  <1> SUFFICES ASSUME ~first.no_nested_subset
               PROVE  \A k \in DOMAIN record': Made(dir, first.subset, record'[k].desc, record'[k].seed)
    BY DEF KeptInv, Rerun, Collecting, Collects
  <1>1. PICK ends \in [DOMAIN record -> {"pass", "fail"}]:
          record' = [k \in DOMAIN record |-> [record[k] EXCEPT !.status = ends[k]]]
    BY DEF Rerun
  <1>2. UNCHANGED <<dir, first>>
    BY DEF Rerun
  <1>3. \A k \in DOMAIN record: record'[k].desc = record[k].desc /\ record'[k].seed = record[k].seed
    <2> TAKE k \in DOMAIN record
    <2>1. record[k] \in Entries
      BY DEF TypeInv
    <2> QED BY <1>1, <2>1 DEF Entries
  <1> QED BY <1>1, <1>2, <1>3 DEF KeptInv, Made

LEMMA NextKept ==
  ASSUME TypeInv, OriginInv, KeptInv, [Next]_vars
  PROVE  KeptInv'
  <1>1. CASE /\ UNCHANGED <<dir, first, record, conf, configs, jobs>>
             /\ pc' = pc \/ (pc \in Collects /\ pc' \in Collects \cup {"failed"})
    BY <1>1 DEF KeptInv, Made, Collecting, Collects, Steps
  <1>2. CASE main
    BY <1>2, MainKept
  <1>3. CASE generate
    BY <1>3, GenerateKept
  <1>4. CASE config_merge
    BY <1>4, MergeKept
  <1>5. CASE collect_jobs
    BY <1>5, CollectKept
  <1>6. CASE write_rerun_memo \/ write_result \/ check_priority \/ check_num_jobs
    BY <1>1, <1>6 DEF write_rerun_memo, write_result, check_priority, check_num_jobs, Collects, suiteVars
  <1>7. CASE schedule_jobs
    BY <1>7, ScheduleKept
  <1>8. CASE Rerun
    BY <1>8, RerunKept
  <1>9. CASE UNCHANGED vars
    BY <1>1, <1>9 DEF vars, suiteVars
  <1> QED BY <1>2, <1>3, <1>4, <1>5, <1>6, <1>7, <1>8, <1>9 DEF Next

LEMMA KeptAlways == Spec => []KeptInv
  <1>1. Init => KeptInv
    BY DEF Init, KeptInv, Collecting, Collects
  <1>2. TypeInv /\ OriginInv /\ KeptInv /\ [Next]_vars => KeptInv'
    BY NextKept
  <1> QED BY <1>1, <1>2, ShapeAlways, PTL DEF Spec

\* A rerun looks for the jobs it chooses, and finds them.
RerunArguments ==
  /\ conf.limit = 0 /\ ~conf.sleep_before_teardown
  /\ conf.excluded = {} /\ conf.filter_out = {} /\ conf.filter_all = {}
  /\ pc = "main" => conf.filter_in = {}
  /\ pc \in Steps \ {"main", "exited"} => /\ conf.seed = record[1].seed
                                          /\ conf.filter_in = get_rerun_filters(conf.statuses)

RerunInv ==
  conf.rerun =>
    /\ RerunArguments
    /\ Chosen # {} /\ ~first.no_nested_subset =>
         /\ pc \in Collecting => {configs[i].desc: i \in DOMAIN configs} = Chosen
         /\ pc \in Collects => {jobs[k].desc: k \in DOMAIN jobs} = Chosen

LEMMA MainRerun ==
  ASSUME PlainReruns, TypeInv, OriginInv, RerunInv, main
  PROVE  RerunInv'
  <1> SUFFICES ASSUME conf'.rerun
               PROVE  RerunArguments'
    BY DEF RerunInv, main, Collecting, Collects
  <1>1. CASE pc' = "exited"
    <2>1. UNCHANGED conf /\ conf.rerun
      BY <1>1 DEF main
    <2> QED BY <1>1, <2>1 DEF RerunInv, RerunArguments
  <1>2. CASE pc' # "exited"
    <2> DEFINE c == IF conf.rerun THEN overridden(conf, record[1]) ELSE conf
    <2>1. PICK random \in 0..1: /\ conf' = IF c.seed < 0 THEN [c EXCEPT !.seed = random] ELSE c
                                /\ pc' = "generate" /\ pc = "main" /\ UNCHANGED record
      BY <1>2 DEF main
    <2>2. conf \in Confs
      BY DEF TypeInv
    <2>3. c.rerun = conf.rerun /\ DOMAIN c = DOMAIN conf
      BY <2>2 DEF overridden, Confs
    <2>4. conf'.rerun = c.rerun
      <3> HIDE DEF c
      <3>1. "rerun" \in DOMAIN c
        BY <2>2, <2>3 DEF Confs
      <3> QED BY <2>1, <3>1
    <2>5. conf.rerun
      BY <2>3, <2>4
    <2>6. RerunArguments
      BY <2>5 DEF RerunInv
    <2>7. record[1].seed \in Nat
      <3>1. 1 \in DOMAIN record
        BY <2>5 DEF TypeInv, OriginInv
      <3> QED BY <3>1 DEF OriginInv, Seeds
    <2>8. conf' = overridden(conf, record[1])
      <3>1. overridden(conf, record[1]).seed = record[1].seed
        BY <2>2 DEF overridden, Confs
      <3>2. c = overridden(conf, record[1])
        BY <2>5
      <3> HIDE DEF c
      <3> QED BY <2>1, <2>7, <3>1, <3>2
    <2>9. /\ conf'.limit = conf.limit /\ conf'.sleep_before_teardown = conf.sleep_before_teardown
          /\ conf'.excluded = conf.excluded /\ conf'.filter_out = conf.filter_out
          /\ conf'.filter_all = conf.filter_all /\ conf'.statuses = conf.statuses
          /\ conf'.seed = record[1].seed
          /\ conf'.filter_in = conf.filter_in \cup get_rerun_filters(conf.statuses)
      BY <2>2, <2>8 DEF overridden, Confs
    <2> QED BY <2>1, <2>6, <2>9 DEF RerunArguments, get_rerun_filters
  <1> QED BY <1>1, <1>2

\* The filters of a rerun are the descriptions of the jobs it chooses.
LEMMA RerunAccepts ==
  ASSUME PlainReruns, conf.filter_in = get_rerun_filters(conf.statuses), conf.filter_out = {},
         conf.filter_all = {}, Chosen # {}, NEW desc
  PROVE  Accepted(desc) <=> /\ desc \in Chosen
                            /\ \A f \in merged(desc): Postmerge[f] \cap merged(desc) = {}
  <1>1. \A d: matches(desc, [is |-> "desc", of |-> d]) <=> desc = d
    BY DEF matches, PlainReruns
  <1>2. conf.filter_in # {}
    BY DEF get_rerun_filters, Chosen
  <1>3. (\E f \in conf.filter_in: matches(desc, f)) <=> desc \in Chosen
    <2>1. conf.filter_in = {[is |-> "desc", of |-> record[k].desc]:
                              k \in {j \in DOMAIN record: record[j].status \in conf.statuses}}
      BY DEF get_rerun_filters
    <2>2. \A f: f \in conf.filter_in <=>
            \E k \in DOMAIN record: /\ record[k].status \in conf.statuses
                                    /\ f = [is |-> "desc", of |-> record[k].desc]
      BY <2>1
    <2>3. desc \in Chosen <=> \E k \in DOMAIN record: /\ record[k].status \in conf.statuses
                                                      /\ desc = record[k].desc
      BY DEF Chosen
    <2> QED BY <1>1, <2>2, <2>3
  <1>4. check_filters(desc) <=> desc \in Chosen
    BY <1>2, <1>3 DEF check_filters
  <1> QED BY <1>4 DEF Accepted

\* A job is chosen from those the run is made of again.
LEMMA ChosenMade ==
  ASSUME OriginInv, KeptInv, ~first.no_nested_subset, NEW desc \in Chosen
  PROVE  Made(dir, first.subset, desc, record[1].seed)
  <1>1. PICK k \in DOMAIN record: desc = record[k].desc
    BY DEF Chosen
  <1>2. Made(dir, first.subset, record[k].desc, record[k].seed) /\ record[k].seed = record[1].seed
    BY DEF KeptInv, OriginInv
  <1> QED BY <1>1, <1>2

LEMMA MergeRerun ==
  ASSUME PlainReruns, TypeInv, OriginInv, KeptInv, RerunInv, config_merge
  PROVE  RerunInv'
  <1>1. pc = "merge" /\ pc' = "collect" /\ UNCHANGED <<dir, first, record, conf>>
    BY DEF config_merge
  <1> SUFFICES ASSUME conf.rerun
               PROVE  /\ RerunArguments'
                      /\ Chosen # {} /\ ~first.no_nested_subset =>
                           {configs'[i].desc: i \in DOMAIN configs'} = Chosen
    BY <1>1 DEF RerunInv, Collects, Chosen
  <1>2. RerunArguments
    BY DEF RerunInv
  <1>3. RerunArguments'
    BY <1>1, <1>2 DEF RerunArguments, Steps, get_rerun_filters
  <1>4. ASSUME Chosen # {}, ~first.no_nested_subset
        PROVE  {configs'[i].desc: i \in DOMAIN configs'} = Chosen
    <2> DEFINE accepted == {desc \in ToSet(configs): Accepted(desc)}
               kept == Select(configs, accepted)
               made == [i \in DOMAIN kept |-> config(kept[i])]
    <2>1. configs' = made
      BY DEF config_merge
    <2>2. configs \in Seq(Descs) /\ accepted \in SUBSET Descs
      BY <1>1 DEF TypeInv, ToSet
    <2>3. configs = jobs_of(dir, first.subset, FALSE, conf.seed) /\ conf.seed = record[1].seed
      BY <1>1, <1>2, <1>4 DEF KeptInv, RerunArguments, Steps
    <2>4. \A desc \in Chosen: /\ desc \in ToSet(configs)
                              /\ \A f \in merged(desc): Postmerge[f] \cap merged(desc) = {}
      BY <1>4, <2>3, ChosenMade DEF Made
    <2>5. conf.filter_in = get_rerun_filters(conf.statuses) /\ conf.filter_out = {} /\ conf.filter_all = {}
      BY <1>1, <1>2 DEF RerunArguments, Steps
    <2>6. \A desc: Accepted(desc) <=> /\ desc \in Chosen
                                      /\ \A f \in merged(desc): Postmerge[f] \cap merged(desc) = {}
      BY <1>4, <2>5, RerunAccepts
    <2>7. accepted = Chosen
      BY <2>4, <2>6
    <2>8. Chosen \subseteq ToSet(configs)
      BY <2>4
    <2> HIDE DEF accepted
    <2>9. {made[i].desc: i \in DOMAIN made} = ToSet(configs) \cap accepted
      BY <2>2, MergedIs DEF TypeInv
    <2> HIDE DEF made
    <2> QED BY <2>1, <2>7, <2>8, <2>9
  <1> QED BY <1>3, <1>4

LEMMA CollectRerun ==
  ASSUME PlainReruns, TypeInv, RerunInv, collect_jobs
  PROVE  RerunInv'
  <1>1. /\ pc = "collect" /\ UNCHANGED <<dir, build, first, conf, queue, record>>
        /\ configs' = Collected.configs /\ jobs' = Collected.jobs
        /\ pc' \in {"memo", "failed", "collect"}
        /\ pc' = "memo" => Collected.missing = <<>> \/ conf.newest = 0
    BY CollectSteps
  <1> SUFFICES ASSUME conf.rerun
               PROVE  /\ RerunArguments'
                      /\ Chosen # {} /\ ~first.no_nested_subset =>
                           /\ {configs'[i].desc: i \in DOMAIN configs'} = Chosen
                           /\ pc' = "memo" => {jobs'[k].desc: k \in DOMAIN jobs'} = Chosen
    BY <1>1 DEF RerunInv, Collecting, Collects, Chosen
  <1>2. RerunArguments
    BY DEF RerunInv
  <1>3. RerunArguments'
    BY <1>1, <1>2 DEF RerunArguments, Steps, get_rerun_filters
  <1>4. configs \in Seq(Merged) /\ conf \in Confs
        /\ base \in [sha1: 0..Tip, suite_sha1: 0..Tip, subset: Nat \X Nat, seed: Int]
    BY <1>1 DEF TypeInv, Collecting
  <1>5. /\ DOMAIN configs' = DOMAIN configs
        /\ \A i \in DOMAIN configs: configs'[i].desc = configs[i].desc
    BY <1>1, <1>4, CollectedIs
  <1>6. ASSUME Chosen # {}, ~first.no_nested_subset
        PROVE  {configs[i].desc: i \in DOMAIN configs} = Chosen
    BY <1>1, <1>6 DEF RerunInv, Collecting
  <1>7. {configs'[i].desc: i \in DOMAIN configs'} = {configs[i].desc: i \in DOMAIN configs}
    BY <1>5
  <1>8. ASSUME pc' = "memo"
        PROVE  {jobs'[k].desc: k \in DOMAIN jobs'} = {configs[i].desc: i \in DOMAIN configs}
    <2>1. Wanted = DOMAIN configs /\ job_limit = 0
      BY <1>2 DEF RerunArguments, Wanted, job_limit
    <2>2. \A i \in DOMAIN configs: configs[i] \in Merged
      BY <1>4
    <2>3. \A i \in DOMAIN configs: update_key(configs[i]).desc = configs[i].desc
      BY <1>4, <2>2, UpdatedKeeps
    <2>4. \A k \in DOMAIN jobs': \E i \in DOMAIN configs: jobs'[k].desc = configs[i].desc
      <3>1. \A k \in DOMAIN jobs': \E i \in Wanted: jobs'[k] = update_key(configs[i])
        BY <1>1, <1>4, CollectedIs
      <3> QED BY <2>1, <2>3, <3>1
    <2>5. \A i \in DOMAIN configs: \E k \in DOMAIN jobs': jobs'[k].desc = configs[i].desc
      <3>1. Collected.missing = <<>> \/ conf.newest = 0
        BY <1>1, <1>8
      <3>2. \A i \in Wanted: \E k \in DOMAIN Collected.jobs: Collected.jobs[k] = update_key(configs[i])
        BY <1>4, <2>1, <3>1, CollectedIs
      <3>3. \A i \in DOMAIN configs: \E k \in DOMAIN jobs': jobs'[k] = update_key(configs[i])
        BY <1>1, <2>1, <3>2
      <3> QED BY <2>3, <3>3
    <2> QED BY <2>4, <2>5
  <1> QED BY <1>3, <1>6, <1>7, <1>8

LEMMA NextRerun ==
  ASSUME PlainReruns, TypeInv, OriginInv, KeptInv, RerunInv, [Next]_vars
  PROVE  RerunInv'
  <1>1. CASE /\ UNCHANGED <<first, conf, configs, jobs>> /\ (~conf.rerun \/ UNCHANGED record)
             /\ pc' = pc \/ (pc \in Collects /\ pc' \in Collects \cup {"failed"})
    <2>1. CASE ~conf.rerun
      BY <1>1, <2>1 DEF RerunInv
    <2>2. CASE conf.rerun
      <3>1. UNCHANGED <<first, conf, configs, jobs, record>>
        BY <1>1, <2>2
      <3>2. RerunArguments => RerunArguments'
        BY <1>1, <3>1 DEF RerunArguments, get_rerun_filters, Collects, Steps
      <3>3. Chosen' = Chosen
        BY <3>1 DEF Chosen
      <3> QED BY <1>1, <3>1, <3>2, <3>3 DEF RerunInv, Collecting, Collects
    <2> QED BY <2>1, <2>2
  <1>2. CASE main
    BY <1>2, MainRerun
  <1>3. CASE generate
    <2>1. UNCHANGED <<first, conf, record>> /\ pc = "generate" /\ pc' \in {"merge", "raised"}
      BY <1>3 DEF generate
    <2> QED BY <2>1 DEF RerunInv, RerunArguments, get_rerun_filters, Collecting, Collects, Steps
  <1>4. CASE config_merge
    BY <1>4, MergeRerun
  <1>5. CASE collect_jobs
    BY <1>5, CollectRerun
  <1>6. CASE write_rerun_memo \/ write_result \/ check_priority \/ check_num_jobs
    BY <1>1, <1>6 DEF write_rerun_memo, write_result, check_priority, check_num_jobs, Collects, suiteVars
  <1>7. CASE schedule_jobs
    BY <1>1, <1>7 DEF schedule_jobs, Collects, suiteVars
  <1>8. CASE Rerun
    <2>1. pc' = "main" /\ conf' \in Reruns
      BY <1>8 DEF Rerun
    <2> QED BY <2>1 DEF RerunInv, RerunArguments, PlainReruns, Collecting, Collects
  <1>9. CASE UNCHANGED vars
    BY <1>1, <1>9 DEF vars, suiteVars
  <1> QED BY <1>2, <1>3, <1>4, <1>5, <1>6, <1>7, <1>8, <1>9 DEF Next

\* What a run that is done has in the queue is each of its jobs.
LEMMA AllScheduled ==
  ASSUME TypeInv, RunIsFramed, pc = "done"
  PROVE  {jobs[queue[k].job].desc: k \in {j \in DOMAIN queue: queue[j].what = "job"}}
         = {jobs[k].desc: k \in DOMAIN jobs}
  <1> DEFINE n == Len(jobs)
             row == [k \in DOMAIN jobs |-> Put("job", k, conf.num)]
  <1>1. n \in Nat /\ DOMAIN jobs = 1..n
    BY DEF TypeInv
  <1>2. CASE jobs = <<>>
    <2>1. queue = <<>>
      BY <1>2 DEF RunIsFramed
    <2> QED BY <1>2, <2>1
  <1>3. CASE jobs # <<>>
    <2>1. queue = <<Put("memo", 0, 1)>> \o row \o <<Put("last", 0, 1)>>
      BY <1>3 DEF RunIsFramed
    <2>2. row \in Seq(Puts) /\ Len(row) = n /\ \A k \in 1..n: row[k] = Put("job", k, conf.num)
      <3>1. \A k \in 1..n: Put("job", k, conf.num) \in Puts
        BY DEF TypeInv, Put, Puts, Confs
      <3> QED BY <1>1, <3>1
    <2>3. Put("memo", 0, 1) \in Puts /\ Put("last", 0, 1) \in Puts
      BY DEF Put, Puts
    <2> HIDE DEF row, n
    <2>4. /\ queue \in Seq(Puts) /\ Len(queue) = n + 2
          /\ queue[1] = Put("memo", 0, 1) /\ queue[n + 2] = Put("last", 0, 1)
          /\ \A k \in 1..n: queue[k + 1] = row[k]
      BY <1>1, <2>1, <2>2, <2>3
    <2>5. \A k \in 1..n: k + 1 \in DOMAIN queue /\ queue[k + 1].what = "job" /\ queue[k + 1].job = k
      <3> TAKE k \in 1..n
      <3>1. queue[k + 1] = Put("job", k, conf.num)
        BY <2>2, <2>4
      <3>2. k + 1 \in 1..(n + 2)
        BY <1>1
      <3> QED BY <2>4, <3>1, <3>2 DEF Put
    <2>6. \A k \in DOMAIN queue: queue[k].what = "job" => queue[k].job \in 1..n
      <3> SUFFICES ASSUME NEW k \in DOMAIN queue, queue[k].what = "job"
                   PROVE  queue[k].job \in 1..n
        OBVIOUS
      <3>1. k # 1 /\ k # n + 2 /\ k \in 1..(n + 2)
        BY <1>1, <2>4 DEF Put
      <3>2. k - 1 \in 1..n /\ (k - 1) + 1 = k
        BY <1>1, <3>1
      <3> QED BY <2>5, <3>2
    <2> QED BY <1>1, <2>5, <2>6
  <1> QED BY <1>2, <1>3

\* A rerun schedules the jobs of the run with the statuses it was given and no others,
\* whatever was made, filtered, limited and drawn when the run was scheduled.
THEOREM RerunSelectsHolds == ASSUME PlainReruns PROVE Spec => []RerunSelects
  <1>1. Init => RerunInv
    <2>1. Init => ~conf.rerun
      BY ScheduleSuiteAssumption DEF Init
    <2> QED BY <2>1 DEF RerunInv
  <1>2. TypeInv /\ OriginInv /\ KeptInv /\ RerunInv /\ [Next]_vars => RerunInv'
    BY NextRerun
  <1>3. TypeInv /\ RunIsFramed /\ RerunInv => RerunSelects
    BY AllScheduled DEF RerunInv, RerunSelects, Collects
  <1> QED BY <1>1, <1>2, <1>3, ShapeAlways, KeptAlways, RunIsFramedHolds, PTL DEF Spec
=============================================================================
