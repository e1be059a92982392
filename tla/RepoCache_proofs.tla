-------------------------- MODULE RepoCache_proofs ---------------------------
(***************************************************************************)
(* For any processes, branches, commits and faults: fetch_repo returns the *)
(* revision it was asked for, and the checkout of a commit that is used    *)
(* stays as it is.                                                         *)
(***************************************************************************)
EXTENDS RepoCache, TLAPS

TypeInv ==
  /\ head \in [Branches -> Nat]
  /\ objects \subseteq Commits
  /\ dest_lock \in [Refs -> Procs \cup {Nobody}]
  /\ DOMAIN worktree = Refs /\ DOMAIN venv = Refs
  /\ sentinel \in [Refs -> {"absent", "fresh", "stale"}]
  /\ DOMAIN pc = Procs
  /\ ref \in [Procs -> Refs \cup {NoRef}]
  /\ asked \in [Procs -> Nat]

\* Where a process holds the lock of its worktree, and that of the bare clone.
InBare  == {"fetch", "worktree", "checkout"}
Working == InBare \cup {"lock_bare", "not_found", "bootstrap", "bootstrapping", "retry"}

LockInv(p) ==
  /\ pc[p] # "idle" => ref[p] \in Refs
  /\ pc[p] \in Working => dest_lock[ref[p]] = p
  /\ pc[p] \in InBare => bare_lock = p

\* A revision p may be given: the commit, or one the branch had since it asked.
Right(p, revision) ==
  IF ref[p] \in Commits THEN revision = <<ref[p], 0>>
  ELSE \E k \in asked[p]..head[ref[p]] : revision = <<ref[p], k>>

\* What the steps before have established for p: FETCH_HEAD is its own while it
\* holds the bare clone, and its worktree is right from then on.
FetchInv(p) ==
  /\ pc[p] # "idle" /\ ref[p] \in Branches => asked[p] <= head[ref[p]]
  /\ pc[p] \in {"worktree", "checkout"} => Right(p, Target(p))
  /\ pc[p] \in {"bootstrap", "bootstrapping"} => Bootstrap /\ Right(p, worktree[ref[p]])
  /\ pc[p] = "bootstrapping" => ~bootstrapped(ref[p])

\* Who may remove the worktree of a commit, or bootstrap it anew, has found it
\* missing in the bare clone, or not bootstrapped; who uses it has neither.
CommitInv(p) ==
  ref[p] \in Commits =>
    /\ pc[p] \in {"worktree", "checkout", "bootstrap", "bootstrapping", "returned"} =>
         ref[p] \in objects
    /\ pc[p] = "not_found" => ref[p] \notin objects
    /\ pc[p] = "retry" => Bootstrap /\ sentinel[ref[p]] = "absent"
    /\ pc[p] = "returned" =>
         worktree[ref[p]] = <<ref[p], 0>> /\ (Bootstrap => sentinel[ref[p]] # "absent")

\* A sentinel that counts is that of a bootstrap that has ended.
VenvInv == \A r \in Refs : bootstrapped(r) => venv[r] # None

ProcInv(p) == LockInv(p) /\ FetchInv(p) /\ CommitInv(p)

IInv == TypeInv /\ VenvInv /\ \A p \in Procs : ProcInv(p)

-----------------------------------------------------------------------------
LEMMA InitIInv == Init => IInv
  BY RefsAssumption
  DEF Init, IInv, TypeInv, VenvInv, ProcInv, LockInv, FetchInv, CommitInv, Refs,
      Absent, None, Working, InBare, bootstrapped

\* What a step of p leaves alone: the other processes, what they have locked,
\* and the checkouts of commits that are used.
Others(p) ==
  /\ head' = head
  /\ objects \subseteq objects'
  /\ \A q \in Procs \ {p} :
       /\ pc'[q] = pc[q] /\ ref'[q] = ref[q] /\ asked'[q] = asked[q]
       /\ bare_lock = q => bare_lock' = q /\ fetch_head' = fetch_head
  /\ \A r \in Refs : dest_lock[r] \in Procs \ {p} =>
       /\ dest_lock'[r] = dest_lock[r]
       /\ worktree'[r] = worktree[r] /\ sentinel'[r] = sentinel[r]
       /\ r \in objects' <=> r \in objects
  /\ \A c \in Commits : InUse(c) =>
       worktree'[c] = worktree[c] /\ venv'[c] = venv[c] /\ sentinel'[c] = sentinel[c]

\* ... hence a step of p has to be looked at for p only.
LEMMA StepKeeps ==
  ASSUME IInv, NEW p \in Procs, Others(p), TypeInv', VenvInv', ProcInv(p)'
  PROVE  IInv'
  <1>1. ASSUME NEW q \in Procs, q # p PROVE ProcInv(q)'
    <2> USE <1>1 DEF IInv, ProcInv, TypeInv, Others
    <2>1. LockInv(q)'
      BY DEF LockInv, Working, InBare
    <2>2. FetchInv(q)'
      <3>1. pc[q] \in {"worktree", "checkout"} => Target(q)' = Target(q)
        BY DEF LockInv, Target, InBare
      <3>2. pc[q] \in {"bootstrap", "bootstrapping"} =>
              worktree'[ref[q]] = worktree[ref[q]] /\ sentinel'[ref[q]] = sentinel[ref[q]]
        BY DEF LockInv, Working
      <3> QED BY <3>1, <3>2 DEF FetchInv, Right, bootstrapped
    <2>3. CommitInv(q)'
      BY RefsAssumption DEF LockInv, CommitInv, InUse, Working
    <2> QED BY <2>1, <2>2, <2>3
  <1> QED BY <1>1 DEF IInv

-----------------------------------------------------------------------------
(* The steps of a process                                                  *)

LEMMA fetch_repo_step ==
  ASSUME IInv, NEW p \in Procs, NEW r \in Refs, fetch_repo(p, r)
  PROVE  Others(p) /\ IInv'
  <1> USE RefsAssumption DEF IInv, TypeInv, ProcInv, LockInv, Refs, fetch_repo, Goto, locks, disk
  <1>1. TypeInv'
    OBVIOUS
  <1>2. VenvInv'
    BY DEF VenvInv, bootstrapped
  <1>3. Others(p)
    BY DEF Others, InUse, CommitInv
  <1>4. LockInv(p)'
    BY DEF Working, InBare
  <1>5. FetchInv(p)'
    BY DEF FetchInv
  <1>6. CommitInv(p)'
    BY DEF CommitInv
  <1> QED BY <1>1, <1>2, <1>3, <1>4, <1>5, <1>6, StepKeeps

LEMMA lock_dest_step ==
  ASSUME IInv, NEW p \in Procs, lock_dest(p)
  PROVE  Others(p) /\ IInv'
  <1> USE RefsAssumption DEF IInv, TypeInv, ProcInv, LockInv, Refs, lock_dest, Goto, locks, disk
  <1>1. TypeInv'
    OBVIOUS
  <1>2. VenvInv'
    BY DEF VenvInv, bootstrapped
  <1>3. Others(p)
    BY DEF Others, InUse, CommitInv
  <1>4. LockInv(p)'
    BY DEF InBare
  <1>5. FetchInv(p)'
    BY DEF FetchInv
  <1>6. CommitInv(p)'
    BY DEF CommitInv
  <1> QED BY <1>1, <1>2, <1>3, <1>4, <1>5, <1>6, StepKeeps

LEMMA lock_bare_step ==
  ASSUME IInv, NEW p \in Procs, lock_bare(p)
  PROVE  Others(p) /\ IInv'
  <1> USE RefsAssumption DEF IInv, TypeInv, ProcInv, LockInv, Refs, lock_bare, Goto, locks, disk
  <1>1. TypeInv'
    OBVIOUS
  <1>2. VenvInv'
    BY DEF VenvInv, bootstrapped
  <1>3. Others(p)
    BY DEF Others, InUse, CommitInv
  <1>4. LockInv(p)'
    BY DEF Working
  <1>5. FetchInv(p)'
    BY DEF FetchInv
  <1>6. CommitInv(p)'
    BY DEF CommitInv
  <1> QED BY <1>1, <1>2, <1>3, <1>4, <1>5, <1>6, StepKeeps

LEMMA fetch_bare_repo_step ==
  ASSUME IInv, NEW p \in Procs, fetch_bare_repo(p)
  PROVE  Others(p) /\ IInv'
  <1> USE RefsAssumption DEF IInv, TypeInv, ProcInv, LockInv, Refs, fetch_bare_repo,
     Goto, locks, disk, Target
  <1>1. TypeInv'
    OBVIOUS
  <1>2. VenvInv'
    BY DEF VenvInv, bootstrapped
  <1>3. Others(p)
    BY DEF Others, InUse, CommitInv, Working, InBare
  <1>4. LockInv(p)'
    BY DEF Working, InBare
  <1>5. FetchInv(p)'
    BY DEF FetchInv, Right
  <1>6. CommitInv(p)'
    BY DEF CommitInv
  <1> QED BY <1>1, <1>2, <1>3, <1>4, <1>5, <1>6, StepKeeps

LEMMA create_worktree_step ==
  ASSUME IInv, NEW p \in Procs, create_worktree(p)
  PROVE  Others(p) /\ IInv'
  <1> USE RefsAssumption DEF IInv, TypeInv, ProcInv, LockInv, Refs, create_worktree,
     Goto, locks, disk, Target, Leave
  <1>1. TypeInv'
    OBVIOUS
  <1>2. VenvInv'
    BY DEF VenvInv, bootstrapped
  <1>3. Others(p)
    BY DEF Others, InUse, CommitInv, Working, InBare
  <1>4. LockInv(p)'
    BY DEF Working, InBare
  <1>5. FetchInv(p)'
    BY DEF FetchInv, Right
  <1>6. CommitInv(p)'
    BY DEF CommitInv
  <1> QED BY <1>1, <1>2, <1>3, <1>4, <1>5, <1>6, StepKeeps

LEMMA checkout_step ==
  ASSUME IInv, NEW p \in Procs, checkout(p)
  PROVE  Others(p) /\ IInv'
  <1> USE RefsAssumption DEF IInv, TypeInv, ProcInv, LockInv, Refs, checkout, Goto,
     locks, disk, Target, Leave
  <1>1. TypeInv'
    OBVIOUS
  <1>2. VenvInv'
    BY DEF VenvInv, bootstrapped
  <1>3. Others(p)
    BY DEF Others, InUse, CommitInv, Working, InBare
  <1>4. LockInv(p)'
    BY DEF Working, InBare
  <1>5. FetchInv(p)'
    BY DEF FetchInv, Right
  <1>6. CommitInv(p)'
    BY DEF CommitInv
  <1> QED BY <1>1, <1>2, <1>3, <1>4, <1>5, <1>6, StepKeeps

LEMMA not_found_step ==
  ASSUME IInv, NEW p \in Procs, not_found(p)
  PROVE  Others(p) /\ IInv'
  <1> USE RefsAssumption DEF IInv, TypeInv, ProcInv, LockInv, Refs, not_found, Goto,
     locks, disk, Remove, Leave
  <1>1. TypeInv'
    OBVIOUS
  <1>2. VenvInv'
    BY DEF VenvInv, bootstrapped
  <1>3. Others(p)
    BY DEF Others, InUse, CommitInv, Working
  <1>4. LockInv(p)'
    BY DEF Working, InBare
  <1>5. FetchInv(p)'
    BY DEF FetchInv
  <1>6. CommitInv(p)'
    BY DEF CommitInv
  <1> QED BY <1>1, <1>2, <1>3, <1>4, <1>5, <1>6, StepKeeps

LEMMA bootstrap_step ==
  ASSUME IInv, NEW p \in Procs, bootstrap(p)
  PROVE  Others(p) /\ IInv'
  <1> USE RefsAssumption DEF IInv, TypeInv, ProcInv, LockInv, Refs, bootstrap, Goto, locks, disk, Leave
  <1>1. TypeInv'
    OBVIOUS
  <1>2. VenvInv'
    BY DEF VenvInv, bootstrapped
  <1>3. Others(p)
    BY DEF Others, InUse, CommitInv, Working
  <1>4. LockInv(p)'
    BY DEF Working, InBare
  <1>5. FetchInv(p)'
    BY DEF FetchInv, Right, bootstrapped
  <1>6. CommitInv(p)'
    BY DEF FetchInv, CommitInv, InBare, Right, bootstrapped
  <1> QED BY <1>1, <1>2, <1>3, <1>4, <1>5, <1>6, StepKeeps

LEMMA bootstrap_teuthology_step ==
  ASSUME IInv, NEW p \in Procs, bootstrap_teuthology(p)
  PROVE  Others(p) /\ IInv'
  <1> USE RefsAssumption DEF IInv, TypeInv, ProcInv, LockInv, Refs, bootstrap_teuthology,
     Goto, locks, disk, Leave
  <1>1. TypeInv'
    OBVIOUS
  <1>2. VenvInv'
    BY DEF FetchInv, VenvInv, bootstrapped, Right, None
  <1>3. Others(p)
    <2>1. ~InUse(ref[p]) \/ ref[p] \notin Commits
      BY DEF FetchInv, CommitInv, InUse, bootstrapped
    <2>2. \A r \in Refs \ {ref[p]} :
            dest_lock'[r] = dest_lock[r] /\ venv'[r] = venv[r] /\ sentinel'[r] = sentinel[r]
      OBVIOUS
    <2> QED BY <2>1, <2>2 DEF Others, Working
  <1>4. LockInv(p)'
    BY DEF Working, InBare
  <1>5. FetchInv(p)'
    BY DEF FetchInv
  <1>6. CommitInv(p)'
    BY DEF FetchInv, CommitInv, Right, bootstrapped
  <1> QED BY <1>1, <1>2, <1>3, <1>4, <1>5, <1>6, StepKeeps

LEMMA retry_step ==
  ASSUME IInv, NEW p \in Procs, retry(p)
  PROVE  Others(p) /\ IInv'
  <1> USE RefsAssumption DEF IInv, TypeInv, ProcInv, LockInv, Refs, retry, Goto, locks,
     disk, Remove, Leave
  <1>1. TypeInv'
    OBVIOUS
  <1>2. VenvInv'
    BY DEF VenvInv, bootstrapped
  <1>3. Others(p)
    BY DEF Others, InUse, CommitInv, Working
  <1>4. LockInv(p)'
    BY DEF Working, InBare
  <1>5. FetchInv(p)'
    BY DEF FetchInv
  <1>6. CommitInv(p)'
    BY DEF CommitInv
  <1> QED BY <1>1, <1>2, <1>3, <1>4, <1>5, <1>6, StepKeeps

LEMMA forget_step ==
  ASSUME IInv, NEW p \in Procs, forget(p)
  PROVE  Others(p) /\ IInv'
  <1> USE RefsAssumption DEF IInv, TypeInv, ProcInv, LockInv, Refs, forget, Goto, locks, disk, Idle
  <1>1. TypeInv'
    OBVIOUS
  <1>2. VenvInv'
    BY DEF VenvInv, bootstrapped
  <1>3. Others(p)
    BY DEF Others, InUse, CommitInv
  <1>4. LockInv(p)'
    BY DEF Working, InBare
  <1>5. FetchInv(p)'
    BY DEF FetchInv
  <1>6. CommitInv(p)'
    BY DEF CommitInv
  <1> QED BY <1>1, <1>2, <1>3, <1>4, <1>5, <1>6, StepKeeps

LEMMA crash_step ==
  ASSUME IInv, NEW p \in Procs, crash(p)
  PROVE  Others(p) /\ IInv'
  <1> USE RefsAssumption DEF IInv, TypeInv, ProcInv, LockInv, Refs, crash, Goto, locks, disk, Idle
  <1>1. TypeInv'
    OBVIOUS
  <1>2. VenvInv'
    BY DEF VenvInv, bootstrapped
  <1>3. Others(p)
    BY DEF Others, InUse, CommitInv
  <1>4. LockInv(p)'
    BY DEF Working, InBare
  <1>5. FetchInv(p)'
    BY DEF FetchInv
  <1>6. CommitInv(p)'
    BY DEF CommitInv
  <1> QED BY <1>1, <1>2, <1>3, <1>4, <1>5, <1>6, StepKeeps

-----------------------------------------------------------------------------
\* A branch that moves has the revisions it had before.
LEMMA push_step ==
  ASSUME IInv, NEW b \in Branches, push(b)
  PROVE  IInv'
  <1> USE RefsAssumption DEF IInv, TypeInv, ProcInv, Refs, push, locks, disk
  <1>1. TypeInv' /\ VenvInv'
    BY DEF VenvInv, bootstrapped
  <1>2. ASSUME NEW p \in Procs PROVE LockInv(p)' /\ FetchInv(p)' /\ CommitInv(p)'
    <2>1. LockInv(p)' /\ CommitInv(p)'
      BY DEF LockInv, CommitInv
    <2>2. FetchInv(p)'
      <3>1. ASSUME NEW revision, Right(p, revision), pc[p] # "idle" PROVE Right(p, revision)'
        BY <3>1 DEF Right
      <3> QED BY <3>1 DEF LockInv, FetchInv, Target, bootstrapped
    <2> QED BY <2>1, <2>2
  <1> QED BY <1>1, <1>2

LEMMA is_fresh_step ==
  ASSUME IInv, NEW r \in Refs, is_fresh(r)
  PROVE  IInv'
  BY DEF IInv, TypeInv, VenvInv, ProcInv, LockInv, FetchInv, CommitInv, Right, Target,
     bootstrapped, is_fresh, locks

LEMMA ProcessStep ==
  ASSUME IInv, NEW p \in Procs,
         Step(p) \/ crash(p) \/ forget(p) \/ \E r \in Refs : fetch_repo(p, r)
  PROVE  Others(p) /\ IInv'
  BY fetch_repo_step, lock_dest_step, lock_bare_step, fetch_bare_repo_step, create_worktree_step,
     checkout_step, not_found_step, bootstrap_step, bootstrap_teuthology_step, retry_step,
     forget_step, crash_step DEF Step

LEMMA NextIInv == IInv /\ [Next]_vars => IInv'
  <1> SUFFICES ASSUME IInv, [Next]_vars PROVE IInv' OBVIOUS
  <1>1. CASE UNCHANGED vars
    BY <1>1 DEF vars, locks, disk, IInv, TypeInv, VenvInv, ProcInv, LockInv, FetchInv,
       CommitInv, Right, Target, bootstrapped
  <1>2. CASE Next
    BY <1>2, ProcessStep, push_step, is_fresh_step DEF Next
  <1> QED BY <1>1, <1>2

LEMMA IInvAlways == Spec => []IInv
  BY InitIInv, NextIInv, PTL DEF Spec

-----------------------------------------------------------------------------
\* fetch_repo returns the commit it was asked for, or a revision the branch had
\* since, bootstrapped: FETCH_HEAD, which all processes share, is read under
\* the lock under which it was written.
THEOREM RightRevisionHolds == Spec => RightRevision
  <1>1. ASSUME IInv, [Next]_vars, NEW p \in Procs, pc[p] # "returned", pc'[p] = "returned"
        PROVE  Returned(p)
    <2>1. checkout(p) \/ bootstrap(p) \/ bootstrap_teuthology(p)
      BY <1>1 DEF Next, vars, Step, IInv, TypeInv, fetch_repo, lock_dest, lock_bare,
         fetch_bare_repo, create_worktree, not_found, retry, forget, crash, Idle, push,
         is_fresh, Goto, checkout, bootstrap, bootstrap_teuthology
    <2>2. CASE checkout(p)
      BY <2>2, <1>1, RefsAssumption DEF checkout, Goto, Leave, Returned, IInv, TypeInv,
         ProcInv, LockInv, FetchInv, Right
    <2>3. CASE bootstrap(p)
      BY <2>3, <1>1, RefsAssumption DEF bootstrap, Returned, IInv, TypeInv, VenvInv,
         ProcInv, LockInv, FetchInv, Right, disk, Goto, Leave
    <2>4. CASE bootstrap_teuthology(p)
      BY <2>4, <1>1, RefsAssumption DEF bootstrap_teuthology, Returned, IInv, TypeInv,
         ProcInv, LockInv, FetchInv, Right, Refs, None, Goto, Leave
    <2> QED BY <2>1, <2>2, <2>3, <2>4
  <1>2. IInv /\ [Next]_vars =>
          \A p \in Procs : pc[p] # "returned" /\ pc'[p] = "returned" => Returned(p)
    BY <1>1
  <1> QED BY <1>2, IInvAlways, PTL DEF Spec, RightRevision

\* While somebody uses the checkout of a commit, the others find the commit in
\* the bare clone and the worktree bootstrapped: they leave both alone.
THEOREM CommitStableHolds == Spec => CommitStable
  <1>1. ASSUME IInv, [Next]_vars, NEW c \in Commits, InUse(c)
        PROVE  worktree'[c] = worktree[c] /\ venv'[c] = venv[c]
    <2>1. CASE UNCHANGED <<worktree, venv>>
      BY <2>1
    <2>2. CASE \E p \in Procs : Others(p)
      BY <2>2, <1>1 DEF Others
    <2>3. UNCHANGED <<worktree, venv>> \/ \E p \in Procs : Others(p)
      BY <1>1, ProcessStep DEF Next, vars, disk, push, is_fresh
    <2> QED BY <2>1, <2>2, <2>3
  <1>2. IInv /\ [Next]_vars =>
          \A c \in Commits : InUse(c) => worktree'[c] = worktree[c] /\ venv'[c] = venv[c]
    BY <1>1
  <1> QED BY <1>2, IInvAlways, PTL DEF Spec, CommitStable
=============================================================================
