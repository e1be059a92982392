----------------------------- MODULE RepoCache ------------------------------
(***************************************************************************)
(* teuthology/repo_utils.py fetch_repo for one repository: the dispatcher, *)
(* teuthology-suite, and the jobs of one machine share a bare clone and a  *)
(* worktree for each branch or commit they ask for.  One file lock guards  *)
(* each worktree, another the bare clone with its FETCH_HEAD; they are     *)
(* locks of processes, and end with them.                                  *)
(***************************************************************************)
EXTENDS Naturals

CONSTANTS
  Procs,     \* the processes that fetch
  Branches,
  Commits,   \* the commits that are asked for by their sha1
  Nobody,    \* the holder of a free lock
  NoRef,     \* what a process asks for that does not fetch
  Bootstrap, \* fetch_teuthology's bootstrap, or none (fetch_qa_suite, ansible)
  Tries,     \* safe_while(tries=6)
  MaxRev,    \* bound: how often a branch moves
  Faults     \* which of FaultKinds may happen

FaultKinds == {"git", "reset", "bootstrap", "crash"}

ASSUME RefsAssumption ==
  /\ Branches \cap Commits = {} /\ Nobody \notin Procs
  /\ NoRef \notin Branches \cup Commits
  /\ "none" \notin Branches \cup Commits  \* see None, below
ASSUME RepoCacheAssumption ==
  /\ Bootstrap \in BOOLEAN
  /\ Tries \in Nat \ {0}
  /\ MaxRev \in Nat
  /\ Faults \subseteq FaultKinds

Refs      == Branches \cup Commits

\* A branch's k-th revision is <<branch, k>>, a commit is <<commit, 0>>.
Revisions == (Commits \X {0}) \cup (Branches \X (0..MaxRev))
None    == <<"none", 0>>
Absent  == <<"absent", 0>>
Partial == <<"partial", 0>>  \* a checkout that was broken off

VARIABLES
  head,       \* upstream: the revision of each branch
  objects,    \* the commits the bare clone has
  fetch_head, \* the bare clone's FETCH_HEAD
  bare_lock,  \* who holds the lock of the bare clone
  dest_lock,  \* who holds the lock of a worktree
  worktree,   \* what is checked out
  venv,       \* what a worktree's virtualenv was bootstrapped from
  sentinel,   \* a worktree's .bootstrapped
  pc, ref, tries, asked \* of a process; asked: history, its branch's head then

locks    == <<bare_lock, dest_lock>>
disk     == <<worktree, venv, sentinel>>
vars     == <<head, objects, fetch_head, locks, disk, pc, ref, tries, asked>>

Init ==
  /\ head = [b \in Branches |-> 0]
  /\ objects = {}
  /\ fetch_head = None
  /\ bare_lock = Nobody
  /\ dest_lock = [r \in Refs |-> Nobody]
  /\ worktree = [r \in Refs |-> Absent]
  /\ venv = [r \in Refs |-> None]
  /\ sentinel = [r \in Refs |-> "absent"]
  /\ pc = [p \in Procs |-> "idle"]
  /\ ref = [p \in Procs |-> NoRef]
  /\ tries = [p \in Procs |-> 0]
  /\ asked = [p \in Procs |-> 0]

Goto(p, step) == pc' = [pc EXCEPT ![p] = step]
Leave(p) == dest_lock' = [dest_lock EXCEPT ![ref[p]] = Nobody]

\* shutil.rmtree(dest_path), `git worktree remove --force`.
Remove(r) ==
  /\ worktree' = [worktree EXCEPT ![r] = Absent]
  /\ venv' = [venv EXCEPT ![r] = None]
  /\ sentinel' = [sentinel EXCEPT ![r] = "absent"]

-----------------------------------------------------------------------------
(* fetch_repo and its locks                                                *)

fetch_repo(p, r) ==
  /\ pc[p] = "idle"
  /\ Goto(p, "lock")
  /\ ref' = [ref EXCEPT ![p] = r]
  /\ asked' = [asked EXCEPT ![p] = IF r \in Branches THEN head[r] ELSE 0]
  /\ UNCHANGED <<head, objects, fetch_head, locks, disk, tries>>

\* "only let one worker create/update the checkout at a time"
lock_dest(p) ==
  /\ pc[p] = "lock"
  /\ dest_lock[ref[p]] = Nobody
  /\ dest_lock' = [dest_lock EXCEPT ![ref[p]] = p]
  /\ tries' = [tries EXCEPT ![p] = 1]
  /\ Goto(p, "lock_bare")
  /\ UNCHANGED <<head, objects, fetch_head, bare_lock, disk, ref, asked>>

\* Mutant of lock_bare: nobody waits for the lock of the bare clone.
lock_bare_not(p) ==
  /\ pc[p] = "lock_bare"
  /\ Goto(p, "fetch")
  /\ UNCHANGED <<head, objects, fetch_head, locks, disk, ref, tries, asked>>

\* The bare clone is initialised if it is not there.
lock_bare(p) ==
  /\ pc[p] = "lock_bare"
  /\ bare_lock = Nobody
  /\ bare_lock' = p
  /\ Goto(p, "fetch")
  /\ UNCHANGED <<head, objects, fetch_head, dest_lock, disk, ref, tries, asked>>

-----------------------------------------------------------------------------
(* enforce_repo_state                                                      *)

\* A commit the bare clone has is not fetched.  One that cannot be fetched, for
\* whatever reason, is a CommitNotFoundError; with a branch, git's output tells
\* a BranchNotFoundError from a GitError.
fetch_bare_repo(p) ==
  /\ pc[p] = "fetch"
  /\ LET r == ref[p] IN
     \/ /\ r \in objects
        /\ Goto(p, "worktree")
        /\ UNCHANGED <<objects, fetch_head, bare_lock>>
     \/ /\ r \notin objects
        /\ fetch_head' = IF r \in Commits THEN <<r, 0>> ELSE <<r, head[r]>>
        /\ objects' = objects \cup ({r} \cap Commits)
        /\ Goto(p, "worktree")
        /\ UNCHANGED bare_lock
     \/ /\ r \notin objects /\ "git" \in Faults
        /\ \/ Goto(p, "not_found")
           \/ r \in Branches /\ Goto(p, "retry")
        /\ fetch_head' = None
        /\ bare_lock' = Nobody
        /\ UNCHANGED objects
  /\ UNCHANGED <<head, dest_lock, disk, ref, tries, asked>>

\* The revision `commit or 'FETCH_HEAD'` names.
Target(p) == IF ref[p] \in Commits THEN <<ref[p], 0>> ELSE fetch_head

\* git worktree add, or git reset --hard of one that is there, which a crash may
\* have left in a state git cannot reset: a CalledProcessError that nobody
\* retries.
create_worktree(p) ==
  /\ pc[p] = "worktree"
  /\ \/ /\ worktree' = [worktree EXCEPT ![ref[p]] = IF @ = Target(p) THEN @ ELSE Partial]
        /\ Goto(p, "checkout")
        /\ UNCHANGED locks
     \/ /\ "reset" \in Faults
        /\ worktree[ref[p]] = Partial
        /\ Goto(p, "raised")
        /\ bare_lock' = Nobody
        /\ Leave(p)
        /\ UNCHANGED worktree
  /\ UNCHANGED <<head, objects, fetch_head, venv, sentinel, ref, tries, asked>>

\* ... and its end, with which the bare clone is unlocked.
checkout(p) ==
  /\ pc[p] = "checkout"
  /\ worktree' = [worktree EXCEPT ![ref[p]] = Target(p)]
  /\ bare_lock' = Nobody
  /\ IF Bootstrap
     THEN Goto(p, "bootstrap") /\ UNCHANGED dest_lock
     ELSE Goto(p, "returned") /\ Leave(p)
  /\ UNCHANGED <<head, objects, fetch_head, venv, sentinel, ref, tries, asked>>

\* BranchNotFoundError and CommitNotFoundError remove the worktree.
not_found(p) ==
  /\ pc[p] = "not_found"
  /\ Remove(ref[p])
  /\ Goto(p, "raised")
  /\ Leave(p)
  /\ UNCHANGED <<head, objects, fetch_head, bare_lock, ref, tries, asked>>

-----------------------------------------------------------------------------
(* The rest of fetch_repo                                                  *)

\* Mutant of bootstrapped: a fresh sentinel counts for commits only.
bootstrapped_swapped(r) == r \in Commits /\ sentinel[r] = "fresh"

bootstrapped(r) ==
  \/ r \in Commits /\ sentinel[r] # "absent"
  \/ sentinel[r] = "fresh"

bootstrap(p) ==
  /\ pc[p] = "bootstrap"
  /\ IF bootstrapped(ref[p])
     THEN Goto(p, "returned") /\ Leave(p)
     ELSE Goto(p, "bootstrapping") /\ UNCHANGED dest_lock
  /\ UNCHANGED <<head, objects, fetch_head, bare_lock, disk, ref, tries, asked>>

\* ./bootstrap: when it fails, .venv is removed and the BootstrapError retried.
bootstrap_teuthology(p) ==
  /\ pc[p] = "bootstrapping"
  /\ \/ /\ venv' = [venv EXCEPT ![ref[p]] = worktree[ref[p]]]
        /\ sentinel' = [sentinel EXCEPT ![ref[p]] = "fresh"]
        /\ Goto(p, "returned")
        /\ Leave(p)
     \/ /\ "bootstrap" \in Faults
        /\ venv' = [venv EXCEPT ![ref[p]] = None]
        /\ Goto(p, "retry")
        /\ UNCHANGED <<sentinel, dest_lock>>
  /\ UNCHANGED <<head, objects, fetch_head, bare_lock, worktree, ref, tries, asked>>

\* Mutant of retry: MaxWhileTries is raised with the lock held.
retry_keeps_lock(p) ==
  /\ pc[p] = "retry"
  /\ IF tries[p] < Tries
     THEN /\ tries' = [tries EXCEPT ![p] = @ + 1]
          /\ Goto(p, "lock_bare")
          /\ UNCHANGED disk
     ELSE Remove(ref[p]) /\ Goto(p, "raised") /\ UNCHANGED tries
  /\ UNCHANGED <<head, objects, fetch_head, locks, ref, asked>>

\* A GitError or a BootstrapError; MaxWhileTries removes the worktree.
retry(p) ==
  /\ pc[p] = "retry"
  /\ IF tries[p] < Tries
     THEN /\ tries' = [tries EXCEPT ![p] = @ + 1]
          /\ Goto(p, "lock_bare")
          /\ UNCHANGED <<disk, dest_lock>>
     ELSE /\ Remove(ref[p])
          /\ Goto(p, "raised")
          /\ Leave(p)
          /\ UNCHANGED tries
  /\ UNCHANGED <<head, objects, fetch_head, bare_lock, ref, asked>>

-----------------------------------------------------------------------------
(* What happens around it                                                  *)

Idle(p) ==
  /\ Goto(p, "idle")
  /\ ref' = [ref EXCEPT ![p] = NoRef]
  /\ tries' = [tries EXCEPT ![p] = 0]
  /\ asked' = [asked EXCEPT ![p] = 0]

\* The job is over, or its caller has given up; the next one may come.
forget(p) ==
  /\ pc[p] \in {"returned", "raised"}
  /\ Idle(p)
  /\ UNCHANGED <<head, objects, fetch_head, locks, disk>>

\* The process is killed: its locks are free.
crash(p) ==
  /\ "crash" \in Faults
  /\ pc[p] \notin {"idle", "returned", "raised"}
  /\ Idle(p)
  /\ bare_lock' = IF bare_lock = p THEN Nobody ELSE bare_lock
  /\ dest_lock' = [r \in Refs |-> IF dest_lock[r] = p THEN Nobody ELSE dest_lock[r]]
  /\ UNCHANGED <<head, objects, fetch_head, disk>>

\* Somebody pushes to a branch.
push(b) ==
  /\ head[b] < MaxRev
  /\ head' = [head EXCEPT ![b] = @ + 1]
  /\ UNCHANGED <<objects, fetch_head, locks, disk, pc, ref, tries, asked>>

\* FRESHNESS_INTERVAL passes.
is_fresh(r) ==
  /\ sentinel[r] = "fresh"
  /\ sentinel' = [sentinel EXCEPT ![r] = "stale"]
  /\ UNCHANGED <<head, objects, fetch_head, locks, worktree, venv, pc, ref, tries, asked>>

Step(p) ==
  \/ lock_dest(p) \/ lock_bare(p) \/ fetch_bare_repo(p) \/ create_worktree(p)
  \/ checkout(p) \/ not_found(p) \/ bootstrap(p) \/ bootstrap_teuthology(p) \/ retry(p)

Next ==
  \/ \E p \in Procs : Step(p) \/ crash(p) \/ forget(p) \/ \E r \in Refs : fetch_repo(p, r)
  \/ \E b \in Branches : push(b)
  \/ \E r \in Refs : is_fresh(r)

\* A process runs, and one that waits for a lock gets its turn: the kernel queues
\* those that wait in fcntl.lockf.
Fairness == \A p \in Procs :
  /\ WF_vars(Step(p))
  /\ SF_vars(lock_dest(p))
  /\ SF_vars(lock_bare(p))

Spec == Init /\ [][Next]_vars /\ Fairness

-----------------------------------------------------------------------------
(* A checkout that is returned is the commit that was asked for, or a      *)
(* revision the branch had since it was asked for, never another branch's; *)
(* and it has been bootstrapped.                                           *)
Returned(p) ==
  LET r == ref[p]
  IN  /\ IF r \in Commits THEN worktree'[r] = <<r, 0>>
         ELSE \E k \in asked[p]..head[r] : worktree'[r] = <<r, k>>
      /\ Bootstrap => venv'[r] # None

RightRevision ==
  [][\A p \in Procs : pc[p] # "returned" /\ pc'[p] = "returned" => Returned(p)]_vars

(* While a job uses the checkout of a commit, nobody removes it or         *)
(* bootstraps it anew: what the sentinels are for.                         *)
InUse(c) == \E p \in Procs : pc[p] = "returned" /\ ref[p] = c

CommitStable ==
  [][\A c \in Commits : InUse(c) =>
       worktree'[c] = worktree[c] /\ venv'[c] = venv[c]]_vars

(* Whoever asks for a checkout gets it, or an exception, or is killed,     *)
(* although others fail, retry and crash with locks held.                  *)
FetchEnds ==
  \A p \in Procs : pc[p] = "lock" ~> pc[p] \in {"returned", "raised", "idle"}
=============================================================================
