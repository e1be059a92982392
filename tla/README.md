# A formal model of teuthology

Teuthology schedules suites of integration tests for Ceph, locks the machines
they need, reimages them, runs the tests and gives the machines back. This
directory holds TLA+ modules that model its control logic, the TLC
configurations that check them on small instances, and proofs for the TLA+
proof system (TLAPS) of what holds for every instance.

Every definition is translated from the Python under `src/`; `PROJECT.json`
names the lines of each one (`map`), every component with what is left out of it
(`components`), what is hard about the code and which property watches it
(`hazards`), what each run checks (`runs`), a plausible bug that each property
detects (`mutants`), and the places where the code and its documentation
disagree (`findings`).

    tlc -workers 2 -config lc_ownership.cfg MCJobLifecycle.tla   # one run
    tlapm JobLifecycle_proofs.tla                                # the proofs

Contents: 1 the system, 2 the modules, 3 the runs, 4 faults and bounds,
5 fairness, 6 proofs, 7 what the models showed about the code, 8 what is not
modelled, 9 the plan.


## 1. The system

    teuthology-suite ---(teuthology-schedule)--> beanstalk ---> dispatcher
       |   |                                                      |  one per machine type
       |   +--- paddles (results) <----- report.py ------+        v
       |                ^                                |   supervisor, one per job
    --wait, results     |                                |        |  locks, reimages, watches
       |            teuthology-kill                      +--------+
       v                |                                         v
    mail to the user    +--> paddles (locks) <--- lock/ops.py  job process (run.py)
                                                                  |
                             FOG / MAAS / Pelagos <---------------+  run_tasks: the tasks

Everything meets in four places, none of which has transactions: the *beanstalk
queue*; the *lock server* and the *results server* (both paddles, reached by
single HTTP requests); and the *file system* of the machine that the dispatcher
and the jobs run on. The processes are ordinary Unix processes; inside each of
them gevent greenlets interleave at blocking calls.

### Inventory

| Component (source) | State it keeps | Operations | Talks to | Hard behaviour | What makes it correct |
|---|---|---|---|---|---|
| `parallel()` (parallel.py) | count, result queue, two flags | spawn, `__next__`, `__exit__`, `_finish` | gevent hub | callbacks that run only when the owner blocks; a block left early; waiting for nobody | the block ends when all functions have; an exception is not lost; no LoopExit |
| dispatcher (dispatcher/\_\_init\_\_.py) | current job, its children, stop flag, LoopExit count | reserve, bury, prep_job, lock_machines, start a supervisor, delete, restart | beanstalk, lock server, paddles | every step may raise; restarted in the middle | a job is started once; what it locked is given back or found stale |
| supervisor (dispatcher/supervisor.py) | targets, child, failures | expire, reimage, spawn, watch, kill after max_job_time, mark down, unlock, describe | all servers, job process | the watchdog, kills from outside, a job process that dies silently | owns the nodes while it works; each of its ends unlocks or leaves a stale lock, unless paddles is silent at the wrong moment (section 7) |
| locking (lock/ops.py, lock/query.py) | none; the server's records | lock_many, unlock_safe, update_lock, find_stale_locks | lock server | check and act in separate requests; retried PUTs; requests that run out of tries; people with teuthology-lock | nobody unlocks what another job, or a person, holds |
| teuthology-kill (kill.py) | pids and ids it has read | kill_job, kill_run | beanstalk, paddles, processes | reads that are stale when used | no working job loses its nodes; the run settles |
| reporting (report.py) | none | push, mark dead, delete | paddles | lost and late requests | a final status arrives, and stays |
| job process (run.py, exit.py) | summary | main, report_outcome, signal handlers | paddles | ends with or without a report | |
| task runner (run_tasks.py, contextutil.py, task/sequential.py, ...) | stack of context managers, exc_info, summary | enter, exit, unwind | tasks | an exit that raises while others are still to run | all managers exited in reverse order; a failure shows |
| repository cache (repo_utils.py) | bare clone, worktrees, sentinels, file locks | fetch_repo, bootstrap | git, kernel locks | FETCH_HEAD shared by processes; killed with locks held; retries that remove | the right revision; a checkout stays while it is used; nobody waits forever |
| suite generation (suite/matrix.py, build_matrix.py, merge.py, fragment-merge.lua) | none | build_matrix, config_merge | file system | integer arithmetic on sizes and cycles | every combination once; every piece has every facet |
| scheduling (suite/run.py, schedule.py, suite/\_\_init\_\_.py) | base config, candidate commits | schedule_suite, --newest, rerun | paddles, shaman, beanstalk | going back over commits; a run refused half-way | one commit for all jobs; a rerun repeats what failed |
| results and --wait (results.py, suite/\_\_init\_\_.py) | none | poll until finished | paddles | statuses that change while they are read | no success is reported for a run that has not passed |
| bare-metal provisioning (provision/fog.py, maas.py, pelagos.py) | ids of tasks and deployments | create, cancel, stop | provisioning server, node, console | a deployment outlives the call that started it; a killed call | returns only with the wanted system, freshly installed; the next call recovers |
| remote execution (orchestra/run.py, cluster.py, remote.py) | connections, processes | run, wait, Cluster.run, reconnect | nodes | a command that fails on some nodes, a connection that is lost | what it has done on the other nodes; the difference of 'fail' and 'dead' |
| internal tasks (task/internal/, clock, pcp, selinux, console_log) | the summary's status, the archive, files and settings of the nodes | enter and exit, around the job's own tasks | nodes, paddles | an exit that fails on one of several nodes; a reboot between entering and exiting | evidence is kept; trouble shows; the nodes are left as they were |
| kernel task (task/kernel.py) | boot loader of the node | find, get, install, set the default, reboot, wait | nodes, build server, koji | reboots of all nodes at once with timeouts; three kinds of boot loader | the wanted kernel runs when the task is done |
| package installation (task/install/, packaging.py) | repositories and packages of the nodes | install, verify, upgrade, remove | nodes, build server | each node asks the server for itself; branches move | one build on all nodes; it is removed again |
| ansible tasks (task/ansible.py, ceph_ansible.py, cephmetrics.py) | inventory, playbook, failure log | setup, playbook, teardown | nodes | a playbook that fails; classes that are exited when entering failed | |
| other tasks (exec, pexec, nfs, iscsi, ssh_keys, hadoop, ...) | files and processes on the clients | enter and exit | nodes | barriers between hosts; parts that were entered when the next one fails | what is put there is removed |
| daemons and power (orchestra/daemon/, console.py) | | restart, stop, power_cycle | nodes | | not modelled |
| clouds and VMs (provision/openstack.py, downburst.py, cloud/) | | create, destroy | OpenStack, libvirt | retries, cleanup | not modelled |
| command lines, config, scrape, prune, ls, exporter, describe | | | | sequential | not modelled |

`PROJECT.json` lists all of them with their files and, for the ones that are
modelled in part, what is missing.


## 2. The modules

Modules are layered with EXTENDS where one process works on the state of
another, and stand alone where components meet only through what a job is given.

### parallel(): `Parallel`, abstract: `ForkJoin`

One `with parallel()` block that spawns the functions of `Funcs`. `pc` is where
the owner is; `greenlet`, `outcome` the state of each function; `results`,
`count`, `any_spawned`, `iteration_stopped` are the attributes of the class.
`spawn`, `NextStops`/`NextTakes`/`NextBlocks`/`NextResumes` (the paths of
`__next__`) and `_finish` are its methods, `Finish` is a function that ends.
`HubRuns` is the cooperative scheduling: greenlets and link callbacks run only
while the owner blocks or has left. `blocks` and `iterates` say what kind of body
it is (`reimage_machines` does requests between spawns, `unlock_safe` does not
and ends with `all(p)`). `ForkJoin` is what callers count on. `WaitsForAll` and
`KillsTheRest` are what the docstring says besides, and does not hold (section 7).

### The life of a job: `Paddles`, `UnlockSafe`, `KillJob`, `Supervisor`, `Dispatcher`, composed in `JobLifecycle`; abstract: `NodeOwnership`

This is the core. Each module extends the one before, adds its variables and its
actions; `JobLifecycle` is their interleaving, and states the properties.

| Module | Models | State |
|---|---|---|
| `Paddles` | node and job records as `lock/ops.py` and `report.py` use them (the server is not under `src/`); a person's teuthology-lock | down, holder, description of a node; status, pid, job_targets of a job |
| `UnlockSafe` | `unlock_safe`, `unlock_one_safe`, `node_active_job`, `unlock_one`: three requests per node, one greenlet each; any may run out of tries (`Fail`), which the block then raises (`UnlockRaises`) | unlocking, seen |
| `KillJob` | `kill_job`, `find_targets`, `kill_processes`; called by the watchdog and by teuthology-kill | kpc, kpid; the processes it may kill: spc, child |
| `Supervisor` | `main`, `reimage` with the greenlets of `reimage_machines`, one per node, `run_job`, `run_with_watchdog`, `check_for_*_failures_and_mark_down`, `unlock_targets`, `describe_disabled_targets`; the job process | imaging, targets, todo, locked, failures |
| `Dispatcher` | `main` with its error paths, `prep_job`, `lock_machines`, `block_and_lock_machines`, `lock_many`, `stop` | queue, dpc, djob, job_procs, stopping, loop_exit_count, restarts |

One action is the code between two requests, i.e. between two points where
another process can interfere; a request and the local code after it are one
step. A step that may raise has its exceptional outcomes as disjuncts, each
allowed by a member of `Faults`. `holder` is finer than the server's `locked_by`
(an owner, `Owner[holder]`): the properties need to know the job, while
`UnlockNode` decides by the owner, as the server does.
`NodeOwnership` is the lab's promise: a node has one owner, a job or a person, is
worked on only by it, and is not given back while it is worked on. Who works on a
node is `WorkedOn`: a supervisor from `reimage` to `spawn`, the job process, and
every greenlet that still reimages a node, also after `reimage_machines` has raised.

The greenlets of a `with parallel()` block are followed one by one, those of
`reimage_machines` (`provision_reimage`) and those of `unlock_safe`. The block
raises with the first that fails. Whether the others have ended by then is the
fault `straggle`: without it a greenlet fails only as the last one, with it they
go on after the block, as they do in the code (module `Parallel`, where this is
how a block is left, not a fault).

A query of the lock server, or the PUT of an unlock, that is out of tries is the
fault `server` (`MaxWhileTries` of `safe_while`, or the `ConnectionError` that
`get_status` does not catch). It ends the greenlet, then `unlock_safe`, then its
caller: the supervisor in `unlock_targets` (`unlock_targets_raises`), before the job
is reported dead if that was after a failed reimage; kill_job, which its callers
catch (`kill_raises`); the dispatcher's turn (`unlock_raises`). The queries of
`list_target`, `describe_still_locked` and `check_for_reimage_failures_and_mark_down`
end the supervisor at once (`QueryRaises`). `update_lock` raises too, but where it is
called that is caught.

Left out: jobs without roles (they lock nothing), the grace time of
find_stale_locks, LoopExit while the dispatcher unlocks after a failed spawn. Of
teuthology-lock there is what locks and unlocks free nodes; not `--update`, which
marks nodes up and down by hand, nor unlocking a job's nodes on purpose.

### The task runner: `TaskRunner`, abstract: `ManagerStack`

The same unwinding is written four times: in `run_tasks`, `contextutil.nested`,
`sequential` (and `loop`), `full_sequential` (and each branch of the task
`parallel`). `runner` chooses one; they differ in `Caught`, `exit_fails` and
`finish`. `stack` holds the entered managers, `exc` what the next `__exit__` is
given, `flying` the exception that leaves the runner, `status` the summary.

### The repository cache: `RepoCache`

Processes that call `fetch_repo` for branches and commits of one repository.
Steps are the commands of git and the locks (`fcntl.lockf`, which end with their
process). A branch's revisions are numbered; `FETCH_HEAD` is one variable that
all share.

### A run: `SuiteRun`

What happens to a whole run: teuthology-schedule puts jobs and reports them,
dispatcher and supervisors work them off (merged into a few steps without their
failures, which `JobLifecycle` has), teuthology-results and `--wait` poll,
`kill_run` reads and acts. The queue is beanstalk's: FIFO, with reservations that
end with their connection. A job of another run shares it, and is followed until
it is dispatched.

### Making a suite's jobs: `Matrix`, `ScheduleSuite`, composed in `SuiteJobs`

`Matrix` is `matrix.py` and `_build_matrix` as operators: a directory is a tree,
a matrix a record with its size and scan length, `index(m, i)` the set of
fragments of job i. `ScheduleSuite` is what teuthology-suite does with a suite's
jobs, whatever they are made of: it takes `build_matrix` as a constant, `jobs_of`, so
that it can be proved about (the operators of `Matrix` are recursive). `SuiteJobs` puts the
two together, and TLC runs them as one. `ScheduleSuite` has `main`
with the overrides of a rerun, `generate`, `config_merge` (premerge, postmerge
and filters), `collect_jobs` with the loop of `--newest`, memo, checks,
`schedule_jobs`, `write_result`; then the jobs end and somebody reruns the run.
A fragment is a number, a description the set of its fragments; premerge and
postmerge scripts reject a fragment or a job for what is merged already
(`Premerge`, `Postmerge`); `random.randint` is an arbitrary operator `Draw` of
seed, position and range; a commit is the number of its place in the history.

### Reimaging a machine: `Machine`, `Fog`, `Maas`, `Pelagos`, composed in `Provision`

`Machine` is the node (what it runs, what is on its disk), the deployments a
server has accepted for it, and the call that works on it. `Fog`, `Maas`,
`Pelagos` are the three `create`s with their helpers, one step per request, and
for each what its server does of its own accord. `Provision` chooses a
provisioner, runs one call after the other and stops the node in between;
`Image` maps what is asked for to an image, or `Nothing`, as the lookups do.

### The tasks of a job: `Commands`; `InternalTasks`, `Builder`, `InstallTask`, `KernelTask`, `AnsibleTask`, `OtherTasks`; composed in `JobTasks`

What a job does on its nodes, task by task. `Commands` says what a command is
and what it leaves when it fails on some of its nodes: `Cluster.run` with
`run.wait` (`All`), a loop over the nodes (`Each`), copying to the archive
(`Pull`), tests (`Refuse`, `Require`, `Flag`, `Branch`), reboots and waiting, and
the frames around them (`Try`, `TryFinally`, `Quiet` for check_status=False and
swallowed exceptions, `Search` for a look at a log whose failure goes unnoticed,
`Parallel` for `with parallel()`). A task is then a program,
a sequence of such commands: `archive_enter(J)`, `archive_exit(J, status, told)` for job
J. The modules of the tasks hold these programs, translated function by function,
under the functions' names with `_enter` and `_exit` for what is before and after
a `yield`.

`JobTasks` runs them. `at` and `phase` are the place in the list of `Tasks`
(`get_initial_tasks` and the job's own) and the direction; `main` is the rest of the program of
the task, with the exception under way; `side` are the greenlets of a block of
`parallel()`, `strays` those of blocks that were left by an exception and go on;
`on` are the marks on each machine, `kept` what the archive has of each node,
`status` the summary's, `lost` the nodes without a connection. `command` and
`side_command` carry out one command, with any failure that the job has left
(`J.faults`); `spawn`, `join`, `join_raises` and `stray_command` are `parallel()`; `entered`,
`enter_raised` and `exited` are `run_tasks`: classes are exited when entering them has
raised, generators are not, and an exit is told of an exception only if it
came from another exit (the finding of `tasks_untold`). `reboots`,
`new_build` and `goes_wrong` are the world: a node comes back with the kernel its boot loader says
and without what is volatile, a branch moves, something on a node dumps core, is
denied or finds a bug of the kernel.

A node is a set of marks, one for each file, package, service or setting that a
later command, another task or a property depends on. Names, paths, versions but
two, and what a shell command does otherwise are not there. A wait (`Await`)
ends when what is waited for is there and the host is up, or it fails; a host that never
comes back is one failure more that a job may have (`Failures`), and no connection
can be made to it any more. The kernel that the roles ask for (`running_new`) and the
distribution's newest (`zstream`, of `install_latest_rh_kernel`) are two marks: after the second
it is not known which one runs. A job is a record: what its
configuration has (`has`), its own tasks, the system of each node, and the
marks before it. The tasks are run by the rules of module `TaskRunner` but for what fails in
`run_tasks` itself.

## 3. The runs

| Run | Instance | States | Checks |
|---|---|---|---|
| `parallel` | 3 functions, every kind of body and outcome | 12 thousand | `LeavesBlock`; `ImplementsForkJoin` (refinement) |
| `lc_outcomes` | a scheduled job (one node, another one in reserve) and a user's (both); 2 nodes; expire, reimage, lock, spawn, die, ansible | 64 thousand | what is left behind: `StaleLocksFound`, `UnlocksAfterExecution`, `DescriptionKept`, `MarkedDownWhileLocked`; `EveryJobEnds`, `NodesReturned` (liveness) |
| `lc_ownership` | a job for 2 nodes, a job for one of them, and a person; reimage, timeout, survive, server, person | 1.2 million (symmetry) | `HoldsTargets`, `NoForeignUnlock`, `ExecutedFound`, `ImplementsOwnership` (refinement) |
| `lc_all_faults` | 1 job, every fault but person | 2.9 million | `StartedOnce` |
| `tasks` | 4 tasks, four runners, every failure | 1 thousand | `PassIsEarned`, `FailureShows`, `ImplementsManagerStack` (refinement) |
| `repo` | 2 processes, a branch that moves once, a commit; git, reset, bootstrap, crash | 245 thousand | `RightRevision`, `CommitStable`, `FetchEnds` |
| `suite` | a run of 2 jobs and its last job, one of another run; prep, kill | 388 thousand | `ResultsComplete`, `WaitTellsFailure`, `HoldsNodes`, `OtherRunsGoOn`, `RunSettles` |
| `provision` | 3 calls, 4 systems asked for, 2 fault sets, 8 sets of claims | 55 thousand | `FreshOnSuccess`, `JobKeepsNode`, `NothingLeftRunning`, `StoppedIsReleased`, `Recovers` |
| `job` | 35 jobs on 2 nodes, at most one failing command each | 1.4 million | `EvidenceKept`, `TroubleShows`, `CleanAfterPass`, `KernelWanted`, `SameBuild`, `CleanRunPasses`, absence of deadlock |
| `making` | 14 suites of up to 11 fragments with the arguments that matter | 138 thousand | `CombinationsOnce`, `GoodPieces`, `NewestConsistent`, `RerunSelects`, `RunIsFramed` |
| `tasks_untold` | 2 tasks, `run_tasks` | | violates `ToldOfFailure` |
| `making_facets` | a list of two products in four pieces | | violates `EveryFacet` |

All are exhaustive for their instance. Each property of a passing run has a
mutant: a definition next to the one it replaces, a plausible bug in that code
that makes TLC find the property violated under the same configuration.
The properties are stated, with the lines they come from, at the end of each
composed module.

In `job` deadlock is checked and every step uses something up, a command,
a task, a reboot, a fault, so that a job with no state without a step comes to
its end: no task waits for ever, also at the barrier of pexec and for a host
that reboots.

The type invariants (`TypeOK` of `JobLifecycle`, `SuiteRun` and `Provision`) are
no property of a run, to leave room for others; TLC finds them to hold when they
are added to the configuration.
`JobLifecycle`'s type invariant is proved, and `ScheduleSuite`'s,
the `TypeInv` of its proofs (section 6).

## 4. Faults and bounds

A model has a constant `Faults`, the failures its environment may produce; with
none of them it is the code on a good day. (`JobTasks` counts them instead:
any command may fail.) The faults of the lifecycle are
listed in `Paddles` (`FaultKinds`). Not every property survives every fault, and
where one does not, that is a fact about the code: section 7 lists which fault
breaks which property. The other faults a run leaves out are left to another run
to keep it small, and to the theorems of section 6: those about ownership allow
all but five.

| Bound | Value | Why it is enough |
|---|---|---|
| `Jobs`, `Nodes` | 2, 2 | the properties speak of one node and at most two jobs: the one that works on it and the one that interferes (with the faults of these runs the theorems of section 6 say it of any number of jobs; with linger a third job matters, section 7); with two nodes reimaging or unlocking one fails while the other's goes on, one is given back and taken by the other job, one is locked and one in reserve, or a job waits for the second |
| `MaxRestarts` | 1 in `lc_all_faults` | a second restart finds nothing a first one does not: job_procs is empty either way. The runs without the fault crash have none; that ownership survives restarts is a theorem |
| `MaxLoopExits` | 2 | one that is survived, one that is not |
| teuthology-kill | once per job | a second one meets a job that is over, or the same windows |
| `Tries` (`RepoCache`) | 2 | one retry and the end of them; the code's 6 differ in number only |
| `MaxRev` | 1 | the revision asked for and a newer one |
| `Count` (`SuiteRun`) | 2 | a job that has ended while another is queued |
| kill_run | once, after scheduling is done | it is the first kill that finds a run in any state; one during scheduling leaves what is scheduled later, which is not claimed to be killed |
| `MaxCalls` (`Provision`) | 3 | a call whose leftovers a second one meets, and a third one without faults that has to recover from both |
| suites (`making`) | directories three deep, up to 36 jobs | every kind of directory under a product, a list and a concatenation; sizes with and without common factors |
| `Tip`, `MaxRerun`, `Few`, `Many` | 3, 4, 2, 4 | as many commits as `--newest` may go back; the other way round the numbers of jobs would have to be 25 and 100 |
| nodes (`job`) | 2 | one that fails and one that must not suffer from it; two distributions in one job |
| `J.faults` | 0 or 1 command | one failure finds what is skipped after it; a command that fails on both nodes counts as one, a lost connection stays lost |
| `J.trouble` | one event | each of core, denial, bug alone, on either node, at any moment while the job's own tasks run |
| `Builds` | 2 | the build a branch was at, and the one it moves to |
| `Draw` | `(seed + i) % n` | reaches every choice with the seeds used; nothing is claimed of its distribution |

Symmetry: in `lc_ownership` the nodes are interchangeable. It is not used with liveness.


## 5. Fairness

Liveness needs the assumption that processes run. None is assumed for faults,
for people (teuthology-kill, whoever pushes to a branch, the next call) or for
steps that the code itself does not repeat.

- `JobLifecycle`: weak fairness of the dispatcher's own steps, of each
  supervisor (with its kill_job and its unlocking greenlets) and of each job
  process: they are Unix processes that the kernel schedules, and all their
  waiting is a loop of poll and sleep. That a job process ends, by itself or by the watchdog,
  is part of it: max_job_time ends those that do not.
- `Parallel`: weak fairness of each function and callback (the hub runs what is
  runnable) and of the owner; strong fairness of "some spawn", since a body that
  blocks between spawns does so finitely often.
- `RepoCache`: weak fairness of each process, and strong fairness of getting
  a lock, because Linux wakes the waiters of `lockf` in the order they came.
- `SuiteRun`: weak fairness of scheduling, of each job's next step and of a
  kill_run that has begun. Polling (`results`, `--wait`) is not needed.
- `Provision`: weak fairness of the call and of the server.
- `JobTasks`: none. That its behaviours end is the absence of deadlock (section 3).


## 6. Proofs

`tlapm` checks them to the last leaf; no statement is assumed but the named
ASSUMEs of the constants, which TLC evaluates in every run.

**`Parallel_proofs`** (any finite set of functions). `ForkJoinSafety`: a block
whose body does not block between spawns returns only when all functions have
ended and none has raised. `Implements`: every block implements `ForkJoin`.
Neither statement is inductive. `IInv` adds why it is so: `count` is the number of functions whose
callback is still to come (`CountInv`), so it reaches 0 once, after the body, and
StopIteration is the last thing in the queue (`StopInv`); every exception that
was delivered is in the queue until it has been raised (`ErrorInv`), and none is
there without a cause (`CauseInv`). A body that blocks breaks `CountInv`'s
consequence, not `CountInv`: count may reach 0 early. For it only `BInv` holds,
and its way out is hidden from the abstraction.

**`JobLifecycle_proofs`, starting** (any jobs, nodes, needs, owners; every fault).
`TypeCorrect`: `TypeOK` and the turn invariant `TurnInv`: the dispatcher has a
job exactly while it is in a turn, that job is buried or deleted as soon as the
turn has passed `bury`, and the LoopExit count stays below its limit while it
goes on. TypeOK alone is not inductive: `djob` has to be a job where it is used,
and `loop_exit_count` has to be below the limit to be increased.
`StartedOnceHolds`: a job that has a supervisor is out of the queue for good.
The argument is that only `popen` makes a supervisor, in a turn whose job is
buried (`TurnInv`), and only a stopped dispatcher's reserved jobs go back to
ready; a killed or exited supervisor never becomes "none" again
(`SupervisorStartsNothing`, `KillStartsNothing`).

**`JobLifecycle_proofs`, owning** (any jobs, nodes, needs, owners; any faults but kill,
retry, streak, linger and straggle, the assumption `Benign`; under each of these TLC finds
one of the two invariants violated, section 7; a silent lock server, crashes, the
watchdog and people are allowed). `HoldsTargetsHolds` and
`NoForeignUnlockHolds`: a job that is worked on holds its targets, and an unlock
that is under way goes to a node of its own job. `OwnershipImplemented`: hence the
processes implement `NodeOwnership`. None of these is inductive. `OwnInv` has

- per job (`JobInv`): it owns its targets from its start to the unlocking of the
  watchdog, or as long as its process runs, and what unlock_targets has listed
  stays its own (`HeldInv`); a node's reimaging goes on only while
  reimage_machines waits for it (`ImagingInv`, which is what straggle breaks); the process lives exactly between `spawn` and the
  watchdog's end, so who unlocks knows it is gone (`ChildInv`); only the watchdog
  runs kill_job, and only its second call unlocks (`KillInv`); nodes that are
  about to be described are down and free, so that nobody locks them and loses
  its description (`FailInv`); paddles never has more targets on record than were
  locked, which is what kill_job unlocks (`RecordInv`);
- of the dispatcher (`TurnOwns`): the job of a turn has no supervisor until
  `popen` and holds its targets from `lock_many` on;
- per caller of unlock_safe (`CallerInv`): its greenlets run only where the code
  waits for them, and for nodes its job has;
- of the nodes (`DescInv`): a locked node is described by its job, so that the
  test of unlock_targets, description and not owner, is the right one.

A step of one job leaves the parts of the other jobs alone because nodes only go
from free to the job or back (`OthersKept`, `CallersKept`); what is left is one
lemma per group of actions (`ReportOwns` to `LockOwns`).

**`JobLifecycle_proofs`, outcomes** (any jobs, nodes, needs, owners): what is left of a job when
it is over. Each theorem leaves out every fault that alone violates its property
with two jobs and two nodes, and those under which ownership itself is lost (`Benign`):

| Theorem | Leaves out | TLC violates it with each of | Inductive invariant |
|---|---|---|---|
| `DescriptionKeptHolds` | kill, retry, streak, linger, straggle (`Benign`) | streak | `OwnInv` |
| `MarkedDownHolds` | and timeout (`Quiet`) | kill, retry, streak, timeout | and `WatchInv` |
| `UnlocksAfterExecutionHolds` | and report, server (`Told`) | kill, streak, timeout, report, server | and `GoneInv` |
| `StaleLocksFoundHolds` | and push, write, crash (`Recorded`) | kill, streak, timeout, report, server, push, write, crash | and `TurnLeft`, `LeftInv` |
| `ExecutedFoundHolds` | push, report beside `Quiet` (`Stored`) | kill, streak, timeout (with die), report | `OwnInv`, `WatchInv`, `ExecutedInv` |

`WatchInv`: when no watchdog has to kill a job, kill_job is not called, so the
targets are the job's until unlock_targets has listed them.
`GoneInv`: what a greenlet of unlock_safe has read of a node of its job is still the
node's description, so no unlock is refused, and none fails (`SeenInv`); a job with a supervisor has
no nodes but its targets (`TargetInv`); and what unlock_targets has not listed is
not the job's any more (`ListInv`). `LeftInv`: who ends with nodes has written a status
that find_stale_locks looks for; for a job that never got a supervisor it is
the dispatcher who has (`TurnLeft`).

`UnlocksAfterExecution` and `StaleLocksFound` fail when the lock server does not answer in
`unlock_targets`. What is left then is `ExecutedFound`: the supervisor of a job that was executed has reported it
before it turns to the nodes (`ExecutedInv`), so that whichever request is out of
tries, what stays locked is listed by find_stale_locks. It is otherwise for a job that
failed to reimage, which is reported after the unlocking (section 7).

**`TaskRunner_proofs`** (any number of tasks, each runner, any faults).
`PassIsEarnedHolds`, `FailureShowsHolds`. The properties speak of the end, so
`IInv` says what holds on the way: a run without failures has left no trace in the
summary or in an exception (`QuietInv`); what went wrong in run_tasks is in the
summary, or has ended it, and the managers are told of nothing that is not in the
summary (`SummaryInv`); managers stay on the stack only because of an exception
(`AbandonInv`); and the runners without a summary hold the exception, nested in
`exc` while it unwinds (`HeldInv`). `ManagersStacked`: they all implement
`ManagerStack`, step by step and without an invariant.

**`RepoCache_proofs`** (any processes, branches, commits, tries; every fault).
`RightRevisionHolds`, `CommitStableHolds`. `IInv` has, per process, which locks it
holds where (`LockInv`), that FETCH_HEAD is its own from the fetch to the end of
the checkout, and its worktree right from then on (`FetchInv`), and that whoever
is about to remove the worktree of a commit, or to bootstrap it, has found the
commit missing in the bare clone or the worktree not bootstrapped, neither of
which is true of one that is used (`CommitInv`); and that a sentinel which counts
is that of a bootstrap that ended (`VenvInv`). `Others` is what a step of one process
leaves alone; with it each step is looked at for the process that takes it
(`StepKeeps`), and `CommitStable` is a part of it. `RefsAssumption` keeps
the model's own "none" (an empty FETCH_HEAD) from being the name of a branch.

**`SuiteRun_proofs`** (a suite of any size, every fault). `HoldsNodesHolds`: a job
that works, or is about to, has no final status until kill_run comes to report
one (`LockInv`), which is after it has unlocked; that is why a list that was read
long before does no harm. `ResultsCompleteHolds`, `WaitTellsFailureHolds`: whoever
looks at the results does so when all jobs were scheduled (`ScheduledInv`); then
each has a record, and a final status is that of a job that is over
(`RecordInv`). That a job is reserved once, and has no process before it is started,
is `StageInv`, from `QueueInv`: what is still to be put is not in the queue.

**`Provision_proofs`** (any number of calls, any images; every fault, also the
combinations the run leaves out). `NothingLeftRunningHolds`: FOG.create knows its
task from `pick_task` on, unless it missed an answer, and turns to the node only
when that task is gone (`FogInv`). `StoppedIsReleasedHolds`: MAAS has a deployment only
while the status is "deploying", one at a time; only a deployed machine is
locked; and between the step that reads the status and the one that acts on it,
the server can only end what is under way (`MaasInv`).

`FreshOnSuccessHolds`, `JobKeepsNodeHolds`: a call that succeeds has installed the
node itself, and nothing that is left will be written over it. Here the fault power must not come
together with late or unparsable (`PowerSeen`; with one of them TLC finds both violated,
section 7). `DiskInv` adds to the above what is on the disk, for each provisioner
its own way. FOG has two arguments. When a console command may fail unseen, the node may
run its old system all the time, so each task on the server has to be known: the
ones found are cancelled by their ids, and the call's own is waited for. When
none fails, tasks may be unknown, but the node is off before it boots, and it
runs a system again only when no task is left (`FogDiskInv`). MAAS goes on only when the
status is "deployed", which its own deployment alone can have made it
(`MaasDiskInv`). Pelagos returns a task's end only after the task has written
(`PelagosDiskInv`), unless an earlier call's task is still under way, `abandoned`.

**`ScheduleSuite_proofs`** (any suite, arguments, history and builds, and whatever
jobs the suite is made into, as long as they are sets of fragments: `JobsAssumption`,
which TLC evaluates for `build_matrix`).

- `ShapeAlways`: the types, with `OriginInv`: the subset and the seed after
  `main` are those the run was made with. A rerun has them from its first job, so
  the records have to agree, and none may have the negative seed for which another
  would be drawn.
- `RunIsFramedHolds`: `QueueInv` says at each step how much of the memo, the jobs and
  the last job is in the queue (`Framed`); `schedule_jobs` goes by their number, so that number
  has to be how many jobs have been put there (`ScheduledCounts`).
- `NewestConsistentHolds`: the loop's invariant is `NewestInv`: the commit is as
  many steps back as `backtrack` says and the candidates are its ancestors in order (`AtCommit`);
  every newer commit lacks a package of a job that is wanted, and which jobs are wanted does
  not change, as `collect_jobs` leaves everything but the commit of a configuration alone (`CollectedIs`).
- `RerunSelectsHolds`: for reruns without filters, a limit or excluded keywords of their
  own, and names of which none is the start of another (`PlainReruns`; otherwise it is not so,
  section 7). `KeptInv`: what paddles has of the run is
  in the jobs that are made from the same subset and seed, and no postmerge script rejects
  it. `RerunInv`: hence the filters, which are descriptions, find each job they are for.

`Select` is a recursive function, of which nothing can be proved by the library's induction (it
takes an operator); `LeastNat`, that a set of numbers has a least one, takes its place:
`SelectsExists` is that there is such a function, `SelectsParts` what it has at each place.

**`JobTasks_proofs`** (any finite set of nodes, any job, any number of failing commands, lost
connections, reboots and core dumps).

- `EvidenceKeptHolds`. Two facts make it so. No task but
archive's exit takes evidence from a node: `EnterGentle` and `ExitGentle` say so of every task, by lemmas that
go through their functions one by one (`FramingTasks` to `KeyAndHadoopTasks`). And archive's exit is carried out
in its order: `Archiving` is the part p of it that comes before the removal, and says that each
node's evidence is in the archive or p has still to fetch it (`Has`), unless none is wanted. A
failure in p ends the exit, so the removal is reached only through all of p; the mutant with a `finally`
breaks exactly this. The rest of `IInv` keeps others from interfering: the job's own tasks are over
by then (`TasksFramed`, also when `buildpackages_prep` has moved a task), what may still
run are greenlets of `parallel()`, which leave evidence alone (`GreenletsMute`), and a job that
has passed so far, whose logs are not fetched with archive-on-error, has left none of them behind and
is told of no exception (`Told`), so its status stays what archive's exit has read.
- `TroubleShowsHolds`. A log that could not be read is taken for one without anything in it, both for
denials (`check_status=False`) and for bugs of the kernel (a pipeline, whose status is `head`'s): that is
`missed`, and so are cores that `file` says are systemd-sysusers'. For the rest there is
`Seen`: as long as the job may pass, what has gone wrong shows on a node that the task which finds it will look at (`Watched`): this task was entered and is not
exited yet, or its exit still has the command that looks (`Look`) ahead of it, which then
raises or makes the job fail (`LookShows`). The signs stay because no task drops any of them, but
selinux's entering the denials there are before, and coredump's exit the directory of a node
without a core (`Lenient`, `Careful`); because archive removes them only after these tasks are exited, whose
places come after its own (`Framed`); and the directory for the cores is there, and
core_pattern says so, from coredump's entering to its exit, since a reboot reads
the line in sysctl.conf (`Dumps`). The mutant that only sets core_pattern breaks this.
- `KernelWantedHolds`. A kernel is booted by the greenlets of one task, and must be running still
while later ones are entered, as long as none of them asks for the distribution's newest
kernel (`kernel.install_latest_rh_kernel`, which may boot another). `Forms` are the programs the tasks `kernel` and
`kernel.install_latest_rh_kernel` can be made of, for each kind of kernel, distribution and boot
loader (`KernelForms`): each greenlet raises, or looks whether its host runs the kernel already (`Guards`), or
reboots it and waits for it (`Reboots`, `Waiting`), and no command of it puts "rebooting" on another host
(`Steady`). `Site` says where such a greenlet is from the marks of its host: before the reboot the host is up,
after it the greenlet waits, and is done only when the host has come back with the kernel. So when all
greenlets of `kernel` have been joined every host is up and runs what it should (`SiteDone`, `Settled`), and then stays
so (`BootedRun`), for three reasons. The other tasks start no reboot (`EnterCalm`). A second task
`kernel`, which no job has, would find the kernel running and reboot nothing (`Course`, with `Booted`, the hosts
that were booted before). And a greenlet whose
block was left, which may reboot its host at any time, is there only when the task
has raised, so that no task is entered any more. The mutant that waits for any answer breaks `Site`.

Programs nest: a command has a handler, a branch two programs, a parallel command one for
each node. Since there is no induction over such data, `Spares` says "all commands of a program are
like this" with a set of commands that is closed under going into and on (`Closed`): `Mute` programs
neither put evidence nor drop any trace of what went wrong, `Gentle` ones may put it, and drop what their
task may (`Tame`: none). That sequences of programs, `Try`, `Quiet` and loops preserve
both is a lemma each; `RestSpares` is that carrying out a command does. `FlattensExists` and
`FlattenHas` give the loops over nodes their meaning.

It assumes of the constants that the nodes are finitely many and do not include the machine of
the job (`NodesAssumption`), and of a job that its records have the shape the tasks read, and that
its own tasks do not name `archive`, `coredump`, `syslog` or `selinux`, which only
`get_initial_tasks` adds (no suite or document of the repository does), nor `kernel`, which
`validate_tasks` refuses (run/\_\_init\_\_.py:145-165; `JobsAssumption`). A second selinux, for
one, would forget the denials that there were before it. None of its nodes is about to reboot when the
job starts: the supervisor has reimaged the nodes and waited for them, but those that are not
reimaged, which are taken to be up. (One that goes down for an earlier job's sake, after `kernel` has
seen that it runs the kernel, would not be noticed.)

Model-checked only: liveness (out of the prover's reach); `CombinationsOnce` and `GoodPieces`, as
the operators of `Matrix` are recursive over trees; and of `JobTasks` `CleanAfterPass` and `CleanRunPasses`,
which depend on what each command of each task puts and takes away, and `SameBuild`, which is not
true of every job (section 9).


## 7. What the models showed about the code

Two findings are runs of their own (`findings` in `PROJECT.json`):

- `run_tasks.py:142` takes `sys.exc_info()` after the except clause has cleared
  it: managers are exited as if no task had failed, against the comment of
  172-173 (run `tasks_untold`).
- `--subset` of a list: a piece need not contain every facet, against
  `scripts/suite.py:128-130` and `build_matrix.py:16-21` (run `making_facets`:
  `product[3]` and `product[3,1,3]` in four pieces, piece 3/4 lacks a facet).

The others were found by adding a fault to a configuration. Each is a hazard in
`PROJECT.json`, with the line where it bites:

| Add | to | and TLC violates | because |
|---|---|---|---|
| retry | lc_ownership, lc_outcomes | `NoForeignUnlock`, `HoldsTargets`, `MarkedDownWhileLocked` | an unlock that was applied is sent again after the next job has the node |
| straggle | lc_ownership | `HoldsTargets` | parallel() re-raises the first failure while other nodes are still reimaged (parallel.py:84), and unlock_targets gives those away meanwhile (supervisor.py:336) |
| server | lc_outcomes | `StaleLocksFound`, `UnlocksAfterExecution`, `EveryJobEnds`, `NodesReturned` | a query or an unlock that is out of tries ends the supervisor in unlock_targets; after a failed reimage the job has not been reported dead by then (supervisor.py:336-338) |
| streak, or person | lc_outcomes, with two scheduled jobs of one node and `ReserveKept` | that property | machines are counted in one request and locked in another (ops.py:413-414); meanwhile one is marked down, or taken with teuthology-lock |
| linger | lc_ownership | `NoForeignUnlock` | the watchdog fires again while the killed process takes its time, and unlocks nodes of another job that is reported to have ended |
| linger, with three jobs | lc_ownership | `HoldsTargets` | as above, but the node was unlocked and locked for a third job before the PUT arrives: two jobs are too few to see it |
| kill | lc_ownership | `HoldsTargets`, `NoForeignUnlock` | teuthology-kill finds no process of a job that is being locked |
| streak | lc_ownership, lc_outcomes | `HoldsTargets`, `DescriptionKept` | marking down after ten failed reimages overwrites the description of the next job's lock |
| timeout, with ansible | lc_outcomes | `MarkedDownWhileLocked` | the watchdog unlocks before the ansible log is looked at |
| push, or crash | lc_outcomes | `StaleLocksFound` | the status that ends the job is lost, or the dispatcher stops between locking and starting it: paddles has it as waiting or running |
| write | lc_outcomes | `StaleLocksFound` | the main loop goes on after orig.config.yaml could not be written: locked nodes of a job that stays 'running' |
| report | lc_outcomes | `StaleLocksFound`, `UnlocksAfterExecution` | MaxWhileTries ends the supervisor before it unlocks |
| timeout | lc_outcomes | `UnlocksAfterExecution`, `StaleLocksFound` | the watchdog kills the pid paddles has, which is the supervisor's own as long as the job process has not reported another; `ExecutedFound` too fails with timeout and die together |
| late | suite | `RunSettles` | 'queued' is reported over a final status |
| survive | suite | `RunSettles` | kill_run returns before it reports anything |
| kill | suite, with `KilledRunLeavesQueue` | that property | kill.py:129 stops one job short of the end of the queue |
| power, with late or unparsable | provision | `FreshOnSuccess`, `JobKeepsNode` | power_off swallows exceptions, and a task without an id counts as ended |

`push` and `crash` added to lc_ownership's faults make it too large to finish; the theorems
about ownership allow both. `lc_all_faults` has all the faults but person at once.

Of `ScheduleSuite`: `RerunSelects` needs its antecedents. A run made with
`--no-nested-subset` is rerun without it, because no record has it; a rerun that
finds no job with the statuses schedules the whole suite; and one job's
description that is the beginning of another's selects both (`NamedLike`).
`generate` raises for a product of two files and a nested half of four jobs
(`Subset.index`, matrix.py:97). A run that is refused for its packages leaves
the memo and the jobs before in the queue; one that is refused for its priority
or size leaves the memo. When a size is not divisible by the number of pieces,
the rest is in no piece. `job_threshold` counts the jobs without `--num`.

Of `Parallel`: `WaitsForAll`, the docstring of the class, fails for a body that
blocks between spawns, as `reimage_machines` does; `KillsTheRest`, what the same docstring
says of an exception (parallel.py:58-60), fails for every body. Of `Provision`: a Pelagos call
that begins while an earlier task is under way may be overwritten by it; the
properties leave such calls out (`abandoned`).


Of `JobTasks`, found by its properties and kept out of them by name:

- `--archive-on-error`: a job that has passed when archive is exited loses its
  logs, also if base or another exit fails after it (`EvidenceKept`).
- Without an archive syslog is not entered, and a bug of the kernel is not
  noticed (`TroubleShows`).
- `install.upgrade` asks the server again for each node: a branch that moves in
  the middle leaves two builds, each verified (`SameBuild`).
- What cannot pass at all (`Sound`): `pcp` with fetch_archives, whose archive keeps base's
  `rmdir` from removing the test directory; a redhat job without base-repo-url, as
  `setup_base_repo` yields twice (internal/redhat.py:170-177); one with
  install_latest_rh_kernel, whose dict is passed to `extend` (run/\_\_init\_\_.py:258), so that
  its key is taken for a task; `cephmetrics`, which adds a list and a `map`
  (cephmetrics.py:61); `buildpackages`, whose `types.ListType` Python 3
  does not have (buildpackages.py:85).
- An exit's lost connection makes the job 'dead', and archive, which is told of it,
  sets it to 'fail' (internal/\_\_init\_\_.py:394).
- archive's removal is not in a `finally`: when one node's files cannot be
  transferred, all nodes keep theirs. That is what makes `EvidenceKept` hold.


## 8. What is not modelled, and why

- *External*: paddles, beanstalk, gevent's hub, git and the kernel's locks, the
  FOG, MAAS and Pelagos servers, shaman, the nodes. They are modelled as far
  as `src/` uses them, in definitions that say so.
- *Data*: names, paths, yaml, log and mail texts are model values or sets.
  `safe_while` is its outcome, success or too many tries (the faults "server" and
  "report"); times are the fault "timeout".
- *Of locking*: teuthology-lock locks and unlocks free nodes only (`person`); its --update,
  --lock-many and the unlocking of a job's nodes by hand are missing. A greenlet of
  reimage_machines that raises is the last of them unless there is the fault "straggle".
- *interactive-on-error*, sentry, the metrics exporter and log handling change
  nothing that the properties speak of.
- *Inside `job`*: proc_thrasher, interactive, timer, sleep and print; what a
  playbook, a script or a test program does; `setup_cdn_repo`, which calls the suite's own
  code; jobs without roles; the virtual machines that vm_setup prepares are nodes like
  others.
- *Not yet*: the greenlets of a remote process, daemons, consoles, clouds and
  virtual machines, signal handlers, the rest of the lock command line (section 9). *Not
  planned*: command line parsing, ls, scrape, describe.


## 9. The plan

Done, in this order, the most important behaviour first: `Parallel`; the life of
a job (`Paddles` to `JobLifecycle`); `TaskRunner`; `RepoCache`; `SuiteRun`;
`Provision`; `Matrix` and `ScheduleSuite`; the first theorems, of `Parallel` and the
life of a job; `Commands` to `JobTasks`; the theorems of `TaskRunner`,
`RepoCache`, `SuiteRun`, `Provision` and the outcomes of `JobLifecycle`, of what is on the
disk in `Provision`, of `ScheduleSuite`, and in `JobTasks` of the archive, of what has gone wrong and of the
kernel that was booted.

Next modules:

| Module | Code | Properties, and the hazards they are for |
|---|---|---|
| `RemoteProcess` | orchestra/run.py, remote.py, connection.py | wait() and its greenlets: output is complete when wait returns; a lost connection is told from a failed command; reconnect gives up |
| `Daemon` | orchestra/daemon/ | restart, stop, signal and a watcher at once: at most one process, a stop that is not undone by a restart |
| `Console` | orchestra/console.py | power_cycle and check_power with their retries; composed with `Provision` in place of its `power` fault |
| `LockCommand` | lock/cli.py | --lock-many, --update and the unlocking of a job's nodes by hand beside the dispatcher, added to `JobLifecycle` |
| `Exit` | exit.py | handlers registered, run and removed while a signal arrives |
| `CloudNode` | provision/openstack.py, cloud/ | create with retries, destroy on failure: no node is left over |
| algorithms | misc.py deep_merge and roles, suite/util.py, prune.py | against reference definitions over bounded inputs |

Each component is one run with its two to four best properties.

Next theorems:

1. `JobLifecycle`: `UnlocksAfterExecution`, `StaleLocksFound` and `DescriptionKept`
   with retry, under which TLC finds no violation, also with three jobs that
   compete for one node. Ownership is lost there, so it takes an invariant of its own.
2. `JobTasks`: `SameBuild` for any nodes and the jobs it holds for. It needs every node to ask for the same reference; the
   task `install` once in the job, as a second one replaces the packages of a node after the other; and nodes
   that do not have, or prefer, a newer build than the server has: one that a node has
   anyhow (on SUSE, from another repository) may become the newest of the branch between the verification of
   two nodes. Then `CleanAfterPass`, task by task.
