------------------------------ MODULE JobTasks ------------------------------
(***************************************************************************)
(* The tasks of a job on its nodes: run_tasks enters them in the order of  *)
(* get_initial_tasks and of the job's configuration, and exits them in the *)
(* reverse order.  What each one does is in the modules of the tasks; here *)
(* their commands are carried out, one by one, on nodes that may fail,     *)
(* reboot and dump cores.  How the stack of managers is unwound in general *)
(* is module TaskRunner.                                                   *)
(*   J.marks    what is on each machine before the job                     *)
(*   J.trouble  what may go wrong on a node while the job's own tasks run  *)
(*   J.faults   how many commands may fail                                 *)
(***************************************************************************)
EXTENDS InternalTasks, InstallTask, KernelTask, OtherTasks

CONSTANT Jobs   \* the jobs this run looks at

\* Nobody but run() itself puts the tasks that keep and find evidence in a job,
\* and the kernel (validate_tasks).  No node is about to reboot when the job starts.
ASSUME JobsAssumption ==
  \A J \in Jobs :
    /\ {J.virtual, J.container, J.clients} \subseteq SUBSET Nodes
    /\ J.os \in [Nodes -> {"rhel", "centos", "suse", "ubuntu"}]
    /\ J.kernels \in [Nodes -> SUBSET VersionKinds]
    /\ J.tasks \in Seq(STRING \ {"archive", "coredump", "syslog", "selinux", "kernel"})
    /\ J.trouble \subseteq {"core", "sysusers_core", "denial", "kernel_bug"}
    /\ \A n \in Nodes : "rebooting" \notin J.marks[n]

VARIABLES
  job,
  at,       \* the place of the task that is entered or exited
  phase,    \* "enter", "exit", "unwind" when a manager's exit has raised, or "over"
  main,     \* the program of the task, and the exception that is under way
  joining,  \* whether it waits for the greenlets of a `with parallel()`
  side,     \* these greenlets
  strays,   \* greenlets whose block was left
  on,       \* the marks on each machine
  kept,     \* what was transferred from each node to the archive
  status,   \* ctx.summary's
  lost,     \* nodes that no connection can be made to any more
  faults,   \* history: the commands that have failed
  missed,   \* history: what a search did not see in a log that it could not read
  trouble   \* history: what has gone wrong on a node while the job's own tasks ran

vars == <<job, at, phase, main, joining, side, strays, on, kept, status, lost, faults, missed, trouble>>

-----------------------------------------------------------------------------
(* The tasks                                                               *)

\* run/__init__.py: what comes before the tasks of the configuration, of a job that has roles.
get_initial_tasks(J) ==
  LET rh == "redhat" \in J.has IN
  When(~rh /\ {"repos", "no_verify_ceph_hash"} \cap J.has = {}, <<"check_packages", "buildpackages_prep">>)
  \o When("lock" \in J.has, <<"lock_machines">>)
  \o <<"save_config", "check_lock", "add_remotes", "console_log", "connect", "push_inventory",
       "serialize_remote_roles", "check_conflict">>
  \o When("use_existing_cluster" \notin J.has, <<"check_ceph_data", "vm_setup">>)
  \o When(~rh /\ "kernel" \in J.has, <<"kernel">>)
  \o <<"base", "archive_upload", "archive", "coredump", "sudo", "syslog", "timer", "pcp", "selinux">>
  \o When(rh, <<"setup_stage_cdn">>)
  \o When("ceph_cm_ansible" \in J.has, <<"ansible.cephlab">>)
  \o <<IF "clock.check" \in J.has THEN "clock.check" ELSE "clock">>
  \o When(rh, <<"git_ignore_ssl", "setup_cdn_repo", "setup_base_repo", "setup_additional_repo",
                "setup_container_registry", "install">>)
  \o When(rh /\ "install_latest_rh_kernel" \in J.has, <<"kernel.install_latest_rh_kernel">>)

\* buildpackages_prep changes the list that is being run, ahead of itself.
Tasks(J) == buildpackages_prep(get_initial_tasks(J) \o J.tasks)

\* `init_tasks.extend({...})` adds the name of the task, which run_tasks refuses.
Enter(J, t) ==
  CASE t = "check_packages" -> check_packages(J)
    [] t = "lock_machines" -> lock_machines_enter(J)
    [] t = "save_config" -> save_config(J)
    [] t = "check_lock" -> check_lock(J)
    [] t = "add_remotes" -> add_remotes(J)
    [] t = "console_log" -> console_log_enter(J)
    [] t = "connect" -> connect(J)
    [] t = "push_inventory" -> push_inventory(J)
    [] t = "serialize_remote_roles" -> serialize_remote_roles(J)
    [] t = "check_conflict" -> check_conflict(J)
    [] t = "check_ceph_data" -> check_ceph_data(J)
    [] t = "vm_setup" -> vm_setup(J)
    [] t = "kernel" -> kernel_enter(J)
    [] t = "base" -> base_enter(J)
    [] t = "archive" -> archive_enter(J)
    [] t = "coredump" -> coredump_enter(J)
    [] t = "sudo" -> sudo_enter(J)
    [] t = "syslog" -> syslog_enter(J)
    [] t = "pcp" -> pcp_setup(J)
    [] t = "selinux" -> selinux_setup(J)
    [] t = "setup_stage_cdn" -> setup_stage_cdn_enter(J)
    [] t = "ansible.cephlab" -> cephlab_enter(J)
    [] t = "ansible" -> ansible_enter(J)
    [] t = "clock" -> clock_enter(J)
    [] t = "clock.check" -> clock_check_enter(J)
    [] t = "git_ignore_ssl" -> git_ignore_ssl_enter(J)
    [] t = "setup_base_repo" -> setup_base_repo_enter(J)
    [] t = "setup_additional_repo" -> setup_additional_repo_enter(J)
    [] t = "setup_container_registry" -> setup_container_registry_enter(J)
    [] t = "install" -> install_task_enter(J)
    [] t = "install.upgrade" -> upgrade_common(J)
    [] t = "kernel.install_latest_rh_kernel" ->
         IF "redhat" \in J.has THEN Raise ELSE install_latest_rh_kernel(J)
    [] t = "buildpackages" -> buildpackages(J)
    [] t = "exec" -> exec(J)
    [] t = "pexec" -> pexec(J)
    [] t = "background_exec" -> background_exec_enter(J)
    [] t = "mpi" -> mpi(J)
    [] t = "localdir" -> localdir_enter(J)
    [] t = "nfs" -> nfs_enter(J)
    [] t = "knfsd" -> knfsd_enter(J)
    [] t = "iscsi" -> start_iscsi_initiators_enter(J)
    [] t = "ssh_keys" -> ssh_keys_enter(J)
    [] t = "lockfile" -> lockfile(J)
    [] t = "hadoop" -> hadoop_enter(J)
    [] t = "ceph_ansible" -> ceph_ansible_enter(J)
    [] t = "cephmetrics" -> cephmetrics_enter(J)
    [] OTHER -> <<>>

Exit(J, t, s, told) ==
  CASE t = "lock_machines" -> lock_machines_exit(J)
    [] t = "console_log" -> console_log_exit(J)
    [] t = "base" -> base_exit(J)
    [] t = "archive_upload" -> archive_upload_exit(J)
    [] t = "archive" -> archive_exit(J, s, told)
    [] t = "coredump" -> coredump_exit(J)
    [] t = "sudo" -> sudo_exit(J)
    [] t = "syslog" -> syslog_exit(J)
    [] t = "timer" -> timer_exit(J)
    [] t = "pcp" -> pcp_end(J)
    [] t = "selinux" -> selinux_teardown(J)
    [] t = "setup_stage_cdn" -> setup_stage_cdn_exit(J)
    [] t = "ansible.cephlab" -> ansible_teardown(J, TRUE)
    [] t \in {"ansible", "cephmetrics"} -> ansible_teardown(J, FALSE)
    [] t = "clock" -> clock_exit(J)
    [] t = "setup_base_repo" -> setup_base_repo_exit(J, told)
    [] t = "install" -> install_task_exit(J)
    [] t = "background_exec" -> background_exec_exit(J)
    [] t = "localdir" -> localdir_exit(J)
    [] t = "nfs" -> nfs_exit(J)
    [] t = "knfsd" -> knfsd_exit(J)
    [] t = "iscsi" -> start_iscsi_initiators_exit(J)
    [] t = "ssh_keys" -> ssh_keys_exit(J)
    [] t = "hadoop" -> hadoop_exit(J)
    [] t = "ceph_ansible" -> ceph_ansible_teardown(J, s)
    [] OTHER -> <<>>

\* Tasks that are classes are exited when entering them has failed, too.
Classes == {"console_log", "pcp", "selinux", "ansible.cephlab", "ansible", "ceph_ansible", "cephmetrics"}

\* The tasks of the configuration, which the test is made of.
Own == at > Len(get_initial_tasks(job))
-----------------------------------------------------------------------------
(* One command                                                             *)

Greenlet(program) == [program |-> program, raised |-> "none"]
Idle == Greenlet(<<>>)
Over(g) == g.program = <<>>

Init ==
  /\ job \in Jobs
  /\ at = 1
  /\ phase = "enter"
  /\ main = Greenlet(Enter(job, Tasks(job)[1]))
  /\ joining = FALSE
  /\ side = [n \in Nodes |-> Idle]
  /\ strays = {}
  /\ on = [n \in Machines |-> job.marks[n]]
  /\ kept = [n \in Nodes |-> {}]
  /\ status = "pass"
  /\ lost = {}
  /\ faults = 0
  /\ missed = {}
  /\ trouble = {}

\* What may be missing for long and comes by itself.
Granted == {"package_lock_free", "repository_answers", "healthy"}

Rebooting == {n \in Machines : "rebooting" \in on[n]}

\* A wait is over when what is waited for is there and the nodes are up.
Waited(c) == c.how \in {"await", "wait"} => \A n \in c.on : c.puts \ Granted \subseteq on[n] /\ n \notin Rebooting
TimesOut(c) == c.how = "await" /\ ~Waited(c) /\ c.on \cap Rebooting = {}

\* Only what is done on a machine can fail; who waits tries again.
Fallible(c) == c.how \notin {"branch", "flag", "status", "raise", "wait", "await"}

\* The nodes c fails on, the ones among them whose connection is lost, and how
\* many faults that is: none if it is lost already, or if the node reboots.
\* A host that does not come back while it is waited for is one, and is lost.
Failures(c) ==
  LET gone == IF c.how = "wait" THEN {} ELSE c.on \cap lost
      rest == c.on \ gone
  IN  {[bad |-> gone \cup b, lost |-> gone, cost |-> 0] :
         b \in IF Fallible(c) THEN SUBSET (rest \cap Rebooting) ELSE {{}}}
      \cup {[bad |-> gone \cup b, lost |-> gone \cup b, cost |-> 1] :
               b \in IF c.how = "await" /\ faults < job.faults THEN {rest \cap Rebooting} \ {{}} ELSE {}}
      \cup IF ~Fallible(c) \/ faults = job.faults THEN {}
           ELSE UNION {{[bad |-> gone \cup b, lost |-> gone \cup l, cost |-> 1] : l \in {{}, b \cap Nodes}} :
                       b \in SUBSET rest \ {{}}}

\* What greenlet g may be when its next command is done, with what it has done.
\* ConnectionLostError is for who is connected: who cannot connect gets another.
Outcomes(g) ==
  LET c == g.program[1]
      Outcome(f, done) ==
        LET raised == Raises(c, on, f.bad) \/ (TimesOut(c) /\ ~c.quiet)
        IN  [g |-> [program |-> IF raised THEN Unwound(g.program) ELSE Rest(g.program, on),
                    raised  |-> IF ~raised THEN g.raised
                                ELSE IF f.lost \subseteq lost \/ c.how \in {"await", "search"} THEN "error"
                                ELSE "lost"],
             on   |-> Changed(c, on, done),
             done |-> done,
             status |-> CASE c.how = "status" -> c.as
                          [] c.how = "flag" /\ (\E n \in c.on \ f.bad : on[n] \cap c.puts # {}) -> "fail"
                          [] Found(c, on, f.bad) /\ c.as # "none" -> c.as
                          [] OTHER -> status,
             lost   |-> f.lost,
             missed |-> Missed(c, on, f.bad),
             faults |-> faults + f.cost]
  IN  IF c.how = "parallel" THEN {}
      ELSE UNION {{Outcome(f, done) : done \in cluster_run(c, f.bad)} :
                  f \in {f \in Failures(c) : Waited(c) \/ TimesOut(c) \/ f.bad # {}}}

Effects(c, o) ==
  /\ on' = o.on
  /\ kept' = [n \in Nodes |-> IF c.how = "pull" /\ n \in o.done THEN kept[n] \cup (on[n] \cap c.puts)
                              ELSE kept[n]]
  /\ status' = o.status
  /\ lost' = lost \cup o.lost
  /\ faults' = o.faults
  /\ missed' = missed \cup o.missed

-----------------------------------------------------------------------------
(* The task's own greenlet, and parallel()                                 *)

command ==
  /\ ~Over(main)
  /\ \E o \in Outcomes(main) : main' = o.g /\ Effects(main.program[1], o)
  /\ UNCHANGED <<job, at, phase, joining, side, strays, trouble>>

spawn ==
  /\ ~Over(main) /\ main.program[1].how = "parallel" /\ ~joining
  /\ side' = [n \in Nodes |-> Greenlet(main.program[1].yes[n])]
  /\ joining' = TRUE
  /\ UNCHANGED <<job, at, phase, main, strays, on, kept, status, lost, faults, missed, trouble>>

side_command(n) ==
  /\ ~Over(side[n])
  /\ \E o \in Outcomes(side[n]) :
       side' = [side EXCEPT ![n] = o.g] /\ Effects(side[n].program[1], o)
  /\ UNCHANGED <<job, at, phase, main, joining, strays, trouble>>

\* All are done; or one has raised, and the others go on as they like.
join ==
  /\ joining
  /\ \A n \in Nodes : Over(side[n]) /\ side[n].raised = "none"
  /\ main' = [main EXCEPT !.program = Tail(@)]
  /\ joining' = FALSE
  /\ UNCHANGED <<job, at, phase, side, strays, on, kept, status, lost, faults, missed, trouble>>

join_raises(n) ==
  /\ joining
  /\ Over(side[n]) /\ side[n].raised # "none"
  /\ main' = [program |-> Unwound(main.program), raised |-> side[n].raised]
  /\ joining' = FALSE
  /\ side' = [m \in Nodes |-> Idle]
  /\ strays' = strays \cup {side[m].program : m \in {m \in Nodes : ~Over(side[m])}}
  /\ UNCHANGED <<job, at, phase, on, kept, status, lost, faults, missed, trouble>>

\* Whether it raises, nobody asks.
stray_command ==
  /\ \E program \in strays :
       \E o \in Outcomes(Greenlet(program)) :
         /\ Effects(program[1], o)
         /\ strays' = (strays \ {program}) \cup ({o.g.program} \ {<<>>})
  /\ UNCHANGED <<job, at, phase, main, joining, side, trouble>>

-----------------------------------------------------------------------------
(* run_tasks                                                               *)

\* The task at place i is exited, with status s so far, and is told if an exit
\* has raised, not if a task has: exc_info is taken too late.  Or all are exited.
Exits(i, s, told) ==
  /\ at' = i
  /\ IF i = 0
     THEN phase' = "over" /\ main' = Idle /\ strays' = {}
     ELSE /\ phase' = IF told THEN "unwind" ELSE "exit"
          /\ main' = Greenlet(Exit(job, Tasks(job)[i], s, told))
          /\ UNCHANGED strays

entered ==
  /\ phase = "enter" /\ Over(main) /\ main.raised = "none"
  /\ IF at < Len(Tasks(job))
     THEN /\ at' = at + 1
          /\ main' = Greenlet(Enter(job, Tasks(job)[at + 1]))
          /\ UNCHANGED <<phase, strays>>
     ELSE Exits(at, status, FALSE)
  /\ UNCHANGED <<job, joining, side, on, kept, status, lost, faults, missed, trouble>>

\* The status 'dead' that a task has set is kept.
enter_raised ==
  /\ phase = "enter" /\ Over(main) /\ main.raised # "none"
  /\ LET s == IF main.raised = "lost" \/ status = "dead" THEN "dead" ELSE "fail"
     IN  /\ status' = s
         /\ Exits(IF Tasks(job)[at] \in Classes THEN at ELSE at - 1, s, FALSE)
  /\ UNCHANGED <<job, joining, side, on, kept, lost, faults, missed, trouble>>

exited ==
  /\ phase \in {"exit", "unwind"} /\ Over(main)
  /\ LET s == CASE main.raised = "none" -> status
                [] main.raised = "lost" -> "dead"
                [] OTHER -> "fail"
     IN  status' = s /\ Exits(at - 1, s, phase = "unwind" \/ main.raised # "none")
  /\ UNCHANGED <<job, joining, side, on, kept, lost, faults, missed, trouble>>

-----------------------------------------------------------------------------
(* The nodes, and the builders                                             *)

\* What does not survive a reboot.
Volatile == {"rebooting", "running_new", "core_pattern", "mounted", "background", "shell", "nfsd"}

\* sysctl.conf and SELinux's configuration are read again.
reboots(n) ==
  /\ n \in Rebooting
  /\ on' = [on EXCEPT ![n] = (@ \ Volatile)
              \cup (IF "sysctl_line" \in @ THEN {"core_pattern"} ELSE {})
              \cup (IF n \in selinux_hosts(job) THEN {"enforcing"} \cap job.marks[n] ELSE {})
              \cup (IF BootsNew(job, n, @) THEN {"running_new"} ELSE {})]
  /\ UNCHANGED <<job, at, phase, main, joining, side, strays, kept, status, lost, faults, missed, trouble>>

\* A newer build of what a branch is at is ready, while packages are installed.
new_build ==
  /\ phase = "enter" /\ Tasks(job)[at] \in {"install", "install.upgrade"}
  /\ "builds" \in job.has /\ Ready[2] \notin on[Here]
  /\ on' = [on EXCEPT ![Here] = @ \cup {Ready[2]}]
  /\ UNCHANGED <<job, at, phase, main, joining, side, strays, kept, status, lost, faults, missed, trouble>>

\* A process dumps core, SELinux denies something, the kernel has a bug.  The
\* core goes where the kernel's core_pattern says.
goes_wrong(n) ==
  /\ Own /\ phase # "over" /\ trouble = {}
  /\ \E what \in job.trouble :
       /\ n \in IF what = "denial" THEN selinux_hosts(job) ELSE Hosts(job)
       /\ trouble' = {what}
       /\ on' = [on EXCEPT ![n] = IF what \in {"core", "sysusers_core"} /\ "core_pattern" \notin @ THEN @
                                  ELSE @ \cup {what}]
  /\ UNCHANGED <<job, at, phase, main, joining, side, strays, kept, status, lost, faults, missed>>

\* Nothing is left to do.  Each step uses up a command, a greenlet, a task, a
\* reboot, a fault, so that there are no endless behaviours: a job whose every
\* state has a step ends.
over == phase = "over" /\ UNCHANGED vars

Next ==
  \/ command \/ spawn \/ join \/ entered \/ enter_raised \/ exited
  \/ \E n \in Nodes : side_command(n) \/ join_raises(n) \/ reboots(n) \/ goes_wrong(n)
  \/ stray_command
  \/ new_build
  \/ over

Spec == Init /\ [][Next]_vars

-----------------------------------------------------------------------------
\* Task t was entered and has not failed, nor has any other.
Entered(t) == phase = "enter" /\ \E i \in 1..(at - 1) : Tasks(job)[i] = t

(* internal/__init__.py, archive and selinux.py, archive_logs: what tells  *)
(* why a job failed, its cores and logs, is removed from a node only when  *)
(* it is in the archive, whichever command failed on the way; or it is not *)
(* wanted, as the job has no archive or has passed so far.                 *)
EvidenceKept ==
  [][\A n \in Nodes :
       \/ (on[n] \ on'[n]) \cap Evidence \subseteq kept[n]
       \/ "archive" \notin job.has
       \/ "archive-on-error" \in job.has /\ status = "pass"]_vars

(* A core, a denial or a bug while the job's own tasks run makes it fail:  *)
(* coredump, selinux and syslog find it although a node was rebooted after *)
(* they were entered and other tasks are exited in between.  Without an    *)
(* archive the kernel's log is not looked at; a log that cannot be read is *)
(* taken for one without denials, or bugs (selinux.py, get_denials).       *)
(* A core of systemd-sysusers is not one that counts.                      *)
TroubleShows ==
  phase = "over" /\ status = "pass" =>
    trouble \subseteq {"sysusers_core"} \cup missed \cup IF "archive" \in job.has THEN {} ELSE {"kernel_bug"}

\* What the tasks put on a node that they take away again.
Borrowed(n) ==
  TestFiles \cup Evidence
    \cup {"sysusers_core", "core_pattern", "sudoers", "syslog_conf", "utilities", "mounted", "nfsd",
          "exported", "rebooting", "iscsi_session", "ssh_config", "id_rsa", "auth_keys", "ansible_ppa",
          "ceph_cluster"}
    \cup IF n \notin Cleaned(job) THEN {}
         ELSE {"ceph"} \cup Marks(Installed)
              \cup IF Suse(job, n) /\ job.source = "shaman" THEN {} ELSE Marks(Repo)

(* A job that passed has left its nodes as the next one has to find them   *)
(* (check_conflict, check_ceph_data), with SELinux enforcing again where   *)
(* it was.                                                                 *)
CleanAfterPass ==
  phase = "over" /\ status = "pass" =>
    \A n \in Nodes :
      /\ on[n] \cap Borrowed(n) \subseteq job.marks[n]
      /\ n \in selinux_hosts(job) => {"enforcing"} \cap job.marks[n] \subseteq on[n]

\* The task kernel has been done, and the distribution's newest was not asked for since.
KernelDone ==
  phase = "enter" /\ \E i \in 1..(at - 1) :
    Tasks(job)[i] = "kernel" /\ \A j \in (i + 1)..at : Tasks(job)[j] # "kernel.install_latest_rh_kernel"

(* kernel.py, wait_for_reboot: when the task kernel is done, each host runs*)
(* the kernel its roles ask for and none is about to reboot, though all    *)
(* were dealt with at once; until the newest kernel of the distribution is *)
(* asked for instead.                                                      *)
KernelWanted ==
  KernelDone =>
    \A n \in Nodes \ job.container :
      normalize_and_apply_overrides(job)[n] # {} => "running_new" \in on[n] /\ n \notin Rebooting

(* install/__init__.py, install_packages: all nodes get their packages at  *)
(* once, each asking the build server for itself; when they are verified   *)
(* all nodes have the same build, also of a branch that has moved on       *)
(* meanwhile.                                                              *)
SameBuild ==
  Entered("install") /\ {"repos", "redhat", "repos_only"} \cap job.has = {}
     /\ (\A i \in 1..at : Tasks(job)[i] # "install.upgrade")
  => \E b \in Builds : \A n \in Nodes : on[n] \cap Marks(Installed) = {Installed[b]}

\* Nothing in the job's configuration asks for what cannot be had.
Sound(J) ==
  /\ J.has \cap {"no_packages", "bad_min_size", "no_credentials", "unsupported", "no_tag", "no_koji_rpm",
                 "no_sha1", "bad_config", "lock_unexpected", "install_latest_rh_kernel", "fetch_archives"} = {}
  /\ "redhat" \in J.has => "base-repo-url" \in J.has
  /\ J.no_entry = {}
  /\ \A n \in Nodes : Cardinality(normalize_and_apply_overrides(J)[n]) <= 1
  /\ \A i \in DOMAIN J.tasks : J.tasks[i] \notin {"buildpackages", "cephmetrics"}

(* The tasks fit together: each one's exit finds what its entering and the *)
(* exits of the others have left, so that a job passes unless something    *)
(* goes wrong (base's rmdir, the tests of check_conflict, the versions of  *)
(* what was installed, the kernel that was booted); a core of              *)
(* systemd-sysusers is removed in time.                                    *)
CleanRunPasses ==
  /\ phase = "over" /\ faults = 0 /\ trouble \subseteq {"sysusers_core"} /\ Sound(job)
  /\ on[Here] \cap Marks(Ready) \subseteq job.marks[Here]
  => status = "pass"
=============================================================================
