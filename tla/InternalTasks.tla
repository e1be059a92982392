---------------------------- MODULE InternalTasks ----------------------------
(***************************************************************************)
(* The tasks that frame every job: task/internal, and the tasks timer,     *)
(* clock, pcp, selinux and console_log.  Each is what it does when it is   *)
(* entered and when it is exited, for the job J:                           *)
(*   J.has    the keys that are set in its configuration                   *)
(*   J.os     the kind of distribution on each node                        *)
(*   J.virtual, J.container   the nodes that are virtual or containers     *)
(***************************************************************************)
EXTENDS Commands

Hosts(J) == Nodes \ J.container
Of(J, kinds) == {n \in Nodes : J.os[n] \in kinds}
Rpm(J) == Of(J, {"rhel", "centos", "suse"})

\* What the job leaves on a node that should be gone at its end.
TestFiles == {"testdir", "archive_dir", "coredump_dir", "syslog_dir", "audit_dir", "pcp_archive",
              "shipped", "workunit", "lockfile", "daemon_pid"}
Evidence == {"core", "log", "audit"}

-----------------------------------------------------------------------------
(* Before the nodes are touched                                            *)

check_packages(J) ==
  IF "buildpackages" \in J.has \/ ~({"os_type", "sha1"} \subseteq J.has) THEN <<>>
  ELSE Local({}, {}) \o When("no_packages" \in J.has, SetStatus("dead") \o Raise)

\* The last buildpackages is moved here if there is an install task, and dropped if there is none.
buildpackages_prep(tasks) ==
  LET Place(name) == SelectLastInSeq(tasks, LAMBDA t : t = name)
      prep   == Place("buildpackages_prep")
      index  == Place("buildpackages")
      others == RemoveAt(tasks, index)
  IN  IF prep = 0 \/ index = 0 THEN tasks
      ELSE IF Place("install") = 0 THEN others
      ELSE IF index > prep + 1 THEN InsertAt(others, prep + 1, "buildpackages")
      ELSE tasks

save_config(J) == When("archive" \in J.has, Local({"config.yaml"}, {}))

\* The lock server tells of each target that it is up and locked by the owner.
check_lock(J) == When("check-locks" \in J.has, Require(Nodes, {"up", "locked"}))

\* Targets that have no list of roles are left out of the cluster: here there are none.
add_remotes(J) == Local({"cluster"}, {})

connect(J) == Each(Nodes, {"connected"}, {})

push_inventory(J) == Quiet(Each(Nodes, {}, {}))

serialize_remote_roles(J) == When("archive" \in J.has, Local({"info.yaml"}, {}))

\* All hosts are looked at before the task gives up.
check_conflict(J) == Refuse(Nodes, {"testdir"})
check_ceph_data(J) == Refuse(Nodes, {"ceph_data"})

vm_setup(J) ==
  LET Prepare(n) == Branch({n}, {"ceph-qa-ready"}, <<>>, Quiet(Each({n}, {"ceph-qa-ready"}, {})))
  IN  ForEach(J.virtual, Prepare)

lock_machines_enter(J) == Each(Nodes, {"up", "locked"}, {})
lock_machines_exit(J) ==
  When("keep_locked" \notin J.has, Each(Nodes, {}, {"locked"}))

-----------------------------------------------------------------------------
(* What frames the tasks                                                   *)

base_enter(J) == All(Nodes, {"testdir"}, {})
\* rmdir fails if anything is left in the directory.
base_exit(J) == Refuse(Nodes, TestFiles \ {"testdir"}) \o All(Nodes, {}, {"testdir"})

archive_enter(J) == All(Nodes, {"archive_dir"}, {})

\* Cores of systemd-sysusers are cores like others to all but coredump_exit.
IfCores(n, some, none) == Branch({n}, {"sysusers_core"}, some, Branch({n}, {"core"}, some, none))

\* The program of each core is fetched; if it is not there, that is an error.
fetch_binaries_for_coredumps(n) == IfCores(n, Each({n}, {}, {}), <<>>)

\* archive-on-error: nothing is transferred of a job that has passed so far.
\* Large files are compressed on the way: the archive has them all the same.
Transferred(J, status) ==
  LET Transfer(n) ==
        When("bad_min_size" \in J.has, Raise) \o Pull({n}, Evidence) \o fetch_binaries_for_coredumps(n)
  IN  When("archive" \in J.has /\ ~("archive-on-error" \in J.has /\ status = "pass"), ForEach(Nodes, Transfer))

ArchiveRemoved ==
  All(Nodes, {}, {"archive_dir", "coredump_dir", "syslog_dir", "audit_dir", "sysusers_core"} \cup Evidence)

\* Mutant of archive_exit: the removal in a `finally` of its own.
archive_exit_finally(J, status, told) == TryFinally(Transferred(J, status), ArchiveRemoved)

\* An exception that the exits before have raised makes the job fail, not dead.
archive_exit(J, status, told) == When(told, SetStatus("fail")) \o Transferred(J, status) \o ArchiveRemoved

archive_upload_exit(J) == When({"archive_upload", "archive"} \subseteq J.has, Local({"uploaded"}, {}))

\* Mutant of coredump_enter: the pattern is set, until the next reboot.
coredump_enter_volatile(J) == All(Hosts(J), {"coredump_dir", "core_pattern"}, {})

\* The pattern is also appended to /etc/sysctl.conf, where it stays.
coredump_enter(J) == All(Hosts(J), {"coredump_dir", "core_pattern", "sysctl_line"}, {})

\* Cores of systemd-sysusers are of no interest.  The directory is removed if it is
\* empty then; if it is still there, cores were dumped.  These tests are not run if
\* the commands before them fail.
coredump_exit(J) ==
  LET Tidy(n) == IfCores(n, <<>>, All({n}, {}, {"coredump_dir"}))
  IN  All(Hosts(J), {}, {"core_pattern"})
      \o Quiet(All(Hosts(J), {}, {"sysusers_core"})) \o ForEach(Hosts(J), Tidy)
      \o Flag(Hosts(J), {"coredump_dir"})

sudo_enter(J) == All(Nodes, {"sudoers"}, {})

sudo_exit(J)  == Each(Nodes, {}, {"sudoers"})

syslog_restore(J) == All(Hosts(J), {}, {"syslog_conf"})

\* Errors of the kernel, the journal, and compressing it all.  The status of the
\* pipeline that looks for errors is that of its last command.
syslog_close(J) ==
  syslog_restore(J) \o Search(Hosts(J), {"kernel_bug"}, "fail")
    \o All(Hosts(J), {"log"}, {}) \o All(Hosts(J), {}, {})

\* The configuration is removed if entering fails, too.
syslog_enter(J) ==
  When("archive" \in J.has /\ Hosts(J) # {},
       All(Hosts(J), {"syslog_dir"}, {})
         \o Try(Each(Hosts(J), {"syslog_conf"}, {}) \o All(Hosts(J), {}, {}), syslog_close(J)))

syslog_exit(J) == When("archive" \in J.has /\ Hosts(J) # {}, syslog_close(J))

timer_exit(J) == Local({"duration"}, {})

clock_enter(J) == All(Hosts(J), {"synced"}, {})
clock_exit(J)  == All(Hosts(J), {}, {})
clock_check_enter(J) == All(Hosts(J), {}, {})

-----------------------------------------------------------------------------
(* pcp, selinux and console_log are classes (task/__init__.py): when       *)
(* entering them has failed, they are exited all the same.                 *)

pcp_setup(J) == When("pcp_host" \in J.has, Local({"pcp_html"}, {}))

\* The graphs are downloaded; raw archives are made in the test directory.
pcp_end(J) ==
  When("pcp_host" \in J.has,
       Quiet(Local({"graphs"}, {}))
         \o When({"fetch_archives", "archive"} \subseteq J.has, Each(Nodes, {"pcp_archive"}, {})))

\* No virtual machine, no container, no distribution without it.
selinux_hosts(J) == {n \in Nodes \ (J.virtual \cup J.container) : J.os[n] \in {"rhel", "centos"}}

\* getenforce: the mode to return to, if it is not the one that the task sets.
get_modes(J) ==
  LET Mode(n) == Branch({n}, {"enforcing"}, Each({n}, {"old_enforcing"}, {}), Each({n}, {}, {"old_enforcing"}))
  IN  ForEach(selinux_hosts(J), Mode) \o Local({"old_modes"}, {})

\* The modes and the denials there are before the tasks run; the mode is then permissive.
selinux_setup(J) ==
  LET h == selinux_hosts(J)
  IN  Each(h, {}, {}) \o get_modes(J)
      \o Quiet(Each(h, {}, {"denial"})) \o Local({"old_denials"}, {})
      \o Each(h, {}, {"enforcing"})

\* Mutant of restore_modes: errors are ignored.
restore_modes_quiet(J) ==
  LET Restore(n) == Branch({n}, {"old_enforcing"}, Quiet(Each({n}, {"enforcing"}, {})), <<>>)
  IN  Require({Here}, {"old_modes"}) \o ForEach(selinux_hosts(J), Restore)

restore_modes(J) ==
  LET Restore(n) == Branch({n}, {"old_enforcing"}, Each({n}, {"enforcing"}, {}), <<>>)
  IN  Require({Here}, {"old_modes"}) \o ForEach(selinux_hosts(J), Restore)

\* get_denials has check_status=False.
get_new_denials(J) == Require({Here}, {"old_denials"}) \o Search(selinux_hosts(J), {"denial"}, "none")

\* Modes first; a failure leaves the other hosts as they are, their logs and denials unread.
selinux_teardown(J) ==
  restore_modes(J)
  \o When("archive" \in J.has, Each(selinux_hosts(J), {"audit_dir", "audit"}, {}))
  \o get_new_denials(J)

\* The console loggers are processes of this machine; the handler of signal 15 stays.
console_log_enter(J) ==
  When("archive" \in J.has, Local({"console_logs"}, {}) \o Local({"console_logger", "handler_15"}, {}))
console_log_exit(J) == When("archive" \in J.has, Local({}, {"console_logger"}))
-----------------------------------------------------------------------------
(* task/internal/redhat.py                                                 *)

\* Unsubscribing ignores all errors; every host is unsubscribed first.
_unsubscribe_stage_cdn(n) == Quiet(Each({n}, {}, {"subscribed"}))

_subscribe_stage_cdn(n) ==
  _unsubscribe_stage_cdn(n) \o Each({n}, {"subscribed"}, {}) \o Each({n}, {"rhel_repos"}, {})

setup_stage_cdn_enter(J) ==
  When(~({"suite_path", "rhbuild"} \subseteq J.has), Raise)
  \o Parallel([n \in Nodes |-> When(J.os[n] = "rhel", _subscribe_stage_cdn(n))])

setup_stage_cdn_exit(J) ==
  When({"suite_path", "rhbuild"} \subseteq J.has,
       Parallel([n \in Nodes |-> _unsubscribe_stage_cdn(n)]))

git_ignore_ssl_enter(J) == Each(Nodes, {"sslverify_false"}, {})

setup_container_registry_enter(J) ==
  When("registry" \in J.has,
       When("no_credentials" \in J.has, Raise) \o Each(Nodes, {"registry_login"}, {}))

setup_additional_repo_enter(J) ==
  When("set-add-repo" \in J.has, Each(Rpm(J), {"rh_add_repo"}, {}))

\* Nothing is spawned: a host after the other.
_setup_latest_repo(J) ==
  LET OnRpm(n) ==
        Quiet(Each({n}, {}, {"rh_repo", "rh_add_repo"})) \o Each({n}, {}, {})
        \o When("skip-subscription-manager" \notin J.has, Quiet(Each({n}, {}, {"ceph_repos"})))
        \o When("base-repo-url" \in J.has, Local({}, {}) \o Each({n}, {"rh_repo"}, {}))
        \o When("installer-repo-url" \in J.has, Local({}, {}) \o Each({n}, {"rh_repo"}, {}))
      OnDeb(n) == When("deb-repo-url" \in J.has, Each({n}, {"deb_repo"}, {}))
      OnNode(n) == IF n \in Rpm(J) THEN OnRpm(n) ELSE OnDeb(n)
  IN  ForEach(Nodes, OnNode)

\* Without base-repo-url the generator yields twice, unless it is told of an
\* exception: the second time it is closed, which is an error.
setup_base_repo_enter(J) ==
  When("base-repo-url" \in J.has /\ "set-cdn-repo" \notin J.has, _setup_latest_repo(J))
setup_base_repo_exit(J, told) ==
  LET CleanUp == Quiet(Each(Rpm(J), {}, {"rh_repo", "rh_add_repo"}))
      cdn == "set-cdn-repo" \in J.has
  IN  IF "base-repo-url" \in J.has THEN When(~cdn, CleanUp)
      ELSE When(~told, When(~cdn, _setup_latest_repo(J) \o CleanUp) \o Raise)
=============================================================================
