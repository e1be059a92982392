----------------------------- MODULE MCJobTasks -----------------------------
(* Instances of JobTasks for TLC: two nodes, and jobs that between them    *)
(* take every branch of the tasks.                                         *)
EXTENDS JobTasks, TLC

CONSTANTS n1, n2

Everywhere(x) == [n \in {n1, n2} |-> x]
On(x, y) == [n \in {n1, n2} |-> IF n = n1 THEN x ELSE y]
Before(marks, here) ==
  [n \in Machines |-> IF n = Here THEN here ELSE {"up", "locked", "package_lock_free"} \cup marks[n]]

\* Two Ubuntu nodes, packages of a commit; a command fails.
Plain ==
  [has |-> {"archive", "check-locks", "os_type", "sha1", "ceph_cm_ansible", "failure_log"},
   tasks |-> <<"install", "exec">>,
   os |-> Everywhere("ubuntu"), virtual |-> {}, container |-> {}, reimaged |-> {},
   source |-> "shaman", all |-> {"sha1"}, roles |-> Everywhere({}), top |-> {},
   kernels |-> Everywhere({}), override |-> "none", bls |-> {}, efi |-> {}, no_entry |-> {},
   clients |-> {n1}, first |-> n1,
   marks |-> Before(Everywhere({}), {"ready_1"}),
   trouble |-> {}, faults |-> 1]

\* Something goes wrong on a node, too.
Troubled == [Plain EXCEPT !.tasks = <<"exec">>, !.trouble = {"core", "sysusers_core", "kernel_bug"}]
LatestKernel ==
  [Troubled EXCEPT !.has = @ \ {"archive", "ceph_cm_ansible"}, !.os = On("centos", "ubuntu"),
                   !.marks = Before(On({"enforcing"}, {}), {"ready_1"}),
                   !.tasks = <<"kernel.install_latest_rh_kernel">>]

\* SELinux denies something; one of the nodes is permissive, and so remains.
Denied == [Plain EXCEPT !.has = {"archive"}, !.os = On("centos", "rhel"), !.tasks = <<"exec">>,
                        !.marks = Before(On({"enforcing"}, {}), {"ready_1"}), !.trouble = {"denial"}]

\* Two distributions, a branch whose head moves, a repository with newer builds.
Branched ==
  [Plain EXCEPT !.has = @ \cup {"builds", "archive-on-error"}, !.os = On("centos", "ubuntu"),
                !.all = {}, !.roles = On({"branch"}, {}), !.top = {"branch"},
                !.marks = Before(On({"enforcing", "newer_repo"}, {}), {"ready_1"}),
                !.trouble = {"denial"}, !.faults = 0]

\* A commit, though there are newer builds on the server and in a repository.
Older ==
  [Plain EXCEPT !.os = On("centos", "rhel"), !.has = @ \cup {"downgrade_packages", "wait_for_package"},
                !.source = "gitbuilder", !.all = {"tag", "branch"},
                !.marks = Before(On({"enforcing", "newer_repo", "ceph", "ceph_2"}, {"enforcing", "ceph", "ceph_2"}),
                                 {"ready_1", "ready_2"}),
                !.faults = 0]

\* Every kind of boot loader, a reboot for each node.
Kernels ==
  [Plain EXCEPT !.has = @ \cup {"kernel", "kdb"}, !.tasks = <<"exec">>, !.os = On("centos", "ubuntu"),
                !.kernels = On({"distro"}, {"sha1"}), !.efi = {n1}, !.bls = {n1},
                !.marks = Before(On({"enforcing", "grub2"}, {}), {"ready_1"}), !.faults = 0]
Overridden ==
  [Kernels EXCEPT !.os = On("rhel", "suse"), !.kernels = On({"distro", "sha1"}, {}), !.override = "koji",
                  !.efi = {n1}, !.bls = {}, !.faults = 1]
Unbootable == [Kernels EXCEPT !.no_entry = {n1, n2}, !.override = "path", !.os = On("rhel", "ubuntu")]
Default == [Kernels EXCEPT !.has = @ \ {"kdb"}, !.kernels = Everywhere({}), !.os = On("rhel", "suse")]

\* The distribution's newest kernel, after another: a reboot in the midst of the job's own tasks.
Rebooted ==
  [Kernels EXCEPT !.tasks = <<"kernel.install_latest_rh_kernel", "exec">>, !.kernels = On({"sha1"}, {}),
                  !.os = On("centos", "ubuntu"),
                  !.trouble = {"core", "sysusers_core", "denial"}]

Upgraded ==
  [Plain EXCEPT !.tasks = <<"install", "install.upgrade", "clock.check">>, !.os = On("centos", "ubuntu"),
                !.has = @ \cup {"extra_system_packages", "enable_coprs", "local", "cleanup"}, !.reimaged = {n1},
                !.marks = Before(On({"enforcing"}, {}), {"ready_1", "ready_2"}), !.faults = 0]
Mixed == [Upgraded EXCEPT !.has = {"archive"}, !.tasks = <<"install">>, !.faults = 1]

RedHat ==
  [Plain EXCEPT !.has = {"archive", "redhat", "rhbuild", "suite_path", "base-repo-url", "installer-repo-url",
                         "deb-repo-url", "set-add-repo", "registry", "check-locks"},
                !.tasks = <<"exec">>, !.os = On("rhel", "ubuntu"),
                !.marks = Before(On({"enforcing"}, {}), {}), !.faults = 0]
RedHatFails == [RedHat EXCEPT !.has = {"redhat", "rhbuild", "suite_path", "base-repo-url", "set-cdn-repo"},
                              !.tasks = <<>>, !.faults = 1]

SuseAndContainer ==
  [Plain EXCEPT !.os = On("suse", "ubuntu"), !.has = @ \cup {"pcp_host", "ansible_cleanup", "archive_upload"},
                !.virtual = {n1}, !.container = {n2}, !.faults = 0,
                !.tasks = <<"install", "ansible">>]

ClientTasks == {<<"localdir", "nfs">>, <<"ssh_keys", "lockfile">>, <<"knfsd">>, <<"hadoop">>,
               <<"iscsi", "mpi">>, <<"background_exec", "pexec">>, <<"ceph_ansible">>}
Clients ==
  {[Plain EXCEPT !.tasks = t, !.clients = {n1, n2},
                 !.marks = Before(Everywhere({"healthy"}), {})] : t \in ClientTasks}

\* What raises on the way.
Refusals ==
  {[Plain EXCEPT !.tasks = t, !.faults = 0] :
     t \in {<<"cephmetrics">>, <<"buildpackages", "install">>, <<"buildpackages", "exec">>}}
  \cup {[Plain EXCEPT !.has = @ \cup h, !.tasks = <<"install">>, !.faults = 0] :
          h \in {{"repos"}, {"no_packages"}, {"no_tag"}, {"lock"}, {"lock", "keep_locked"}, {"bad_min_size"},
                 {"pcp_host", "fetch_archives"}, {"redhat"},
                {"no_verify_ceph_hash", "use_existing_cluster", "clock.check"}}}

Various ==
  {Plain, Troubled, LatestKernel, Denied, Branched, Older, Kernels, Overridden, Unbootable, Default, Rebooted,
   Upgraded, Mixed, RedHat, RedHatFails, SuseAndContainer} \cup Clients \cup Refusals
=============================================================================
