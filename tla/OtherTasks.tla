----------------------------- MODULE OtherTasks -----------------------------
(***************************************************************************)
(* Tasks that a job may name: commands and file systems on the clients     *)
(* (task/exec, pexec, background_exec, localdir, nfs, knfsd, iscsi,        *)
(* common_fs_utils, ssh_keys, lockfile, mpi, hadoop), ceph_ansible and     *)
(* cephmetrics.                                                            *)
(*   J.clients   the nodes with a client role                              *)
(*   J.first     the node with the first role a task looks for             *)
(***************************************************************************)
EXTENDS AnsibleTask

Client(J, Program(_)) == ForEach(J.clients, Program)

-----------------------------------------------------------------------------
(* Commands                                                                *)

\* One role after the other, one command after the other.
exec(J) == Each(Nodes, {}, {})

_init_barrier == Quiet(Each(Nodes, {}, {"at_barrier", "past_barrier"}))

\* Two phases: nobody goes on before all have come, nobody comes again before all have gone on.
_do_barrier(n) ==
  Each({n}, {"at_barrier"}, {}) \o WaitFor(Nodes, {"at_barrier"})
  \o Each({n}, {"past_barrier"}, {}) \o WaitFor(Nodes, {"past_barrier"})

\* One shell on each host, fed line by line; it has failed only when it is waited for.
_exec_host(n) ==
  Each({n}, {"shell"}, {}) \o _do_barrier(n) \o Each({n}, {}, {"shell"})

pexec(J) == _init_barrier \o Parallel([n \in Nodes |-> _exec_host(n)])

\* How the commands end is not looked at.
background_exec_enter(J) == Each(Nodes, {"background"}, {})
background_exec_exit(J)  == Quiet(All(Nodes, {}, {"background"}))

_check_mpi_version(J) == Each(J.clients, {}, {})

\* A program that fails leaves the list of hosts.
mpi(J) ==
  _check_mpi_version(J) \o Each({J.first}, {"mpi_hosts"}, {}) \o Each({J.first}, {}, {})
  \o Each({J.first}, {}, {"mpi_hosts"})

-----------------------------------------------------------------------------
(* File systems                                                            *)

localdir_enter(J) == Each(J.clients, {"mnt"}, {})
localdir_exit(J)  == Each(J.clients, {}, {"mnt"})

nfs_enter(J) ==
  LET Mount(n) == Each({n}, {"mnt"}, {}) \o Each({n}, {"mounted"}, {})
  IN  Client(J, Mount)

\* A client that fails keeps those after it mounted.
nfs_exit(J) ==
  LET Unmount(n) == TryFinally(Each({n}, {}, {}), Each({n}, {}, {"mounted"}) \o Each({n}, {}, {"mnt"}))
  IN  Client(J, Unmount)

get_nfsd_args(n, puts, drops) == Each({n}, puts, drops)

knfsd_enter(J) ==
  LET Export(n) == Each({n}, {}, {}) \o get_nfsd_args(n, {"nfsd"}, {}) \o Each({n}, {"exported"}, {})
  IN  Client(J, Export)
knfsd_exit(J) ==
  LET Stop(n) == get_nfsd_args(n, {}, {"nfsd", "exported"}) \o Each({n}, {}, {})
  IN  Client(J, Stop)

generic_mkfs(J) == Each(J.clients, {"fs"}, {})

\* Entering that fails is not undone: the `try` begins when all are mounted.
generic_mount_enter(J) == nfs_enter(J)
generic_mount_exit(J) ==
  LET Unmount(n) == Each({n}, {}, {"mounted"}) \o Each({n}, {}, {"mnt"})
  IN  Client(J, Unmount)

file_io_test(n) ==
  Each({n}, {}, {}) \o Each({n}, {"tfile"}, {}) \o Each({n}, {}, {}) \o Each({n}, {}, {"tfile"})

general_io_test(n) ==
  Each({n}, {}, {}) \o Each({n}, {"tfile"}, {}) \o file_io_test(n)

\* The logins are undone if one of the file systems cannot be made or mounted;
\* not if a login or a test of one fails.
start_iscsi_initiators_enter(J) ==
  LET Login(n) == Each({n}, {"discovered"}, {}) \o Each({n}, {"iscsi_session"}, {}) \o general_io_test(n)
  IN  Client(J, Login)
      \o Try(generic_mkfs(J) \o generic_mount_enter(J), Each(J.clients, {}, {"iscsi_session"}))

start_iscsi_initiators_exit(J) ==
  TryFinally(generic_mount_exit(J), Each(J.clients, {}, {"iscsi_session"}))

-----------------------------------------------------------------------------
(* Keys, locks                                                             *)

tweak_ssh_config_enter(J) == All(Nodes, {"ssh_config"}, {})
tweak_ssh_config_exit(J)  == All(Nodes, {}, {"ssh_config"})

\* The backups that were made are known only when all nodes have their keys.
push_keys_to_host(J) ==
  LET Push(n) == Each({n}, {"id_rsa"}, {}) \o Each({n}, {"auth_backup"}, {}) \o Each({n}, {"auth_keys"}, {})
  IN  ForEach(Nodes, Push)

cleanup_added_key(J) ==
  LET Restore(n) == Each({n}, {}, {"id_rsa"}) \o Each({n}, {}, {"auth_backup", "auth_keys"})
  IN  ForEach(Nodes, Restore)

ssh_keys_enter(J) == tweak_ssh_config_enter(J) \o Try(push_keys_to_host(J), tweak_ssh_config_exit(J))
ssh_keys_exit(J)  == TryFinally(cleanup_added_key(J), tweak_ssh_config_exit(J))

\* A lock that is not got in time is what some operations expect.
lock_one(J, n) == Each({n}, {}, {}) \o When("lock_unexpected" \in J.has, Raise)

lockfile(J) ==
  When("bad_config" \in J.has, Raise)
  \o TryFinally(All(J.clients, {"lockfile"}, {}) \o All({J.first}, {}, {}) \o All({J.first}, {}, {})
                  \o lock_one(J, J.first),
                Each(J.clients, {}, {"lockfile"}))

-----------------------------------------------------------------------------
(* Hadoop                                                                  *)

hadoop_configure(J) ==
  Each(Nodes, {"hadoop_conf"}, {}) \o When("hdfs" \in J.has, Each({J.first}, {"namenode"}, {}))

\* What is there when installing or configuring it fails stays.
install_hadoop_enter(J) ==
  All(Nodes, {"hadoop_tarball"}, {}) \o All(Nodes, {"hadoop"}, {}) \o All(Nodes, {}, {})
  \o All(Nodes, {}, {"hadoop_tarball"}) \o All(Nodes, {"hadoop_tmp"}, {})
  \o When("hdfs" \notin J.has, All(Nodes, {"cephfs_jar"}, {}) \o All(Nodes, {}, {"cephfs_jar"})
                               \o Each(Nodes, {}, {}) \o All(Nodes, {}, {}))
  \o hadoop_configure(J)
install_hadoop_exit(J) == All(Nodes, {}, {"hadoop", "hadoop_tmp", "hadoop_conf", "namenode"})

\* What may still run is stopped first.
start_hadoop_enter(J) ==
  Each({J.first}, {}, {"yarn"}) \o Each({J.first}, {}, {"dfs"})
  \o When("hdfs" \in J.has, Each({J.first}, {"dfs"}, {})) \o Each({J.first}, {"yarn"}, {})
start_hadoop_exit(J) ==
  Each({J.first}, {}, {"yarn"}) \o Each({J.first}, {}, {"dfs"}) \o All(Nodes, {}, {"java"})

hadoop_enter(J) == install_hadoop_enter(J) \o Try(start_hadoop_enter(J), install_hadoop_exit(J))
hadoop_exit(J)  == TryFinally(start_hadoop_exit(J), install_hadoop_exit(J))

-----------------------------------------------------------------------------
(* ceph_ansible, a class: its teardown is run when setup or begin failed.  *)

get_host_vars(J) == Each(Nodes, {}, {})

generate_hosts_file(J) == get_host_vars(J) \o Local({"hosts_file"}, {})

ceph_ansible_setup(J) ==
  generate_hosts_file(J) \o When("playbook_list" \in J.has, Local({"playbook_file"}, {}))
  \o Local({"extra_vars_file"}, {})

_copy_and_print_config(J) == Each({J.first}, {"ceph_ansible_conf"}, {})

_create_rbd_pool(J) == Quiet(Each({J.first}, {"rbd_pool"}, {}))

wait_for_ceph_health(J) == Each({J.first}, {}, {}) \o Await({J.first}, {"healthy"})

fix_keyring_permission(J) == Each(J.clients, {}, {})

\* How the playbook ends is told from its output.
run_rh_playbook(J) ==
  Each({J.first}, {"ceph_ansible"}, {}) \o _copy_and_print_config(J)
  \o Quiet(Each({J.first}, {"ceph_cluster"}, {})) \o Require({J.first}, {"ceph_cluster"})
  \o _create_rbd_pool(J)

run_playbook(J) ==
  When(J.os[J.first] = "ubuntu", Each({J.first}, {"ansible_ppa"}, {}))
  \o Quiet(Each({J.first}, {}, {"ceph_ansible"})) \o Each({J.first}, {"ceph_ansible"}, {})
  \o _copy_and_print_config(J) \o Each({J.first}, {"ceph_cluster"}, {})
  \o When("no_wait" \notin J.has, wait_for_ceph_health(J))
  \o _create_rbd_pool(J) \o fix_keyring_permission(J)

ceph_ansible_enter(J) ==
  ceph_ansible_setup(J) \o IF "rhbuild" \in J.has THEN run_rh_playbook(J) ELSE run_playbook(J)

\* The log of the cluster goes to the archive, under the same condition as in `archive`.
collect_logs(J, status) ==
  When("archive" \in J.has /\ ~("archive-on-error" \in J.has /\ status = "pass"), Pull(Nodes, {"log"}))

\* The files of this machine first: without them nothing is torn down.
ceph_ansible_teardown(J, status) ==
  Require({Here}, {"hosts_file", "extra_vars_file"})
  \o Local({}, {"hosts_file", "playbook_file", "extra_vars_file"})
  \o collect_logs(J, status)
  \o Each({J.first}, {}, {}) \o Each({J.first}, {}, {"ceph_cluster"})
  \o When("rhbuild" \notin J.has /\ J.os[J.first] = "ubuntu", Each({J.first}, {}, {"ansible_ppa"}))

-----------------------------------------------------------------------------
(* cephmetrics, a class made of ansible's                                  *)

\* The line of a host is a list plus a map, which raises; no hosts, no lines.
cephmetrics_generate_inventory(J) == When(Nodes # {}, Raise)

run_tests(J) == Local({}, {})

cephmetrics_enter(J) ==
  find_repo(J) \o get_playbook(J) \o cephmetrics_generate_inventory(J) \o generate_playbook(J)
  \o execute_playbook(J, FALSE) \o run_tests(J)

-----------------------------------------------------------------------------
(* buildpackages: the module types has no ListType                         *)

lookup_configs(J) == Raise

buildpackages(J) == Local({}, {}) \o lookup_configs(J) \o Local({"packages"}, {})
=============================================================================
