----------------------------- MODULE InstallTask -----------------------------
(***************************************************************************)
(* The task install: task/install.  Packages of a project are installed on *)
(* all nodes at once, their version is verified, and they are removed at   *)
(* the end from nodes that are not reimaged anyway (J.reimaged).           *)
(* A node that has a build has the mark "ceph" too.                        *)
(***************************************************************************)
EXTENDS Builder

Suse(J, n) == J.os[n] = "suse"
IsRpm(J, n) == J.os[n] \in {"rhel", "centos", "suse"}

Put(n, b) == Each({n}, {"ceph", Installed[b]}, Marks(Installed) \ {Installed[b]})

-----------------------------------------------------------------------------
(* deb.py and rpm.py                                                       *)

\* Local packages that go with the task are copied to the node.
_get_local_dir(J, n) == When("local" \in J.has, Each({n}, {"local_dir"}, {}))

\* apt waits for others that hold its lock, yum for a repository that is busy.
_retry_if_eagain_in_output(n, program) == Await({n}, {"package_lock_free"}) \o program
_retry_if_failures_are_recoverable(n, program) == Await({n}, {"repository_answers"}) \o program

\* A gitbuilder's directory of a branch has its newest build only.
StillThere(J, n, b) ==
  When(J.source = "gitbuilder" /\ Moving(J, n), Refuse({Here}, {Ready[i] : i \in Builds \cap (b + 1)..2}))

\* The version is part of what apt is asked for.
deb_update_package_list_and_install(J, n, b) ==
  Each({n}, {"apt_key"}, {}) \o install_repo(J, n, b) \o Quiet(Each({n}, {}, {}))
  \o StillThere(J, n, b)
  \o _retry_if_eagain_in_output(n, Put(n, b))
  \o When("extra_system_packages" \in J.has, _retry_if_eagain_in_output(n, Each({n}, {"extra"}, {})))
  \o _get_local_dir(J, n)

deb_remove(J, n) ==
  Each({n}, {}, {"ceph", "extra"} \cup Marks(Installed)) \o Each({n}, {}, {}) \o Each({n}, {}, {})
deb_remove_sources_list(J, n) == remove_repo(J, n) \o Quiet(Each({n}, {}, {}))

\* Custom repositories: on SUSE the branch for them ends in the exception for
\* distributions that have none.
AddRepos(J, n) ==
  IF Suse(J, n) THEN Each({n}, {}, Marks(Repo)) \o Each({n}, {"custom_repo"}, {}) \o Raise
  ELSE IF J.os[n] = "centos" THEN Each({n}, {"custom_repo"}, {})
  ELSE Raise

\* The project's repository comes before others that have a newer build.
_yum_fix_repo_priority(n) == Each({n}, {"priority"}, {})
_yum_set_check_obsoletes(n) == Each({n}, {"obsoletes_orig"}, {}) \o Each({n}, {"check_obsoletes"}, {})
_yum_unset_check_obsoletes(n) == Quiet(Each({n}, {}, {"obsoletes_orig", "check_obsoletes"}))

\* What is to be downgraded must be there, and newer.
_downgrade_packages(J, n, b) ==
  When("downgrade_packages" \in J.has,
       get_package_version(n, [i \in Builds |-> IF i > b THEN Put(n, b) ELSE Raise]))

\* yum does not take an older build for a newer one, and prefers the newest.
YumInstall(n, b) ==
  Branch({n}, {Installed[2]}, Each({n}, {}, {}),
    Branch({n}, {"newer_repo"}, Branch({n}, {"priority"}, Put(n, b), Put(n, 2)), Put(n, b)))

\* repos_only leaves it at that; with install_ceph_packages off other packages are installed.
rpm_update_package_list_and_install(J, n, b) ==
  When("enable_coprs" \in J.has, Each({n}, {"copr"}, {}))
  \o (IF "repos" \in J.has THEN AddRepos(J, n) ELSE install_repo(J, n, b))
  \o When("repos_only" \notin J.has,
       When(~Suse(J, n) /\ "repos" \notin J.has,
            _yum_fix_repo_priority(n) \o _yum_set_check_obsoletes(n))
       \o Each({n}, {}, {}) \o _get_local_dir(J, n)
       \o When(~Suse(J, n) /\ "repos" \notin J.has, _downgrade_packages(J, n, b))
       \o _retry_if_failures_are_recoverable(n, YumInstall(n, b)))

rpm_remove(J, n) ==
  When("no_ceph_packages" \notin J.has, Each({n}, {}, {"ceph", "extra"} \cup Marks(Installed)) \o Each({n}, {}, {}))
  \o (IF "repos" \in J.has THEN Each({n}, {}, {"custom_repo"}) \o When(Suse(J, n), Raise)
      ELSE remove_repo(J, n))
  \o When(~Suse(J, n), Each({n}, {}, {}))

rpm_remove_sources_list(J, n) ==
  remove_repo(J, n) \o When(~Suse(J, n), _yum_unset_check_obsoletes(n))
  \o When("enable_coprs" \in J.has, Each({n}, {}, {"copr"}))

\* The repository is removed and installed again, and the packages are upgraded.
rpm_upgrade_packages(J, n, b) ==
  remove_repo(J, n) \o install_repo(J, n, b)
  \o When(~Suse(J, n), _yum_fix_repo_priority(n) \o _yum_set_check_obsoletes(n))
  \o Each({n}, {}, {}) \o YumInstall(n, b)

deb_upgrade_packages(J, n, b) ==
  Each({n}, {"apt_key"}, {}) \o install_repo(J, n, b) \o Quiet(Each({n}, {}, {}))
  \o StillThere(J, n, b) \o _retry_if_eagain_in_output(n, Put(n, b))

-----------------------------------------------------------------------------
(* install                                                                 *)

\* Mutant of verify_package_version: something is installed.
verify_package_version_any(J, n, fixed) == Require({n}, {"ceph"})

\* What the server has now is what must be installed; nobody looks at custom repositories.
verify_package_version(J, n, fixed) ==
  When("repos" \notin J.has,
       _search(J, n, fixed, [b \in Builds |->
         get_package_version(n, [i \in Builds |-> When(i # b, Raise)])]))

Install(J, n) ==
  _search(J, n, 1, [b \in Builds |->
    IF IsRpm(J, n) THEN rpm_update_package_list_and_install(J, n, b)
    ELSE deb_update_package_list_and_install(J, n, b)])

install_packages(J) ==
  LET Verify(n) == verify_package_version(J, n, 1)
  IN  Parallel([n \in Nodes |-> Install(J, n)]) \o ForEach(Nodes, Verify)

Cleaned(J) == IF "cleanup" \in J.has THEN Nodes ELSE Nodes \ J.reimaged

remove_packages(J) ==
  Parallel([n \in Nodes |->
    When(n \in Cleaned(J), IF IsRpm(J, n) THEN rpm_remove(J, n) ELSE deb_remove(J, n))])

remove_sources(J) ==
  Parallel([n \in Nodes |->
    When(n \in Cleaned(J), IF IsRpm(J, n) THEN rpm_remove_sources_list(J, n) ELSE deb_remove_sources_list(J, n))])

install_exit(J) == remove_packages(J) \o remove_sources(J)

\* install.upgrade: a node after the other; an older build is refused.
upgrade_common(J) ==
  LET From(n, i) ==
        _search(J, n, 2, [b \in Builds |->
          IF i > b THEN Raise
          ELSE IF IsRpm(J, n) THEN rpm_upgrade_packages(J, n, b) ELSE deb_upgrade_packages(J, n, b)])
      Upgrade(n) == get_package_version(n, [i \in Builds |-> From(n, i)]) \o verify_package_version(J, n, 2)
  IN  ForEach(Nodes, Upgrade)

-----------------------------------------------------------------------------
(* redhat.py                                                               *)

RhInstall(n) == Put(n, 1) \o get_package_version(n, [i \in Builds |-> When(i # 1, Raise)])
install_pkgs(J, n) == Quiet(Each({n}, {}, {})) \o RhInstall(n)
install_deb_pkgs(J, n) == RhInstall(n)
uninstall_pkgs(J, n) == Each({n}, {}, {"ceph"} \cup Marks(Installed)) \o Each({n}, {}, {"ceph_data"})

redhat_install_enter(J) ==
  Local({}, {}) \o When("unsupported" \in J.has, Raise)
  \o Parallel([n \in Nodes |-> IF J.os[n] = "rhel" THEN install_pkgs(J, n) ELSE install_deb_pkgs(J, n)])
redhat_install_exit(J) ==
  When("skip_uninstall" \notin J.has, Parallel([n \in Nodes |-> uninstall_pkgs(J, n)]))

-----------------------------------------------------------------------------
(* What the task nests: install, and then ship_utilities.                  *)

\* The suppression file goes to the test directory; a failure leaves what was shipped.
_ship_utilities(J) == Each(Nodes, {"shipped"}, {}) \o Each(Nodes, {"utilities"}, {})
_remove_utilities(J) == All(Nodes, {}, {"shipped", "utilities"})

\* Only the first install of a job ships them, and only it removes them.
ship_utilities_enter(J) ==
  Branch({Here}, {"do_not_ship"}, <<>>, Local({"do_not_ship", "shipper"}, {}) \o _ship_utilities(J)
                                         \o Local({"filenames"}, {}))
ship_utilities_exit(J) == Branch({Here}, {"filenames"}, _remove_utilities(J) \o Local({}, {"filenames"}), <<>>)

\* contextutil.nested: what was entered is exited if the next one fails.
install_task_enter(J) ==
  LET rh == "rhbuild" \in J.has
  IN  (IF rh THEN redhat_install_enter(J) ELSE install_packages(J))
      \o Try(ship_utilities_enter(J), IF rh THEN redhat_install_exit(J) ELSE install_exit(J))

\* An exit that raises does not keep the other from being run.
install_task_exit(J) ==
  TryFinally(ship_utilities_exit(J), IF "rhbuild" \in J.has THEN redhat_install_exit(J) ELSE install_exit(J))
=============================================================================
