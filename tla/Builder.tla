------------------------------- MODULE Builder -------------------------------
(***************************************************************************)
(* Where packages come from: packaging.py.  A build server has builds of   *)
(* what is asked for; a tag and a sha1 stay what they are, the head of a   *)
(* branch moves while the job runs.  Each query asks the server anew.      *)
(*   J.source    gitbuilder, shaman or pulp                                *)
(*   J.all, J.roles[n], J.top   the references the configuration names for *)
(*               all nodes, the roles of a node, or without saying which   *)
(***************************************************************************)
EXTENDS Commands

Builds == 1..2

\* The marks of build b: it is ready on the server, in a node's repository
\* file, installed.
Ready     == <<"ready_1", "ready_2">>
Repo      == <<"repo_1", "repo_2">>
Installed == <<"ceph_1", "ceph_2">>
Marks(f) == {f[b] : b \in Builds}

\* `all` hides the roles and the top level, a role the top level.
_get_config_value_for_remote(J, n) ==
  IF J.all # {} THEN J.all ELSE J.roles[n] \cup J.top

\* The tag, or else the branch, or else the sha1, or else the branch main.
_choose_reference(J, n) ==
  LET refs == _get_config_value_for_remote(J, n)
  IN  CASE "tag" \in refs -> "tag"
        [] "tag" \notin refs /\ "branch" \in refs -> "branch"
        [] refs = {"sha1"} -> "sha1"
        [] OTHER -> "main"

Moving(J, n) == _choose_reference(J, n) \in {"branch", "main"}

\* A tag is looked up in the repository, and in the one it was forked from.
_tag_to_sha1(J, n) ==
  When(J.source = "shaman" /\ _choose_reference(J, n) = "tag",
       When("no_tag" \in J.has, Local({}, {}) \o Raise))

\* A gitbuilder that has no version yet is asked again for a time, if the job says so.
_get_response(J) ==
  When(J.source = "gitbuilder" /\ "wait_for_package" \in J.has, Await({Here}, {Ready[1]}))

\* Nothing that matches: VersionNotFoundError.
assert_result(J) == _get_response(J) \o Require({Here}, {Ready[1]})

Newest(programs) == Branch({Here}, {Ready[2]}, programs[2], programs[1])

\* A query for node n goes on with the program of the build it finds: the
\* newest of a branch, the build `fixed` of a tag or a sha1.
_search(J, n, fixed, programs) ==
  _tag_to_sha1(J, n) \o assert_result(J)
  \o IF Moving(J, n) THEN Newest(programs) ELSE programs[fixed]

-----------------------------------------------------------------------------
(* The repositories of a node                                              *)

\* The repository file is written, or the package that has it installed.
install_repo(J, n, b) == Each({n}, {Repo[b]}, Marks(Repo) \ {Repo[b]})

\* On SUSE the file of shaman and pulp's is not where it is removed from.
remove_repo(J, n) ==
  Each({n}, {}, IF J.os[n] = "suse" /\ J.source = "shaman" THEN {} ELSE Marks(Repo))

install_package(n, mark) == Each({n}, {mark}, {})

\* Goes on with the program of the version that is installed; a package that
\* is not installed has none: rpm and dpkg-query fail.
get_package_version(n, programs) ==
  Require({n}, {"ceph"})
  \o Branch({n}, {Installed[2]}, programs[2], programs[1])

-----------------------------------------------------------------------------
(* Koji                                                                    *)

\* A node asks the hub; if it cannot, the job is dead.
_run_python_command(n) == Try(Each({n}, {}, {}), SetStatus("dead"))

get_koji_build_info(n) == _run_python_command(n)

\* The task's result may not have the package.
get_koji_task_rpm_info(J, n) ==
  _run_python_command(n) \o When("no_koji_rpm" \in J.has, Raise)
=============================================================================
