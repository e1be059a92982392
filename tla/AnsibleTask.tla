----------------------------- MODULE AnsibleTask -----------------------------
(***************************************************************************)
(* The task ansible, and ansible.cephlab: task/ansible.py.  A playbook is  *)
(* run on the job's nodes; a failure is described by the log it may leave. *)
(***************************************************************************)
EXTENDS Commands

\* A repository is fetched, or is a directory.
find_repo(J) == Local({"repo"}, {})

get_playbook(J) == Local({"playbook"}, {})

\* The inventory is the job's, or the machine's, or is generated.
get_inventory(J) == {"inventory", "etc_ansible_hosts"} \cap J.has # {}
generate_inventory(J) == Local({"generated_inventory"}, {})

\* A playbook that is not a file is written to the repository's directory.
generate_playbook(J) == When("playbook_list" \in J.has, Local({"generated_playbook"}, {}))

ansible_setup(J) ==
  find_repo(J) \o get_playbook(J) \o When(~get_inventory(J), generate_inventory(J)) \o generate_playbook(J)

\* cephlab: the job is dead.  The log is kept if anything can be told from it;
\* what cannot be analyzed is told as it is.
_handle_failure(J, cephlab) ==
  When(cephlab, SetStatus("dead"))
  \o When({"failure_log", "archive"} \subseteq J.has, Local({"failure_log"}, {}))

\* The connections are made anew: the playbook may have changed the user's groups.
execute_playbook(J, cephlab) ==
  Try(All(Nodes, {"cm_ansible"}, {}), _handle_failure(J, cephlab))
  \o When("no_reconnect" \notin J.has, Quiet(Each(Nodes, {"connected"}, {})))

\* The playbook is run once more, to clean up: if that fails, the files stay.
ansible_cleanup(J, cephlab) == When("ansible_cleanup" \in J.has, execute_playbook(J, cephlab))

ansible_teardown(J, cephlab) ==
  ansible_cleanup(J, cephlab)
  \o Local({}, {"generated_inventory", "generated_playbook"})

ansible_enter(J) == ansible_setup(J) \o execute_playbook(J, FALSE)
cephlab_enter(J) == ansible_setup(J) \o Local({"vault_pass"}, {}) \o execute_playbook(J, TRUE)
=============================================================================
