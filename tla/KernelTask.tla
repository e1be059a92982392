----------------------------- MODULE KernelTask -----------------------------
(***************************************************************************)
(* The task kernel: task/kernel.py.  On each host that does not run the    *)
(* kernel its roles ask for, at once: get it, install it, make it the      *)
(* default of the boot loader, reboot, and wait until the host runs it.    *)
(*   J.kernels[n]  the kernels the roles of n ask for: distro, sha1, path, *)
(*                 koji, koji_task                                         *)
(*   J.override    the kernel of the overrides, or "none"                  *)
(*   J.bls, J.efi  hosts with boot loader specification files, with UEFI   *)
(***************************************************************************)
EXTENDS Builder

VersionKinds == {"distro", "sha1", "path", "koji", "koji_task"}

\* What a host boots: the new kernel, if it is the default of its boot loader
\* and the configuration that is read at boot says so.
BootsNew(J, n, marks) ==
  /\ {"kernel_installed", "default_new"} \subseteq marks
  /\ J.os[n] \in {"rhel", "centos"} => "default_saved" \in marks
  /\ n \in J.efi => "efi_synced" \in marks

-----------------------------------------------------------------------------
(* The configuration                                                       *)

\* If no role is named all get the default, the distribution's kernel; or what
\* the configuration says, which without a version is the main branch.
normalize_config(J) ==
  [n \in Nodes |-> IF \E m \in Nodes : J.kernels[m] # {} THEN J.kernels[n]
                   ELSE IF "kdb" \in J.has THEN {"sha1"} ELSE {"distro"}]

\* A version in the overrides is for all roles, and replaces every version of the
\* task's configuration.
normalize_and_apply_overrides(J) ==
  [n \in Nodes |-> IF J.override \in VersionKinds THEN {J.override} ELSE normalize_config(J)[n]]

\* One kernel for a host; one of its roles is enough then.
validate_config(J) ==
  When(\E n \in Nodes : Cardinality(normalize_and_apply_overrides(J)[n]) > 1, Raise)

-----------------------------------------------------------------------------
(* Getting the kernel                                                      *)

\* rpm -q, apt-get install of the meta package: what is installed last is the newest.
get_latest_image_version_rpm(J, n) == Each({n}, {}, {})
get_latest_image_version_deb(J, n) ==
  Each({n}, {}, {}) \o Each({n}, {}, {})
  \o Await({n}, {"package_lock_free"}) \o Each({n}, {"kernel_installed"}, {}) \o Each({n}, {}, {})

\* Goes on with the program if the host runs another kernel.
need_to_install(n, program) == Each({n}, {}, {}) \o Branch({n}, {"running_new"}, <<>>, program)

\* The distribution's newest kernel is installed to find out which it is.
need_to_install_distro(J, n, program) ==
  Each({n}, {}, {})
  \o (IF J.os[n] = "ubuntu" THEN get_latest_image_version_deb(J, n)
      ELSE Each({n}, {"kernel_installed", "zstream"}, {}) \o get_latest_image_version_rpm(J, n))
  \o Branch({n}, {"running_new"}, <<>>, program)

install_firmware(J, n, kind) ==
  IF kind = "distro" THEN <<>>
  ELSE IF J.os[n] \in {"rhel", "centos", "suse"} THEN Each({n}, {"firmware"}, {})
  ELSE Each({n}, {"firmware"}, {}) \o Each({n}, {}, {}) \o Each({n}, {}, {}) \o Each({n}, {}, {})

\* The old file is removed first.
download_kernel(J, n, kind) ==
  CASE kind = "distro" -> <<>>
    [] kind = "path"   -> Each({n}, {"kernel_file"}, {})
    [] kind \in {"koji", "koji_task"} -> All({n}, {"kernel_file"}, {})
    [] kind = "sha1"   -> assert_result(J) \o All({n}, {"kernel_file"}, {})

\* The file is read for the version it has.
get_image_version(n) == Require({n}, {"kernel_file"})

maybe_generate_initrd_rpm(n) == Each({n}, {}, {}) \o Each({n}, {"initrd"}, {})

-----------------------------------------------------------------------------
(* The boot loader                                                         *)

\* Mutant of _kernel_ensure_grub_default_saved: the boot loader's default is not the saved one.
_kernel_ensure_grub_default_saved_not(n) == Each({n}, {}, {})

_kernel_ensure_grub_default_saved(n) == Each({n}, {"default_saved"}, {})

\* Without an entry for the kernel nothing is set, and nobody is told.
Entry(J, n, program) == When(n \notin J.no_entry, program)

_kernel_set_default_bls(J, n) == Quiet(Each({n}, {}, {})) \o Entry(J, n, Each({n}, {"default_new"}, {}))

\* The configuration UEFI reads is a copy.
_kernel_sync_uefi_grubcfg(J, n) ==
  When(J.os[n] # "ubuntu" /\ n \in J.efi, Each({n}, {}, {}) \o Each({n}, {"efi_synced"}, {}))

grub2_kernel_select_generic(J, n) ==
  When(J.os[n] # "ubuntu", _kernel_ensure_grub_default_saved(n))
  \o Each({n}, {"grub_cfg"}, {"efi_synced"})
  \o (IF n \in J.bls THEN _kernel_set_default_bls(J, n) ELSE Entry(J, n, Each({n}, {"default_new"}, {})))
  \o Entry(J, n, _kernel_sync_uefi_grubcfg(J, n))

\* A new first entry is written, which is the default.
generate_legacy_grub_entry(n) == Each({n}, {}, {}) \o Each({n}, {"default_new", "default_saved", "efi_synced"}, {})

update_grub_rpm(J, n) ==
  Branch({n}, {"grub2"}, grub2_kernel_select_generic(J, n), generate_legacy_grub_entry(n))

\* Ubuntu: a script that sets the default of the next configuration.
update_grub_deb(J, n) ==
  Each({n}, {}, {}) \o Entry(J, n, Each({n}, {"default_new"}, {})) \o Each({n}, {"grub_cfg", "efi_synced"}, {})

-----------------------------------------------------------------------------
(* Rebooting                                                               *)

\* SUSE's packages set the default themselves.
install_kernel(J, n, kind) ==
  (CASE J.os[n] = "suse" -> Each({n}, {"default_new", "efi_synced"}, {})
     [] J.os[n] \in {"rhel", "centos"} ->
          (IF kind = "distro" THEN get_latest_image_version_rpm(J, n)
           ELSE get_image_version(n) \o maybe_generate_initrd_rpm(n))
          \o update_grub_rpm(J, n)
     [] J.os[n] = "ubuntu" -> get_latest_image_version_deb(J, n) \o update_grub_deb(J, n))
  \o Reboot({n})

\* The package of the job's kernel: rpm is followed by install_kernel, dpkg by
\* its own entry for the boot loader.
install_and_reboot(J, n, kind) ==
  IF kind = "distro" THEN install_kernel(J, n, kind)
  ELSE IF J.os[n] # "ubuntu"
  THEN Each({n}, {"kernel_installed"}, {}) \o install_kernel(J, n, kind)
  ELSE Each({n}, {"kernel_installed"}, {}) \o get_image_version(n) \o Each({n}, {}, {})
       \o All({n}, IF n \in J.no_entry THEN {} ELSE {"default_new", "efi_synced"}, {"kernel_file"})
       \o Reboot({n})

\* Mutant of wait_for_reboot: the host answers.
wait_for_reboot_any(n) == Each({n}, {}, {})

\* Until the host runs the kernel, whatever happens meanwhile.
wait_for_reboot(n) == Await({n}, {"running_new"})

enable_disable_kdb(J, n) == When("kdb" \in J.has, Quiet(Each({n}, {"kdb"}, {})))

install_latest(J, n, kind) ==
  install_firmware(J, n, kind) \o download_kernel(J, n, kind)
  \o install_and_reboot(J, n, kind) \o wait_for_reboot(n)

process_role(J, n, kind) ==
  (CASE kind = "distro" -> need_to_install_distro(J, n, install_latest(J, n, kind))
     [] kind = "path"   -> When("no_sha1" \in J.has, Raise) \o need_to_install(n, install_latest(J, n, kind))
     [] kind \in {"koji", "koji_task"} ->
          IF J.os[n] = "ubuntu" THEN SetStatus("dead") \o Raise
          ELSE install_package(n, "koji")
               \o (IF kind = "koji" THEN get_koji_build_info(n) ELSE get_koji_task_rpm_info(J, n))
               \o need_to_install(n, install_latest(J, n, kind))
     [] kind = "sha1"   ->
          assert_result(J) \o need_to_install(n, assert_result(J) \o install_latest(J, n, kind)))
  \o enable_disable_kdb(J, n)

kernel_enter(J) ==
  LET config == normalize_and_apply_overrides(J)
  IN  validate_config(J)
      \o Parallel([n \in Nodes |->
           IF n \in J.container \/ config[n] = {} THEN <<>>
           ELSE process_role(J, n, CHOOSE k \in config[n] : TRUE)])

\* kernel.install_latest_rh_kernel: a reboot only if something was installed, which
\* is then the default, and need not be the kernel that the roles ask for.
update_rh_kernel(J, n) ==
  Each({n}, {}, {})
  \o When(J.os[n] # "ubuntu",
       Branch({n}, {"zstream"}, Each({n}, {}, {}),
         Each({n}, {"zstream"}, {"default_new"})
         \o Reboot({n}) \o Quiet(Await({n}, {})) \o Each({n}, {}, {})))
install_latest_rh_kernel(J) ==
  When("skip" \notin J.has, Parallel([n \in Nodes |-> update_rh_kernel(J, n)]))
=============================================================================
