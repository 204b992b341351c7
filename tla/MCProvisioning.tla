--------------------------- MODULE MCProvisioning ---------------------------
(* Small instances of Provisioning: documents, archives and payloads.       *)
EXTENDS ProvisioningRefinement

\* Nothing that need not be given is given.
Plain ==
    [field \in Fields |->
       CASE field \in {"base_image_path", "bridge_name", "vm_name"} \cup RequiredArtifacts -> "text"
         [] field \in {"vcpus", "memory_mb"} -> "positive"
         [] field = "root_ssh_authorized_keys" -> "keys"
         [] field = "kernel_cmdline_append" -> "roots"
         [] OTHER -> "absent"]

\* Everything is given, and in a form that is changed when it is normalized.
Full ==
    [field \in Fields |->
       CASE field \in {"vcpus", "memory_mb", "disk_size_gb"} -> "positive"
         [] field \in {"disk_bus", "net_model", "selinux_mode"} -> "choice"
         [] field \in Flags -> "false"
         [] field \in {"packages", "first_boot_commands"} -> "[padded]"
         [] field = "kernel_cmdline_append" -> "padded roots"
         [] field = "root_ssh_authorized_keys" -> "padded keys"
         [] field = "static_mac_address" -> "upper"
         [] field = "copy_files" -> "specs"
         [] field = "cloud_init_user_data_overrides" -> "{}"
         [] field \in RequiredArtifacts \cup OptionalArtifacts -> "home"
         [] OTHER -> "padded"]

MCRaws == {Plain, Full, [Plain EXCEPT !.copy_files = "specs", !.config = "text"],
           [Full EXCEPT !.kernel_cmdline_append = "[text]"],
          [Full EXCEPT !.cloud_init_user_data_overrides = "{runcmd}"]}

MCCopies ==
    <<[dest |-> "opt", name |-> "map"], [dest |-> "opt", name |-> "modules"],
      [dest |-> "etc", name |-> "modules"]>>

MCArchives ==
    {[releases |-> {"old"}, flat |-> FALSE], [releases |-> {"new"}, flat |-> TRUE],
     [releases |-> {"new", "old"}, flat |-> FALSE]}

MCNamings ==
    {[a \in Artifacts |-> CASE a = "system_map" -> "map" [] a = "config" -> "config" [] OTHER -> "modules"],
     [a \in Artifacts |-> IF a = "kernel_modules_archive" THEN "modules" ELSE "config"],
     [a \in Artifacts |-> IF a = "system_map" THEN "map" ELSE "config"]}

\* A payload that the smallest image holds, many small files, and large ones.
MCTrees ==
    {<<[kind |-> "dir", n |-> 1], [kind |-> "dir", n |-> 0], [kind |-> "file", n |-> 1]>>,
     <<[kind |-> "dir", n |-> 0], [kind |-> "file", n |-> 500000001], [kind |-> "file", n |-> 400000000]>>}
=============================================================================
