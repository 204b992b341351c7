------------------------------- MODULE Config -------------------------------
(***************************************************************************)
(* load_config, validate_config and VMConfig.to_dict: which documents are  *)
(* accepted, what becomes of them, and what normalized-config.yaml says of *)
(* that.  A document gives every field one of a few kinds of value.        *)
(***************************************************************************)

Names == {"vm_name", "vm_name_prefix"}
Choices == {"disk_bus", "net_model"}
Flags == {"qemu_gdb_debug", "serial_log_enabled", "preserve_overlay_on_stop"}
Lists == {"packages", "first_boot_commands", "kernel_cmdline_append"}
RequiredArtifacts == {"kernel_image", "kernel_modules_archive"}
OptionalArtifacts == {"system_map", "config", "initramfs"}

Fields ==
    Names \cup Choices \cup Flags \cup Lists \cup RequiredArtifacts \cup OptionalArtifacts
    \cup {"base_image_path", "bridge_name", "vcpus", "memory_mb", "disk_size_gb", "hostname",
          "static_mac_address", "selinux_mode", "root_ssh_authorized_keys", "copy_files",
          "cloud_init_user_data_overrides"}

\* "padded" has blanks around it, "home" begins with a tilde, "dot" is the
\* directory itself, "upper" is a MAC address in upper case, "virtio" and "choice"
\* are supported; in lists, "roots" has an entry root=..., "keys" are SSH keys and
\* "specs" are mappings with src and dest; "{runcmd}" is a mapping with that key.
Strings == {"blank", "text", "padded", "home", "dot", "upper", "virtio", "choice"}

Values ==
    Strings
    \cup {"absent", "null", "true", "false", "zero", "positive", "{}", "{runcmd}",
          "[]", "[blank]", "[text]", "[padded]", "roots", "padded roots",
          "keys", "padded keys", "specs"}

Missing == {"absent", "null"}
Texts == {"[text]", "[padded]", "roots", "padded roots", "keys", "padded keys"}

\* The values for which a field adds no error; a yes is a positive integer.
Accepts(field) ==
    CASE field = "base_image_path" -> Strings \ {"blank"}
      [] field = "bridge_name" -> Strings \ {"blank"}
      [] field \in {"vcpus", "memory_mb"} -> {"positive", "true"}
      [] field \in Names -> Values \ {"blank"}
      [] field = "disk_size_gb" -> Missing \cup {"positive", "true"}
      [] field \in Choices -> {"absent", "virtio", "choice"}
      [] field \in Flags -> {"absent", "true", "false"}
      [] field = "hostname" -> Missing \cup (Strings \ {"blank"})
      [] field = "static_mac_address" -> Missing \cup {"text", "upper"}
      [] field = "selinux_mode" -> Missing \cup {"choice"}
      [] field \in Lists -> Missing \cup {"[]"} \cup Texts
      [] field = "root_ssh_authorized_keys" -> {"keys", "padded keys"}
      [] field = "copy_files" -> Missing \cup {"[]", "specs"}
      [] field \in RequiredArtifacts -> Strings \ {"blank"}
      [] field \in OptionalArtifacts -> Missing \cup (Strings \ {"blank"})
      [] field = "cloud_init_user_data_overrides" -> Missing \cup {"{}", "{runcmd}"}

\* validate_config raises no error.
Accepted(raw) ==
    /\ \A field \in Fields : raw[field] \in Accepts(field)
    /\ \E name \in Names : raw[name] \in Strings
    /\ raw.kernel_image # "dot" => raw.kernel_cmdline_append \in {"roots", "padded roots"}

\* The value of a field that is not given, or given as null.
Default(field) ==
    CASE field \in Choices -> "virtio"
      [] field \in Flags \ {"qemu_gdb_debug"} -> "true"
      [] field = "qemu_gdb_debug" -> "false"
      [] field \in Lists \cup {"copy_files"} -> "[]"
      [] field = "cloud_init_user_data_overrides" -> "{}"
      [] OTHER -> "None"

Stripped(value) ==
    CASE value = "padded" -> "text"
      [] value = "[padded]" -> "[text]"
      [] value = "padded roots" -> "roots"
      [] value = "padded keys" -> "keys"
      [] OTHER -> value

Expanded(value) == IF value = "home" THEN "text" ELSE value

\* A field of the VMConfig made of an accepted value.
Normal(field, value) ==
    CASE value \in Missing -> Default(field)
      [] value \notin Missing /\ field \in Names /\ value \notin Strings -> "None"
      [] value \notin Missing /\ field = "base_image_path" -> Expanded(Stripped(value))
      [] value \notin Missing /\ field \in RequiredArtifacts \cup OptionalArtifacts -> Expanded(value)
      [] value \notin Missing /\ field = "static_mac_address" -> "text"
      [] OTHER -> Stripped(value)

Validated(raw) == [field \in Fields |-> Normal(field, raw[field])]

\* Variant: str(path) also for an artifact that is not configured.
ToDictText(config) ==
    [field \in Fields |->
       IF config[field] # "None" THEN config[field]
       ELSE IF field \in OptionalArtifacts THEN "text" ELSE "null"]

\* VMConfig.to_dict, written and read as YAML.
ToDict(config) ==
    [field \in Fields |-> IF config[field] = "None" THEN "null" ELSE config[field]]
=============================================================================
