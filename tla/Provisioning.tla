---------------------------- MODULE Provisioning ----------------------------
(***************************************************************************)
(* From a configuration to a guest that is set up by it: create reads the  *)
(* document, looks at the host, stages the payload and makes an image of   *)
(* it, and the guest installs what the image holds when it boots for the   *)
(* first time.  Meanwhile the user edits the document, rebuilds the kernel *)
(* and replaces the files that are copied, and may stop the machine.       *)
(*                                                                         *)
(* One run, one command at a time and no overlay: what overlapping         *)
(* commands do to a run is the matter of RunLifecycle.                     *)
(***************************************************************************)
EXTENDS Config, Integers, Sequences

CONSTANTS
    Raws,        \* bound: the documents users write
    Dests,       \* the places in the guest that copy_files names
    ImageDirs,   \* those that are directories in the base image
    Copies,      \* bound: the copy_files of the documents that have any
    Releases,    \* of kernels
    BaseModules, \* the releases whose modules the base image has
    Archives,    \* bound: what users pack their modules as
    Namings,     \* bound: the base names of the artifacts
    Trees,       \* bound: payloads, in the order os.walk meets their entries
    MaxEdits     \* bound: what the user changes on the host

KiB == 1024
MiB == 1048576

PAYLOAD_IMAGE_ALIGN_BYTES == 4 * MiB
PAYLOAD_IMAGE_MIN_BYTES == 128 * MiB
PAYLOAD_IMAGE_BASE_OVERHEAD_BYTES == 64 * MiB

\* A directory with its number of subdirectories, or a file with its size.
Entry == [kind : {"dir", "file"}, n : Nat]

\* What the source of a mapping is on the host.
Types == {"file", "dir", "none"}

\* told: file(1) finds the release in the image.
Kernel == [release : Releases, told : BOOLEAN]

\* flat: every path begins with the release, not with lib/modules.
Archive == [releases : SUBSET Releases, flat : BOOLEAN]

Artifacts == {"kernel_modules_archive", "system_map", "config"}
BaseNames == {"modules", "map", "config"}

ASSUME RawsAssumption == Raws \subseteq [Fields -> Values]
ASSUME BaseModulesAssumption == BaseModules \subseteq Releases
ASSUME ArchivesAssumption == Archives \subseteq Archive
ASSUME NamingsAssumption == Namings \subseteq [Artifacts -> BaseNames]
ASSUME CopiesAssumption == Copies \in Seq([dest : Dests, name : BaseNames])
ASSUME TreesAssumption == Trees \subseteq Seq(Entry)
ASSUME MaxEditsAssumption == MaxEdits \in Nat

NoConfig == [field \in Fields |-> "absent"]
NoArchive == [releases |-> {}, flat |-> FALSE]

VARIABLES
    document, sources, kernel, archive, \* on the host
    names,       \* the base names of the artifacts
    edits,       \* how many changes the user made
    pc,          \* where the command is, or what the machine does
    index,       \* how many mappings stage_payload, or later the guest, has copied
    config,      \* the VMConfig that create validated
    checked,     \* create compared kernel and archive, and they are still the same
    snapshot,    \* config/input-config.yaml
    normalized,  \* config/normalized-config.yaml
    payload,     \* payload/copy_files: what is at <<index, name>>
    kernelFiles, \* payload/kernel: whose file is under the name
    archived,    \* what the staged archive holds
    script,      \* what provision-firstboot.sh takes the sources for
    walk,        \* the sum of calculate_payload_image_size
    image,       \* the size of payload.img, 0 without one
    seeded,      \* runtime.seed_image is set, and runtime.payload_image with it
    started,     \* the VMConfig of the last start
    release,     \* the kernel that runs
    step,        \* where cloud-init's runcmd is
    files,       \* the places in the guest
    modules,     \* the releases in /lib/modules and /usr/lib/modules
    bootConfig,  \* whose file /boot/config-kernelvm is
    status       \* what /var/lib/kernelvm/<run_id>.status says

host == <<document, sources, kernel, archive, names, edits>>
documents == <<config, snapshot, normalized>>
staged == <<payload, kernelFiles, archived, script>>
disks == <<walk, image, seeded>>
created == <<documents, staged, disks>>
guest == <<step, files, modules, bootConfig, status>>
vars == <<host, pc, index, checked, created, started, release, guest>>

NoWalk == [todo |-> <<>>, total |-> 0, inodes |-> 0, blocks |-> 0]

Init ==
    /\ document \in Raws
    /\ sources \in [DOMAIN Copies -> {"file", "dir"}]
    /\ kernel \in Kernel
    /\ archive \in Archives
    /\ names \in Namings
    /\ edits = 0
    /\ pc = "new"
    /\ index = 0
    /\ config = NoConfig /\ snapshot = NoConfig /\ normalized = NoConfig /\ started = NoConfig
    /\ checked = FALSE
    /\ payload = <<>> /\ kernelFiles = <<>> /\ script = <<>>
    /\ archived = NoArchive
    /\ walk = NoWalk
    /\ image = 0
    /\ seeded = FALSE
    /\ release = kernel.release
    /\ step = "fresh"
    /\ files = [d \in Dests |->
                  [type |-> IF d \in ImageDirs THEN "dir" ELSE "none", holds |-> {}]]
    /\ modules = BaseModules
    /\ bootConfig = "none"
    /\ status = "none"

-----------------------------------------------------------------------------
(* The user, who may do this between any two steps of the program.         *)

Edit ==
    /\ edits < MaxEdits
    /\ edits' = edits + 1
    /\ \/ /\ document' \in Raws
          /\ UNCHANGED <<sources, kernel, archive, checked>>
       \/ /\ \E i \in DOMAIN Copies, type \in Types : sources' = [sources EXCEPT ![i] = type]
          /\ UNCHANGED <<document, kernel, archive, checked>>
       \/ /\ kernel' \in Kernel /\ archive' \in Archives
          /\ checked' = FALSE
          /\ UNCHANGED <<document, sources>>
    /\ UNCHANGED <<names, pc, index, created, started, release, guest>>

-----------------------------------------------------------------------------
(* create.  A document or a host that is rejected leaves nothing behind.   *)

Load ==
    /\ pc = "new"
    /\ Accepted(document)
    /\ config' = Validated(document)
    /\ pc' = "check"
    /\ UNCHANGED <<host, index, checked, snapshot, normalized, staged, disks, started,
                   release, guest>>

\* The mappings of the configuration.
Mappings == IF config.copy_files = "specs" THEN DOMAIN Copies ELSE {}

\* Variant: nobody looks.
ExistsAlways(i) == TRUE

Exists(i) == sources[i] # "none"

\* An archive of which the release is not one and only one tells none.
ArchiveTold == \E r \in Releases : archive.releases = {r}

\* Variant: what was found is not compared.
CompatibleAlways == TRUE

\* _validate_kernel_artifact_compatibility
Compatible ==
    kernel.told /\ ArchiveTold => archive.releases = {kernel.release}

\* A host may also be rejected for its tools, its bridge or a file that is missing.
ValidateHost ==
    /\ pc = "check"
    /\ \/ /\ Compatible
          /\ \A artifact \in RequiredArtifacts \cup OptionalArtifacts : config[artifact] # "dot"
          /\ \A i \in Mappings : Exists(i)
          /\ pc' = "snapshot"
          /\ checked' = (kernel.told /\ ArchiveTold)
       \/ pc' = "new" /\ checked' = FALSE
    /\ UNCHANGED <<host, index, created, started, release, guest>>

\* persist_run_config reads the document again, and writes what was validated.  What
\* it cannot read or write is an OSError before the run's first record: the run has
\* its directories then, but no command finds it.
Snapshot ==
    /\ pc = "snapshot"
    /\ \/ snapshot' = document /\ normalized' = ToDict(config) /\ pc' = "stage"
       \/ snapshot' \in {snapshot, document} /\ UNCHANGED normalized /\ pc' = "lost"
    /\ UNCHANGED <<host, index, checked, config, staged, disks, started, release, guest>>

\* Variant: all mappings share a directory.
TargetShared(i) == <<0, Copies[i].name>>

\* entry_dir / copy_spec.src.name
Target(i) == <<i, Copies[i].name>>

\* The type is read, and then the source is copied as that; a source that is not
\* there is an OSError, which nothing catches.
Stage ==
    /\ pc = "stage"
    /\ index + 1 \in Mappings
    /\ LET i == index + 1
       IN  IF Exists(i)
           THEN /\ payload' = [at \in DOMAIN payload \cup {Target(i)} |->
                               IF at = Target(i) THEN [type |-> sources[i], of |-> i] ELSE payload[at]]
                /\ index' = i /\ UNCHANGED pc
           ELSE pc' = "failed" /\ UNCHANGED <<index, payload>>
    /\ UNCHANGED <<host, checked, documents, kernelFiles, archived, script, disks, started,
                   release, guest>>

\* _payload_kernel_artifacts, in its order.
Order == <<"kernel_modules_archive", "system_map", "config">>

Configured == {k \in 1..3 : config[Order[k]] # "None"}

\* The artifact that is copied last under a base name.
LastNamed(name) ==
    Order[CHOOSE k \in Configured :
            /\ names[Order[k]] = name
            /\ \A l \in Configured : names[Order[l]] = name => l <= k]

\* They are copied under their base names, each over what has the name already; one
\* that has gone is an OSError.
StageKernel ==
    /\ pc = "stage"
    /\ index + 1 \notin Mappings
    /\ \/ /\ kernelFiles' = [name \in {names[Order[k]] : k \in Configured} |-> LastNamed(name)]
          /\ archived' = archive
          /\ pc' = "script"
       \/ pc' = "failed" /\ UNCHANGED <<kernelFiles, archived>>
    /\ UNCHANGED <<host, index, checked, documents, payload, script, disks, started, release,
                   guest>>

\* build_firstboot_script looks at the sources again, on the host.
WriteScript ==
    /\ pc = "script"
    /\ script' = [i \in Mappings |-> IF sources[i] = "dir" THEN "dir" ELSE "file"]
    /\ \E tree \in Trees : walk' = [NoWalk EXCEPT !.todo = tree]
    /\ pc' = "walk"
    /\ index' = 0
    /\ UNCHANGED <<host, checked, documents, payload, kernelFiles, archived, image, seeded,
                   started, release, guest>>

Blocks(size) == (size + 4 * KiB - 1) \div (4 * KiB)

\* One entry of os.walk; blocks is what the file system will need for it.
Visit ==
    /\ pc = "walk"
    /\ walk.todo # <<>>
    /\ LET entry == Head(walk.todo)
       IN  walk' = [todo   |-> Tail(walk.todo),
                    total  |-> walk.total + (IF entry.kind = "file" THEN entry.n ELSE 0),
                    inodes |-> walk.inodes + (IF entry.kind = "file" THEN 1 ELSE 1 + entry.n),
                    blocks |-> walk.blocks + (IF entry.kind = "file" THEN Blocks(entry.n) ELSE 1)]
    /\ UNCHANGED <<host, pc, index, checked, documents, staged, image, seeded, started,
                   release, guest>>

\* Variant: rounded down.
AlignDown(value, alignment) == value - (value % alignment)

_align_up(value, alignment) ==
    LET remainder == value % alignment
    IN  IF remainder = 0 THEN value ELSE value + alignment - remainder

Larger(a, b) == IF a >= b THEN a ELSE b

calculate_payload_image_size ==
    LET overhead == PAYLOAD_IMAGE_BASE_OVERHEAD_BYTES
                    + Larger(16 * MiB, walk.total \div 10) + walk.inodes * (4 * KiB)
    IN  _align_up(Larger(PAYLOAD_IMAGE_MIN_BYTES, walk.total + overhead),
                  PAYLOAD_IMAGE_ALIGN_BYTES)

\* mkfs.ext4 may fail, and then the image is removed again.
BuildImage ==
    /\ pc = "walk"
    /\ walk.todo = <<>>
    /\ \/ image' = calculate_payload_image_size /\ pc' = "seed"
       \/ image' = 0 /\ pc' = "failed"
    /\ UNCHANGED <<host, index, checked, documents, staged, walk, seeded, started, release,
                   guest>>

\* cloud-localds
BuildSeed ==
    /\ pc = "seed"
    /\ \/ seeded' = TRUE /\ pc' = "launch"
       \/ seeded' = FALSE /\ pc' = "failed"
    /\ UNCHANGED <<host, index, checked, documents, staged, walk, image, started, release,
                   guest>>

-----------------------------------------------------------------------------
(* start_vm, of create and of start; and stop.                             *)

\* QEMU reads the kernel that is on the host now.
Boot(loaded) ==
    /\ seeded
    /\ started' = loaded
    /\ release' = kernel.release
    /\ pc' = "running"

LaunchFails == pc' = "failed" /\ UNCHANGED <<started, release>>

Launch ==
    /\ pc = "launch"
    /\ Boot(config) \/ LaunchFails
    /\ UNCHANGED <<host, index, checked, created, guest>>

\* A run whose create failed may be started too, if it has come to its seed image.
StartAgain ==
    /\ pc \in {"off", "failed"}
    /\ \/ Accepted(normalized) /\ Boot(Validated(normalized))
       \/ LaunchFails
    /\ UNCHANGED <<host, index, checked, created, guest>>

\* Variant: cloud-init goes on at the next boot where it was.
StopToGoOn ==
    /\ pc = "running"
    /\ pc' = "off"
    /\ UNCHANGED <<host, index, checked, created, started, release, guest>>

\* Or the machine stops by itself.  What cloud-init has begun it does not begin again at the next boot.
Stop ==
    /\ pc = "running"
    /\ pc' = "off"
    /\ step' = IF step \in {"fresh", "done"} THEN step ELSE "cut"
    /\ UNCHANGED <<host, index, checked, created, started, release, files, modules,
                   bootConfig, status>>

-----------------------------------------------------------------------------
(* The guest: the locator and provision-firstboot.sh, once in a run.       *)

\* Variant: the seed comes last.
SeedLast(vm) ==
    IF vm.disk_bus = "virtio" THEN <<"overlay", "payload", "seed">> ELSE <<"payload", "seed">>

\* The disks at /dev/vda, /dev/vdb, ...; on another bus the overlay is /dev/sda.
VirtioDisks(vm) ==
    IF vm.disk_bus = "virtio" THEN <<"overlay", "seed", "payload">> ELSE <<"seed", "payload">>

Ends(result) == step' = "done" /\ status' = result

\* /dev/vd[b-z] and /dev/sd[b-z]; overrides with a runcmd replace the locator's.
Locate ==
    /\ pc = "running"
    /\ step = "fresh"
    /\ started.cloud_init_user_data_overrides = "{}"
    /\ IF \E i \in 2..Len(VirtioDisks(started)) : VirtioDisks(started)[i] = "payload"
       THEN step' = "copy" /\ UNCHANGED status
       ELSE Ends("payload device not found")
    /\ UNCHANGED <<host, pc, index, checked, created, started, release, files, modules,
                   bootConfig>>

\* mkdir -p dest and cp -a item/. dest/ for what the script takes for a directory,
\* cp -a item dest for the rest; a directory copied into another is one too deep.
Leaves(taken, item, at, after) ==
    LET merged == [type |-> "dir", holds |-> at.holds \cup {item.of}]
    IN  \/ taken = "dir" /\ item.type = "dir" /\ at.type # "file" /\ after = merged
        \/ taken = "file" /\ item.type = "file" /\ at.type = "dir" /\ after = merged
        \/ /\ taken = "file" /\ item.type = "file" /\ at.type # "dir"
           /\ after = [type |-> "file", holds |-> {item.of}]
        \/ taken = "file" /\ item.type = "dir" /\ at.type = "none" /\ after = merged
        \/ taken = "file" /\ item.type = "dir" /\ at.type = "dir" /\ after = at

Provisions(at) == pc = "running" /\ step = at

\* A command that fails ends the script, by way of the ERR trap.
Copy ==
    /\ Provisions("copy")
    /\ index + 1 \in DOMAIN script
    /\ LET i == index + 1
           dest == Copies[i].dest
       IN  \/ /\ \E after \in [type : Types, holds : SUBSET DOMAIN Copies] :
                   /\ Leaves(script[i], payload[Target(i)], files[dest], after)
                   /\ files' = [files EXCEPT ![dest] = after]
              /\ index' = i
              /\ UNCHANGED <<step, status>>
           \/ Ends("failed") /\ UNCHANGED <<index, files>>
    /\ UNCHANGED <<host, pc, checked, created, started, release, modules, bootConfig>>

\* tar -C /, which fails on anything but an archive.
Extract ==
    /\ Provisions("copy")
    /\ index + 1 \notin DOMAIN script
    /\ \/ /\ kernelFiles[names.kernel_modules_archive] = "kernel_modules_archive"
          /\ modules' = modules \cup (IF archived.flat THEN {} ELSE archived.releases)
          /\ step' = "modules"
          /\ UNCHANGED status
       \/ Ends("failed") /\ UNCHANGED modules
    /\ UNCHANGED <<host, pc, index, checked, created, started, release, files, bootConfig>>

\* Variant: any modules will do.
CheckAnyModules ==
    /\ Provisions("modules")
    /\ IF modules # {} THEN step' = "boot" /\ UNCHANGED status ELSE Ends("none")
    /\ UNCHANGED <<host, pc, index, checked, created, started, release, files, modules,
                   bootConfig>>

\* The exit of a mismatch is no failed command: no status is written.
CheckModules ==
    /\ Provisions("modules")
    /\ IF release \in modules THEN step' = "boot" /\ UNCHANGED status ELSE Ends("none")
    /\ UNCHANGED <<host, pc, index, checked, created, started, release, files, modules,
                   bootConfig>>

\* Whether cp succeeds does not matter.
CopyBootConfig ==
    /\ Provisions("boot")
    /\ \/ config.config # "None" /\ bootConfig' = kernelFiles[names.config]
       \/ UNCHANGED bootConfig
    /\ step' = "commands"
    /\ UNCHANGED <<host, pc, index, checked, created, started, release, files, modules,
                   status>>

\* The user's commands may succeed, fail, or exit.
FirstBootCommands ==
    /\ Provisions("commands")
    /\ \E result \in {"success", "failed", "none"} : Ends(result)
    /\ UNCHANGED <<host, pc, index, checked, created, started, release, files, modules,
                   bootConfig>>

Create == Load \/ ValidateHost \/ Snapshot \/ Stage \/ StageKernel \/ WriteScript \/ Visit
          \/ BuildImage \/ BuildSeed \/ Launch

Guest == Locate \/ Copy \/ Extract \/ CheckModules \/ CopyBootConfig \/ FirstBootCommands

Next == Edit \/ Create \/ StartAgain \/ Stop \/ Guest

Spec == Init /\ [][Next]_vars

-----------------------------------------------------------------------------
TypeOK ==
    /\ document \in Raws
    /\ sources \in [DOMAIN Copies -> Types]
    /\ kernel \in Kernel
    /\ archive \in Archive /\ archived \in Archive
    /\ names \in [Artifacts -> BaseNames]
    /\ edits \in 0..MaxEdits
    /\ pc \in {"new", "check", "snapshot", "stage", "script", "walk", "seed", "launch",
               "running", "off", "failed", "lost"}
    /\ index \in Nat
    /\ checked \in BOOLEAN
    /\ \A c \in {config, snapshot, normalized, started} : c \in [Fields -> Values \cup {"None"}]
    /\ \A at \in DOMAIN payload :
         payload[at].type \in {"file", "dir"} /\ payload[at].of \in DOMAIN Copies
    /\ \A name \in DOMAIN kernelFiles : name \in BaseNames /\ kernelFiles[name] \in Artifacts
    /\ \A i \in DOMAIN script : script[i] \in {"file", "dir"}
    /\ walk \in [todo : Seq(Entry), total : Nat, inodes : Nat, blocks : Nat]
    /\ image \in Nat
    /\ seeded \in BOOLEAN
    /\ release \in Releases
    /\ step \in {"fresh", "copy", "modules", "boot", "commands", "done", "cut"}
    /\ files \in [Dests -> [type : Types, holds : SUBSET DOMAIN Copies]]
    /\ modules \subseteq Releases
    /\ bootConfig \in Artifacts \cup {"none"}
    /\ status \in {"none", "payload device not found", "failed", "success"}

\* However often the run is started, and whatever became of the document since,
\* it is started with the configuration that create has validated: what
\* normalized-config.yaml says of it is accepted and reads as the same.
StartsAsCreated ==
    /\ pc = "running" => started = config
    /\ seeded => Accepted(normalized)

\* The script took the source of a mapping for what was staged.
Taken(i) == script[i] = payload[Target(i)].type

LastToDest(i) == \A j \in DOMAIN script : Copies[j].dest = Copies[i].dest => j <= i

\* A guest that reports success has, at each dest, the source of the last mapping
\* to it, unless that changed its type while the payload was made; and what
\* /boot/config-kernelvm holds is the kernel's config whatever the base names are.
Delivered ==
    /\ status = "success" =>
         \A i \in DOMAIN script : Taken(i) /\ LastToDest(i) => i \in files[Copies[i].dest].holds
    /\ bootConfig \in {"none", "config"}

\* When a guest reports success, there are modules for the kernel that it runs,
\* whichever archive was staged and whatever else has the archive's base name.
ModulesMatch == [][status' = "success" /\ status # "success" => release \in modules]_vars

\* Where create could compare the kernel and the archive, and neither changed since,
\* the first boot ends in no mismatch, unless the archive is a flat one: that
\* passes for an archive of the release, but is not unpacked to lib/modules.
CheckedFits == checked /\ step = "modules" /\ ~archived.flat => release \in modules

\* The image is a multiple of 4 MiB and holds every file and directory of the
\* payload in blocks of 4 KiB, with 64 MiB and a tenth of the files to spare.
ImageFits ==
    image # 0 =>
        /\ image % PAYLOAD_IMAGE_ALIGN_BYTES = 0
        /\ image >= PAYLOAD_IMAGE_MIN_BYTES
        /\ image >= walk.blocks * (4 * KiB) + PAYLOAD_IMAGE_BASE_OVERHEAD_BYTES + walk.total \div 10

\* On every disk_bus the payload is among the devices the locator looks at.
PayloadFound == status # "payload device not found"
=============================================================================
