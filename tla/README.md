# A verification project for kernelvm

kernelvm builds and runs virtual machines for kernel tests: a YAML file goes in,
a run directory with a qcow2 overlay, a cloud-init seed, a payload image and a
daemonized QEMU comes out. There is no server. Every command is a process that
reads `metadata.json`, works on a private copy and writes the whole file back;
nothing locks the work root. What can go wrong is therefore mostly a matter of
order: of commands that overlap or are cut short, of a guest and a host that
change while they are looked at, of records that outlive what they describe.

The project consists of TLA+ modules that model the code, TLC runs that check
them on small instances, and proofs, checked by TLAPS, for every instance.
`PROJECT.json` lists runs, mutants (a plausible bug for every property, which the
run must catch), the source lines behind every definition, findings, hazards and
theorems.

## The system

| Component | State | Operations | Talks to |
|---|---|---|---|
| Run lifecycle (`cli.py`, `runs.py`, `utils.py`) | `work/<run>/metadata.json` and directories | create, start, stop, destroy, status, ssh-info, list-runs | everything below |
| QEMU control (`qemu.py`, `qmp.py`) | the process, `qemu.pid`, QMP socket, overlay | create_overlay, start_vm, stop_vm, attach_console | QEMU, qemu-img, socat |
| Provisioning (`provision.py`) | payload, payload image, seed image; in the guest: files, modules, a status | stage_payload, build_payload_image, render; the locator and the first-boot script | mkfs.ext4, cloud-localds, cloud-init |
| Network readiness (`network.py`, `host_network.py`) | five fields of the record | observe_network, assess_network_readiness | `ip neigh`, serial log, sysfs |
| Terminal interface (`tui.py`) | TuiState | the keys | the commands, the work root |
| Configuration (`config.py`, `models.py`) | a VMConfig, input-config.yaml, normalized-config.yaml | load, validate, host checks, to_dict | YAML files, file, tar |
| Bridge setup (`br_setup`) | NetworkManager connections, bridge.conf | setup, check-only, dry-run | nmcli, ip, bridge, ping |

What is hard in it:

* *Concurrency.* Terminals, cron jobs and the TUI use one work root without locks;
  the check for an active run and the launch that makes one active are seconds
  apart, the record of the launch up to 90 seconds later.
* *Crashes.* Ctrl-C, a kill or a full disk may hit between any two system calls;
  `metadata.json` is truncated before it is written.
* *Stale state.* Records outlive processes; addresses and verdicts outlive boots;
  a selected run outlives its directory.
* *Timeouts.* 30 seconds of grace in stop, then SIGTERM, then SIGKILL; 90 seconds
  of readiness wait, during which QEMU may exit; no timeout at all for QMP.
* *Observation.* A verdict about the network is put together from three looks at a
  host that changes between them; so is the verdict of `br_setup`.
* *Inputs that move.* The document, the files to copy and the kernel stay the user's:
  create reads the document twice and looks at every source up to three times, and
  QEMU opens the kernel anew at every start.
* *Half-done work.* `br_setup` ends at the first command that fails, the first-boot
  script is begun once in the life of a run.

What makes each component correct: one machine at a time, none lost, none
destroyed while alive, destroyed ones gone (lifecycle); a process to be stopped
ends (QEMU control); a run is never booted from artifacts that were not built
(lifecycle); a guest that reports success has what the configuration says, and no guest is set up
twice (provisioning); verdicts that fit together and answer to the present boot
(readiness); keys that act on what was on the screen (interface); a
configuration that survives its round trip; a setup script that can be run again
and whose verdict kernelvm shares.

## The modules

**RunLifecycle** is the core. One action is one system call, or one child process,
whose effect another command can see. An operator's command is a program counter
`pc[c]`, the run it works on, its private record `md[c]`, and, for commands that
list, the files to read and what was read. The record is cut down to what commands
decide on: `state`, `runtime.pid`, and whether `runtime.seed_image` is set.
`store` is what a reader of `metadata.json` finds, including an empty file after
truncation and a garbled one after two writers; `writers` are the commands that
have it open; `disk` says how far the other files of the run are; `vm`, `owner`
and `pidfile` are QEMU. `Interrupt` ends a command anywhere, `SaveFails` makes
a save raise OSError; both count against `MaxCuts`. `cut` is a history variable:
the runs for which such a fault lost an update that mattered (`Exposed` says when).

**RunService** is what one user at a time sees: runs are none, defined, active or
gone, and at most one is active. **RunRefinement** maps RunLifecycle to it:
a run is active when a live process belongs to it, gone when its rmtree is
complete. **MCRunLifecycle** adds the symmetry sets for TLC (operators, runs and
processes are only compared; no liveness run uses symmetry). Two actions allow more
than one build of the code does: after a failure at its first files a create may leave
the run's directories or nothing (`MakeRunFails`), and what `shutil.rmtree` does about a
directory that another destroy has emptied, or removed, meanwhile depends on the version
of Python, so that `RemoveFails` is possible there and not forced.

**NetworkReadiness** follows one run and one command at a time, but at a finer
grain: neighbour table, serial log and bridge are read in three steps
(`LookAtNeigh`, `LookAtSerial`, `LookAtBridge`), the verdict is a fourth
(`Judge`), and in between the guest prints, gets an address or dies, neighbour entries
expire and the bridge changes. The serial log is appended to from boot to boot, as
QEMU's `logappend=on` does; the failures it may hold keep the precedence of
`_classify_serial_failure`, and the hand-over to init is derived from whether
userspace printed something after the last such line.

**TuiSession** is the event loop of the interface: draw, key, the action in the
steps in which it reads the work root, and back. The commands it calls are single
steps with their possible outcomes here, since RunLifecycle has their detail;
other terminals act between any two steps. `perform_action` shows an AppError; any other
exception of a command (a record another terminal is writing, a process or a directory that
is gone by the time it is signalled or removed) ends the interface (`Break`, "broken").
The help line says `q quit`, but `perform_action` asks for a selected run first, so that
without any run `q` only reports that there is none (`NothingSelected`). `screen` is a history
variable: the run and the question the screen showed when the key was typed.

**BridgeSetup** is `br_setup`, command by command, in any number of terminals.
`profiles` counts NetworkManager's connections of each name (nmcli adds a second
one without complaint), `conf` is bridge.conf as a sequence of kinds of lines,
with or without a newline at its end, because `>>` goes on behind an unterminated
line. `found` is the outcome of the last `connection_exists` or grep, used a step
later. The network (device, operstate, members, default routes) changes at any
time, also between two looks of `sanity_test`; `steady` says that it did not. The
awk program of `gateway_for_bridge` is modelled by what its variables have after a
line. `Fail` is `set -e`, die and Ctrl-C at any point. `KernelvmAccepts` is what
host_network.py asks of a bridge. **MCBridgeSetup** has the networks and files.

**Config** has no state: which document `validate_config` accepts, what it makes of
it, what `to_dict` writes. A field has one of a few kinds of value, as many as
are treated differently (blank, padded, with a tilde, null, a list with padded
entries, ...).

**Provisioning** uses it and goes from the document to the guest: `create` as a
sequence of `Load`, `ValidateHost`, `Snapshot`, `Stage` for each mapping,
`StageKernel`, `WriteScript`, `Visit` for each entry of the payload, `BuildImage`,
`BuildSeed`, `Launch`; then, in the guest, `Locate`, `Copy`, `Extract`,
`CheckModules`, `CopyBootConfig`, `FirstBootCommands`. `Edit` is the user, at any time.
`Stop` may cut the first boot short; cloud-init does not begin again. A create whose
`Snapshot` fails once the directories are made ends as "lost": there is no record, and no
command finds the run. A payload file is
where its mapping put it (`payload`), a kernel artifact under its base name, which may
be that of another one (`kernelFiles`). The size of the image is computed with the
code's own numbers; `walk.blocks` is what the files need on ext4. `checked` is a
history variable. **MCProvisioning** has documents, archives, names and payloads.

**Delivery** is what the writer of a document sees of it: an order that is accepted
once, machines that have what was ordered, one setup of the guest and one report.
**ProvisioningRefinement** maps Provisioning to it: there is an order once the host is
accepted too, a machine has the configuration it was started with, and the setup goes on
from the locator to the end of the script, or to the end of the machine.

The modules that hold proofs: **RunLifecycleProofs** (types, and records when commands
overlap), **RunLivenessProofs** (commands end, stop kills), **RunSerialProofs** (one
command at a time), **RunRefinementProofs** (the service), **TuiSessionProofs**,
**NetworkReadinessProofs**, **BridgeSetupProofs** and **ProvisioningProofs** (every
safety property of these modules; the liveness of the first two; that Delivery is
implemented).

## The runs

| Run | Question | Bounds |
|---|---|---|
| lifecycle_serial | Do commands that do not overlap keep what RunService promises? | 2 operators in turn, 2 runs, 3 processes, 1 fault |
| lifecycle_overlap | Are records sound however commands overlap and fail, and does every command, and every process to be stopped, end? | create, stop, destroy and list-runs, 2 operators, 1 run, 1 process, 1 fault |
| network_ready | Are verdicts right while the world changes? | 1 address, 2 failures in the log, 2 boots, 1 further poll |
| tui_session | Do keys act on what was shown? | 2 runs, any number of changes by others |
| bridge_setup | Can the script be run again, and is its verdict right? | 2 scripts begun any number of times, 5 networks, 4 files |
| provisioning | Does the guest get what the configuration says? | 5 documents, 3 mappings to 2 places, 3 archives, 3 namings, 2 payloads, 1 edit |
| six further runs | one finding each, see below | |

Why the bounds are enough to be of use: two runs and two processes are what it takes
to have a second machine, two operators to have a race, one fault to have a
crash between any two steps (with a second fault the first run is exempt already),
two boots to have stale state, and one further poll to have a wait that goes on and
one that ends. Two scripts are a race, and one script begun again is a re-run; the
networks are one for each check of the sanity test that can fail, and one in
which routes of other devices come first; the files are an empty one, one with a line that
only begins like the one wanted, one that has it, one that has it without a newline. Two mappings to
one place and one to another are what it takes to overwrite and not to; one edit is a
change between any two steps; the namings are all distinct, archive and config
apart from a clash, and a clash of the archive; the payloads are one below and one
above the smallest image. The mutants confirm that the
interesting cases are reached: each of them is caught under these very bounds.

What lifecycle_overlap leaves open: start and status, which after their load take the steps
that create and list-runs take too, and a second fault. `RunningIffPid` and `SeedIsReal` are
proved for every command and any number of faults. `CommandsEnd` and `StopKills` are proved
for these too, but from a hypothesis about ENABLED (see the proofs), which the run covers
within its own bounds only.

Deadlock is checked, except in provisioning: there a create whose document or host
is rejected ends, and nothing happens any more once the edits are used up.

What the properties say, in short (the modules state each in full):

* RunLifecycle, overlapping commands: `RunningIffPid`, `PidBelongsToRun` (a
  command never signals another run's machine), `SeedIsReal`; `CommandsEnd` (every
  command ends, unless it is a stop or destroy that waits for a living QEMU to answer on
  QMP); `StopKills` (once the QMP exchange is over, the process ends, unless there is a
  further fault: a stop that is interrupted between its signals owes nothing).
* RunLifecycle, one command at a time: `Accounted` (no live machine is lost),
  `AtMostOneActive`, `Listed` (no disk image that no command finds; a create that fails
  before its first save leaves directories that none finds), `DestroyOnlyDead`,
  `DestroyIsFinal`, `ImplementsService`. They exempt the runs in `cut`; they do not exempt
  the time *after* a harmless interrupt, nor the other runs.
* NetworkReadiness: `VerdictsFit`, `NotMissed` (an address that stays visible for a
  round is found, whatever bridge and log say), `ExitNoticed`, `StaysReady` (within one
  boot: what a command has told the user stays in the record until QEMU is gone; that
  the next boot inherits it is the finding network_stale_ready), `CommandsEnd`.
* TuiSession: `DestroyWasAsked`, `TargetWasShown`, `ConfirmIsSelected`,
  `NeverStuck`, `LiveCloses`.
* BridgeSetup: `NoDuplicates` (unless two scripts overlapped), `PassedIsSetUp` (also
  if they did: both connections, and a line of its own in bridge.conf that allows the bridge;
  it holds where bridge.conf does not end in the middle of a line, and bridge_glued
  shows the other case), `PassedIsAccepted` (kernelvm agrees with the sanity test),
  `PingsBridge`. The last asks that the bridge's default routes have gateways:
  `gateway` is not reset from line to line, and without that condition the
  ping may go to the gateway of another interface, as the fifth network shows.
* Provisioning: `StartsAsCreated` (what was validated survives to_dict, YAML and a
  second validation, whatever became of the document), `Delivered` (the last source
  for each place arrives), `ModulesMatch` (no success without modules for the kernel
  that runs), `CheckedFits` (create's comparison of kernel and archive is worth
  something; a flat archive is exempt: it passes the comparison, but `tar -C /` does not put it
  under lib/modules), `ImageFits`, `PayloadFound`, `ImplementsDelivery` (whatever is edited
  and however the run is stopped and started, one order, at most one setup of the guest,
  one final report).

**Fairness.** RunLifecycle: each operator's running command takes its next step
(`WF_vars(Unblocked(c))`: child processes and rmtree are taken to end; beginning a
command and faults are not fair), and the kernel delivers SIGKILL. The QMP exchange is fair
only when QEMU is gone, and the socket with it: `qmp.py` connects and reads without a
timeout, so a QEMU that lives and does not answer holds stop and destroy for ever, before any
signal. `CommandsEnd` names that case, `AwaitsQmp`, and `StopKills` begins behind it. A guest
is not assumed to react to the power button or to SIGTERM. NetworkReadiness: the
command goes on (sleeps and `ip neigh` end); the guest and the host owe nothing.
TuiSession: the loop goes on, because getch gives up after a second; nobody has to
press a key. (A stop that the interface has called may wait for QMP; but `LiveCloses`, the
only property that uses the fairness, speaks of a live console, and no command is called
while there is one.) BridgeSetup and Provisioning state no liveness: nmcli, mkfs.ext4 and the
user's first-boot commands may hang, and nothing in the code bounds them.

**Findings.** Six runs expect a violation; each checks one sentence of the
repository against the code.

* `lifecycle_two_creates`: "`create` refuses to start a second run while another run is
  active" fails when two creates overlap. It fails as well when a create is
  interrupted after the launch and before the save of the pid, with MaxCuts = 1 and
  without any overlap; `Accounted` and `AtMostOneActive` exempt the runs to which that
  happened (`cut`).
* `lifecycle_resurrected`: "Remove the run completely" fails when a status that
  read the record before the destroy saves it afterwards.
* `network_stale_ready`: "ready only when the tool observes a usable IPv4 address"
  fails for a restarted guest, whose record has the address of the boot before.
* `network_sticky_timeout`: "before the readiness timeout" is reported by a start
  that did not wait, because the verdict of the boot before is still in the record.
* `tui_errors`: errors of the two console actions end the interface.
* `bridge_glued`: "updates `/etc/qemu/bridge.conf`" and a sanity test that passes, yet
  where the file ended without a newline the line went onto its last one, and QEMU's
  helper refuses the bridge.

## The proofs

The theorems hold for every value of the constants, under the assumptions named
in the modules (RunLifecycle: the constants have their types, and `NoRun` and `NoPid`
are no members of `Runs` and `Pids`; TuiSession: `NoRun` is not in `Ids`;
NetworkReadiness: `NoIp` and `NoReason` are no address and no reason; BridgeSetup:
bridge.conf does not allow the bridge twice before the first script; Provisioning: the
constants have their types). `PassedIsSetUpHolds` names one more, `NothingToGlue`: a
bridge.conf that does not allow the bridge yet does not end in the middle of a line. Those
on the serial discipline assume `Overlap = FALSE` in the theorem.

1. `TypeCorrect`: `TypeOK` is inductive by itself, with one step per action.
2. `RunningIffPidHolds`, `PidBelongsToRunHolds`, `SeedIsRealHolds`: on top of the
   types, `RecordInv` adds what the three need of commands in flight, of the
   pidfile and of unused processes (a process without owner is in nobody's record, a
   pidfile names a process of its run). It holds however commands overlap.
3. `AccountedHolds`, `AtMostOneActiveHolds`, `ListedHolds`,
   `DestroyOnlyDeadHolds`, `DestroyIsFinalHolds`: none is inductive.
   `SerialInv` says that at most one command is under way (`OneCommand`) and, for
   it, what each program counter knows: which command and record state go with it
   (`LabelInv`), that what list_runs has read is still what the files say
   (`ScanInv`), that no machine is alive from the check to the launch (`LaunchInv`),
   which processes the record in hand accounts for (`KnowsInv`) and how far the
   run's files are (`FilesInv`). `LaunchInv` is where the check for an active run
   earns its place: with overlapping commands it is what fails.
4. `ImplementsServiceHolds`: with `SerialInv` and `UsedInv` (a process belongs to a
   run that has been used) every step of RunLifecycle is, under the mapping of
   RunRefinement, Create, Boot, Halt or Remove of RunService, or a stutter.

5. `DestroyWasAskedHolds`, `TargetWasShownHolds`, `ConfirmIsSelectedHolds`: the
   properties speak of the key and of the action, and between the two the run is
   looked up in up to four steps. `SessionInv` carries the key's knowledge over
   them: an answer travels with the question it was given to (`AnswerInv`), the run
   looked up is the one shown until that one is missed (`TargetInv`), and a live
   console leaves no question open (`LiveInv`). For these, types are not needed, only
   that records have their fields (`ShapeInv`). `SessionTypes` proves them apart.
   In the model `select_initial_run` is a choice of the first run that satisfies a
   condition, not a filter of the list, which would be recursive.

6. `NetworkTypes`, `VerdictsFitHolds`, `NotMissedHolds`, `ExitNoticedHolds`,
   `StaysReadyHolds`: the properties speak of a saved record or of the end of a
   round. `RecordsInv` says that saved record and record in hand fit, that an
   address the record has has been taken over by the first look, that the wait goes
   on only while nothing is known, and that what was told is what the record says; `LooksInv` says where an address that has been
   visible all along is known from after each look; `ExitInv` that a QEMU found dead
   stays dead until the round is over.
7. `BridgeTypes`, `NoDuplicatesHolds`, `PassedIsSetUpHolds`, `PassedIsAcceptedHolds`,
   `PingsBridgeHolds`: `SetUpInv` gives, for each program counter, what the steps before
   it have left; `EndedInv` that nothing is appended to a bridge.conf that does not end;
   `TestedInv` what the looks so far have established if the network is steady;
   `OneAtATimeInv` what `found` says while no other script is under way.
8. `ProvisioningTypes`, `StartsAsCreatedHolds`, `DeliveredHolds`, `CheckedFitsHolds`,
   `ImageFitsHolds`, `PayloadFoundHolds`, `ModulesMatchHolds`: lemma `RoundTrip` proves
   for every document, field by field, that `Validated` is undone by `ToDict` and a
   second `Validated`; with `ConfigInv` this is `StartsAsCreated`. `AlignUp` and
   `ImageIsLarge` are the arithmetic of the image size, with `ImageInv` for the walk.
   `ImplementsDeliveryHolds` maps each step to one of Delivery or to a stutter: every boot is
   one with the order by `ConfigInv`, and no setup is over before it began, because the
   locator finds the payload (`PayloadIsThere`).
   `LastNames` is about base names that clash; `PayloadInv` says that what is staged
   stays where its mapping put it, `DeliveredInv` that after each copy the last source
   so far is in its place, `ModulesInv` what each step of the guest's script implies.

9. Liveness. TLAPS cannot reason about ENABLED, but its temporal prover does the rest
   if it is told that fair actions are enabled. `NeverStuck` says just that, and it is a
   hypothesis, `[]NeverStuck`, of the theorems that follow; everything else in them is proved,
   for every value of the constants, but for one instance of induction, named below. TLC
   checks it as an invariant of TuiSession, where it is a property of its own: no list and no
   record that changed leaves the interface without a way out. Of RunLifecycle and
   NetworkReadiness it is only a hypothesis, stated beside the proofs: a command without a next
   step would never end, so the runs that check `CommandsEnd` would show it.
   * `LiveClosesHolds` is TuiSession's `LiveCloses`: `LiveConsoleCloses` follows the loop
     through draw and refresh to the action that closes the console.
   * `CommandsEndHolds` of RunLivenessProofs is RunLifecycle's `CommandsEnd`, for any
     finite set of runs. Past its scan, a command climbs a rank of 18 places, the order
     of the program counter: `RankRises` for its own steps, `OwnOrSame` for those of
     others, which leave it where it is. In the two loops the program counter comes
     back, so there the measure is what is left: files to read (`ScanRound`) and, after
     these, records to save (`ListRound`). Each round makes the set that is left strictly
     smaller, whatever others create and destroy meanwhile, and the loop that follows
     starts below the one before it (`Work`). The one place a command may stay at is
     "powerdown", while a QEMU of its run lives (`Blocked`): either it is there for good
     (`AwaitsQmp`) or it goes on. Interrupts and failed saves are allowed.
   * `CommandsEndHolds` of NetworkReadinessProofs is its `CommandsEnd`, for any number of
     polls: a round of looks ends with fewer rounds left, and the last one ends the
     command (`RoundEnds`).
   * `StopKillsHolds` is `StopKills`: from the end of the QMP exchange over SIGTERM to SIGKILL each
     step of the command leads to the next escalation or finds the process dead,
     and SIGKILL works. A further fault releases the command from it, whoever it hits.

   In both modules `Ends(n)` says that with at most n rounds to go the loops end;
   `LastRoundEnds` proves it for 0 and `EarlierRoundsEnd` for n + 1 from n. The conclusion
   for every n, `RoundInduction`, is an instance of the library's `NatInduction`, and a
   hypothesis of both theorems: NatInduction has an operator as its parameter, which
   none of the provers instantiates, and the detour over the set of the n for which it holds
   is closed, because TLA+ has no sets of temporal formulas. It holds in every behaviour.

Only model-checked: `NeverStuck` of TuiSession, because ENABLED is beyond the prover. Every
other property of the passing runs is a theorem, the liveness properties under `[]NeverStuck` and, for `CommandsEnd`, `RoundInduction`.

## Not modelled

Reuse of process ids (with it, a recorded pid may be a stranger's; nothing in the
code guards against it). Different users, and so EPERM. A work root that is moved.
The text of the QEMU command line and of cloud-init data. The QMP exchange below "it
ends or it does not". In TuiSession, a record that is half written when the list is made, which
`list_runs` skips. Drawing and key codes. Of the guest: the copy of System.map, which nothing
checks; a mount that fails; places of copy_files that lie within each other; the
payload as a fat directory, which only records of older versions lead to; what overrides
with a `runcmd` of their own do, which replaces the locator, so that no first boot is
provisioned. Of the payload image: the number of inodes that mkfs.ext4 makes, which
beyond some 100000 small files may be too low. Of `br_setup`: how DHCP and
NetworkManager bring a bridge up, which may end in any network. `build_parser`, logging
and the lookup of the BIOS file: no state that a command decides on.

## Plan

1. RunLifecycle, RunService, RunRefinement and their proofs: done.
2. NetworkReadiness and its proofs: done.
3. TuiSession and its proofs: done.
4. BridgeSetup and its proofs: done.
5. Config, Provisioning and their proofs: done.
6. Delivery, the types of TuiSession, and liveness under `NeverStuck`, the end of the loops
   with it: done.
7. Open: a composition of RunLifecycle and NetworkReadiness, in which two commands write
   the network fields of one record.
