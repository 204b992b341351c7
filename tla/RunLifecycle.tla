---------------------------- MODULE RunLifecycle ----------------------------
(***************************************************************************)
(* The life of the virtual machines that kernelvm manages: the commands    *)
(* create, start, stop, destroy, status/ssh-info and list-runs (cli.py)    *)
(* over the run directories and metadata.json files (runs.py, utils.py)    *)
(* and over the QEMU processes they launch and stop (qemu.py).             *)
(*                                                                         *)
(* Nothing in the code locks the work root: every command is a process of  *)
(* its own that reads metadata.json, works on a private copy of the record *)
(* and writes the whole file back.  One action is one system call (or one  *)
(* child process) whose effect another command can see.                    *)
(***************************************************************************)
EXTENDS Naturals, FiniteSets

CONSTANTS
    Operators,  \* who types commands: shells, cron jobs, the TUI
    Runs,       \* run identifiers, fresh ones come from generate_run_id
    Pids,       \* process ids that QEMU processes may get, never reused
    Commands,   \* the commands the operators use
    Overlap,    \* may a command begin while another operator's one runs?
    MaxCuts,    \* bound: interrupts and disk faults that lose an update
    NoRun,      \* "no run chosen yet"
    NoPid       \* runtime.pid is None

AllCommands == {"create", "start", "stop", "destroy", "status", "list"}

ASSUME CommandsAssumption == Commands \subseteq AllCommands
ASSUME OverlapAssumption == Overlap \in BOOLEAN
ASSUME MaxCutsAssumption == MaxCuts \in Nat
ASSUME NoRunAssumption == NoRun \notin Runs
ASSUME NoPidAssumption == NoPid \notin Pids

VARIABLES
    store,      \* what a reader of <run>/metadata.json finds
    writers,    \* commands that hold the current metadata.json open
    disk,       \* the run's other files: how far they got, how far removed
    pidfile,    \* content of <run>/logs/qemu.pid
    vm,         \* the QEMU processes
    owner,      \* the run a QEMU process was launched for
    pc,         \* where each operator's command is, "idle" if there is none
    cmd,        \* the command
    run,        \* the run it works on
    md,         \* its private copy of the run's record
    todo,       \* list_runs: the files still to read
    seen,       \* list_runs: what the files read so far held
    destroyed,  \* history: runs whose rmtree completed
    cut,        \* history: runs that lost an update to a fault
    cuts        \* number of faults so far

filesVars == <<store, writers>>
qemuVars == <<vm, owner, pidfile>>
faultVars == <<cut, cuts>>
opVars == <<pc, cmd, run, md, todo, seen>>
vars == <<filesVars, disk, qemuVars, opVars, destroyed, faultVars>>

(***************************************************************************)
(* The record.  seed stands for runtime.seed_image, which create records   *)
(* only after every boot artifact is on disk.                              *)
(***************************************************************************)
States == {"created", "running", "stopped", "failed"}

Metadata == [state : States, pid : Pids \cup {NoPid}, seed : BOOLEAN]

\* Variant the checks must reject: a state no command knows.
InitMetadataNew == [state |-> "new", pid |-> NoPid, seed |-> FALSE]

InitMetadata == [state |-> "created", pid |-> NoPid, seed |-> FALSE]

\* Assignments to metadata.state and metadata.runtime.pid.
Mark(m, state, pid) == [state |-> state, pid |-> pid, seed |-> m.seed]

\* What read_json makes of the file: nothing, an empty or half-overwritten
\* file that json.loads rejects, or a record.
File == [form : {"absent", "empty", "garbled", "json"}, md : Metadata]

FileOf(form) == [form |-> form, md |-> InitMetadata]
JsonFile(m) == [form |-> "json", md |-> m]

Readable(f) == f.form = "json"

\* os.kill(pid, 0) succeeds: a process that was sent SIGKILL lives on until
\* the kernel gets to it.
Alive(p) == p # NoPid /\ vm[p] \in {"live", "killed"}

\* Variant: the process id of a dead process stays in the record.
RefreshKeepsPid(m) ==
    IF m.state = "running" /\ ~Alive(m.pid)
    THEN Mark(m, "stopped", m.pid)
    ELSE m

Refresh(m) ==
    IF m.state = "running" /\ ~Alive(m.pid)
    THEN Mark(m, "stopped", NoPid)
    ELSE m

(***************************************************************************)
(* A command in progress.                                                  *)
(***************************************************************************)
Labels == {"idle", "scan", "mkdir", "load", "overlay", "render", "launch",
           "readpid", "assess", "powerdown", "wait", "term", "termed", "kill",
           "each", "save", "write", "rmtree", "rmfile", "rmdirs", "rmdir"}

NothingSeen == [r \in Runs |-> FileOf("absent")]

Idle(c) == pc[c] = "idle"

At(c, label) == pc[c] = label

\* The command starts (label "scan" or "load"), or ends (label "idle").
Enter(c, label, command, r, files) ==
    /\ pc' = [pc EXCEPT ![c] = label]
    /\ cmd' = [cmd EXCEPT ![c] = command]
    /\ run' = [run EXCEPT ![c] = r]
    /\ md' = [md EXCEPT ![c] = InitMetadata]
    /\ todo' = [todo EXCEPT ![c] = files]
    /\ seen' = [seen EXCEPT ![c] = NothingSeen]

\* The command returns, or dies of an exception nobody catches.
Finish(c) == Enter(c, "idle", "none", NoRun, {})

\* The command turns to run r and its record m.
Turn(c, r, m, label) ==
    /\ pc' = [pc EXCEPT ![c] = label]
    /\ run' = [run EXCEPT ![c] = r]
    /\ md' = [md EXCEPT ![c] = m]
    /\ UNCHANGED <<cmd, todo>>

\* The command goes on with record m.
Carry(c, m, label) ==
    /\ pc' = [pc EXCEPT ![c] = label]
    /\ md' = [md EXCEPT ![c] = m]
    /\ UNCHANGED <<cmd, run, todo, seen>>

Goto(c, label) ==
    /\ pc' = [pc EXCEPT ![c] = label]
    /\ UNCHANGED <<cmd, run, md, todo, seen>>

Init ==
    /\ store = [r \in Runs |-> FileOf("absent")]
    /\ writers = [r \in Runs |-> {}]
    /\ disk = [r \in Runs |-> "unused"]
    /\ pidfile = [r \in Runs |-> NoPid]
    /\ vm = [p \in Pids |-> "unused"]
    /\ owner = [p \in Pids |-> NoRun]
    /\ pc = [c \in Operators |-> "idle"]
    /\ cmd = [c \in Operators |-> "none"]
    /\ run = [c \in Operators |-> NoRun]
    /\ md = [c \in Operators |-> InitMetadata]
    /\ todo = [c \in Operators |-> {}]
    /\ seen = [c \in Operators |-> NothingSeen]
    /\ destroyed = {}
    /\ cut = {}
    /\ cuts = 0

-----------------------------------------------------------------------------
(***************************************************************************)
(* Beginning a command.  create, start and list-runs glob the work root    *)
(* first; the others go straight to load_metadata.                         *)
(***************************************************************************)
MayBegin(c) == Idle(c) /\ (Overlap \/ \A d \in Operators : Idle(d))

Globbed == {r \in Runs : store[r].form # "absent"}

BeginScan(c, command, r) ==
    /\ MayBegin(c)
    /\ command \in Commands \cap {"create", "start", "list"}
    /\ (command = "start") = (r # NoRun)
    /\ Enter(c, "scan", command, r, Globbed)
    /\ UNCHANGED <<filesVars, disk, qemuVars, destroyed, faultVars>>

BeginLoad(c, command, r) ==
    /\ MayBegin(c)
    /\ command \in Commands \cap {"stop", "destroy", "status"}
    /\ Enter(c, "load", command, r, {})
    /\ UNCHANGED <<filesVars, disk, qemuVars, destroyed, faultVars>>

\* list_runs reads one file; an unreadable one is skipped with a warning.
Scan(c, r) ==
    /\ At(c, "scan")
    /\ r \in todo[c]
    /\ todo' = [todo EXCEPT ![c] = @ \ {r}]
    /\ seen' = IF Readable(store[r])
               THEN [seen EXCEPT ![c] = [@ EXCEPT ![r] = store[r]]]
               ELSE seen
    /\ UNCHANGED <<pc, cmd, run, md>>
    /\ UNCHANGED <<filesVars, disk, qemuVars, destroyed, faultVars>>

\* Variant: only create checks.
ActiveForCreate(c) ==
    /\ cmd[c] = "create"
    /\ \E r \in Runs :
          Readable(seen[c][r]) /\ Refresh(seen[c][r].md).state = "running"

\* Some run other than the requested one is recorded running and its process
\* answers the probe.
AnotherActive(c) ==
    \E r \in Runs \ {run[c]} :
        Readable(seen[c][r]) /\ Refresh(seen[c][r].md).state = "running"

\* ensure_single_active_run has read every file; list_runs returns.
ScanDone(c) ==
    /\ At(c, "scan")
    /\ todo[c] = {}
    /\ IF cmd[c] = "list" THEN Goto(c, "each")
       ELSE IF AnotherActive(c) THEN Finish(c)
       ELSE Goto(c, IF cmd[c] = "create" THEN "mkdir" ELSE "load")
    /\ UNCHANGED <<filesVars, disk, qemuVars, destroyed, faultVars>>

-----------------------------------------------------------------------------
(***************************************************************************)
(* save_metadata: open for writing, which truncates, then one write of the *)
(* whole text.                                                             *)
(***************************************************************************)
NextFile(c) ==
    Turn(c, NoRun, InitMetadata, "each") /\ UNCHANGED seen

\* Where a command goes on once its record is saved.
AfterSave(c) ==
    IF cmd[c] = "create" /\ md[c].state = "created" THEN Goto(c, "overlay")
    ELSE IF cmd[c] = "destroy" THEN Goto(c, "rmtree")
    ELSE IF cmd[c] = "list" THEN NextFile(c)
    ELSE Finish(c)

\* A failed save: list-runs and status log it, the others die of it.
AfterFailedSave(c) == IF cmd[c] = "list" THEN NextFile(c) ELSE Finish(c)

\* write_json creates missing parents, so it also opens the file of a run
\* that another command has removed: the root is there again.
OpenMeta(c) ==
    LET r == run[c] IN
    /\ At(c, "save")
    /\ store' = [store EXCEPT ![r] = FileOf("empty")]
    /\ writers' = [writers EXCEPT ![r] = @ \cup {c}]
    /\ disk' = [disk EXCEPT ![r] = IF @ = "removed" THEN "gone" ELSE @]
    /\ Goto(c, "write")
    /\ UNCHANGED <<qemuVars, destroyed, faultVars>>

\* Two commands that truncated the same file both write from offset 0: the
\* second leaves the tail of a longer first text behind.
Written(f, m) ==
    IF f.form = "empty" THEN {JsonFile(m)}
    ELSE {JsonFile(m), FileOf("garbled")}

WriteMeta(c) ==
    LET r == run[c] IN
    /\ At(c, "write")
    /\ IF c \in writers[r]
       THEN \E f \in Written(store[r], md[c]) :
                store' = [store EXCEPT ![r] = f]
       ELSE store' = store        \* the file was unlinked while open
    /\ writers' = [writers EXCEPT ![r] = @ \ {c}]
    /\ AfterSave(c)
    /\ UNCHANGED <<disk, qemuVars, destroyed, faultVars>>

-----------------------------------------------------------------------------
(***************************************************************************)
(* create                                                                  *)
(***************************************************************************)

\* Variant: the first save_metadata is forgotten.
MakeRunUnsaved(c, r) ==
    /\ At(c, "mkdir")
    /\ disk[r] = "unused"
    /\ disk' = [disk EXCEPT ![r] = "dirs"]
    /\ Turn(c, r, InitMetadata, "overlay") /\ UNCHANGED seen
    /\ UNCHANGED <<filesVars, qemuVars, destroyed, faultVars>>

\* create_run_paths (exist_ok=False) and persist_run_config.
MakeRun(c, r) ==
    /\ At(c, "mkdir")
    /\ disk[r] = "unused"
    /\ disk' = [disk EXCEPT ![r] = "dirs"]
    /\ Turn(c, r, InitMetadata, "save") /\ UNCHANGED seen
    /\ UNCHANGED <<filesVars, qemuVars, destroyed, faultVars>>

\* mkdir, or a config snapshot after it, raises OSError: nothing is made, or
\* directories stay behind without a record.
MakeRunFails(c) ==
    /\ At(c, "mkdir")
    /\ \/ UNCHANGED disk
       \/ \E r \in Runs : disk[r] = "unused" /\ disk' = [disk EXCEPT ![r] = "dirs"]
    /\ Finish(c)
    /\ UNCHANGED <<filesVars, qemuVars, destroyed, faultVars>>

\* The except branches of create_run and start_existing_run.
Failed(c) == Carry(c, Mark(md[c], "failed", md[c].pid), "save")

\* Variant: the seed image is recorded before it is built.
CreateOverlayAndSeed(c) ==
    /\ At(c, "overlay")
    /\ disk[run[c]] = "dirs"
    /\ disk' = [disk EXCEPT ![run[c]] = "overlay"]
    /\ Carry(c, [state |-> md[c].state, pid |-> md[c].pid, seed |-> TRUE], "render")
    /\ UNCHANGED <<filesVars, qemuVars, destroyed, faultVars>>

CreateOverlay(c) ==
    /\ At(c, "overlay")
    /\ disk[run[c]] = "dirs"
    /\ disk' = [disk EXCEPT ![run[c]] = "overlay"]
    /\ Goto(c, "render")
    /\ UNCHANGED <<filesVars, qemuVars, destroyed, faultVars>>

\* Payload, payload image and seed image are built, then recorded.
Render(c) ==
    /\ At(c, "render")
    /\ disk[run[c]] = "overlay"
    /\ disk' = [disk EXCEPT ![run[c]] = "seeded"]
    /\ Carry(c, [state |-> md[c].state, pid |-> md[c].pid, seed |-> TRUE], "launch")
    /\ UNCHANGED <<filesVars, qemuVars, destroyed, faultVars>>

\* qemu-img, mkfs.ext4, cloud-localds or QEMU fails: an AppError, recorded.
StageFails(c) ==
    /\ pc[c] \in {"overlay", "render", "launch"}
    /\ Failed(c)
    /\ UNCHANGED <<filesVars, disk, qemuVars, destroyed, faultVars>>

\* rmtree has taken the directories of the run, or its root as well.
Gutted(r) == disk[r] \in {"gone", "removed"}

\* A file to copy or a directory has gone: an OSError, not caught.  On start
\* the normalized config is what may be gone.
StageAborts(c) ==
    /\ \/ At(c, "render")
       \/ At(c, "launch") /\ cmd[c] = "start" /\ Gutted(run[c])
    /\ Finish(c)
    /\ UNCHANGED <<filesVars, disk, qemuVars, destroyed, faultVars>>

-----------------------------------------------------------------------------
(***************************************************************************)
(* start_vm and the readiness wait, shared by create and start.            *)
(***************************************************************************)

\* QEMU itself refuses a second instance over the same pidfile and overlay.
Locked(r) == \E p \in Pids : owner[p] = r /\ Alive(p)

Launch(c, p) ==
    LET r == run[c] IN
    /\ At(c, "launch")
    /\ md[c].seed
    /\ disk[r] = "seeded"
    /\ ~Locked(r)
    /\ vm[p] = "unused"
    /\ vm' = [vm EXCEPT ![p] = "live"]
    /\ owner' = [owner EXCEPT ![p] = r]
    /\ pidfile' = [pidfile EXCEPT ![r] = p]
    /\ Goto(c, "readpid")
    /\ UNCHANGED <<filesVars, disk, destroyed, faultVars>>

\* A pidfile that is missing is an AppError; one that goes missing between
\* the look and the read is an OSError, not caught.
ReadPid(c) ==
    LET p == pidfile[run[c]] IN
    /\ At(c, "readpid")
    /\ IF p = NoPid THEN Failed(c) \/ Finish(c)
       ELSE Carry(c, Mark(md[c], "running", p), "assess")
    /\ UNCHANGED <<filesVars, disk, qemuVars, destroyed, faultVars>>

\* Variant: a guest that is not ready counts as a failed launch.
AssessOrFail(c) ==
    /\ At(c, "assess")
    /\ \/ Goto(c, "save")
       \/ Carry(c, Mark(md[c], "failed", NoPid), "save")
    /\ UNCHANGED <<filesVars, disk, qemuVars, destroyed, faultVars>>

\* assess_network_readiness returns within 90 seconds, or as soon as it sees
\* the process gone (_mark_qemu_process_exit).
Assess(c) ==
    /\ At(c, "assess")
    /\ \/ Goto(c, "save")
       \/ Carry(c, Refresh(md[c]), "save")
    /\ UNCHANGED <<filesVars, disk, qemuVars, destroyed, faultVars>>

-----------------------------------------------------------------------------
(***************************************************************************)
(* load_metadata and refresh_runtime_state, and what each command does     *)
(* with the record.                                                        *)
(***************************************************************************)
LoadFails(c) ==
    /\ At(c, "load")
    /\ ~Readable(store[run[c]])
    /\ Finish(c)
    /\ UNCHANGED <<filesVars, disk, qemuVars, destroyed, faultVars>>

\* load_metadata found a record; refresh_runtime_state follows.
LoadedBy(c, command) ==
    /\ At(c, "load")
    /\ cmd[c] = command
    /\ Readable(store[run[c]])
    /\ UNCHANGED <<filesVars, disk, qemuVars, destroyed, faultVars>>

LoadForStart(c) ==
    LET m == Refresh(store[run[c]].md) IN
    /\ LoadedBy(c, "start")
    /\ IF m.state = "running" THEN Finish(c) ELSE Carry(c, m, "launch")

\* stop_vm has nothing to do for a record without a process id.
LoadForStop(c) ==
    LET m == Refresh(store[run[c]].md) IN
    /\ LoadedBy(c, "stop")
    /\ IF m.pid = NoPid
       THEN Carry(c, Mark(m, "stopped", NoPid), "save")
       ELSE Carry(c, m, "powerdown")

\* Variant: destroy does not stop the virtual machine first.
LoadAndRemove(c) ==
    /\ LoadedBy(c, "destroy")
    /\ Carry(c, Refresh(store[run[c]].md), "rmtree")

LoadForDestroy(c) ==
    LET m == Refresh(store[run[c]].md) IN
    /\ LoadedBy(c, "destroy")
    /\ Carry(c, m, IF m.state = "running" THEN "powerdown" ELSE "rmtree")

LoadForStatus(c) ==
    LET m == Refresh(store[run[c]].md) IN
    /\ LoadedBy(c, "status")
    /\ Carry(c, m, "save")

\* Variant: the record of one run is saved under another root.
EachElsewhere(c, r) ==
    /\ At(c, "each")
    /\ Readable(seen[c][r])
    /\ \E s \in Runs :
          Turn(c, s, Refresh(seen[c][r].md), "save")
    /\ seen' = [seen EXCEPT ![c] = [@ EXCEPT ![r] = FileOf("absent")]]
    /\ UNCHANGED <<filesVars, disk, qemuVars, destroyed, faultVars>>

\* list-runs refreshes and saves the records it has read, one after another.
Each(c, r) ==
    /\ At(c, "each")
    /\ Readable(seen[c][r])
    /\ Turn(c, r, Refresh(seen[c][r].md), "save")
    /\ seen' = [seen EXCEPT ![c] = [@ EXCEPT ![r] = FileOf("absent")]]
    /\ UNCHANGED <<filesVars, disk, qemuVars, destroyed, faultVars>>

EachDone(c) ==
    /\ At(c, "each")
    /\ \A r \in Runs : ~Readable(seen[c][r])
    /\ Finish(c)
    /\ UNCHANGED <<filesVars, disk, qemuVars, destroyed, faultVars>>

-----------------------------------------------------------------------------
(***************************************************************************)
(* stop_vm.  Each look at the process and each signal is a step: the       *)
(* process may exit in between.                                            *)
(***************************************************************************)

\* The system_powerdown exchange over QMP ends, if it ever does: qmp.py sets
\* no timeout on its socket.  Any failure is only logged.
Powerdown(c) ==
    /\ At(c, "powerdown")
    /\ Goto(c, "wait")
    /\ UNCHANGED <<filesVars, disk, qemuVars, destroyed, faultVars>>

Stopped(c) ==
    Carry(c, Mark(md[c], "stopped", NoPid), "save")

\* Variants: no deadline; no SIGKILL after SIGTERM.
ProbeForever(c) ==
    /\ At(c, "wait")
    /\ ~Alive(md[c].pid)
    /\ Stopped(c)
    /\ UNCHANGED <<filesVars, disk, qemuVars, destroyed, faultVars>>

ProbeOnce(c) ==
    /\ pc[c] \in {"wait", "termed"}
    /\ IF At(c, "wait") /\ Alive(md[c].pid) THEN Goto(c, "term")
       ELSE Stopped(c)
    /\ UNCHANGED <<filesVars, disk, qemuVars, destroyed, faultVars>>

\* The loop of 30 seconds, and the pause after SIGTERM, end with a probe.
Probe(c) ==
    /\ pc[c] \in {"wait", "termed"}
    /\ IF Alive(md[c].pid)
       THEN Goto(c, IF At(c, "wait") THEN "term" ELSE "kill")
       ELSE Stopped(c)
    /\ UNCHANGED <<filesVars, disk, qemuVars, destroyed, faultVars>>

\* os.kill of a process that is gone raises, and nothing catches it.
Signal(c) ==
    LET p == md[c].pid IN
    /\ pc[c] \in {"term", "kill"}
    /\ IF ~Alive(p) THEN Finish(c) /\ UNCHANGED vm
       ELSE IF At(c, "term") THEN Goto(c, "termed") /\ UNCHANGED vm
       ELSE Stopped(c) /\ vm' = [vm EXCEPT ![p] = "killed"]
    /\ UNCHANGED <<filesVars, disk, owner, pidfile, destroyed, faultVars>>

-----------------------------------------------------------------------------
(***************************************************************************)
(* destroy_run_root: shutil.rmtree takes metadata.json and the directories *)
(* of the run in the order the file system lists them, then the root.      *)
(* What it listed and finds gone is an error before Python 3.13 and        *)
(* skipped since; what an earlier destroy had taken it never lists.        *)
(***************************************************************************)
RemoveFile(c) ==
    LET r == run[c] IN
    /\ pc[c] \in {"rmtree", "rmfile"}
    /\ At(c, "rmtree") => disk[r] # "removed"
    /\ store' = [store EXCEPT ![r] = FileOf("absent")]
    /\ writers' = [writers EXCEPT ![r] = {}]
    /\ Goto(c, IF At(c, "rmtree") THEN "rmdirs" ELSE "rmdir")
    /\ UNCHANGED <<disk, qemuVars, destroyed, faultVars>>

RemoveDirs(c) ==
    LET r == run[c] IN
    /\ pc[c] \in {"rmtree", "rmdirs"}
    /\ At(c, "rmtree") => disk[r] # "removed"
    /\ disk' = [disk EXCEPT ![r] = IF @ = "removed" THEN @ ELSE "gone"]
    /\ pidfile' = [pidfile EXCEPT ![r] = NoPid]
    /\ Goto(c, IF At(c, "rmtree") THEN "rmfile" ELSE "rmdir")
    /\ UNCHANGED <<filesVars, vm, owner, destroyed, faultVars>>

RootEmpty(r) == store[r].form = "absent" /\ disk[r] = "gone"

\* Variant: destroy saves the record after the removal.
RemoveRootAndSave(c) ==
    LET r == run[c] IN
    /\ At(c, "rmdir")
    /\ RootEmpty(r)
    /\ disk' = [disk EXCEPT ![r] = "removed"]
    /\ destroyed' = destroyed \cup {r}
    /\ Goto(c, "save")
    /\ UNCHANGED <<filesVars, qemuVars, faultVars>>

RemoveRoot(c) ==
    LET r == run[c] IN
    /\ At(c, "rmdir")
    /\ RootEmpty(r)
    /\ disk' = [disk EXCEPT ![r] = "removed"]
    /\ destroyed' = destroyed \cup {r}
    /\ Finish(c)
    /\ UNCHANGED <<filesVars, qemuVars, faultVars>>

\* Something that was listed (what was, is left open) or the root is gone
\* already, or the root is not empty any more: a record was saved again, or a
\* command on the run reopened its log file.
RemoveFails(c) ==
    LET r == run[c] IN
    /\ \/ pc[c] \in {"rmtree", "rmfile"} /\ store[r].form = "absent"
       \/ pc[c] \in {"rmtree", "rmdirs"} /\ Gutted(r)
       \/ At(c, "rmdir") /\ \/ ~RootEmpty(r)
                            \/ \E d \in Operators \ {c} : run[d] = r
    /\ Finish(c)
    /\ UNCHANGED <<filesVars, disk, qemuVars, destroyed, faultVars>>

-----------------------------------------------------------------------------
(***************************************************************************)
(* Faults.  A command may be interrupted anywhere (Ctrl-C, a kill, a lost  *)
(* terminal) and a save may fail (ENOSPC, EIO).  cut remembers the runs    *)
(* for which that lost an update that mattered: the file was truncated     *)
(* already, the only record of a launched process went with the command,   *)
(* or the run's files are there without their record.                      *)
(***************************************************************************)
Exposed(c) ==
    \/ pc[c] \in {"write", "readpid", "assess", "rmdirs"}
    \/ At(c, "save") /\ md[c].pid \notin {NoPid, store[run[c]].md.pid}

Fault(c) ==
    /\ cuts < MaxCuts
    /\ cuts' = cuts + 1
    /\ cut' = IF Exposed(c) THEN cut \cup {run[c]} ELSE cut
    /\ writers' = [r \in Runs |-> writers[r] \ {c}]
    /\ UNCHANGED <<store, disk, qemuVars, destroyed>>

Interrupt(c) ==
    /\ ~Idle(c)
    /\ Fault(c)
    /\ Finish(c)

SaveFails(c) ==
    /\ pc[c] \in {"save", "write"}
    /\ Fault(c)
    /\ AfterFailedSave(c)

\* A QEMU process ends: the guest powers off, SIGTERM or SIGKILL takes
\* effect, or it crashes and leaves its pidfile behind.
Exit(p) ==
    /\ Alive(p)
    /\ vm' = [vm EXCEPT ![p] = "dead"]
    /\ \/ UNCHANGED pidfile
       \/ /\ vm[p] = "live"
          /\ pidfile' = [r \in Runs |-> IF pidfile[r] = p THEN NoPid
                                        ELSE pidfile[r]]
    /\ UNCHANGED <<filesVars, disk, owner, opVars, destroyed, faultVars>>

-----------------------------------------------------------------------------
Step(c) ==
    \/ \E r \in Runs : Scan(c, r) \/ MakeRun(c, r) \/ Each(c, r)
    \/ \E p \in Pids : Launch(c, p)
    \/ ScanDone(c) \/ OpenMeta(c) \/ WriteMeta(c) \/ MakeRunFails(c)
    \/ CreateOverlay(c) \/ Render(c) \/ StageFails(c) \/ StageAborts(c)
    \/ ReadPid(c) \/ Assess(c) \/ EachDone(c)
    \/ LoadFails(c) \/ LoadForStart(c) \/ LoadForStop(c) \/ LoadForDestroy(c)
    \/ LoadForStatus(c)
    \/ Powerdown(c) \/ Probe(c) \/ Signal(c)
    \/ RemoveFile(c) \/ RemoveDirs(c) \/ RemoveRoot(c) \/ RemoveFails(c)

Begin(c) ==
    \E command \in Commands :
        \/ \E r \in Runs \cup {NoRun} : BeginScan(c, command, r)
        \/ \E r \in Runs : BeginLoad(c, command, r)

Next ==
    \/ \E c \in Operators : Begin(c) \/ Step(c) \/ Interrupt(c) \/ SaveFails(c)
    \/ \E p \in Pids : Exit(p)

Spec == Init /\ [][Next]_vars

\* What a command does next, other than to wait for QEMU's answer on QMP: that
\* exchange has no timeout and ends for certain only when the machine is gone
\* and the kernel closes its socket, or refuses to connect to it.
Unblocked(c) ==
    /\ At(c, "powerdown") => ~Locked(run[c])
    /\ Step(c)

\* A command that is running goes on; child processes and rmtree end.
CommandRuns(c) == WF_vars(Unblocked(c))

\* The kernel delivers SIGKILL.
SigkillWorks(p) == WF_vars(vm[p] = "killed" /\ Exit(p))

Fairness ==
    /\ \A c \in Operators : CommandRuns(c)
    /\ \A p \in Pids : SigkillWorks(p)

FairSpec == Spec /\ Fairness

-----------------------------------------------------------------------------
(***************************************************************************)
(* Properties that hold however the commands overlap.                      *)
(***************************************************************************)

\* Every variable has its type (the record of runs.py is never half built).
TypeOK ==
    /\ store \in [Runs -> File]
    /\ writers \in [Runs -> SUBSET Operators]
    /\ disk \in [Runs -> {"unused", "dirs", "overlay", "seeded", "gone",
                       "removed"}]
    /\ pidfile \in [Runs -> Pids \cup {NoPid}]
    /\ vm \in [Pids -> {"unused", "live", "killed", "dead"}]
    /\ owner \in [Pids -> Runs \cup {NoRun}]
    /\ pc \in [Operators -> Labels]
    /\ cmd \in [Operators -> AllCommands \cup {"none"}]
    /\ run \in [Operators -> Runs \cup {NoRun}]
    /\ md \in [Operators -> Metadata]
    /\ todo \in [Operators -> SUBSET Runs]
    /\ seen \in [Operators -> [Runs -> File]]
    /\ destroyed \subseteq Runs
    /\ cut \subseteq Runs
    /\ cuts \in 0..MaxCuts

\* A record says "running" exactly when it holds a process id: no failure,
\* refresh or stop leaves one without the other, on disk or in a command.
PidFits(m) == (m.state = "running") = (m.pid # NoPid)

RunningIffPid ==
    /\ \A r \in Runs : PidFits(store[r].md)
    /\ \A c \in Operators : PidFits(md[c])

\* A process id that a record of a run holds is that of a QEMU launched for
\* the run: stop and destroy never signal another run's virtual machine.
PidBelongsToRun ==
    /\ \A r \in Runs :
          store[r].md.pid # NoPid => owner[store[r].md.pid] = r
    /\ \A c \in Operators :
          md[c].pid # NoPid => owner[md[c].pid] = run[c]

\* A record that names a seed image (so that start will boot from it) belongs
\* to a run whose boot artifacts were all built, and are there unless a
\* destroy is removing them.
SeedIsReal ==
    /\ \A r \in Runs :
          store[r].md.seed => disk[r] = "seeded" \/ Gutted(r)
    /\ \A c \in Operators :
          md[c].seed => disk[run[c]] = "seeded" \/ Gutted(run[c])

\* The command waits for the QMP answer of a QEMU of its run that lives.
AwaitsQmp(c) == <>[]At(c, "powerdown") /\ []<>Locked(run[c])

\* Every command ends, whatever the others do and whatever fails, with one
\* exception: stop and destroy may wait for ever for a living QEMU to answer.
CommandsEnd == \A c \in Operators : []<>Idle(c) \/ AwaitsQmp(c)

\* Once the QMP exchange of stop_vm is over the process ends, whatever the
\* other commands do, by itself or at the latest of SIGKILL, unless there is one
\* more fault: a stop that is interrupted between its signals owes nothing.
StopKills ==
    \A c \in Operators, p \in Pids, n \in 0..MaxCuts :
        (At(c, "wait") /\ md[c].pid = p /\ cuts = n) ~> (vm[p] = "dead" \/ cuts > n)

-----------------------------------------------------------------------------
(***************************************************************************)
(* Properties of a work root on which one command runs at a time           *)
(* (Overlap = FALSE), for the runs that lost no update to a fault.         *)
(***************************************************************************)

\* What a command still knows of a process that the file may not show.
Holds(c, p) ==
    /\ run[c] = owner[p]
    /\ \/ At(c, "readpid")
       \/ pc[c] \in {"assess", "save", "write"} /\ md[c].pid = p

\* A live virtual machine is never lost: its record says running with its
\* process id, or the command that works on the record knows it.
Accounted ==
    \A p \in Pids :
        vm[p] = "live" /\ owner[p] \notin cut =>
            \/ Readable(store[owner[p]]) /\ store[owner[p]].md.pid = p
            \/ \E c \in Operators : Holds(c, p)

\* ensure_single_active_run does what its name says.
AtMostOneActive ==
    \A p, q \in Pids :
        /\ vm[p] = "live" /\ vm[q] = "live"
        /\ owner[p] \notin cut /\ owner[q] \notin cut
        => p = q

\* From the overlay on, as long as the files of a run are there, list-runs,
\* stop and destroy can read its record, or the command at work on the run is
\* about to write or to remove it: no disk image is left that no command can
\* find.  (A create that fails before its first save leaves only directories.)
Listed ==
    \A r \in Runs :
        disk[r] \in {"overlay", "seeded"} /\ r \notin cut =>
            \/ Readable(store[r])
            \/ \E c \in Operators :
                  run[c] = r /\ pc[c] \in {"save", "write", "rmdirs"}

\* destroy never removes the files of a run under its virtual machine.
DestroyOnlyDead ==
    \A p \in Pids :
        vm[p] = "live" /\ owner[p] \notin cut => disk[owner[p]] = "seeded"

\* A run that destroy has removed does not come back.
DestroyIsFinal == \A r \in destroyed : store[r].form = "absent"

\* README: "create refuses to start a second run while another run is
\* active", with no allowance for faults.
OneVm == \A p, q \in Pids : vm[p] = "live" /\ vm[q] = "live" => p = q
=============================================================================
