-------------------------- MODULE NetworkReadiness --------------------------
(***************************************************************************)
(* How kernelvm decides whether the guest of a run is reachable            *)
(* (network.py, host_network.py): create and start watch the host's        *)
(* neighbour table, the serial log and the bridge until one of them tells, *)
(* and status looks once more.  Meanwhile the guest boots, prints, gets an *)
(* address or dies, and the host changes under the command's hands: every  *)
(* look at the host is a step of its own.                                  *)
(*                                                                         *)
(* One run and one command at a time; RunLifecycle is about several.       *)
(***************************************************************************)
EXTENDS Naturals, Sequences

CONSTANTS
    Ips,        \* usable IPv4 addresses (_is_usable_ipv4)
    Printable,  \* bound: the failures that the guest may print
    MaxPolls,   \* bound: rounds of the readiness wait (90 seconds in the code)
    MaxBoots,   \* bound: launches of the virtual machine
    NoIp,       \* detected_ip is None
    NoReason    \* readiness_reason is None

\* The failures of _classify_serial_failure, the first that matches wins.
FailureOrder ==
    <<"root mount", "panic", "init killed", "init handoff", "dns",
      "wait online", "link local", "cloud final", "sshd">>

Failures == {FailureOrder[i] : i \in 1..Len(FailureOrder)}

ASSUME PrintableAssumption == Printable \subseteq Failures \ {"init handoff"}
ASSUME BoundsAssumption == MaxPolls \in Nat \ {0} /\ MaxBoots \in Nat
ASSUME NoIpAssumption == NoIp \notin Ips
ASSUME NoReasonAssumption ==
    NoReason \notin Failures \cup {"bridge", "qemu exit", "timeout"}

VARIABLES
    qemu,       \* is the QEMU process there?
    neigh,      \* the address "ip neigh" shows for the guest's MAC
    bridge,     \* does diagnose_bridge find nothing to complain of?
    serial,     \* what the serial log holds; it is appended to, boot by boot
    saved,      \* metadata.json
    md,         \* the record in the command's hands
    pc,         \* where the command is
    command,    \* "boot" (create or start) or "status"
    seen,       \* local variables of observe_network
    polls,      \* rounds left to assess_network_readiness
    boots,      \* launches so far
    history     \* what happened, for the properties

world == <<qemu, neigh, bridge, serial>>
vars == <<world, saved, md, pc, command, seen, polls, boots, history>>

(***************************************************************************)
(* Records.                                                                *)
(***************************************************************************)
Reasons == Failures \cup {"bridge", "qemu exit", "timeout", NoReason}

IpSources == {"host-ip-neigh", "serial-log", "none"}

Sources == IpSources \cup {"host-bridge-check", "qemu-process", "readiness-check"}

\* log: runtime.serial_log is set, which start_vm does.  boot: the launch whose
\* process runtime.pid is, 0 if it is None.
Metadata ==
    [state : {"created", "running", "stopped", "failed"}, log : BOOLEAN,
     boot : 0..MaxBoots,
     ip : Ips \cup {NoIp}, ipSource : IpSources,
     readiness : {"unknown", "ready", "networking-unready"},
     reason : Reasons, source : Sources]

InitMetadata ==
    [state |-> "created", log |-> FALSE, boot |-> 0, ip |-> NoIp, ipSource |-> "none",
     readiness |-> "unknown", reason |-> NoReason, source |-> "none"]

\* ip is the first address that was printed.  init: the last line that says
\* the kernel runs /init is absent, or nothing of userspace followed it, or
\* something did.
SerialLog ==
    [ip : Ips \cup {NoIp}, marks : SUBSET Printable,
     init : {"absent", "last", "passed"}]

EmptyLog == [ip |-> NoIp, marks |-> {}, init |-> "absent"]

NothingSeen == [ip |-> NoIp, ipSource |-> "none", reason |-> NoReason, bridge |-> TRUE]

\* during: an address has been there to be seen all through this observation;
\* dead: QEMU was gone before it began; shown: an address has been there to be
\* seen since the launch; timedOut: the wait of this launch ran out; told: a
\* command has saved since the launch that the guest is ready.
NoHistory ==
    [during |-> FALSE, dead |-> FALSE, shown |-> FALSE, timedOut |-> FALSE,
     told |-> FALSE]

Init ==
    /\ qemu = FALSE /\ neigh = NoIp
    /\ bridge \in BOOLEAN
    /\ serial = EmptyLog
    /\ saved = InitMetadata /\ md = InitMetadata
    /\ pc = "idle" /\ command = "none"
    /\ seen = NothingSeen
    /\ polls = 0 /\ boots = 0
    /\ history = NoHistory

-----------------------------------------------------------------------------
(***************************************************************************)
(* The guest and the host.                                                 *)
(***************************************************************************)
Visible == neigh # NoIp \/ (md.log /\ serial.ip # NoIp)

\* The world moves; the history notices an address that goes away.
World ==
    /\ UNCHANGED <<saved, md, pc, command, seen, polls, boots>>
    /\ history' = [history EXCEPT !.during = @ /\ Visible', !.shown = @ \/ Visible']

GuestPrints(kind) ==
    /\ qemu
    /\ serial' = [serial EXCEPT !.marks = @ \cup {kind},
                                !.init = IF kind = "sshd" /\ @ = "last"
                                         THEN "passed" ELSE @]
    /\ UNCHANGED <<qemu, neigh, bridge>>
    /\ World

\* "Run /init as init process", and the first line of userspace after it.
GuestInit(from, to) ==
    /\ qemu
    /\ serial.init \in from
    /\ serial' = [serial EXCEPT !.init = to]
    /\ UNCHANGED <<qemu, neigh, bridge>>
    /\ World

\* The guest answers ARP, or prints its address (the first one counts).
GuestShowsAddress(ip) ==
    /\ qemu
    /\ \/ neigh' = ip /\ UNCHANGED serial
       \/ /\ serial.ip = NoIp
          /\ serial' = [serial EXCEPT !.ip = ip]
          /\ UNCHANGED neigh
    /\ UNCHANGED <<qemu, bridge>>
    /\ World

GuestDies ==
    /\ qemu
    /\ qemu' = FALSE
    /\ UNCHANGED <<neigh, bridge, serial>>
    /\ World

NeighExpires ==
    /\ neigh # NoIp
    /\ neigh' = NoIp
    /\ UNCHANGED <<qemu, bridge, serial>>
    /\ World

BridgeChanges ==
    /\ bridge' = ~bridge
    /\ UNCHANGED <<qemu, neigh, serial>>
    /\ World

Host ==
    \/ \E kind \in Printable : GuestPrints(kind)
    \/ GuestInit({"absent", "passed"}, "last") \/ GuestInit({"last"}, "passed")
    \/ \E ip \in Ips : GuestShowsAddress(ip)
    \/ GuestDies \/ NeighExpires \/ BridgeChanges

-----------------------------------------------------------------------------
(***************************************************************************)
(* Commands.                                                               *)
(***************************************************************************)

\* The process of the record is the one that is there.
Alive(m) == qemu /\ m.boot = boots

\* metadata.state and metadata.runtime.pid, when there is no process any more.
Off(m, state) == [m EXCEPT !.state = state, !.boot = 0]

\* refresh_runtime_state: a dead pid stops the run.
Refresh(m) ==
    IF m.state = "running" /\ ~Alive(m) THEN Off(m, "stopped") ELSE m

\* The end of a command: its local variables are gone.  ready: it has saved
\* that the guest is.
Return(ready) ==
    /\ pc' = "idle" /\ command' = "none"
    /\ md' = saved'
    /\ seen' = NothingSeen /\ polls' = 0
    /\ history' = [history EXCEPT !.during = FALSE, !.dead = FALSE,
                                  !.told = @ \/ ready]

\* start_vm has launched QEMU; assess_network_readiness begins.  What the
\* record says of an earlier boot stays in it.
Boot ==
    /\ pc = "idle" /\ boots < MaxBoots
    /\ ~qemu
    /\ qemu' = TRUE
    /\ boots' = boots + 1
    /\ md' = [saved EXCEPT !.state = "running", !.log = TRUE, !.boot = boots']
    /\ command' = "boot" /\ pc' = "neigh"
    /\ polls' = MaxPolls
    /\ seen' = NothingSeen
    /\ LET visible == neigh # NoIp \/ serial.ip # NoIp IN
          history' = [NoHistory EXCEPT !.during = visible, !.shown = visible]
    /\ UNCHANGED <<neigh, bridge, serial, saved>>

\* QEMU or a check before it fails, or finds the run's own QEMU in its way.
BootFails ==
    /\ pc = "idle"
    /\ Refresh(saved).state # "running"
    /\ saved' = Off(saved, "failed")
    /\ Return(FALSE)
    /\ UNCHANGED <<world, boots>>

\* status, ssh-info, and list-runs for this run.
Status ==
    /\ pc = "idle"
    /\ md' = Refresh(saved)
    /\ command' = "status" /\ pc' = "neigh"
    /\ seen' = NothingSeen
    /\ history' = [history EXCEPT !.during = neigh # NoIp \/ (saved.log /\ serial.ip # NoIp),
                                  !.dead = ~qemu]
    /\ UNCHANGED <<world, saved, polls, boots>>

\* stop_vm, which does not touch what is known of the network, nor a QEMU that
\* the record does not know.
Stop ==
    /\ pc = "idle"
    /\ qemu' = (qemu /\ ~Alive(saved))
    /\ saved' = Off(saved, "stopped")
    /\ Return(FALSE)
    /\ UNCHANGED <<neigh, bridge, serial, boots>>

\* Ctrl-C: nothing is saved, QEMU goes on.
Interrupt ==
    /\ pc # "idle"
    /\ saved' = saved
    /\ Return(FALSE)
    /\ UNCHANGED <<world, boots>>

-----------------------------------------------------------------------------
(***************************************************************************)
(* observe_network: three looks at the host, then the verdict.             *)
(***************************************************************************)
Marked == serial.marks \cup (IF serial.init = "last" THEN {"init handoff"} ELSE {})

\* _classify_serial_failure
Classify ==
    IF Marked = {} THEN NoReason
    ELSE FailureOrder[CHOOSE i \in 1..Len(FailureOrder) :
             /\ FailureOrder[i] \in Marked
             /\ \A j \in 1..(i - 1) : FailureOrder[j] \notin Marked]

\* inspect_serial_log: an address in the log silences the failures.
SerialReason == IF md.log /\ serial.ip = NoIp THEN Classify ELSE NoReason

\* An address the record has is never looked up again.
LookAtNeigh ==
    /\ pc = "neigh"
    /\ pc' = "serial"
    /\ seen' = IF md.ip # NoIp
               THEN [seen EXCEPT !.ip = md.ip, !.ipSource = md.ipSource]
               ELSE IF neigh # NoIp
               THEN [seen EXCEPT !.ip = neigh, !.ipSource = "host-ip-neigh"]
               ELSE seen
    /\ UNCHANGED <<world, saved, md, command, polls, boots, history>>

\* Variant: a failure in the log hides the address after it.
LookForFailures ==
    /\ pc = "serial"
    /\ pc' = "bridge"
    /\ seen' = IF Classify # NoReason THEN [seen EXCEPT !.reason = Classify]
               ELSE IF seen.ip = NoIp /\ md.log /\ serial.ip # NoIp
               THEN [seen EXCEPT !.ip = serial.ip, !.ipSource = "serial-log"]
               ELSE seen
    /\ UNCHANGED <<world, saved, md, command, polls, boots, history>>

LookAtSerial ==
    /\ pc = "serial"
    /\ pc' = "bridge"
    /\ seen' = IF seen.ip = NoIp /\ md.log /\ serial.ip # NoIp
               THEN [seen EXCEPT !.ip = serial.ip, !.ipSource = "serial-log"]
               ELSE [seen EXCEPT !.reason = SerialReason]
    /\ UNCHANGED <<world, saved, md, command, polls, boots, history>>

LookAtBridge ==
    /\ pc = "bridge"
    /\ pc' = "verdict"
    /\ seen' = [seen EXCEPT !.bridge = bridge]
    /\ UNCHANGED <<world, saved, md, command, polls, boots, history>>

\* Variant: the reason of an earlier failure stays.
WithAddressAndReason(m, ip, source) ==
    [m EXCEPT !.ip = ip, !.ipSource = source, !.readiness = "ready",
              !.source = source]

WithAddress(m, ip, source) ==
    [m EXCEPT !.ip = ip, !.ipSource = source, !.readiness = "ready",
              !.reason = NoReason, !.source = source]

WithFailure(m, reason, source) ==
    [m EXCEPT !.readiness = "networking-unready", !.reason = reason,
              !.source = source]

\* Variant: the bridge is asked before the address.
VerdictOfBridge ==
    IF ~seen.bridge THEN WithFailure(md, "bridge", "host-bridge-check")
    ELSE IF seen.ip # NoIp THEN WithAddress(md, seen.ip, seen.ipSource)
    ELSE IF seen.reason # NoReason THEN WithFailure(md, seen.reason, "serial-log")
    ELSE md

Verdict ==
    IF seen.ip # NoIp THEN WithAddress(md, seen.ip, seen.ipSource)
    ELSE IF ~seen.bridge THEN WithFailure(md, "bridge", "host-bridge-check")
    ELSE IF seen.reason # NoReason THEN WithFailure(md, seen.reason, "serial-log")
    ELSE IF md.readiness = "unknown" THEN [md EXCEPT !.reason = NoReason, !.source = "none"]
    ELSE md

\* status saves; create and start go on with what the verdict tells them.
Judge ==
    /\ pc = "verdict"
    /\ md' = Verdict
    /\ pc' = IF command = "status" \/ Verdict.readiness = "ready" THEN "save"
             ELSE "probe"
    /\ seen' = NothingSeen
    /\ UNCHANGED <<world, saved, command, polls, boots, history>>

\* _mark_qemu_process_exit; the serial log is read again, and its reason goes
\* into the text of "qemu exit".
Exited == WithFailure(Off(md, "stopped"), "qemu exit", "qemu-process")

\* Variant: an unready network is returned before the process is looked for.
ProbeUnreadyFirst ==
    /\ pc = "probe"
    /\ IF md.readiness = "networking-unready" THEN UNCHANGED md /\ pc' = "save"
       ELSE IF ~qemu THEN md' = Exited /\ pc' = "save"
       ELSE UNCHANGED md /\ pc' = "sleep"
    /\ UNCHANGED <<world, saved, command, seen, polls, boots, history>>

Probe ==
    /\ pc = "probe"
    /\ IF ~qemu THEN md' = Exited /\ pc' = "save"
       ELSE /\ pc' = IF md.readiness = "networking-unready" THEN "save" ELSE "sleep"
            /\ UNCHANGED md
    /\ UNCHANGED <<world, saved, command, seen, polls, boots, history>>

LookAgain ==
    /\ pc = "sleep"
    /\ pc' = "neigh"
    /\ seen' = NothingSeen
    /\ history' = [history EXCEPT !.during = Visible, !.dead = ~qemu]
    /\ UNCHANGED <<world, saved, md, command, boots>>

\* Variant: the time is not checked before a round.
PollPastEnd == LookAgain /\ polls' = polls - 1

\* Variant: every round renews the deadline.
PollAfresh == LookAgain /\ polls > 0 /\ polls' = MaxPolls

PollAgain == LookAgain /\ polls > 0 /\ polls' = polls - 1

\* The rounds take time, so the deadline may come after any of them, but not
\* before the first.
TimeOut ==
    /\ pc = "sleep" /\ polls < MaxPolls
    /\ md' = [md EXCEPT !.readiness = "networking-unready",
                        !.reason = IF @ = NoReason THEN "timeout" ELSE @,
                        !.source = IF @ = "none" THEN "readiness-check" ELSE @]
    /\ pc' = "save"
    /\ history' = [history EXCEPT !.timedOut = TRUE]
    /\ UNCHANGED <<world, saved, command, seen, polls, boots>>

Save ==
    /\ pc = "save"
    /\ saved' = md
    /\ Return(md.readiness = "ready")
    /\ UNCHANGED <<world, boots>>

Step ==
    \/ LookAtNeigh \/ LookAtSerial \/ LookAtBridge \/ Judge \/ Probe
    \/ PollAgain \/ TimeOut \/ Save

Next == Host \/ Boot \/ BootFails \/ Status \/ Stop \/ Interrupt \/ Step

Spec == Init /\ [][Next]_vars

\* A command that has begun goes on: nothing it calls blocks for ever.
FairSpec == Spec /\ WF_vars(Step)

-----------------------------------------------------------------------------
TypeOK ==
    /\ qemu \in BOOLEAN /\ bridge \in BOOLEAN
    /\ neigh \in Ips \cup {NoIp}
    /\ serial \in SerialLog
    /\ saved \in Metadata /\ md \in Metadata
    /\ pc \in {"idle", "neigh", "serial", "bridge", "verdict", "probe",
               "sleep", "save"}
    /\ command \in {"none", "boot", "status"}
    /\ seen \in [ip : Ips \cup {NoIp}, ipSource : IpSources,
                 reason : Reasons, bridge : BOOLEAN]
    /\ polls \in 0..MaxPolls /\ boots \in 0..MaxBoots
    /\ history \in [during : BOOLEAN, dead : BOOLEAN, shown : BOOLEAN,
                    timedOut : BOOLEAN, told : BOOLEAN]

\* What status and ssh-info print fits together, whichever commands wrote it
\* and whatever became of QEMU: "ready" comes with an address and its source
\* and without a reason, "networking-unready" with a reason, its source and
\* no address.
VerdictsFit ==
    LET m == saved IN
    /\ (m.readiness = "ready") = (m.ip # NoIp)
    /\ m.readiness = "ready" => m.source = m.ipSource /\ m.reason = NoReason
    /\ m.readiness = "networking-unready" =>
          m.reason # NoReason /\ m.source \notin {"none", "host-ip-neigh"}

\* An address that is there to be seen from the first look of a round to the
\* last is not missed, whatever the bridge and the serial log say.
NotMissed == pc \in {"probe", "save"} /\ history.during => md.ip # NoIp

\* If QEMU was gone before the last round began, create and start do not
\* leave the run recorded as running without network.
ExitNoticed ==
    pc = "save" /\ command = "boot" /\ history.dead =>
        md.readiness = "ready" \/ md.state = "stopped"

\* As long as a guest runs, what a command of this boot has told the user is
\* not taken back: no later look, failed start or expired neighbour entry makes
\* a ready guest unready.
StaysReady == history.told /\ qemu => saved.readiness = "ready"

\* create, start and status come to an end.
CommandsEnd == (pc # "idle") ~> (pc = "idle")

\* README: "considered ready only when the tool observes a usable IPv4
\* address": create and start call the guest ready only if its address could
\* be observed, in the neighbour table or the serial log, at some time since
\* they launched it.
ReadyIsObserved ==
    pc = "save" /\ command = "boot" /\ md.readiness = "ready" => history.shown

\* network.py: "No usable guest IPv4 address was observed before the
\* readiness timeout" is the reason only if this launch waited that long.
TimeoutIsReal ==
    pc = "save" /\ command = "boot" /\ md.reason = "timeout" => history.timedOut
=============================================================================
