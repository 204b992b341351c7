----------------------- MODULE NetworkReadinessProofs -----------------------
(***************************************************************************)
(* The safety properties of NetworkReadiness, for any addresses, any       *)
(* failures the guest may print and any number of rounds and launches.     *)
(* VerdictsFit, NotMissed and ExitNoticed speak of the last step of a      *)
(* command, so each rests on what the looks before it have seen: LooksInv  *)
(* follows an address from the host into seen and into the record.         *)
(***************************************************************************)
EXTENDS NetworkReadiness, TLAPS

Labels == {"idle", "neigh", "serial", "bridge", "verdict", "probe", "sleep", "save"}

Seen == [ip : Ips \cup {NoIp}, ipSource : IpSources, reason : Reasons, bridge : BOOLEAN]

History == [during : BOOLEAN, dead : BOOLEAN, shown : BOOLEAN, timedOut : BOOLEAN,
            told : BOOLEAN]

(***************************************************************************)
(* The serial log's classification.                                        *)
(***************************************************************************)
LEMMA FailureList ==
  /\ Len(FailureOrder) = 9
  /\ \A i \in 1..9 : FailureOrder[i] \in Failures
  /\ \A failure \in Failures : \E i \in 1..9 : failure = FailureOrder[i]
<1>1. Len(FailureOrder) = 9
  BY DEF FailureOrder
<1>2. Failures = {FailureOrder[i] : i \in 1..9}
  BY <1>1 DEF Failures
<1> QED
  BY <1>1, <1>2

\* The first failure in the order of _classify_serial_failure is one, and it
\* is there.
LEMMA FirstFailure ==
  ASSUME NEW found \in SUBSET Failures, found # {}
  PROVE  \E i \in 1..Len(FailureOrder) :
             /\ FailureOrder[i] \in found
             /\ \A j \in 1..(i - 1) : FailureOrder[j] \notin found
<1> DEFINE In(i) == FailureOrder[i] \in found
           First(i) == In(i) /\ \A j \in 1..(i - 1) : ~In(j)
<1>1. PICK i \in 1..9 : In(i)
  BY FailureList
<1>2. \E k \in 1..9 : First(k)
  <2> HIDE DEF In
  <2>1. CASE In(1)
    BY <2>1
  <2>2. CASE ~In(1) /\ In(2)
    BY <2>2
  <2>3. CASE ~In(1) /\ ~In(2) /\ In(3)
    BY <2>3
  <2>4. CASE ~In(1) /\ ~In(2) /\ ~In(3) /\ In(4)
    BY <2>4
  <2>5. CASE ~In(1) /\ ~In(2) /\ ~In(3) /\ ~In(4) /\ In(5)
    BY <2>5
  <2>6. CASE ~In(1) /\ ~In(2) /\ ~In(3) /\ ~In(4) /\ ~In(5) /\ In(6)
    BY <2>6
  <2>7. CASE ~In(1) /\ ~In(2) /\ ~In(3) /\ ~In(4) /\ ~In(5) /\ ~In(6) /\ In(7)
    BY <2>7
  <2>8. CASE ~In(1) /\ ~In(2) /\ ~In(3) /\ ~In(4) /\ ~In(5) /\ ~In(6) /\ ~In(7) /\ In(8)
    BY <2>8
  <2>9. CASE ~In(1) /\ ~In(2) /\ ~In(3) /\ ~In(4) /\ ~In(5) /\ ~In(6) /\ ~In(7) /\ ~In(8)
    <3>1. i = 9
      BY <1>1, <2>9
    <3> QED
      BY <1>1, <2>9, <3>1
  <2> QED
    BY <2>1, <2>2, <2>3, <2>4, <2>5, <2>6, <2>7, <2>8, <2>9
<1> QED
  BY <1>2, FailureList

LEMMA ClassifyType ==
  ASSUME serial \in SerialLog
  PROVE  Classify \in Failures \cup {NoReason}
<1>1. Marked \in SUBSET Failures
  <2>1. "init handoff" \in Failures
    <3>1. FailureOrder[4] = "init handoff"
      BY DEF FailureOrder
    <3>2. FailureOrder[4] \in Failures
      BY FailureList
    <3> QED
      BY <3>1, <3>2, Zenon
  <2>2. serial.marks \subseteq Printable
    BY DEF SerialLog
  <2> QED
    BY <2>1, <2>2, PrintableAssumption DEF Marked
<1>2. CASE Marked = {}
  BY <1>2 DEF Classify
<1>3. CASE Marked # {}
  <2> DEFINE First(i) == /\ FailureOrder[i] \in Marked
                         /\ \A j \in 1..(i - 1) : FailureOrder[j] \notin Marked
             chosen == CHOOSE i \in 1..Len(FailureOrder) : First(i)
  <2>1. \E i \in 1..Len(FailureOrder) : First(i)
    BY <1>1, <1>3, FirstFailure
  <2>2. chosen \in 1..Len(FailureOrder)
    BY <2>1
  <2>3. FailureOrder[chosen] \in Failures
    BY <2>2, FailureList
  <2>4. Classify = FailureOrder[chosen]
    BY <1>3 DEF Classify
  <2> QED
    BY <2>3, <2>4
<1> QED
  BY <1>2, <1>3

LEMMA SerialReasonType ==
  ASSUME serial \in SerialLog
  PROVE  SerialReason \in Reasons
BY ClassifyType DEF SerialReason, Reasons

-----------------------------------------------------------------------------
(***************************************************************************)
(* Types.  WorldTypes and RecordTypes are the parts that take records.     *)
(***************************************************************************)
WorldTypes ==
    /\ qemu \in BOOLEAN /\ bridge \in BOOLEAN
    /\ neigh \in Ips \cup {NoIp}
    /\ serial \in SerialLog

RecordTypes ==
    /\ saved \in Metadata /\ md \in Metadata
    /\ seen \in Seen
    /\ history \in History

ControlTypes ==
    /\ pc \in Labels
    /\ command \in {"none", "boot", "status"}
    /\ polls \in 0..MaxPolls /\ boots \in 0..MaxBoots

LEMMA TypeParts == TypeOK <=> WorldTypes /\ RecordTypes /\ ControlTypes
BY DEF TypeOK, WorldTypes, RecordTypes, ControlTypes, Labels, Seen, History

LEMMA TypeInit == Init => TypeOK
<1> SUFFICES ASSUME Init PROVE TypeOK
  OBVIOUS
<1>1. WorldTypes
  BY DEF Init, WorldTypes, EmptyLog, SerialLog
<1>2. RecordTypes
  BY BoundsAssumption DEF Init, RecordTypes, InitMetadata, Metadata, NothingSeen, Seen, NoHistory, History,
         Reasons, IpSources, Sources
<1>3. ControlTypes
  BY BoundsAssumption DEF Init, ControlTypes, Labels
<1> QED
  BY <1>1, <1>2, <1>3, TypeParts

\* Every step either leaves the guest and the host alone or is the world's,
\* a launch or a stop.
LEMMA WorldTypesStep == TypeOK /\ [Next]_vars => WorldTypes'
<1> SUFFICES ASSUME WorldTypes, [Next]_vars PROVE WorldTypes'
  BY TypeParts
<1> USE DEF WorldTypes
<1>1. ASSUME NEW kind \in Printable, GuestPrints(kind) PROVE WorldTypes'
  BY <1>1 DEF GuestPrints, SerialLog
<1>2. CASE GuestInit({"absent", "passed"}, "last") \/ GuestInit({"last"}, "passed")
  BY <1>2 DEF GuestInit, SerialLog
<1>3. ASSUME NEW ip \in Ips, GuestShowsAddress(ip) PROVE WorldTypes'
  BY <1>3 DEF GuestShowsAddress, SerialLog
<1>4. CASE GuestDies \/ NeighExpires \/ BridgeChanges
  BY <1>4 DEF GuestDies, NeighExpires, BridgeChanges
<1>5. CASE Boot \/ Stop
  BY <1>5 DEF Boot, Stop
<1>6. CASE BootFails \/ Status \/ Interrupt \/ Step \/ UNCHANGED vars
  BY <1>6 DEF BootFails, Status, Interrupt, Step, LookAtNeigh, LookAtSerial, LookAtBridge,
              Judge, Probe, PollAgain, LookAgain, TimeOut, Save, vars, world
<1> QED
  BY <1>1, <1>2, <1>3, <1>4, <1>5, <1>6 DEF Next, Host

\* What the records become: every form a step writes is a record.
LEMMA RecordForms ==
  ASSUME NEW m \in Metadata, NEW ip \in Ips, NEW ipSource \in IpSources,
         NEW reason \in Reasons, NEW source \in Sources
  PROVE  /\ WithAddress(m, ip, ipSource) \in Metadata
         /\ WithFailure(m, reason, source) \in Metadata
<1> USE DEF Metadata, Sources, Reasons
<1>1. WithAddress(m, ip, ipSource) \in Metadata
  BY DEF WithAddress
<1>2. WithFailure(m, reason, source) \in Metadata
  BY DEF WithFailure
<1> QED
  BY <1>1, <1>2

LEMMA VerdictType == RecordTypes => Verdict \in Metadata
<1> SUFFICES ASSUME RecordTypes PROVE Verdict \in Metadata
  OBVIOUS
<1>1. /\ md \in Metadata /\ seen.ip \in Ips \cup {NoIp} /\ seen.ipSource \in IpSources
      /\ seen.reason \in Reasons
  BY DEF RecordTypes, Seen
<1>2. /\ "bridge" \in Reasons /\ "host-bridge-check" \in Sources /\ "serial-log" \in Sources
      /\ "none" \in IpSources
  BY DEF Reasons, Sources, IpSources
<1>3. CASE seen.ip # NoIp
  BY <1>1, <1>2, <1>3, RecordForms DEF Verdict
<1>4. CASE seen.ip = NoIp
  <2>1. /\ WithFailure(md, "bridge", "host-bridge-check") \in Metadata
        /\ WithFailure(md, seen.reason, "serial-log") \in Metadata
    <3>1. \A reason \in Reasons, source \in Sources : WithFailure(md, reason, source) \in Metadata
      BY <1>1 DEF WithFailure, Metadata
    <3> QED
      BY <1>1, <1>2, <3>1
  <2>2. [md EXCEPT !.reason = NoReason, !.source = "none"] \in Metadata
    BY <1>1 DEF Metadata, Reasons, Sources, IpSources
  <2> QED
    BY <1>1, <1>4, <2>1, <2>2 DEF Verdict
<1> QED
  BY <1>3, <1>4

LEMMA RecordTypesStep == TypeOK /\ [Next]_vars => RecordTypes'
<1> SUFFICES ASSUME RecordTypes, WorldTypes, ControlTypes, [Next]_vars PROVE RecordTypes'
  BY TypeParts
<1> USE DEF RecordTypes
<1>0. /\ Refresh(saved) \in Metadata
      /\ \A m \in Metadata : /\ Off(m, "stopped") \in Metadata
                             /\ Off(m, "failed") \in Metadata
      /\ \A m \in Metadata, boot \in 0..MaxBoots :
             [m EXCEPT !.state = "running", !.log = TRUE, !.boot = boot] \in Metadata
  <2>1. 0 \in 0..MaxBoots
    BY BoundsAssumption
  <2>2. \A m \in Metadata : /\ Off(m, "stopped") \in Metadata
                           /\ Off(m, "failed") \in Metadata
    BY <2>1 DEF Metadata, Off
  <2>3. \A m \in Metadata, boot \in 0..MaxBoots :
           [m EXCEPT !.state = "running", !.log = TRUE, !.boot = boot] \in Metadata
    BY DEF Metadata
  <2> QED
    BY <2>2, <2>3, Zenon DEF Refresh
<1>00. NothingSeen \in Seen
  BY DEF NothingSeen, Seen, Reasons, IpSources
<1>000. /\ Visible \in BOOLEAN /\ Visible' \in BOOLEAN
        /\ \A a, b \in BOOLEAN : /\ [NoHistory EXCEPT !.during = a, !.shown = b] \in History
                                /\ [history EXCEPT !.during = a, !.dead = b] \in History
                                /\ [history EXCEPT !.during = a, !.shown = b] \in History
                                /\ [history EXCEPT !.during = FALSE, !.dead = FALSE,
                                                   !.told = a] \in History
  BY DEF Visible, NoHistory, History
<1>1. CASE World
  <2>1. history.during \in BOOLEAN /\ history.shown \in BOOLEAN
    BY DEF History
  <2> QED
    BY <1>1, <1>000, <2>1 DEF World
<1>2. CASE Boot
  <2>1. (neigh # NoIp \/ serial.ip # NoIp) \in BOOLEAN
    OBVIOUS
  <2>2. boots' \in 0..MaxBoots
    BY <1>2, BoundsAssumption DEF Boot, ControlTypes
  <2> QED
    BY <1>2, <1>0, <1>00, <1>000, <2>1, <2>2 DEF Boot
<1>3. CASE BootFails \/ Stop \/ Interrupt \/ Save
  <2>1. saved' \in Metadata /\ md' = saved' /\ seen' = NothingSeen
    BY <1>3, <1>0 DEF BootFails, Stop, Interrupt, Save, Return
  <2>2. \E ready \in BOOLEAN :
          history' = [history EXCEPT !.during = FALSE, !.dead = FALSE,
                                     !.told = @ \/ ready]
    BY <1>3, Zenon DEF BootFails, Stop, Interrupt, Save, Return
  <2>3. history' \in History
    BY <2>2 DEF History
  <2> QED
    BY <1>00, <2>1, <2>3
<1>4. CASE Status
  BY <1>4, <1>0, <1>00, <1>000 DEF Status
<1>5. CASE LookAtNeigh
  <2>1. md.ip \in Ips \cup {NoIp} /\ md.ipSource \in IpSources
    BY DEF Metadata
  <2>2. "host-ip-neigh" \in IpSources /\ neigh \in Ips \cup {NoIp}
    BY DEF IpSources, WorldTypes
  <2>3. \A ip \in Ips \cup {NoIp}, source \in IpSources :
            [seen EXCEPT !.ip = ip, !.ipSource = source] \in Seen
    BY DEF Seen
  <2> QED
    BY <1>5, <2>1, <2>2, <2>3 DEF LookAtNeigh
<1>6. CASE LookAtSerial
  BY <1>6, SerialReasonType DEF LookAtSerial, WorldTypes, SerialLog, Seen, IpSources
<1>7. CASE LookAtBridge
  BY <1>7 DEF LookAtBridge, WorldTypes, Seen
<1>8. CASE Judge
  BY <1>8, <1>00, VerdictType DEF Judge
<1>9. CASE Probe
  <2>1. Exited \in Metadata
    <3>1. "qemu exit" \in Reasons /\ "qemu-process" \in Sources
      BY DEF Reasons, Sources
    <3>2. \A m \in Metadata : WithFailure(m, "qemu exit", "qemu-process") \in Metadata
      BY <3>1 DEF WithFailure, Metadata
    <3> QED
      BY <1>0, <3>2 DEF Exited
  <2> QED
    BY <1>9, <2>1 DEF Probe
<1>10. CASE PollAgain
  BY <1>10, <1>00, <1>000 DEF PollAgain, LookAgain
<1>11. CASE TimeOut
  <2>1. md' \in Metadata
    <3>1. \A reason \in Reasons, source \in Sources :
            [md EXCEPT !.readiness = "networking-unready", !.reason = reason,
                       !.source = source] \in Metadata
      BY DEF Metadata
    <3>2. /\ (IF md.reason = NoReason THEN "timeout" ELSE md.reason) \in Reasons
          /\ (IF md.source = "none" THEN "readiness-check" ELSE md.source) \in Sources
      BY DEF Metadata, Reasons, Sources
    <3> QED
      BY <1>11, <3>1, <3>2 DEF TimeOut
  <2>2. history' \in History
    BY <1>11 DEF TimeOut, History
  <2> QED
    BY <1>11, <2>1, <2>2 DEF TimeOut
<1>12. CASE UNCHANGED vars
  BY <1>12 DEF vars
<1> QED
  BY <1>1, <1>2, <1>3, <1>4, <1>5, <1>6, <1>7, <1>8, <1>9, <1>10, <1>11, <1>12
  DEF Next, Host, Step, GuestPrints, GuestInit, GuestShowsAddress, GuestDies, NeighExpires,
      BridgeChanges

LEMMA ControlTypesStep == TypeOK /\ [Next]_vars => ControlTypes'
<1> SUFFICES ASSUME ControlTypes, [Next]_vars PROVE ControlTypes'
  BY TypeParts
<1> USE BoundsAssumption DEF ControlTypes, Labels
<1>1. CASE World \/ UNCHANGED vars
  BY <1>1 DEF World, vars
<1>2. CASE Boot
  BY <1>2 DEF Boot
<1>3. CASE BootFails \/ Stop \/ Interrupt \/ Save
  BY <1>3 DEF BootFails, Stop, Interrupt, Save, Return
<1>4. CASE Status \/ LookAtNeigh \/ LookAtSerial \/ LookAtBridge \/ Judge
  BY <1>4 DEF Status, LookAtNeigh, LookAtSerial, LookAtBridge, Judge
<1>5. CASE Probe \/ PollAgain \/ TimeOut
  BY <1>5 DEF Probe, PollAgain, LookAgain, TimeOut
<1> QED
  BY <1>1, <1>2, <1>3, <1>4, <1>5
  DEF Next, Host, Step, GuestPrints, GuestInit, GuestShowsAddress, GuestDies, NeighExpires,
      BridgeChanges

\* Every variable has its type in every behaviour, for any addresses and any
\* number of rounds and launches (network.py, models.py).
THEOREM NetworkTypes == Spec => []TypeOK
<1>1. TypeOK /\ [Next]_vars => TypeOK'
  <2>1. TypeOK' <=> WorldTypes' /\ RecordTypes' /\ ControlTypes'
    BY DEF TypeOK, WorldTypes, RecordTypes, ControlTypes, Labels, Seen, History
  <2> QED
    BY <2>1, WorldTypesStep, RecordTypesStep, ControlTypesStep
<1> QED
  BY <1>1, TypeInit, PTL DEF Spec

-----------------------------------------------------------------------------
(***************************************************************************)
(* The invariants.                                                         *)
(***************************************************************************)

\* VerdictsFit of any record, and that nothing is told of an unknown network.
Fits(m) ==
    /\ (m.readiness = "ready") = (m.ip # NoIp)
    /\ m.readiness = "ready" => m.source = m.ipSource /\ m.reason = NoReason
    /\ m.readiness = "networking-unready" =>
          m.reason # NoReason /\ m.source \notin {"none", "host-ip-neigh"}
    /\ m.readiness = "unknown" => m.reason = NoReason /\ m.source = "none"

\* The record in the command's hands is never less ready than the saved one;
\* the wait goes on only while nothing is known.
RecordsInv ==
    /\ Fits(saved) /\ Fits(md)
    /\ saved.readiness = "ready" => md.readiness = "ready"
    /\ pc \in {"probe", "sleep"} => md.readiness # "ready"
    /\ pc = "sleep" => md.readiness = "unknown"
    /\ pc \in {"serial", "bridge", "verdict"} /\ md.ip # NoIp => seen.ip # NoIp

\* Where an address that has been there all through the round is known from.
LooksInv ==
    history.during =>
        /\ pc = "neigh" => Visible
        /\ pc = "serial" => seen.ip # NoIp \/ (md.log /\ serial.ip # NoIp)
        /\ pc \in {"bridge", "verdict"} => seen.ip # NoIp
        /\ pc \in {"probe", "sleep", "save"} => md.ip # NoIp

ExitInv ==
    /\ history.dead => ~qemu /\ pc # "sleep"
    /\ ExitNoticed

LEMMA HostStep ==
  ASSUME TypeOK, Host
  PROVE  World /\ (qemu' => qemu) /\ (serial.ip # NoIp => serial'.ip = serial.ip)
<1> serial \in SerialLog
  BY TypeParts DEF WorldTypes
<1>1. ASSUME NEW kind \in Printable, GuestPrints(kind)
      PROVE  World /\ (qemu' => qemu) /\ serial'.ip = serial.ip
  BY <1>1 DEF GuestPrints, SerialLog
<1>2. CASE GuestInit({"absent", "passed"}, "last") \/ GuestInit({"last"}, "passed")
  BY <1>2 DEF GuestInit, SerialLog
<1>3. ASSUME NEW ip \in Ips, GuestShowsAddress(ip)
      PROVE  World /\ (qemu' => qemu) /\ (serial.ip # NoIp => serial'.ip = serial.ip)
  BY <1>3 DEF GuestShowsAddress, SerialLog
<1>4. CASE GuestDies \/ NeighExpires \/ BridgeChanges
  BY <1>4 DEF GuestDies, NeighExpires, BridgeChanges
<1> QED
  BY <1>1, <1>2, <1>3, <1>4 DEF Host

LEMMA InvInit == Init => RecordsInv /\ LooksInv /\ ExitInv
BY DEF Init, RecordsInv, LooksInv, ExitInv, ExitNoticed, Fits, InitMetadata, NoHistory

\* A verdict fits: an address the record has was taken over by the first look.
LEMMA VerdictFits ==
  ASSUME TypeOK, RecordsInv, pc = "verdict"
  PROVE  /\ Fits(Verdict)
         /\ md.readiness = "ready" => Verdict.readiness = "ready"
         /\ seen.ip # NoIp => Verdict.ip # NoIp
<1>1. md \in Metadata /\ Fits(md) /\ (md.ip # NoIp => seen.ip # NoIp)
  BY TypeParts DEF RecordTypes, RecordsInv
<1>2. CASE seen.ip # NoIp
  <2>1. Verdict = WithAddress(md, seen.ip, seen.ipSource)
    BY <1>2 DEF Verdict
  <2> QED
    BY <1>1, <1>2, <2>1 DEF WithAddress, Metadata, Fits
<1>3. CASE seen.ip = NoIp /\ ~seen.bridge
  <2>1. Verdict = WithFailure(md, "bridge", "host-bridge-check")
    BY <1>3 DEF Verdict
  <2> QED
    BY <1>1, <1>3, <2>1, NoReasonAssumption DEF WithFailure, Metadata, Fits
<1>4. CASE seen.ip = NoIp /\ seen.bridge /\ seen.reason # NoReason
  <2>1. Verdict = WithFailure(md, seen.reason, "serial-log")
    BY <1>4 DEF Verdict
  <2> QED
    BY <1>1, <1>4, <2>1 DEF WithFailure, Metadata, Fits
<1>5. CASE seen.ip = NoIp /\ seen.bridge /\ seen.reason = NoReason
  <2>1. Verdict = IF md.readiness = "unknown"
                  THEN [md EXCEPT !.reason = NoReason, !.source = "none"] ELSE md
    BY <1>5 DEF Verdict
  <2> QED
    BY <1>1, <1>5, <2>1 DEF Metadata, Fits
<1>6. seen.bridge \in BOOLEAN
  BY TypeParts DEF RecordTypes, Seen
<1> QED
  BY <1>2, <1>3, <1>4, <1>5, <1>6

LEMMA RecordsInvStep == TypeOK /\ RecordsInv /\ [Next]_vars => RecordsInv'
<1> SUFFICES ASSUME TypeOK, RecordsInv, [Next]_vars PROVE RecordsInv'
  OBVIOUS
<1>0. /\ saved \in Metadata /\ md \in Metadata /\ seen \in Seen
      /\ saved.readiness = "ready" => saved.ip # NoIp
  BY TypeParts DEF RecordTypes, RecordsInv, Fits
<1>00. \A m \in Metadata : Fits(m) =>
          /\ \A state \in {"stopped", "failed"} :
                /\ Fits(Off(m, state))
                /\ Off(m, state).readiness = m.readiness
          /\ \A boot : LET n == [m EXCEPT !.state = "running", !.log = TRUE, !.boot = boot]
                      IN  Fits(n) /\ n.readiness = m.readiness
  BY DEF Metadata, Fits, Off
<1>1. CASE Host
  BY <1>1, HostStep DEF World, RecordsInv
<1>2. CASE Boot
  BY <1>2, <1>0, <1>00 DEF Boot, RecordsInv
<1>3. CASE BootFails \/ Stop \/ Interrupt
  <2>1. Fits(saved') /\ md' = saved' /\ pc' = "idle"
    <3>1. CASE BootFails
      BY <3>1, <1>0, <1>00 DEF BootFails, Return, RecordsInv
    <3>2. CASE Stop
      BY <3>2, <1>0, <1>00 DEF Stop, Return, RecordsInv
    <3>3. CASE Interrupt
      BY <3>3 DEF Interrupt, Return, RecordsInv
    <3> QED
      BY <1>3, <3>1, <3>2, <3>3
  <2> QED
    BY <2>1 DEF RecordsInv
<1>4. CASE Save
  BY <1>4 DEF Save, Return, RecordsInv
<1>5. CASE Status
  BY <1>5, <1>0, <1>00 DEF Status, Refresh, RecordsInv
<1>6. CASE LookAtNeigh
  <2>1. md.ip # NoIp => seen'.ip # NoIp
    BY <1>6, <1>0 DEF LookAtNeigh, Seen
  <2> QED
    BY <1>6, <2>1 DEF LookAtNeigh, RecordsInv
<1>7. CASE LookAtSerial \/ LookAtBridge
  <2>1. seen.ip # NoIp => seen'.ip # NoIp
    BY <1>7, <1>0 DEF LookAtSerial, LookAtBridge, Seen
  <2> QED
    BY <1>7, <2>1 DEF LookAtSerial, LookAtBridge, RecordsInv
<1>8. CASE Judge
  BY <1>8, VerdictFits DEF Judge, RecordsInv
<1>9. CASE Probe
  <2>1. Fits(Exited) /\ md.readiness # "ready" /\ saved.readiness # "ready"
    BY <1>9, <1>0, NoReasonAssumption DEF Probe, RecordsInv, Exited, Off, WithFailure, Metadata, Fits
  <2>2. md.readiness # "networking-unready" => md.readiness = "unknown"
    BY <1>0, <2>1 DEF Metadata
  <2> QED
    BY <1>9, <2>1, <2>2 DEF Probe, RecordsInv
<1>10. CASE PollAgain
  BY <1>10 DEF PollAgain, LookAgain, RecordsInv
<1>11. CASE TimeOut
  <2>1. md.readiness = "unknown" /\ Fits(md) /\ saved.readiness # "ready"
    BY <1>11 DEF TimeOut, RecordsInv
  <2>2. md' = [md EXCEPT !.readiness = "networking-unready", !.reason = "timeout",
                         !.source = "readiness-check"]
    BY <1>11, <2>1 DEF TimeOut, Fits
  <2>3. Fits(md')
    BY <1>0, <2>1, <2>2, NoReasonAssumption DEF Fits, Metadata
  <2> QED
    BY <1>11, <2>1, <2>3 DEF TimeOut, RecordsInv
<1>12. CASE UNCHANGED vars
  BY <1>12 DEF vars, RecordsInv
<1> QED
  BY <1>1, <1>2, <1>3, <1>4, <1>5, <1>6, <1>7, <1>8, <1>9, <1>10, <1>11, <1>12 DEF Next, Step

LEMMA LooksInvStep == TypeOK /\ RecordsInv /\ LooksInv /\ [Next]_vars => LooksInv'
<1> SUFFICES ASSUME TypeOK, RecordsInv, LooksInv, [Next]_vars PROVE LooksInv'
  OBVIOUS
<1>0. md \in Metadata /\ seen \in Seen /\ history \in History
  BY TypeParts DEF RecordTypes
<1>1. CASE Host
  <2>1. /\ World /\ (serial.ip # NoIp => serial'.ip = serial.ip)
        /\ history'.during => history.during /\ Visible'
    BY <1>0, <1>1, HostStep DEF World, History
  <2> QED
    BY <2>1 DEF World, LooksInv
<1>2. CASE Boot
  <2>1. pc' = "neigh" /\ md'.log
    BY <1>2, TypeParts DEF Boot, RecordTypes, Metadata
  <2>2. history'.during => neigh # NoIp \/ serial.ip # NoIp
    BY <1>2 DEF Boot, NoHistory
  <2> QED
    BY <1>2, <2>1, <2>2 DEF Boot, LooksInv, Visible
<1>3. CASE BootFails \/ Stop \/ Interrupt \/ Save
  BY <1>0, <1>3 DEF BootFails, Stop, Interrupt, Save, Return, LooksInv, History
<1>4. CASE Status
  <2>1. md'.log = saved.log /\ pc' = "neigh"
    BY <1>4, TypeParts DEF Status, RecordTypes, Metadata, Refresh, Off
  <2>2. history'.during => neigh # NoIp \/ (saved.log /\ serial.ip # NoIp)
    BY <1>0, <1>4 DEF Status, History
  <2> QED
    BY <1>4, <2>1, <2>2 DEF Status, LooksInv, Visible, world
<1>5. CASE LookAtNeigh
  <2>1. seen'.ip = IF md.ip # NoIp THEN md.ip ELSE IF neigh # NoIp THEN neigh ELSE seen.ip
    BY <1>0, <1>5 DEF LookAtNeigh, Seen
  <2> QED
    BY <1>5, <2>1 DEF LookAtNeigh, LooksInv, Visible, world
<1>6. CASE LookAtSerial
  <2>1. seen'.ip = IF seen.ip = NoIp /\ md.log /\ serial.ip # NoIp THEN serial.ip ELSE seen.ip
    BY <1>0, <1>6 DEF LookAtSerial, Seen
  <2> QED
    BY <1>6, <2>1 DEF LookAtSerial, LooksInv
<1>7. CASE LookAtBridge
  <2>1. seen'.ip = seen.ip
    BY <1>0, <1>7 DEF LookAtBridge, Seen
  <2> QED
    BY <1>7, <2>1 DEF LookAtBridge, LooksInv
<1>8. CASE Judge
  BY <1>8, VerdictFits DEF Judge, LooksInv
<1>9. CASE Probe
  <2>1. md'.ip = md.ip
    BY <1>0, <1>9 DEF Probe, Exited, Off, WithFailure, Metadata
  <2> QED
    BY <1>9, <2>1 DEF Probe, LooksInv
<1>10. CASE PollAgain
  <2>1. history'.during = Visible /\ pc' = "neigh" /\ UNCHANGED <<world, md>>
    BY <1>0, <1>10 DEF PollAgain, LookAgain, History
  <2> QED
    BY <2>1 DEF LooksInv, Visible, world
<1>11. CASE TimeOut
  <2>1. md'.ip = md.ip /\ history'.during = history.during
    BY <1>0, <1>11 DEF TimeOut, Metadata, History
  <2> QED
    BY <1>11, <2>1 DEF TimeOut, LooksInv
<1>12. CASE UNCHANGED vars
  BY <1>12 DEF vars, world, LooksInv, Visible
<1> QED
  BY <1>1, <1>2, <1>3, <1>4, <1>5, <1>6, <1>7, <1>8, <1>9, <1>10, <1>11, <1>12 DEF Next, Step

LEMMA ExitInvStep == TypeOK /\ ExitInv /\ [Next]_vars => ExitInv'
<1> SUFFICES ASSUME TypeOK, ExitInv, [Next]_vars PROVE ExitInv'
  OBVIOUS
<1> USE DEF ExitInv, ExitNoticed
<1>0. md \in Metadata /\ history \in History
  BY TypeParts DEF RecordTypes
<1>1. CASE Host
  <2>1. history'.dead = history.dead
    BY <1>0, <1>1, HostStep DEF World, History
  <2> QED
    BY <1>1, <2>1, HostStep DEF World
<1>2. CASE Boot
  BY <1>2 DEF Boot, NoHistory
<1>3. CASE BootFails \/ Stop \/ Interrupt \/ Save
  BY <1>0, <1>3 DEF BootFails, Stop, Interrupt, Save, Return, History
<1>4. CASE Status \/ PollAgain
  <2>1. history'.dead = ~qemu /\ pc' = "neigh" /\ qemu' = qemu
    <3>1. CASE Status
      BY <1>0, <3>1 DEF Status, History, world
    <3>2. CASE PollAgain
      BY <1>0, <3>2 DEF PollAgain, LookAgain, History, world
    <3> QED
      BY <1>4, <3>1, <3>2
  <2> QED
    BY <2>1
<1>5. CASE LookAtNeigh \/ LookAtSerial \/ LookAtBridge
  BY <1>5 DEF LookAtNeigh, LookAtSerial, LookAtBridge, world
<1>6. CASE Judge
  BY <1>6 DEF Judge, world
<1>7. CASE Probe
  <2>1. Exited.state = "stopped"
    BY <1>0 DEF Exited, Off, WithFailure, Metadata
  <2> QED
    BY <1>7, <2>1 DEF Probe, world
<1>8. CASE TimeOut
  <2>1. history'.dead = history.dead
    BY <1>0, <1>8 DEF TimeOut, History
  <2> QED
    BY <1>8, <2>1 DEF TimeOut, world
<1>9. CASE UNCHANGED vars
  BY <1>9 DEF vars, world
<1> QED
  BY <1>1, <1>2, <1>3, <1>4, <1>5, <1>6, <1>7, <1>8, <1>9 DEF Next, Step

LEMMA InvHolds == Spec => [](TypeOK /\ RecordsInv /\ LooksInv /\ ExitInv)
<1>1. Init => RecordsInv /\ LooksInv /\ ExitInv
  BY InvInit
<1>2. TypeOK /\ RecordsInv /\ LooksInv /\ ExitInv /\ [Next]_vars
        => RecordsInv' /\ LooksInv' /\ ExitInv'
  BY RecordsInvStep, LooksInvStep, ExitInvStep
<1> QED
  BY <1>1, <1>2, NetworkTypes, PTL DEF Spec

-----------------------------------------------------------------------------
(***************************************************************************)
(* The theorems.                                                           *)
(***************************************************************************)

\* What metadata.json says of the network fits together, whichever commands
\* wrote it and however they were cut short (network.py 71-135).
THEOREM VerdictsFitHolds == Spec => []VerdictsFit
<1>1. RecordsInv => VerdictsFit
  BY DEF RecordsInv, Fits, VerdictsFit
<1> QED
  BY <1>1, InvHolds, PTL

\* An address that is visible during all the looks of observe_network is
\* found by one of them, whatever bridge and serial log say.
THEOREM NotMissedHolds == Spec => []NotMissed
<1>1. LooksInv => NotMissed
  BY DEF LooksInv, NotMissed
<1> QED
  BY <1>1, InvHolds, PTL

\* assess_network_readiness does not leave a machine recorded as running that
\* was gone when its last round began.
THEOREM ExitNoticedHolds == Spec => []ExitNoticed
<1>1. ExitInv => ExitNoticed
  BY DEF ExitInv
<1> QED
  BY <1>1, InvHolds, PTL

\* What a command of this boot has told is not taken back: the record in the
\* hands of the next command is ready as well (RecordsInv), and no look makes
\* it less so (network.py 101-140, cli.py 179-214).
THEOREM StaysReadyHolds == Spec => []StaysReady
<1>1. Init => StaysReady
  BY DEF Init, StaysReady, NoHistory
<1>2. TypeOK /\ RecordsInv /\ StaysReady /\ [Next]_vars => StaysReady'
  <2> SUFFICES ASSUME TypeOK, RecordsInv, StaysReady, [Next]_vars PROVE StaysReady'
    OBVIOUS
  <2>0. saved \in Metadata /\ history \in History
    BY TypeParts DEF RecordTypes
  <2>1. CASE BootFails \/ Stop \/ Interrupt
    <3>1. /\ (qemu' => qemu)
          /\ saved' = saved \/ saved' = Off(saved, "stopped") \/ saved' = Off(saved, "failed")
      <4>1. CASE BootFails \/ Interrupt
        <5>1. UNCHANGED qemu /\ (saved' = saved \/ saved' = Off(saved, "failed"))
          BY <4>1 DEF BootFails, Interrupt, world
        <5> QED
          BY <5>1
      <4>2. CASE Stop
        BY <4>2 DEF Stop
      <4> QED
        BY <2>1, <4>1, <4>2
    <3>3. saved'.readiness = saved.readiness
      BY <2>0, <3>1 DEF Off, Metadata
    <3>2. history'.told = history.told
      BY <2>0, <2>1 DEF BootFails, Stop, Interrupt, Return, History
    <3> QED
      BY <3>1, <3>2, <3>3 DEF StaysReady
  <2>2. CASE Save
    <3>1. history'.told => history.told \/ md.readiness = "ready"
      BY <2>0, <2>2 DEF Save, Return, History
    <3> QED
      BY <2>2, <3>1 DEF Save, RecordsInv, StaysReady, world
  <2>3. CASE Boot
    BY <2>3 DEF Boot, NoHistory, StaysReady
  <2>4. CASE Host
    <3>1. history'.told = history.told
      BY <2>0, <2>4, HostStep DEF World, History
    <3> QED
      BY <2>4, <3>1, HostStep DEF World, StaysReady
  <2>5. CASE Status \/ LookAtNeigh \/ LookAtSerial \/ LookAtBridge \/ Judge \/ Probe
             \/ PollAgain \/ TimeOut
    <3>1. UNCHANGED <<qemu, saved>>
      BY <2>5 DEF Status, LookAtNeigh, LookAtSerial, LookAtBridge, Judge, Probe, PollAgain,
                  LookAgain, TimeOut, world
    <3>2. history'.told = history.told
      BY <2>0, <2>5 DEF Status, LookAtNeigh, LookAtSerial, LookAtBridge, Judge, Probe,
                        PollAgain, LookAgain, TimeOut, History
    <3> QED
      BY <3>1, <3>2 DEF StaysReady
  <2>6. CASE UNCHANGED vars
    BY <2>6 DEF vars, world, StaysReady
  <2> QED
    BY <2>1, <2>2, <2>3, <2>4, <2>5, <2>6 DEF Next, Step
<1> QED
  BY <1>1, <1>2, InvHolds, PTL DEF Spec

-----------------------------------------------------------------------------
(***************************************************************************)
(* Commands end.  No prover here reasons about ENABLED, so the theorem has  *)
(* a hypothesis, NeverStuck: a command that has not ended has a step.  Then *)
(* fairness gives it one again and again unless it ends.                    *)
(***************************************************************************)
NeverStuck == pc # "idle" => ENABLED <<Step>>_vars

GoesOn == []<>(pc = "idle") \/ []<><<Step>>_vars

LEMMA FairGoesOn == WF_vars(Step) /\ []NeverStuck => GoesOn
<1>1. NeverStuck => pc = "idle" \/ ENABLED <<Step>>_vars
  BY DEF NeverStuck
<1> QED
  BY <1>1, PTL DEF GoesOn

\* At a label, in a round after which n more are left.
AtStage(n, l) == polls = n /\ pc = l

Less(n) == pc = "idle" \/ polls < n

LEMMA RoundSteps ==
    ASSUME TypeOK, NEW n \in Nat, polls = n, Step
    PROVE  \/ Less(n)'
           \/ pc = "neigh" /\ AtStage(n, "serial")'
           \/ pc = "serial" /\ AtStage(n, "bridge")'
           \/ pc = "bridge" /\ AtStage(n, "verdict")'
           \/ pc = "verdict" /\ (AtStage(n, "probe") \/ AtStage(n, "save"))'
           \/ pc = "probe" /\ (AtStage(n, "sleep") \/ AtStage(n, "save"))'
           \/ pc = "sleep" /\ AtStage(n, "save")'
BY DEF Step, LookAtNeigh, LookAtSerial, LookAtBridge, Judge, Probe, PollAgain, LookAgain,
       TimeOut, Save, Return, AtStage, Less

\* The guest and the host, and commands that are not under way, leave the
\* command where it is, and Ctrl-C ends it.
LEMMA OtherSteps ==
    ASSUME TypeOK, NEW n \in Nat, polls = n, pc # "idle", [Next]_vars
    PROVE  Step \/ Less(n)' \/ (polls' = polls /\ pc' = pc)
BY HostStep DEF Next, Boot, BootFails, Status, Stop, Interrupt, Return, World, Less, vars

\* The round that looks at the host is over after a while, and the rounds left
\* get fewer; after the last one, the only one of status, the command ends.
Left(n) == polls = n

AtMost(n) == polls \in 0..n

Fewer(n) == polls \in 0..(n - 1)

RoundOf(n) == (pc # "idle" /\ Left(n)) ~> (pc = "idle" \/ Fewer(n))

LEMMA RoundEnds ==
    ASSUME NEW n \in Nat PROVE FairSpec /\ []NeverStuck => RoundOf(n)
<1> DEFINE S(l) == AtStage(n, l)
           L == Less(n)
<1>1. /\ TypeOK /\ S("neigh") /\ <<Step>>_vars => (S("serial") \/ L)'
      /\ TypeOK /\ S("serial") /\ <<Step>>_vars => (S("bridge") \/ L)'
      /\ TypeOK /\ S("bridge") /\ <<Step>>_vars => (S("verdict") \/ L)'
      /\ TypeOK /\ S("verdict") /\ <<Step>>_vars => (S("probe") \/ S("save") \/ L)'
      /\ TypeOK /\ S("probe") /\ <<Step>>_vars => (S("sleep") \/ S("save") \/ L)'
      /\ TypeOK /\ S("sleep") /\ <<Step>>_vars => (S("save") \/ L)'
      /\ TypeOK /\ S("save") /\ <<Step>>_vars => L'
  BY RoundSteps DEF AtStage
<1>2. ASSUME NEW l, l # "idle"
      PROVE  TypeOK /\ S(l) /\ [Next]_vars => S(l)' \/ L' \/ (Step /\ vars' # vars)
  <2>1. CASE UNCHANGED vars
    BY <2>1 DEF vars, AtStage
  <2> QED
    BY <2>1, <1>2, OtherSteps DEF AtStage
<1>3. /\ TypeOK /\ S("neigh") /\ [Next]_vars => (S("neigh") \/ S("serial") \/ L)'
      /\ TypeOK /\ S("serial") /\ [Next]_vars => (S("serial") \/ S("bridge") \/ L)'
      /\ TypeOK /\ S("bridge") /\ [Next]_vars => (S("bridge") \/ S("verdict") \/ L)'
      /\ TypeOK /\ S("verdict") /\ [Next]_vars =>
            (S("verdict") \/ S("probe") \/ S("save") \/ L)'
      /\ TypeOK /\ S("probe") /\ [Next]_vars => (S("probe") \/ S("sleep") \/ S("save") \/ L)'
      /\ TypeOK /\ S("sleep") /\ [Next]_vars => (S("sleep") \/ S("save") \/ L)'
      /\ TypeOK /\ S("save") /\ [Next]_vars => (S("save") \/ L)'
  BY <1>1, <1>2
<1>4. TypeOK /\ pc # "idle" /\ Left(n) =>
         \/ S("neigh") \/ S("serial") \/ S("bridge") \/ S("verdict")
         \/ S("probe") \/ S("sleep") \/ S("save")
  BY DEF TypeOK, AtStage, Left
<1>5. pc = "idle" =>
         /\ ~S("neigh") /\ ~S("serial") /\ ~S("bridge") /\ ~S("verdict")
         /\ ~S("probe") /\ ~S("sleep") /\ ~S("save")
  BY DEF AtStage
<1>6. TypeOK /\ L => pc = "idle" \/ Fewer(n)
  BY BoundsAssumption DEF TypeOK, Less, Fewer
<1> QED
  BY <1>1, <1>3, <1>4, <1>5, <1>6, NetworkTypes, FairGoesOn, PTL
     DEF GoesOn, RoundOf, FairSpec, Spec

\* With at most n rounds left, the command ends.
EndsFrom(n) == (pc # "idle" /\ AtMost(n)) ~> (pc = "idle")

Ends(n) == FairSpec /\ []NeverStuck => EndsFrom(n)

LEMMA LastRoundEnds == Ends(0)
<1>1. AtMost(0) => Left(0)
  BY DEF AtMost, Left
<1>2. ~Fewer(0)
  BY DEF Fewer
<1>3. FairSpec /\ []NeverStuck => RoundOf(0)
  BY RoundEnds
<1> QED
  BY <1>1, <1>2, <1>3, PTL DEF Ends, EndsFrom, RoundOf

LEMMA EarlierRoundsEnd ==
    ASSUME NEW n \in Nat PROVE Ends(n) => Ends(n + 1)
<1>1. AtMost(n + 1) => Left(n + 1) \/ AtMost(n)
  BY DEF AtMost, Left
<1>2. Fewer(n + 1) => AtMost(n)
  BY DEF AtMost, Fewer
<1>3. FairSpec /\ []NeverStuck => RoundOf(n + 1)
  BY RoundEnds
<1>4. pc = "idle" \/ pc # "idle"
  OBVIOUS
<1> QED
  BY <1>1, <1>2, <1>3, <1>4, PTL DEF Ends, EndsFrom, RoundOf

\* The conclusion from 0 and from n to n + 1: NatInduction for the temporal
\* formula Ends, which is no element of a set, and no prover can instantiate
\* the operator in that theorem.
RoundInduction ==
    Ends(0) /\ (\A n \in Nat : Ends(n) => Ends(n + 1)) => \A n \in Nat : Ends(n)

\* create, start and status come to an end, whatever guest and host do and
\* however many rounds the wait has.
THEOREM CommandsEndHolds == RoundInduction /\ FairSpec /\ []NeverStuck => CommandsEnd
<1>1. RoundInduction => Ends(MaxPolls)
  BY LastRoundEnds, EarlierRoundsEnd, BoundsAssumption DEF RoundInduction
<1>2. TypeOK => AtMost(MaxPolls)
  BY DEF TypeOK, AtMost
<1> QED
  BY <1>1, <1>2, NetworkTypes, PTL DEF Ends, EndsFrom, CommandsEnd, FairSpec

=============================================================================
