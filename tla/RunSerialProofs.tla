-------------------------- MODULE RunSerialProofs --------------------------
(***************************************************************************)
(* Proofs about RunLifecycle when one command runs at a time, for any      *)
(* number of runs and processes and any number of faults.                  *)
(***************************************************************************)
EXTENDS RunLifecycleProofs

\* A virtual machine that runs and whose record lost no update to a fault.
Vm(p) == vm[p] = "live" /\ owner[p] \notin cut

NoneLive == \A p \in Pids : ~Vm(p)

RemoveLabels == {"rmtree", "rmfile", "rmdirs", "rmdir"}

StopLabels == {"powerdown", "wait", "term", "termed", "kill"}

\* create before its first save is complete.
Fresh(c) ==
    cmd[c] = "create" /\ md[c].state = "created" /\ pc[c] \in {"save", "write"}

\* Which command may be where.
LabelInv(c) ==
    /\ pc[c] = "mkdir" => cmd[c] = "create"
    /\ pc[c] = "each" => cmd[c] = "list"
    /\ pc[c] \in RemoveLabels => cmd[c] = "destroy"
    /\ cmd[c] = "list" => pc[c] \in {"scan", "each", "save", "write"}
    /\ pc[c] = "assess" => md[c].state = "running"
    /\ cmd[c] = "destroy" =>
          pc[c] \in {"load", "save", "write"} \cup StopLabels \cup RemoveLabels

\* While a command scans, what it has seen is what is there.
ScanInv(c) ==
    /\ pc[c] = "scan" =>
          /\ \A r \in Runs : Readable(store[r]) =>
                                r \in todo[c] \/ seen[c][r] = store[r]
          /\ cmd[c] # "start" => run[c] = NoRun
    /\ pc[c] \in {"scan", "each"} \/ cmd[c] = "list" =>
          \A r \in Runs : Readable(seen[c][r]) => seen[c][r] = store[r]
    /\ pc[c] \in {"save", "write"} /\ cmd[c] = "list" =>
          ~Readable(seen[c][run[c]])

\* No virtual machine runs from the check of the work root to the launch.
LaunchInv(c) ==
    /\ pc[c] \in {"mkdir", "overlay", "render", "launch"} \/ Fresh(c) => NoneLive
    /\ pc[c] = "load" /\ cmd[c] = "start" =>
          \A p \in Pids : Vm(p) => owner[p] = run[c]
    /\ pc[c] = "readpid" =>
          \A p \in Pids :
              vm[p] = "live" /\ owner[p] = run[c] => pidfile[run[c]] = p

\* A command that has the record in hand knows the run's process.
KnowsInv(c) ==
    /\ pc[c] \in {"assess", "save", "write"} \cup StopLabels \cup RemoveLabels =>
          \A p \in Pids : Vm(p) /\ owner[p] = run[c] => md[c].pid = p
    /\ cmd[c] = "destroy" /\ pc[c] \in {"save", "write"} \cup RemoveLabels =>
          md[c].pid = NoPid

\* The files of the run a command works on are as the command left them.
FilesInv(c) ==
    /\ \/ pc[c] \in {"overlay", "render", "launch", "readpid", "assess"}
       \/ pc[c] \in StopLabels \cup {"rmtree", "rmfile"}
       \/ pc[c] = "save" /\ ~Fresh(c)
       => Readable(store[run[c]])
    /\ pc[c] = "write" =>
          store[run[c]].form = "empty" /\ c \in writers[run[c]]
    /\ pc[c] \in {"rmdirs", "rmdir"} => store[run[c]].form = "absent"
    /\ pc[c] \in {"rmfile", "rmdir"} => disk[run[c]] = "gone"
    /\ pc[c] \notin {"idle", "scan", "mkdir", "load", "each"} =>
          run[c] \notin destroyed
    /\ Fresh(c) => disk[run[c]] = "dirs"

CommandInv ==
    \A c \in Operators :
        ~Idle(c) =>
            /\ LabelInv(c) /\ ScanInv(c) /\ LaunchInv(c)
            /\ KnowsInv(c) /\ FilesInv(c)

OneCommand == \A c, d \in Operators : c # d => Idle(c) \/ Idle(d)

WritersInv ==
    \A c \in Operators, r \in Runs :
        c \in writers[r] => pc[c] = "write" /\ run[c] = r

GoneInv ==
    /\ \A r \in Runs : disk[r] = "removed" <=> r \in destroyed
    /\ \A r \in destroyed : store[r].form = "absent"

SerialInv ==
    /\ OneCommand /\ WritersInv /\ GoneInv /\ CommandInv
    /\ Accounted /\ AtMostOneActive /\ DestroyOnlyDead /\ Listed

-----------------------------------------------------------------------------
\* Only command c moves, and no other is in progress.
Alone(c) ==
    /\ \A d \in Operators \ {c} : Idle(d) /\ pc'[d] = pc[d]

Parts(c) ==
    LabelInv(c) /\ ScanInv(c) /\ LaunchInv(c) /\ KnowsInv(c) /\ FilesInv(c)

LEMMA Assemble ==
    ASSUME NEW c \in Operators, Alone(c),
           ~Idle(c)' => Parts(c)',
           WritersInv', GoneInv',
           Accounted', AtMostOneActive', DestroyOnlyDead', Listed'
    PROVE  SerialInv'
BY DEF SerialInv, Alone, Parts, OneCommand, CommandInv, Idle

LEMMA InitSerial == Init => SerialInv
BY DEF Init, SerialInv, OneCommand, WritersInv, GoneInv, CommandInv, Idle,
       Accounted, AtMostOneActive, DestroyOnlyDead, Listed

\* A step that touches no file and no process, and neither begins nor ends
\* the writing of a record.
LEMMA QuietSerial ==
    ASSUME RecordInv, SerialInv, NEW c \in Operators, Alone(c),
           UNCHANGED <<filesVars, disk, qemuVars, destroyed, faultVars>>,
           pc[c] # "write", pc'[c] # "write",
           ~Idle(c)' => Parts(c)',
           Accounted', Listed'
    PROVE  SerialInv'
<1>1. WritersInv' /\ GoneInv'
  BY DEF SerialInv, WritersInv, GoneInv, filesVars, RecordInv, Typed, StateOK, Alone, Idle
<1>2. AtMostOneActive' /\ DestroyOnlyDead'
  BY DEF SerialInv, AtMostOneActive, DestroyOnlyDead, qemuVars, faultVars
<1> QED BY <1>1, <1>2, Assemble

LEMMA RefreshKeeps ==
    ASSUME NEW m \in Metadata, PidFits(m), NEW p \in Pids, m.pid = p, Vm(p)
    PROVE  Refresh(m) = m /\ m.state = "running"
BY NoPidAssumption DEF Refresh, Alive, PidFits, Vm

\* Unless the command has the record in hand, the file shows what runs.
LEMMA Recorded ==
    ASSUME RecordInv, SerialInv, NEW c \in Operators,
           \A d \in Operators \ {c} : Idle(d),
           pc[c] \notin {"readpid", "assess", "save", "write"},
           NEW p \in Pids, Vm(p)
    PROVE  LET f == store[owner[p]] IN
           /\ owner[p] \in Runs /\ Readable(f)
           /\ f.md.pid = p /\ Refresh(f.md) = f.md /\ f.md.state = "running"
<1>1. owner[p] \in Runs
  BY DEF Vm, RecordInv, RecordsGood, OwnerUsed
<1>2. Readable(store[owner[p]]) /\ store[owner[p]].md.pid = p
  BY DEF SerialInv, Accounted, Holds, Idle, At, Vm
<1> QED
  BY <1>1, <1>2, RefreshKeeps, MdType
     DEF RecordInv, Typed, StateOK, RecordsGood, StoreGood, Good

\* destroy removes files only after the run's process has gone.
LEMMA RunIsOff ==
    ASSUME NEW c \in Operators, Parts(c), pc[c] \in RemoveLabels,
           NEW p \in Pids, owner[p] = run[c]
    PROVE  ~Vm(p)
BY NoPidAssumption DEF Parts, LabelInv, KnowsInv

\* The virtual machines that run stay accounted for, if those the command
\* alone knows of do.
LEMMA AccountedStays ==
    ASSUME SerialInv, NEW c \in Operators, Alone(c), ~Idle(c),
           UNCHANGED <<store, owner>>, cut \subseteq cut',
           \A p \in Pids : vm'[p] = "live" => vm[p] = "live",
           \A p \in Pids :
               Vm(p)' /\ Holds(c, p) =>
                   \/ Holds(c, p)'
                   \/ Readable(store[owner[p]]) /\ store[owner[p]].md.pid = p
    PROVE  Accounted'
<1> SUFFICES ASSUME NEW p \in Pids, Vm(p)'
             PROVE  \/ Readable(store[owner[p]]) /\ store[owner[p]].md.pid = p
                    \/ Holds(c, p)'
  BY DEF Accounted, Vm
<1>1. Vm(p)
  BY DEF Vm
<1>2. \A d \in Operators \ {c} : ~Holds(d, p)
  BY DEF Alone, Idle, Holds, At
<1> QED BY <1>1, <1>2 DEF SerialInv, Accounted, Vm

\* So do the runs that are listed.
LEMMA ListedStays ==
    ASSUME SerialInv, NEW c \in Operators, Alone(c), ~Idle(c),
           UNCHANGED <<store, disk>>, cut \subseteq cut',
           pc[c] \in {"save", "write", "rmdirs"} =>
               \/ run'[c] = run[c] /\ pc'[c] \in {"save", "write", "rmdirs"}
               \/ run[c] \in cut'
               \/ Readable(store[run[c]])
               \/ disk[run[c]] \notin {"overlay", "seeded"}
    PROVE  Listed'
<1> SUFFICES ASSUME NEW r \in Runs, disk[r] \in {"overlay", "seeded"},
                    r \notin cut', ~Readable(store[r])
             PROVE  run'[c] = r /\ pc'[c] \in {"save", "write", "rmdirs"}
  BY DEF Listed
<1>1. run[c] = r /\ pc[c] \in {"save", "write", "rmdirs"}
  BY DEF SerialInv, Listed, Alone, Idle
<1> QED BY <1>1

LEMMA StepSerial ==
    ASSUME Overlap = FALSE, RecordInv, SerialInv, [Next]_vars
    PROVE  SerialInv'
<1>0. RecordInv'
  BY StepTyped, StepRecords DEF RecordInv
<1> USE DEF RecordInv, Typed, Goto, Carry, Turn, Enter, Finish, At, Idle,
       Parts, ControlOK, StateOK, filesVars, qemuVars, faultVars, Vm
<1>1. ASSUME NEW c \in Operators, NEW k \in Commands, NEW r \in Runs \cup {NoRun}, BeginScan(c, k, r)
      PROVE  SerialInv'
  <2> USE <1>1, <1>0 DEF BeginScan, MayBegin, Globbed
  <2>1. Alone(c) /\ Idle(c)
    BY DEF Alone
  <2>2. LabelInv(c)'
    BY <2>1 DEF LabelInv, StopLabels, RemoveLabels
  <2>3. ScanInv(c)'
    BY <2>1, MdOfFileOf, NoRunAssumption DEF Alone, NoneLive, Fresh,
       StopLabels, RemoveLabels, RunChosen, LabelInv, ScanInv, SerialInv,
       FilesInv, Readable, NothingSeen, FileOf, JsonFile
  <2>4. LaunchInv(c)'
    BY <2>1 DEF LabelInv, LaunchInv, Fresh, NoneLive, InitMetadata
  <2>5. KnowsInv(c)'
    BY <2>1, NoPidAssumption DEF LabelInv, LaunchInv, KnowsInv, Fresh,
       NoneLive, StopLabels, RemoveLabels, InitMetadata, Mark
  <2>6. FilesInv(c)'
    BY <2>1 DEF Alone, NoneLive, Fresh, StopLabels, RemoveLabels, RunChosen,
       LabelInv, FilesInv, ScanInv, SerialInv, GoneInv, InitMetadata,
       Readable, JsonFile
  <2>7. Accounted'
    <3>1. UNCHANGED <<store, vm, owner, cut>>
      OBVIOUS
    <3>2. \A d \in Operators, p \in Pids : ~Holds(d, p)
      BY <2>1 DEF Alone, Holds
    <3> QED
      BY <3>1, <3>2 DEF SerialInv, Accounted
  <2>8. Listed'
    BY <2>1 DEF Alone, NoneLive, Fresh, StopLabels, RemoveLabels, RunChosen,
       SerialInv, Listed, FilesInv, Readable, JsonFile
  <2> QED
    BY <2>1, <2>2, <2>3, <2>4, <2>5, <2>6, <2>7, <2>8, QuietSerial
<1>2. ASSUME NEW c \in Operators, NEW k \in Commands, NEW r \in Runs, BeginLoad(c, k, r)
      PROVE  SerialInv'
  <2> USE <1>2, <1>0 DEF BeginLoad, MayBegin
  <2>1. Alone(c) /\ Idle(c)
    BY DEF Alone
  <2>2. LabelInv(c)'
    BY <2>1 DEF LabelInv, StopLabels, RemoveLabels
  <2>3. ScanInv(c)'
    BY <2>1, MdOfFileOf, NoRunAssumption DEF Alone, NoneLive, Fresh,
       StopLabels, RemoveLabels, RunChosen, LabelInv, ScanInv, SerialInv,
       FilesInv, Readable, NothingSeen, FileOf, JsonFile
  <2>4. LaunchInv(c)'
    BY <2>1 DEF LabelInv, LaunchInv, Fresh, NoneLive, InitMetadata
  <2>5. KnowsInv(c)'
    BY <2>1, NoPidAssumption DEF LabelInv, LaunchInv, KnowsInv, Fresh,
       NoneLive, StopLabels, RemoveLabels, InitMetadata, Mark
  <2>6. FilesInv(c)'
    BY <2>1 DEF Alone, NoneLive, Fresh, StopLabels, RemoveLabels, RunChosen,
       LabelInv, FilesInv, ScanInv, SerialInv, GoneInv, InitMetadata,
       Readable, JsonFile
  <2>7. Accounted'
    <3>1. UNCHANGED <<store, vm, owner, cut>>
      OBVIOUS
    <3>2. \A d \in Operators, p \in Pids : ~Holds(d, p)
      BY <2>1 DEF Alone, Holds
    <3> QED
      BY <3>1, <3>2 DEF SerialInv, Accounted
  <2>8. Listed'
    BY <2>1 DEF Alone, NoneLive, Fresh, StopLabels, RemoveLabels, RunChosen,
       SerialInv, Listed, FilesInv, Readable, JsonFile
  <2> QED
    BY <2>1, <2>2, <2>3, <2>4, <2>5, <2>6, <2>7, <2>8, QuietSerial
<1>3. ASSUME NEW c \in Operators, NEW r \in Runs, Scan(c, r)
      PROVE  SerialInv'
  <2> USE <1>3, <1>0 DEF Scan, Readable
  <2>1. Alone(c) /\ ~Idle(c)
    BY DEF Alone, SerialInv, OneCommand
  <2>2. Parts(c)
    BY <2>1 DEF SerialInv, CommandInv
  <2>3. LabelInv(c)'
    BY <2>1, <2>2 DEF LabelInv, StopLabels, RemoveLabels
  <2>4. ScanInv(c)'
    BY <2>1, <2>2, MdOfFileOf, NoRunAssumption DEF Alone, NoneLive, Fresh,
       StopLabels, RemoveLabels, RunChosen, LabelInv, ScanInv, SerialInv,
       FilesInv, NothingSeen, FileOf, JsonFile
  <2>5. LaunchInv(c)'
    BY <2>1, <2>2 DEF LabelInv, LaunchInv, Fresh, NoneLive, InitMetadata
  <2>6. KnowsInv(c)'
    BY <2>1, <2>2, NoPidAssumption DEF LabelInv, LaunchInv, KnowsInv, Fresh,
       NoneLive, StopLabels, RemoveLabels, InitMetadata, Mark
  <2>7. FilesInv(c)'
    BY <2>1, <2>2 DEF Alone, NoneLive, Fresh, StopLabels, RemoveLabels,
       RunChosen, LabelInv, FilesInv, ScanInv, SerialInv, GoneInv,
       InitMetadata, JsonFile
  <2>8. Accounted'
    BY <2>1, <2>2, AccountedStays DEF Holds, FilesInv, KnowsInv, Mark
  <2>9. Listed'
    BY <2>1, <2>2, ListedStays DEF FilesInv, LabelInv, Fresh
  <2> QED
    BY <2>1, <2>3, <2>4, <2>5, <2>6, <2>7, <2>8, <2>9, QuietSerial
<1>4. ASSUME NEW c \in Operators, NEW r \in Runs, MakeRun(c, r)
      PROVE  SerialInv'
  <2> USE <1>4, <1>0 DEF MakeRun
  <2>1. Alone(c) /\ ~Idle(c)
    BY DEF Alone, SerialInv, OneCommand
  <2>2. Parts(c)
    BY <2>1 DEF SerialInv, CommandInv
  <2>3. NoneLive /\ cmd[c] = "create" /\ r \notin destroyed
    BY <2>1, <2>2 DEF LabelInv, LaunchInv, SerialInv, GoneInv
  <2>4. LabelInv(c)'
    BY <2>1, <2>2, <2>3 DEF LabelInv, StopLabels, RemoveLabels
  <2>5. ScanInv(c)'
    BY <2>1, <2>2, <2>3, MdOfFileOf, NoRunAssumption DEF Alone, NoneLive,
       Fresh, StopLabels, RemoveLabels, RunChosen, LabelInv, ScanInv,
       SerialInv, FilesInv, Readable, NothingSeen, FileOf, JsonFile
  <2>6. LaunchInv(c)'
    BY <2>1, <2>2, <2>3 DEF LabelInv, LaunchInv, Fresh, NoneLive,
       InitMetadata
  <2>7. KnowsInv(c)'
    BY <2>1, <2>2, <2>3, NoPidAssumption DEF LabelInv, LaunchInv, KnowsInv,
       Fresh, NoneLive, StopLabels, RemoveLabels, InitMetadata, Mark
  <2>8. FilesInv(c)'
    BY <2>1, <2>2, <2>3 DEF Alone, NoneLive, Fresh, StopLabels, RemoveLabels,
       RunChosen, LabelInv, FilesInv, ScanInv, SerialInv, GoneInv,
       InitMetadata, Readable, JsonFile
  <2>9. Accounted'
    BY <2>1, <2>2, <2>3, AccountedStays DEF Holds, FilesInv, KnowsInv, Mark
  <2>10. Listed'
    <3>1. UNCHANGED <<store, cut>> /\ disk' = [disk EXCEPT ![r] = "dirs"]
      OBVIOUS
    <3>2. run'[c] = r /\ pc'[c] = "save"
      OBVIOUS
    <3>3. \A d \in Operators, q \in Runs :
              ~(run[d] = q /\ pc[d] \in {"save", "write", "rmdirs"})
      BY <2>1 DEF Alone
    <3> HIDE <1>4
    <3> QED
      BY <3>1, <3>2, <3>3 DEF SerialInv, Listed
  <2>11. WritersInv' /\ GoneInv'
    BY <2>1, <2>2, <2>3 DEF Alone, NoneLive, Fresh, StopLabels, RemoveLabels,
       RunChosen, SerialInv, WritersInv, GoneInv, FilesInv
  <2>12. AtMostOneActive' /\ DestroyOnlyDead'
    BY <2>1, <2>2, <2>3 DEF Alone, NoneLive, Fresh, StopLabels, RemoveLabels,
       RunChosen, SerialInv, AtMostOneActive, DestroyOnlyDead, LaunchInv,
       KnowsInv
  <2> QED
    BY <2>1, <2>4, <2>5, <2>6, <2>7, <2>8, <2>9, <2>10, <2>11, <2>12,
       Assemble
<1>5. ASSUME NEW c \in Operators, NEW r \in Runs, Each(c, r)
      PROVE  SerialInv'
  <2> USE <1>5, <1>0 DEF Each
  <2>1. Alone(c) /\ ~Idle(c)
    BY DEF Alone, SerialInv, OneCommand
  <2>2. Parts(c)
    BY <2>1 DEF SerialInv, CommandInv
  <2>3. \A p \in Pids : Vm(p) =>
          LET f == store[owner[p]] IN
          /\ owner[p] \in Runs /\ Readable(f)
          /\ f.md.pid = p /\ Refresh(f.md) = f.md /\ f.md.state = "running"
    BY <2>1, <2>2, Recorded DEF Alone
  <2>4. r \in Runs /\ seen[c][r] = store[r] /\ cmd[c] = "list"
    BY <2>1, <2>2, <2>3 DEF LabelInv, ScanInv
  <2>5. LabelInv(c)'
    BY <2>1, <2>2, <2>3, <2>4 DEF LabelInv, StopLabels, RemoveLabels
  <2>6. ScanInv(c)'
    BY <2>1, <2>2, <2>3, <2>4, MdOfFileOf, NoRunAssumption DEF Alone,
       NoneLive, Fresh, StopLabels, RemoveLabels, RunChosen, LabelInv,
       ScanInv, SerialInv, FilesInv, Readable, NothingSeen, FileOf, JsonFile
  <2>7. LaunchInv(c)'
    BY <2>1, <2>2, <2>3, <2>4 DEF LabelInv, LaunchInv, Fresh, NoneLive,
       InitMetadata
  <2>8. KnowsInv(c)'
    BY <2>1, <2>2, <2>3, <2>4, NoPidAssumption DEF LabelInv, LaunchInv,
       KnowsInv, Fresh, NoneLive, StopLabels, RemoveLabels, InitMetadata,
       Mark
  <2>9. FilesInv(c)'
    BY <2>1, <2>2, <2>3, <2>4 DEF Alone, NoneLive, Fresh, StopLabels,
       RemoveLabels, RunChosen, LabelInv, FilesInv, ScanInv, SerialInv,
       GoneInv, InitMetadata, Readable, JsonFile
  <2>10. Accounted'
    BY <2>1, <2>2, <2>3, <2>4, AccountedStays DEF Holds, FilesInv, KnowsInv,
       Mark
  <2>11. Listed'
    BY <2>1, <2>2, <2>3, <2>4, ListedStays DEF FilesInv, LabelInv, Fresh
  <2> QED
    BY <2>1, <2>5, <2>6, <2>7, <2>8, <2>9, <2>10, <2>11, QuietSerial
<1>6. ASSUME NEW c \in Operators, NEW p \in Pids, Launch(c, p)
      PROVE  SerialInv'
  <2> USE <1>6, <1>0 DEF Launch
  <2>1. Alone(c) /\ ~Idle(c)
    BY DEF Alone, SerialInv, OneCommand
  <2>2. Parts(c)
    BY <2>1 DEF SerialInv, CommandInv
  <2>3. run[c] \in Runs /\ md[c] \in Metadata
    BY <2>1, <2>2 DEF RunChosen
  <2>4. \A q \in Pids : owner[q] = run[c] => vm[q] # "live"
    BY <2>1, <2>2, <2>3, NoPidAssumption DEF Locked, Alive
  <2>5. LabelInv(c)'
    BY <2>1, <2>2, <2>3, <2>4 DEF LabelInv, StopLabels, RemoveLabels
  <2>6. ScanInv(c)'
    BY <2>1, <2>2, <2>3, <2>4, MdOfFileOf, NoRunAssumption DEF Alone,
       NoneLive, Fresh, StopLabels, RemoveLabels, RunChosen, LabelInv,
       ScanInv, SerialInv, FilesInv, Readable, NothingSeen, FileOf, JsonFile
  <2>7. LaunchInv(c)'
    BY <2>1, <2>2, <2>3, <2>4 DEF LabelInv, LaunchInv, Fresh, NoneLive,
       InitMetadata
  <2>8. KnowsInv(c)'
    BY <2>1, <2>2, <2>3, <2>4, NoPidAssumption DEF LabelInv, LaunchInv,
       KnowsInv, Fresh, NoneLive, StopLabels, RemoveLabels, InitMetadata,
       Mark
  <2>9. FilesInv(c)'
    BY <2>1, <2>2, <2>3, <2>4 DEF Alone, NoneLive, Fresh, StopLabels,
       RemoveLabels, RunChosen, LabelInv, FilesInv, ScanInv, SerialInv,
       GoneInv, InitMetadata, Readable, JsonFile
  <2>10. Accounted'
    BY <2>1, <2>2, <2>3, <2>4 DEF Alone, NoneLive, Fresh, StopLabels,
       RemoveLabels, RunChosen, SerialInv, Accounted, Holds, LaunchInv,
       KnowsInv, FilesInv, RecordsGood, HeldGood, Good, PidFits, JsonFile,
       Readable
  <2>11. Listed'
    BY <2>1, <2>2, <2>3, <2>4 DEF Alone, NoneLive, Fresh, StopLabels,
       RemoveLabels, RunChosen, SerialInv, Listed, FilesInv, Readable,
       JsonFile
  <2>12. WritersInv' /\ GoneInv'
    BY <2>1, <2>2, <2>3, <2>4 DEF Alone, NoneLive, Fresh, StopLabels,
       RemoveLabels, RunChosen, SerialInv, WritersInv, GoneInv, FilesInv
  <2>13. AtMostOneActive' /\ DestroyOnlyDead'
    BY <2>1, <2>2, <2>3, <2>4 DEF Alone, NoneLive, Fresh, StopLabels,
       RemoveLabels, RunChosen, SerialInv, AtMostOneActive, DestroyOnlyDead,
       LaunchInv, KnowsInv
  <2> QED
    BY <2>1, <2>5, <2>6, <2>7, <2>8, <2>9, <2>10, <2>11, <2>12, <2>13,
       Assemble
<1>7. ASSUME NEW c \in Operators, ScanDone(c)
      PROVE  SerialInv'
  <2> USE <1>7, <1>0 DEF ScanDone
  <2>1. Alone(c) /\ ~Idle(c)
    BY DEF Alone, SerialInv, OneCommand
  <2>2. Parts(c)
    BY <2>1 DEF SerialInv, CommandInv
  <2>3. \A p \in Pids : Vm(p) =>
          LET f == store[owner[p]] IN
          /\ owner[p] \in Runs /\ Readable(f)
          /\ f.md.pid = p /\ Refresh(f.md) = f.md /\ f.md.state = "running"
    <3>1. pc[c] = "scan" /\ \A d \in Operators \ {c} : Idle(d)
      BY <2>1 DEF Alone
    <3> HIDE <1>7, <1>0 DEF Vm, Idle
    <3> QED
      BY <3>1, Recorded
  <2>4. cmd[c] # "list" /\ ~AnotherActive(c) =>
          \A p \in Pids : Vm(p) => owner[p] = run[c]
    BY <2>1, <2>2, <2>3 DEF AnotherActive, ScanInv
  <2>5. cmd[c] = "create" => run[c] = NoRun
    BY <2>1, <2>2, <2>3, <2>4 DEF ScanInv
  <2>6. LabelInv(c)'
    BY <2>1, <2>2, <2>3, <2>4, <2>5 DEF LabelInv, StopLabels, RemoveLabels
  <2>7. ScanInv(c)'
    BY <2>1, <2>2, <2>3, <2>4, <2>5, MdOfFileOf, NoRunAssumption DEF Alone,
       NoneLive, Fresh, StopLabels, RemoveLabels, RunChosen, LabelInv,
       ScanInv, SerialInv, FilesInv, Readable, NothingSeen, FileOf, JsonFile
  <2>8. LaunchInv(c)'
    <3>1. /\ vm' = vm /\ owner' = owner /\ cut' = cut
          /\ run'[c] = run[c] \/ pc'[c] = "idle"
          /\ cmd'[c] = cmd[c] \/ pc'[c] = "idle"
          /\ pc'[c] \in {"idle", "each", "mkdir", "load"}
          /\ pc'[c] \in {"mkdir", "load"} =>
                cmd[c] # "list" /\ ~AnotherActive(c)
          /\ pc'[c] = "mkdir" => cmd[c] = "create"
      OBVIOUS
    <3>2. pc'[c] = "mkdir" => NoneLive
      BY <3>1, <2>3, <2>4, <2>5, NoRunAssumption DEF NoneLive
    <3> QED
      BY <3>1, <3>2, <2>4 DEF LaunchInv, Fresh, NoneLive
  <2>9. KnowsInv(c)'
    BY <2>1, <2>2, <2>3, <2>4, <2>5, NoPidAssumption DEF LabelInv, LaunchInv,
       KnowsInv, Fresh, NoneLive, StopLabels, RemoveLabels, InitMetadata,
       Mark
  <2>10. FilesInv(c)'
    BY <2>1, <2>2, <2>3, <2>4, <2>5 DEF Alone, NoneLive, Fresh, StopLabels,
       RemoveLabels, RunChosen, LabelInv, FilesInv, ScanInv, SerialInv,
       GoneInv, InitMetadata, Readable, JsonFile
  <2>11. Accounted'
    BY <2>1, <2>2, <2>3, <2>4, <2>5, AccountedStays DEF Holds, FilesInv,
       KnowsInv, Mark
  <2>12. Listed'
    BY <2>1, <2>2, <2>3, <2>4, <2>5, ListedStays DEF FilesInv, LabelInv,
       Fresh
  <2>13. /\ UNCHANGED <<filesVars, disk, qemuVars, destroyed, faultVars>>
         /\ pc[c] # "write" /\ pc'[c] # "write"
    BY <1>0
  <2> HIDE <1>7, <1>0
  <2> QED
    BY <2>1, <2>6, <2>7, <2>8, <2>9, <2>10, <2>11, <2>12, <2>13, QuietSerial
<1>8. ASSUME NEW c \in Operators, OpenMeta(c)
      PROVE  SerialInv'
  <2> USE <1>8, <1>0 DEF OpenMeta
  <2>1. Alone(c) /\ ~Idle(c)
    BY DEF FileOf, Alone, SerialInv, OneCommand
  <2>2. Parts(c)
    BY <2>1 DEF SerialInv, CommandInv
  <2>3. run[c] \in Runs /\ md[c] \in Metadata
    BY <2>1, <2>2 DEF RunChosen
  <2>4. LabelInv(c)'
    BY <2>1, <2>2, <2>3 DEF FileOf, LabelInv, StopLabels, RemoveLabels
  <2>5. ScanInv(c)'
    BY <2>1, <2>2, <2>3, MdOfFileOf, NoRunAssumption DEF FileOf, Alone,
       NoneLive, Fresh, StopLabels, RemoveLabels, RunChosen, LabelInv,
       ScanInv, SerialInv, FilesInv, Readable, NothingSeen, FileOf, JsonFile
  <2>6. LaunchInv(c)'
    BY <2>1, <2>2, <2>3 DEF FileOf, LabelInv, LaunchInv, Fresh, NoneLive,
       InitMetadata
  <2>7. KnowsInv(c)'
    BY <2>1, <2>2, <2>3, NoPidAssumption DEF FileOf, LabelInv, LaunchInv,
       KnowsInv, Fresh, NoneLive, StopLabels, RemoveLabels, InitMetadata,
       Mark
  <2>8. FilesInv(c)'
    BY <2>1, <2>2, <2>3 DEF FileOf, Alone, NoneLive, Fresh, StopLabels,
       RemoveLabels, RunChosen, LabelInv, FilesInv, ScanInv, SerialInv,
       GoneInv, InitMetadata, Readable, JsonFile
  <2>9. Accounted'
    BY <2>1, <2>2, <2>3 DEF FileOf, Alone, NoneLive, Fresh, StopLabels,
       RemoveLabels, RunChosen, SerialInv, Accounted, Holds, LaunchInv,
       KnowsInv, FilesInv, RecordsGood, HeldGood, Good, PidFits, JsonFile,
       Readable
  <2>10. Listed'
    BY <2>1, <2>2, <2>3 DEF FileOf, Alone, NoneLive, Fresh, StopLabels,
       RemoveLabels, RunChosen, SerialInv, Listed, FilesInv, Readable,
       JsonFile
  <2>11. WritersInv' /\ GoneInv'
    BY <2>1, <2>2, <2>3 DEF FileOf, Alone, NoneLive, Fresh, StopLabels,
       RemoveLabels, RunChosen, SerialInv, WritersInv, GoneInv, FilesInv
  <2>12. AtMostOneActive' /\ DestroyOnlyDead'
    BY <2>1, <2>2, <2>3 DEF FileOf, Alone, NoneLive, Fresh, StopLabels,
       RemoveLabels, RunChosen, SerialInv, AtMostOneActive, DestroyOnlyDead,
       LaunchInv, KnowsInv
  <2> QED
    BY <2>1, <2>4, <2>5, <2>6, <2>7, <2>8, <2>9, <2>10, <2>11, <2>12,
       Assemble
<1>9. ASSUME NEW c \in Operators, WriteMeta(c)
      PROVE  SerialInv'
  <2> USE <1>9, <1>0 DEF WriteMeta
  <2>1. Alone(c) /\ ~Idle(c)
    BY DEF Written, AfterSave, NextFile, Alone, SerialInv, OneCommand
  <2>2. Parts(c)
    BY <2>1 DEF SerialInv, CommandInv
  <2>3. run[c] \in Runs /\ md[c] \in Metadata
    BY <2>1, <2>2 DEF RunChosen
  <2>4. /\ store' = [store EXCEPT ![run[c]] = JsonFile(md[c])]
        /\ \A r \in Runs : c \in writers[r] => r = run[c]
    BY <2>1, <2>2, <2>3 DEF Written, FilesInv, SerialInv, WritersInv
  <2>5. LabelInv(c)'
    BY <2>1, <2>2, <2>3, <2>4 DEF Written, AfterSave, NextFile, LabelInv,
       StopLabels, RemoveLabels
  <2>6. ScanInv(c)'
    BY <2>1, <2>2, <2>3, <2>4, MdOfFileOf, NoRunAssumption DEF Written,
       AfterSave, NextFile, Alone, NoneLive, Fresh, StopLabels, RemoveLabels,
       RunChosen, LabelInv, ScanInv, SerialInv, FilesInv, Readable,
       NothingSeen, FileOf, JsonFile
  <2>7. LaunchInv(c)'
    BY <2>1, <2>2, <2>3, <2>4 DEF Written, AfterSave, NextFile, LabelInv,
       LaunchInv, Fresh, NoneLive, InitMetadata
  <2>8. KnowsInv(c)'
    BY <2>1, <2>2, <2>3, <2>4, NoPidAssumption DEF Written, AfterSave,
       NextFile, LabelInv, LaunchInv, KnowsInv, Fresh, NoneLive, StopLabels,
       RemoveLabels, InitMetadata, Mark
  <2>9. FilesInv(c)'
    BY <2>1, <2>2, <2>3, <2>4 DEF Written, AfterSave, NextFile, Alone,
       NoneLive, Fresh, StopLabels, RemoveLabels, RunChosen, LabelInv,
       FilesInv, ScanInv, SerialInv, GoneInv, InitMetadata, Readable,
       JsonFile
  <2>10. Accounted'
    <3>1. /\ vm' = vm /\ owner' = owner /\ cut' = cut /\ At(c, "write")
      OBVIOUS
    <3> SUFFICES ASSUME NEW p \in Pids, Vm(p)
                 PROVE  Readable(store'[owner[p]]) /\ store'[owner[p]].md.pid = p
      BY <3>1 DEF Accounted
    <3>2. owner[p] \in Runs
      BY DEF RecordsGood, OwnerUsed
    <3>3. CASE owner[p] = run[c]
      <4>1. md[c].pid = p
        BY <3>1, <3>3, <2>2 DEF KnowsInv
      <4>2. store'[owner[p]] = JsonFile(md[c])
        BY <3>3, <2>3, <2>4
      <4> QED BY <4>1, <4>2 DEF JsonFile, Readable
    <3>4. CASE owner[p] # run[c]
      <4>1. store'[owner[p]] = store[owner[p]]
        BY <3>2, <3>4, <2>4
      <4>2. \A d \in Operators : ~Holds(d, p)
        BY <3>4, <2>1 DEF Alone, Holds
      <4> QED BY <4>1, <4>2 DEF SerialInv, Accounted
    <3> QED BY <3>3, <3>4
  <2>11. Listed'
    <3>1. disk' = disk /\ cut' = cut
      OBVIOUS
    <3> SUFFICES ASSUME NEW r \in Runs, r \notin cut,
                        disk[r] \in {"overlay", "seeded"}
                 PROVE  Readable(store'[r])
      BY <3>1 DEF Listed
    <3>2. CASE r = run[c]
      BY <3>2, <2>3, <2>4 DEF JsonFile, Readable
    <3>3. CASE r # run[c]
      <4>1. store'[r] = store[r]
        BY <3>3, <2>4
      <4>2. \A d \in Operators : ~(run[d] = r /\ pc[d] \in {"save", "write", "rmdirs"})
        BY <3>3, <2>1 DEF Alone
      <4> QED BY <4>1, <4>2 DEF SerialInv, Listed
    <3> QED BY <3>2, <3>3
  <2>12. WritersInv' /\ GoneInv'
    BY <2>1, <2>2, <2>3, <2>4 DEF Written, AfterSave, NextFile, Alone,
       NoneLive, Fresh, StopLabels, RemoveLabels, RunChosen, SerialInv,
       WritersInv, GoneInv, FilesInv
  <2>13. AtMostOneActive' /\ DestroyOnlyDead'
    BY <2>1, <2>2, <2>3, <2>4 DEF Written, AfterSave, NextFile, Alone,
       NoneLive, Fresh, StopLabels, RemoveLabels, RunChosen, SerialInv,
       AtMostOneActive, DestroyOnlyDead, LaunchInv, KnowsInv
  <2> QED
    BY <2>1, <2>5, <2>6, <2>7, <2>8, <2>9, <2>10, <2>11, <2>12, <2>13,
       Assemble
<1>10. ASSUME NEW c \in Operators, MakeRunFails(c)
      PROVE  SerialInv'
  <2> USE <1>10, <1>0 DEF MakeRunFails
  <2>1. Alone(c) /\ ~Idle(c)
    BY DEF Alone, SerialInv, OneCommand
  <2>2. Parts(c)
    BY <2>1 DEF SerialInv, CommandInv
  <2>3. ~Idle(c)' => Parts(c)'
    OBVIOUS
  <2>4. Accounted'
    BY <2>1, <2>2, AccountedStays DEF Holds, FilesInv, KnowsInv, Mark
  <2>5. ASSUME NEW r \in Runs, disk'[r] # disk[r]
        PROVE  disk[r] = "unused" /\ disk'[r] = "dirs"
    BY <2>5
  <2>6. Listed'
    <3>1. UNCHANGED <<store, cut>>
      OBVIOUS
    <3>2. \A d \in Operators : pc[d] \notin {"save", "write", "rmdirs"}
      BY <2>1 DEF Alone
    <3> QED
      BY <2>5, <3>1, <3>2 DEF SerialInv, Listed
  <2>7. WritersInv' /\ GoneInv'
    BY <2>1, <2>5 DEF Alone, SerialInv, WritersInv, GoneInv
  <2>8. AtMostOneActive' /\ DestroyOnlyDead'
    BY <2>5, NoRunAssumption DEF SerialInv, AtMostOneActive, DestroyOnlyDead, RecordsGood, OwnerUsed
  <2> QED
    BY <2>1, <2>3, <2>4, <2>6, <2>7, <2>8, Assemble
<1>11. ASSUME NEW c \in Operators, CreateOverlay(c)
      PROVE  SerialInv'
  <2> USE <1>11, <1>0 DEF CreateOverlay
  <2>1. Alone(c) /\ ~Idle(c)
    BY DEF Alone, SerialInv, OneCommand
  <2>2. Parts(c)
    BY <2>1 DEF SerialInv, CommandInv
  <2>3. LabelInv(c)'
    BY <2>1, <2>2 DEF LabelInv, StopLabels, RemoveLabels
  <2>4. ScanInv(c)'
    BY <2>1, <2>2, MdOfFileOf, NoRunAssumption DEF Alone, NoneLive, Fresh,
       StopLabels, RemoveLabels, RunChosen, LabelInv, ScanInv, SerialInv,
       FilesInv, Readable, NothingSeen, FileOf, JsonFile
  <2>5. LaunchInv(c)'
    BY <2>1, <2>2 DEF LabelInv, LaunchInv, Fresh, NoneLive, InitMetadata
  <2>6. KnowsInv(c)'
    BY <2>1, <2>2, NoPidAssumption DEF LabelInv, LaunchInv, KnowsInv, Fresh,
       NoneLive, StopLabels, RemoveLabels, InitMetadata, Mark
  <2>7. FilesInv(c)'
    BY <2>1, <2>2 DEF Alone, NoneLive, Fresh, StopLabels, RemoveLabels,
       RunChosen, LabelInv, FilesInv, ScanInv, SerialInv, GoneInv,
       InitMetadata, Readable, JsonFile
  <2>8. Accounted'
    BY <2>1, <2>2, AccountedStays DEF Holds, FilesInv, KnowsInv, Mark
  <2>9. Listed'
    BY <2>1, <2>2 DEF Alone, NoneLive, Fresh, StopLabels, RemoveLabels,
       RunChosen, SerialInv, Listed, FilesInv, Readable, JsonFile
  <2>10. WritersInv' /\ GoneInv'
    BY <2>1, <2>2 DEF Alone, NoneLive, Fresh, StopLabels, RemoveLabels,
       RunChosen, SerialInv, WritersInv, GoneInv, FilesInv
  <2>11. AtMostOneActive' /\ DestroyOnlyDead'
    BY <2>1, <2>2 DEF Alone, NoneLive, Fresh, StopLabels, RemoveLabels,
       RunChosen, SerialInv, AtMostOneActive, DestroyOnlyDead, LaunchInv,
       KnowsInv
  <2> QED
    BY <2>1, <2>3, <2>4, <2>5, <2>6, <2>7, <2>8, <2>9, <2>10, <2>11, Assemble
<1>12. ASSUME NEW c \in Operators, Render(c)
      PROVE  SerialInv'
  <2> USE <1>12, <1>0 DEF Render
  <2>1. Alone(c) /\ ~Idle(c)
    BY DEF Alone, SerialInv, OneCommand
  <2>2. Parts(c)
    BY <2>1 DEF SerialInv, CommandInv
  <2>3. LabelInv(c)'
    BY <2>1, <2>2 DEF LabelInv, StopLabels, RemoveLabels
  <2>4. ScanInv(c)'
    BY <2>1, <2>2, MdOfFileOf, NoRunAssumption DEF Alone, NoneLive, Fresh,
       StopLabels, RemoveLabels, RunChosen, LabelInv, ScanInv, SerialInv,
       FilesInv, Readable, NothingSeen, FileOf, JsonFile
  <2>5. LaunchInv(c)'
    BY <2>1, <2>2 DEF LabelInv, LaunchInv, Fresh, NoneLive, InitMetadata
  <2>6. KnowsInv(c)'
    BY <2>1, <2>2, NoPidAssumption DEF LabelInv, LaunchInv, KnowsInv, Fresh,
       NoneLive, StopLabels, RemoveLabels, InitMetadata, Mark
  <2>7. FilesInv(c)'
    BY <2>1, <2>2 DEF Alone, NoneLive, Fresh, StopLabels, RemoveLabels,
       RunChosen, LabelInv, FilesInv, ScanInv, SerialInv, GoneInv,
       InitMetadata, Readable, JsonFile
  <2>8. Accounted'
    BY <2>1, <2>2, AccountedStays DEF Holds, FilesInv, KnowsInv, Mark
  <2>9. Listed'
    BY <2>1, <2>2 DEF Alone, NoneLive, Fresh, StopLabels, RemoveLabels,
       RunChosen, SerialInv, Listed, FilesInv, Readable, JsonFile
  <2>10. WritersInv' /\ GoneInv'
    BY <2>1, <2>2 DEF Alone, NoneLive, Fresh, StopLabels, RemoveLabels,
       RunChosen, SerialInv, WritersInv, GoneInv, FilesInv
  <2>11. AtMostOneActive' /\ DestroyOnlyDead'
    BY <2>1, <2>2 DEF Alone, NoneLive, Fresh, StopLabels, RemoveLabels,
       RunChosen, SerialInv, AtMostOneActive, DestroyOnlyDead, LaunchInv,
       KnowsInv
  <2> QED
    BY <2>1, <2>3, <2>4, <2>5, <2>6, <2>7, <2>8, <2>9, <2>10, <2>11, Assemble
<1>13. ASSUME NEW c \in Operators, StageFails(c)
      PROVE  SerialInv'
  <2> USE <1>13, <1>0 DEF StageFails
  <2>1. Alone(c) /\ ~Idle(c)
    BY DEF Failed, Alone, SerialInv, OneCommand
  <2>2. Parts(c)
    BY <2>1 DEF SerialInv, CommandInv
  <2>3. run[c] \in Runs /\ md[c] \in Metadata
    BY <2>1, <2>2 DEF RunChosen
  <2>4. \A p \in Pids : ~Vm(p)
    BY <2>1, <2>2, <2>3 DEF LaunchInv, NoneLive, Fresh
  <2>5. LabelInv(c)'
    BY <2>1, <2>2, <2>3, <2>4 DEF Failed, LabelInv, StopLabels, RemoveLabels
  <2>6. ScanInv(c)'
    BY <2>1, <2>2, <2>3, <2>4, MdOfFileOf, NoRunAssumption DEF Failed, Alone,
       NoneLive, Fresh, StopLabels, RemoveLabels, RunChosen, LabelInv,
       ScanInv, SerialInv, FilesInv, Readable, NothingSeen, FileOf, JsonFile
  <2>7. LaunchInv(c)'
    BY <2>1, <2>2, <2>3, <2>4 DEF Failed, LabelInv, LaunchInv, Fresh,
       NoneLive, InitMetadata, Mark
  <2>8. KnowsInv(c)'
    BY <2>1, <2>2, <2>3, <2>4, NoPidAssumption DEF Failed, LabelInv,
       LaunchInv, KnowsInv, Fresh, NoneLive, StopLabels, RemoveLabels,
       InitMetadata, Mark
  <2>9. FilesInv(c)'
    BY <2>1, <2>2, <2>3, <2>4 DEF Failed, Alone, NoneLive, Fresh, StopLabels,
       RemoveLabels, RunChosen, LabelInv, FilesInv, ScanInv, SerialInv,
       GoneInv, InitMetadata, Readable, JsonFile, Mark
  <2>10. Accounted'
    BY <2>1, <2>2, <2>3, <2>4, AccountedStays DEF Failed, Holds, FilesInv,
       KnowsInv, Mark
  <2>11. Listed'
    BY <2>1, <2>2, <2>3, <2>4, ListedStays DEF Failed, FilesInv, LabelInv,
       Fresh
  <2> QED
    BY <2>1, <2>5, <2>6, <2>7, <2>8, <2>9, <2>10, <2>11, QuietSerial DEF
       Failed
<1>14. ASSUME NEW c \in Operators, StageAborts(c)
      PROVE  SerialInv'
  <2> USE <1>14, <1>0 DEF StageAborts
  <2>1. Alone(c) /\ ~Idle(c)
    BY DEF Alone, SerialInv, OneCommand
  <2>2. Parts(c)
    BY <2>1 DEF SerialInv, CommandInv
  <2>3. ~Idle(c)' => Parts(c)'
    OBVIOUS
  <2>4. Accounted'
    BY <2>1, <2>2, AccountedStays DEF Holds, FilesInv, KnowsInv, Mark
  <2>5. Listed'
    BY <2>1, <2>2, ListedStays DEF FilesInv, LabelInv, Fresh
  <2> QED
    BY <2>1, <2>3, <2>4, <2>5, QuietSerial
<1>15. ASSUME NEW c \in Operators, ReadPid(c)
      PROVE  SerialInv'
  <2>1. Alone(c) /\ ~Idle(c)
    BY <1>15 DEF ReadPid, Failed, Alone, SerialInv, OneCommand
  <2>2. Parts(c)
    BY <2>1 DEF SerialInv, CommandInv
  <2>3. run[c] \in Runs /\ md[c] \in Metadata
    BY <1>15, <2>1, <2>2 DEF ReadPid, RunChosen
  <2> USE <1>15, <1>0
  <2>4. md[c].pid # NoPid => md[c].state = "running"
    BY <2>1, <2>2, <2>3 DEF RecordsGood, HeldGood, Good, PidFits
  <2>5. \A p \in Pids : Vm(p) /\ owner[p] = run[c] => pidfile[run[c]] = p
    BY <2>1, <2>2, <2>3, <2>4 DEF ReadPid, LaunchInv
  <2>6. LabelInv(c)'
    BY <2>1, <2>2, <2>3, <2>4, <2>5 DEF ReadPid, Failed, LabelInv,
       StopLabels, RemoveLabels, Mark
  <2>7. ScanInv(c)'
    BY <2>1, <2>2, <2>3, <2>4, <2>5, MdOfFileOf, NoRunAssumption DEF ReadPid,
       Failed, Alone, NoneLive, Fresh, StopLabels, RemoveLabels, RunChosen,
       LabelInv, ScanInv, SerialInv, FilesInv, Readable, NothingSeen, FileOf,
       JsonFile
  <2>8. LaunchInv(c)'
    BY <2>1, <2>2, <2>3, <2>4, <2>5 DEF ReadPid, Failed, LabelInv, LaunchInv,
       Fresh, NoneLive, InitMetadata, Mark
  <2>9. KnowsInv(c)'
    BY <2>1, <2>2, <2>3, <2>4, <2>5, NoPidAssumption DEF ReadPid, Failed,
       LabelInv, LaunchInv, KnowsInv, Fresh, NoneLive, StopLabels,
       RemoveLabels, InitMetadata, Mark
  <2>10. FilesInv(c)'
    BY <2>1, <2>2, <2>3, <2>4, <2>5 DEF ReadPid, Failed, Alone, NoneLive,
       Fresh, StopLabels, RemoveLabels, RunChosen, LabelInv, FilesInv,
       ScanInv, SerialInv, GoneInv, InitMetadata, Readable, JsonFile, Mark
  <2>11. Accounted'
    <3>1. UNCHANGED <<store, vm, owner, cut>> /\ At(c, "readpid")
      BY DEF ReadPid, Failed
    <3>2. ASSUME NEW p \in Pids, Vm(p), owner[p] = run[c] PROVE Holds(c, p)'
      <4>1. pidfile[run[c]] = p /\ p # NoPid
        BY <3>2, <2>5, NoPidAssumption
      <4>2. /\ pc'[c] = "assess" /\ run'[c] = run[c]
            /\ md'[c] = Mark(md[c], "running", p)
        BY <4>1 DEF ReadPid
      <4> QED BY <4>2, <3>1, <3>2 DEF Holds, Mark
    <3>3. \A p \in Pids : Vm(p)' /\ Holds(c, p) => Holds(c, p)'
      BY <3>1, <3>2 DEF Holds
    <3> QED BY <3>1, <3>3, <2>1, AccountedStays
  <2>12. Listed'
    BY <2>1, <2>2, <2>3, <2>4, <2>5, ListedStays DEF ReadPid, Failed,
       FilesInv, LabelInv, Fresh
  <2> QED
    BY <2>1, <2>6, <2>7, <2>8, <2>9, <2>10, <2>11, <2>12, QuietSerial DEF
       ReadPid, Failed
<1>16. ASSUME NEW c \in Operators, Assess(c)
      PROVE  SerialInv'
  <2>1. Alone(c) /\ ~Idle(c)
    BY <1>16 DEF Assess, Alone, SerialInv, OneCommand
  <2>2. Parts(c)
    BY <2>1 DEF SerialInv, CommandInv
  <2>3. run[c] \in Runs /\ md[c] \in Metadata
    BY <1>16, <2>1, <2>2 DEF Assess, RunChosen
  <2> USE <1>16, <1>0 DEF Assess
  <2>4. \A p \in Pids : Vm(p) /\ owner[p] = run[c] =>
          md[c].pid = p /\ Refresh(md[c]) = md[c]
    BY <2>1, <2>2, <2>3, RefreshKeeps DEF KnowsInv, RecordsGood, HeldGood,
       Good
  <2>5. LabelInv(c)'
    BY <2>1, <2>2, <2>3, <2>4 DEF LabelInv, StopLabels, RemoveLabels
  <2>6. ScanInv(c)'
    BY <2>1, <2>2, <2>3, <2>4, MdOfFileOf, NoRunAssumption DEF Alone,
       NoneLive, Fresh, StopLabels, RemoveLabels, RunChosen, LabelInv,
       ScanInv, SerialInv, FilesInv, Readable, NothingSeen, FileOf, JsonFile
  <2>7. LaunchInv(c)'
    <3>1. cmd'[c] = cmd[c] /\ pc'[c] = "save" /\ md'[c] \in {md[c], Refresh(md[c])}
      OBVIOUS
    <3>2. md[c].state # "created" /\ Refresh(md[c]).state # "created"
      BY <2>2 DEF LabelInv, Refresh, Mark
    <3> QED BY <3>1, <3>2 DEF LaunchInv, Fresh
  <2>8. KnowsInv(c)'
    BY <2>1, <2>2, <2>3, <2>4, NoPidAssumption DEF LabelInv, LaunchInv,
       KnowsInv, Fresh, NoneLive, StopLabels, RemoveLabels, InitMetadata,
       Mark
  <2>9. FilesInv(c)'
    BY <2>1, <2>2, <2>3, <2>4 DEF Alone, NoneLive, Fresh, StopLabels,
       RemoveLabels, RunChosen, LabelInv, FilesInv, ScanInv, SerialInv,
       GoneInv, InitMetadata, Readable, JsonFile, Mark, Refresh
  <2>10. Accounted'
    BY <2>1, <2>2, <2>3, <2>4, AccountedStays DEF Holds, FilesInv, KnowsInv,
       Mark
  <2>11. Listed'
    BY <2>1, <2>2, <2>3, <2>4, ListedStays DEF FilesInv, LabelInv, Fresh
  <2> QED
    BY <2>1, <2>5, <2>6, <2>7, <2>8, <2>9, <2>10, <2>11, QuietSerial
<1>17. ASSUME NEW c \in Operators, EachDone(c)
      PROVE  SerialInv'
  <2> USE <1>17, <1>0 DEF EachDone
  <2>1. Alone(c) /\ ~Idle(c)
    BY DEF Alone, SerialInv, OneCommand
  <2>2. Parts(c)
    BY <2>1 DEF SerialInv, CommandInv
  <2>3. ~Idle(c)' => Parts(c)'
    OBVIOUS
  <2>4. Accounted'
    BY <2>1, <2>2, AccountedStays DEF Holds, FilesInv, KnowsInv, Mark
  <2>5. Listed'
    BY <2>1, <2>2, ListedStays DEF FilesInv, LabelInv, Fresh
  <2> QED
    BY <2>1, <2>3, <2>4, <2>5, QuietSerial
<1>18. ASSUME NEW c \in Operators, LoadFails(c)
      PROVE  SerialInv'
  <2> USE <1>18, <1>0 DEF LoadFails
  <2>1. Alone(c) /\ ~Idle(c)
    BY DEF Alone, SerialInv, OneCommand
  <2>2. Parts(c)
    BY <2>1 DEF SerialInv, CommandInv
  <2>3. ~Idle(c)' => Parts(c)'
    OBVIOUS
  <2>4. Accounted'
    BY <2>1, <2>2, AccountedStays DEF Holds, FilesInv, KnowsInv, Mark
  <2>5. Listed'
    BY <2>1, <2>2, ListedStays DEF FilesInv, LabelInv, Fresh
  <2> QED
    BY <2>1, <2>3, <2>4, <2>5, QuietSerial
<1>19. ASSUME NEW c \in Operators, LoadForStart(c)
      PROVE  SerialInv'
  <2>1. Alone(c) /\ ~Idle(c)
    BY <1>19 DEF LoadForStart, LoadedBy, Alone, SerialInv, OneCommand
  <2>2. Parts(c)
    BY <2>1 DEF SerialInv, CommandInv
  <2>3. run[c] \in Runs
    BY <1>19, <2>1, <2>2 DEF LoadForStart, LoadedBy, RunChosen
  <2>4. \A p \in Pids : Vm(p) =>
          LET f == store[owner[p]] IN
          /\ owner[p] \in Runs /\ Readable(f)
          /\ f.md.pid = p /\ Refresh(f.md) = f.md /\ f.md.state = "running"
    BY <1>19, <2>1, <2>2, <2>3, Recorded DEF LoadForStart, LoadedBy, Alone
  <2> USE <1>19, <1>0 DEF LoadForStart
  <2>5. \A p \in Pids : Vm(p) /\ owner[p] = run[c] =>
          LET m == Refresh(store[run[c]].md) IN m.pid = p /\ m.state = "running"
    BY <2>1, <2>2, <2>3, <2>4
  <2>6. Refresh(store[run[c]].md).state # "running" => NoneLive
    BY <2>1, <2>2, <2>3, <2>4, <2>5 DEF LoadedBy, LaunchInv, NoneLive
  <2>7. LabelInv(c)'
    BY <2>1, <2>2, <2>3, <2>4, <2>5, <2>6 DEF LoadedBy, LabelInv, StopLabels,
       RemoveLabels
  <2>8. ScanInv(c)'
    BY <2>1, <2>2, <2>3, <2>4, <2>5, <2>6, MdOfFileOf, NoRunAssumption DEF
       LoadedBy, Alone, NoneLive, Fresh, StopLabels, RemoveLabels, RunChosen,
       LabelInv, ScanInv, SerialInv, FilesInv, Readable, NothingSeen, FileOf,
       JsonFile
  <2>9. LaunchInv(c)'
    BY <2>1, <2>2, <2>3, <2>4, <2>5, <2>6 DEF LoadedBy, LabelInv, LaunchInv,
       Fresh, NoneLive, InitMetadata
  <2>10. KnowsInv(c)'
    BY <2>1, <2>2, <2>3, <2>4, <2>5, <2>6, NoPidAssumption DEF LoadedBy,
       LabelInv, LaunchInv, KnowsInv, Fresh, NoneLive, StopLabels,
       RemoveLabels, InitMetadata, Mark
  <2>11. FilesInv(c)'
    BY <2>1, <2>2, <2>3, <2>4, <2>5, <2>6 DEF LoadedBy, Alone, NoneLive,
       Fresh, StopLabels, RemoveLabels, RunChosen, LabelInv, FilesInv,
       ScanInv, SerialInv, GoneInv, InitMetadata, Readable, JsonFile
  <2>12. Accounted'
    BY <2>1, <2>2, <2>3, <2>4, <2>5, <2>6, AccountedStays DEF LoadedBy,
       Holds, FilesInv, KnowsInv, Mark
  <2>13. Listed'
    BY <2>1, <2>2, <2>3, <2>4, <2>5, <2>6, ListedStays DEF LoadedBy,
       FilesInv, LabelInv, Fresh
  <2> QED
    BY <2>1, <2>7, <2>8, <2>9, <2>10, <2>11, <2>12, <2>13, QuietSerial DEF
       LoadedBy
<1>20. ASSUME NEW c \in Operators, LoadForStop(c)
      PROVE  SerialInv'
  <2>1. Alone(c) /\ ~Idle(c)
    BY <1>20 DEF LoadForStop, LoadedBy, Alone, SerialInv, OneCommand
  <2>2. Parts(c)
    BY <2>1 DEF SerialInv, CommandInv
  <2>3. run[c] \in Runs
    BY <1>20, <2>1, <2>2 DEF LoadForStop, LoadedBy, RunChosen
  <2>4. \A p \in Pids : Vm(p) =>
          LET f == store[owner[p]] IN
          /\ owner[p] \in Runs /\ Readable(f)
          /\ f.md.pid = p /\ Refresh(f.md) = f.md /\ f.md.state = "running"
    BY <1>20, <2>1, <2>2, <2>3, Recorded DEF LoadForStop, LoadedBy, Alone
  <2> USE <1>20, <1>0 DEF LoadForStop
  <2>5. \A p \in Pids : Vm(p) /\ owner[p] = run[c] =>
          LET m == Refresh(store[run[c]].md) IN m.pid = p /\ m.state = "running"
    BY <2>1, <2>2, <2>3, <2>4
  <2>6. LabelInv(c)'
    BY <2>1, <2>2, <2>3, <2>4, <2>5 DEF LoadedBy, LabelInv, StopLabels,
       RemoveLabels
  <2>7. ScanInv(c)'
    BY <2>1, <2>2, <2>3, <2>4, <2>5, MdOfFileOf, NoRunAssumption DEF
       LoadedBy, Alone, NoneLive, Fresh, StopLabels, RemoveLabels, RunChosen,
       LabelInv, ScanInv, SerialInv, FilesInv, Readable, NothingSeen, FileOf,
       JsonFile
  <2>8. LaunchInv(c)'
    BY <2>1, <2>2, <2>3, <2>4, <2>5 DEF LoadedBy, LabelInv, LaunchInv, Fresh,
       NoneLive, InitMetadata
  <2>9. KnowsInv(c)'
    BY <2>1, <2>2, <2>3, <2>4, <2>5, NoPidAssumption DEF LoadedBy, LabelInv,
       LaunchInv, KnowsInv, Fresh, NoneLive, StopLabels, RemoveLabels,
       InitMetadata, Mark
  <2>10. FilesInv(c)'
    BY <2>1, <2>2, <2>3, <2>4, <2>5 DEF LoadedBy, Alone, NoneLive, Fresh,
       StopLabels, RemoveLabels, RunChosen, LabelInv, FilesInv, ScanInv,
       SerialInv, GoneInv, InitMetadata, Readable, JsonFile
  <2>11. Accounted'
    BY <2>1, <2>2, <2>3, <2>4, <2>5, AccountedStays DEF LoadedBy, Holds,
       FilesInv, KnowsInv, Mark
  <2>12. Listed'
    BY <2>1, <2>2, <2>3, <2>4, <2>5, ListedStays DEF LoadedBy, FilesInv,
       LabelInv, Fresh
  <2> QED
    BY <2>1, <2>6, <2>7, <2>8, <2>9, <2>10, <2>11, <2>12, QuietSerial DEF
       LoadedBy
<1>21. ASSUME NEW c \in Operators, LoadForDestroy(c)
      PROVE  SerialInv'
  <2>1. Alone(c) /\ ~Idle(c)
    BY <1>21 DEF LoadForDestroy, LoadedBy, Alone, SerialInv, OneCommand
  <2>2. Parts(c)
    BY <2>1 DEF SerialInv, CommandInv
  <2>3. run[c] \in Runs
    BY <1>21, <2>1, <2>2 DEF LoadForDestroy, LoadedBy, RunChosen
  <2>4. \A p \in Pids : Vm(p) =>
          LET f == store[owner[p]] IN
          /\ owner[p] \in Runs /\ Readable(f)
          /\ f.md.pid = p /\ Refresh(f.md) = f.md /\ f.md.state = "running"
    BY <1>21, <2>1, <2>2, <2>3, Recorded DEF LoadForDestroy, LoadedBy, Alone
  <2>5. \A p \in Pids : Vm(p) /\ owner[p] = run[c] =>
          LET m == Refresh(store[run[c]].md) IN m.pid = p /\ m.state = "running"
    BY <1>21, <2>1, <2>2, <2>3, <2>4 DEF LoadForDestroy
  <2>6. PidFits(Refresh(store[run[c]].md))
    <3>1. store[run[c]].md \in Metadata /\ Good(store[run[c]].md, run[c], owner, disk)
      BY <2>3, MdType DEF RecordsGood, StoreGood
    <3> QED BY <3>1, GoodRefresh DEF Good
  <2> USE <1>21, <1>0 DEF LoadForDestroy
  <2>7. LabelInv(c)'
    BY <2>1, <2>2, <2>3, <2>4, <2>5, <2>6 DEF LoadedBy, LabelInv, StopLabels,
       RemoveLabels
  <2>8. ScanInv(c)'
    BY <2>1, <2>2, <2>3, <2>4, <2>5, <2>6, MdOfFileOf, NoRunAssumption DEF
       LoadedBy, Alone, NoneLive, Fresh, StopLabels, RemoveLabels, RunChosen,
       LabelInv, ScanInv, SerialInv, FilesInv, Readable, NothingSeen, FileOf,
       JsonFile
  <2>9. LaunchInv(c)'
    BY <2>1, <2>2, <2>3, <2>4, <2>5, <2>6 DEF LoadedBy, LabelInv, LaunchInv,
       Fresh, NoneLive, InitMetadata
  <2>10. KnowsInv(c)'
    BY <2>1, <2>2, <2>3, <2>4, <2>5, <2>6, NoPidAssumption DEF LoadedBy,
       LabelInv, LaunchInv, KnowsInv, Fresh, NoneLive, StopLabels,
       RemoveLabels, InitMetadata, Mark, PidFits
  <2>11. FilesInv(c)'
    BY <2>1, <2>2, <2>3, <2>4, <2>5, <2>6 DEF LoadedBy, Alone, NoneLive,
       Fresh, StopLabels, RemoveLabels, RunChosen, LabelInv, FilesInv,
       ScanInv, SerialInv, GoneInv, InitMetadata, Readable, JsonFile
  <2>12. Accounted'
    BY <2>1, <2>2, <2>3, <2>4, <2>5, <2>6, AccountedStays DEF LoadedBy,
       Holds, FilesInv, KnowsInv, Mark
  <2>13. Listed'
    BY <2>1, <2>2, <2>3, <2>4, <2>5, <2>6, ListedStays DEF LoadedBy,
       FilesInv, LabelInv, Fresh
  <2> QED
    BY <2>1, <2>7, <2>8, <2>9, <2>10, <2>11, <2>12, <2>13, QuietSerial DEF
       LoadedBy
<1>22. ASSUME NEW c \in Operators, LoadForStatus(c)
      PROVE  SerialInv'
  <2> USE <1>22, <1>0 DEF LoadForStatus
  <2>1. Alone(c) /\ ~Idle(c)
    BY DEF LoadedBy, Alone, SerialInv, OneCommand
  <2>2. Parts(c)
    BY <2>1 DEF SerialInv, CommandInv
  <2>3. run[c] \in Runs
    BY <2>1, <2>2 DEF LoadedBy, RunChosen
  <2>4. \A p \in Pids : Vm(p) =>
          LET f == store[owner[p]] IN
          /\ owner[p] \in Runs /\ Readable(f)
          /\ f.md.pid = p /\ Refresh(f.md) = f.md /\ f.md.state = "running"
    BY <2>1, <2>2, <2>3, Recorded DEF LoadedBy, Alone
  <2>5. \A p \in Pids : Vm(p) /\ owner[p] = run[c] =>
          LET m == Refresh(store[run[c]].md) IN m.pid = p /\ m.state = "running"
    BY <2>1, <2>2, <2>3, <2>4
  <2>6. LabelInv(c)'
    BY <2>1, <2>2, <2>3, <2>4, <2>5 DEF LoadedBy, LabelInv, StopLabels,
       RemoveLabels
  <2>7. ScanInv(c)'
    BY <2>1, <2>2, <2>3, <2>4, <2>5, MdOfFileOf, NoRunAssumption DEF
       LoadedBy, Alone, NoneLive, Fresh, StopLabels, RemoveLabels, RunChosen,
       LabelInv, ScanInv, SerialInv, FilesInv, Readable, NothingSeen, FileOf,
       JsonFile
  <2>8. LaunchInv(c)'
    BY <2>1, <2>2, <2>3, <2>4, <2>5 DEF LoadedBy, LabelInv, LaunchInv, Fresh,
       NoneLive, InitMetadata
  <2>9. KnowsInv(c)'
    BY <2>1, <2>2, <2>3, <2>4, <2>5, NoPidAssumption DEF LoadedBy, LabelInv,
       LaunchInv, KnowsInv, Fresh, NoneLive, StopLabels, RemoveLabels,
       InitMetadata, Mark
  <2>10. FilesInv(c)'
    BY <2>1, <2>2, <2>3, <2>4, <2>5 DEF LoadedBy, Alone, NoneLive, Fresh,
       StopLabels, RemoveLabels, RunChosen, LabelInv, FilesInv, ScanInv,
       SerialInv, GoneInv, InitMetadata, Readable, JsonFile
  <2>11. Accounted'
    BY <2>1, <2>2, <2>3, <2>4, <2>5, AccountedStays DEF LoadedBy, Holds,
       FilesInv, KnowsInv, Mark
  <2>12. Listed'
    BY <2>1, <2>2, <2>3, <2>4, <2>5, ListedStays DEF LoadedBy, FilesInv,
       LabelInv, Fresh
  <2> QED
    BY <2>1, <2>6, <2>7, <2>8, <2>9, <2>10, <2>11, <2>12, QuietSerial DEF
       LoadedBy
<1>23. ASSUME NEW c \in Operators, Powerdown(c)
      PROVE  SerialInv'
  <2> USE <1>23, <1>0 DEF Powerdown
  <2>1. Alone(c) /\ ~Idle(c)
    BY DEF Alone, SerialInv, OneCommand
  <2>2. Parts(c)
    BY <2>1 DEF SerialInv, CommandInv
  <2>3. LabelInv(c)'
    BY <2>1, <2>2 DEF LabelInv, StopLabels, RemoveLabels
  <2>4. ScanInv(c)'
    BY <2>1, <2>2, MdOfFileOf, NoRunAssumption DEF Alone, NoneLive, Fresh,
       StopLabels, RemoveLabels, RunChosen, LabelInv, ScanInv, SerialInv,
       FilesInv, Readable, NothingSeen, FileOf, JsonFile
  <2>5. LaunchInv(c)'
    BY <2>1, <2>2 DEF LabelInv, LaunchInv, Fresh, NoneLive, InitMetadata
  <2>6. KnowsInv(c)'
    BY <2>1, <2>2, NoPidAssumption DEF LabelInv, LaunchInv, KnowsInv, Fresh,
       NoneLive, StopLabels, RemoveLabels, InitMetadata, Mark
  <2>7. FilesInv(c)'
    BY <2>1, <2>2 DEF Alone, NoneLive, Fresh, StopLabels, RemoveLabels,
       RunChosen, LabelInv, FilesInv, ScanInv, SerialInv, GoneInv,
       InitMetadata, Readable, JsonFile
  <2>8. Accounted'
    BY <2>1, <2>2, AccountedStays DEF Holds, FilesInv, KnowsInv, Mark
  <2>9. Listed'
    BY <2>1, <2>2, ListedStays DEF FilesInv, LabelInv, Fresh
  <2> QED
    BY <2>1, <2>3, <2>4, <2>5, <2>6, <2>7, <2>8, <2>9, QuietSerial
<1>24. ASSUME NEW c \in Operators, Probe(c)
      PROVE  SerialInv'
  <2> USE <1>24, <1>0 DEF Probe
  <2>1. Alone(c) /\ ~Idle(c)
    BY DEF Stopped, Alone, SerialInv, OneCommand
  <2>2. Parts(c)
    BY <2>1 DEF SerialInv, CommandInv
  <2>3. run[c] \in Runs /\ md[c] \in Metadata
    BY <2>1, <2>2 DEF RunChosen
  <2>4. \A q \in Pids : Vm(q) /\ owner[q] = run[c] => md[c].pid = q
    BY <2>1, <2>2, <2>3 DEF KnowsInv, StopLabels
  <2>5. LabelInv(c)'
    BY <2>1, <2>2, <2>3, <2>4 DEF Stopped, LabelInv, StopLabels, RemoveLabels
  <2>6. ScanInv(c)'
    BY <2>1, <2>2, <2>3, <2>4, MdOfFileOf, NoRunAssumption DEF Stopped,
       Alone, NoneLive, Fresh, StopLabels, RemoveLabels, RunChosen, LabelInv,
       ScanInv, SerialInv, FilesInv, Readable, NothingSeen, FileOf, JsonFile
  <2>7. LaunchInv(c)'
    BY <2>1, <2>2, <2>3, <2>4 DEF Stopped, LabelInv, LaunchInv, Fresh,
       NoneLive, InitMetadata, Mark
  <2>8. KnowsInv(c)'
    BY <2>1, <2>2, <2>3, <2>4, NoPidAssumption DEF Stopped, LabelInv,
       LaunchInv, KnowsInv, Fresh, NoneLive, StopLabels, RemoveLabels,
       InitMetadata, Mark, Alive
  <2>9. FilesInv(c)'
    BY <2>1, <2>2, <2>3, <2>4 DEF Stopped, Alone, NoneLive, Fresh,
       StopLabels, RemoveLabels, RunChosen, LabelInv, FilesInv, ScanInv,
       SerialInv, GoneInv, InitMetadata, Readable, JsonFile, Mark
  <2>10. Accounted'
    BY <2>1, <2>2, <2>3, <2>4, AccountedStays DEF Stopped, Holds, FilesInv,
       KnowsInv, Mark
  <2>11. Listed'
    BY <2>1, <2>2, <2>3, <2>4, ListedStays DEF Stopped, FilesInv, LabelInv,
       Fresh
  <2> QED
    BY <2>1, <2>5, <2>6, <2>7, <2>8, <2>9, <2>10, <2>11, QuietSerial DEF
       Stopped
<1>25. ASSUME NEW c \in Operators, Signal(c)
      PROVE  SerialInv'
  <2>1. Alone(c) /\ ~Idle(c)
    BY <1>25 DEF Signal, Stopped, Alone, SerialInv, OneCommand
  <2>2. Parts(c)
    BY <2>1 DEF SerialInv, CommandInv
  <2>3. run[c] \in Runs /\ md[c] \in Metadata
    BY <1>25, <2>1, <2>2 DEF Signal, RunChosen
  <2> USE <1>25, <1>0 DEF Signal
  <2>4. \A q \in Pids : Vm(q) /\ owner[q] = run[c] => md[c].pid = q
    BY <2>1, <2>2, <2>3 DEF KnowsInv, StopLabels
  <2>5. LabelInv(c)'
    BY <2>1, <2>2, <2>3, <2>4 DEF Stopped, LabelInv, StopLabels, RemoveLabels
  <2>6. ScanInv(c)'
    BY <2>1, <2>2, <2>3, <2>4, MdOfFileOf, NoRunAssumption DEF Stopped,
       Alone, NoneLive, Fresh, StopLabels, RemoveLabels, RunChosen, LabelInv,
       ScanInv, SerialInv, FilesInv, Readable, NothingSeen, FileOf, JsonFile
  <2>7. LaunchInv(c)'
    BY <2>1, <2>2, <2>3, <2>4 DEF Stopped, LabelInv, LaunchInv, Fresh,
       NoneLive, InitMetadata, Mark
  <2>8. KnowsInv(c)'
    <3>1. /\ owner' = owner /\ cut' = cut
          /\ \/ pc'[c] = "idle"
             \/ run'[c] = run[c] /\ cmd'[c] = cmd[c]
      BY DEF Stopped
    <3>2. CASE pc'[c] = "idle"
      BY <3>1, <3>2, <2>1 DEF KnowsInv, StopLabels, RemoveLabels, LabelInv
    <3>3. CASE pc'[c] = "termed"
      <4>1. vm' = vm /\ md' = md
        BY <3>3 DEF Stopped
      <4> QED BY <4>1, <3>1, <3>3, <2>4 DEF KnowsInv, RemoveLabels
    <3>4. CASE pc'[c] = "save"
      <4>1. vm' = [vm EXCEPT ![md[c].pid] = "killed"] /\ md'[c].pid = NoPid
        BY <3>4 DEF Stopped, Mark
      <4>2. \A p \in Pids : ~(Vm(p)' /\ owner[p] = run[c])
        <5> SUFFICES ASSUME NEW p \in Pids, Vm(p)', owner[p] = run[c]
                     PROVE  FALSE
          OBVIOUS
        <5>1. vm'[p] = "live" /\ p # md[c].pid
          BY <4>1
        <5>2. vm[p] = "live"
          BY <5>1, <4>1
        <5> QED BY <5>1, <5>2, <3>1, <2>4
      <4> QED BY <4>1, <4>2, <3>1, <3>4 DEF KnowsInv
    <3>5. pc'[c] \in {"idle", "termed", "save"}
      BY DEF Stopped
    <3> QED BY <3>2, <3>3, <3>4, <3>5
  <2>9. FilesInv(c)'
    BY <2>1, <2>2, <2>3, <2>4 DEF Stopped, Alone, NoneLive, Fresh,
       StopLabels, RemoveLabels, RunChosen, LabelInv, FilesInv, ScanInv,
       SerialInv, GoneInv, InitMetadata, Readable, JsonFile, Mark
  <2>10. Accounted'
    BY <2>1, <2>2, <2>3, <2>4, AccountedStays DEF Stopped, Holds, FilesInv,
       KnowsInv, Mark
  <2>11. Listed'
    BY <2>1, <2>2, <2>3, <2>4, ListedStays DEF Stopped, FilesInv, LabelInv,
       Fresh
  <2>12. WritersInv' /\ GoneInv'
    BY <2>1, <2>2, <2>3, <2>4 DEF Stopped, Alone, NoneLive, Fresh,
       StopLabels, RemoveLabels, RunChosen, SerialInv, WritersInv, GoneInv,
       FilesInv
  <2>13. AtMostOneActive' /\ DestroyOnlyDead'
    BY <2>1, <2>2, <2>3, <2>4 DEF Stopped, Alone, NoneLive, Fresh,
       StopLabels, RemoveLabels, RunChosen, SerialInv, AtMostOneActive,
       DestroyOnlyDead, LaunchInv, KnowsInv
  <2> QED
    BY <2>1, <2>5, <2>6, <2>7, <2>8, <2>9, <2>10, <2>11, <2>12, <2>13,
       Assemble
<1>26. ASSUME NEW c \in Operators, RemoveFile(c)
      PROVE  SerialInv'
  <2> USE <1>26, <1>0 DEF RemoveFile
  <2>1. Alone(c) /\ ~Idle(c)
    BY DEF FileOf, Alone, SerialInv, OneCommand
  <2>2. Parts(c)
    BY <2>1 DEF SerialInv, CommandInv
  <2>3. run[c] \in Runs /\ md[c] \in Metadata
    BY <2>1, <2>2 DEF RunChosen
  <2>4. \A p \in Pids : owner[p] = run[c] => ~Vm(p)
    BY <2>1, <2>2, <2>3, RunIsOff DEF RemoveLabels
  <2>5. LabelInv(c)'
    BY <2>1, <2>2, <2>3, <2>4 DEF FileOf, LabelInv, StopLabels, RemoveLabels
  <2>6. ScanInv(c)'
    BY <2>1, <2>2, <2>3, <2>4, MdOfFileOf, NoRunAssumption DEF FileOf, Alone,
       NoneLive, Fresh, StopLabels, RemoveLabels, RunChosen, LabelInv,
       ScanInv, SerialInv, FilesInv, Readable, NothingSeen, FileOf, JsonFile
  <2>7. LaunchInv(c)'
    BY <2>1, <2>2, <2>3, <2>4 DEF FileOf, LabelInv, LaunchInv, Fresh,
       NoneLive, InitMetadata
  <2>8. KnowsInv(c)'
    BY <2>1, <2>2, <2>3, <2>4, NoPidAssumption DEF FileOf, LabelInv,
       LaunchInv, KnowsInv, Fresh, NoneLive, StopLabels, RemoveLabels,
       InitMetadata, Mark
  <2>9. FilesInv(c)'
    BY <2>1, <2>2, <2>3, <2>4 DEF FileOf, Alone, NoneLive, Fresh, StopLabels,
       RemoveLabels, RunChosen, LabelInv, FilesInv, ScanInv, SerialInv,
       GoneInv, InitMetadata, Readable, JsonFile
  <2>10. Accounted'
    <3>1. /\ UNCHANGED <<vm, owner, cut>>
          /\ \A q \in Runs \ {run[c]} : store'[q] = store[q]
      OBVIOUS
    <3>2. \A d \in Operators, p \in Pids : ~Holds(d, p)
      BY <2>1 DEF Alone, Holds
    <3>3. \A p \in Pids : Vm(p) => owner[p] \in Runs \ {run[c]}
      BY <2>4 DEF RecordsGood, OwnerUsed
    <3> HIDE <1>26
    <3> QED
      BY <3>1, <3>2, <3>3 DEF SerialInv, Accounted
  <2>11. Listed'
    BY <2>1, <2>2, <2>3, <2>4 DEF FileOf, Alone, NoneLive, Fresh, StopLabels,
       RemoveLabels, RunChosen, SerialInv, Listed, FilesInv, Readable,
       JsonFile
  <2>12. WritersInv' /\ GoneInv'
    BY <2>1, <2>2, <2>3, <2>4 DEF FileOf, Alone, NoneLive, Fresh, StopLabels,
       RemoveLabels, RunChosen, SerialInv, WritersInv, GoneInv, FilesInv
  <2>13. AtMostOneActive' /\ DestroyOnlyDead'
    BY <2>1, <2>2, <2>3, <2>4 DEF FileOf, Alone, NoneLive, Fresh, StopLabels,
       RemoveLabels, RunChosen, SerialInv, AtMostOneActive, DestroyOnlyDead,
       LaunchInv, KnowsInv
  <2> QED
    BY <2>1, <2>5, <2>6, <2>7, <2>8, <2>9, <2>10, <2>11, <2>12, <2>13,
       Assemble
<1>27. ASSUME NEW c \in Operators, RemoveDirs(c)
      PROVE  SerialInv'
  <2> USE <1>27, <1>0 DEF RemoveDirs
  <2>1. Alone(c) /\ ~Idle(c)
    BY DEF Alone, SerialInv, OneCommand
  <2>2. Parts(c)
    BY <2>1 DEF SerialInv, CommandInv
  <2>3. run[c] \in Runs /\ md[c] \in Metadata
    BY <2>1, <2>2 DEF RunChosen
  <2>4. \A p \in Pids : owner[p] = run[c] => ~Vm(p)
    BY <2>1, <2>2, <2>3, RunIsOff DEF RemoveLabels
  <2>5. LabelInv(c)'
    BY <2>1, <2>2, <2>3, <2>4 DEF LabelInv, StopLabels, RemoveLabels
  <2>6. ScanInv(c)'
    BY <2>1, <2>2, <2>3, <2>4, MdOfFileOf, NoRunAssumption DEF Alone,
       NoneLive, Fresh, StopLabels, RemoveLabels, RunChosen, LabelInv,
       ScanInv, SerialInv, FilesInv, Readable, NothingSeen, FileOf, JsonFile
  <2>7. LaunchInv(c)'
    BY <2>1, <2>2, <2>3, <2>4 DEF LabelInv, LaunchInv, Fresh, NoneLive,
       InitMetadata
  <2>8. KnowsInv(c)'
    BY <2>1, <2>2, <2>3, <2>4, NoPidAssumption DEF LabelInv, LaunchInv,
       KnowsInv, Fresh, NoneLive, StopLabels, RemoveLabels, InitMetadata,
       Mark
  <2>9. FilesInv(c)'
    BY <2>1, <2>2, <2>3, <2>4 DEF Alone, NoneLive, Fresh, StopLabels,
       RemoveLabels, RunChosen, LabelInv, FilesInv, ScanInv, SerialInv,
       GoneInv, InitMetadata, Readable, JsonFile
  <2>10. Accounted'
    BY <2>1, <2>2, <2>3, <2>4, AccountedStays DEF Holds, FilesInv, KnowsInv,
       Mark
  <2>11. Listed'
    BY <2>1, <2>2, <2>3, <2>4 DEF Alone, NoneLive, Fresh, StopLabels,
       RemoveLabels, RunChosen, SerialInv, Listed, FilesInv, Readable,
       JsonFile
  <2>12. WritersInv' /\ GoneInv'
    BY <2>1, <2>2, <2>3, <2>4 DEF Alone, NoneLive, Fresh, StopLabels,
       RemoveLabels, RunChosen, SerialInv, WritersInv, GoneInv, FilesInv
  <2>13. AtMostOneActive' /\ DestroyOnlyDead'
    BY <2>1, <2>2, <2>3, <2>4 DEF Alone, NoneLive, Fresh, StopLabels,
       RemoveLabels, RunChosen, SerialInv, AtMostOneActive, DestroyOnlyDead,
       LaunchInv, KnowsInv
  <2> QED
    BY <2>1, <2>5, <2>6, <2>7, <2>8, <2>9, <2>10, <2>11, <2>12, <2>13,
       Assemble
<1>28. ASSUME NEW c \in Operators, RemoveRoot(c)
      PROVE  SerialInv'
  <2> USE <1>28, <1>0 DEF RemoveRoot, RootEmpty
  <2>1. Alone(c) /\ ~Idle(c)
    BY DEF Alone, SerialInv, OneCommand
  <2>2. Parts(c)
    BY <2>1 DEF SerialInv, CommandInv
  <2>3. ~Idle(c)' => Parts(c)'
    OBVIOUS
  <2>4. Accounted'
    BY <2>1, <2>2, AccountedStays DEF Holds, FilesInv, KnowsInv, Mark
  <2>5. run[c] \in Runs
    BY DEF RunChosen
  <2>6. disk' = [disk EXCEPT ![run[c]] = "removed"] /\ disk[run[c]] = "gone"
    OBVIOUS
  <2>7. Listed'
    <3>1. UNCHANGED <<store, cut>>
      OBVIOUS
    <3>2. \A d \in Operators : pc[d] \notin {"save", "write", "rmdirs"}
      BY <2>1 DEF Alone
    <3> QED
      BY <2>6, <3>1, <3>2 DEF SerialInv, Listed
  <2>8. WritersInv' /\ GoneInv'
    BY <2>1, <2>2, <2>5, <2>6 DEF Alone, SerialInv, WritersInv, GoneInv
  <2>9. AtMostOneActive' /\ DestroyOnlyDead'
    BY <2>5, <2>6, NoRunAssumption
       DEF SerialInv, AtMostOneActive, DestroyOnlyDead, RecordsGood, OwnerUsed
  <2> QED
    BY <2>1, <2>3, <2>4, <2>7, <2>8, <2>9, Assemble
<1>29. ASSUME NEW c \in Operators, RemoveFails(c)
      PROVE  SerialInv'
  <2> USE <1>29, <1>0 DEF RemoveFails, Gutted
  <2>1. Alone(c) /\ ~Idle(c)
    BY DEF Alone, SerialInv, OneCommand
  <2>2. Parts(c)
    BY <2>1 DEF SerialInv, CommandInv
  <2>3. ~Idle(c)' => Parts(c)'
    OBVIOUS
  <2>4. Accounted'
    BY <2>1, <2>2, AccountedStays DEF Holds, FilesInv, KnowsInv, Mark
  <2>5. Listed'
    BY <2>1, <2>2, ListedStays DEF FilesInv, LabelInv, Fresh
  <2> QED
    BY <2>1, <2>3, <2>4, <2>5, QuietSerial
<1>30. ASSUME NEW c \in Operators, Interrupt(c)
      PROVE  SerialInv'
  <2> USE <1>30, <1>0
  <2>1. Alone(c) /\ ~Idle(c)
    BY DEF Interrupt, Fault, Exposed, Alone, SerialInv, OneCommand
  <2>2. Parts(c)
    BY <2>1 DEF SerialInv, CommandInv
  <2>3. run[c] \in Runs => NoPid \notin Pids /\ (md[c].pid # NoPid => md[c].state = "running")
    BY <2>1, <2>2, NoPidAssumption DEF RecordsGood, HeldGood, Good, PidFits
  <2>4. ~Idle(c)' => Parts(c)'
    BY DEF Interrupt, Fault, Exposed
  <2>5. Accounted'
    <3>1. /\ UNCHANGED <<store, vm, owner>> /\ cut \subseteq cut'
          /\ Exposed(c) => run[c] \in cut'
      BY DEF Interrupt, Fault
    <3>2. ASSUME NEW p \in Pids, Vm(p)', Holds(c, p)
          PROVE  Readable(store[owner[p]]) /\ store[owner[p]].md.pid = p
      <4>1. run[c] = owner[p] /\ owner[p] \in Runs /\ owner[p] \notin cut'
        BY <3>1, <3>2 DEF Holds, RecordsGood, OwnerUsed
      <4>2. ~Exposed(c)
        BY <3>1, <4>1
      <4>3. pc[c] = "save" /\ md[c].pid = p
        BY <3>2, <4>2 DEF Holds, Exposed
      <4>4. p # NoPid /\ md[c].state = "running"
        BY <4>1, <4>3, <2>3, NoPidAssumption
      <4>5. store[run[c]].md.pid = p
        BY <4>2, <4>3, <4>4 DEF Exposed
      <4>6. Readable(store[run[c]])
        BY <2>2, <4>3, <4>4 DEF FilesInv, Fresh
      <4> QED BY <4>1, <4>5, <4>6
    <3> QED BY <3>1, <3>2, <2>1, AccountedStays
  <2>6. Listed'
    BY <2>1, <2>2, <2>3, ListedStays DEF Interrupt, Fault, Exposed, FilesInv,
       LabelInv, Fresh
  <2>7. WritersInv' /\ GoneInv'
    BY <2>1, <2>2, <2>3 DEF Interrupt, Fault, Exposed, Alone, NoneLive,
       Fresh, StopLabels, RemoveLabels, RunChosen, SerialInv, WritersInv,
       GoneInv, FilesInv
  <2>8. AtMostOneActive' /\ DestroyOnlyDead'
    BY <2>1, <2>2, <2>3 DEF Interrupt, Fault, Exposed, Alone, NoneLive,
       Fresh, StopLabels, RemoveLabels, RunChosen, SerialInv,
       AtMostOneActive, DestroyOnlyDead, LaunchInv, KnowsInv
  <2> QED
    BY <2>1, <2>4, <2>5, <2>6, <2>7, <2>8, Assemble
<1>31. ASSUME NEW c \in Operators, SaveFails(c)
      PROVE  SerialInv'
  <2> USE <1>31, <1>0
  <2>1. Alone(c) /\ ~Idle(c)
    BY DEF SaveFails, Fault, Exposed, AfterFailedSave, NextFile, Alone,
       SerialInv, OneCommand
  <2>2. Parts(c)
    BY <2>1 DEF SerialInv, CommandInv
  <2>3. run[c] \in Runs /\ md[c] \in Metadata
    BY <2>1, <2>2 DEF SaveFails, RunChosen
  <2>4. NoPid \notin Pids /\ (md[c].pid # NoPid => md[c].state = "running")
    BY <2>1, <2>2, <2>3, NoPidAssumption DEF RecordsGood, HeldGood, Good,
       PidFits
  <2>5. LabelInv(c)'
    BY <2>1, <2>2, <2>3, <2>4 DEF SaveFails, Fault, Exposed, AfterFailedSave,
       NextFile, LabelInv, StopLabels, RemoveLabels
  <2>6. ScanInv(c)'
    BY <2>1, <2>2, <2>3, <2>4, MdOfFileOf, NoRunAssumption DEF SaveFails,
       Fault, Exposed, AfterFailedSave, NextFile, Alone, NoneLive, Fresh,
       StopLabels, RemoveLabels, RunChosen, LabelInv, ScanInv, SerialInv,
       FilesInv, Readable, NothingSeen, FileOf, JsonFile
  <2>7. LaunchInv(c)'
    BY <2>1, <2>2, <2>3, <2>4 DEF SaveFails, Fault, Exposed, AfterFailedSave,
       NextFile, LabelInv, LaunchInv, Fresh, NoneLive, InitMetadata
  <2>8. KnowsInv(c)'
    BY <2>1, <2>2, <2>3, <2>4, NoPidAssumption DEF SaveFails, Fault, Exposed,
       AfterFailedSave, NextFile, LabelInv, LaunchInv, KnowsInv, Fresh,
       NoneLive, StopLabels, RemoveLabels, InitMetadata, Mark
  <2>9. FilesInv(c)'
    BY <2>1, <2>2, <2>3, <2>4 DEF SaveFails, Fault, Exposed, AfterFailedSave,
       NextFile, Alone, NoneLive, Fresh, StopLabels, RemoveLabels, RunChosen,
       LabelInv, FilesInv, ScanInv, SerialInv, GoneInv, InitMetadata,
       Readable, JsonFile
  <2>10. Accounted'
    <3>1. /\ UNCHANGED <<store, vm, owner>> /\ cut \subseteq cut'
          /\ Exposed(c) => run[c] \in cut'
      BY DEF SaveFails, Fault
    <3>2. ASSUME NEW p \in Pids, Vm(p)', Holds(c, p)
          PROVE  Readable(store[owner[p]]) /\ store[owner[p]].md.pid = p
      <4>1. run[c] = owner[p] /\ owner[p] \notin cut'
        BY <3>1, <3>2 DEF Holds
      <4>2. ~Exposed(c)
        BY <3>1, <4>1
      <4>3. pc[c] = "save" /\ md[c].pid = p
        BY <3>2, <4>2 DEF SaveFails, Holds, Exposed
      <4>4. p # NoPid /\ md[c].state = "running"
        BY <4>3, <2>4
      <4>5. store[run[c]].md.pid = p
        BY <4>2, <4>3, <4>4 DEF Exposed
      <4>6. Readable(store[run[c]])
        BY <2>2, <4>3, <4>4 DEF FilesInv, Fresh
      <4> QED BY <4>1, <4>5, <4>6
    <3> QED BY <3>1, <3>2, <2>1, AccountedStays
  <2>11. Listed'
    BY <2>1, <2>2, <2>3, <2>4, ListedStays DEF SaveFails, Fault, Exposed,
       AfterFailedSave, NextFile, FilesInv, LabelInv, Fresh
  <2>12. WritersInv' /\ GoneInv'
    BY <2>1, <2>2, <2>3, <2>4 DEF SaveFails, Fault, Exposed, AfterFailedSave,
       NextFile, Alone, NoneLive, Fresh, StopLabels, RemoveLabels, RunChosen,
       SerialInv, WritersInv, GoneInv, FilesInv
  <2>13. AtMostOneActive' /\ DestroyOnlyDead'
    BY <2>1, <2>2, <2>3, <2>4 DEF SaveFails, Fault, Exposed, AfterFailedSave,
       NextFile, Alone, NoneLive, Fresh, StopLabels, RemoveLabels, RunChosen,
       SerialInv, AtMostOneActive, DestroyOnlyDead, LaunchInv, KnowsInv
  <2> QED
    BY <2>1, <2>5, <2>6, <2>7, <2>8, <2>9, <2>10, <2>11, <2>12, <2>13,
       Assemble
<1>32. ASSUME NEW p \in Pids, Exit(p)
      PROVE  SerialInv'
  <2>0. \A c \in Operators : pc[c] = "readpid" => run[c] \in Runs
    BY DEF RunChosen
  <2> USE <1>32, <1>0 DEF Exit
  <2>1. \A q \in Pids : vm'[q] = "live" => vm[q] = "live"
    BY DEF Alive
  <2>2. \A c \in Operators : Idle(c)' = Idle(c)
    BY DEF opVars
  <2>3. ASSUME NEW c \in Operators, ~Idle(c), Parts(c) PROVE Parts(c)'
    <3>1. LabelInv(c)' /\ ScanInv(c)' /\ FilesInv(c)'
      BY <2>3 DEF LabelInv, ScanInv, FilesInv, Fresh, opVars
    <3>2. KnowsInv(c)'
      BY <2>1, <2>3 DEF KnowsInv, opVars
    <3>4. pidfile[run[c]] # p /\ run[c] \in Runs =>
              pidfile'[run[c]] = pidfile[run[c]]
      OBVIOUS
    <3>5. vm'[p] # "live"
      OBVIOUS
    <3>6. LaunchInv(c)'
      BY <2>1, <2>3, <2>0, <3>4, <3>5 DEF LaunchInv, NoneLive, Fresh, opVars
    <3> QED BY <3>1, <3>2, <3>6
  <2>4. CommandInv' /\ OneCommand'
    <3> HIDE <1>32, <1>0
    <3> QED BY <2>2, <2>3 DEF SerialInv, CommandInv, OneCommand
  <2>5. WritersInv' /\ GoneInv' /\ Listed'
    BY DEF SerialInv, WritersInv, GoneInv, Listed, opVars
  <2>6. Accounted' /\ AtMostOneActive' /\ DestroyOnlyDead'
    BY <2>1 DEF SerialInv, Accounted, AtMostOneActive, DestroyOnlyDead,
       Holds, opVars
  <2> QED BY <2>4, <2>5, <2>6 DEF SerialInv
<1>33. ASSUME UNCHANGED vars PROVE SerialInv'
  <2>1. ASSUME NEW c \in Operators, Parts(c) PROVE Parts(c)'
    BY <1>33, <2>1 DEF vars, filesVars, qemuVars, faultVars, opVars, Parts,
       LabelInv, ScanInv, LaunchInv, KnowsInv, FilesInv, Fresh, NoneLive, Vm
  <2>2. CommandInv' /\ OneCommand'
    BY <1>33, <2>1 DEF vars, opVars, SerialInv, CommandInv, OneCommand, Parts,
       Idle
  <2>3. WritersInv' /\ GoneInv' /\ AtMostOneActive' /\ DestroyOnlyDead'
    BY <1>33 DEF vars, filesVars, qemuVars, faultVars, opVars, SerialInv,
       WritersInv, GoneInv, AtMostOneActive, DestroyOnlyDead
  <2>4. Accounted' /\ Listed'
    BY <1>33 DEF vars, filesVars, qemuVars, faultVars, opVars, SerialInv,
       Accounted, Listed, Holds, At
  <2> QED BY <2>2, <2>3, <2>4 DEF SerialInv
<1> QED
  BY <1>1, <1>2, <1>3, <1>4, <1>5, <1>6, <1>7, <1>8, <1>9, <1>10, <1>11,
     <1>12, <1>13, <1>14, <1>15, <1>16, <1>17, <1>18, <1>19, <1>20, <1>21,
     <1>22, <1>23, <1>24, <1>25, <1>26, <1>27, <1>28, <1>29, <1>30, <1>31,
     <1>32, <1>33 DEF Next, Begin, Step

\* The serial invariant holds whatever the number of runs and of processes.
LEMMA SerialInvHolds ==
    ASSUME Overlap = FALSE PROVE Spec => [](RecordInv /\ SerialInv)
<1>1. Init => RecordInv /\ SerialInv
  BY InitTyped, InitRecords, InitSerial DEF RecordInv
<1>2. RecordInv /\ SerialInv /\ [Next]_vars => (RecordInv /\ SerialInv)'
  BY StepTyped, StepRecords, StepSerial DEF RecordInv
<1> QED BY <1>1, <1>2, PTL DEF Spec

\* runs.py and cli.py, one command at a time: no live virtual machine is lost
\* to the records, unless a fault took the update (Accounted).
THEOREM AccountedHolds == ASSUME Overlap = FALSE PROVE Spec => []Accounted
BY SerialInvHolds, PTL DEF SerialInv

\* ensure_single_active_run keeps two virtual machines from running at once,
\* one command at a time and without faults (AtMostOneActive).
THEOREM AtMostOneActiveHolds ==
    ASSUME Overlap = FALSE PROVE Spec => []AtMostOneActive
BY SerialInvHolds, PTL DEF SerialInv

\* A run whose files exist keeps a record that the commands can read, but for
\* the moments in which one writes or removes it (Listed).
THEOREM ListedHolds == ASSUME Overlap = FALSE PROVE Spec => []Listed
BY SerialInvHolds, PTL DEF SerialInv

\* destroy_run stops the virtual machine before it removes its files
\* (DestroyOnlyDead).
THEOREM DestroyOnlyDeadHolds ==
    ASSUME Overlap = FALSE PROVE Spec => []DestroyOnlyDead
BY SerialInvHolds, PTL DEF SerialInv

\* No command brings back the record of a run that destroy has removed, while
\* one command runs at a time (DestroyIsFinal).
THEOREM DestroyIsFinalHolds ==
    ASSUME Overlap = FALSE PROVE Spec => []DestroyIsFinal
<1>1. SerialInv => DestroyIsFinal
  BY DEF SerialInv, GoneInv, DestroyIsFinal
<1> QED BY <1>1, SerialInvHolds, PTL
=============================================================================
