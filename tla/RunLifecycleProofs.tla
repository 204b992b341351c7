------------------------- MODULE RunLifecycleProofs -------------------------
(***************************************************************************)
(* Proofs about RunLifecycle, for any number of operators, runs and        *)
(* processes and any set of commands: its types, and what holds of the     *)
(* records however the commands overlap.                                   *)
(***************************************************************************)
EXTENDS RunRefinement, TLAPS

\* A command that works on a run knows which, and only the commands that
\* glob the work root scan it.
RunChosen ==
    \A c \in Operators :
        /\ run[c] = NoRun =>
              pc[c] \in {"idle", "scan", "mkdir", "each"} /\ cmd[c] # "start"
        /\ pc[c] = "scan" => cmd[c] \in {"create", "start", "list"}

\* The part of TypeOK about the commands in progress, with what makes it
\* inductive.
ControlOK ==
    /\ pc \in [Operators -> Labels]
    /\ cmd \in [Operators -> AllCommands \cup {"none"}]
    /\ run \in [Operators -> Runs \cup {NoRun}]
    /\ md \in [Operators -> Metadata]
    /\ todo \in [Operators -> SUBSET Runs]
    /\ seen \in [Operators -> [Runs -> File]]
    /\ RunChosen

\* The part of TypeOK about files, processes and history.
StateOK ==
    /\ store \in [Runs -> File]
    /\ writers \in [Runs -> SUBSET Operators]
    /\ disk \in [Runs -> {"unused", "dirs", "overlay", "seeded", "gone",
                       "removed"}]
    /\ pidfile \in [Runs -> Pids \cup {NoPid}]
    /\ vm \in [Pids -> {"unused", "live", "killed", "dead"}]
    /\ owner \in [Pids -> Runs \cup {NoRun}]
    /\ destroyed \subseteq Runs
    /\ cut \subseteq Runs
    /\ cuts \in 0..MaxCuts

Typed == ControlOK /\ StateOK

LEMMA TypedImpliesTypeOK == Typed => TypeOK
BY DEF Typed, ControlOK, StateOK, TypeOK

-----------------------------------------------------------------------------
(* The values the actions compute have their types.                         *)

LEMMA InitMetadataType == InitMetadata \in Metadata
BY DEF InitMetadata, Metadata, States

LEMMA MarkType ==
    ASSUME NEW m \in Metadata, NEW s \in States, NEW p \in Pids \cup {NoPid}
    PROVE  Mark(m, s, p) \in Metadata
BY DEF Mark, Metadata, States

LEMMA RefreshType ==
    ASSUME NEW m \in Metadata PROVE Refresh(m) \in Metadata
BY MarkType DEF Refresh, Metadata, States

LEMMA FileOfType ==
    ASSUME NEW f \in {"absent", "empty", "garbled", "json"}
    PROVE  FileOf(f) \in File
BY InitMetadataType DEF FileOf, File

LEMMA JsonFileType ==
    ASSUME NEW m \in Metadata PROVE JsonFile(m) \in File
BY DEF JsonFile, File

LEMMA MdType == ASSUME NEW f \in File PROVE f.md \in Metadata
BY DEF File

-----------------------------------------------------------------------------
(* What each way of going on does to the commands in progress.              *)

LEMMA GotoControl ==
    ASSUME ControlOK, NEW c \in Operators, NEW l \in Labels \ {"scan"},
           run[c] \in Runs \/ l \in {"mkdir", "each"},
           Goto(c, l)
    PROVE  ControlOK'
BY NoRunAssumption DEF ControlOK, RunChosen, Goto

LEMMA CarryControl ==
    ASSUME ControlOK, NEW c \in Operators, NEW l \in Labels \ {"scan"},
           run[c] \in Runs, NEW m \in Metadata,
           Carry(c, m, l)
    PROVE  ControlOK'
BY NoRunAssumption DEF ControlOK, RunChosen, Carry

LEMMA TurnControl ==
    ASSUME ControlOK, NEW c \in Operators, NEW l \in Labels \ {"scan"},
           NEW r \in Runs \cup {NoRun}, NEW m \in Metadata,
           r = NoRun => l = "each" /\ cmd[c] = "list",
           Turn(c, r, m, l), seen' \in [Operators -> [Runs -> File]]
    PROVE  ControlOK'
BY NoRunAssumption DEF ControlOK, RunChosen, Turn

LEMMA EnterControl ==
    ASSUME ControlOK, NEW c \in Operators, NEW l \in Labels,
           NEW k \in AllCommands \cup {"none"},
           NEW r \in Runs \cup {NoRun}, NEW f \in SUBSET Runs,
           r = NoRun => l \in {"idle", "scan"} /\ k # "start",
           l = "scan" => k \in {"create", "start", "list"},
           Enter(c, l, k, r, f)
    PROVE  ControlOK'
<1>1. NothingSeen \in [Runs -> File]
  BY FileOfType DEF NothingSeen
<1> QED
  BY <1>1, InitMetadataType, NoRunAssumption DEF ControlOK, RunChosen, Enter

LEMMA FinishControl ==
    ASSUME ControlOK, NEW c \in Operators, Finish(c)
    PROVE  ControlOK'
BY EnterControl DEF Finish, Labels

LEMMA NextFileControl ==
    ASSUME ControlOK, NEW c \in Operators, cmd[c] = "list", NextFile(c)
    PROVE  ControlOK'
BY TurnControl, InitMetadataType DEF NextFile, ControlOK, Labels

LEMMA InitTyped == Init => Typed
<1>1. NothingSeen \in [Runs -> File] /\ FileOf("absent") \in File
  BY FileOfType DEF NothingSeen
<1> QED
  BY <1>1, InitMetadataType, MaxCutsAssumption
     DEF Init, Typed, ControlOK, StateOK, RunChosen, Labels, AllCommands

LEMMA StepTyped ==
    ASSUME Typed, [Next]_vars PROVE Typed'
<1> USE DEF Typed
<1>1. ASSUME NEW c \in Operators, NEW k \in Commands, NEW r \in Runs \cup {NoRun}, BeginScan(c, k, r)
      PROVE  Typed'
  <2>1. Globbed \in SUBSET Runs
    BY DEF Globbed
  <2>2. ControlOK'
    BY <1>1, <2>1, EnterControl, CommandsAssumption, NoRunAssumption DEF
       BeginScan, Labels, AllCommands
  <2> QED
    BY <1>1, <2>1, <2>2 DEF BeginScan, StateOK, filesVars, qemuVars,
       faultVars
<1>2. ASSUME NEW c \in Operators, NEW k \in Commands, NEW r \in Runs, BeginLoad(c, k, r)
      PROVE  Typed'
  <2>1. ControlOK'
    BY <1>2, EnterControl, CommandsAssumption, NoRunAssumption DEF
       BeginLoad, Labels, AllCommands
  <2> QED
    BY <1>2, <2>1 DEF BeginLoad, StateOK, filesVars, qemuVars, faultVars
<1>3. ASSUME NEW c \in Operators, NEW r \in Runs, Scan(c, r)
      PROVE  Typed'
  <2>1. ControlOK'
    BY <1>3 DEF Scan, ControlOK, StateOK, RunChosen
  <2> QED
    BY <1>3, <2>1 DEF Scan, StateOK, filesVars, qemuVars, faultVars
<1>4. ASSUME NEW c \in Operators, NEW r \in Runs, MakeRun(c, r)
      PROVE  Typed'
  <2>1. ControlOK'
    BY <1>4, TurnControl, InitMetadataType, NoRunAssumption DEF MakeRun,
       Labels, ControlOK
  <2> QED
    BY <1>4, <2>1 DEF MakeRun, StateOK, filesVars, qemuVars, faultVars
<1>5. ASSUME NEW c \in Operators, NEW r \in Runs, Each(c, r)
      PROVE  Typed'
  <2>1. seen[c][r].md \in Metadata
    BY MdType DEF ControlOK
  <2>2. seen' \in [Operators -> [Runs -> File]]
    BY <1>5, <2>1, FileOfType DEF Each, ControlOK
  <2>3. ControlOK'
    BY <1>5, <2>1, <2>2, TurnControl, RefreshType, NoRunAssumption DEF Each,
       Labels
  <2> QED
    BY <1>5, <2>1, <2>2, <2>3 DEF Each, StateOK, filesVars, qemuVars,
       faultVars
<1>6. ASSUME NEW c \in Operators, NEW p \in Pids, Launch(c, p)
      PROVE  Typed'
  <2>1. run[c] \in Runs /\ md[c] \in Metadata
    BY <1>6 DEF Launch, At, ControlOK, RunChosen
  <2>2. ControlOK'
    BY <1>6, <2>1, GotoControl DEF Launch, Labels
  <2> QED
    BY <1>6, <2>1, <2>2 DEF Launch, StateOK, filesVars, qemuVars, faultVars
<1>7. ASSUME NEW c \in Operators, ScanDone(c)
      PROVE  Typed'
  <2>1. cmd[c] \in {"create", "start", "list"} /\ (cmd[c] = "start" => run[c] \in Runs)
    BY <1>7 DEF ScanDone, At, ControlOK, RunChosen
  <2>2. ControlOK'
    BY <1>7, <2>1, GotoControl, FinishControl DEF ScanDone, Labels
  <2> QED
    BY <1>7, <2>1, <2>2 DEF ScanDone, StateOK, filesVars, qemuVars,
       faultVars
<1>8. ASSUME NEW c \in Operators, OpenMeta(c)
      PROVE  Typed'
  <2>1. run[c] \in Runs /\ md[c] \in Metadata
    BY <1>8 DEF OpenMeta, At, ControlOK, RunChosen
  <2>2. ControlOK'
    BY <1>8, <2>1, GotoControl DEF OpenMeta, Labels
  <2> QED
    BY <1>8, <2>1, <2>2, FileOfType DEF OpenMeta, StateOK, filesVars,
       qemuVars, faultVars
<1>9. ASSUME NEW c \in Operators, WriteMeta(c)
      PROVE  Typed'
  <2>1. run[c] \in Runs /\ md[c] \in Metadata
    BY <1>9 DEF WriteMeta, At, ControlOK, RunChosen
  <2>2. store' \in [Runs -> File]
    BY <1>9, <2>1, JsonFileType, FileOfType DEF WriteMeta, StateOK, Written
  <2>3. ControlOK'
    BY <1>9, <2>1, <2>2, GotoControl, FinishControl, NextFileControl DEF
       WriteMeta, AfterSave, Labels
  <2> QED
    BY <1>9, <2>1, <2>2, <2>3 DEF WriteMeta, StateOK, filesVars, qemuVars,
       faultVars
<1>10. ASSUME NEW c \in Operators, MakeRunFails(c)
      PROVE  Typed'
  <2>1. ControlOK'
    BY <1>10, FinishControl DEF MakeRunFails
  <2> QED
    BY <1>10, <2>1 DEF MakeRunFails, StateOK, filesVars, qemuVars, faultVars
<1>11. ASSUME NEW c \in Operators, CreateOverlay(c)
      PROVE  Typed'
  <2>1. run[c] \in Runs /\ md[c] \in Metadata
    BY <1>11 DEF CreateOverlay, At, ControlOK, RunChosen
  <2>2. ControlOK'
    BY <1>11, <2>1, GotoControl DEF CreateOverlay, Labels
  <2> QED
    BY <1>11, <2>1, <2>2 DEF CreateOverlay, StateOK, filesVars, qemuVars,
       faultVars
<1>12. ASSUME NEW c \in Operators, Render(c)
      PROVE  Typed'
  <2>1. run[c] \in Runs /\ md[c] \in Metadata
    BY <1>12 DEF Render, At, ControlOK, RunChosen
  <2>2. [state |-> md[c].state, pid |-> md[c].pid, seed |-> TRUE] \in Metadata
    BY <2>1 DEF Metadata
  <2>3. ControlOK'
    BY <1>12, <2>1, <2>2, CarryControl DEF Render, Labels
  <2> QED
    BY <1>12, <2>1, <2>2, <2>3 DEF Render, StateOK, filesVars, qemuVars,
       faultVars
<1>13. ASSUME NEW c \in Operators, StageFails(c)
      PROVE  Typed'
  <2>1. run[c] \in Runs /\ md[c] \in Metadata
    BY <1>13 DEF StageFails, At, ControlOK, RunChosen
  <2>2. Mark(md[c], "failed", md[c].pid) \in Metadata
    BY <2>1, MarkType DEF Metadata, States
  <2>3. ControlOK'
    BY <1>13, <2>1, <2>2, CarryControl DEF StageFails, Failed, Labels
  <2> QED
    BY <1>13, <2>1, <2>2, <2>3 DEF StageFails, StateOK, filesVars, qemuVars,
       faultVars
<1>14. ASSUME NEW c \in Operators, StageAborts(c)
      PROVE  Typed'
  <2>1. ControlOK'
    BY <1>14, FinishControl DEF StageAborts
  <2> QED
    BY <1>14, <2>1 DEF StageAborts, StateOK, filesVars, qemuVars, faultVars
<1>15. ASSUME NEW c \in Operators, ReadPid(c)
      PROVE  Typed'
  <2>1. run[c] \in Runs /\ md[c] \in Metadata
    BY <1>15 DEF ReadPid, At, ControlOK, RunChosen
  <2>2. pidfile[run[c]] \in Pids \cup {NoPid}
    BY <2>1 DEF StateOK
  <2>3. /\ Mark(md[c], "failed", md[c].pid) \in Metadata
        /\ Mark(md[c], "running", pidfile[run[c]]) \in Metadata
    BY <2>1, <2>2, MarkType DEF Metadata, States
  <2>4. ControlOK'
    BY <1>15, <2>1, <2>2, <2>3, CarryControl, FinishControl DEF ReadPid,
       Failed, Labels
  <2> QED
    BY <1>15, <2>1, <2>2, <2>3, <2>4 DEF ReadPid, StateOK, filesVars,
       qemuVars, faultVars
<1>16. ASSUME NEW c \in Operators, Assess(c)
      PROVE  Typed'
  <2>1. run[c] \in Runs /\ md[c] \in Metadata
    BY <1>16 DEF Assess, At, ControlOK, RunChosen
  <2>2. ControlOK'
    BY <1>16, <2>1, GotoControl, CarryControl, RefreshType DEF Assess,
       Labels
  <2> QED
    BY <1>16, <2>1, <2>2 DEF Assess, StateOK, filesVars, qemuVars, faultVars
<1>17. ASSUME NEW c \in Operators, EachDone(c)
      PROVE  Typed'
  <2>1. ControlOK'
    BY <1>17, FinishControl DEF EachDone
  <2> QED
    BY <1>17, <2>1 DEF EachDone, StateOK, filesVars, qemuVars, faultVars
<1>18. ASSUME NEW c \in Operators, LoadFails(c)
      PROVE  Typed'
  <2>1. ControlOK'
    BY <1>18, FinishControl DEF LoadFails
  <2> QED
    BY <1>18, <2>1 DEF LoadFails, StateOK, filesVars, qemuVars, faultVars
<1>19. ASSUME NEW c \in Operators, LoadForStart(c)
      PROVE  Typed'
  <2>1. run[c] \in Runs
    BY <1>19 DEF LoadForStart, LoadedBy, At, ControlOK, RunChosen
  <2>2. Refresh(store[run[c]].md) \in Metadata
    BY <2>1, MdType, RefreshType DEF StateOK
  <2>3. ControlOK'
    BY <1>19, <2>1, <2>2, CarryControl, FinishControl DEF LoadForStart,
       Labels
  <2> QED
    BY <1>19, <2>1, <2>2, <2>3 DEF LoadForStart, LoadedBy, StateOK,
       filesVars, qemuVars, faultVars
<1>20. ASSUME NEW c \in Operators, LoadForStop(c)
      PROVE  Typed'
  <2>1. run[c] \in Runs
    BY <1>20 DEF LoadForStop, LoadedBy, At, ControlOK, RunChosen
  <2>2. Refresh(store[run[c]].md) \in Metadata
    BY <2>1, MdType, RefreshType DEF StateOK
  <2>3. Mark(Refresh(store[run[c]].md), "stopped", NoPid) \in Metadata
    BY <2>1, <2>2, MarkType DEF States
  <2>4. ControlOK'
    BY <1>20, <2>1, <2>2, <2>3, CarryControl, FinishControl DEF LoadForStop,
       Labels
  <2> QED
    BY <1>20, <2>1, <2>2, <2>3, <2>4 DEF LoadForStop, LoadedBy, StateOK,
       filesVars, qemuVars, faultVars
<1>21. ASSUME NEW c \in Operators, LoadForDestroy(c)
      PROVE  Typed'
  <2>1. run[c] \in Runs
    BY <1>21 DEF LoadForDestroy, LoadedBy, At, ControlOK, RunChosen
  <2>2. Refresh(store[run[c]].md) \in Metadata
    BY <2>1, MdType, RefreshType DEF StateOK
  <2>3. ControlOK'
    BY <1>21, <2>1, <2>2, CarryControl, FinishControl DEF LoadForDestroy,
       Labels
  <2> QED
    BY <1>21, <2>1, <2>2, <2>3 DEF LoadForDestroy, LoadedBy, StateOK,
       filesVars, qemuVars, faultVars
<1>22. ASSUME NEW c \in Operators, LoadForStatus(c)
      PROVE  Typed'
  <2>1. run[c] \in Runs
    BY <1>22 DEF LoadForStatus, LoadedBy, At, ControlOK, RunChosen
  <2>2. Refresh(store[run[c]].md) \in Metadata
    BY <2>1, MdType, RefreshType DEF StateOK
  <2>3. ControlOK'
    BY <1>22, <2>1, <2>2, CarryControl, FinishControl DEF LoadForStatus,
       Labels
  <2> QED
    BY <1>22, <2>1, <2>2, <2>3 DEF LoadForStatus, LoadedBy, StateOK,
       filesVars, qemuVars, faultVars
<1>23. ASSUME NEW c \in Operators, Powerdown(c)
      PROVE  Typed'
  <2>1. run[c] \in Runs /\ md[c] \in Metadata
    BY <1>23 DEF Powerdown, At, ControlOK, RunChosen
  <2>2. ControlOK'
    BY <1>23, <2>1, GotoControl DEF Powerdown, Labels
  <2> QED
    BY <1>23, <2>1, <2>2 DEF Powerdown, StateOK, filesVars, qemuVars,
       faultVars
<1>24. ASSUME NEW c \in Operators, Probe(c)
      PROVE  Typed'
  <2>1. run[c] \in Runs /\ md[c] \in Metadata
    BY <1>24 DEF Probe, At, ControlOK, RunChosen
  <2>2. Mark(md[c], "stopped", NoPid) \in Metadata
    BY <2>1, MarkType DEF States
  <2>3. ControlOK'
    BY <1>24, <2>1, <2>2, GotoControl, CarryControl DEF Probe, Stopped,
       Labels
  <2> QED
    BY <1>24, <2>1, <2>2, <2>3 DEF Probe, StateOK, filesVars, qemuVars,
       faultVars
<1>25. ASSUME NEW c \in Operators, Signal(c)
      PROVE  Typed'
  <2>1. run[c] \in Runs /\ md[c] \in Metadata
    BY <1>25 DEF Signal, At, ControlOK, RunChosen
  <2>2. Mark(md[c], "stopped", NoPid) \in Metadata
    BY <2>1, MarkType DEF States
  <2>3. ControlOK'
    BY <1>25, <2>1, <2>2, GotoControl, CarryControl, FinishControl DEF
       Signal, Stopped, Labels
  <2> QED
    BY <1>25, <2>1, <2>2, <2>3 DEF Signal, StateOK, filesVars, qemuVars,
       faultVars
<1>26. ASSUME NEW c \in Operators, RemoveFile(c)
      PROVE  Typed'
  <2>1. run[c] \in Runs /\ md[c] \in Metadata
    BY <1>26 DEF RemoveFile, At, ControlOK, RunChosen
  <2>2. ControlOK'
    BY <1>26, <2>1, GotoControl DEF RemoveFile, Labels
  <2> QED
    BY <1>26, <2>1, <2>2, FileOfType DEF RemoveFile, StateOK, filesVars,
       qemuVars, faultVars
<1>27. ASSUME NEW c \in Operators, RemoveDirs(c)
      PROVE  Typed'
  <2>1. run[c] \in Runs /\ md[c] \in Metadata
    BY <1>27 DEF RemoveDirs, At, ControlOK, RunChosen
  <2>2. ControlOK'
    BY <1>27, <2>1, GotoControl DEF RemoveDirs, Labels
  <2> QED
    BY <1>27, <2>1, <2>2 DEF RemoveDirs, StateOK, filesVars, qemuVars,
       faultVars
<1>28. ASSUME NEW c \in Operators, RemoveRoot(c)
      PROVE  Typed'
  <2>1. run[c] \in Runs /\ md[c] \in Metadata
    BY <1>28 DEF RemoveRoot, At, ControlOK, RunChosen
  <2>2. ControlOK'
    BY <1>28, <2>1, FinishControl DEF RemoveRoot
  <2> QED
    BY <1>28, <2>1, <2>2 DEF RemoveRoot, StateOK, filesVars, qemuVars,
       faultVars
<1>29. ASSUME NEW c \in Operators, RemoveFails(c)
      PROVE  Typed'
  <2>1. ControlOK'
    BY <1>29, FinishControl DEF RemoveFails
  <2> QED
    BY <1>29, <2>1 DEF RemoveFails, StateOK, filesVars, qemuVars, faultVars
<1>30. ASSUME NEW c \in Operators, Interrupt(c)
      PROVE  Typed'
  <2>1. ControlOK'
    BY <1>30, FinishControl DEF Interrupt
  <2>2. Exposed(c) => run[c] \in Runs
    BY DEF Exposed, At, ControlOK, RunChosen
  <2>3. cut' \subseteq Runs /\ cuts' \in 0..MaxCuts
    BY <1>30, <2>2, MaxCutsAssumption DEF Interrupt, Fault, StateOK
  <2> QED
    BY <1>30, <2>1, <2>3 DEF Interrupt, Fault, StateOK, qemuVars
<1>31. ASSUME NEW c \in Operators, SaveFails(c)
      PROVE  Typed'
  <2>1. ControlOK'
    BY <1>31, FinishControl, NextFileControl DEF SaveFails, AfterFailedSave
  <2>2. Exposed(c) => run[c] \in Runs
    BY DEF Exposed, At, ControlOK, RunChosen
  <2>3. cut' \subseteq Runs /\ cuts' \in 0..MaxCuts
    BY <1>31, <2>2, MaxCutsAssumption DEF SaveFails, Fault, StateOK
  <2> QED
    BY <1>31, <2>1, <2>3 DEF SaveFails, Fault, StateOK, qemuVars
<1>32. ASSUME NEW p \in Pids, Exit(p)
      PROVE  Typed'
  <2>1. ControlOK'
    BY <1>32 DEF Exit, ControlOK, RunChosen, opVars
  <2> QED
    BY <1>32, <2>1 DEF Exit, StateOK, filesVars, qemuVars, faultVars
<1>33. CASE UNCHANGED vars
  BY <1>33 DEF vars, ControlOK, StateOK, RunChosen, opVars, filesVars, qemuVars, faultVars
<1> QED
  BY <1>1, <1>2, <1>3, <1>4, <1>5, <1>6, <1>7, <1>8, <1>9, <1>10, <1>11,
     <1>12, <1>13, <1>14, <1>15, <1>16, <1>17, <1>18, <1>19, <1>20, <1>21,
     <1>22, <1>23, <1>24, <1>25, <1>26, <1>27, <1>28, <1>29, <1>30, <1>31,
     <1>32, <1>33 DEF Next, Begin, Step

\* Whatever the commands do and wherever they are cut short, in one terminal or
\* in several, every record, file, pid, scan and program counter keeps the
\* shape that TypeOK gives it (runs.py, models.py, cli.py).
THEOREM TypeCorrect == Spec => []TypeOK
<1>1. Spec => []Typed
  BY InitTyped, StepTyped, PTL DEF Spec
<1> QED BY <1>1, TypedImpliesTypeOK, PTL

-----------------------------------------------------------------------------
(***************************************************************************)
(* The records.  Whatever the commands do to each other, a record of a run *)
(* fits the run's process and files, for any number of operators, runs and *)
(* processes and however the commands overlap.                             *)
(***************************************************************************)
Good(m, r, own, dsk) ==
    /\ PidFits(m)
    /\ m.pid # NoPid => own[m.pid] = r
    /\ m.seed => dsk[r] \in {"seeded", "gone", "removed"}

StoreGood == \A r \in Runs : Good(store[r].md, r, owner, disk)

SeenGood == \A c \in Operators, r \in Runs : Good(seen[c][r].md, r, owner, disk)

\* A command that has not read the pidfile yet has a record without one.
HeldGood ==
    \A c \in Operators :
        /\ run[c] \in Runs => Good(md[c], run[c], owner, disk)
        /\ run[c] = NoRun => md[c] = InitMetadata
        /\ pc[c] \in {"overlay", "render", "launch", "readpid"} =>
              md[c].state # "running"

PidfileGood ==
    \A r \in Runs : pidfile[r] # NoPid => owner[pidfile[r]] = r

OwnerUsed == \A p \in Pids : owner[p] \in Runs <=> vm[p] # "unused"

RecordsGood == StoreGood /\ SeenGood /\ HeldGood /\ PidfileGood /\ OwnerUsed

RecordInv == Typed /\ RecordsGood

\* A process keeps its run, and artifacts once built are lost to destroy only.
Grows ==
    /\ \A p \in Pids : owner[p] \in Runs => owner'[p] = owner[p]
    /\ \A r \in Runs : disk[r] \in {"seeded", "gone", "removed"} =>
                          disk'[r] \in {"seeded", "gone", "removed"}

LEMMA GoodStays ==
    ASSUME NEW m \in Metadata, NEW r \in Runs, Grows, Good(m, r, owner, disk)
    PROVE  Good(m, r, owner', disk')
BY DEF Good, Grows, Metadata

LEMMA GoodInit ==
    ASSUME NEW r, NEW own, NEW dsk PROVE Good(InitMetadata, r, own, dsk)
BY DEF Good, InitMetadata, PidFits

LEMMA GoodMark ==
    ASSUME NEW m \in Metadata, NEW r, NEW own, NEW dsk,
           Good(m, r, own, dsk), NEW s \in States \ {"running"}
    PROVE  Good(Mark(m, s, NoPid), r, own, dsk)
BY DEF Good, Mark, PidFits, States

LEMMA GoodRefresh ==
    ASSUME NEW m \in Metadata, NEW r, NEW own, NEW dsk, Good(m, r, own, dsk)
    PROVE  Good(Refresh(m), r, own, dsk)
BY GoodMark DEF Refresh, States

LEMMA InitRecords == Init => RecordsGood
BY GoodInit, NoRunAssumption
   DEF Init, RecordsGood, StoreGood, SeenGood, HeldGood, PidfileGood, OwnerUsed,
       NothingSeen, FileOf

LEMMA MdOfFileOf == ASSUME NEW f PROVE FileOf(f).md = InitMetadata
BY DEF FileOf

LEMMA MdOfJson == ASSUME NEW m PROVE JsonFile(m).md = m
BY DEF JsonFile

PreLaunch == {"overlay", "render", "launch", "readpid"}

LEMMA GotoHeld ==
    ASSUME Typed, HeldGood, Grows, NEW c \in Operators, NEW l \in Labels,
           l \in PreLaunch => md[c].state # "running",
           Goto(c, l)
    PROVE  HeldGood'
BY GoodStays, NoRunAssumption DEF HeldGood, Goto, Typed, ControlOK, PreLaunch

LEMMA CarryHeld ==
    ASSUME Typed, HeldGood, Grows, NEW c \in Operators, NEW l \in Labels,
           NEW m \in Metadata, run[c] \in Runs,
           Good(m, run[c], owner, disk) \/ Good(m, run[c], owner', disk'),
           l \in PreLaunch => m.state # "running",
           Carry(c, m, l)
    PROVE  HeldGood'
BY GoodStays, NoRunAssumption DEF HeldGood, Carry, Typed, ControlOK, PreLaunch

LEMMA TurnHeld ==
    ASSUME Typed, HeldGood, Grows, NEW c \in Operators,
           NEW l \in Labels \ PreLaunch,
           NEW r \in Runs \cup {NoRun}, NEW m \in Metadata,
           IF r = NoRun THEN m = InitMetadata ELSE Good(m, r, owner, disk),
           Turn(c, r, m, l)
    PROVE  HeldGood'
BY GoodStays, NoRunAssumption DEF HeldGood, Turn, Typed, ControlOK, PreLaunch

LEMMA EnterHeld ==
    ASSUME Typed, HeldGood, Grows, NEW c \in Operators,
           NEW l \in {"idle", "scan", "load"}, NEW k, NEW r, NEW f,
           Enter(c, l, k, r, f)
    PROVE  HeldGood'
BY GoodStays, GoodInit, NoRunAssumption DEF HeldGood, Enter, Typed, ControlOK

LEMMA FinishHeld ==
    ASSUME Typed, HeldGood, Grows, NEW c \in Operators, Finish(c)
    PROVE  HeldGood'
BY EnterHeld DEF Finish

LEMMA NextFileHeld ==
    ASSUME Typed, HeldGood, Grows, NEW c \in Operators, NextFile(c)
    PROVE  HeldGood'
BY TurnHeld, InitMetadataType DEF NextFile, Labels, PreLaunch

LEMMA SeenStays ==
    ASSUME Typed, SeenGood, Grows,
           \/ seen' = seen
           \/ \E c \in Operators : seen' = [seen EXCEPT ![c] = NothingSeen]
    PROVE  SeenGood'
<1>1. \A c \in Operators, r \in Runs : seen[c][r].md \in Metadata
  BY MdType DEF Typed, ControlOK
<1>2. \A r \in Runs : NothingSeen[r].md = InitMetadata
  BY MdOfFileOf DEF NothingSeen
<1>3. \A c \in Operators, r \in Runs :
          \/ seen'[c][r].md = seen[c][r].md
          \/ seen'[c][r].md = InitMetadata
  BY <1>2 DEF Typed, ControlOK
<1> QED BY <1>1, <1>3, GoodStays, GoodInit DEF SeenGood

\* A step that changes no record and no process, and takes no artifact away
\* but to remove it.
LEMMA DiskStep ==
    ASSUME RecordInv, Grows, UNCHANGED <<store, qemuVars>>,
           \/ seen' = seen
           \/ \E c \in Operators : seen' = [seen EXCEPT ![c] = NothingSeen]
    PROVE  StoreGood' /\ SeenGood' /\ PidfileGood' /\ OwnerUsed'
<1>1. \A r \in Runs : store[r].md \in Metadata
  BY MdType DEF RecordInv, Typed, StateOK
<1>2. StoreGood'
  BY <1>1, GoodStays DEF RecordInv, RecordsGood, StoreGood
<1>3. PidfileGood' /\ OwnerUsed'
  BY DEF RecordInv, RecordsGood, PidfileGood, OwnerUsed, qemuVars
<1>4. SeenGood'
  BY SeenStays DEF RecordInv, RecordsGood
<1> QED BY <1>2, <1>3, <1>4

\* Most steps only move a command: the files, the processes and what the
\* records are about stay as they are.
LEMMA QuietStep ==
    ASSUME RecordInv, UNCHANGED <<store, disk, qemuVars>>,
           \/ seen' = seen
           \/ \E c \in Operators : seen' = [seen EXCEPT ![c] = NothingSeen]
    PROVE  Grows /\ StoreGood' /\ SeenGood' /\ PidfileGood' /\ OwnerUsed'
<1>1. Grows
  BY DEF Grows, qemuVars
<1> QED BY <1>1, DiskStep

LEMMA StepRecords ==
    ASSUME RecordInv, [Next]_vars PROVE RecordsGood'
<1> USE DEF RecordInv, Typed
<1>0. Typed'
  BY StepTyped
<1>a. /\ \A r \in Runs : store[r].md \in Metadata
      /\ \A c \in Operators, r \in Runs : seen[c][r].md \in Metadata
      /\ \A c \in Operators : md[c] \in Metadata
  BY MdType DEF Typed, StateOK, ControlOK
<1>1. ASSUME NEW c \in Operators, NEW k \in Commands, NEW r \in Runs \cup {NoRun}, BeginScan(c, k, r)
      PROVE  RecordsGood'
  <2>1. Grows /\ StoreGood' /\ SeenGood' /\ PidfileGood' /\ OwnerUsed'
    BY <1>1, QuietStep DEF BeginScan, Goto, Carry, Turn, Enter, Finish,
       filesVars
  <2>2. HeldGood'
    BY <1>1, <2>1, <1>a, EnterHeld DEF BeginScan, RecordsGood
  <2> QED
    BY <2>1, <2>2 DEF RecordsGood
<1>2. ASSUME NEW c \in Operators, NEW k \in Commands, NEW r \in Runs, BeginLoad(c, k, r)
      PROVE  RecordsGood'
  <2>1. Grows /\ StoreGood' /\ SeenGood' /\ PidfileGood' /\ OwnerUsed'
    BY <1>2, QuietStep DEF BeginLoad, Goto, Carry, Turn, Enter, Finish,
       filesVars
  <2>2. HeldGood'
    BY <1>2, <2>1, <1>a, EnterHeld DEF BeginLoad, RecordsGood
  <2> QED
    BY <2>1, <2>2 DEF RecordsGood
<1>3. ASSUME NEW c \in Operators, NEW r \in Runs, Scan(c, r)
      PROVE  RecordsGood'
  <2>1. Grows
    BY <1>3 DEF Scan, Grows, qemuVars
  <2>2. StoreGood'
    BY <1>3, <1>a, <2>1, GoodStays DEF Scan, RecordsGood, StoreGood,
       filesVars
  <2>3. SeenGood'
    BY <1>3, <1>a, <2>1, GoodStays, MdOfFileOf, GoodInit DEF Scan,
       RecordsGood, StoreGood, SeenGood, StateOK, ControlOK
  <2>4. HeldGood'
    BY <1>3, <1>a, <2>1, GoodStays DEF Scan, RecordsGood, HeldGood,
       ControlOK, opVars
  <2>5. PidfileGood' /\ OwnerUsed'
    BY <1>3, <2>1, NoRunAssumption DEF Scan, RecordsGood, PidfileGood,
       OwnerUsed, Grows, StateOK, ControlOK, RunChosen, At, Alive, qemuVars
  <2> QED
    BY <2>2, <2>3, <2>4, <2>5 DEF RecordsGood
<1>4. ASSUME NEW c \in Operators, NEW r \in Runs, MakeRun(c, r)
      PROVE  RecordsGood'
  <2>1. Grows
    BY <1>4 DEF MakeRun, Grows, StateOK, qemuVars
  <2>2. StoreGood'
    BY <1>4, <1>a, <2>1, GoodStays DEF MakeRun, RecordsGood, StoreGood,
       filesVars
  <2>3. SeenGood'
    BY <1>4, <2>1, SeenStays DEF MakeRun, RecordsGood, Goto, Carry, Turn,
       Enter, Finish, opVars
  <2>4. HeldGood'
    BY <1>4, <2>1, <1>a, TurnHeld, InitMetadataType, GoodInit DEF MakeRun,
       Labels, PreLaunch, RecordsGood
  <2>5. PidfileGood' /\ OwnerUsed'
    BY <1>4, <2>1, NoRunAssumption DEF MakeRun, RecordsGood, PidfileGood,
       OwnerUsed, Grows, StateOK, ControlOK, RunChosen, At, Alive, qemuVars
  <2> QED
    BY <2>2, <2>3, <2>4, <2>5 DEF RecordsGood
<1>5. ASSUME NEW c \in Operators, NEW r \in Runs, Each(c, r)
      PROVE  RecordsGood'
  <2>1. Grows
    BY <1>5 DEF Each, Grows, qemuVars
  <2>2. StoreGood'
    BY <1>5, <1>a, <2>1, GoodStays DEF Each, RecordsGood, StoreGood,
       filesVars
  <2>3. SeenGood'
    BY <1>5, <1>a, <2>1, GoodStays, MdOfFileOf, GoodInit DEF Each,
       RecordsGood, StoreGood, SeenGood, StateOK, ControlOK
  <2>4. seen[c][r].md \in Metadata /\ Good(seen[c][r].md, r, owner, disk)
    BY <1>a DEF RecordsGood, SeenGood
  <2>5. /\ Refresh(seen[c][r].md) \in Metadata
        /\ Good(Refresh(seen[c][r].md), r, owner, disk)
    BY <2>4, RefreshType, GoodRefresh
  <2>6. HeldGood'
    BY <1>5, <2>1, <1>a, <2>4, <2>5, TurnHeld, NoRunAssumption DEF Each,
       Labels, PreLaunch, RecordsGood
  <2>7. PidfileGood' /\ OwnerUsed'
    BY <1>5, <2>1, NoRunAssumption DEF Each, RecordsGood, PidfileGood,
       OwnerUsed, Grows, StateOK, ControlOK, RunChosen, At, Alive, qemuVars
  <2> QED
    BY <2>2, <2>3, <2>6, <2>7 DEF RecordsGood
<1>6. ASSUME NEW c \in Operators, NEW p \in Pids, Launch(c, p)
      PROVE  RecordsGood'
  <2>1. Grows
    BY <1>6 DEF Launch, Grows, RecordsGood, OwnerUsed, Typed, ControlOK,
       StateOK, qemuVars
  <2>2. StoreGood'
    BY <1>6, <1>a, <2>1, GoodStays DEF Launch, RecordsGood, StoreGood,
       filesVars
  <2>3. SeenGood'
    BY <1>6, <2>1, SeenStays DEF Launch, RecordsGood, Goto, Carry, Turn,
       Enter, Finish, opVars
  <2>4. md[c].state # "running"
    BY <1>6 DEF Launch, At, RecordsGood, HeldGood
  <2>5. HeldGood'
    BY <1>6, <2>1, <1>a, <2>4, GotoHeld DEF Launch, Labels, RecordsGood
  <2>6a. run[c] \in Runs
    BY <1>6 DEF Launch, At, ControlOK, RunChosen
  <2>6b. PidfileGood'
    BY <1>6, <2>1, <2>6a DEF Launch, RecordsGood, PidfileGood, OwnerUsed,
       Grows, StateOK
  <2>6c. OwnerUsed'
    BY <1>6, <2>6a DEF Launch, RecordsGood, OwnerUsed, StateOK
  <2>6. PidfileGood' /\ OwnerUsed'
    BY <2>6b, <2>6c
  <2> QED
    BY <2>2, <2>3, <2>5, <2>6 DEF RecordsGood
<1>7. ASSUME NEW c \in Operators, ScanDone(c)
      PROVE  RecordsGood'
  <2>1. Grows /\ StoreGood' /\ SeenGood' /\ PidfileGood' /\ OwnerUsed'
    BY <1>7, QuietStep DEF ScanDone, Goto, Carry, Turn, Enter, Finish,
       filesVars
  <2>2. HeldGood'
    BY <1>7, <2>1, <1>a, GotoHeld, FinishHeld DEF ScanDone, Labels,
       PreLaunch, RecordsGood
  <2> QED
    BY <2>1, <2>2 DEF RecordsGood
<1>8. ASSUME NEW c \in Operators, OpenMeta(c)
      PROVE  RecordsGood'
  <2>1. Grows
    BY <1>8 DEF OpenMeta, Grows, StateOK, qemuVars
  <2>2. StoreGood'
    <3>1. \A r \in Runs : store'[r].md = store[r].md \/ store'[r].md = InitMetadata
      BY <1>8, MdOfFileOf DEF OpenMeta, StateOK
    <3> QED
      BY <1>a, <2>1, <3>1, GoodStays, GoodInit DEF RecordsGood, StoreGood
  <2>3. SeenGood'
    BY <1>8, <2>1, SeenStays DEF OpenMeta, RecordsGood, Goto, Carry, Turn,
       Enter, Finish, opVars
  <2>4. HeldGood'
    BY <1>8, <2>1, <1>a, GotoHeld DEF OpenMeta, Labels, PreLaunch,
       RecordsGood
  <2>5. PidfileGood' /\ OwnerUsed'
    BY <1>8, <2>1, NoRunAssumption DEF OpenMeta, RecordsGood, PidfileGood,
       OwnerUsed, Grows, StateOK, ControlOK, RunChosen, At, Alive, qemuVars
  <2> QED
    BY <2>2, <2>3, <2>4, <2>5 DEF RecordsGood
<1>9. ASSUME NEW c \in Operators, WriteMeta(c)
      PROVE  RecordsGood'
  <2>1. Grows
    BY <1>9 DEF WriteMeta, Grows, qemuVars
  <2>2. StoreGood'
    <3>1. run[c] \in Runs
      BY <1>9 DEF WriteMeta, At, ControlOK, RunChosen
    <3>2. store'[run[c]].md \in {store[run[c]].md, InitMetadata, md[c]}
      BY <1>9, <3>1, MdOfFileOf, MdOfJson DEF WriteMeta, Written, StateOK
    <3>3. \A r \in Runs \ {run[c]} : store'[r] = store[r]
      BY <1>9, <3>1 DEF WriteMeta, StateOK
    <3>4. Good(md[c], run[c], owner, disk)
      BY <3>1 DEF RecordsGood, HeldGood
    <3> QED
      BY <1>a, <2>1, <3>1, <3>2, <3>3, <3>4, GoodStays, GoodInit DEF RecordsGood, StoreGood
  <2>3. SeenGood'
    BY <1>9, <2>1, SeenStays DEF WriteMeta, AfterSave, NextFile,
       RecordsGood, Goto, Carry, Turn, Enter, Finish, opVars
  <2>4. HeldGood'
    BY <1>9, <2>1, <1>a, GotoHeld, FinishHeld, NextFileHeld DEF WriteMeta,
       AfterSave, Labels, PreLaunch, RecordsGood
  <2>5. PidfileGood' /\ OwnerUsed'
    BY <1>9, <2>1, NoRunAssumption DEF WriteMeta, RecordsGood, PidfileGood,
       OwnerUsed, Grows, StateOK, ControlOK, RunChosen, At, Alive, qemuVars
  <2> QED
    BY <2>2, <2>3, <2>4, <2>5 DEF RecordsGood
<1>10. ASSUME NEW c \in Operators, MakeRunFails(c)
      PROVE  RecordsGood'
  <2>1. Grows
    BY <1>10 DEF MakeRunFails, Grows, StateOK, qemuVars
  <2>2. StoreGood' /\ SeenGood' /\ PidfileGood' /\ OwnerUsed'
    BY <1>10, <2>1, DiskStep DEF MakeRunFails, Finish, Enter, filesVars
  <2>3. HeldGood'
    BY <1>10, <2>1, <1>a, FinishHeld DEF MakeRunFails, RecordsGood
  <2> QED
    BY <2>2, <2>3 DEF RecordsGood
<1>11. ASSUME NEW c \in Operators, CreateOverlay(c)
      PROVE  RecordsGood'
  <2>1. Grows
    BY <1>11 DEF CreateOverlay, Grows, StateOK, qemuVars
  <2>2. StoreGood'
    BY <1>11, <1>a, <2>1, GoodStays DEF CreateOverlay, RecordsGood,
       StoreGood, filesVars
  <2>3. SeenGood'
    BY <1>11, <2>1, SeenStays DEF CreateOverlay, RecordsGood, Goto, Carry,
       Turn, Enter, Finish, opVars
  <2>4. md[c].state # "running"
    BY <1>11 DEF CreateOverlay, At, RecordsGood, HeldGood
  <2>5. HeldGood'
    BY <1>11, <2>1, <1>a, <2>4, GotoHeld DEF CreateOverlay, Labels,
       RecordsGood
  <2>6. PidfileGood' /\ OwnerUsed'
    BY <1>11, <2>1, NoRunAssumption DEF CreateOverlay, RecordsGood,
       PidfileGood, OwnerUsed, Grows, StateOK, ControlOK, RunChosen, At,
       Alive, qemuVars
  <2> QED
    BY <2>2, <2>3, <2>5, <2>6 DEF RecordsGood
<1>12. ASSUME NEW c \in Operators, Render(c)
      PROVE  RecordsGood'
  <2>1. Grows
    BY <1>12 DEF Render, Grows, StateOK, qemuVars
  <2>2. StoreGood'
    BY <1>12, <1>a, <2>1, GoodStays DEF Render, RecordsGood, StoreGood,
       filesVars
  <2>3. SeenGood'
    BY <1>12, <2>1, SeenStays DEF Render, RecordsGood, Goto, Carry, Turn,
       Enter, Finish, opVars
  <2>4. run[c] \in Runs
    BY <1>12 DEF Render, At, ControlOK, RunChosen
  <2>5. Good(md[c], run[c], owner, disk)
    BY <2>4 DEF RecordsGood, HeldGood
  <2>6. md[c].state # "running"
    BY <1>12 DEF Render, At, RecordsGood, HeldGood
  <2>7. LET m == [state |-> md[c].state, pid |-> md[c].pid, seed |-> TRUE]
        IN  /\ m \in Metadata
            /\ m.state # "running"
            /\ Good(m, run[c], owner', disk')
    BY <1>12, <2>4, <2>5, <2>6, <1>a DEF Render, Metadata, Good, PidFits,
       StateOK, qemuVars
  <2>8. HeldGood'
    BY <1>12, <2>1, <1>a, <2>4, <2>5, <2>6, <2>7, CarryHeld DEF Render,
       Labels, RecordsGood
  <2>9. PidfileGood' /\ OwnerUsed'
    BY <1>12, <2>1, NoRunAssumption DEF Render, RecordsGood, PidfileGood,
       OwnerUsed, Grows, StateOK, ControlOK, RunChosen, At, Alive, qemuVars
  <2> QED
    BY <2>2, <2>3, <2>8, <2>9 DEF RecordsGood
<1>13. ASSUME NEW c \in Operators, StageFails(c)
      PROVE  RecordsGood'
  <2>1. Grows /\ StoreGood' /\ SeenGood' /\ PidfileGood' /\ OwnerUsed'
    BY <1>13, QuietStep DEF StageFails, Failed, Goto, Carry, Turn, Enter,
       Finish, filesVars
  <2>2. run[c] \in Runs
    BY <1>13 DEF StageFails, At, ControlOK, RunChosen
  <2>3. Good(md[c], run[c], owner, disk)
    BY <2>2 DEF RecordsGood, HeldGood
  <2>4. md[c].state # "running" /\ md[c].pid = NoPid
    BY <1>13, <2>2, <2>3 DEF StageFails, At, RecordsGood, HeldGood, Good,
       PidFits
  <2>5. /\ Mark(md[c], "failed", NoPid) \in Metadata
        /\ Good(Mark(md[c], "failed", NoPid), run[c], owner, disk)
    BY <2>2, <2>3, <2>4, <1>a, MarkType, GoodMark DEF States
  <2>6. HeldGood'
    BY <1>13, <2>1, <1>a, <2>2, <2>3, <2>4, <2>5, CarryHeld DEF StageFails,
       Failed, Labels, PreLaunch, RecordsGood
  <2> QED
    BY <2>1, <2>6 DEF RecordsGood
<1>14. ASSUME NEW c \in Operators, StageAborts(c)
      PROVE  RecordsGood'
  <2>1. Grows /\ StoreGood' /\ SeenGood' /\ PidfileGood' /\ OwnerUsed'
    BY <1>14, QuietStep DEF StageAborts, Goto, Carry, Turn, Enter, Finish,
       filesVars
  <2>2. HeldGood'
    BY <1>14, <2>1, <1>a, FinishHeld DEF StageAborts, RecordsGood
  <2> QED
    BY <2>1, <2>2 DEF RecordsGood
<1>15. ASSUME NEW c \in Operators, ReadPid(c)
      PROVE  RecordsGood'
  <2>1. Grows /\ StoreGood' /\ SeenGood' /\ PidfileGood' /\ OwnerUsed'
    BY <1>15, QuietStep DEF ReadPid, Failed, Goto, Carry, Turn, Enter,
       Finish, filesVars
  <2>2. run[c] \in Runs
    BY <1>15 DEF ReadPid, At, ControlOK, RunChosen
  <2>3. Good(md[c], run[c], owner, disk)
    BY <2>2 DEF RecordsGood, HeldGood
  <2>4. md[c].state # "running" /\ md[c].pid = NoPid
    BY <1>15, <2>2, <2>3 DEF ReadPid, At, RecordsGood, HeldGood, Good,
       PidFits
  <2>5. /\ Mark(md[c], "failed", NoPid) \in Metadata
        /\ Good(Mark(md[c], "failed", NoPid), run[c], owner, disk)
    BY <2>2, <2>3, <2>4, <1>a, MarkType, GoodMark DEF States
  <2>6. pidfile[run[c]] # NoPid =>
          LET m == Mark(md[c], "running", pidfile[run[c]])
          IN  m \in Metadata /\ Good(m, run[c], owner, disk)
    BY <2>2, <2>3, <2>4, <2>5, <1>a, MarkType DEF Mark, States, StateOK,
       Good, PidFits, RecordsGood, PidfileGood
  <2>7. HeldGood'
    BY <1>15, <2>1, <1>a, <2>2, <2>3, <2>4, <2>5, <2>6, CarryHeld, FinishHeld DEF
       ReadPid, Failed, Labels, PreLaunch, RecordsGood
  <2> QED
    BY <2>1, <2>7 DEF RecordsGood
<1>16. ASSUME NEW c \in Operators, Assess(c)
      PROVE  RecordsGood'
  <2>1. Grows /\ StoreGood' /\ SeenGood' /\ PidfileGood' /\ OwnerUsed'
    BY <1>16, QuietStep DEF Assess, Goto, Carry, Turn, Enter, Finish,
       filesVars
  <2>2. run[c] \in Runs
    BY <1>16 DEF Assess, At, ControlOK, RunChosen
  <2>3. Good(md[c], run[c], owner, disk)
    BY <2>2 DEF RecordsGood, HeldGood
  <2>4. /\ Refresh(md[c]) \in Metadata
        /\ Good(Refresh(md[c]), run[c], owner, disk)
    BY <2>2, <2>3, <1>a, RefreshType, GoodRefresh
  <2>5. HeldGood'
    BY <1>16, <2>1, <1>a, <2>2, <2>3, <2>4, GotoHeld, CarryHeld DEF Assess,
       Labels, PreLaunch, RecordsGood
  <2> QED
    BY <2>1, <2>5 DEF RecordsGood
<1>17. ASSUME NEW c \in Operators, EachDone(c)
      PROVE  RecordsGood'
  <2>1. Grows /\ StoreGood' /\ SeenGood' /\ PidfileGood' /\ OwnerUsed'
    BY <1>17, QuietStep DEF EachDone, Goto, Carry, Turn, Enter, Finish,
       filesVars
  <2>2. HeldGood'
    BY <1>17, <2>1, <1>a, FinishHeld DEF EachDone, RecordsGood
  <2> QED
    BY <2>1, <2>2 DEF RecordsGood
<1>18. ASSUME NEW c \in Operators, LoadFails(c)
      PROVE  RecordsGood'
  <2>1. Grows /\ StoreGood' /\ SeenGood' /\ PidfileGood' /\ OwnerUsed'
    BY <1>18, QuietStep DEF LoadFails, Goto, Carry, Turn, Enter, Finish,
       filesVars
  <2>2. HeldGood'
    BY <1>18, <2>1, <1>a, FinishHeld DEF LoadFails, RecordsGood
  <2> QED
    BY <2>1, <2>2 DEF RecordsGood
<1>19. ASSUME NEW c \in Operators, LoadForStart(c)
      PROVE  RecordsGood'
  <2>1. Grows /\ StoreGood' /\ SeenGood' /\ PidfileGood' /\ OwnerUsed'
    BY <1>19, QuietStep DEF LoadForStart, LoadedBy, Goto, Carry, Turn,
       Enter, Finish, filesVars
  <2>2. run[c] \in Runs
    BY <1>19 DEF LoadForStart, LoadedBy, At, ControlOK, RunChosen
  <2>3. Good(store[run[c]].md, run[c], owner, disk)
    BY <2>2 DEF RecordsGood, StoreGood
  <2>4. /\ Refresh(store[run[c]].md) \in Metadata
        /\ Good(Refresh(store[run[c]].md), run[c], owner, disk)
    BY <2>2, <2>3, <1>a, RefreshType, GoodRefresh
  <2>5. HeldGood'
    BY <1>19, <2>1, <1>a, <2>2, <2>3, <2>4, CarryHeld, FinishHeld DEF
       LoadForStart, Labels, RecordsGood
  <2> QED
    BY <2>1, <2>5 DEF RecordsGood
<1>20. ASSUME NEW c \in Operators, LoadForStop(c)
      PROVE  RecordsGood'
  <2>1. Grows /\ StoreGood' /\ SeenGood' /\ PidfileGood' /\ OwnerUsed'
    BY <1>20, QuietStep DEF LoadForStop, LoadedBy, Goto, Carry, Turn, Enter,
       Finish, filesVars
  <2>2. run[c] \in Runs
    BY <1>20 DEF LoadForStop, LoadedBy, At, ControlOK, RunChosen
  <2>3. Good(store[run[c]].md, run[c], owner, disk)
    BY <2>2 DEF RecordsGood, StoreGood
  <2>4. /\ Refresh(store[run[c]].md) \in Metadata
        /\ Good(Refresh(store[run[c]].md), run[c], owner, disk)
    BY <2>2, <2>3, <1>a, RefreshType, GoodRefresh
  <2>5. /\ Mark(Refresh(store[run[c]].md), "stopped", NoPid) \in Metadata
        /\ Good(Mark(Refresh(store[run[c]].md), "stopped", NoPid), run[c], owner, disk)
    BY <2>2, <2>3, <2>4, <1>a, MarkType, GoodMark DEF States
  <2>6. HeldGood'
    BY <1>20, <2>1, <1>a, <2>2, <2>3, <2>4, <2>5, CarryHeld DEF LoadForStop,
       Labels, PreLaunch, RecordsGood
  <2> QED
    BY <2>1, <2>6 DEF RecordsGood
<1>21. ASSUME NEW c \in Operators, LoadForDestroy(c)
      PROVE  RecordsGood'
  <2>1. Grows /\ StoreGood' /\ SeenGood' /\ PidfileGood' /\ OwnerUsed'
    BY <1>21, QuietStep DEF LoadForDestroy, LoadedBy, Goto, Carry, Turn,
       Enter, Finish, filesVars
  <2>2. run[c] \in Runs
    BY <1>21 DEF LoadForDestroy, LoadedBy, At, ControlOK, RunChosen
  <2>3. Good(store[run[c]].md, run[c], owner, disk)
    BY <2>2 DEF RecordsGood, StoreGood
  <2>4. /\ Refresh(store[run[c]].md) \in Metadata
        /\ Good(Refresh(store[run[c]].md), run[c], owner, disk)
    BY <2>2, <2>3, <1>a, RefreshType, GoodRefresh
  <2>5. HeldGood'
    BY <1>21, <2>1, <1>a, <2>2, <2>3, <2>4, CarryHeld DEF LoadForDestroy,
       Labels, PreLaunch, RecordsGood
  <2> QED
    BY <2>1, <2>5 DEF RecordsGood
<1>22. ASSUME NEW c \in Operators, LoadForStatus(c)
      PROVE  RecordsGood'
  <2>1. Grows /\ StoreGood' /\ SeenGood' /\ PidfileGood' /\ OwnerUsed'
    BY <1>22, QuietStep DEF LoadForStatus, LoadedBy, Goto, Carry, Turn,
       Enter, Finish, filesVars
  <2>2. run[c] \in Runs
    BY <1>22 DEF LoadForStatus, LoadedBy, At, ControlOK, RunChosen
  <2>3. Good(store[run[c]].md, run[c], owner, disk)
    BY <2>2 DEF RecordsGood, StoreGood
  <2>4. /\ Refresh(store[run[c]].md) \in Metadata
        /\ Good(Refresh(store[run[c]].md), run[c], owner, disk)
    BY <2>2, <2>3, <1>a, RefreshType, GoodRefresh
  <2>5. HeldGood'
    BY <1>22, <2>1, <1>a, <2>2, <2>3, <2>4, CarryHeld DEF LoadForStatus,
       Labels, PreLaunch, RecordsGood
  <2> QED
    BY <2>1, <2>5 DEF RecordsGood
<1>23. ASSUME NEW c \in Operators, Powerdown(c)
      PROVE  RecordsGood'
  <2>1. Grows /\ StoreGood' /\ SeenGood' /\ PidfileGood' /\ OwnerUsed'
    BY <1>23, QuietStep DEF Powerdown, Goto, Carry, Turn, Enter, Finish,
       filesVars
  <2>2. HeldGood'
    BY <1>23, <2>1, <1>a, GotoHeld DEF Powerdown, Labels, PreLaunch,
       RecordsGood
  <2> QED
    BY <2>1, <2>2 DEF RecordsGood
<1>24. ASSUME NEW c \in Operators, Probe(c)
      PROVE  RecordsGood'
  <2>1. Grows /\ StoreGood' /\ SeenGood' /\ PidfileGood' /\ OwnerUsed'
    BY <1>24, QuietStep DEF Probe, Stopped, Goto, Carry, Turn, Enter,
       Finish, filesVars
  <2>2. run[c] \in Runs
    BY <1>24 DEF Probe, At, ControlOK, RunChosen
  <2>3. Good(md[c], run[c], owner, disk)
    BY <2>2 DEF RecordsGood, HeldGood
  <2>4. /\ Mark(md[c], "stopped", NoPid) \in Metadata
        /\ Good(Mark(md[c], "stopped", NoPid), run[c], owner, disk)
    BY <2>2, <2>3, <1>a, MarkType, GoodMark DEF States
  <2>5. HeldGood'
    BY <1>24, <2>1, <1>a, <2>2, <2>3, <2>4, GotoHeld, CarryHeld DEF Probe,
       Stopped, Labels, PreLaunch, RecordsGood
  <2> QED
    BY <2>1, <2>5 DEF RecordsGood
<1>25. ASSUME NEW c \in Operators, Signal(c)
      PROVE  RecordsGood'
  <2>1. Grows
    BY <1>25 DEF Signal, Grows, StateOK, qemuVars
  <2>2. StoreGood'
    BY <1>25, <1>a, <2>1, GoodStays DEF Signal, RecordsGood, StoreGood,
       filesVars
  <2>3. SeenGood'
    BY <1>25, <2>1, SeenStays DEF Signal, Stopped, RecordsGood, Goto, Carry,
       Turn, Enter, Finish, opVars
  <2>4. run[c] \in Runs
    BY <1>25 DEF Signal, At, ControlOK, RunChosen
  <2>5. Good(md[c], run[c], owner, disk)
    BY <2>4 DEF RecordsGood, HeldGood
  <2>6. /\ Mark(md[c], "stopped", NoPid) \in Metadata
        /\ Good(Mark(md[c], "stopped", NoPid), run[c], owner, disk)
    BY <2>4, <2>5, <1>a, MarkType, GoodMark DEF States
  <2>7. HeldGood'
    BY <1>25, <2>1, <1>a, <2>4, <2>5, <2>6, GotoHeld, CarryHeld, FinishHeld
       DEF Signal, Stopped, Labels, PreLaunch, RecordsGood
  <2>8. PidfileGood' /\ OwnerUsed'
    BY <1>25, <2>1, NoRunAssumption DEF Signal, RecordsGood, PidfileGood,
       OwnerUsed, Grows, StateOK, ControlOK, RunChosen, At, Alive, qemuVars
  <2> QED
    BY <2>2, <2>3, <2>7, <2>8 DEF RecordsGood
<1>26. ASSUME NEW c \in Operators, RemoveFile(c)
      PROVE  RecordsGood'
  <2>1. Grows
    BY <1>26 DEF RemoveFile, Grows, qemuVars
  <2>2. StoreGood'
    BY <1>26, <1>a, <2>1, GoodStays, MdOfFileOf, MdOfJson, GoodInit DEF
       RemoveFile, RecordsGood, StoreGood, HeldGood, StateOK, ControlOK,
       RunChosen, At, qemuVars
  <2>3. SeenGood'
    BY <1>26, <2>1, SeenStays DEF RemoveFile, RecordsGood, Goto, Carry,
       Turn, Enter, Finish, opVars
  <2>4. HeldGood'
    BY <1>26, <2>1, <1>a, GotoHeld DEF RemoveFile, Labels, PreLaunch,
       RecordsGood
  <2>5. PidfileGood' /\ OwnerUsed'
    BY <1>26, <2>1, NoRunAssumption DEF RemoveFile, RecordsGood,
       PidfileGood, OwnerUsed, Grows, StateOK, ControlOK, RunChosen, At,
       Alive, qemuVars
  <2> QED
    BY <2>2, <2>3, <2>4, <2>5 DEF RecordsGood
<1>27. ASSUME NEW c \in Operators, RemoveDirs(c)
      PROVE  RecordsGood'
  <2>1. Grows
    BY <1>27 DEF RemoveDirs, Grows, StateOK, qemuVars
  <2>2. StoreGood'
    BY <1>27, <1>a, <2>1, GoodStays DEF RemoveDirs, RecordsGood, StoreGood,
       filesVars
  <2>3. SeenGood'
    BY <1>27, <2>1, SeenStays DEF RemoveDirs, RecordsGood, Goto, Carry,
       Turn, Enter, Finish, opVars
  <2>4. HeldGood'
    BY <1>27, <2>1, <1>a, GotoHeld DEF RemoveDirs, Labels, PreLaunch,
       RecordsGood
  <2>5. PidfileGood' /\ OwnerUsed'
    BY <1>27, <2>1, NoRunAssumption DEF RemoveDirs, RecordsGood,
       PidfileGood, OwnerUsed, Grows, StateOK, ControlOK, RunChosen, At,
       Alive, qemuVars
  <2> QED
    BY <2>2, <2>3, <2>4, <2>5 DEF RecordsGood
<1>28. ASSUME NEW c \in Operators, RemoveRoot(c)
      PROVE  RecordsGood'
  <2>1. Grows
    BY <1>28 DEF RemoveRoot, RootEmpty, Grows, StateOK, qemuVars
  <2>2. StoreGood' /\ SeenGood' /\ PidfileGood' /\ OwnerUsed'
    BY <1>28, <2>1, DiskStep DEF RemoveRoot, Finish, Enter, filesVars
  <2>3. HeldGood'
    BY <1>28, <2>1, <1>a, FinishHeld DEF RemoveRoot, RecordsGood
  <2> QED
    BY <2>2, <2>3 DEF RecordsGood
<1>29. ASSUME NEW c \in Operators, RemoveFails(c)
      PROVE  RecordsGood'
  <2>1. Grows /\ StoreGood' /\ SeenGood' /\ PidfileGood' /\ OwnerUsed'
    BY <1>29, QuietStep DEF RemoveFails, Goto, Carry, Turn, Enter, Finish,
       filesVars
  <2>2. HeldGood'
    BY <1>29, <2>1, <1>a, FinishHeld DEF RemoveFails, RecordsGood
  <2> QED
    BY <2>1, <2>2 DEF RecordsGood
<1>30. ASSUME NEW c \in Operators, Interrupt(c)
      PROVE  RecordsGood'
  <2>1. Grows /\ StoreGood' /\ SeenGood' /\ PidfileGood' /\ OwnerUsed'
    BY <1>30, QuietStep DEF Interrupt, Fault, Goto, Carry, Turn, Enter,
       Finish, filesVars
  <2>2. HeldGood'
    BY <1>30, <2>1, <1>a, FinishHeld DEF Interrupt, RecordsGood
  <2> QED
    BY <2>1, <2>2 DEF RecordsGood
<1>31. ASSUME NEW c \in Operators, SaveFails(c)
      PROVE  RecordsGood'
  <2>1. Grows /\ StoreGood' /\ SeenGood' /\ PidfileGood' /\ OwnerUsed'
    BY <1>31, QuietStep DEF SaveFails, Fault, AfterFailedSave, NextFile,
       Goto, Carry, Turn, Enter, Finish, filesVars
  <2>2. HeldGood'
    BY <1>31, <2>1, <1>a, FinishHeld, NextFileHeld DEF SaveFails,
       AfterFailedSave, RecordsGood
  <2> QED
    BY <2>1, <2>2 DEF RecordsGood
<1>32. ASSUME NEW p \in Pids, Exit(p)
      PROVE  RecordsGood'
  <2>1. Grows
    BY <1>32 DEF Exit, Grows, StateOK, qemuVars
  <2>2. StoreGood'
    BY <1>32, <1>a, <2>1, GoodStays DEF Exit, RecordsGood, StoreGood,
       filesVars
  <2>3. SeenGood'
    BY <1>32, <2>1, SeenStays DEF Exit, RecordsGood, Goto, Carry, Turn,
       Enter, Finish, opVars
  <2>4. HeldGood'
    BY <1>32, <1>a, <2>1, GoodStays DEF Exit, RecordsGood, HeldGood,
       ControlOK, opVars
  <2>5. PidfileGood' /\ OwnerUsed'
    BY <1>32, <2>1, NoRunAssumption DEF Exit, RecordsGood, PidfileGood,
       OwnerUsed, Grows, StateOK, ControlOK, RunChosen, At, Alive, qemuVars
  <2> QED
    BY <2>2, <2>3, <2>4, <2>5 DEF RecordsGood
<1>33. CASE UNCHANGED vars
  BY <1>33 DEF vars, RecordsGood, StoreGood, SeenGood, HeldGood,
     PidfileGood, OwnerUsed, opVars, filesVars, qemuVars, faultVars
<1> QED
  BY <1>1, <1>2, <1>3, <1>4, <1>5, <1>6, <1>7, <1>8, <1>9, <1>10, <1>11,
     <1>12, <1>13, <1>14, <1>15, <1>16, <1>17, <1>18, <1>19, <1>20, <1>21,
     <1>22, <1>23, <1>24, <1>25, <1>26, <1>27, <1>28, <1>29, <1>30, <1>31,
     <1>32, <1>33 DEF Next, Begin, Step

LEMMA RecordInvHolds == Spec => []RecordInv
<1>1. Init => RecordInv
  BY InitTyped, InitRecords DEF RecordInv
<1>2. RecordInv /\ [Next]_vars => RecordInv'
  BY StepTyped, StepRecords DEF RecordInv
<1> QED BY <1>1, <1>2, PTL DEF Spec

\* runs.py and qemu.py, state and pid: no failure, refresh or stop leaves one
\* without the other, on disk or in a command.
THEOREM RunningIffPidHolds == Spec => []RunningIffPid
<1>1. RecordInv => RunningIffPid
  <2> SUFFICES ASSUME RecordInv PROVE RunningIffPid
    OBVIOUS
  <2>1. ASSUME NEW c \in Operators PROVE PidFits(md[c])
    BY GoodInit DEF RecordInv, Typed, ControlOK, RecordsGood, HeldGood, Good
  <2> QED BY <2>1 DEF RecordInv, RecordsGood, StoreGood, Good, RunningIffPid
<1> QED BY <1>1, RecordInvHolds, PTL

\* stop_vm signals no process but the one launched for the run.
THEOREM PidBelongsToRunHolds == Spec => []PidBelongsToRun
<1>1. RecordInv => PidBelongsToRun
  BY DEF RecordInv, Typed, ControlOK, RecordsGood, StoreGood, HeldGood, Good,
         PidBelongsToRun, InitMetadata
<1> QED BY <1>1, RecordInvHolds, PTL

\* A record that names a seed image belongs to a run whose artifacts were
\* built.
THEOREM SeedIsRealHolds == Spec => []SeedIsReal
<1>1. RecordInv => SeedIsReal
  BY DEF RecordInv, Typed, ControlOK, RecordsGood, StoreGood, HeldGood, Good,
         SeedIsReal, Gutted, InitMetadata
<1> QED BY <1>1, RecordInvHolds, PTL
=============================================================================
