------------------------ MODULE RunRefinementProofs ------------------------
(***************************************************************************)
(* The commands implement RunService when one runs at a time: every step   *)
(* is a step of the service or leaves the phases of all runs alone.        *)
(***************************************************************************)
EXTENDS RunSerialProofs

\* The labels at which a command works in a run directory.
WorkLabels == Labels \ {"idle", "scan", "mkdir", "load", "each"}

\* A run that has a record, or that a command has found or made, has a
\* directory.
StoreUsed == \A r \in Runs : store[r].form # "absent" => disk[r] # "unused"

SeenUsed ==
    \A c \in Operators, r \in Runs :
        Readable(seen[c][r]) => disk[r] # "unused"

HeldUsed == \A c \in Operators : pc[c] \in WorkLabels => disk[run[c]] # "unused"

UsedInv == StoreUsed /\ SeenUsed /\ HeldUsed

LEMMA InitUsed == Init => UsedInv
BY DEF Init, UsedInv, StoreUsed, SeenUsed, HeldUsed, WorkLabels, NothingSeen,
       FileOf, Readable

LEMMA NothingReadable == \A r \in Runs : ~Readable(NothingSeen[r])
BY DEF NothingSeen, FileOf, Readable

\* What the four ways of going on leave of UsedInv.
LEMMA MoveUsed ==
    ASSUME Typed, UsedInv, NEW c \in Operators, NEW l \in Labels,
           \A r \in Runs : disk'[r] = "unused" => disk[r] = "unused",
           pc' = [pc EXCEPT ![c] = l],
           \/ run' = run
           \/ l \notin WorkLabels /\ \E r : run' = [run EXCEPT ![c] = r],
           \/ UNCHANGED seen
           \/ seen' = [seen EXCEPT ![c] = NothingSeen],
           l \in WorkLabels => disk[run[c]] # "unused" /\ run[c] \in Runs
    PROVE  SeenUsed' /\ HeldUsed'
<1>1. SeenUsed'
  BY NothingReadable DEF UsedInv, SeenUsed, Typed, ControlOK
<1>2. HeldUsed'
  BY NoRunAssumption
     DEF UsedInv, HeldUsed, Typed, ControlOK, RunChosen, WorkLabels
<1> QED BY <1>1, <1>2

LEMMA StepUsed ==
    ASSUME Typed, UsedInv, [Next]_vars PROVE UsedInv'
<1>1. ASSUME NEW c \in Operators, NEW k \in Commands, NEW r \in Runs \cup {NoRun}, BeginScan(c, k, r)
      PROVE  UsedInv'
  <2> USE <1>1, NothingReadable DEF BeginScan, Globbed, Typed, ControlOK,
      StateOK, RunChosen, UsedInv, Goto, Carry, Turn, Enter, Finish, At,
      Idle, filesVars, qemuVars, faultVars
  <2>1. StoreUsed'
    BY DEF StoreUsed, HeldUsed, WorkLabels, Labels
  <2>2. SeenUsed'
    BY DEF StoreUsed, SeenUsed, Readable
  <2>3. HeldUsed'
    BY DEF StoreUsed, SeenUsed, HeldUsed, WorkLabels, Readable
  <2> QED BY <2>1, <2>2, <2>3
<1>2. ASSUME NEW c \in Operators, NEW k \in Commands, NEW r \in Runs, BeginLoad(c, k, r)
      PROVE  UsedInv'
  <2> USE <1>2, NothingReadable DEF BeginLoad, Typed, ControlOK, StateOK,
      RunChosen, UsedInv, Goto, Carry, Turn, Enter, Finish, At, Idle,
      filesVars, qemuVars, faultVars
  <2>1. StoreUsed'
    BY DEF StoreUsed, HeldUsed, WorkLabels, Labels
  <2>2. SeenUsed'
    BY DEF StoreUsed, SeenUsed, Readable
  <2>3. HeldUsed'
    BY DEF StoreUsed, SeenUsed, HeldUsed, WorkLabels, Readable
  <2> QED BY <2>1, <2>2, <2>3
<1>3. ASSUME NEW c \in Operators, NEW r \in Runs, Scan(c, r)
      PROVE  UsedInv'
  <2> USE <1>3, NothingReadable DEF Scan, Typed, ControlOK, StateOK,
      RunChosen, UsedInv, Goto, Carry, Turn, Enter, Finish, At, Idle,
      filesVars, qemuVars, faultVars
  <2>1. StoreUsed'
    BY DEF StoreUsed, HeldUsed, WorkLabels, Labels
  <2>2. SeenUsed'
    BY DEF StoreUsed, SeenUsed, Readable
  <2>3. HeldUsed'
    BY DEF StoreUsed, SeenUsed, HeldUsed, WorkLabels, Readable
  <2> QED BY <2>1, <2>2, <2>3
<1>4. ASSUME NEW c \in Operators, NEW r \in Runs, MakeRun(c, r)
      PROVE  UsedInv'
  <2> USE <1>4, NothingReadable DEF MakeRun, Typed, ControlOK, StateOK,
      RunChosen, UsedInv, Goto, Carry, Turn, Enter, Finish, At, Idle,
      filesVars, qemuVars, faultVars
  <2>1. StoreUsed'
    BY DEF StoreUsed, HeldUsed, WorkLabels, Labels
  <2>2. SeenUsed'
    BY DEF StoreUsed, SeenUsed, Readable
  <2>3. HeldUsed'
    BY DEF StoreUsed, SeenUsed, HeldUsed, WorkLabels, Readable
  <2> QED BY <2>1, <2>2, <2>3
<1>5. ASSUME NEW c \in Operators, NEW r \in Runs, Each(c, r)
      PROVE  UsedInv'
  <2> USE <1>5, NothingReadable DEF Each, Typed, ControlOK, StateOK,
      RunChosen, UsedInv, Goto, Carry, Turn, Enter, Finish, At, Idle,
      filesVars, qemuVars, faultVars
  <2>1. StoreUsed'
    BY DEF StoreUsed, HeldUsed, WorkLabels, Labels
  <2>2. SeenUsed'
    BY DEF StoreUsed, SeenUsed, Readable
  <2>3. HeldUsed'
    BY DEF StoreUsed, SeenUsed, HeldUsed, WorkLabels, Readable
  <2> QED BY <2>1, <2>2, <2>3
<1>6. ASSUME NEW c \in Operators, NEW p \in Pids, Launch(c, p)
      PROVE  UsedInv'
  <2> USE <1>6, NothingReadable DEF Launch, Typed, ControlOK, StateOK,
      RunChosen, UsedInv, Goto, Carry, Turn, Enter, Finish, At, Idle,
      filesVars, qemuVars, faultVars
  <2>1. StoreUsed'
    BY DEF StoreUsed, HeldUsed, WorkLabels, Labels
  <2>2. SeenUsed'
    BY DEF StoreUsed, SeenUsed, Readable
  <2>3. HeldUsed'
    BY DEF StoreUsed, SeenUsed, HeldUsed, WorkLabels, Readable
  <2> QED BY <2>1, <2>2, <2>3
<1>7. ASSUME NEW c \in Operators, ScanDone(c)
      PROVE  UsedInv'
  <2>1. \/ Goto(c, "each")
        \/ Finish(c)
        \/ Goto(c, "mkdir")
        \/ Goto(c, "load")
    BY <1>7 DEF ScanDone
  <2>2. UNCHANGED <<store, disk>>
    BY <1>7 DEF ScanDone, filesVars
  <2>6. StoreUsed'
    BY <2>2 DEF UsedInv, StoreUsed
  <2>7. SeenUsed' /\ HeldUsed'
    <3>1. CASE Goto(c, "each")
      BY <3>1, <2>2, MoveUsed DEF Goto, WorkLabels, Labels
    <3>2. CASE Finish(c)
      BY <3>2, <2>2, MoveUsed DEF Finish, Enter, WorkLabels, Labels
    <3>3. CASE Goto(c, "mkdir")
      BY <3>3, <2>2, MoveUsed DEF Goto, WorkLabels, Labels
    <3>4. CASE Goto(c, "load")
      BY <3>4, <2>2, MoveUsed DEF Goto, WorkLabels, Labels
    <3> QED BY <2>1, <3>1, <3>2, <3>3, <3>4
  <2> QED BY <2>6, <2>7 DEF UsedInv
<1>8. ASSUME NEW c \in Operators, OpenMeta(c)
      PROVE  UsedInv'
  <2> USE <1>8, NothingReadable DEF OpenMeta, Typed, ControlOK, StateOK,
      RunChosen, UsedInv, Goto, Carry, Turn, Enter, Finish, At, Idle,
      filesVars, qemuVars, faultVars
  <2>1. StoreUsed'
    BY DEF StoreUsed, HeldUsed, WorkLabels, Labels
  <2>2. SeenUsed'
    BY DEF StoreUsed, SeenUsed, Readable
  <2>3. HeldUsed'
    BY DEF StoreUsed, SeenUsed, HeldUsed, WorkLabels, Readable
  <2> QED BY <2>1, <2>2, <2>3
<1>9. ASSUME NEW c \in Operators, WriteMeta(c)
      PROVE  UsedInv'
  <2>1. \/ Goto(c, "overlay")
        \/ Goto(c, "rmtree")
        \/ NextFile(c)
        \/ Finish(c)
    BY <1>9 DEF WriteMeta, AfterSave
  <2>2. UNCHANGED disk /\ pc[c] \in WorkLabels
    BY <1>9 DEF WriteMeta, At, WorkLabels, Labels
  <2>3. \A r \in Runs : store'[r].form # "absent" => r = run[c] \/ store'[r] = store[r]
    BY <1>9 DEF WriteMeta, Typed, StateOK
  <2>4. run[c] \in Runs \/ pc[c] \notin WorkLabels
    BY DEF Typed, ControlOK, RunChosen, WorkLabels
  <2>5. pc[c] \in WorkLabels => disk[run[c]] # "unused"
    BY DEF UsedInv, HeldUsed
  <2>6. StoreUsed'
    BY <2>2, <2>4, <2>5, <2>3 DEF UsedInv, StoreUsed
  <2>7. SeenUsed' /\ HeldUsed'
    <3>1. CASE Goto(c, "overlay")
      BY <3>1, <2>2, <2>4, <2>5, MoveUsed DEF Goto, WorkLabels, Labels
    <3>2. CASE Goto(c, "rmtree")
      BY <3>2, <2>2, <2>4, <2>5, MoveUsed DEF Goto, WorkLabels, Labels
    <3>3. CASE NextFile(c)
      BY <3>3, <2>2, <2>4, <2>5, MoveUsed DEF NextFile, Turn, WorkLabels, Labels
    <3>4. CASE Finish(c)
      BY <3>4, <2>2, <2>4, <2>5, MoveUsed DEF Finish, Enter, WorkLabels, Labels
    <3> QED BY <2>1, <3>1, <3>2, <3>3, <3>4
  <2> QED BY <2>6, <2>7 DEF UsedInv
<1>10. ASSUME NEW c \in Operators, MakeRunFails(c)
      PROVE  UsedInv'
  <2> USE <1>10, NothingReadable DEF MakeRunFails, Typed, ControlOK, StateOK,
      RunChosen, UsedInv, Goto, Carry, Turn, Enter, Finish, At, Idle,
      filesVars, qemuVars, faultVars
  <2>1. StoreUsed'
    BY DEF StoreUsed, HeldUsed, WorkLabels, Labels
  <2>2. SeenUsed'
    BY DEF StoreUsed, SeenUsed, Readable
  <2>3. HeldUsed'
    BY DEF StoreUsed, SeenUsed, HeldUsed, WorkLabels, Readable
  <2> QED BY <2>1, <2>2, <2>3
<1>11. ASSUME NEW c \in Operators, CreateOverlay(c)
      PROVE  UsedInv'
  <2> USE <1>11, NothingReadable DEF CreateOverlay, Typed, ControlOK,
      StateOK, RunChosen, UsedInv, Goto, Carry, Turn, Enter, Finish, At,
      Idle, filesVars, qemuVars, faultVars
  <2>1. StoreUsed'
    BY DEF StoreUsed, HeldUsed, WorkLabels, Labels
  <2>2. SeenUsed'
    BY DEF StoreUsed, SeenUsed, Readable
  <2>3. HeldUsed'
    BY DEF StoreUsed, SeenUsed, HeldUsed, WorkLabels, Readable
  <2> QED BY <2>1, <2>2, <2>3
<1>12. ASSUME NEW c \in Operators, Render(c)
      PROVE  UsedInv'
  <2> USE <1>12, NothingReadable DEF Render, Typed, ControlOK, StateOK,
      RunChosen, UsedInv, Goto, Carry, Turn, Enter, Finish, At, Idle,
      filesVars, qemuVars, faultVars
  <2>1. StoreUsed'
    BY DEF StoreUsed, HeldUsed, WorkLabels, Labels
  <2>2. SeenUsed'
    BY DEF StoreUsed, SeenUsed, Readable
  <2>3. HeldUsed'
    BY DEF StoreUsed, SeenUsed, HeldUsed, WorkLabels, Readable
  <2> QED BY <2>1, <2>2, <2>3
<1>13. ASSUME NEW c \in Operators, StageFails(c)
      PROVE  UsedInv'
  <2> USE <1>13, NothingReadable DEF StageFails, Failed, Typed, ControlOK,
      StateOK, RunChosen, UsedInv, Goto, Carry, Turn, Enter, Finish, At,
      Idle, filesVars, qemuVars, faultVars
  <2>1. StoreUsed'
    BY DEF StoreUsed, HeldUsed, WorkLabels, Labels
  <2>2. SeenUsed'
    BY DEF StoreUsed, SeenUsed, Readable
  <2>3. HeldUsed'
    BY DEF StoreUsed, SeenUsed, HeldUsed, WorkLabels, Readable
  <2> QED BY <2>1, <2>2, <2>3
<1>14. ASSUME NEW c \in Operators, StageAborts(c)
      PROVE  UsedInv'
  <2> USE <1>14, NothingReadable DEF StageAborts, Typed, ControlOK, StateOK,
      RunChosen, UsedInv, Goto, Carry, Turn, Enter, Finish, At, Idle,
      filesVars, qemuVars, faultVars
  <2>1. StoreUsed'
    BY DEF StoreUsed, HeldUsed, WorkLabels, Labels
  <2>2. SeenUsed'
    BY DEF StoreUsed, SeenUsed, Readable
  <2>3. HeldUsed'
    BY DEF StoreUsed, SeenUsed, HeldUsed, WorkLabels, Readable
  <2> QED BY <2>1, <2>2, <2>3
<1>15. ASSUME NEW c \in Operators, ReadPid(c)
      PROVE  UsedInv'
  <2>1. \/ Carry(c, Mark(md[c], "failed", md[c].pid), "save")
        \/ Carry(c, Mark(md[c], "running", pidfile[run[c]]), "assess")
        \/ Finish(c)
    BY <1>15 DEF ReadPid, Failed
  <2>2. UNCHANGED <<store, disk>> /\ pc[c] \in WorkLabels
    BY <1>15 DEF ReadPid, filesVars, At, WorkLabels, Labels
  <2>4. run[c] \in Runs \/ pc[c] \notin WorkLabels
    BY DEF Typed, ControlOK, RunChosen, WorkLabels
  <2>5. pc[c] \in WorkLabels => disk[run[c]] # "unused"
    BY DEF UsedInv, HeldUsed
  <2>6. StoreUsed'
    BY <2>2, <2>4, <2>5 DEF UsedInv, StoreUsed
  <2>7. SeenUsed' /\ HeldUsed'
    <3>1. CASE Carry(c, Mark(md[c], "failed", md[c].pid), "save")
      BY <3>1, <2>2, <2>4, <2>5, MoveUsed DEF Carry, WorkLabels, Labels
    <3>2. CASE Carry(c, Mark(md[c], "running", pidfile[run[c]]), "assess")
      BY <3>2, <2>2, <2>4, <2>5, MoveUsed DEF Carry, WorkLabels, Labels
    <3>3. CASE Finish(c)
      BY <3>3, <2>2, <2>4, <2>5, MoveUsed DEF Finish, Enter, WorkLabels, Labels
    <3> QED BY <2>1, <3>1, <3>2, <3>3
  <2> QED BY <2>6, <2>7 DEF UsedInv
<1>16. ASSUME NEW c \in Operators, Assess(c)
      PROVE  UsedInv'
  <2> USE <1>16, NothingReadable DEF Assess, Typed, ControlOK, StateOK,
      RunChosen, UsedInv, Goto, Carry, Turn, Enter, Finish, At, Idle,
      filesVars, qemuVars, faultVars
  <2>1. StoreUsed'
    BY DEF StoreUsed, HeldUsed, WorkLabels, Labels
  <2>2. SeenUsed'
    BY DEF StoreUsed, SeenUsed, Readable
  <2>3. HeldUsed'
    BY DEF StoreUsed, SeenUsed, HeldUsed, WorkLabels, Readable
  <2> QED BY <2>1, <2>2, <2>3
<1>17. ASSUME NEW c \in Operators, EachDone(c)
      PROVE  UsedInv'
  <2> USE <1>17, NothingReadable DEF EachDone, Typed, ControlOK, StateOK,
      RunChosen, UsedInv, Goto, Carry, Turn, Enter, Finish, At, Idle,
      filesVars, qemuVars, faultVars
  <2>1. StoreUsed'
    BY DEF StoreUsed, HeldUsed, WorkLabels, Labels
  <2>2. SeenUsed'
    BY DEF StoreUsed, SeenUsed, Readable
  <2>3. HeldUsed'
    BY DEF StoreUsed, SeenUsed, HeldUsed, WorkLabels, Readable
  <2> QED BY <2>1, <2>2, <2>3
<1>18. ASSUME NEW c \in Operators, LoadFails(c)
      PROVE  UsedInv'
  <2> USE <1>18, NothingReadable DEF LoadFails, Typed, ControlOK, StateOK,
      RunChosen, UsedInv, Goto, Carry, Turn, Enter, Finish, At, Idle,
      filesVars, qemuVars, faultVars
  <2>1. StoreUsed'
    BY DEF StoreUsed, HeldUsed, WorkLabels, Labels
  <2>2. SeenUsed'
    BY DEF StoreUsed, SeenUsed, Readable
  <2>3. HeldUsed'
    BY DEF StoreUsed, SeenUsed, HeldUsed, WorkLabels, Readable
  <2> QED BY <2>1, <2>2, <2>3
<1>19. ASSUME NEW c \in Operators, LoadForStart(c)
      PROVE  UsedInv'
  <2>1. \/ Finish(c)
        \/ Carry(c, Refresh(store[run[c]].md), "launch")
    BY <1>19 DEF LoadForStart, LoadedBy
  <2>2. UNCHANGED <<store, disk>> /\ disk[run[c]] # "unused"
    BY <1>19 DEF LoadForStart, LoadedBy, filesVars, At, UsedInv, StoreUsed, Readable, Typed,
       ControlOK, RunChosen
  <2>4. run[c] \in Runs
    BY <1>19 DEF LoadForStart, LoadedBy, At, Typed, ControlOK, RunChosen
  <2>6. StoreUsed'
    BY <2>2, <2>4 DEF UsedInv, StoreUsed
  <2>7. SeenUsed' /\ HeldUsed'
    <3>1. CASE Finish(c)
      BY <3>1, <2>2, <2>4, MoveUsed DEF Finish, Enter, WorkLabels, Labels
    <3>2. CASE Carry(c, Refresh(store[run[c]].md), "launch")
      BY <3>2, <2>2, <2>4, MoveUsed DEF Carry, WorkLabels, Labels
    <3> QED BY <2>1, <3>1, <3>2
  <2> QED BY <2>6, <2>7 DEF UsedInv
<1>20. ASSUME NEW c \in Operators, LoadForStop(c)
      PROVE  UsedInv'
  <2>1. \/ Carry(c, Mark(Refresh(store[run[c]].md), "stopped", NoPid), "save")
        \/ Carry(c, Refresh(store[run[c]].md), "powerdown")
    BY <1>20 DEF LoadForStop, LoadedBy
  <2>2. UNCHANGED <<store, disk>> /\ disk[run[c]] # "unused"
    BY <1>20 DEF LoadForStop, LoadedBy, filesVars, At, UsedInv, StoreUsed, Readable, Typed,
       ControlOK, RunChosen
  <2>4. run[c] \in Runs
    BY <1>20 DEF LoadForStop, LoadedBy, At, Typed, ControlOK, RunChosen
  <2>6. StoreUsed'
    BY <2>2, <2>4 DEF UsedInv, StoreUsed
  <2>7. SeenUsed' /\ HeldUsed'
    <3>1. CASE Carry(c, Mark(Refresh(store[run[c]].md), "stopped", NoPid), "save")
      BY <3>1, <2>2, <2>4, MoveUsed DEF Carry, WorkLabels, Labels
    <3>2. CASE Carry(c, Refresh(store[run[c]].md), "powerdown")
      BY <3>2, <2>2, <2>4, MoveUsed DEF Carry, WorkLabels, Labels
    <3> QED BY <2>1, <3>1, <3>2
  <2> QED BY <2>6, <2>7 DEF UsedInv
<1>21. ASSUME NEW c \in Operators, LoadForDestroy(c)
      PROVE  UsedInv'
  <2> USE <1>21, NothingReadable DEF LoadForDestroy, LoadedBy, Typed,
      ControlOK, StateOK, RunChosen, UsedInv, Goto, Carry, Turn, Enter,
      Finish, At, Idle, filesVars, qemuVars, faultVars
  <2>1. StoreUsed'
    BY DEF StoreUsed, HeldUsed, WorkLabels, Labels
  <2>2. SeenUsed'
    BY DEF StoreUsed, SeenUsed, Readable
  <2>3. HeldUsed'
    BY DEF StoreUsed, SeenUsed, HeldUsed, WorkLabels, Readable
  <2> QED BY <2>1, <2>2, <2>3
<1>22. ASSUME NEW c \in Operators, LoadForStatus(c)
      PROVE  UsedInv'
  <2> USE <1>22, NothingReadable DEF LoadForStatus, LoadedBy, Typed,
      ControlOK, StateOK, RunChosen, UsedInv, Goto, Carry, Turn, Enter,
      Finish, At, Idle, filesVars, qemuVars, faultVars
  <2>1. StoreUsed'
    BY DEF StoreUsed, HeldUsed, WorkLabels, Labels
  <2>2. SeenUsed'
    BY DEF StoreUsed, SeenUsed, Readable
  <2>3. HeldUsed'
    BY DEF StoreUsed, SeenUsed, HeldUsed, WorkLabels, Readable
  <2> QED BY <2>1, <2>2, <2>3
<1>23. ASSUME NEW c \in Operators, Powerdown(c)
      PROVE  UsedInv'
  <2> USE <1>23, NothingReadable DEF Powerdown, Typed, ControlOK, StateOK,
      RunChosen, UsedInv, Goto, Carry, Turn, Enter, Finish, At, Idle,
      filesVars, qemuVars, faultVars
  <2>1. StoreUsed'
    BY DEF StoreUsed, HeldUsed, WorkLabels, Labels
  <2>2. SeenUsed'
    BY DEF StoreUsed, SeenUsed, Readable
  <2>3. HeldUsed'
    BY DEF StoreUsed, SeenUsed, HeldUsed, WorkLabels, Readable
  <2> QED BY <2>1, <2>2, <2>3
<1>24. ASSUME NEW c \in Operators, Probe(c)
      PROVE  UsedInv'
  <2> USE <1>24, NothingReadable DEF Probe, Stopped, Typed, ControlOK,
      StateOK, RunChosen, UsedInv, Goto, Carry, Turn, Enter, Finish, At,
      Idle, filesVars, qemuVars, faultVars
  <2>1. StoreUsed'
    BY DEF StoreUsed, HeldUsed, WorkLabels, Labels
  <2>2. SeenUsed'
    BY DEF StoreUsed, SeenUsed, Readable
  <2>3. HeldUsed'
    BY DEF StoreUsed, SeenUsed, HeldUsed, WorkLabels, Readable
  <2> QED BY <2>1, <2>2, <2>3
<1>25. ASSUME NEW c \in Operators, Signal(c)
      PROVE  UsedInv'
  <2>1. \/ Finish(c)
        \/ Goto(c, "termed")
        \/ Stopped(c)
    BY <1>25 DEF Signal
  <2>2. UNCHANGED <<store, disk>> /\ pc[c] \in WorkLabels
    BY <1>25 DEF Signal, filesVars, At, WorkLabels, Labels
  <2>4. run[c] \in Runs \/ pc[c] \notin WorkLabels
    BY DEF Typed, ControlOK, RunChosen, WorkLabels
  <2>5. pc[c] \in WorkLabels => disk[run[c]] # "unused"
    BY DEF UsedInv, HeldUsed
  <2>6. StoreUsed'
    BY <2>2, <2>4, <2>5 DEF UsedInv, StoreUsed
  <2>7. SeenUsed' /\ HeldUsed'
    <3>1. CASE Finish(c)
      BY <3>1, <2>2, <2>4, <2>5, MoveUsed DEF Finish, Enter, WorkLabels, Labels
    <3>2. CASE Goto(c, "termed")
      BY <3>2, <2>2, <2>4, <2>5, MoveUsed DEF Goto, WorkLabels, Labels
    <3>3. CASE Stopped(c)
      BY <3>3, <2>2, <2>4, <2>5, MoveUsed DEF Stopped, Carry, WorkLabels, Labels
    <3> QED BY <2>1, <3>1, <3>2, <3>3
  <2> QED BY <2>6, <2>7 DEF UsedInv
<1>26. ASSUME NEW c \in Operators, RemoveFile(c)
      PROVE  UsedInv'
  <2> USE <1>26, NothingReadable DEF RemoveFile, Typed, ControlOK, StateOK,
      RunChosen, UsedInv, Goto, Carry, Turn, Enter, Finish, At, Idle,
      filesVars, qemuVars, faultVars
  <2>1. StoreUsed'
    BY DEF StoreUsed, HeldUsed, WorkLabels, Labels
  <2>2. SeenUsed'
    BY DEF StoreUsed, SeenUsed, Readable
  <2>3. HeldUsed'
    BY DEF StoreUsed, SeenUsed, HeldUsed, WorkLabels, Readable
  <2> QED BY <2>1, <2>2, <2>3
<1>27. ASSUME NEW c \in Operators, RemoveDirs(c)
      PROVE  UsedInv'
  <2> USE <1>27, NothingReadable DEF RemoveDirs, Typed, ControlOK, StateOK,
      RunChosen, UsedInv, Goto, Carry, Turn, Enter, Finish, At, Idle,
      filesVars, qemuVars, faultVars
  <2>1. StoreUsed'
    BY DEF StoreUsed, HeldUsed, WorkLabels, Labels
  <2>2. SeenUsed'
    BY DEF StoreUsed, SeenUsed, Readable
  <2>3. HeldUsed'
    BY DEF StoreUsed, SeenUsed, HeldUsed, WorkLabels, Readable
  <2> QED BY <2>1, <2>2, <2>3
<1>28. ASSUME NEW c \in Operators, RemoveRoot(c)
      PROVE  UsedInv'
  <2> USE <1>28, NothingReadable DEF RemoveRoot, Typed, ControlOK, StateOK,
      RunChosen, UsedInv, Goto, Carry, Turn, Enter, Finish, At, Idle,
      filesVars, qemuVars, faultVars
  <2>1. StoreUsed'
    BY DEF StoreUsed, HeldUsed, WorkLabels, Labels
  <2>2. SeenUsed'
    BY DEF StoreUsed, SeenUsed, Readable
  <2>3. HeldUsed'
    BY DEF StoreUsed, SeenUsed, HeldUsed, WorkLabels, Readable
  <2> QED BY <2>1, <2>2, <2>3
<1>29. ASSUME NEW c \in Operators, RemoveFails(c)
      PROVE  UsedInv'
  <2> USE <1>29, NothingReadable DEF RemoveFails, Typed, ControlOK, StateOK,
      RunChosen, UsedInv, Goto, Carry, Turn, Enter, Finish, At, Idle,
      filesVars, qemuVars, faultVars
  <2>1. StoreUsed'
    BY DEF StoreUsed, HeldUsed, WorkLabels, Labels
  <2>2. SeenUsed'
    BY DEF StoreUsed, SeenUsed, Readable
  <2>3. HeldUsed'
    BY DEF StoreUsed, SeenUsed, HeldUsed, WorkLabels, Readable
  <2> QED BY <2>1, <2>2, <2>3
<1>30. ASSUME NEW c \in Operators, Interrupt(c)
      PROVE  UsedInv'
  <2> USE <1>30, NothingReadable DEF Interrupt, Fault, Typed, ControlOK,
      StateOK, RunChosen, UsedInv, Goto, Carry, Turn, Enter, Finish, At,
      Idle, filesVars, qemuVars, faultVars
  <2>1. StoreUsed'
    BY DEF StoreUsed, HeldUsed, WorkLabels, Labels
  <2>2. SeenUsed'
    BY DEF StoreUsed, SeenUsed, Readable
  <2>3. HeldUsed'
    BY DEF StoreUsed, SeenUsed, HeldUsed, WorkLabels, Readable
  <2> QED BY <2>1, <2>2, <2>3
<1>31. ASSUME NEW c \in Operators, SaveFails(c)
      PROVE  UsedInv'
  <2>1. \/ NextFile(c)
        \/ Finish(c)
    BY <1>31 DEF SaveFails, AfterFailedSave, Fault
  <2>2. UNCHANGED <<store, disk>> /\ pc[c] \in WorkLabels
    BY <1>31 DEF SaveFails, AfterFailedSave, Fault, filesVars, At, WorkLabels, Labels
  <2>4. run[c] \in Runs \/ pc[c] \notin WorkLabels
    BY DEF Typed, ControlOK, RunChosen, WorkLabels
  <2>5. pc[c] \in WorkLabels => disk[run[c]] # "unused"
    BY DEF UsedInv, HeldUsed
  <2>6. StoreUsed'
    BY <2>2, <2>4, <2>5 DEF UsedInv, StoreUsed
  <2>7. SeenUsed' /\ HeldUsed'
    <3>1. CASE NextFile(c)
      BY <3>1, <2>2, <2>4, <2>5, MoveUsed DEF NextFile, Turn, WorkLabels, Labels
    <3>2. CASE Finish(c)
      BY <3>2, <2>2, <2>4, <2>5, MoveUsed DEF Finish, Enter, WorkLabels, Labels
    <3> QED BY <2>1, <3>1, <3>2
  <2> QED BY <2>6, <2>7 DEF UsedInv
<1>32. ASSUME NEW p \in Pids, Exit(p)
      PROVE  UsedInv'
  <2> USE <1>32, NothingReadable DEF Exit, opVars, Typed, ControlOK, StateOK,
      RunChosen, UsedInv, Goto, Carry, Turn, Enter, Finish, At, Idle,
      filesVars, qemuVars, faultVars
  <2>1. StoreUsed'
    BY DEF StoreUsed, HeldUsed, WorkLabels, Labels
  <2>2. SeenUsed'
    BY DEF StoreUsed, SeenUsed, Readable
  <2>3. HeldUsed'
    BY DEF StoreUsed, SeenUsed, HeldUsed, WorkLabels, Readable
  <2> QED BY <2>1, <2>2, <2>3
<1>33. CASE UNCHANGED vars
  BY <1>33 DEF vars, opVars, filesVars, UsedInv, StoreUsed, SeenUsed, HeldUsed
<1> QED
  BY <1>1, <1>2, <1>3, <1>4, <1>5, <1>6, <1>7, <1>8, <1>9, <1>10, <1>11,
     <1>12, <1>13, <1>14, <1>15, <1>16, <1>17, <1>18, <1>19, <1>20, <1>21,
     <1>22, <1>23, <1>24, <1>25, <1>26, <1>27, <1>28, <1>29, <1>30, <1>31,
     <1>32, <1>33 DEF Next, Begin, Step

-----------------------------------------------------------------------------
Phase == [r \in Runs |-> RunPhase(r)]

LEMMA InitService == Init => Service!Init
BY DEF Init, Service!Init, RunPhase, HasVm

\* Only these can change a phase: the virtual machines that run with their
\* records up to date, the directories that exist, and the destroyed runs.
LEMMA SamePhase ==
    ASSUME UNCHANGED destroyed,
           \A r \in Runs : HasVm(r)' <=> HasVm(r),
           \A r \in Runs : disk'[r] = "unused" <=> disk[r] = "unused"
    PROVE  UNCHANGED Phase
<1>1. \A r \in Runs : RunPhase(r)' = RunPhase(r)
  BY DEF RunPhase
<1> QED BY <1>1 DEF Phase

\* A step that changes the phase of one run.
LEMMA PhaseOfOne ==
    ASSUME NEW r \in Runs,
           \A q \in Runs \ {r} : q \in destroyed' <=> q \in destroyed,
           \A q \in Runs \ {r} : HasVm(q)' <=> HasVm(q),
           \A q \in Runs \ {r} : disk'[q] = "unused" <=> disk[q] = "unused"
    PROVE  Phase' = [Phase EXCEPT ![r] = RunPhase(r)']
<1>1. \A q \in Runs \ {r} : RunPhase(q)' = RunPhase(q)
  BY DEF RunPhase
<1> QED BY <1>1 DEF Phase

\* Of the runs, only one has a virtual machine, and it has a directory that
\* nobody destroyed.
LEMMA VmPhase ==
    ASSUME RecordInv, SerialInv, NEW r \in Runs, HasVm(r)
    PROVE  /\ disk[r] = "seeded" /\ r \notin destroyed
           /\ \A q \in Runs \ {r} : ~HasVm(q)
<1>1. disk[r] = "seeded"
  BY DEF HasVm, SerialInv, DestroyOnlyDead
<1>2. \A q \in Runs \ {r} : ~HasVm(q)
  BY DEF HasVm, SerialInv, AtMostOneActive
<1> QED BY <1>1, <1>2 DEF SerialInv, GoneInv

\* A virtual machine ends, or its record loses an update to a fault.
LEMMA HaltStep ==
    ASSUME RecordInv, SerialInv, UNCHANGED <<disk, destroyed, owner>>,
           cut \subseteq cut',
           \A p \in Pids : vm'[p] = "live" => vm[p] = "live"
    PROVE  Service!Next \/ UNCHANGED Phase
<1>1. \A r \in Runs : HasVm(r)' => HasVm(r)
  BY DEF HasVm
<1>2. CASE \A r \in Runs : HasVm(r) => HasVm(r)'
  BY <1>1, <1>2, SamePhase
<1>3. ASSUME NEW r \in Runs, HasVm(r), ~HasVm(r)'
      PROVE  Service!Next
  <2>1. \A q \in Runs \ {r} : HasVm(q)' <=> HasVm(q)
    BY <1>1, <1>3, VmPhase
  <2>2. Phase' = [Phase EXCEPT ![r] = RunPhase(r)']
    BY <2>1, PhaseOfOne
  <2>3. RunPhase(r) = "active" /\ RunPhase(r)' = "defined"
    BY <1>3, VmPhase DEF RunPhase
  <2>4. Service!Halt(r)
    BY <2>2, <2>3 DEF Service!Halt, Service!Become, Phase
  <2> QED BY <2>4 DEF Service!Next
<1> QED BY <1>2, <1>3

LEMMA StepService ==
    ASSUME Overlap = FALSE, RecordInv, SerialInv, UsedInv, [Next]_vars
    PROVE  Service!Next \/ UNCHANGED Phase
<1>0. ASSUME NEW c \in Operators, ~Idle(c) PROVE Parts(c)
  BY <1>0 DEF SerialInv, CommandInv, Parts
<1> USE DEF RecordInv, Typed
<1>1. ASSUME NEW c \in Operators, NEW k \in Commands, NEW r \in Runs \cup {NoRun}, BeginScan(c, k, r)
      PROVE  Service!Next \/ UNCHANGED Phase
  BY <1>1, SamePhase DEF BeginScan, HasVm, qemuVars, faultVars
<1>2. ASSUME NEW c \in Operators, NEW k \in Commands, NEW r \in Runs, BeginLoad(c, k, r)
      PROVE  Service!Next \/ UNCHANGED Phase
  BY <1>2, SamePhase DEF BeginLoad, HasVm, qemuVars, faultVars
<1>3. ASSUME NEW c \in Operators, NEW r \in Runs, Scan(c, r)
      PROVE  Service!Next \/ UNCHANGED Phase
  BY <1>3, SamePhase DEF Scan, HasVm, qemuVars, faultVars
<1>4. ASSUME NEW c \in Operators, NEW r \in Runs, MakeRun(c, r)
      PROVE  Service!Next \/ UNCHANGED Phase
  <2>1. NoneLive /\ r \notin destroyed
    BY <1>4, <1>0 DEF MakeRun, At, Idle, Parts, LaunchInv, SerialInv, GoneInv
  <2>2. \A q \in Runs : ~HasVm(q) /\ ~HasVm(q)'
    BY <1>4, <2>1 DEF MakeRun, HasVm, NoneLive, Vm, qemuVars, faultVars
  <2>3. disk[r] = "unused" /\ disk' = [disk EXCEPT ![r] = "dirs"]
    BY <1>4 DEF MakeRun
  <2>4. Phase' = [Phase EXCEPT ![r] = RunPhase(r)']
    BY <1>4, <2>2, <2>3, PhaseOfOne DEF MakeRun, StateOK
  <2>5. RunPhase(r) = "none" /\ RunPhase(r)' = "defined"
    BY <1>4, <2>1, <2>2, <2>3 DEF MakeRun, RunPhase, StateOK
  <2>6. Service!Create(r)
    BY <2>4, <2>5 DEF Service!Create, Service!Become, Phase
  <2> QED BY <2>6 DEF Service!Next
<1>5. ASSUME NEW c \in Operators, NEW r \in Runs, Each(c, r)
      PROVE  Service!Next \/ UNCHANGED Phase
  BY <1>5, SamePhase DEF Each, HasVm, qemuVars, faultVars
<1>6. ASSUME NEW c \in Operators, NEW p \in Pids, Launch(c, p)
      PROVE  Service!Next \/ UNCHANGED Phase
  <2>1. NoneLive /\ run[c] \notin destroyed /\ run[c] \in Runs
    BY <1>6, <1>0 DEF Launch, At, Idle, Parts, LaunchInv, FilesInv, ControlOK,
       RunChosen
  <2>2. \A q \in Runs : ~HasVm(q)
    BY <2>1 DEF HasVm, NoneLive, Vm
  <2>3. UNCHANGED <<disk, destroyed, cut>> /\ disk[run[c]] = "seeded"
    BY <1>6 DEF Launch, faultVars
  <2>4. PICK r \in Runs : r = run[c]
    BY <2>1
  <2>5. \A q \in Runs \ {r} : ~HasVm(q)'
    BY <1>6, <2>2, <2>4 DEF Launch, HasVm, StateOK, faultVars
  <2>6. CASE HasVm(r)'
    <3>1. Phase' = [Phase EXCEPT ![r] = RunPhase(r)']
      BY <2>2, <2>3, <2>5, PhaseOfOne
    <3>2. RunPhase(r) = "defined" /\ RunPhase(r)' = "active"
      BY <2>1, <2>2, <2>3, <2>4, <2>6 DEF RunPhase
    <3>3. \A q \in Runs : RunPhase(q) # "active"
      BY <2>2 DEF RunPhase
    <3>4. Service!Boot(r)
      BY <3>1, <3>2, <3>3 DEF Service!Boot, Service!Become, Phase
    <3> QED BY <3>4 DEF Service!Next
  <2>7. CASE ~HasVm(r)'
    BY <2>2, <2>3, <2>5, <2>7, SamePhase
  <2> QED BY <2>6, <2>7
<1>7. ASSUME NEW c \in Operators, ScanDone(c)
      PROVE  Service!Next \/ UNCHANGED Phase
  BY <1>7, SamePhase DEF ScanDone, HasVm, qemuVars, faultVars
<1>8. ASSUME NEW c \in Operators, OpenMeta(c)
      PROVE  Service!Next \/ UNCHANGED Phase
  BY <1>8, SamePhase DEF OpenMeta, HasVm, qemuVars, faultVars
<1>9. ASSUME NEW c \in Operators, WriteMeta(c)
      PROVE  Service!Next \/ UNCHANGED Phase
  BY <1>9, SamePhase DEF WriteMeta, filesVars, HasVm, qemuVars, faultVars
<1>10. ASSUME NEW c \in Operators, MakeRunFails(c)
      PROVE  Service!Next \/ UNCHANGED Phase
  <2>1. NoneLive
    BY <1>10, <1>0 DEF MakeRunFails, At, Idle, Parts, LaunchInv
  <2>2. UNCHANGED <<destroyed, vm, owner, cut>>
    BY <1>10 DEF MakeRunFails, qemuVars, faultVars
  <2>3. \A q \in Runs : ~HasVm(q) /\ ~HasVm(q)'
    BY <2>1, <2>2 DEF HasVm, NoneLive, Vm
  <2>4. CASE UNCHANGED disk
    BY <2>2, <2>3, <2>4, SamePhase
  <2>5. ASSUME NEW r \in Runs, disk[r] = "unused",
               disk' = [disk EXCEPT ![r] = "dirs"]
        PROVE  Service!Next
    <3>1. Phase' = [Phase EXCEPT ![r] = RunPhase(r)']
      BY <2>2, <2>3, <2>5, PhaseOfOne DEF StateOK
    <3>2. r \notin destroyed
      BY <2>5 DEF SerialInv, GoneInv
    <3>3. RunPhase(r) = "none" /\ RunPhase(r)' = "defined"
      BY <2>2, <2>3, <2>5, <3>2 DEF RunPhase, StateOK
    <3>4. Service!Create(r)
      BY <3>1, <3>3 DEF Service!Create, Service!Become, Phase
    <3> QED BY <3>4 DEF Service!Next
  <2> QED BY <1>10, <2>4, <2>5 DEF MakeRunFails
<1>11. ASSUME NEW c \in Operators, CreateOverlay(c)
      PROVE  Service!Next \/ UNCHANGED Phase
  <2>1. UNCHANGED <<destroyed, vm, owner, cut>>
    BY <1>11 DEF CreateOverlay, qemuVars, faultVars
  <2>2. \A q \in Runs : HasVm(q)' <=> HasVm(q)
    BY <2>1 DEF HasVm
  <2>3. \A q \in Runs : disk'[q] = "unused" <=> disk[q] = "unused"
    BY <1>11 DEF CreateOverlay, At, StateOK, UsedInv, HeldUsed, WorkLabels, Labels
  <2> QED BY <2>1, <2>2, <2>3, SamePhase
<1>12. ASSUME NEW c \in Operators, Render(c)
      PROVE  Service!Next \/ UNCHANGED Phase
  <2>1. UNCHANGED <<destroyed, vm, owner, cut>>
    BY <1>12 DEF Render, qemuVars, faultVars
  <2>2. \A q \in Runs : HasVm(q)' <=> HasVm(q)
    BY <2>1 DEF HasVm
  <2>3. \A q \in Runs : disk'[q] = "unused" <=> disk[q] = "unused"
    BY <1>12 DEF Render, At, StateOK, UsedInv, HeldUsed, WorkLabels, Labels
  <2> QED BY <2>1, <2>2, <2>3, SamePhase
<1>13. ASSUME NEW c \in Operators, StageFails(c)
      PROVE  Service!Next \/ UNCHANGED Phase
  BY <1>13, SamePhase DEF StageFails, HasVm, qemuVars, faultVars
<1>14. ASSUME NEW c \in Operators, StageAborts(c)
      PROVE  Service!Next \/ UNCHANGED Phase
  BY <1>14, SamePhase DEF StageAborts, HasVm, qemuVars, faultVars
<1>15. ASSUME NEW c \in Operators, ReadPid(c)
      PROVE  Service!Next \/ UNCHANGED Phase
  BY <1>15, SamePhase DEF ReadPid, HasVm, qemuVars, faultVars
<1>16. ASSUME NEW c \in Operators, Assess(c)
      PROVE  Service!Next \/ UNCHANGED Phase
  BY <1>16, SamePhase DEF Assess, HasVm, qemuVars, faultVars
<1>17. ASSUME NEW c \in Operators, EachDone(c)
      PROVE  Service!Next \/ UNCHANGED Phase
  BY <1>17, SamePhase DEF EachDone, HasVm, qemuVars, faultVars
<1>18. ASSUME NEW c \in Operators, LoadFails(c)
      PROVE  Service!Next \/ UNCHANGED Phase
  BY <1>18, SamePhase DEF LoadFails, HasVm, qemuVars, faultVars
<1>19. ASSUME NEW c \in Operators, LoadForStart(c)
      PROVE  Service!Next \/ UNCHANGED Phase
  BY <1>19, SamePhase DEF LoadForStart, LoadedBy, HasVm, qemuVars, faultVars
<1>20. ASSUME NEW c \in Operators, LoadForStop(c)
      PROVE  Service!Next \/ UNCHANGED Phase
  BY <1>20, SamePhase DEF LoadForStop, LoadedBy, HasVm, qemuVars, faultVars
<1>21. ASSUME NEW c \in Operators, LoadForDestroy(c)
      PROVE  Service!Next \/ UNCHANGED Phase
  BY <1>21, SamePhase DEF LoadForDestroy, LoadedBy, HasVm, qemuVars,
     faultVars
<1>22. ASSUME NEW c \in Operators, LoadForStatus(c)
      PROVE  Service!Next \/ UNCHANGED Phase
  BY <1>22, SamePhase DEF LoadForStatus, LoadedBy, HasVm, qemuVars, faultVars
<1>23. ASSUME NEW c \in Operators, Powerdown(c)
      PROVE  Service!Next \/ UNCHANGED Phase
  BY <1>23, SamePhase DEF Powerdown, HasVm, qemuVars, faultVars
<1>24. ASSUME NEW c \in Operators, Probe(c)
      PROVE  Service!Next \/ UNCHANGED Phase
  BY <1>24, SamePhase DEF Probe, HasVm, qemuVars, faultVars
<1>25. ASSUME NEW c \in Operators, Signal(c)
      PROVE  Service!Next \/ UNCHANGED Phase
  BY <1>25, HaltStep DEF Signal, faultVars, StateOK
<1>26. ASSUME NEW c \in Operators, RemoveFile(c)
      PROVE  Service!Next \/ UNCHANGED Phase
  BY <1>26, SamePhase DEF RemoveFile, HasVm, qemuVars, faultVars
<1>27. ASSUME NEW c \in Operators, RemoveDirs(c)
      PROVE  Service!Next \/ UNCHANGED Phase
  <2>1. UNCHANGED <<destroyed, vm, owner, cut>>
    BY <1>27 DEF RemoveDirs, qemuVars, faultVars
  <2>2. \A q \in Runs : HasVm(q)' <=> HasVm(q)
    BY <2>1 DEF HasVm
  <2>3. \A q \in Runs : disk'[q] = "unused" <=> disk[q] = "unused"
    BY <1>27 DEF RemoveDirs, At, StateOK, UsedInv, HeldUsed, WorkLabels, Labels
  <2> QED BY <2>1, <2>2, <2>3, SamePhase
<1>28. ASSUME NEW c \in Operators, RemoveRoot(c)
      PROVE  Service!Next \/ UNCHANGED Phase
  <2>1. PICK r \in Runs : r = run[c]
    BY <1>28, <1>0 DEF RemoveRoot, At, Idle, Parts, FilesInv, ControlOK,
       RunChosen
  <2>2. UNCHANGED <<vm, owner, cut>>
    BY <1>28 DEF RemoveRoot, qemuVars, faultVars
  <2>3. disk[r] = "gone" /\ disk' = [disk EXCEPT ![r] = "removed"]
    BY <1>28, <2>1 DEF RemoveRoot, RootEmpty
  <2>4. destroyed' = destroyed \cup {r} /\ r \notin destroyed
    BY <1>28, <2>1, <2>3 DEF RemoveRoot, SerialInv, GoneInv
  <2>5. \A q \in Runs : HasVm(q)' <=> HasVm(q)
    BY <2>2 DEF HasVm
  <2>6. ~HasVm(r)
    BY <2>3, VmPhase
  <2>7. Phase' = [Phase EXCEPT ![r] = RunPhase(r)']
    BY <2>3, <2>4, <2>5, PhaseOfOne DEF StateOK
  <2>8. RunPhase(r) = "defined" /\ RunPhase(r)' = "gone"
    BY <2>3, <2>4, <2>5, <2>6 DEF RunPhase, StateOK
  <2>9. Service!Remove(r)
    BY <2>7, <2>8 DEF Service!Remove, Service!Become, Phase
  <2> QED BY <2>9 DEF Service!Next
<1>29. ASSUME NEW c \in Operators, RemoveFails(c)
      PROVE  Service!Next \/ UNCHANGED Phase
  BY <1>29, SamePhase DEF RemoveFails, HasVm, qemuVars, faultVars
<1>30. ASSUME NEW c \in Operators, Interrupt(c)
      PROVE  Service!Next \/ UNCHANGED Phase
  BY <1>30, HaltStep DEF Interrupt, Fault, qemuVars
<1>31. ASSUME NEW c \in Operators, SaveFails(c)
      PROVE  Service!Next \/ UNCHANGED Phase
  BY <1>31, HaltStep DEF SaveFails, Fault, qemuVars
<1>32. ASSUME NEW p \in Pids, Exit(p)
      PROVE  Service!Next \/ UNCHANGED Phase
  BY <1>32, HaltStep DEF Exit, Alive, StateOK, faultVars
<1>33. CASE UNCHANGED vars
  BY <1>33, SamePhase DEF vars, HasVm, qemuVars, faultVars
<1> QED
  BY <1>1, <1>2, <1>3, <1>4, <1>5, <1>6, <1>7, <1>8, <1>9, <1>10, <1>11,
     <1>12, <1>13, <1>14, <1>15, <1>16, <1>17, <1>18, <1>19, <1>20, <1>21,
     <1>22, <1>23, <1>24, <1>25, <1>26, <1>27, <1>28, <1>29, <1>30, <1>31,
     <1>32, <1>33 DEF Next, Begin, Step

\* One command at a time, cli.py keeps what RunService promises of create,
\* start, stop and destroy, for any number of runs: ImplementsService.
THEOREM ImplementsServiceHolds ==
    ASSUME Overlap = FALSE PROVE Spec => ImplementsService
<1>1. Spec => []UsedInv
  <2>1. Typed /\ UsedInv /\ [Next]_vars => UsedInv'
    BY StepUsed
  <2>2. Spec => []Typed
    BY InitTyped, StepTyped, PTL DEF Spec
  <2> QED BY InitUsed, <2>1, <2>2, PTL DEF Spec
<1>2. RecordInv /\ SerialInv /\ UsedInv /\ [Next]_vars
      => Service!Next \/ UNCHANGED Phase
  BY StepService
<1>3. (Service!Next \/ UNCHANGED Phase)
      => [Service!Next]_([r \in Runs |-> RunPhase(r)])
  BY DEF Phase
<1> QED
  BY <1>1, <1>2, <1>3, InitService, SerialInvHolds, PTL
     DEF Spec, ImplementsService, Service!Spec
=============================================================================
