------------------------- MODULE RunLivenessProofs -------------------------
(***************************************************************************)
(* What must happen: commands come to an end, or wait for the QMP answer   *)
(* of a living QEMU, and a process that stop_vm goes on to stop dies,      *)
(* however the commands overlap.  The proofs rest on the fairness of       *)
(* FairSpec and on NeverStuck: ENABLED has no rule here.                   *)
(***************************************************************************)
EXTENDS RunLifecycleProofs, FiniteSetTheorems

-----------------------------------------------------------------------------
(***************************************************************************)
(* A command is a process of its own: nothing but its own steps changes    *)
(* where it is, what it works on and what it knows.                        *)
(***************************************************************************)
Own(c) == Begin(c) \/ Step(c) \/ Interrupt(c) \/ SaveFails(c)

Same(c) ==
    /\ pc'[c] = pc[c] /\ cmd'[c] = cmd[c] /\ run'[c] = run[c]
    /\ md'[c] = md[c] /\ todo'[c] = todo[c] /\ seen'[c] = seen[c]

LEMMA OthersKeepOut ==
    ASSUME Typed, NEW c \in Operators, NEW d \in Operators \ {c}, Own(d)
    PROVE  Same(c)
<1> USE DEF Typed, ControlOK, Same
<1>1. ASSUME NEW l, NEW k, NEW r, NEW f, Enter(d, l, k, r, f) PROVE Same(c)
  BY <1>1 DEF Enter
<1>2. Finish(d) => Same(c)
  BY <1>1 DEF Finish
<1>3. ASSUME NEW l, Goto(d, l) PROVE Same(c)
  BY <1>3 DEF Goto
<1>4. ASSUME NEW m, NEW l, Carry(d, m, l) PROVE Same(c)
  BY <1>4 DEF Carry
<1>5. ASSUME NEW r, NEW m, NEW l, Turn(d, r, m, l), seen'[c] = seen[c] PROVE Same(c)
  BY <1>5 DEF Turn
<1>6. NextFile(d) => Same(c)
  BY <1>5 DEF NextFile
<1> USE <1>2, <1>3, <1>4, <1>6
<1>7. CASE Begin(d)
  BY <1>7, <1>1 DEF Begin, BeginScan, BeginLoad
<1>8. CASE Interrupt(d) \/ SaveFails(d)
  BY <1>8 DEF Interrupt, SaveFails, AfterFailedSave
<1>9. ASSUME NEW r \in Runs, Scan(d, r) PROVE Same(c)
  BY <1>9 DEF Scan
<1>10. ASSUME NEW r \in Runs, MakeRun(d, r) \/ Each(d, r) PROVE Same(c)
  BY <1>10, <1>5 DEF MakeRun, Each
<1>11. ASSUME NEW p \in Pids, Launch(d, p) PROVE Same(c)
  BY <1>11 DEF Launch
<1>12. CASE ScanDone(d) \/ OpenMeta(d) \/ WriteMeta(d) \/ MakeRunFails(d)
  BY <1>12 DEF ScanDone, OpenMeta, WriteMeta, MakeRunFails, AfterSave
<1>13. CASE CreateOverlay(d) \/ Render(d) \/ StageFails(d) \/ StageAborts(d)
  BY <1>13 DEF CreateOverlay, Render, StageFails, StageAborts, Failed
<1>14. CASE ReadPid(d) \/ Assess(d) \/ EachDone(d) \/ LoadFails(d)
  BY <1>14 DEF ReadPid, Assess, EachDone, LoadFails, Failed
<1>15. CASE LoadForStart(d) \/ LoadForStop(d) \/ LoadForDestroy(d) \/ LoadForStatus(d)
  BY <1>15 DEF LoadForStart, LoadForStop, LoadForDestroy, LoadForStatus
<1>16. CASE Powerdown(d) \/ Probe(d) \/ Signal(d)
  BY <1>16 DEF Powerdown, Probe, Signal, Stopped
<1>17. CASE RemoveFile(d) \/ RemoveDirs(d) \/ RemoveRoot(d) \/ RemoveFails(d)
  BY <1>17 DEF RemoveFile, RemoveDirs, RemoveRoot, RemoveFails
<1> QED
  BY <1>7, <1>8, <1>9, <1>10, <1>11, <1>12, <1>13, <1>14, <1>15, <1>16, <1>17 DEF Own, Step

LEMMA OwnOrSame ==
    ASSUME Typed, [Next]_vars, NEW c \in Operators PROVE Own(c) \/ Same(c)
<1>1. CASE \E d \in Operators : Own(d)
  BY <1>1, OthersKeepOut
<1>2. CASE \E p \in Pids : Exit(p)
  BY <1>2 DEF Exit, opVars, Same
<1>3. CASE UNCHANGED vars
  BY <1>3 DEF vars, opVars, Same
<1> QED
  BY <1>1, <1>2, <1>3 DEF Next, Own

-----------------------------------------------------------------------------
(***************************************************************************)
(* How far a command got.  No step takes it back, except in the loops over *)
(* the records: the scan, and the saves of list-runs.                      *)
(***************************************************************************)
Busy(c) == pc[c] \notin {"idle", "scan"} /\ cmd[c] # "list"

\* The save of create_run_paths' record, from which create goes on.
FirstSave(c) == cmd[c] = "create" /\ md[c].state = "created"

Rank(c) ==
    CASE pc[c] = "mkdir" -> 1
      [] pc[c] = "save" -> IF FirstSave(c) THEN 2 ELSE 14
      [] pc[c] = "write" -> IF FirstSave(c) THEN 3 ELSE 15
      [] pc[c] = "overlay" -> 4
      [] pc[c] \in {"render", "load"} -> 5
      [] pc[c] = "launch" -> 6
      [] pc[c] = "readpid" -> 7
      [] pc[c] = "assess" -> 8
      [] pc[c] = "powerdown" -> 9
      [] pc[c] = "wait" -> 10
      [] pc[c] = "term" -> 11
      [] pc[c] = "termed" -> 12
      [] pc[c] = "kill" -> 13
      [] pc[c] = "rmtree" -> 16
      [] pc[c] \in {"rmfile", "rmdirs"} -> 17
      [] pc[c] = "rmdir" -> 18
      [] OTHER -> 0

\* Only list-runs goes through its records, and once QEMU has been launched
\* the record does not say "created" any more.
Placed(c) ==
    /\ pc[c] = "each" => cmd[c] = "list"
    /\ cmd[c] = "list" => pc[c] \in {"scan", "each", "save", "write"}
    /\ pc[c] = "assess" => md[c].state # "created"

\* Every label has its rank, and the rank rises until the command ends.
LEMMA RankRises ==
    ASSUME Typed, NEW c \in Operators, Placed(c), Busy(c), Step(c)
    PROVE  Placed(c)' /\ (pc'[c] = "idle" \/ (Busy(c)' /\ Rank(c)' > Rank(c)))
<1> USE DEF Typed, ControlOK
<1> DEFINE Up == pc'[c] = "idle" \/ (Busy(c)' /\ Rank(c)' > Rank(c))
<1>1. ASSUME NEW l, NEW k, NEW r, NEW f, Enter(c, l, k, r, f)
      PROVE  pc'[c] = l /\ cmd'[c] = k
  BY <1>1 DEF Enter
<1>2. Finish(c) => pc'[c] = "idle" /\ cmd'[c] = "none"
  BY <1>1 DEF Finish
<1>3. ASSUME NEW l, Goto(c, l) PROVE pc'[c] = l /\ cmd'[c] = cmd[c] /\ md'[c] = md[c]
  BY <1>3 DEF Goto
<1>4. ASSUME NEW m, NEW l, Carry(c, m, l) PROVE pc'[c] = l /\ cmd'[c] = cmd[c] /\ md'[c] = m
  BY <1>4 DEF Carry
<1>5. ASSUME NEW r, NEW m, NEW l, Turn(c, r, m, l)
      PROVE  pc'[c] = l /\ cmd'[c] = cmd[c] /\ md'[c] = m
  BY <1>5 DEF Turn
<1> USE <1>2, <1>3, <1>4 DEF At, Busy, Rank, FirstSave, Placed, Mark
<1>9. ASSUME NEW r \in Runs, Scan(c, r) \/ Each(c, r) PROVE FALSE
  BY <1>9 DEF Scan, Each
<1>10. ASSUME NEW r \in Runs, MakeRun(c, r) PROVE Placed(c)' /\ Up
  BY <1>10, <1>5 DEF MakeRun, InitMetadata
<1>11. ASSUME NEW p \in Pids, Launch(c, p) PROVE Placed(c)' /\ Up
  BY <1>11 DEF Launch
<1>12. CASE ScanDone(c) \/ OpenMeta(c) \/ WriteMeta(c) \/ MakeRunFails(c)
  BY <1>12 DEF ScanDone, OpenMeta, WriteMeta, MakeRunFails, AfterSave
<1>13. CASE CreateOverlay(c) \/ Render(c) \/ StageFails(c) \/ StageAborts(c)
  BY <1>13 DEF CreateOverlay, Render, StageFails, StageAborts, Failed
<1>14. CASE ReadPid(c)
  BY <1>14 DEF ReadPid, Failed
<1>15. CASE Assess(c)
  BY <1>15 DEF Assess, Refresh
<1>16. CASE EachDone(c) \/ LoadFails(c)
  BY <1>16 DEF EachDone, LoadFails
<1>17. CASE LoadForStart(c) \/ LoadForStop(c) \/ LoadForDestroy(c) \/ LoadForStatus(c)
  BY <1>17 DEF LoadForStart, LoadForStop, LoadForDestroy, LoadForStatus, LoadedBy
<1>18. CASE Powerdown(c) \/ Probe(c) \/ Signal(c)
  BY <1>18 DEF Powerdown, Probe, Signal, Stopped
<1>19. CASE RemoveFile(c) \/ RemoveDirs(c) \/ RemoveRoot(c) \/ RemoveFails(c)
  BY <1>19 DEF RemoveFile, RemoveDirs, RemoveRoot, RemoveFails
<1> QED
  BY <1>9, <1>10, <1>11, <1>12, <1>13, <1>14, <1>15, <1>16, <1>17, <1>18, <1>19 DEF Step

\* list-runs has read the records, and saves one after another.
Saving(c) == cmd[c] = "list" /\ pc[c] \in {"each", "save", "write"}

Unread(c) == {r \in Runs : Readable(seen[c][r])}

\* The scan has one file less to read, or is over.
LEMMA ScanSteps ==
    ASSUME Typed, NEW c \in Operators, Placed(c), At(c, "scan"), Step(c)
    PROVE  /\ Placed(c)'
           /\ \/ ~At(c, "scan")'
              \/ At(c, "scan")' /\ todo'[c] \subseteq todo[c] /\ todo'[c] # todo[c]
<1> USE DEF Typed, ControlOK, At, Placed
<1>1. ASSUME NEW r \in Runs, Scan(c, r)
      PROVE  /\ pc'[c] = pc[c] /\ cmd'[c] = cmd[c] /\ todo'[c] = todo[c] \ {r}
             /\ r \in todo[c]
  BY <1>1 DEF Scan
<1>2. CASE ScanDone(c)
  BY <1>2 DEF ScanDone, Goto, Finish, Enter
<1>3. (\E r \in Runs : Scan(c, r)) \/ ScanDone(c)
  BY DEF Step, MakeRun, Each, Launch, OpenMeta, WriteMeta, MakeRunFails, CreateOverlay,
     Render, StageFails, StageAborts, ReadPid, Assess, EachDone, LoadFails, LoadForStart,
     LoadForStop, LoadForDestroy, LoadForStatus, LoadedBy, Powerdown, Probe, Signal,
     RemoveFile, RemoveDirs, RemoveRoot, RemoveFails
<1> QED
  BY <1>1, <1>2, <1>3

\* Each round of list-runs takes one of the records it has read.
LEMMA ListSteps ==
    ASSUME Typed, NEW c \in Operators, Placed(c), Saving(c), Step(c)
    PROVE  /\ Placed(c)'
           /\ pc[c] = "each" =>
                 \/ pc'[c] = "idle"
                 \/ Saving(c)' /\ Unread(c)' \subseteq Unread(c) /\ Unread(c)' # Unread(c)
           /\ pc[c] \in {"save", "write"} => Saving(c)' /\ Unread(c)' = Unread(c)
           /\ pc[c] = "save" => pc'[c] = "write"
           /\ pc[c] = "write" => pc'[c] = "each"
<1> USE DEF Typed, ControlOK, At, Placed, Saving
<1>1. ASSUME NEW r \in Runs, Each(c, r)
      PROVE  /\ pc[c] = "each" /\ pc'[c] = "save" /\ cmd'[c] = cmd[c]
             /\ Unread(c)' = Unread(c) \ {r} /\ r \in Unread(c)
  <2>1. pc[c] = "each" /\ pc'[c] = "save" /\ cmd'[c] = cmd[c] /\ r \in Unread(c)
    BY <1>1 DEF Each, Turn, Unread
  <2>2. /\ seen'[c][r] = FileOf("absent")
        /\ \A q \in Runs \ {r} : seen'[c][q] = seen[c][q]
    BY <1>1 DEF Each
  <2> QED
    BY <2>1, <2>2 DEF Unread, Readable, FileOf
<1>2. CASE EachDone(c)
  BY <1>2 DEF EachDone, Finish, Enter
<1>3. CASE OpenMeta(c)
  BY <1>3 DEF OpenMeta, Goto, Unread
<1>4. CASE WriteMeta(c)
  BY <1>4 DEF WriteMeta, AfterSave, NextFile, Turn, Unread
<1>5. (\E r \in Runs : Each(c, r)) \/ EachDone(c) \/ OpenMeta(c) \/ WriteMeta(c)
  BY DEF Step, Scan, ScanDone, MakeRun, Launch, MakeRunFails, CreateOverlay,
     Render, StageFails, StageAborts, ReadPid, Assess, LoadFails, LoadForStart,
     LoadForStop, LoadForDestroy, LoadForStatus, LoadedBy, Powerdown, Probe, Signal,
     RemoveFile, RemoveDirs, RemoveRoot, RemoveFails
<1> QED
  BY <1>1, <1>2, <1>3, <1>4, <1>5

\* A command is interrupted, or one of its saves fails.
LEMMA FaultSteps ==
    ASSUME Typed, NEW c \in Operators, Placed(c), Interrupt(c) \/ SaveFails(c)
    PROVE  /\ Placed(c)'
           /\ \/ pc'[c] = "idle"
              \/ /\ Saving(c) /\ Saving(c)'
                 /\ Unread(c)' = Unread(c) /\ pc'[c] = "each"
<1> USE DEF Typed, ControlOK, At, Placed, Saving
<1>1. Finish(c) => Placed(c)' /\ pc'[c] = "idle"
  BY DEF Finish, Enter
<1>2. CASE Interrupt(c)
  BY <1>1, <1>2 DEF Interrupt
<1>3. CASE SaveFails(c)
  BY <1>1, <1>3 DEF SaveFails, AfterFailedSave, NextFile, Turn, Unread
<1> QED
  BY <1>2, <1>3

LEMMA InitPlaced == Init => \A c \in Operators : Placed(c)
  BY DEF Init, Placed

LEMMA StepPlaced ==
    ASSUME Typed, NEW c \in Operators, Placed(c), [Next]_vars PROVE Placed(c)'
<1>1. CASE Same(c)
  BY <1>1 DEF Same, Placed
<1>2. CASE Begin(c)
  BY <1>2 DEF Begin, BeginScan, BeginLoad, Enter, Placed, Typed, ControlOK
<1>3. CASE Step(c)
  <2>1. Busy(c) \/ At(c, "scan") \/ Saving(c)
    <3>1. pc[c] # "idle"
      BY <1>3 DEF Step, Scan, ScanDone, MakeRun, Each, Launch, OpenMeta, WriteMeta, MakeRunFails,
         CreateOverlay, Render, StageFails, StageAborts, ReadPid, Assess, EachDone, LoadFails,
         LoadForStart, LoadForStop, LoadForDestroy, LoadForStatus, LoadedBy, Powerdown, Probe,
         Signal, RemoveFile, RemoveDirs, RemoveRoot, RemoveFails, At
    <3> QED
      BY <3>1 DEF Busy, Saving, Placed, At
  <2> QED
    BY <1>3, <2>1, RankRises, ScanSteps, ListSteps
<1>4. CASE Interrupt(c) \/ SaveFails(c)
  BY <1>4, FaultSteps
<1> QED
  BY <1>1, <1>2, <1>3, <1>4, OwnOrSame DEF Own

LEMMA PlacedHolds == ASSUME NEW c \in Operators PROVE Spec => [](Typed /\ Placed(c))
<1>1. Init => Placed(c)
  BY InitPlaced
<1>2. Typed /\ Placed(c) /\ [Next]_vars => Placed(c)'
  BY StepPlaced
<1>3. Spec => []Typed
  BY InitTyped, StepTyped, PTL DEF Spec
<1> QED
  BY <1>1, <1>2, <1>3, PTL DEF Spec

-----------------------------------------------------------------------------
(***************************************************************************)
(* Fairness.  What WF_vars says of a command that is never stuck needs no  *)
(* ENABLED: its steps are taken again and again unless it ends, or waits   *)
(* for an answer over QMP.                                                 *)
(***************************************************************************)
Blocked(c) == At(c, "powerdown") /\ Locked(run[c])

\* What an evaluation of ENABLED would show: a command that does not wait for
\* QMP has a step to take, and SIGKILL can take effect.
NeverStuck ==
    /\ \A c \in Operators :
          ~Idle(c) /\ ~Blocked(c) => ENABLED <<Unblocked(c)>>_vars
    /\ \A p \in Pids :
          vm[p] = "killed" => ENABLED <<vm[p] = "killed" /\ Exit(p)>>_vars

GoesOn(c) == []<>(Idle(c) \/ Blocked(c)) \/ []<><<Step(c)>>_vars

LEMMA CommandsGoOn ==
    ASSUME NEW c \in Operators PROVE Fairness /\ []NeverStuck => GoesOn(c)
<1>1. Fairness => CommandRuns(c)
  BY DEF Fairness
<1>2. NeverStuck => Idle(c) \/ Blocked(c) \/ ENABLED <<Unblocked(c)>>_vars
  BY DEF NeverStuck
<1>3. <<Unblocked(c)>>_vars => <<Step(c)>>_vars
  BY DEF Unblocked
<1> QED
  BY <1>1, <1>2, <1>3, PTL DEF CommandRuns, GoesOn

Killed(p) ==
    []<>~(vm[p] = "killed") \/ []<><<vm[p] = "killed" /\ Exit(p)>>_vars

LEMMA KernelKills ==
    ASSUME NEW p \in Pids PROVE Fairness /\ []NeverStuck => Killed(p)
<1>1. Fairness => SigkillWorks(p)
  BY DEF Fairness
<1>2. NeverStuck => ~(vm[p] = "killed") \/ ENABLED <<vm[p] = "killed" /\ Exit(p)>>_vars
  BY DEF NeverStuck
<1> QED
  BY <1>1, <1>2, PTL DEF SigkillWorks, Killed

-----------------------------------------------------------------------------
(***************************************************************************)
(* Commands end.                                                           *)
(***************************************************************************)
LEMMA BusySteps ==
    ASSUME Typed, NEW c \in Operators, Placed(c), Busy(c), [Next]_vars
    PROVE  pc'[c] = "idle" \/ (Busy(c)' /\ Rank(c)' >= Rank(c))
<1>1. Rank(c) \in Nat /\ Rank(c)' \in Nat
  BY DEF Rank
<1>2. CASE Same(c)
  BY <1>1, <1>2 DEF Same, Busy, Rank, FirstSave
<1>3. CASE Begin(c)
  BY <1>3 DEF Begin, BeginScan, BeginLoad, MayBegin, Idle, Busy
<1>4. CASE Step(c)
  BY <1>1, <1>4, RankRises
<1>5. CASE Interrupt(c) \/ SaveFails(c)
  BY <1>5, FaultSteps DEF Busy, Saving
<1> QED
  BY <1>2, <1>3, <1>4, <1>5, OwnOrSame DEF Own

\* The command ends, or waits for QMP for ever.
Settled(c) == Idle(c) \/ AwaitsQmp(c)

\* The rank rises past every place but the wait for QMP (rank 9).
LEMMA BusyEnds ==
    ASSUME NEW c \in Operators PROVE Spec /\ GoesOn(c) => (Busy(c) ~> Settled(c))
<1> DEFINE Inv == Typed /\ Placed(c)
           Past(k) == Busy(c) /\ Rank(c) >= k
           Waits == At(c, "powerdown")
           Live == Locked(run[c])
           Climbs(k, n) ==
               /\ Inv /\ Past(k) /\ [Next]_vars => (Past(k) \/ Idle(c))'
               /\ Inv /\ Past(k) /\ <<Step(c)>>_vars => (Past(n) \/ Idle(c))'
           Free(k, n) == Past(k) /\ ~Past(n) => ~Blocked(c)
<1>1. Rank(c) \in 0..18 /\ Rank(c)' \in 0..18
  BY DEF Rank
<1>2. ASSUME NEW k \in Nat PROVE Climbs(k, k + 1)
  BY <1>1, BusySteps, RankRises DEF Idle
<1>3. /\ Climbs(0, 1) /\ Climbs(1, 2) /\ Climbs(2, 3) /\ Climbs(3, 4) /\ Climbs(4, 5)
      /\ Climbs(5, 6) /\ Climbs(6, 7) /\ Climbs(7, 8) /\ Climbs(8, 9) /\ Climbs(9, 10)
      /\ Climbs(10, 11) /\ Climbs(11, 12) /\ Climbs(12, 13) /\ Climbs(13, 14)
      /\ Climbs(14, 15) /\ Climbs(15, 16) /\ Climbs(16, 17) /\ Climbs(17, 18)
      /\ Climbs(18, 19)
  <2> HIDE DEF Climbs
  <2> QED
    BY <1>2
<1>4. ASSUME NEW k \in Nat \ {9} PROVE Free(k, k + 1)
  BY <1>1 DEF Blocked, At, Rank
<1>5. /\ Free(0, 1) /\ Free(1, 2) /\ Free(2, 3) /\ Free(3, 4) /\ Free(4, 5)
      /\ Free(5, 6) /\ Free(6, 7) /\ Free(7, 8) /\ Free(8, 9)
      /\ Free(10, 11) /\ Free(11, 12) /\ Free(12, 13) /\ Free(13, 14)
      /\ Free(14, 15) /\ Free(15, 16) /\ Free(16, 17) /\ Free(17, 18) /\ Free(18, 19)
  <2> HIDE DEF Free
  <2> QED
    BY <1>4
<1>6. Past(9) /\ ~Past(10) => Waits
  BY <1>1 DEF At, Rank, FirstSave
<1>7. (Busy(c) => Past(0)) /\ ~Past(19)
  BY <1>1
<1>8. Past(0) => ~Idle(c)
  BY DEF Busy, Idle
<1>9. Blocked(c) <=> Waits /\ Live
  BY DEF Blocked
<1> HIDE DEF Waits, Live
<1>10. AwaitsQmp(c) <=> <>[]Waits /\ []<>Live
  BY DEF AwaitsQmp, Waits, Live
<1> QED
  BY <1>3, <1>5, <1>6, <1>7, <1>8, <1>9, <1>10, PlacedHolds, PTL DEF GoesOn, Spec, Settled

\* What every command but list-runs has still to do after its scan ends.
LEMMA BusyCommandsEnd ==
    ASSUME NEW c \in Operators
    PROVE  FairSpec /\ []NeverStuck => (Busy(c) ~> Settled(c))
BY BusyEnds, CommandsGoOn, PTL DEF FairSpec

-----------------------------------------------------------------------------
(***************************************************************************)
(* The two loops: over the files of the work root, and over the records    *)
(* that were read.                                                         *)
(***************************************************************************)
Looping(c) == At(c, "scan") \/ Saving(c)

Out(c) == Idle(c) \/ Busy(c)

\* The rounds that are left; those of the second loop come after the first.
Work(c) ==
    IF At(c, "scan") THEN Cardinality(Runs) + 1 + Cardinality(todo[c])
    ELSE Cardinality(Unread(c))

Left(c, n) == Looping(c) /\ Work(c) = n

AtMost(c, n) == Looping(c) /\ Work(c) \in Nat /\ Work(c) <= n

Fewer(c, n) == Looping(c) /\ Work(c) \in Nat /\ Work(c) < n

LEMMA WorkBounds ==
    ASSUME Typed, IsFiniteSet(Runs), NEW c \in Operators
    PROVE  /\ Cardinality(Runs) \in Nat
           /\ Cardinality(todo[c]) \in 0..Cardinality(Runs)
           /\ Cardinality(Unread(c)) \in 0..Cardinality(Runs)
           /\ Work(c) \in 0..(2 * Cardinality(Runs) + 1)
<1>1. todo[c] \in SUBSET Runs /\ Unread(c) \in SUBSET Runs
  BY DEF Typed, ControlOK, Unread
<1>2. /\ IsFiniteSet(todo[c]) /\ Cardinality(todo[c]) <= Cardinality(Runs)
      /\ IsFiniteSet(Unread(c)) /\ Cardinality(Unread(c)) <= Cardinality(Runs)
  BY <1>1, FS_Subset
<1>3. /\ Cardinality(Runs) \in Nat /\ Cardinality(todo[c]) \in Nat
      /\ Cardinality(Unread(c)) \in Nat
  BY <1>2, FS_CardinalityType
<1> QED
  BY <1>2, <1>3 DEF Work

LEMMA FewerElements ==
    ASSUME IsFiniteSet(Runs), NEW S \in SUBSET Runs, NEW T \in SUBSET S, T # S
    PROVE  Cardinality(T) < Cardinality(S)
<1>1. IsFiniteSet(S) /\ IsFiniteSet(T)
  BY FS_Subset
<1>2. Cardinality(T) <= Cardinality(S) /\ Cardinality(S) # Cardinality(T)
  BY <1>1, FS_Subset
<1> QED
  BY <1>1, <1>2, FS_CardinalityType

\* A file less to read, or the scan is over.
LEMMA ScanRound ==
    ASSUME Typed, Typed', IsFiniteSet(Runs), NEW c \in Operators, Placed(c), NEW n \in Nat,
           At(c, "scan"), Work(c) = n, Step(c)
    PROVE  Out(c)' \/ Fewer(c, n)'
<1>1. Placed(c)'
  BY ScanSteps
<1>2. CASE At(c, "scan")' /\ todo'[c] \subseteq todo[c] /\ todo'[c] # todo[c]
  <2>1. todo[c] \in SUBSET Runs
    BY DEF Typed, ControlOK
  <2>2. Cardinality(todo'[c]) < Cardinality(todo[c])
    BY <1>2, <2>1, FewerElements
  <2>3. Cardinality(todo'[c]) \in Nat /\ Cardinality(todo[c]) \in Nat /\ Cardinality(Runs) \in Nat
    <3>1. Cardinality(todo[c]) \in Nat /\ Cardinality(Runs) \in Nat
      BY WorkBounds
    <3>2. IsFiniteSet(todo'[c])
      BY <1>2, <2>1, FS_Subset
    <3> QED
      BY <3>1, <3>2, FS_CardinalityType
  <2>4. Work(c) = Cardinality(Runs) + 1 + Cardinality(todo[c])
    BY DEF Work
  <2>5. Work(c)' = Cardinality(Runs) + 1 + Cardinality(todo'[c])
    BY <1>2 DEF Work
  <2> QED
    BY <1>2, <2>2, <2>3, <2>4, <2>5 DEF Fewer, Looping
<1>3. CASE ~At(c, "scan")'
  <2>1. CASE Saving(c)'
    <3>1. Work(c)' = Cardinality(Unread(c)')
      BY <1>3 DEF Work
    <3>2. Cardinality(Unread(c)') \in 0..Cardinality(Runs)
      <4>1. Unread(c)' \in SUBSET Runs
        BY DEF Unread
      <4> QED
        BY <4>1, FS_Subset, FS_CardinalityType
    <3>3. Work(c) >= Cardinality(Runs) + 1
      BY WorkBounds DEF Work
    <3> QED
      BY <2>1, <3>1, <3>2, <3>3, FS_CardinalityType DEF Fewer, Looping
  <2>2. CASE ~Saving(c)'
    BY <1>1, <1>3, <2>2 DEF Placed, Saving, Out, Idle, Busy, At
  <2> QED
    BY <2>1, <2>2
<1> QED
  BY <1>2, <1>3, ScanSteps

LEMMA ScanStays ==
    ASSUME Typed, NEW c \in Operators, Placed(c), At(c, "scan"), [Next]_vars
    PROVE  Step(c) \/ Out(c)' \/ (At(c, "scan")' /\ Work(c)' = Work(c))
<1>1. CASE Same(c)
  BY <1>1 DEF Same, At, Work
<1>2. CASE Begin(c)
  BY <1>2 DEF Begin, BeginScan, BeginLoad, MayBegin, Idle, At
<1>3. CASE Interrupt(c) \/ SaveFails(c)
  BY <1>3, FaultSteps DEF Saving, At, Out, Idle
<1> QED
  BY <1>1, <1>2, <1>3, OwnOrSame DEF Own

\* A record less to save, once the save of the last one is over.
LEMMA ListRound ==
    ASSUME Typed, IsFiniteSet(Runs), NEW c \in Operators, Placed(c), NEW n \in Nat,
           Saving(c), Work(c) = n, Step(c)
    PROVE  /\ pc[c] = "each" => Out(c)' \/ Fewer(c, n)'
           /\ pc[c] # "each" => Saving(c)' /\ Work(c)' = n
           /\ pc[c] = "save" => pc'[c] = "write"
           /\ pc[c] = "write" => pc'[c] = "each"
<1>1. Unread(c) \in SUBSET Runs /\ Work(c) = Cardinality(Unread(c))
  BY DEF Unread, Work, Saving, At
<1>2. pc[c] \in {"save", "write"} => Saving(c)' /\ Unread(c)' = Unread(c)
  BY ListSteps
<1>3. pc[c] # "each" => Saving(c)' /\ Work(c)' = n
  BY <1>1, <1>2 DEF Saving, Work, At
<1>4. ASSUME Saving(c)', Unread(c)' \subseteq Unread(c), Unread(c)' # Unread(c)
      PROVE  Fewer(c, n)'
  <2>1. Cardinality(Unread(c)') < Cardinality(Unread(c))
    BY <1>1, <1>4, FewerElements
  <2>2. Cardinality(Unread(c)') \in Nat
    <3>1. IsFiniteSet(Unread(c)')
      BY <1>1, <1>4, FS_Subset
    <3> QED
      BY <3>1, FS_CardinalityType
  <2>3. Work(c)' = Cardinality(Unread(c)')
    BY <1>4 DEF Saving, Work, At
  <2> QED
    BY <1>1, <1>4, <2>1, <2>2, <2>3 DEF Fewer, Looping
<1> QED
  BY <1>3, <1>4, ListSteps DEF Out, Idle

LEMMA ListStays ==
    ASSUME Typed, NEW c \in Operators, Placed(c), Saving(c), [Next]_vars
    PROVE  \/ Step(c) /\ vars' # vars
           \/ Out(c)'
           \/ Saving(c)' /\ Work(c)' = Work(c) /\ pc'[c] \in {pc[c], "each"}
<1>1. CASE Same(c)
  BY <1>1 DEF Same, At, Work, Saving, Unread
<1>2. CASE Begin(c)
  BY <1>2 DEF Begin, BeginScan, BeginLoad, MayBegin, Idle, Saving
<1>3. CASE Interrupt(c) \/ SaveFails(c)
  BY <1>3, FaultSteps DEF Saving, At, Out, Idle, Work
<1>4. CASE UNCHANGED vars
  BY <1>4 DEF vars, opVars, Saving, Unread, Work, At
<1> QED
  BY <1>1, <1>2, <1>3, <1>4, OwnOrSame DEF Own

\* No round lasts for ever.
RoundOf(c, n) == Left(c, n) ~> (Out(c) \/ Fewer(c, n))

LEMMA RoundEnds ==
    ASSUME IsFiniteSet(Runs), NEW c \in Operators, NEW n \in Nat
    PROVE  FairSpec /\ []NeverStuck => RoundOf(c, n)
<1> DEFINE Inv == Typed /\ Placed(c)
           S == At(c, "scan") /\ Work(c) = n
           W(l) == Saving(c) /\ At(c, l) /\ Work(c) = n
           L == Out(c) \/ Fewer(c, n)
<1>1. Inv /\ Inv' /\ S /\ <<Step(c)>>_vars => L'
  BY ScanRound
<1>2. Inv /\ Inv' /\ S /\ [Next]_vars => S' \/ L'
  BY ScanRound, ScanStays
<1>3. /\ Inv /\ W("save") /\ <<Step(c)>>_vars => W("write")'
      /\ Inv /\ W("write") /\ <<Step(c)>>_vars => W("each")'
      /\ Inv /\ W("each") /\ <<Step(c)>>_vars => L'
  BY ListRound DEF At
<1>4. ASSUME NEW l \in {"save", "write", "each"}
      PROVE  Inv /\ W(l) /\ [Next]_vars =>
                W(l)' \/ W("each")' \/ L' \/ (Step(c) /\ vars' # vars)
  BY ListStays DEF At
<1>5. /\ Inv /\ W("save") /\ [Next]_vars => (W("save") \/ W("each") \/ W("write") \/ L)'
      /\ Inv /\ W("write") /\ [Next]_vars => (W("write") \/ W("each") \/ L)'
      /\ Inv /\ W("each") /\ [Next]_vars => (W("each") \/ L)'
  <2> HIDE DEF W, L, Inv
  <2> QED
    BY <1>3, <1>4
<1>6. Left(c, n) => S \/ W("save") \/ W("write") \/ W("each")
  BY DEF Left, Looping, Saving, At
<1>7. S \/ W("save") \/ W("write") \/ W("each") => ~(Idle(c) \/ Blocked(c))
  BY DEF At, Idle, Blocked
<1> QED
  BY <1>1, <1>2, <1>3, <1>5, <1>6, <1>7, PlacedHolds, CommandsGoOn, PTL
     DEF GoesOn, RoundOf, FairSpec, Spec

-----------------------------------------------------------------------------
(***************************************************************************)
(* Induction over the rounds.  Ends(c, n) is proved for 0, and for n + 1   *)
(* from n.  RoundInduction draws the conclusion: it is NatInduction for    *)
(* the temporal formula Ends, which is no element of a set, and no prover  *)
(* can instantiate the operator in that theorem.                           *)
(***************************************************************************)

\* With at most n rounds to go, the loops come to an end.
Ends(c, n) == FairSpec /\ []NeverStuck => (AtMost(c, n) ~> Out(c))

LEMMA LastRoundEnds ==
    ASSUME IsFiniteSet(Runs), NEW c \in Operators PROVE Ends(c, 0)
<1>1. AtMost(c, 0) => Left(c, 0)
  BY DEF AtMost, Left
<1>2. ~Fewer(c, 0)
  BY DEF Fewer
<1>3. FairSpec /\ []NeverStuck => RoundOf(c, 0)
  BY RoundEnds
<1> QED
  BY <1>1, <1>2, <1>3, PTL DEF Ends, RoundOf

LEMMA EarlierRoundsEnd ==
    ASSUME IsFiniteSet(Runs), NEW c \in Operators, NEW n \in Nat
    PROVE  Ends(c, n) => Ends(c, n + 1)
<1>1. AtMost(c, n + 1) => Left(c, n + 1) \/ AtMost(c, n)
  BY DEF AtMost, Left
<1>2. Fewer(c, n + 1) => AtMost(c, n)
  BY DEF AtMost, Fewer
<1>3. FairSpec /\ []NeverStuck => RoundOf(c, n + 1)
  BY RoundEnds
<1> QED
  BY <1>1, <1>2, <1>3, PTL DEF Ends, RoundOf

RoundInduction ==
    \A c \in Operators :
       Ends(c, 0) /\ (\A n \in Nat : Ends(c, n) => Ends(c, n + 1)) => \A n \in Nat : Ends(c, n)

LEMMA LoopsEnd ==
    ASSUME IsFiniteSet(Runs), NEW c \in Operators
    PROVE  RoundInduction /\ FairSpec /\ []NeverStuck => (Looping(c) ~> Out(c))
<1> DEFINE N == 2 * Cardinality(Runs) + 1
<1>1. N \in Nat
  BY FS_CardinalityType
<1> HIDE DEF N
<1>2. RoundInduction => Ends(c, N)
  BY <1>1, LastRoundEnds, EarlierRoundsEnd DEF RoundInduction
<1>3. Typed /\ Looping(c) => AtMost(c, N)
  BY WorkBounds DEF AtMost, N
<1> QED
  BY <1>2, <1>3, PlacedHolds, PTL DEF Ends, FairSpec

\* Every command ends or waits for QMP, whatever the others do and whether or
\* not it is interrupted: the rank rises past everything but that wait, except
\* in the two loops, and these have fewer and fewer rounds to go.
THEOREM CommandsEndHolds ==
    ASSUME IsFiniteSet(Runs)
    PROVE  RoundInduction /\ FairSpec /\ []NeverStuck => CommandsEnd
<1> SUFFICES ASSUME NEW c \in Operators
             PROVE  RoundInduction /\ FairSpec /\ []NeverStuck =>
                       []<>Idle(c) \/ AwaitsQmp(c)
  BY DEF CommandsEnd
<1>1. Placed(c) => Idle(c) \/ Busy(c) \/ Looping(c)
  BY DEF Placed, Idle, Busy, Looping, Saving, At
<1> QED
  BY <1>1, LoopsEnd, BusyCommandsEnd, PlacedHolds, PTL
     DEF Out, FairSpec, Settled, AwaitsQmp

-----------------------------------------------------------------------------
(***************************************************************************)
(* stop_vm kills.                                                          *)
(***************************************************************************)
StopLabels == {"wait", "term", "termed", "kill"}

\* c is stopping process p, and got to label l.
Stopping(c, p, l) == At(c, l) /\ md[c].pid = p

\* The process that a record names has been launched, so if it does not answer
\* the probe it is dead.
LEMMA NamedIsLaunched ==
    ASSUME RecordInv, NEW c \in Operators, NEW p \in Pids, md[c].pid = p
    PROVE  Alive(p) \/ vm[p] = "dead"
<1>1. run[c] \in Runs
  BY NoPidAssumption DEF RecordInv, RecordsGood, HeldGood, InitMetadata, Typed, ControlOK
<1>2. owner[p] \in Runs
  BY <1>1, NoPidAssumption DEF RecordInv, RecordsGood, HeldGood, Good
<1> QED
  BY <1>2, NoPidAssumption DEF RecordInv, RecordsGood, OwnerUsed, Alive, Typed, StateOK

LEMMA StoppingSteps ==
    ASSUME RecordInv, NEW c \in Operators, NEW p \in Pids, NEW l \in StopLabels,
           Stopping(c, p, l), [Next]_vars, ~Interrupt(c)
    PROVE  Step(c) \/ Stopping(c, p, l)'
<1> USE DEF RecordInv, Stopping, At, StopLabels
<1>1. CASE Same(c)
  BY <1>1 DEF Same
<1>2. CASE Begin(c)
  BY <1>2 DEF Begin, BeginScan, BeginLoad, MayBegin, Idle
<1>3. CASE SaveFails(c)
  BY <1>3 DEF SaveFails
<1> QED
  BY <1>1, <1>2, <1>3, OwnOrSame DEF Own

\* The steps of stop_vm, one label after another.
LEMMA StopSteps ==
    ASSUME RecordInv, NEW c \in Operators, NEW p \in Pids,
           md[c].pid = p, pc[c] \in StopLabels, Step(c)
    PROVE  \/ vm'[p] = "dead"
           \/ pc[c] = "wait" /\ Stopping(c, p, "term")'
           \/ pc[c] = "term" /\ Stopping(c, p, "termed")'
           \/ pc[c] = "termed" /\ Stopping(c, p, "kill")'
           \/ pc[c] = "kill" /\ vm'[p] = "killed"
<1> USE DEF Stopping, At, StopLabels, RecordInv, Typed, ControlOK, StateOK
<1>1. Alive(p) \/ vm[p] = "dead"
  BY NamedIsLaunched
<1>2. Probe(c) \/ Signal(c)
  BY DEF Step, Powerdown, Scan, ScanDone, MakeRun, Each, Launch, OpenMeta, WriteMeta, MakeRunFails,
     CreateOverlay, Render, StageFails, StageAborts, ReadPid, Assess, EachDone, LoadFails,
     LoadForStart, LoadForStop, LoadForDestroy, LoadForStatus, LoadedBy, RemoveFile,
     RemoveDirs, RemoveRoot, RemoveFails
<1>3. CASE Probe(c)
  BY <1>1, <1>3 DEF Probe, Goto, qemuVars
<1>4. CASE Signal(c)
  BY <1>1, <1>4 DEF Signal, Goto
<1> QED
  BY <1>2, <1>3, <1>4

\* A process that was sent SIGKILL can only die.
LEMMA KilledSteps ==
    ASSUME Typed, NEW p \in Pids, vm[p] = "killed", [Next]_vars
    PROVE  vm'[p] \in {"killed", "dead"}
<1> USE DEF Typed, StateOK
<1>1. ASSUME NEW c \in Operators, Own(c) PROVE vm'[p] = vm[p] \/ vm'[p] = "killed"
  <2>1. CASE Begin(c) \/ Interrupt(c) \/ SaveFails(c)
    BY <2>1 DEF Begin, BeginScan, BeginLoad, Interrupt, SaveFails, Fault, qemuVars
  <2>2. CASE Step(c)
    BY <2>2 DEF Step, Scan, ScanDone, MakeRun, Each, Launch, OpenMeta, WriteMeta, MakeRunFails,
       CreateOverlay, Render, StageFails, StageAborts, ReadPid, Assess, EachDone, LoadFails,
       LoadForStart, LoadForStop, LoadForDestroy, LoadForStatus, LoadedBy, Powerdown, Probe,
       Signal, RemoveFile, RemoveDirs, RemoveRoot, RemoveFails, qemuVars
  <2> QED
    BY <1>1, <2>1, <2>2 DEF Own
<1>2. ASSUME NEW q \in Pids, Exit(q) PROVE vm'[p] \in {"killed", "dead"}
  BY <1>2 DEF Exit
<1>3. CASE UNCHANGED vars
  BY <1>3 DEF vars, qemuVars
<1> QED
  BY <1>1, <1>2, <1>3 DEF Next, Own

\* Once the QMP exchange of stop_vm is over the process ends, whatever the
\* other commands do, by itself or at the latest of SIGKILL, unless there is one
\* more fault.
THEOREM StopKillsHolds ==
    FairSpec /\ []NeverStuck => StopKills
<1> SUFFICES ASSUME NEW c \in Operators, NEW p \in Pids, NEW n \in 0..MaxCuts
             PROVE  FairSpec /\ []NeverStuck =>
               ((At(c, "wait") /\ md[c].pid = p /\ cuts = n) ~>
                   (vm[p] = "dead" \/ cuts > n))
  BY DEF StopKills
<1> DEFINE S(l) == Stopping(c, p, l)
           Dead == vm[p] = "dead"
           Dying == vm[p] = "killed"
           Fell == cuts > n
           Level == cuts = n
<1>1. ASSUME NEW l \in StopLabels
      PROVE  RecordInv /\ S(l) /\ Level /\ [Next]_vars =>
                (S(l) \/ Fell)' \/ (Step(c) /\ vars' # vars)
  <2>1. CASE vars' = vars
    BY <2>1 DEF vars, opVars, Stopping, At
  <2>2. Typed /\ Level /\ Interrupt(c) => Fell'
    BY DEF Interrupt, Fault, Typed, StateOK
  <2> QED
    BY <2>1, <2>2, StoppingSteps DEF RecordInv
<1>2. /\ RecordInv /\ S("wait") /\ <<Step(c)>>_vars => (S("term") \/ Dead)'
      /\ RecordInv /\ S("term") /\ <<Step(c)>>_vars => (S("termed") \/ Dead)'
      /\ RecordInv /\ S("termed") /\ <<Step(c)>>_vars => (S("kill") \/ Dead)'
      /\ RecordInv /\ S("kill") /\ <<Step(c)>>_vars => (Dying \/ Dead)'
  BY StopSteps DEF Stopping, At, StopLabels
<1>3. /\ RecordInv /\ S("wait") /\ Level /\ [Next]_vars
            => (S("wait") \/ S("term") \/ Dead \/ Fell)'
      /\ RecordInv /\ S("term") /\ Level /\ [Next]_vars
            => (S("term") \/ S("termed") \/ Dead \/ Fell)'
      /\ RecordInv /\ S("termed") /\ Level /\ [Next]_vars
            => (S("termed") \/ S("kill") \/ Dead \/ Fell)'
      /\ RecordInv /\ S("kill") /\ Level /\ [Next]_vars
            => (S("kill") \/ Dying \/ Dead \/ Fell)'
  BY <1>1, <1>2 DEF StopLabels
<1>4. /\ RecordInv /\ Dying /\ [Next]_vars => (Dying \/ Dead)'
      /\ RecordInv /\ Dying /\ <<vm[p] = "killed" /\ Exit(p)>>_vars => Dead'
  BY KilledSteps DEF RecordInv, Typed, StateOK, Exit
<1>5. Idle(c) \/ Blocked(c) =>
         ~S("wait") /\ ~S("term") /\ ~S("termed") /\ ~S("kill")
  BY DEF Stopping, At, Idle, Blocked
<1>6. S("wait") <=> At(c, "wait") /\ md[c].pid = p
  BY DEF Stopping
<1>7. RecordInv /\ Level /\ [Next]_vars => (Level \/ Fell)'
  <2> SUFFICES ASSUME Level, [Next]_vars PROVE cuts' \in {cuts, cuts + 1}
    OBVIOUS
  <2>1. ASSUME NEW d \in Operators, Begin(d) PROVE cuts' = cuts
    BY <2>1 DEF Begin, BeginScan, BeginLoad, faultVars
  <2>2. ASSUME NEW d \in Operators, Step(d) PROVE cuts' = cuts
    BY <2>2 DEF Step, Scan, ScanDone, MakeRun, Each, Launch, OpenMeta, WriteMeta, MakeRunFails,
       CreateOverlay, Render, StageFails, StageAborts, ReadPid, Assess, EachDone, LoadFails,
       LoadForStart, LoadForStop, LoadForDestroy, LoadForStatus, LoadedBy, Powerdown, Probe,
       Signal, RemoveFile, RemoveDirs, RemoveRoot, RemoveFails, faultVars
  <2>3. ASSUME NEW d \in Operators, Interrupt(d) \/ SaveFails(d) PROVE cuts' = cuts + 1
    BY <2>3 DEF Interrupt, SaveFails, Fault
  <2>4. ASSUME NEW q \in Pids, Exit(q) PROVE cuts' = cuts
    BY <2>4 DEF Exit, faultVars
  <2>5. CASE UNCHANGED vars
    BY <2>5 DEF vars, faultVars
  <2> QED
    BY <2>1, <2>2, <2>3, <2>4, <2>5 DEF Next
<1> QED
  BY <1>2, <1>3, <1>4, <1>5, <1>6, <1>7, RecordInvHolds, CommandsGoOn, KernelKills, PTL
     DEF GoesOn, Killed, FairSpec, Spec
=============================================================================
