-------------------------- MODULE TuiSessionProofs --------------------------
(***************************************************************************)
(* What the interface acts on is what the screen showed, for any number of *)
(* runs and whatever other terminals do.                                   *)
(*                                                                         *)
(* The three properties speak of the moment of an action, or of a key; the *)
(* invariant carries what was true at the key through the steps in which   *)
(* the run of the action is looked up (Pending) to the action itself.      *)
(***************************************************************************)
EXTENDS TuiSession, SequenceTheorems, TLAPS

\* A key was pressed, and its action has still to find its run.
Pending == pc \in {"load", "list", "initial"} /\ after = "act"

\* The records have their fields; what is in them does not matter here.
ShapeInv ==
    /\ runs = [id \in Ids |-> [there |-> runs[id].there, state |-> runs[id].state,
                               console |-> runs[id].console]]
    /\ tui = [selected_run_id |-> tui.selected_run_id, run_ids |-> tui.run_ids,
              confirm_destroy_run_id |-> tui.confirm_destroy_run_id,
              live_console_run_id |-> tui.live_console_run_id]
    /\ held = [id |-> held.id, state |-> held.state, console |-> held.console]
    /\ screen = [selected |-> screen.selected, asked |-> screen.asked,
                 missed |-> screen.missed]
    /\ screen.missed \in BOOLEAN

\* The live console takes no key but the one that leaves it, and no question
\* is open then.
LiveInv ==
    tui.live_console_run_id # NoRun =>
       /\ tui.confirm_destroy_run_id = NoRun
       /\ pc \in {"loop", "key"} \cup Over

\* The answer is carried to the action with the question it was given to; it
\* never waits in any other place.
AnswerInv ==
    /\ (Pending \/ pc = "act") /\ action = "destroy-confirm" =>
          tui.confirm_destroy_run_id = screen.asked
    /\ tui.confirm_destroy_run_id # NoRun =>
          \/ pc \in Over
          \/ /\ pc \in {"loop", "key"}
             /\ tui.selected_run_id \in {tui.confirm_destroy_run_id, NoRun}
          \/ /\ Pending \/ pc = "act"
             /\ action = "destroy-confirm"

\* The run that is looked up is the selected one of the screen, until that
\* one is missed.
TargetInv ==
    LET shown == tui.selected_run_id = screen.selected IN
    /\ Pending /\ pc = "load" =>
         screen.missed \/ (shown /\ screen.selected # NoRun /\ There(screen.selected))
    /\ Pending /\ pc # "load" => screen.missed
    /\ pc = "act" =>
          /\ held.id = tui.selected_run_id
          /\ held.id = screen.selected \/ screen.missed

SessionInv == ShapeInv /\ LiveInv /\ AnswerInv /\ TargetInv

LEMMA InitSession == Init => SessionInv
  BY DEF Init, SessionInv, ShapeInv, LiveInv, AnswerInv, TargetInv, Pending,
     Over, NoMetadata

\* A saved run is there, and the records keep their fields.
LEMMA Saved ==
    ASSUME ShapeInv, NEW id \in Ids, NEW state, NEW console, SaveRun(id, state, console)
    PROVE  /\ runs'[id].there = "there"
           /\ runs' = [i \in Ids |-> [there |-> runs'[i].there, state |-> runs'[i].state,
                                      console |-> runs'[i].console]]
  BY DEF ShapeInv, SaveRun

LEMMA StepSession == SessionInv /\ [Next]_vars => SessionInv'
<1> SUFFICES ASSUME SessionInv, [Next]_vars PROVE SessionInv'
  OBVIOUS
<1> USE DEF SessionInv, ShapeInv, LiveInv, AnswerInv, TargetInv, Pending, Over
<1>1. ASSUME NEW id \in Ids, NEW state \in {"down", "running"}, OthersSave(id, state)
      PROVE  SessionInv'
  <2> USE <1>1 DEF OthersSave, SaveRun, loop
  <2>1. ShapeInv'
    OBVIOUS
  <2>2. LiveInv' /\ AnswerInv'
    OBVIOUS
  <2>3. TargetInv'
    BY DEF There
  <2> QED
    BY <2>1, <2>2, <2>3
<1>2. ASSUME NEW id \in Ids, OthersDestroy(id) PROVE SessionInv'
  <2> USE <1>2 DEF OthersDestroy, RemoveRun, Missed, loop
  <2>1. ShapeInv'
    OBVIOUS
  <2>2. LiveInv' /\ AnswerInv'
    OBVIOUS
  <2>3. screen.missed => screen'.missed
    OBVIOUS
  <2>4. There(screen.selected) => There(screen.selected)' \/ screen'.missed
    BY DEF There
  <2>5. screen'.selected = screen.selected
    OBVIOUS
  <2>6. TargetInv'
    BY <2>3, <2>4, <2>5
  <2> QED
    BY <2>1, <2>2, <2>6
<1>3. ASSUME NEW id \in Ids, VmDies(id) PROVE SessionInv'
  BY <1>3 DEF VmDies, There, loop
<1>4. CASE List
  <2>1. ASSUME NEW id, Select(id), pc = "list", recent = <<>> \/ id = tui.selected_run_id
        PROVE  SessionInv'
    <3> USE <2>1 DEF Select, Found, Metadata, NoMetadata
    <3>1. ShapeInv'
      OBVIOUS
    <3>2. LiveInv' /\ AnswerInv'
      OBVIOUS
    <3>3. TargetInv'
      OBVIOUS
    <3> QED
      BY <3>1, <3>2, <3>3
  <2>2. ASSUME pc = "list", pc' = "initial", tui' = [tui EXCEPT !.run_ids = recent],
               UNCHANGED <<runs, recent, action, held, after, screen>>
        PROVE  SessionInv'
    BY <2>2 DEF There
  <2>3. \/ \E id : Select(id) /\ pc = "list" /\ (recent = <<>> \/ id = tui.selected_run_id)
        \/ /\ pc = "list" /\ pc' = "initial" /\ tui' = [tui EXCEPT !.run_ids = recent]
           /\ UNCHANGED <<runs, recent, action, held, after, screen>>
    BY <1>4 DEF List
  <2> QED
    BY <2>1, <2>2, <2>3
<1>5. CASE SelectInitial
  BY <1>5 DEF SelectInitial, Found, Metadata, NoMetadata
<1>6. CASE Load
  <2>1. CASE tui.selected_run_id # NoRun /\ There(tui.selected_run_id)
    BY <1>6, <2>1 DEF Load, Found, Metadata, Break
  <2>2. CASE ~(tui.selected_run_id # NoRun /\ There(tui.selected_run_id))
    BY <1>6, <2>2 DEF Load
  <2> QED
    BY <2>1, <2>2
<1>7. CASE Status
  BY <1>7 DEF Status, SaveRun, There
<1>8. CASE Loop
  BY <1>8 DEF Loop, There
<1>9. CASE NoKey
  BY <1>9 DEF NoKey
<1>10. ASSUME NEW a \in Actions, Key(a) PROVE SessionInv'
  BY <1>10 DEF Key, KeysOf, Keys, There
<1>11. CASE Create
  <2>1. CASE (Report \/ (Break /\ UNCHANGED <<runs, recent>>)) /\ UNCHANGED <<action, screen>>
    BY <1>11, <2>1 DEF Create, Report, Break, There
  <2>2. ASSUME NEW id \in Ids, NEW state, NEW console, SaveRun(id, state, console),
               pc' \in {"loop", "broken"}, UNCHANGED <<tui, after, held, action, screen>>,
               pc = "create"
        PROVE  SessionInv'
    BY <2>2, Saved
  <2>3. ASSUME NEW id \in Ids, NEW state, NEW console, SaveRun(id, state, console),
               tui' = [tui EXCEPT !.selected_run_id = id],
               pc' = "list", after' = "status", UNCHANGED <<held, action, screen>>, pc = "create"
        PROVE  SessionInv'
    BY <2>3, Saved
  <2> QED
    BY <1>11, <2>1, <2>2, <2>3 DEF Create
<1>12. CASE NothingSelected
  BY <1>12 DEF NothingSelected, Report
<1>13. CASE Start
  <2>1. CASE Report \/ (Break /\ UNCHANGED <<runs, recent>>)
    BY <1>13, <2>1 DEF Start, Act, Report, Break, There
  <2>2. ASSUME NEW state, NEW console, SaveRun(held.id, state, console),
               pc' = "loop", UNCHANGED <<tui, held, after>>
        PROVE  SessionInv'
    BY <1>13, <2>2 DEF Start, Act, SaveRun
  <2>3. CASE ShowAgain([tui EXCEPT !.selected_run_id = held.id])
    <3>1. ShapeInv'
      <4>1. CASE UNCHANGED runs
        BY <1>13, <2>3, <4>1 DEF Start, Act, ShowAgain
      <4>2. ASSUME NEW state, NEW console, SaveRun(held.id, state, console), There(held.id)
            PROVE  ShapeInv'
        BY <1>13, <2>3, <4>2, Saved DEF Start, Act, ShowAgain, There
      <4> QED
        BY <1>13, <4>1, <4>2 DEF Start, Report, Break
    <3> QED
      BY <1>13, <2>3, <3>1 DEF Start, Act, ShowAgain
  <2> QED
    BY <1>13, <2>1, <2>2, <2>3 DEF Start
<1>14. CASE Stop
  BY <1>14 DEF Stop, Act, Report, Break, ShowAgain, SaveRun, There
<1>15. CASE DestroyRequest
  BY <1>15 DEF DestroyRequest, Act
<1>16. CASE Destroy
  <2>1. CASE tui.confirm_destroy_run_id # held.id
    BY <1>16, <2>1 DEF Destroy, Act
  <2>2. CASE Report /\ UNCHANGED <<action, screen>>
    BY <1>16, <2>2 DEF Destroy, Act, Report
  <2>3. ASSUME Break, UNCHANGED screen,
               \/ UNCHANGED <<runs, recent>>
               \/ There(held.id) /\ SaveRun(held.id, "down", runs[held.id].console)
        PROVE  SessionInv'
    <3>1. ShapeInv'
      BY <2>3, Saved DEF Break, There
    <3> QED
      BY <1>16, <2>3, <3>1 DEF Destroy, Act, Break
  <2>4. ASSUME RemoveRun(held.id), Missed(held.id), Break PROVE SessionInv'
    <3>1. ShapeInv'
      BY <2>4 DEF RemoveRun, Missed, Break
    <3> QED
      BY <1>16, <2>4, <3>1 DEF Destroy, Act, Break
  <2>5. ASSUME RemoveRun(held.id), Missed(held.id),
               ShowAgain([tui EXCEPT !.confirm_destroy_run_id = NoRun,
                                     !.selected_run_id = NoRun])
        PROVE  SessionInv'
    <3> USE <1>16, <2>5 DEF Destroy, Act, RemoveRun, Missed, ShowAgain
    <3>1. ShapeInv'
      OBVIOUS
    <3>2. LiveInv'
      OBVIOUS
    <3>3. AnswerInv'
      OBVIOUS
    <3>4. TargetInv'
      OBVIOUS
    <3> QED
      BY <3>1, <3>2, <3>3, <3>4
  <2> QED
    BY <1>16, <2>1, <2>2, <2>3, <2>4, <2>5 DEF Destroy, Act
<1>17. CASE DestroyCancel
  BY <1>17 DEF DestroyCancel, Act
<1>18. CASE SshInfo
  BY <1>18 DEF SshInfo, Act
<1>19. CASE ConsoleInfo
  BY <1>19 DEF ConsoleInfo, Act
<1>20. CASE ConsoleAttach
  BY <1>20 DEF ConsoleAttach, Act
<1>21. CASE Attach
  BY <1>21 DEF Attach
<1>22. CASE Cycle
  BY <1>22 DEF Cycle, Act
<1>23. CASE CycleOn
  BY <1>23 DEF CycleOn, Report, Neighbour
<1>24. CASE Quit
  BY <1>24 DEF Quit, Act
<1>25. CASE UNCHANGED vars
  BY <1>25 DEF vars, There, loop
<1> QED
  BY <1>1, <1>2, <1>3, <1>4, <1>5, <1>6, <1>7, <1>8, <1>9, <1>10, <1>11, <1>12, <1>13, <1>14,
     <1>15, <1>16, <1>17, <1>18, <1>19, <1>20, <1>21, <1>22, <1>23, <1>24, <1>25
     DEF Next, Step, Others, Ended

\* What leaves perform_action's dispatch and changes the runs.
LEMMA ActingSteps ==
    [Next]_vars /\ pc = "act" /\ pc' # "act" =>
       Destroy \/ Start \/ Stop \/ UNCHANGED runs
<1> SUFFICES ASSUME [Next]_vars, pc = "act", pc' # "act"
             PROVE  Destroy \/ Start \/ Stop \/ UNCHANGED runs
  OBVIOUS
<1>1. CASE Others
  BY <1>1 DEF Others, OthersSave, OthersDestroy, VmDies, loop
<1>2. CASE Step
  BY <1>2 DEF Step, List, SelectInitial, Load, Status, Loop, NoKey, Key, Create,
     NothingSelected, Report, DestroyRequest, DestroyCancel, SshInfo, ConsoleInfo,
     ConsoleAttach, Attach, Cycle, CycleOn, Quit, Act, Break
<1>3. CASE Ended \/ UNCHANGED vars
  BY <1>3 DEF Ended, vars
<1> QED
  BY <1>1, <1>2, <1>3 DEF Next

\* SessionInv holds in every state of the session.
THEOREM SessionInvHolds == Spec => []SessionInv
  BY InitSession, StepSession, PTL DEF Spec

\* The interface destroys a run only in answer to a y that was typed under
\* the question for that run.
THEOREM DestroyWasAskedHolds == Spec => DestroyWasAsked
<1>1. ASSUME SessionInv, [Next]_vars, NEW id \in Ids,
             ActsOn(id), There(id), runs'[id].there = "gone"
      PROVE  action = "destroy-confirm" /\ screen.asked = id
  <2> USE <1>1 DEF ActsOn
  <2>1. CASE Destroy
    BY <2>1 DEF Destroy, Act, SessionInv, AnswerInv, Report, There, SaveRun
  <2>2. CASE Start
    BY <2>2, Saved DEF Start, Report, Break, There, SessionInv
  <2>3. CASE Stop
    BY <2>3, Saved DEF Stop, Report, Break, There, SessionInv
  <2>4. CASE UNCHANGED runs
    BY <2>4 DEF There
  <2> QED
    BY ActingSteps, <2>1, <2>2, <2>3, <2>4
<1>2. SessionInv /\ [Next]_vars =>
         [\A id \in Ids :
            ActsOn(id) /\ There(id) /\ runs'[id].there = "gone" =>
               action = "destroy-confirm" /\ screen.asked = id]_vars
  BY <1>1
<1> QED
  BY SessionInvHolds, <1>2, PTL DEF Spec, DestroyWasAsked

\* The interface starts, stops and destroys the run that the screen showed as
\* selected when the key was typed, unless it has been missing since.
THEOREM TargetWasShownHolds == Spec => TargetWasShown
<1>1. ASSUME SessionInv, NEW id \in Ids, ActsOn(id)
      PROVE  id = screen.selected \/ screen.missed
  BY <1>1 DEF SessionInv, TargetInv, ActsOn
<1>2. SessionInv /\ [Next]_vars =>
         [\A id \in Ids :
            ActsOn(id) /\ action \in {"start", "stop", "destroy-confirm"} /\ runs' # runs =>
               id = screen.selected \/ screen.missed]_vars
  BY <1>1
<1> QED
  BY SessionInvHolds, <1>2, PTL DEF Spec, TargetWasShown

\* While the question for a run is on the screen, no other run is selected.
THEOREM ConfirmIsSelectedHolds == Spec => []ConfirmIsSelected
<1>1. SessionInv => ConfirmIsSelected
  BY DEF SessionInv, AnswerInv, Pending, ConfirmIsSelected, Over
<1> QED
  BY SessionInvHolds, <1>1, PTL

-----------------------------------------------------------------------------
(***************************************************************************)
(* The types.  The order of the runs is the part that takes an argument:   *)
(* a save takes a run out of its place and puts it first, and the order    *)
(* keeps each run that is there once and no other.                         *)
(***************************************************************************)
Occurs(id, s) == \E i \in DOMAIN s : s[i] = id

Distinct(s) == \A i, j \in DOMAIN s : s[i] = s[j] => i = j

\* Without takes out the run it is told to, and nothing else.
LEMMA WithoutOne ==
    ASSUME NEW s \in Seq(Ids), Distinct(s), NEW id \in Ids
    PROVE  /\ Without(s, id) \in Seq(Ids) /\ Distinct(Without(s, id))
           /\ \A x \in Ids : Occurs(x, Without(s, id)) <=> Occurs(x, s) /\ x # id
<1>1. CASE ~Occurs(id, s)
  BY <1>1 DEF Without, Occurs
<1>2. CASE Occurs(id, s)
  <2> DEFINE at == CHOOSE i \in DOMAIN s : s[i] = id
             n == Len(s)
             w == [i \in 1..(n - 1) |-> s[IF i < at THEN i ELSE i + 1]]
  <2>1. n \in Nat /\ DOMAIN s = 1..n /\ s \in [1..n -> Ids]
    BY LenProperties
  <2>2. at \in 1..n /\ s[at] = id
    BY <1>2, <2>1 DEF Occurs
  <2>3. Without(s, id) = w
    BY <1>2 DEF Without, Occurs
  <2> HIDE DEF at, n
  <2>4. n - 1 \in Nat /\ \A i \in 1..(n - 1) : w[i] \in Ids
    BY <2>1, <2>2
  <2>5. w \in Seq(Ids) /\ DOMAIN w = 1..(n - 1)
    BY <2>4, SeqDef
  <2>6. Distinct(w)
    <3> SUFFICES ASSUME NEW i \in 1..(n - 1), NEW j \in 1..(n - 1), w[i] = w[j]
                 PROVE  i = j
      BY <2>5 DEF Distinct
    <3> DEFINE k == IF i < at THEN i ELSE i + 1
               l == IF j < at THEN j ELSE j + 1
    <3>1. k \in DOMAIN s /\ l \in DOMAIN s /\ s[k] = s[l]
      BY <2>1, <2>2
    <3>2. k = l
      BY <3>1 DEF Distinct
    <3> QED
      BY <3>2, <2>2, <2>1
  <2>7. ASSUME NEW x \in Ids PROVE Occurs(x, w) <=> Occurs(x, s) /\ x # id
    <3>1. ASSUME Occurs(x, w) PROVE Occurs(x, s) /\ x # id
      <4>1. PICK i \in 1..(n - 1) : w[i] = x
        BY <3>1, <2>5 DEF Occurs
      <4> DEFINE k == IF i < at THEN i ELSE i + 1
      <4>2. k \in DOMAIN s /\ s[k] = x /\ k # at
        BY <4>1, <2>1, <2>2
      <4> QED
        BY <4>2, <2>1, <2>2 DEF Occurs, Distinct
    <3>2. ASSUME Occurs(x, s), x # id PROVE Occurs(x, w)
      <4>1. PICK k \in 1..n : s[k] = x
        BY <3>2, <2>1 DEF Occurs
      <4>2. k # at
        BY <4>1, <3>2, <2>2
      <4> DEFINE i == IF k < at THEN k ELSE k - 1
      <4>3. i \in 1..(n - 1) /\ w[i] = x
        BY <4>1, <4>2, <2>1, <2>2
      <4> QED
        BY <4>3, <2>5 DEF Occurs
    <3> QED
      BY <3>1, <3>2
  <2> QED
    BY <2>3, <2>5, <2>6, <2>7
<1> QED
  BY <1>1, <1>2

\* A run that is put first is there, and the others are as they were.
LEMMA PutFirst ==
    ASSUME NEW s \in Seq(Ids), Distinct(s), NEW id \in Ids
    PROVE  LET t == <<id>> \o Without(s, id) IN
           /\ t \in Seq(Ids) /\ Distinct(t) /\ t # <<>>
           /\ \A x \in Ids : Occurs(x, t) <=> Occurs(x, s) \/ x = id
<1> DEFINE w == Without(s, id)
           t == <<id>> \o w
<1>1. w \in Seq(Ids) /\ Distinct(w) /\ \A x \in Ids : Occurs(x, w) <=> Occurs(x, s) /\ x # id
  BY WithoutOne
<1> HIDE DEF w
<1>2. <<id>> \in Seq(Ids) /\ Len(<<id>>) = 1 /\ <<id>>[1] = id
  OBVIOUS
<1>3. /\ t \in Seq(Ids) /\ Len(t) = 1 + Len(w)
      /\ \A i \in 1..(1 + Len(w)) : t[i] = IF i <= 1 THEN <<id>>[i] ELSE w[i - 1]
  BY <1>1, <1>2, ConcatProperties
<1>4. DOMAIN t = 1..(1 + Len(w)) /\ DOMAIN w = 1..Len(w) /\ Len(w) \in Nat
  BY <1>1, <1>3, LenProperties
<1>5. t[1] = id /\ \A i \in 1..Len(w) : t[i + 1] = w[i]
  BY <1>2, <1>3, <1>4
<1>6. \A i \in DOMAIN w : w[i] # id
  BY <1>1 DEF Occurs
<1> HIDE DEF t
<1>7. Distinct(t)
  <2> SUFFICES ASSUME NEW i \in DOMAIN t, NEW j \in DOMAIN t, t[i] = t[j] PROVE i = j
    BY DEF Distinct
  <2>1. \A k \in DOMAIN t : k = 1 \/ (k - 1 \in DOMAIN w /\ t[k] = w[k - 1])
    BY <1>4, <1>5
  <2>2. CASE i = 1 \/ j = 1
    BY <2>1, <2>2, <1>5, <1>6
  <2>3. CASE i # 1 /\ j # 1
    BY <2>1, <2>3, <1>1, <1>4 DEF Distinct
  <2> QED
    BY <2>2, <2>3
<1>8. ASSUME NEW x \in Ids PROVE Occurs(x, t) <=> Occurs(x, s) \/ x = id
  <2>1. Occurs(x, t) <=> x = id \/ Occurs(x, w)
    <3>1. ASSUME Occurs(x, t) PROVE x = id \/ Occurs(x, w)
      <4>1. PICK k \in DOMAIN t : t[k] = x
        BY <3>1 DEF Occurs
      <4>2. k = 1 \/ (k - 1 \in DOMAIN w /\ t[k] = w[k - 1])
        BY <4>1, <1>4, <1>5
      <4> QED
        BY <4>1, <4>2, <1>5 DEF Occurs
    <3>2. ASSUME x = id PROVE Occurs(x, t)
      BY <3>2, <1>4, <1>5 DEF Occurs
    <3>3. ASSUME Occurs(x, w) PROVE Occurs(x, t)
      <4>1. PICK i \in 1..Len(w) : w[i] = x
        BY <3>3, <1>4 DEF Occurs
      <4>2. i + 1 \in DOMAIN t /\ t[i + 1] = x
        BY <4>1, <1>4, <1>5
      <4> QED
        BY <4>2 DEF Occurs
    <3> QED
      BY <3>1, <3>2, <3>3
  <2> QED
    BY <2>1, <1>1
<1>9. t # <<>>
  BY <1>4
<1> QED
  BY <1>3, <1>7, <1>8, <1>9 DEF w, t

\* The two halves of TypeOK: the work root, and the interface.
RootOK ==
    /\ runs \in [Ids -> Run]
    /\ recent \in Seq(Ids) /\ Distinct(recent)
    /\ \A id \in Ids : There(id) <=> Occurs(id, recent)

LoopOK ==
    /\ tui \in TuiState
    /\ pc \in {"list", "initial", "load", "status", "loop", "key", "create",
               "act", "cycle", "attach"} \cup Over
    /\ action \in Actions
    /\ held \in [id : Ids \cup {NoRun}, state : {"down", "running"}, console : BOOLEAN]
    /\ after \in {"load", "status", "act", "cycle"}

ScreenOK ==
    screen \in [selected : Ids \cup {NoRun}, asked : Ids \cup {NoRun}, missed : BOOLEAN]

LEMMA TypeParts == TypeOK <=> RootOK /\ LoopOK /\ ScreenOK
  BY DEF TypeOK, RootOK, LoopOK, ScreenOK, Distinct, Occurs

LEMMA RootKept == RootOK /\ UNCHANGED <<runs, recent>> => RootOK'
  BY DEF RootOK, There

LEMMA RootSaved ==
    ASSUME RootOK, NEW id \in Ids, NEW state \in {"down", "running"},
           NEW console \in BOOLEAN, SaveRun(id, state, console)
    PROVE  RootOK'
<1>1. runs' \in [Ids -> Run]
  BY DEF RootOK, SaveRun, Run
<1>2. \A x \in Ids : There(x)' <=> There(x) \/ x = id
  BY <1>1 DEF RootOK, SaveRun, There
<1>3. /\ recent' \in Seq(Ids) /\ Distinct(recent')
      /\ \A x \in Ids : Occurs(x, recent') <=> Occurs(x, recent) \/ x = id
  BY PutFirst DEF RootOK, SaveRun
<1> QED
  BY <1>1, <1>2, <1>3 DEF RootOK

LEMMA RootRemoved ==
    ASSUME RootOK, NEW id \in Ids, RemoveRun(id)
    PROVE  RootOK'
<1>1. runs' \in [Ids -> Run]
  BY DEF RootOK, RemoveRun, Run
<1>2. \A x \in Ids : There(x)' <=> There(x) /\ x # id
  BY <1>1 DEF RootOK, RemoveRun, There
<1>3. /\ recent' \in Seq(Ids) /\ Distinct(recent')
      /\ \A x \in Ids : Occurs(x, recent') <=> Occurs(x, recent) /\ x # id
  BY WithoutOne DEF RootOK, RemoveRun
<1> QED
  BY <1>1, <1>2, <1>3 DEF RootOK

\* _cycle_selection stays within the list it goes through.
LEMMA NeighbourIsListed ==
    ASSUME NEW ids \in Seq(Ids), ids # <<>>, NEW id, NEW step \in {1, -1}
    PROVE  Neighbour(ids, id, step) \in Ids
<1> DEFINE n == Len(ids)
<1>1. n \in Nat /\ n > 0 /\ DOMAIN ids = 1..n /\ \A i \in 1..n : ids[i] \in Ids
  BY EmptySeq, LenProperties
<1>2. CASE \E i \in DOMAIN ids : ids[i] = id
  <2> DEFINE index == (CHOOSE i \in DOMAIN ids : ids[i] = id) - 1
             next == (index + step + n) % n
  <2>1. index \in Int
    BY <1>1, <1>2
  <2> HIDE DEF index, n
  <2>2. next \in 0..(n - 1)
    BY <1>1, <2>1
  <2>3. Neighbour(ids, id, step) = ids[next + 1]
    BY <1>2 DEF Neighbour, index, n
  <2> QED
    BY <1>1, <2>2, <2>3
<1>3. CASE ~\E i \in DOMAIN ids : ids[i] = id
  BY <1>3, HeadTailProperties DEF Neighbour
<1> QED
  BY <1>2, <1>3

LEMMA InitTypes == Init => TypeOK
<1> SUFFICES ASSUME Init PROVE RootOK /\ LoopOK /\ ScreenOK
  BY TypeParts
<1>1. PICK n \in {0, 1} : recent \in [1..n -> Ids]
  BY DEF Init
<1>2. recent \in Seq(Ids) /\ DOMAIN recent = 1..n
  BY <1>1, SeqDef
<1>3. RootOK
  <2>1. runs \in [Ids -> Run]
    <3>1. /\ [there |-> "never", state |-> "down", console |-> FALSE] \in Run
          /\ [there |-> "there", state |-> "down", console |-> TRUE] \in Run
      BY DEF Run
    <3> QED
      BY <3>1 DEF Init
  <2>2. Distinct(recent)
    BY <1>2 DEF Distinct
  <2>3. \A id \in Ids : There(id) <=> Occurs(id, recent)
    BY DEF Init, Occurs
  <2> QED
    BY <1>2, <2>1, <2>2, <2>3 DEF RootOK
<1>4. LoopOK /\ ScreenOK
  <2>1. tui \in TuiState
    BY EmptySeq DEF Init, TuiState
  <2>2. held \in [id : Ids \cup {NoRun}, state : {"down", "running"}, console : BOOLEAN]
    BY DEF Init, NoMetadata
  <2>3. ScreenOK
    BY DEF Init, ScreenOK
  <2> QED
    BY <2>1, <2>2, <2>3 DEF Init, LoopOK, Actions
<1> QED
  BY <1>3, <1>4

LEMMA StepTypes == TypeOK /\ [Next]_vars => TypeOK'
<1>a. TypeOK' <=> RootOK' /\ LoopOK' /\ ScreenOK'
  BY TypeParts, PTL
<1> SUFFICES ASSUME RootOK, LoopOK, ScreenOK, [Next]_vars
             PROVE  RootOK' /\ LoopOK' /\ ScreenOK'
  BY <1>a, TypeParts
<1> USE DEF LoopOK, ScreenOK, TuiState, Over
<1>0. ASSUME NEW id \in Ids
      PROVE  Metadata(id) \in [id : Ids \cup {NoRun}, state : {"down", "running"}, console : BOOLEAN]
  BY DEF Metadata, RootOK, Run
<1>1. ASSUME NEW id \in Ids, NEW state \in {"down", "running"}, OthersSave(id, state)
      PROVE  RootOK' /\ LoopOK' /\ ScreenOK'
  <2>1. PICK console \in BOOLEAN : SaveRun(id, state, console)
    BY <1>1 DEF OthersSave, RootOK, Run
  <2> QED
    BY <1>1, <2>1, RootSaved DEF OthersSave, loop
<1>2. ASSUME NEW id \in Ids, OthersDestroy(id) PROVE RootOK' /\ LoopOK' /\ ScreenOK'
  <2>1. RootOK'
    BY <1>2, RootRemoved DEF OthersDestroy
  <2>2. LoopOK'
    BY <1>2 DEF OthersDestroy, loop
  <2>3. ScreenOK'
    BY <1>2 DEF OthersDestroy, Missed
  <2> QED
    BY <2>1, <2>2, <2>3
<1>3. ASSUME NEW id \in Ids, VmDies(id) PROVE RootOK' /\ LoopOK' /\ ScreenOK'
  BY <1>3 DEF VmDies, loop, RootOK, Run, There
<1>4. CASE List
  <2>1. ASSUME NEW id \in Ids \cup {NoRun}, Select(id), id # NoRun => id \in Ids
        PROVE  RootOK' /\ LoopOK' /\ ScreenOK'
    BY <2>1, <1>0, RootKept DEF Select, Found, NoMetadata, RootOK
  <2>2. ASSUME tui' = [tui EXCEPT !.run_ids = recent], pc' = "initial",
               UNCHANGED <<runs, recent, action, held, after, screen>>
        PROVE  RootOK' /\ LoopOK' /\ ScreenOK'
    BY <2>2, RootKept DEF RootOK
  <2> QED
    BY <1>4, <2>1, <2>2 DEF List
<1>5. CASE SelectInitial
  <2>1. UNCHANGED <<runs, recent, action, screen>> /\ pc' = after /\ after' = "status"
    BY <1>5 DEF SelectInitial, Found
  <2>2. tui' \in TuiState
    <3>1. recent \in Seq(Ids) /\ Candidates \subseteq DOMAIN recent
      BY DEF RootOK, Candidates, Running
    <3>2. ASSUME NEW id \in Ids \cup {NoRun}, tui' = [tui EXCEPT !.selected_run_id = id]
          PROVE  tui' \in TuiState
      BY <3>2
    <3> QED
      BY <1>5, <3>1, <3>2 DEF SelectInitial
  <2>3. held' \in [id : Ids \cup {NoRun}, state : {"down", "running"}, console : BOOLEAN]
    <3>1. CASE held' = NoMetadata
      BY <3>1 DEF NoMetadata
    <3>2. ASSUME NEW i \in DOMAIN recent, held' = Metadata(recent[i])
          PROVE  held' \in [id : Ids \cup {NoRun}, state : {"down", "running"}, console : BOOLEAN]
      BY <3>2, <1>0 DEF RootOK
    <3> QED
      BY <1>5, <3>1, <3>2 DEF SelectInitial, Found, Candidates, Running
  <2> QED
    BY <2>1, <2>2, <2>3, RootKept
<1>6. CASE Load
  BY <1>6, <1>0, RootKept DEF Load, Found, Break, There
<1>7. CASE Status
  <2>1. LoopOK' /\ ScreenOK'
    BY <1>7 DEF Status
  <2>2. RootOK'
    BY <1>7, RootKept, RootSaved DEF Status
  <2> QED
    BY <2>1, <2>2
<1>8. CASE Loop
  BY <1>8, RootKept DEF Loop
<1>9. CASE NoKey
  BY <1>9, RootKept DEF NoKey, Actions
<1>10. ASSUME NEW a \in Actions, Key(a) PROVE RootOK' /\ LoopOK' /\ ScreenOK'
  BY <1>10, RootKept DEF Key
<1>11. CASE Create
  <2>1. ScreenOK' /\ LoopOK'
    BY <1>11 DEF Create, Report, Break
  <2>2. ASSUME Report \/ (Break /\ UNCHANGED <<runs, recent>>) PROVE RootOK'
    BY <2>2, RootKept DEF Report
  <2>3. ASSUME NEW id \in Ids, NEW state \in {"down", "running"}, NEW console \in BOOLEAN,
               SaveRun(id, state, console)
        PROVE  RootOK'
    BY <2>3, RootSaved
  <2>4. \/ Report
        \/ Break /\ UNCHANGED <<runs, recent>>
        \/ \E id \in Ids : \/ SaveRun(id, "down", FALSE)
                           \/ \E state \in {"down", "running"} : SaveRun(id, state, TRUE)
    BY <1>11 DEF Create
  <2>5. RootOK'
    BY <2>2, <2>3, <2>4
  <2> QED
    BY <2>1, <2>5
<1>12. CASE NothingSelected
  BY <1>12, RootKept DEF NothingSelected, Report
<1>13. CASE Start
  <2>1. ScreenOK' /\ LoopOK'
    BY <1>13 DEF Start, Act, Report, Break, ShowAgain
  <2>2. runs[held.id].console \in BOOLEAN \/ ~There(held.id)
    BY DEF RootOK, Run, There
  <2>3. RootOK'
    BY <1>13, <2>2, RootKept, RootSaved DEF Start, Act, Report, There
  <2> QED
    BY <2>1, <2>3
<1>14. CASE Stop
  <2>1. ScreenOK' /\ LoopOK'
    BY <1>14 DEF Stop, Act, Report, Break, ShowAgain
  <2>2. runs[held.id].console \in BOOLEAN \/ ~There(held.id)
    BY DEF RootOK, Run, There
  <2>3. RootOK'
    BY <1>14, <2>2, RootKept, RootSaved DEF Stop, Act, Report, There
  <2> QED
    BY <2>1, <2>3
<1>15. CASE DestroyRequest
  BY <1>15, RootKept DEF DestroyRequest, Act
<1>16. CASE Destroy
  <2>1. LoopOK'
    <3>1. CASE tui.confirm_destroy_run_id # held.id
      BY <1>16, <3>1 DEF Destroy, Act
    <3>2. CASE Report \/ Break
      BY <1>16, <3>2 DEF Destroy, Act, Report, Break
    <3>3. ASSUME NEW tui1 \in TuiState, ShowAgain(tui1) PROVE LoopOK'
      BY <1>16, <3>3 DEF Destroy, Act, ShowAgain
    <3>4. [tui EXCEPT !.confirm_destroy_run_id = NoRun, !.selected_run_id = NoRun] \in TuiState
      OBVIOUS
    <3> QED
      BY <1>16, <3>1, <3>2, <3>3, <3>4 DEF Destroy
  <2>2. ScreenOK'
    BY <1>16 DEF Destroy, Act, Report, Missed
  <2>3. RootOK'
    <3>1. There(held.id) => held.id \in Ids /\ runs[held.id].console \in BOOLEAN
      BY DEF RootOK, Run, There
    <3> QED
      BY <1>16, <3>1, RootKept, RootRemoved, RootSaved DEF Destroy, Act, Report
  <2> QED
    BY <2>1, <2>2, <2>3
<1>17. CASE DestroyCancel
  BY <1>17, RootKept DEF DestroyCancel, Act
<1>18. CASE SshInfo
  BY <1>18, RootKept DEF SshInfo, Act
<1>19. CASE ConsoleInfo
  BY <1>19, RootKept DEF ConsoleInfo, Act
<1>20. CASE ConsoleAttach
  BY <1>20, RootKept DEF ConsoleAttach, Act
<1>21. CASE Attach
  BY <1>21, RootKept DEF Attach
<1>22. CASE Cycle
  BY <1>22, RootKept DEF Cycle, Act
<1>23. CASE CycleOn
  BY <1>23, RootKept, NeighbourIsListed DEF CycleOn, Report
<1>24. CASE Quit
  BY <1>24, RootKept DEF Quit, Act
<1>25. CASE UNCHANGED vars
  BY <1>25, RootKept DEF vars
<1> QED
  BY <1>1, <1>2, <1>3, <1>4, <1>5, <1>6, <1>7, <1>8, <1>9, <1>10, <1>11, <1>12, <1>13, <1>14,
     <1>15, <1>16, <1>17, <1>18, <1>19, <1>20, <1>21, <1>22, <1>23, <1>24, <1>25
     DEF Next, Step, Others, Ended

\* Every variable has its type; in particular list_runs shows, in the order of
\* the last save, each run that is there, once, and none that is not.
THEOREM SessionTypes == Spec => []TypeOK
  BY InitTypes, StepTypes, PTL DEF Spec

-----------------------------------------------------------------------------
(***************************************************************************)
(* A live console closes.  What the fairness of FairSpec says of a loop    *)
(* that is never stuck needs no ENABLED: its steps are taken again and     *)
(* again unless the interface ends.                                        *)
(***************************************************************************)
LoopGoesOn == []<>(pc \in Over) \/ []<><<Step>>_vars

LEMMA FairLoopGoesOn == WF_vars(Step) /\ []NeverStuck => LoopGoesOn
<1>1. NeverStuck => pc \in Over \/ ENABLED <<Step>>_vars
  BY DEF NeverStuck
<1> QED
  BY <1>1, PTL DEF LoopGoesOn

\* It takes at most two steps of the loop, whatever others do meanwhile.
LEMMA LiveConsoleCloses == Spec /\ LoopGoesOn => LiveCloses
<1> SUFFICES ASSUME NEW id \in Ids
             PROVE  Spec /\ LoopGoesOn =>
                      ((tui.live_console_run_id = id /\ ~There(id)) ~>
                         (tui.live_console_run_id # id \/ There(id) \/ pc \in Over))
  BY DEF LiveCloses
<1> DEFINE Open == tui.live_console_run_id = id /\ ~There(id)
           Closed == tui.live_console_run_id # id \/ There(id) \/ pc \in Over
<1>1. SessionInv /\ Open => pc = "loop" \/ pc = "key" \/ Closed
  BY NoRunAssumption DEF SessionInv, LiveInv
<1>2. SessionInv /\ Open /\ pc = "loop" /\ [Next]_vars => (Open /\ pc = "loop")' \/ Closed'
  <2> SUFFICES ASSUME SessionInv, Open, pc = "loop", [Next]_vars
               PROVE  (Open /\ pc = "loop")' \/ Closed'
    OBVIOUS
  <2>1. CASE Loop
    BY <2>1, NoRunAssumption DEF Loop, SessionInv, ShapeInv
  <2>2. CASE Others
    BY <2>2 DEF Others, OthersSave, OthersDestroy, VmDies, loop
  <2>3. CASE UNCHANGED vars
    BY <2>3 DEF vars, There
  <2> QED
    BY <2>1, <2>2, <2>3 DEF Next, Ended, Step, List, SelectInitial, Load, Status, NoKey, Key,
       Create, NothingSelected, Start, Stop, DestroyRequest, Destroy, DestroyCancel,
       SshInfo, ConsoleInfo, ConsoleAttach, Attach, Cycle, CycleOn, Quit, Act
<1>3. SessionInv /\ Open /\ pc = "loop" /\ <<Step>>_vars => Closed'
  <2> SUFFICES ASSUME SessionInv, Open, pc = "loop", Step PROVE Closed'
    OBVIOUS
  <2>1. Loop
    BY DEF Step, List, SelectInitial, Load, Status, NoKey, Key,
       Create, NothingSelected, Start, Stop, DestroyRequest, Destroy, DestroyCancel,
       SshInfo, ConsoleInfo, ConsoleAttach, Attach, Cycle, CycleOn, Quit, Act
  <2> QED
    BY <2>1, NoRunAssumption DEF Loop, SessionInv, ShapeInv
<1>4. SessionInv /\ Open /\ pc = "key" /\ [Next]_vars =>
         (Open /\ (pc = "key" \/ pc = "loop"))' \/ Closed'
  <2> SUFFICES ASSUME SessionInv, Open, pc = "key", [Next]_vars
               PROVE  (Open /\ (pc = "key" \/ pc = "loop"))' \/ Closed'
    OBVIOUS
  <2>1. CASE NoKey
    BY <2>1 DEF NoKey, There
  <2>2. ASSUME NEW a \in Actions, Key(a) PROVE Closed'
    <3>1. KeysOf = {"console-exit"}
      BY NoRunAssumption DEF KeysOf, SessionInv, LiveInv
    <3>2. tui'.live_console_run_id = NoRun
      BY <2>2, <3>1 DEF Key, SessionInv, ShapeInv
    <3> QED
      BY <3>2, NoRunAssumption
  <2>3. CASE Others
    BY <2>3 DEF Others, OthersSave, OthersDestroy, VmDies, loop
  <2>4. CASE UNCHANGED vars
    BY <2>4 DEF vars, There
  <2> QED
    BY <2>1, <2>2, <2>3, <2>4 DEF Next, Ended, Step, List, SelectInitial, Load, Status, Loop,
       Create, NothingSelected, Start, Stop, DestroyRequest, Destroy, DestroyCancel,
       SshInfo, ConsoleInfo, ConsoleAttach, Attach, Cycle, CycleOn, Quit, Act
<1>5. SessionInv /\ Open /\ pc = "key" /\ <<Step>>_vars => (Open /\ pc = "loop")' \/ Closed'
  <2> SUFFICES ASSUME SessionInv, Open, pc = "key", Step PROVE (Open /\ pc = "loop")' \/ Closed'
    OBVIOUS
  <2>1. CASE NoKey
    BY <2>1 DEF NoKey, There
  <2>2. ASSUME NEW a \in Actions, Key(a) PROVE Closed'
    <3>1. KeysOf = {"console-exit"}
      BY NoRunAssumption DEF KeysOf, SessionInv, LiveInv
    <3>2. tui'.live_console_run_id = NoRun
      BY <2>2, <3>1 DEF Key, SessionInv, ShapeInv
    <3> QED
      BY <3>2, NoRunAssumption
  <2> QED
    BY <2>1, <2>2 DEF Step, List, SelectInitial, Load, Status, Loop,
       Create, NothingSelected, Start, Stop, DestroyRequest, Destroy, DestroyCancel,
       SshInfo, ConsoleInfo, ConsoleAttach, Attach, Cycle, CycleOn, Quit, Act
<1>6. Open \/ Closed
  OBVIOUS
<1>7. pc \in Over => ~(pc = "loop") /\ ~(pc = "key")
  BY DEF Over
<1> QED
  BY <1>1, <1>2, <1>3, <1>4, <1>5, <1>6, <1>7, SessionInvHolds, PTL DEF Spec, LoopGoesOn

\* The live console of a run that another terminal destroys is closed without
\* a key, unless the run comes back.
THEOREM LiveClosesHolds == FairSpec /\ []NeverStuck => LiveCloses
  BY FairLoopGoesOn, LiveConsoleCloses, PTL DEF FairSpec

=============================================================================
