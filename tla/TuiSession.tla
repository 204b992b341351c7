---------------------------- MODULE TuiSession ----------------------------
(***************************************************************************)
(* A session of the terminal interface (tui.py) over a work root that      *)
(* other terminals use too.  The interface reads the runs again and again: *)
(* to draw, to find the run a key is meant for, to act on it and to show   *)
(* the outcome.  Between two of these steps runs appear, change and go.    *)
(*                                                                         *)
(* What the commands do to a run in detail is RunLifecycle's subject; here *)
(* each is a step with its possible outcomes.  A run's state is what       *)
(* refresh_runtime_state makes of its record.                              *)
(***************************************************************************)
EXTENDS Integers, Sequences

CONSTANTS
    Ids,        \* bound: the runs there may ever be
    NoRun       \* None, of a run id or of metadata

ASSUME NoRunAssumption == NoRun \notin Ids

VARIABLES
    runs,       \* the records of the work root
    recent,     \* the ids in list_runs, the last saved first (updated_at)
    tui,        \* TuiState
    pc,         \* where _run_loop is
    action,     \* the action of the last key
    held,       \* the metadata in its hands
    after,      \* what a reading of the runs is for: the pc that follows it
    screen      \* what was on the screen when the key was pressed, and whether
                \* the run selected there has been missing since

vars == <<runs, recent, tui, pc, action, held, after, screen>>
loop == <<tui, pc, action, held, after>>

\* console: runtime.serial_socket is set, which start_vm does.
Run == [there : {"never", "there", "gone"}, state : {"down", "running"},
        console : BOOLEAN]

TuiState ==
    [selected_run_id : Ids \cup {NoRun}, run_ids : Seq(Ids),
     confirm_destroy_run_id : Ids \cup {NoRun},
     live_console_run_id : Ids \cup {NoRun}]

Metadata(id) == [id |-> id, state |-> runs[id].state, console |-> runs[id].console]

NoMetadata == [id |-> NoRun, state |-> "down", console |-> FALSE]

There(id) == id \in Ids /\ runs[id].there = "there"

Keys == {"quit", "refresh", "create", "start", "stop", "destroy-request",
         "ssh-info", "console-info", "console-attach", "next-run", "previous-run"}

\* It has ended: by q, by an AppError outside perform_action, or by another
\* exception, which nothing catches.
Over == {"exited", "crashed", "broken"}

Actions == Keys \cup {"none", "console-exit", "destroy-confirm", "destroy-cancel"}

\* run_tui: a refresh, then the status of the selected run.
Init ==
    /\ runs \in [Ids -> {[there |-> "never", state |-> "down", console |-> FALSE],
                         [there |-> "there", state |-> "down", console |-> TRUE]}]
    /\ recent \in [1..(IF \E id \in Ids : There(id) THEN 1 ELSE 0) -> Ids]
    /\ \A id \in Ids : There(id) <=> \E i \in DOMAIN recent : recent[i] = id
    /\ tui = [selected_run_id |-> NoRun, run_ids |-> <<>>,
              confirm_destroy_run_id |-> NoRun, live_console_run_id |-> NoRun]
    /\ pc = "list" /\ action = "none"
    /\ held = NoMetadata /\ after = "load"
    /\ screen = [selected |-> NoRun, asked |-> NoRun, missed |-> FALSE]

-----------------------------------------------------------------------------
(***************************************************************************)
(* The work root.                                                          *)
(***************************************************************************)
Without(s, id) ==
    IF \A i \in DOMAIN s : s[i] # id THEN s
    ELSE LET at == CHOOSE i \in DOMAIN s : s[i] = id IN
         [i \in 1..(Len(s) - 1) |-> s[IF i < at THEN i ELSE i + 1]]

\* save_metadata: the run is the last saved, and is there if it was not.
SaveRun(id, state, console) ==
    /\ runs' = [runs EXCEPT ![id] = [there |-> "there", state |-> state,
                                     console |-> console]]
    /\ recent' = <<id>> \o Without(recent, id)

\* Variant: the record outlives the directory.
RemoveAllButRecord(id) ==
    /\ runs' = [runs EXCEPT ![id] = [there |-> "gone", state |-> "down",
                                     console |-> FALSE]]
    /\ recent' = recent

\* destroy_run_root
RemoveRun(id) ==
    /\ runs' = [runs EXCEPT ![id] = [there |-> "gone", state |-> "down",
                                     console |-> FALSE]]
    /\ recent' = Without(recent, id)

Missed(id) == screen' = [screen EXCEPT !.missed = @ \/ id = screen.selected]

\* Another terminal creates, starts, stops or looks at a run.
OthersSave(id, state) ==
    /\ runs[id].there # "gone"
    /\ \E console \in {runs[id].console, runs[id].console \/ state = "running"} :
          SaveRun(id, state, console)
    /\ UNCHANGED <<loop, screen>>

OthersDestroy(id) ==
    /\ There(id)
    /\ RemoveRun(id)
    /\ Missed(id)
    /\ UNCHANGED loop

VmDies(id) ==
    /\ There(id) /\ runs[id].state = "running"
    /\ runs' = [runs EXCEPT ![id].state = "down"]
    /\ UNCHANGED <<recent, loop, screen>>

Others ==
    \E id \in Ids :
       \/ \E state \in {"down", "running"} : OthersSave(id, state)
       \/ OthersDestroy(id)
       \/ VmDies(id)

-----------------------------------------------------------------------------
(***************************************************************************)
(* Reading the runs.                                                       *)
(***************************************************************************)

\* The reading is over: metadata is what it found.
Found(metadata) ==
    /\ held' = metadata
    /\ pc' = after /\ after' = "status"
    /\ UNCHANGED <<runs, recent, action, screen>>

Select(id) ==
    /\ tui' = [tui EXCEPT !.selected_run_id = id, !.run_ids = recent]
    /\ Found(IF id = NoRun THEN NoMetadata ELSE Metadata(id))

\* refresh_selection: the runs are listed, and listed again by
\* select_initial_run if the selected one is not among them.
List ==
    /\ pc = "list"
    /\ IF recent = <<>> THEN Select(NoRun)
       ELSE IF \E i \in DOMAIN recent : recent[i] = tui.selected_run_id
       THEN Select(tui.selected_run_id)
       ELSE /\ tui' = [tui EXCEPT !.run_ids = recent]
            /\ pc' = "initial"
            /\ UNCHANGED <<runs, recent, action, held, after, screen>>

Running == {i \in DOMAIN recent : runs[recent[i]].state = "running"}

Candidates == IF Running = {} THEN DOMAIN recent ELSE Running

\* Variant: an empty list of runs has no last one.
SelectInitialOfSome ==
    /\ pc = "initial"
    /\ \E i \in Candidates :
          /\ \A j \in Candidates : i <= j
          /\ tui' = [tui EXCEPT !.selected_run_id = recent[i]]
          /\ Found(Metadata(recent[i]))

\* select_initial_run: the last saved of the runs that are running, or of all.
SelectInitial ==
    /\ pc = "initial"
    /\ \/ /\ recent = <<>>
          /\ tui' = [tui EXCEPT !.selected_run_id = NoRun]
          /\ Found(NoMetadata)
       \/ \E i \in Candidates :
             /\ \A j \in Candidates : i <= j
             /\ tui' = [tui EXCEPT !.selected_run_id = recent[i]]
             /\ Found(Metadata(recent[i]))

\* Variant: the run that matters most is taken instead.
LoadInitial ==
    /\ pc = "load"
    /\ pc' = "initial"
    /\ UNCHANGED <<runs, recent, tui, action, held, after, screen>>

\* The record or the process changes under the interface's hands: read_json
\* finds a record half written or just removed, os.kill a process that has
\* ended, rmtree a file that is gone.
Break == pc' = "broken" /\ UNCHANGED <<tui, held, after>>

\* _selected_metadata: the selected run, or whatever a refresh selects.
Load ==
    /\ pc = "load"
    /\ IF tui.selected_run_id # NoRun /\ There(tui.selected_run_id)
       THEN \/ Found(Metadata(tui.selected_run_id)) /\ UNCHANGED tui
            \/ Break /\ UNCHANGED <<runs, recent, action, screen>>
       ELSE /\ pc' = "list"
            /\ UNCHANGED <<runs, recent, tui, action, held, after, screen>>

\* _status_lines and format_status, which saves what it shows, or fails to
\* and goes on.  The state it has is refreshed once more.
Status ==
    /\ pc = "status"
    /\ pc' = "loop"
    /\ \/ UNCHANGED <<runs, recent>>
       \/ /\ held.id # NoRun
          /\ \E state \in {"down", held.state} :
                /\ state = "running" => runs[held.id].state = "running"
                /\ SaveRun(held.id, state, held.console)
    /\ UNCHANGED <<tui, action, held, after, screen>>

-----------------------------------------------------------------------------
(***************************************************************************)
(* _run_loop: the live console, the screen, and a key.                     *)
(***************************************************************************)

\* Variant: a live console whose run is gone stays.
LoopKeepsLive ==
    /\ pc = "loop"
    /\ pc' = "key"
    /\ UNCHANGED <<runs, recent, tui, action, held, after, screen>>

\* _refresh_live_console and _draw.  A run without a console raises an
\* AppError that nothing catches.
Loop ==
    LET live == tui.live_console_run_id IN
    /\ pc = "loop"
    /\ IF live = NoRun THEN pc' = "key" /\ UNCHANGED tui
       ELSE IF ~There(live)
       THEN pc' = "key" /\ tui' = [tui EXCEPT !.live_console_run_id = NoRun]
       ELSE /\ pc' \in {IF runs[live].console THEN "key" ELSE "crashed", "broken"}
            /\ UNCHANGED tui
    /\ UNCHANGED <<runs, recent, action, held, after, screen>>

\* _key_to_action
KeysOf ==
    CASE tui.live_console_run_id # NoRun -> {"console-exit"}
      [] tui.confirm_destroy_run_id # NoRun ->
            Keys \cup {"destroy-confirm", "destroy-cancel"}
      [] OTHER -> Keys

\* No key for a second, or one that means nothing here.
NoKey ==
    /\ pc = "key"
    /\ pc' = "loop" /\ action' = "none"
    /\ UNCHANGED <<runs, recent, tui, held, after, screen>>

\* Variant: a question that was not answered stays open.
KeyKeepsConfirm(a) ==
    /\ pc = "key" /\ a \in KeysOf
    /\ action' = a
    /\ tui' = [tui EXCEPT !.live_console_run_id = IF a = "console-exit" THEN NoRun ELSE @]
    /\ pc' = CASE a \in {"console-exit", "refresh"} -> "list"
               [] a = "create" -> "create"
               [] OTHER -> "load"
    /\ after' = IF a \in {"console-exit", "refresh"} THEN "status" ELSE "act"
    /\ screen' = [selected |-> tui.selected_run_id,
                  asked |-> tui.confirm_destroy_run_id,
                  missed |-> tui.selected_run_id # NoRun => ~There(tui.selected_run_id)]
    /\ UNCHANGED <<runs, recent, held>>

\* A key, and the beginning of perform_action.
Key(a) ==
    /\ pc = "key" /\ a \in KeysOf
    /\ action' = a
    /\ tui' = [tui EXCEPT
                 !.confirm_destroy_run_id =
                    IF a \in {"destroy-confirm", "console-exit"} THEN @ ELSE NoRun,
                 !.live_console_run_id = IF a = "console-exit" THEN NoRun ELSE @]
    /\ pc' = CASE a \in {"console-exit", "refresh"} -> "list"
               [] a = "create" -> "create"
               [] OTHER -> "load"
    /\ after' = IF a \in {"console-exit", "refresh"} THEN "status" ELSE "act"
    /\ screen' = [selected |-> tui.selected_run_id,
                  asked |-> tui.confirm_destroy_run_id,
                  missed |-> tui.selected_run_id # NoRun => ~There(tui.selected_run_id)]
    /\ UNCHANGED <<runs, recent, held>>

-----------------------------------------------------------------------------
(***************************************************************************)
(* perform_action.                                                         *)
(***************************************************************************)

\* An AppError is shown; a quiet end looks the same here.
Report == pc' = "loop" /\ UNCHANGED <<runs, recent, tui, held, after>>

\* _action_create: no config is chosen; create_run refuses, or fails and
\* leaves a failed run, or gives a new run.  What fails with another exception
\* than AppError, before or after the first save, ends the interface.
Create ==
    /\ pc = "create"
    /\ \/ Report
       \/ Break /\ UNCHANGED <<runs, recent>>
       \/ \E id \in Ids :
             /\ runs[id].there = "never"
             /\ \/ /\ SaveRun(id, "down", FALSE)
                   /\ pc' \in {"loop", "broken"} /\ UNCHANGED <<tui, after>>
                \/ /\ \E state \in {"down", "running"} : SaveRun(id, state, TRUE)
                   /\ tui' = [tui EXCEPT !.selected_run_id = id]
                   /\ pc' = "list" /\ after' = "status"
             /\ UNCHANGED held
    /\ UNCHANGED <<action, screen>>

\* _require_selected_metadata finds nothing: no action, not even quit.
NothingSelected ==
    /\ pc = "act" /\ held.id = NoRun
    /\ Report
    /\ UNCHANGED <<action, screen>>

Act(a) == pc = "act" /\ held.id # NoRun /\ action = a /\ UNCHANGED action

ShowAgain(tui1) ==
    /\ tui' = tui1
    /\ pc' = "list" /\ after' = "status"
    /\ UNCHANGED held

\* start_existing_run: the run is gone or another one is active; or its record
\* cannot be read, or qemu or its pidfile; or it runs already; or QEMU starts,
\* or does not and the run is saved as failed.
Start ==
    /\ Act("start")
    /\ \/ Report
       \/ /\ There(held.id)
          /\ \/ Break /\ UNCHANGED <<runs, recent>>
             \/ SaveRun(held.id, "down", runs[held.id].console)
                /\ pc' = "loop" /\ UNCHANGED <<tui, held, after>>
             \/ /\ \/ SaveRun(held.id, "running", TRUE) \/ SaveRun(held.id, "down", TRUE)
                   \/ runs[held.id].state = "running" /\ UNCHANGED <<runs, recent>>
                /\ ShowAgain([tui EXCEPT !.selected_run_id = held.id])
    /\ UNCHANGED screen

\* stop_existing_run: its one AppError is that the run is gone.
Stop ==
    /\ Act("stop")
    /\ \/ ~There(held.id) /\ Report
       \/ There(held.id) /\ Break /\ UNCHANGED <<runs, recent>>
       \/ /\ There(held.id)
          /\ SaveRun(held.id, "down", runs[held.id].console)
          /\ ShowAgain([tui EXCEPT !.selected_run_id = held.id])
    /\ UNCHANGED screen

DestroyRequest ==
    /\ Act("destroy-request")
    /\ tui' = [tui EXCEPT !.confirm_destroy_run_id = held.id]
    /\ pc' = "loop"
    /\ UNCHANGED <<runs, recent, held, after, screen>>

\* Variant: the answer is taken for the run that is selected now.
DestroySelected ==
    /\ Act("destroy-confirm")
    /\ \/ ~There(held.id) /\ Report /\ UNCHANGED screen
       \/ /\ There(held.id)
          /\ RemoveRun(held.id) /\ Missed(held.id)
          /\ ShowAgain([tui EXCEPT !.confirm_destroy_run_id = NoRun,
                                   !.selected_run_id = NoRun])

\* _action_destroy: only the run that was asked about; another one is asked
\* about now.  destroy_run finds the run gone; or breaks before the stop,
\* after it or in rmtree, with or without the record; or destroys the run.
Destroy ==
    /\ Act("destroy-confirm")
    /\ IF tui.confirm_destroy_run_id # held.id
       THEN /\ tui' = [tui EXCEPT !.confirm_destroy_run_id = held.id]
            /\ pc' = "loop"
            /\ UNCHANGED <<runs, recent, held, after, screen>>
       ELSE \/ ~There(held.id) /\ Report /\ UNCHANGED screen
            \/ /\ There(held.id) /\ Break /\ UNCHANGED screen
               /\ \/ UNCHANGED <<runs, recent>>
                  \/ SaveRun(held.id, "down", runs[held.id].console)
            \/ /\ There(held.id)
               /\ RemoveRun(held.id) /\ Missed(held.id)
               /\ \/ Break
                  \/ ShowAgain([tui EXCEPT !.confirm_destroy_run_id = NoRun,
                                           !.selected_run_id = NoRun])

DestroyCancel ==
    /\ Act("destroy-cancel")
    /\ tui' = [tui EXCEPT !.confirm_destroy_run_id = NoRun]
    /\ pc' = "loop"
    /\ UNCHANGED <<runs, recent, held, after, screen>>

\* format_ssh_info saves like format_status.
SshInfo ==
    /\ Act("ssh-info")
    /\ pc' = "status"
    /\ UNCHANGED <<runs, recent, tui, held, after, screen>>

\* The live console is on before attach_console may raise its AppError.
ConsoleInfo ==
    /\ Act("console-info")
    /\ tui' = [tui EXCEPT !.live_console_run_id = held.id]
    /\ pc' = "loop"
    /\ UNCHANGED <<runs, recent, held, after, screen>>

ConsoleAttach ==
    /\ Act("console-attach")
    /\ pc' = "attach"
    /\ UNCHANGED <<runs, recent, tui, held, after, screen>>

\* ConsoleAttachRequested in _run_loop: the run is loaded again, and the
\* AppErrors of load_metadata and attach_console leave the loop.
Attach ==
    /\ pc = "attach"
    /\ \/ pc' = IF There(held.id) /\ runs[held.id].console THEN "loop" ELSE "crashed"
       \/ There(held.id) /\ pc' = "broken"
    /\ UNCHANGED <<runs, recent, tui, action, held, after, screen>>

\* _cycle_selection
Cycle ==
    /\ Act("next-run") \/ Act("previous-run")
    /\ pc' = (IF tui.run_ids = <<>> THEN "list" ELSE "cycle")
    /\ after' = "cycle"
    /\ UNCHANGED <<runs, recent, tui, held, screen>>

Neighbour(ids, id, step) ==
    IF \E i \in DOMAIN ids : ids[i] = id
    THEN LET index == (CHOOSE i \in DOMAIN ids : ids[i] = id) - 1 IN
         ids[((index + step + Len(ids)) % Len(ids)) + 1]
    ELSE Head(ids)

CycleOn ==
    LET step == IF action = "next-run" THEN 1 ELSE -1 IN
    /\ pc = "cycle"
    /\ IF tui.run_ids = <<>> THEN Report
       ELSE /\ tui' = [tui EXCEPT !.selected_run_id =
                          Neighbour(tui.run_ids, tui.selected_run_id, step)]
            /\ pc' = "load" /\ after' = "status"
            /\ UNCHANGED <<runs, recent, held>>
    /\ UNCHANGED <<action, screen>>

Quit ==
    /\ Act("quit")
    /\ pc' = "exited"
    /\ UNCHANGED <<runs, recent, tui, held, after, screen>>

Ended == pc \in Over /\ UNCHANGED vars

Step ==
    \/ List \/ SelectInitial \/ Load \/ Status \/ Loop \/ NoKey
    \/ \E a \in Actions : Key(a)
    \/ Create \/ NothingSelected \/ Start \/ Stop
    \/ DestroyRequest \/ Destroy \/ DestroyCancel
    \/ SshInfo \/ ConsoleInfo \/ ConsoleAttach \/ Attach
    \/ Cycle \/ CycleOn \/ Quit

Next == Step \/ Others \/ Ended

Spec == Init /\ [][Next]_vars

\* The loop goes on by itself: getch gives up after a second.  stop may wait
\* for an answer of QEMU for ever; LiveCloses, the one property that uses the
\* fairness, speaks of a live console, and no command is under way then.
FairSpec == Spec /\ WF_vars(Step)

-----------------------------------------------------------------------------
TypeOK ==
    /\ runs \in [Ids -> Run]
    /\ recent \in Seq(Ids) /\ tui \in TuiState
    /\ \A i, j \in DOMAIN recent : recent[i] = recent[j] => i = j
    /\ \A id \in Ids : There(id) <=> \E i \in DOMAIN recent : recent[i] = id
    /\ pc \in {"list", "initial", "load", "status", "loop", "key", "create",
               "act", "cycle", "attach"} \cup Over
    /\ action \in Actions
    /\ held \in [id : Ids \cup {NoRun}, state : {"down", "running"}, console : BOOLEAN]
    /\ after \in {"load", "status", "act", "cycle"}
    /\ screen \in [selected : Ids \cup {NoRun}, asked : Ids \cup {NoRun},
                   missed : BOOLEAN]

\* A step of an action on the run that is held, not of another terminal.
ActsOn(id) == pc = "act" /\ pc' # "act" /\ held.id = id

\* The interface destroys a run only in answer to a y that was typed under
\* the question for that very run, also when the selection has moved to
\* another run because the first one is gone.
DestroyWasAsked ==
    [][\A id \in Ids :
          ActsOn(id) /\ There(id) /\ runs'[id].there = "gone" =>
             action = "destroy-confirm" /\ screen.asked = id]_vars

\* The interface starts, stops and destroys the run that the screen showed as
\* selected when the key was typed, unless that run has been missing since, or
\* none was selected.
TargetWasShown ==
    [][\A id \in Ids :
          ActsOn(id) /\ action \in {"start", "stop", "destroy-confirm"} /\ runs' # runs =>
             id = screen.selected \/ screen.missed]_vars

\* While the question for a run is on the screen, the keys that act on the
\* selected run act on that run, or on none.
ConfirmIsSelected ==
    pc = "key" /\ tui.confirm_destroy_run_id # NoRun =>
       tui.selected_run_id \in {tui.confirm_destroy_run_id, NoRun}

\* The live console of a run that another terminal destroys is closed without
\* a key, unless the run comes back.
LiveCloses ==
    \A id \in Ids :
       (tui.live_console_run_id = id /\ ~There(id)) ~>
          (tui.live_console_run_id # id \/ There(id) \/ pc \in Over)

\* Until it ends the interface can always go on, whatever other terminals did
\* to the runs between two of its steps: no list, selection or record that it
\* finds changed or gone leaves it without a way out.
NeverStuck == pc \notin Over => ENABLED <<Step>>_vars

\* test_action_errors_are_reported_in_state: an AppError is shown and the
\* interface goes on.
ErrorsAreReported == pc # "crashed"
=============================================================================
