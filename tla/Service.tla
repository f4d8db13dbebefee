------------------------------ MODULE Service ------------------------------
(***************************************************************************)
(* The life of the daemon (src/main.rs) and what its configuration does to *)
(* it: the checks at startup, the sweep of workspaces and its repetition,  *)
(* the watcher that reloads WORKFLOW.md, and the versions that the tick,   *)
(* the runs and the components built at startup work with                  *)
(* (src/config/typed.rs, src/orchestrator/tick.rs).                        *)
(*                                                                         *)
(* A version of the file is what it says: the columns it calls active and  *)
(* terminal, and whether it is "good", "invalid" (it parses, as a file     *)
(* without a front matter does, and lacks what dispatching needs) or       *)
(* "broken".  The parts of a tick are those that read the configuration;   *)
(* its races with the runs are the matter of Orchestrator, and what a run  *)
(* does with the version it keeps that of WorkerRun.                       *)
(***************************************************************************)
EXTENDS Naturals, FiniteSets

CONSTANTS
  Issues,
  Columns,     \* of the board
  Contents,    \* what may be in a file that parses
  Prefixed,    \* the issues whose directory has a name in SYMPHEO-
  MaxRuns, MaxEdits,
  MaxTroubles  \* moves and cancels, and failures of the sweep, in all

ASSUME ServiceAssumption ==
  /\ IsFiniteSet(Issues) /\ Issues # {}
  /\ Contents \subseteq [kind : {"good", "invalid"},
                         active : SUBSET Columns, terminal : SUBSET Columns]
  /\ {MaxRuns, MaxEdits, MaxTroubles} \subseteq Nat

Runs == 1..MaxRuns

VARIABLES
  file,       \* WORKFLOW.md
  edits,      \* how often it has been edited
  main,       \* where the daemon is
  boot,       \* the version the runner, the workspaces and the tracker keep
  config,     \* the version of the scheduler
  watched,    \* the watch is on the file that is read
  token,      \* an event is in the watcher's channel
  watcher,    \* where the watcher's task is
  inHand,     \* the version it has read
  step,       \* where the main loop is
  tickConfig, \* the version this part of the tick has read
  run,        \* the runs
  entry,      \* the run on file for an issue, or 0
  retry,      \* the issues with a retry
  stage,      \* where the sweep is
  doomed,     \* the terminal issues it has fetched and not come to
  board,      \* the column of each issue
  dirs,       \* the issues that have a workspace
  root,       \* the workspace root exists
  left,       \* the troubles still to come
  \* what really happened, to state the properties with
  moved,      \* runs whose issue has been moved
  ordered,    \* runs an operator has cancelled
  dropped,    \* runs that have met a configuration without their column
  missed,     \* the last edit was one nobody watched
  leftover,   \* terminal issues that had a workspace at startup
  swept,      \* the first sweep is over, well or not
  reopened    \* issues moved since the sweep has fetched them

fileVars == <<file, edits>>
watchVars == <<watched, token, watcher, inHand>>
configVars == <<boot, config>>
loopVars == <<step, tickConfig>>
runVars == <<run, entry, retry>>
sweepVars == <<stage, doomed>>
diskVars == <<dirs, root>>
truthVars == <<moved, ordered, dropped, missed, leftover, swept, reopened>>
vars == <<fileVars, main, configVars, watchVars, loopVars, runVars, sweepVars,
          board, diskVars, left, truthVars>>

Broken == [kind |-> "broken", active |-> {}, terminal |-> {}]
Versions == Contents \cup {Broken}

\* active_states and terminal_states, which may name the same column
Active(v) == v.active
Terminal(v) == v.terminal

\* the columns in which there is work
Open(v) == Active(v) \ Terminal(v)

Parses(v) == v.kind # "broken"

\* validate_for_dispatch
Valid(v) == v.kind = "good"

NoRun == [pc |-> "none", issue |-> CHOOSE i \in Issues : TRUE,
          cancelled |-> FALSE]
Over == [NoRun EXCEPT !.pc = "over"]

Init ==
  /\ file \in Versions /\ edits = 0
  /\ main = "starting"
  /\ boot = Broken /\ config = Broken
  /\ watched = FALSE /\ token = FALSE /\ watcher = "off" /\ inHand = Broken
  /\ step = "between" /\ tickConfig = Broken
  /\ run = [r \in Runs |-> NoRun] /\ entry = [i \in Issues |-> 0] /\ retry = {}
  /\ stage = "none" /\ doomed = {}
  /\ board \in [Issues -> Columns]
  /\ dirs \in SUBSET Issues
  /\ root \in BOOLEAN /\ (dirs # {} => root)
  /\ left = MaxTroubles
  /\ moved = {} /\ ordered = {} /\ dropped = {} /\ missed = FALSE
  /\ leftover = {} /\ swept = FALSE /\ reopened = {}

-----------------------------------------------------------------------------
(* Startup.                                                                *)

\* The file does not load or does not validate, or the command of the CLI is
\* not found.
StartFails ==
  /\ main = "starting"
  /\ main' = "exited"
  /\ UNCHANGED <<fileVars, configVars, watchVars, loopVars, runVars, sweepVars,
                 board, diskVars, left, truthVars>>

\* seeded fault: the daemon is up before the first sweep is over
StartUnswept ==
  /\ main = "starting" /\ Valid(file)
  /\ main' = "up"
  /\ boot' = file /\ config' = file
  /\ stage' = "fetch"
  /\ leftover' = {i \in dirs : board[i] \in Terminal(file)}
  /\ UNCHANGED <<fileVars, watchVars, loopVars, runVars, doomed, board, diskVars,
                 left, moved, ordered, dropped, missed, swept, reopened>>

\* The sweep begins; all that is built now keeps this version.
Start ==
  /\ main = "starting" /\ Valid(file)
  /\ main' = "sweeping"
  /\ boot' = file /\ config' = file
  /\ stage' = "fetch"
  /\ leftover' = {i \in dirs : board[i] \in Terminal(file)}
  /\ UNCHANGED <<fileVars, watchVars, loopVars, runVars, doomed, board, diskVars,
                 left, moved, ordered, dropped, missed, swept, reopened>>

\* The watcher's task is spawned with the rest once the sweep is over; an
\* error of the watch is logged or ignored.
WatcherStarts ==
  /\ main = "up" /\ watcher = "off"
  /\ watched' \in BOOLEAN
  /\ watcher' = "waiting"
  /\ UNCHANGED <<fileVars, main, configVars, token, inHand, loopVars, runVars,
                 sweepVars, board, diskVars, left, truthVars>>

\* Nothing of the process is left: memory, runs, retries.
Crash ==
  /\ main \in {"sweeping", "up"}
  /\ main' = "exited"
  /\ boot' = Broken /\ config' = Broken
  /\ watched' = FALSE /\ token' = FALSE /\ watcher' = "off" /\ inHand' = Broken
  /\ step' = "between" /\ tickConfig' = Broken
  /\ run' = [r \in Runs |-> IF run[r].pc = "none" THEN NoRun ELSE Over]
  /\ entry' = [i \in Issues |-> 0] /\ retry' = {}
  /\ stage' = "none" /\ doomed' = {}
  /\ moved' = {} /\ ordered' = {} /\ dropped' = {} /\ missed' = FALSE
  /\ leftover' = {} /\ swept' = FALSE /\ reopened' = {}
  /\ UNCHANGED <<fileVars, board, diskVars, left>>

Restart ==
  /\ main = "exited"
  /\ main' = "starting"
  /\ UNCHANGED <<fileVars, configVars, watchVars, loopVars, runVars, sweepVars,
                 board, diskVars, left, truthVars>>

-----------------------------------------------------------------------------
(* do_cleanup, first within main, then in a task of its own.               *)

\* seeded fault: a repeated sweep goes by the reloaded configuration
SweepFetchReloaded ==
  /\ stage = "fetch"
  /\ doomed' = {i \in Issues : board[i] \in Terminal(config)}
  /\ reopened' = {}
  /\ stage' = "remove"
  /\ UNCHANGED <<fileVars, main, configVars, watchVars, loopVars, runVars, board,
                 diskVars, left, moved, ordered, dropped, missed, leftover, swept>>

\* The terminal states are those of the start, also when it is repeated.
SweepFetch ==
  /\ stage = "fetch"
  /\ doomed' = {i \in Issues : board[i] \in Terminal(boot)}
  /\ reopened' = {}
  /\ stage' = "remove"
  /\ UNCHANGED <<fileVars, main, configVars, watchVars, loopVars, runVars, board,
                 diskVars, left, moved, ordered, dropped, missed, leftover, swept>>

\* seeded fault: a sweep that failed is not repeated
SweepFailsForGood ==
  /\ stage' = "done" /\ main' = "up" /\ swept' = TRUE

\* The first sweep is waited for, but not its success.
SweepFails == stage' = "asleep" /\ main' = "up" /\ swept' = TRUE

\* The tracker does not answer.
SweepUnanswered ==
  /\ stage = "fetch" /\ left > 0
  /\ left' = left - 1
  /\ SweepFails
  /\ UNCHANGED <<fileVars, configVars, watchVars, loopVars, runVars, doomed, board,
                 diskVars, moved, ordered, dropped, missed, leftover, reopened>>

\* remove_workspace: an error is logged, and the sweep goes on.
SweepRemove(i) ==
  /\ stage = "remove" /\ i \in doomed
  /\ doomed' = doomed \ {i}
  /\ \/ /\ dirs' = dirs \ {i}
        /\ leftover' = leftover \cap dirs'
        /\ UNCHANGED left
     \/ /\ left > 0 /\ i \in dirs
        /\ left' = left - 1
        /\ leftover' = leftover \ {i}
        /\ UNCHANGED dirs
  /\ UNCHANGED <<fileVars, main, configVars, watchVars, loopVars, runVars, stage,
                 board, root, moved, ordered, dropped, missed, swept, reopened>>

\* Then the root is opened; without a root that is a failure.
SweepList ==
  /\ stage = "remove" /\ doomed = {}
  /\ IF root THEN stage' = "list" /\ UNCHANGED <<main, swept>> ELSE SweepFails
  /\ reopened' = {}
  /\ UNCHANGED <<fileVars, configVars, watchVars, loopVars, runVars, doomed, board,
                 diskVars, left, moved, ordered, dropped, missed, leftover>>

\* A directory in SYMPHEO- goes unless its issue is found active: what is asked
\* about is the rest of its name, and the tracker may not answer, so that each
\* may go or stay.
SweepOrphan(i) ==
  /\ stage = "list" /\ i \in Prefixed \cap dirs
  /\ dirs' = dirs \ {i}
  /\ leftover' = leftover \ {i}
  /\ UNCHANGED <<fileVars, main, configVars, watchVars, loopVars, runVars, sweepVars,
                 board, root, left, moved, ordered, dropped, missed, swept,
                 reopened>>

SweepEnds ==
  /\ stage = "list"
  /\ stage' = "done" /\ main' = "up" /\ swept' = TRUE
  /\ UNCHANGED <<fileVars, configVars, watchVars, loopVars, runVars, doomed, board,
                 diskVars, left, moved, ordered, dropped, missed, leftover,
                 reopened>>

\* next_entry fails in the middle of the listing.
SweepBreaksOff ==
  /\ stage = "list" /\ left > 0
  /\ left' = left - 1
  /\ SweepFails
  /\ UNCHANGED <<fileVars, configVars, watchVars, loopVars, runVars, doomed, board,
                 diskVars, moved, ordered, dropped, missed, leftover, reopened>>

\* The interval's first tick is immediate, the others come after 5 minutes.
SweepAgain ==
  /\ stage = "asleep"
  /\ stage' = "fetch"
  /\ UNCHANGED <<fileVars, main, configVars, watchVars, loopVars, runVars, doomed,
                 board, diskVars, left, truthVars>>

-----------------------------------------------------------------------------
(* The watcher.                                                            *)

TakeToken ==
  /\ watcher = "waiting" /\ token
  /\ token' = FALSE
  /\ watcher' = "settling"
  /\ UNCHANGED <<fileVars, main, configVars, watched, inHand, loopVars, runVars,
                 sweepVars, board, diskVars, left, truthVars>>

\* The runs whose column is none to work in any more.
StuckBy(v) == {r \in Runs : /\ run[r].pc \in {"spawned", "working"}
                            /\ board[run[r].issue] \notin Open(v)}

\* seeded fault: the events of the 500 ms and of the reading are dropped
ReloadDraining ==
  /\ watcher = "loaded"
  /\ config' = inHand /\ inHand' = Broken
  /\ dropped' = dropped \cup StuckBy(inHand)
  /\ token' = FALSE
  /\ watcher' = "waiting"
  /\ UNCHANGED <<fileVars, main, boot, watched, loopVars, runVars, sweepVars,
                 board, diskVars, left, moved, ordered, missed, leftover, swept,
                 reopened>>

\* 500 ms later the file is read; an error is logged.
ReadFile ==
  /\ watcher = "settling"
  /\ IF Parses(file) THEN watcher' = "loaded" /\ inHand' = file
                     ELSE watcher' = "waiting" /\ UNCHANGED inHand
  /\ UNCHANGED <<fileVars, main, configVars, watched, token, loopVars, runVars,
                 sweepVars, board, diskVars, left, truthVars>>

\* reload_config: nothing is validated.
Reload ==
  /\ watcher = "loaded"
  /\ config' = inHand /\ inHand' = Broken
  /\ dropped' = dropped \cup StuckBy(inHand)
  /\ watcher' = "waiting"
  /\ UNCHANGED <<fileVars, main, boot, watched, token, loopVars, runVars, sweepVars,
                 board, diskVars, left, moved, ordered, missed, leftover, swept,
                 reopened>>

-----------------------------------------------------------------------------
(* The main loop: tick, process_retries.                                   *)

Cancelled(rs) == [r \in Runs |-> IF r \in rs THEN [run[r] EXCEPT !.cancelled = TRUE]
                                 ELSE run[r]]

\* reconcile reads the configuration, then asks the tracker.
ReconcileReads ==
  /\ main = "up" /\ step = "between"
  /\ tickConfig' = config
  /\ step' = "reconciling"
  /\ UNCHANGED <<fileVars, main, configVars, watchVars, runVars, sweepVars, board,
                 diskVars, left, truthVars>>

\* An invalid configuration ends the tick, not the round of the loop.
Preflight ==
  IF Valid(config) THEN step' = "dispatching" /\ tickConfig' = config
                   ELSE step' = "between" /\ tickConfig' = Broken

\* Runs of terminal issues are told to stop; those of issues in any other
\* column than an active one are let go as well.  Then the tick goes on.
ReconcileWith(ended, strayed) ==
  /\ step = "reconciling"
  /\ run' = Cancelled({entry[i] : i \in ended \cup strayed})
  /\ entry' = [i \in Issues |-> IF i \in strayed THEN 0 ELSE entry[i]]
  /\ Preflight
  /\ UNCHANGED <<fileVars, main, configVars, watchVars, retry, sweepVars, board,
                 diskVars, left, truthVars>>

Filed == {i \in Issues : entry[i] # 0}

Ended(v) == {i \in Filed : board[i] \in Terminal(v)}

Strayed(v) == {i \in Filed : board[i] \notin Terminal(v) \cup Active(v)}

\* seeded fault: a configuration that fails validation ends what runs
ReconcileStrictly ==
  ReconcileWith(IF Valid(tickConfig) THEN Ended(tickConfig) ELSE Filed,
                Strayed(tickConfig))

Reconcile == ReconcileWith(Ended(tickConfig), Strayed(tickConfig))

StartRun(r, i) ==
  /\ run' = [run EXCEPT ![r] = [NoRun EXCEPT !.pc = "spawned", !.issue = i]]
  /\ entry' = [entry EXCEPT ![i] = r]
  /\ dropped' = dropped \cup (IF board[i] \in Open(config) THEN {} ELSE {r})

Candidates(v) == {i \in Issues : board[i] \in Active(boot) \cap Open(v)}

Fresh(r) == run[r].pc = "none" /\ \A s \in Runs : s < r => run[s].pc # "none"

\* The tracker fetches by the states of startup, the tick filters by its own.
Dispatch(r, i) ==
  /\ step = "dispatching" /\ Fresh(r)
  /\ i \in Candidates(tickConfig) /\ entry[i] = 0 /\ i \notin retry
  /\ StartRun(r, i)
  /\ UNCHANGED <<fileVars, main, configVars, watchVars, loopVars, retry, sweepVars,
                 board, diskVars, left, moved, ordered, missed, leftover, swept,
                 reopened>>

\* Also when the fetch fails or no slot is free.
DispatchEnds ==
  /\ step = "dispatching"
  /\ step' = "between" /\ tickConfig' = Broken
  /\ UNCHANGED <<fileVars, main, configVars, watchVars, runVars, sweepVars, board,
                 diskVars, left, truthVars>>

\* process_retries, after the tick and before the wait: the configuration is
\* read again, and not validated.
Retry(i) ==
  /\ step = "between" /\ i \in retry
  /\ retry' = retry \ {i}
  /\ IF i \in Candidates(config) THEN \E r \in Runs : Fresh(r) /\ StartRun(r, i)
                                 ELSE UNCHANGED <<run, entry, dropped>>
  /\ UNCHANGED <<fileVars, main, configVars, watchVars, loopVars, sweepVars, board,
                 diskVars, left, moved, ordered, missed, leftover, swept, reopened>>

-----------------------------------------------------------------------------
(* The runs.                                                               *)

\* The task is polled for the first time, and makes the workspace.
RunBegins(r) ==
  /\ run[r].pc = "spawned"
  /\ run' = [run EXCEPT ![r].pc = "working"]
  /\ dirs' = dirs \cup {run[r].issue} /\ root' = TRUE
  /\ UNCHANGED <<fileVars, main, configVars, watchVars, loopVars, entry, retry,
                 sweepVars, board, left, truthVars>>

\* The workspace of a cancelled run is removed; a run on file is retried or,
\* after its last attempt, dropped.
RunEnds(r) ==
  LET i == run[r].issue
  IN
  /\ run[r].pc = "working"
  /\ run' = [run EXCEPT ![r] = Over]
  /\ dirs' = IF run[r].cancelled THEN dirs \ {i} ELSE dirs
  /\ IF entry[i] # 0
     THEN /\ entry' = [entry EXCEPT ![i] = 0]
          /\ retry' \in {retry \cup {i}, retry}
     ELSE UNCHANGED <<entry, retry>>
  /\ moved' = moved \ {r} /\ ordered' = ordered \ {r} /\ dropped' = dropped \ {r}
  /\ UNCHANGED <<fileVars, main, configVars, watchVars, loopVars, sweepVars, board,
                 root, left, missed, leftover, swept, reopened>>

-----------------------------------------------------------------------------
(* The operator and the people at the board.                               *)

\* A file that is written to keeps its watch; one that is replaced, as many
\* editors do, takes the watch with it after a last event.
Edit ==
  /\ edits < MaxEdits
  /\ edits' = edits + 1
  /\ file' \in Versions
  /\ token' = (token \/ watched)
  /\ missed' = (main # "exited" /\ main # "starting" /\ ~watched)
  /\ watched' \in {watched, FALSE}
  /\ UNCHANGED <<main, configVars, watcher, inHand, loopVars, runVars,
                 sweepVars, board, diskVars, left, moved, ordered, dropped,
                 leftover, swept, reopened>>

\* POST /api/v1/<issue>/cancel
ApiCancel(i) ==
  /\ left > 0 /\ entry[i] # 0
  /\ left' = left - 1
  /\ run' = Cancelled({entry[i]})
  /\ ordered' = ordered \cup {entry[i]}
  /\ UNCHANGED <<fileVars, main, configVars, watchVars, loopVars, entry, retry,
                 sweepVars, board, diskVars, moved, dropped, missed, leftover,
                 swept, reopened>>

Move(i) ==
  /\ left > 0
  /\ \E c \in Columns \ {board[i]} : board' = [board EXCEPT ![i] = c]
  /\ left' = left - 1
  /\ moved' = moved \cup {r \in Runs : run[r].pc \in {"spawned", "working"}
                                       /\ run[r].issue = i}
  /\ leftover' = leftover \ {i}
  /\ reopened' = reopened \cup ({i} \cap doomed)
  /\ UNCHANGED <<fileVars, main, configVars, watchVars, loopVars, runVars,
                 sweepVars, diskVars, ordered, dropped, missed, swept>>

-----------------------------------------------------------------------------
Sweep ==
  \/ SweepFetch \/ SweepList \/ SweepEnds \/ SweepAgain
  \/ \E i \in Issues : SweepRemove(i) \/ SweepOrphan(i)

Watcher == TakeToken \/ ReadFile \/ Reload

Loop ==
  \/ ReconcileReads \/ Reconcile \/ DispatchEnds
  \/ \E i \in Issues : Retry(i) \/ \E r \in Runs : Dispatch(r, i)

Next ==
  \/ StartFails \/ Start \/ WatcherStarts \/ Crash \/ Restart
  \/ Sweep \/ SweepUnanswered \/ SweepBreaksOff \/ Watcher \/ Loop
  \/ \E r \in Runs : RunBegins(r) \/ RunEnds(r)
  \/ Edit \/ \E i \in Issues : Move(i) \/ ApiCancel(i)

Spec == Init /\ [][Next]_vars

\* The sweep's and the watcher's tasks are polled, and their timers fire.
FairSpec == Spec /\ WF_vars(Sweep) /\ WF_vars(Watcher)

-----------------------------------------------------------------------------
RunStates == [pc : {"none", "spawned", "working", "over"}, issue : Issues,
              cancelled : BOOLEAN]

\* Every variable keeps its type; the configuration is never one that does not
\* parse, and what is built at startup has passed validation.
TypeOK ==
  /\ file \in Versions /\ edits \in 0..MaxEdits
  /\ main \in {"starting", "sweeping", "up", "exited"}
  /\ main \in {"sweeping", "up"} => Valid(boot) /\ Parses(config)
  /\ boot \in Versions /\ config \in Versions
  /\ watched \in BOOLEAN /\ token \in BOOLEAN
  /\ watcher \in {"off", "waiting", "settling", "loaded"}
  /\ inHand \in Versions
  /\ step \in {"between", "reconciling", "dispatching"}
  /\ tickConfig \in Versions
  /\ run \in [Runs -> RunStates]
  /\ entry \in [Issues -> {0} \cup Runs]
  /\ retry \subseteq Issues
  /\ stage \in {"none", "fetch", "remove", "list", "asleep", "done"}
  /\ doomed \subseteq Issues
  /\ board \in [Issues -> Columns]
  /\ dirs \subseteq Issues /\ root \in BOOLEAN
  /\ left \in 0..MaxTroubles
  /\ moved \subseteq Runs /\ ordered \subseteq Runs
  /\ dropped \subseteq Runs /\ missed \in BOOLEAN
  /\ leftover \subseteq Issues /\ swept \in BOOLEAN /\ reopened \subseteq Issues

\* A run is told to stop because its issue was moved, because an operator asked
\* for it, or because a configuration that was the scheduler's while it ran
\* takes the column of its issue for one in which there is no work.  Files that
\* do not parse or do not validate, reloads in the middle of a tick and crashes
\* stop no other run.
StopsAreCalledFor ==
  \A r \in Runs : run[r].pc \in {"spawned", "working"} /\ run[r].cancelled =>
    r \in moved \cup ordered \cup dropped

\* The removals of the sweep, first or repeated, are of issues that are terminal
\* or were so when it last asked.
DoomedAreTerminal ==
  \A i \in doomed : board[i] \in Terminal(boot) \/ i \in reopened

\* The sweep takes the workspace from under a run at work only if the issue was
\* moved, since it asked or since the run began, if the directory has a name in
\* SYMPHEO-, or if the file of the start calls the column both active and
\* terminal.  Columns that became terminal by an edit cost no run its workspace.
SweepSparesRuns ==
  [][\A r \in Runs :
       /\ run[r].pc = "working" /\ run' = run
       /\ run[r].issue \in dirs \ dirs'
       => \/ r \in moved \/ run[r].issue \in reopened
          \/ stage = "list" /\ run[r].issue \in Prefixed
          \/ board[run[r].issue] \in Active(boot) \cap Terminal(boot)]_vars

\* Only a repeated sweep can meet a run: nothing runs before the first has
\* ended, well or not.
FirstSweepIsAlone ==
  ~swept => \A r \in Runs : run[r].pc \in {"none", "over"}

\* The start: what is built has been validated, the configuration is never one
\* that does not parse, and the first sweep is over before anything runs.
ServiceInv == TypeOK /\ FirstSweepIsAlone

\* A workspace left by an issue that became terminal while the daemon was down
\* is removed, even if the tracker does not answer at first, unless the removal
\* itself fails.
LeftoversAreSwept ==
  \A i \in Issues :
    i \in leftover ~> (i \notin dirs \/ i \notin leftover)

\* The last edit that parses is the scheduler's configuration in the end, if
\* the watch was on the file, however the edits before fell.
LastEditIsUsed ==
  (main = "up" /\ edits = MaxEdits /\ Parses(file) /\ ~missed)
    ~> (config = file \/ main # "up")
=============================================================================
