----------------------------- MODULE WorkerRun -----------------------------
(***************************************************************************)
(* The successive worker runs of one issue: run_worker and the wrapper     *)
(* around it (src/orchestrator/tick.rs), and the directory they share      *)
(* (src/workspace/manager.rs).                                             *)
(*                                                                         *)
(* Orchestrator has a run in three coarse phases; here is its turn loop.   *)
(* What the rest of the scheduler may do to a run is the environment: it   *)
(* starts one when none is on file, sets its flag, or drops its entry.     *)
(* What the git commands of a run do to its clone is WorkTree's; in a      *)
(* directory without a clone they are taken to fail.  Hooks succeed or     *)
(* fail.  The deletion of the directory by a stall kill is not modelled.   *)
(***************************************************************************)
EXTENDS Integers, WorkTree

CONSTANTS
  States, Active, Terminal,  \* as in Orchestrator
  MaxTurns,                  \* agent.max_turns
  StateTurns,                \* agent.max_turns_per_state, 0 where it has none
  InProgress,                \* the column on whose entry a branch is made
  NotListed

ASSUME RunAssumption ==
  /\ Active \subseteq States
  /\ Terminal \subseteq States
  /\ NotListed \notin States
  /\ MaxTurns \in Nat \ {0}
  /\ StateTurns \in [States -> Nat]
  /\ InProgress \in States

VARIABLES
  tracker,     \* the column the issue is in
  dir,         \* its workspace: not there, still empty, or set up
  tree,        \* the clone in it
  named,       \* issue.branch_name is Some
  pc,          \* where the run is
  known,       \* run_worker's `issue.state`
  turn,        \* turn_number
  answer,      \* what the last refresh said
  result,      \* Ok or Err
  cancelled,   \* the flag shared with the RunningEntry
  entry,       \* the RunningEntry is on file
  stagnation,  \* its stagnation_counter
  still        \* history: the column has not changed during this run

runVars   == <<pc, known, turn, answer, result>>
entryVars == <<cancelled, entry, stagnation, still>>
treeVars  == <<tree, named>>
vars == <<tracker, dir, treeVars, runVars, entryVars>>

StagnationLimit == 3

Dispatchable(s) == s \in Active \ Terminal

Init ==
  /\ tracker \in States \cup {NotListed}
  /\ dir = "absent"
  /\ tree = FreshTree
  /\ named = FALSE
  /\ pc = "off"
  /\ known = NotListed
  /\ turn = 0
  /\ answer = NotListed
  /\ result = "ok"
  /\ cancelled = FALSE
  /\ entry = FALSE
  /\ stagnation = 0
  /\ still = FALSE

-----------------------------------------------------------------------------
(* Leaving run_worker: `return Err` or `?` from wherever it is, and the    *)
(* normal end of the turn loop.  (stop_session does nothing in any         *)
(* adapter.)                                                               *)

Fail ==
  /\ pc' = "afterRun"
  /\ result' = "err"
  /\ UNCHANGED <<known, turn, answer>>

Break ==
  /\ pc' = "teardown"
  /\ UNCHANGED <<known, turn, result>>

-----------------------------------------------------------------------------
(* A run starts with a fresh entry, in the column the scheduler last saw.  *)

Start(s) ==
  /\ pc = "off"
  /\ ~entry
  /\ Dispatchable(s)
  /\ pc' = "create"
  /\ known' = s
  /\ turn' = 0
  /\ answer' = s
  /\ result' = "ok"
  /\ cancelled' = FALSE
  /\ entry' = TRUE
  /\ stagnation' = 0
  /\ still' = (tracker = s)
  /\ named' \in BOOLEAN  \* as the tracker has it
  /\ UNCHANGED <<tracker, dir, tree>>

\* create_or_reuse: an existing directory is taken as it is.
Reuse ==
  /\ pc = "create"
  /\ dir # "absent"
  /\ pc' = "prepare"
  /\ UNCHANGED <<tracker, dir, treeVars, known, turn, answer, result, entryVars>>

MakeDirectory ==
  /\ pc = "create"
  /\ dir = "absent"
  /\ dir' = "empty"
  /\ pc' = "clone"
  /\ UNCHANGED <<tracker, treeVars, known, turn, answer, result, entryVars>>

Clone ==
  /\ pc = "clone"
  /\ dir' = "ready"
  /\ tree' = FreshTree
  /\ pc' = "prepare"
  /\ UNCHANGED <<tracker, named, known, turn, answer, result, entryVars>>

\* git clone, or the after_create hook, fails: the directory stays behind.
CloneFails ==
  /\ pc = "clone"
  /\ Fail
  /\ UNCHANGED <<tracker, dir, treeVars, entryVars>>

\* An issue that enters the column has its branch made and pushed, unless it
\* has one; that either command fails is logged.
MakeBranch ==
  IF known = InProgress /\ ~named /\ dir = "ready"
  THEN \/ /\ \E t \in CheckoutNew(tree) : tree' \in MayFail(t, {Push(t, "named")})
          /\ named' = TRUE
       \/ UNCHANGED treeVars
  ELSE UNCHANGED treeVars

\* The branch, the before_run hook, start_session.
Prepare ==
  /\ pc = "prepare"
  /\ MakeBranch
  /\ pc' = "loop"
  /\ UNCHANGED <<tracker, dir, known, turn, answer, result, entryVars>>

PrepareFails ==
  /\ pc = "prepare"
  /\ MakeBranch
  /\ Fail
  /\ UNCHANGED <<tracker, dir, entryVars>>

-----------------------------------------------------------------------------
(* The turn loop.                                                          *)

\* seeded fault: a cancelled run is cleaned up on the spot
StopCancelledAtOnce ==
  /\ pc = "loop"
  /\ cancelled
  /\ pc' = "remove"
  /\ UNCHANGED <<tracker, dir, treeVars, known, turn, answer, result, entryVars>>

StopCancelled ==
  /\ pc = "loop"
  /\ cancelled
  /\ Break
  /\ UNCHANGED <<tracker, dir, treeVars, answer, entryVars>>

\* fetch, status and, unless the tree is clean, reset: no failure counts.
SyncTree ==
  /\ tree' \in IF dir = "ready" THEN Synced(tree, named) ELSE {tree}
  /\ UNCHANGED named

StartTurn ==
  /\ pc = "loop"
  /\ ~cancelled
  /\ SyncTree
  /\ turn' = turn + 1
  /\ pc' = "turn"
  /\ UNCHANGED <<tracker, dir, known, answer, result, entryVars>>

\* The workflow or the prompt template does not parse; the turn that was to
\* be does not count any more.
NoPrompt ==
  /\ pc = "loop"
  /\ ~cancelled
  /\ SyncTree
  /\ Fail
  /\ UNCHANGED <<tracker, dir, entryVars>>

TurnSucceeds ==
  /\ pc = "turn"
  /\ pc' = "verify"
  /\ UNCHANGED <<tracker, dir, treeVars, known, turn, answer, result, entryVars>>

\* Failed, timed out, or killed by the cancellation watchdog.
TurnFails ==
  /\ pc = "turn"
  /\ Fail
  /\ UNCHANGED <<tracker, dir, treeVars, entryVars>>

\* All commands of the phase's verifications pass, if it has any.
Verified ==
  /\ pc = "verify"
  /\ pc' = "refresh"
  /\ UNCHANGED <<tracker, dir, treeVars, known, turn, answer, result, entryVars>>

\* One cannot be started, exits with another status than 0, or takes longer
\* than a hook may.
VerificationFails ==
  /\ pc = "verify"
  /\ Fail
  /\ UNCHANGED <<tracker, dir, treeVars, entryVars>>

RefreshFails ==
  /\ pc = "refresh"
  /\ Fail
  /\ UNCHANGED <<tracker, dir, treeVars, entryVars>>

RefreshInactive ==
  /\ pc = "refresh"
  /\ tracker \in States
  /\ ~Dispatchable(tracker)
  /\ answer' = tracker
  /\ Break
  /\ UNCHANGED <<tracker, dir, treeVars, entryVars>>

\* seeded fault: the budget of the previous column
BudgetSpentBefore(s) ==
  \/ s \in States /\ StateTurns[known] > 0 /\ turn >= StateTurns[known]
  \/ turn >= MaxTurns

BudgetSpent(s) ==
  \/ s \in States /\ StateTurns[s] > 0 /\ turn >= StateTurns[s]
  \/ turn >= MaxTurns

\* The end of the loop body, once the refresh has answered s.
NextTurn(s) ==
  /\ answer' = s
  /\ pc' = IF BudgetSpent(s) THEN "teardown" ELSE "loop"
  /\ UNCHANGED <<turn, result>>

\* seeded fault: a turn whose issue is not found does not count
RefreshUnlistedFree ==
  /\ pc = "refresh"
  /\ tracker = NotListed
  /\ answer' = NotListed
  /\ pc' = "loop"
  /\ turn' = turn - 1
  /\ UNCHANGED <<tracker, dir, treeVars, known, result, entryVars>>

\* An issue that is not listed any more is neither a reason to stop nor a
\* turn that counts as stagnant.
RefreshUnlisted ==
  /\ pc = "refresh"
  /\ tracker = NotListed
  /\ NextTurn(NotListed)
  /\ UNCHANGED <<tracker, dir, treeVars, known, entryVars>>

\* Without an entry nothing is counted and the column is not remembered.
RefreshNoEntry ==
  /\ pc = "refresh"
  /\ Dispatchable(tracker)
  /\ ~entry
  /\ NextTurn(tracker)
  /\ UNCHANGED <<tracker, dir, treeVars, known, entryVars>>

\* seeded fault: the counter is reset, the new column is not remembered
RefreshMovedForgets ==
  /\ pc = "refresh"
  /\ Dispatchable(tracker)
  /\ entry
  /\ tracker # known
  /\ stagnation' = 0
  /\ NextTurn(tracker)
  /\ UNCHANGED <<tracker, dir, treeVars, known, cancelled, entry, still>>

RefreshMoved ==
  /\ pc = "refresh"
  /\ Dispatchable(tracker)
  /\ entry
  /\ tracker # known
  /\ known' = tracker
  /\ stagnation' = 0
  /\ NextTurn(tracker)
  /\ UNCHANGED <<tracker, dir, treeVars, cancelled, entry, still>>

\* seeded fault: off by one
RefreshSameLate ==
  /\ pc = "refresh"
  /\ Dispatchable(tracker)
  /\ entry
  /\ tracker = known
  /\ stagnation' = stagnation + 1
  /\ IF stagnation' > StagnationLimit
     THEN Fail
     ELSE NextTurn(tracker) /\ UNCHANGED known
  /\ UNCHANGED <<tracker, dir, treeVars, cancelled, entry, still>>

RefreshSame ==
  /\ pc = "refresh"
  /\ Dispatchable(tracker)
  /\ entry
  /\ tracker = known
  /\ stagnation' = stagnation + 1
  /\ IF stagnation' >= StagnationLimit
     THEN Fail
     ELSE NextTurn(tracker) /\ UNCHANGED known
  /\ UNCHANGED <<tracker, dir, treeVars, cancelled, entry, still>>

\* The last refresh only decides whether the backend cleans up, which none
\* does, but if it fails the run does.
Teardown ==
  /\ pc = "teardown"
  /\ pc' = "afterRun"
  /\ result' \in {"ok", "err"}
  /\ UNCHANGED <<tracker, dir, treeVars, known, turn, answer, entryVars>>

\* The wrapper: after_run, the deletion if cancelled, the entry's removal.
AfterRun ==
  /\ pc = "afterRun"
  /\ pc' = IF cancelled THEN "remove" ELSE "exit"
  /\ UNCHANGED <<tracker, dir, treeVars, known, turn, answer, result, entryVars>>

\* That the directory cannot be removed is logged.
Remove ==
  /\ pc = "remove"
  /\ \/ dir' = "absent" /\ tree' = Deleted(tree)
     \/ UNCHANGED <<dir, tree>>
  /\ pc' = "exit"
  /\ UNCHANGED <<tracker, named, known, turn, answer, result, entryVars>>

Idle ==
  /\ pc' = "off"
  /\ known' = NotListed
  /\ turn' = 0
  /\ answer' = NotListed
  /\ result' = "ok"
  /\ cancelled' = FALSE
  /\ entry' = FALSE
  /\ stagnation' = 0
  /\ still' = FALSE
  /\ named' = FALSE

Exit ==
  /\ pc = "exit"
  /\ Idle
  /\ UNCHANGED <<tracker, dir, tree>>

-----------------------------------------------------------------------------
(* The environment.                                                        *)

TrackerMove(s) ==
  /\ tracker # s
  /\ tracker' = s
  /\ still' = FALSE
  /\ UNCHANGED <<dir, treeVars, runVars, cancelled, entry, stagnation>>

\* The operator, or reconcile on a terminal column.
Cancel ==
  /\ entry
  /\ cancelled' = TRUE
  /\ UNCHANGED <<tracker, dir, treeVars, runVars, entry, stagnation, still>>

\* reconcile on a limbo column (with the flag), or a stall kill (without).
DropEntry(flag) ==
  /\ entry
  /\ entry' = FALSE
  /\ cancelled' = (cancelled \/ flag)
  /\ still' = FALSE
  /\ UNCHANGED <<tracker, dir, treeVars, runVars, stagnation>>

\* The daemon is restarted.
Restart ==
  /\ pc # "off"
  /\ Idle
  /\ UNCHANGED <<tracker, dir, tree>>

\* The cleanup of the workspaces, which goes on in the background where the one
\* at startup failed, takes the directory, in use or not: the issue was in a
\* terminal column when the board was asked, or looked like an orphan.
Cleanup ==
  /\ dir # "absent"
  /\ dir' = "absent"
  /\ tree' = Deleted(tree)
  /\ UNCHANGED <<tracker, named, runVars, entryVars>>

\* The agent, or a hook, at work in the clone.
Work ==
  /\ pc \in {"prepare", "turn", "verify", "afterRun", "remove"}
  /\ dir = "ready"
  /\ tree' \in Worked(tree)
  /\ UNCHANGED <<tracker, dir, named, runVars, entryVars>>

-----------------------------------------------------------------------------
RunStep ==
  \/ Reuse \/ MakeDirectory \/ Clone \/ CloneFails \/ Prepare \/ PrepareFails
  \/ StopCancelled \/ StartTurn \/ NoPrompt \/ TurnSucceeds \/ TurnFails
  \/ Verified \/ VerificationFails
  \/ RefreshFails \/ RefreshInactive \/ RefreshUnlisted \/ RefreshNoEntry
  \/ RefreshMoved \/ RefreshSame \/ Teardown \/ AfterRun \/ Remove \/ Exit

Environment ==
  \/ \E s \in States : Start(s)
  \/ \E s \in States \cup {NotListed} : TrackerMove(s)
  \/ Cancel
  \/ \E flag \in BOOLEAN : DropEntry(flag)
  \/ Restart
  \/ Cleanup
  \/ Work

Next == RunStep \/ Environment

Spec == Init /\ [][Next]_vars

\* A run is a task of its own. The turns, hooks and tracker calls it awaits
\* have timeouts; git commands have none and are assumed to end.
FairSpec == Spec /\ WF_vars(RunStep)

-----------------------------------------------------------------------------
RunTypeOK ==
  /\ tracker \in States \cup {NotListed}
  /\ dir \in {"absent", "empty", "ready"}
  /\ pc \in {"off", "create", "clone", "prepare", "loop", "turn", "verify",
             "refresh", "teardown", "afterRun", "remove", "exit"}
  /\ known \in States \cup {NotListed}
  /\ turn \in 0..MaxTurns
  /\ answer \in States \cup {NotListed}
  /\ result \in {"ok", "err"}
  /\ cancelled \in BOOLEAN
  /\ entry \in BOOLEAN
  /\ stagnation \in 0..StagnationLimit
  /\ still \in BOOLEAN

TreeTypeOK == tree \in Tree /\ named \in BOOLEAN

\* The variables of a run keep their types.
TypeOK == RunTypeOK /\ TreeTypeOK

\* An agent that does not move its issue gets three turns and no more, as
\* long as the run is on file, although the counter lives in the entry that
\* reconcile replaces and releases.
StagnantRunIsShort == still => turn <= StagnationLimit

\* A later turn is never spent on a column whose own budget is used up.
StateBudgetKept ==
  pc = "turn" /\ turn > 1 /\ answer \in States /\ StateTurns[answer] > 0
    => turn <= StateTurns[answer]

\* No turn is spent beyond max_turns, which bounds turn in TypeOK, nor beyond
\* the budget of the column that the last refresh saw.
BudgetsInv == TypeOK /\ StateBudgetKept

\* While the run is on file, a turn is given the phase of the column the last
\* refresh saw.
PhaseIsCurrent ==
  pc = "turn" /\ entry /\ answer \in States => known = answer

\* A run that ends well is continued after a second, without limit; unless it
\* was cancelled it has spent a turn.
ContinuationHadTurn ==
  pc \in {"teardown", "afterRun", "remove", "exit"} =>
    result = "err" \/ cancelled \/ turn > 0

\* Every run ends, also that of an issue that is gone from the board or of an
\* entry that was dropped.
RunEnds == pc # "off" ~> pc = "off"

-----------------------------------------------------------------------------
(* What the scheduler sees of a run, as in WorkerLife.                     *)

Stage == CASE pc = "off" -> "idle"
           [] pc \in {"create", "clone", "prepare"} -> "starting"
           [] pc \in {"loop", "turn", "verify", "refresh", "teardown"} -> "turns"
           [] pc = "afterRun" -> "afterRun"
           [] pc = "remove" -> "removing"
           [] pc = "exit" -> "exiting"

Life == INSTANCE WorkerLife WITH
          Workers <- {"run"}, MayCrash <- TRUE,
          stage <- [w \in {"run"} |-> Stage],
          outcome <- [w \in {"run"} |-> result],
          stopped <- [w \in {"run"} |-> cancelled]

\* On none of its many ways out does a run skip after_run, delete its
\* directory without having been told to stop, forget that it was, or change
\* its result once its turns are over.
ImplementsWorkerLife == Life!Spec
=============================================================================
