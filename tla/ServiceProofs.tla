---------------------------- MODULE ServiceProofs ----------------------------
(***************************************************************************)
(* The safety properties of Service, for any number of issues, columns,    *)
(* runs, edits and troubles, and for whatever the file may say: one        *)
(* inductive invariant, ServiceIInv.                                       *)
(***************************************************************************)
EXTENDS Service, TLAPS

Working(r) == run[r].pc \in {"spawned", "working"}

\* Until the daemon is up nothing runs.
QuietUntilUp ==
  main # "up" => step = "between" /\ retry = {} /\ \A r \in Runs : ~Working(r)

\* There is a sweep while the daemon lives, the first is over when it is up, and
\* the issues to remove are those of the stage that removes them.
SweepHasItsPlace ==
  /\ stage # "none" => main \in {"sweeping", "up"}
  /\ main = "up" => swept
  /\ doomed # {} => stage = "remove"

\* What the watcher hands over has been parsed.
HandIsParsed == watcher = "loaded" => Parses(inHand)

\* The run on file for an issue is one of that issue that goes on.
EntriesAreRuns ==
  \A i \in Issues : entry[i] # 0 => run[entry[i]].issue = i /\ Working(entry[i])

\* The issue of a run whose issue was not moved is in a column it started from,
\* and unless a configuration has given that column up, there is work in it by
\* the scheduler's and by the one reconcile holds.
UnmovedHaveWork ==
  \A r \in Runs : Working(r) /\ r \notin moved =>
    /\ board[run[r].issue] \in Active(boot)
    /\ r \notin dropped =>
         /\ board[run[r].issue] \in Open(config)
         /\ step = "reconciling" => board[run[r].issue] \in Open(tickConfig)

ServiceIInv ==
  /\ TypeOK /\ QuietUntilUp /\ SweepHasItsPlace /\ HandIsParsed
  /\ EntriesAreRuns /\ UnmovedHaveWork
  /\ DoomedAreTerminal /\ FirstSweepIsAlone /\ StopsAreCalledFor

-----------------------------------------------------------------------------
\* The bounds are naturals, there is an issue, and a new run is a run of one.
LEMMA ConstantsType ==
  /\ MaxRuns \in Nat /\ MaxEdits \in Nat /\ MaxTroubles \in Nat
  /\ Broken \in Versions /\ NoRun \in RunStates /\ Over \in RunStates
  /\ NoRun.pc = "none" /\ NoRun.cancelled = FALSE /\ Over.pc = "over"
  /\ 0 \notin Runs
<1>1. MaxRuns \in Nat /\ MaxEdits \in Nat /\ MaxTroubles \in Nat
  BY ServiceAssumption
<1>2. Broken \in Versions
  BY DEF Versions
<1>3. (CHOOSE i \in Issues : TRUE) \in Issues
  BY ServiceAssumption
<1>4. NoRun \in RunStates /\ NoRun.pc = "none" /\ NoRun.cancelled = FALSE
  BY <1>3 DEF NoRun, RunStates
<1>5. Over \in RunStates /\ Over.pc = "over"
  BY <1>4 DEF Over, RunStates
<1> QED
  BY <1>1, <1>2, <1>4, <1>5 DEF Runs

\* How a step moves the runs and their entries.
RunsRest == UNCHANGED <<run, entry, moved, ordered>> /\ dropped' \subseteq dropped \cup Runs
            /\ dropped \subseteq dropped'
RunStarts(r, i) ==
  /\ Fresh(r) /\ StartRun(r, i) /\ board[i] \in Active(boot)
  /\ main = "up" /\ step # "reconciling"
  /\ UNCHANGED <<moved, ordered, board, main, boot, config, step>>
RunsMove ==
  \/ RunsRest \/ Crash \/ Reconcile
  \/ \E r \in Runs, i \in Issues : RunStarts(r, i)
  \/ \E r \in Runs : RunBegins(r) \/ RunEnds(r)
  \/ \E i \in Issues : Move(i) \/ ApiCancel(i)

LEMMA RunMoves ==
  ASSUME TypeOK, QuietUntilUp, [Next]_vars
  PROVE  RunsMove
<1>2. ASSUME NEW r \in Runs, NEW i \in Issues, Dispatch(r, i)
      PROVE  RunStarts(r, i)
  BY <1>2 DEF Dispatch, RunStarts, Candidates, QuietUntilUp, configVars, loopVars
<1>3. ASSUME NEW i \in Issues, Retry(i)
      PROVE  RunsRest \/ \E r \in Runs : RunStarts(r, i)
  BY <1>3 DEF Retry, RunStarts, RunsRest, Candidates, QuietUntilUp, configVars, loopVars
<1>4. CASE StartFails \/ Start \/ WatcherStarts \/ Restart \/ UNCHANGED vars
  BY <1>4 DEF StartFails, Start, WatcherStarts, Restart, vars, runVars, truthVars, RunsRest,
     RunsMove
<1>5. CASE Sweep \/ SweepUnanswered \/ SweepBreaksOff
  BY <1>5 DEF Sweep, SweepFetch, SweepList, SweepAgain, SweepRemove, SweepOrphan, SweepEnds,
     SweepBreaksOff, SweepUnanswered, runVars, truthVars, RunsRest, RunsMove
<1>6. CASE Watcher \/ Edit
  BY <1>6 DEF Watcher, TakeToken, ReadFile, Reload, StuckBy, Edit, runVars, truthVars, RunsRest,
     RunsMove
<1>7. CASE ReconcileReads \/ DispatchEnds
  BY <1>7 DEF ReconcileReads, DispatchEnds, runVars, truthVars, RunsRest, RunsMove
<1> QED
  BY <1>2, <1>3, <1>4, <1>5, <1>6, <1>7 DEF Next, Loop, RunsMove

\* A run is started, told to stop, begun or ended.
LEMMA RunType ==
  ASSUME TypeOK, QuietUntilUp, [Next]_vars
  PROVE  /\ run' \in [Runs -> RunStates]
         /\ entry' \in [Issues -> {0} \cup Runs]
         /\ moved' \subseteq Runs /\ ordered' \subseteq Runs /\ dropped' \subseteq Runs
<1>1. /\ run \in [Runs -> RunStates] /\ entry \in [Issues -> {0} \cup Runs]
      /\ moved \subseteq Runs /\ ordered \subseteq Runs /\ dropped \subseteq Runs
  BY DEF TypeOK
<1>2. /\ \A x \in RunStates : [x EXCEPT !.cancelled = TRUE] \in RunStates
      /\ \A x \in RunStates : [x EXCEPT !.pc = "working"] \in RunStates
      /\ \A i \in Issues : [NoRun EXCEPT !.pc = "spawned", !.issue = i] \in RunStates
  BY ConstantsType DEF RunStates
<1>3. CASE RunsRest
  BY <1>1, <1>3 DEF RunsRest
<1>4. CASE Crash
  BY <1>1, <1>4, ConstantsType DEF Crash
<1>5. CASE Reconcile
  <2>1. entry' \in [Issues -> {0} \cup Runs] /\ UNCHANGED <<moved, ordered, dropped>>
    BY <1>1, <1>5 DEF Reconcile, ReconcileWith, truthVars
  <2>2. PICK S : run' = Cancelled(S)
    BY <1>5 DEF Reconcile, ReconcileWith
  <2>3. run' \in [Runs -> RunStates]
    BY <1>1, <1>2, <2>2 DEF Cancelled
  <2> QED
    BY <1>1, <2>1, <2>3
<1>6. ASSUME NEW r \in Runs, NEW i \in Issues, RunStarts(r, i)
      PROVE  /\ run' \in [Runs -> RunStates] /\ entry' \in [Issues -> {0} \cup Runs]
             /\ moved' \subseteq Runs /\ ordered' \subseteq Runs /\ dropped' \subseteq Runs
  BY <1>1, <1>2, <1>6 DEF RunStarts, StartRun
<1>7. ASSUME NEW r \in Runs, RunBegins(r)
      PROVE  run' \in [Runs -> RunStates] /\ UNCHANGED <<entry, moved, ordered, dropped>>
  <2>1. run' = [run EXCEPT ![r] = [run[r] EXCEPT !.pc = "working"]]
    BY <1>1, <1>7 DEF RunBegins
  <2>2. [run[r] EXCEPT !.pc = "working"] \in RunStates
    BY <1>1, <1>2
  <2>3. run' \in [Runs -> RunStates]
    BY <1>1, <2>1, <2>2
  <2> QED
    BY <1>7, <2>3 DEF RunBegins, truthVars
<1>8. ASSUME NEW r \in Runs, RunEnds(r)
      PROVE  /\ run' \in [Runs -> RunStates] /\ entry' \in [Issues -> {0} \cup Runs]
             /\ moved' \subseteq Runs /\ ordered' \subseteq Runs /\ dropped' \subseteq Runs
  <2>1. /\ run' = [run EXCEPT ![r] = Over]
        /\ moved' = moved \ {r} /\ ordered' = ordered \ {r} /\ dropped' = dropped \ {r}
    BY <1>8 DEF RunEnds
  <2>2. entry' = entry \/ \E i : entry' = [entry EXCEPT ![i] = 0]
    BY <1>8 DEF RunEnds
  <2> QED
    BY <1>1, <2>1, <2>2, ConstantsType
<1>9. ASSUME NEW i \in Issues, Move(i)
      PROVE  UNCHANGED <<run, entry, ordered, dropped>> /\ moved' \subseteq Runs
  BY <1>1, <1>9 DEF Move, runVars
<1>10. ASSUME NEW i \in Issues, ApiCancel(i)
       PROVE  /\ run' \in [Runs -> RunStates] /\ UNCHANGED <<entry, moved, dropped>>
              /\ ordered' \subseteq Runs
  BY <1>1, <1>2, <1>10 DEF ApiCancel, Cancelled
<1> QED
  BY <1>1, <1>3, <1>4, <1>5, <1>6, <1>7, <1>8, <1>9, <1>10, RunMoves DEF RunsMove

\* The types are kept.
LEMMA TypeStep ==
  ASSUME TypeOK, QuietUntilUp, SweepHasItsPlace, HandIsParsed, [Next]_vars
  PROVE  TypeOK'
<1>1. file' \in Versions /\ edits' \in 0..MaxEdits
  <2>1. file \in Versions /\ edits \in 0..MaxEdits /\ MaxEdits \in Nat
    BY ConstantsType DEF TypeOK
  <2>2. CASE Edit
    BY <2>1, <2>2 DEF Edit
  <2>3. CASE ~Edit
    <3>1. UNCHANGED fileVars
      BY <2>3 DEF Next, vars, fileVars, configVars, watchVars, loopVars, runVars,
         sweepVars, diskVars, truthVars, Sweep, Watcher, Loop, StartFails, Start,
         WatcherStarts, Crash, Restart, SweepFetch, SweepFails, SweepUnanswered, SweepRemove,
         SweepList, SweepOrphan, SweepEnds, SweepBreaksOff, SweepAgain, TakeToken, ReadFile,
         Reload, ReconcileReads, Preflight, ReconcileWith, Reconcile, StartRun, Dispatch,
         DispatchEnds, Retry, RunBegins, RunEnds, ApiCancel, Move
    <3> QED
      BY <2>1, <3>1 DEF fileVars
  <2> QED
    BY <2>2, <2>3
<1>2. /\ main' \in {"starting", "sweeping", "up", "exited"}
      /\ stage' \in {"none", "fetch", "remove", "list", "asleep", "done"}
      /\ watcher' \in {"off", "waiting", "settling", "loaded"}
      /\ step' \in {"between", "reconciling", "dispatching"}
  <2>1. main' \in {main, "starting", "sweeping", "up", "exited"}
    BY DEF Next, vars, fileVars, configVars, watchVars, loopVars, runVars, sweepVars,
       diskVars, truthVars, Sweep, Watcher, Loop, StartFails, Start, WatcherStarts, Crash,
       Restart, SweepFetch, SweepFails, SweepUnanswered, SweepRemove, SweepList, SweepOrphan,
       SweepEnds, SweepBreaksOff, SweepAgain, TakeToken, ReadFile, Reload, ReconcileReads,
       Preflight, ReconcileWith, Reconcile, StartRun, Dispatch, DispatchEnds, Retry,
       RunBegins, RunEnds, Edit, ApiCancel, Move
  <2>2. stage' \in {stage, "none", "fetch", "remove", "list", "asleep", "done"}
    BY DEF Next, vars, fileVars, configVars, watchVars, loopVars, runVars, sweepVars,
       diskVars, truthVars, Sweep, Watcher, Loop, StartFails, Start, WatcherStarts, Crash,
       Restart, SweepFetch, SweepFails, SweepUnanswered, SweepRemove, SweepList, SweepOrphan,
       SweepEnds, SweepBreaksOff, SweepAgain, TakeToken, ReadFile, Reload, ReconcileReads,
       Preflight, ReconcileWith, Reconcile, StartRun, Dispatch, DispatchEnds, Retry,
       RunBegins, RunEnds, Edit, ApiCancel, Move
  <2>3. watcher' \in {watcher, "off", "waiting", "settling", "loaded"}
    BY DEF Next, vars, fileVars, configVars, watchVars, loopVars, runVars, sweepVars,
       diskVars, truthVars, Sweep, Watcher, Loop, StartFails, Start, WatcherStarts, Crash,
       Restart, SweepFetch, SweepFails, SweepUnanswered, SweepRemove, SweepList, SweepOrphan,
       SweepEnds, SweepBreaksOff, SweepAgain, TakeToken, ReadFile, Reload, ReconcileReads,
       Preflight, ReconcileWith, Reconcile, StartRun, Dispatch, DispatchEnds, Retry,
       RunBegins, RunEnds, Edit, ApiCancel, Move
  <2>4. step' \in {step, "between", "reconciling", "dispatching"}
    BY DEF Next, vars, fileVars, configVars, watchVars, loopVars, runVars, sweepVars,
       diskVars, truthVars, Sweep, Watcher, Loop, StartFails, Start, WatcherStarts, Crash,
       Restart, SweepFetch, SweepFails, SweepUnanswered, SweepRemove, SweepList, SweepOrphan,
       SweepEnds, SweepBreaksOff, SweepAgain, TakeToken, ReadFile, Reload, ReconcileReads,
       Preflight, ReconcileWith, Reconcile, StartRun, Dispatch, DispatchEnds, Retry,
       RunBegins, RunEnds, Edit, ApiCancel, Move
  <2> QED
    BY <2>1, <2>2, <2>3, <2>4 DEF TypeOK
<1>3. boot' \in Versions /\ config' \in Versions /\ inHand' \in Versions /\ tickConfig' \in Versions
  <2>1. boot' \in {boot, file, Broken} /\ config' \in {config, file, inHand, Broken}
    BY DEF Next, vars, fileVars, configVars, watchVars, loopVars, runVars, sweepVars,
       diskVars, truthVars, Sweep, Watcher, Loop, StartFails, Start, WatcherStarts, Crash,
       Restart, SweepFetch, SweepFails, SweepUnanswered, SweepRemove, SweepList, SweepOrphan,
       SweepEnds, SweepBreaksOff, SweepAgain, TakeToken, ReadFile, Reload, ReconcileReads,
       Preflight, ReconcileWith, Reconcile, StartRun, Dispatch, DispatchEnds, Retry,
       RunBegins, RunEnds, Edit, ApiCancel, Move
  <2>2. inHand' \in {inHand, file, Broken} /\ tickConfig' \in {tickConfig, config, Broken}
    BY DEF Next, vars, fileVars, configVars, watchVars, loopVars, runVars, sweepVars,
       diskVars, truthVars, Sweep, Watcher, Loop, StartFails, Start, WatcherStarts, Crash,
       Restart, SweepFetch, SweepFails, SweepUnanswered, SweepRemove, SweepList, SweepOrphan,
       SweepEnds, SweepBreaksOff, SweepAgain, TakeToken, ReadFile, Reload, ReconcileReads,
       Preflight, ReconcileWith, Reconcile, StartRun, Dispatch, DispatchEnds, Retry,
       RunBegins, RunEnds, Edit, ApiCancel, Move
  <2> QED
    BY <2>1, <2>2, ConstantsType DEF TypeOK
<1>4. main' \in {"sweeping", "up"} => Valid(boot') /\ Parses(config')
  <2>1. CASE Start \/ Crash
    BY <2>1 DEF Start, Crash, Valid, Parses
  <2>2. CASE Reload
    BY <2>2 DEF Reload, TypeOK, HandIsParsed
  <2>3. CASE ~Start /\ ~Crash /\ ~Reload
    <3>1. UNCHANGED <<boot, config>>
      BY <2>3 DEF Next, vars, fileVars, configVars, watchVars, loopVars, runVars,
         sweepVars, diskVars, truthVars, Sweep, Watcher, Loop, StartFails, WatcherStarts,
         Restart, SweepFetch, SweepFails, SweepUnanswered, SweepRemove, SweepList,
         SweepOrphan, SweepEnds, SweepBreaksOff, SweepAgain, TakeToken, ReadFile,
         ReconcileReads, Preflight, ReconcileWith, Reconcile, StartRun, Dispatch,
         DispatchEnds, Retry, RunBegins, RunEnds, Edit, ApiCancel, Move
    <3>2. main' \in {"sweeping", "up"} => main \in {"sweeping", "up"}
      BY <2>3 DEF SweepHasItsPlace, Next, vars, fileVars, configVars, watchVars, loopVars,
         runVars, sweepVars, diskVars, truthVars, Sweep, Watcher, Loop, StartFails,
         WatcherStarts, Restart, SweepFetch, SweepFails, SweepUnanswered, SweepRemove,
         SweepList, SweepOrphan, SweepEnds, SweepBreaksOff, SweepAgain, TakeToken, ReadFile,
         Reload, ReconcileReads, Preflight, ReconcileWith, Reconcile, StartRun, Dispatch,
         DispatchEnds, Retry, RunBegins, RunEnds, Edit, ApiCancel, Move
    <3> QED
      BY <3>1, <3>2 DEF TypeOK
  <2> QED
    BY <2>1, <2>2, <2>3
<1>5. watched' \in BOOLEAN /\ token' \in BOOLEAN /\ root' \in BOOLEAN
  BY DEF TypeOK, Next, vars, fileVars, configVars, watchVars, loopVars, runVars,
     sweepVars, diskVars, truthVars, Sweep, Watcher, Loop, StartFails, Start, WatcherStarts,
     Crash, Restart, SweepFetch, SweepFails, SweepUnanswered, SweepRemove, SweepList,
     SweepOrphan, SweepEnds, SweepBreaksOff, SweepAgain, TakeToken, ReadFile, Reload,
     ReconcileReads, Preflight, ReconcileWith, Reconcile, StartRun, Dispatch, DispatchEnds,
     Retry, RunBegins, RunEnds, Edit, ApiCancel, Move
<1>6. missed' \in BOOLEAN /\ swept' \in BOOLEAN
  BY DEF TypeOK, Next, vars, fileVars, configVars, watchVars, loopVars, runVars,
     sweepVars, diskVars, truthVars, Sweep, Watcher, Loop, StartFails, Start, WatcherStarts,
     Crash, Restart, SweepFetch, SweepFails, SweepUnanswered, SweepRemove, SweepList,
     SweepOrphan, SweepEnds, SweepBreaksOff, SweepAgain, TakeToken, ReadFile, Reload,
     ReconcileReads, Preflight, ReconcileWith, Reconcile, StartRun, Dispatch, DispatchEnds,
     Retry, RunBegins, RunEnds, Edit, ApiCancel, Move
<1>7. retry' \subseteq Issues
  <2>1. \A r \in Runs : run[r].issue \in Issues
    BY DEF TypeOK, RunStates
  <2>2. retry \subseteq Issues
    BY DEF TypeOK
  <2>3. \/ retry' \subseteq retry
        \/ \E r \in Runs : retry' \subseteq retry \cup {run[r].issue}
    BY DEF Next, vars, fileVars, configVars, watchVars, loopVars, runVars, sweepVars,
       diskVars, truthVars, Sweep, Watcher, Loop, StartFails, Start, WatcherStarts, Crash,
       Restart, SweepFetch, SweepFails, SweepUnanswered, SweepRemove, SweepList, SweepOrphan,
       SweepEnds, SweepBreaksOff, SweepAgain, TakeToken, ReadFile, Reload, ReconcileReads,
       Preflight, ReconcileWith, Reconcile, StartRun, Dispatch, DispatchEnds, Retry,
       RunBegins, RunEnds, Edit, ApiCancel, Move
  <2> QED
    BY <2>1, <2>2, <2>3
<1>8. doomed' \subseteq Issues /\ leftover' \subseteq Issues /\ reopened' \subseteq Issues
  BY DEF TypeOK, Next, vars, fileVars, configVars, watchVars, loopVars, runVars,
     sweepVars, diskVars, truthVars, Sweep, Watcher, Loop, StartFails, Start, WatcherStarts,
     Crash, Restart, SweepFetch, SweepFails, SweepUnanswered, SweepRemove, SweepList,
     SweepOrphan, SweepEnds, SweepBreaksOff, SweepAgain, TakeToken, ReadFile, Reload,
     ReconcileReads, Preflight, ReconcileWith, Reconcile, StartRun, Dispatch, DispatchEnds,
     Retry, RunBegins, RunEnds, Edit, ApiCancel, Move
<1>9. dirs' \subseteq Issues
  <2>1. \A r \in Runs : run[r].issue \in Issues
    BY DEF TypeOK, RunStates
  <2>2. dirs \subseteq Issues
    BY DEF TypeOK
  <2>3. dirs' \subseteq dirs \cup {run[r].issue : r \in Runs}
    BY DEF Next, vars, fileVars, configVars, watchVars, loopVars, runVars, sweepVars,
       diskVars, truthVars, Sweep, Watcher, Loop, StartFails, Start, WatcherStarts, Crash,
       Restart, SweepFetch, SweepFails, SweepUnanswered, SweepRemove, SweepList, SweepOrphan,
       SweepEnds, SweepBreaksOff, SweepAgain, TakeToken, ReadFile, Reload, ReconcileReads,
       Preflight, ReconcileWith, Reconcile, StartRun, Dispatch, DispatchEnds, Retry,
       RunBegins, RunEnds, Edit, ApiCancel, Move
  <2> QED
    BY <2>1, <2>2, <2>3
<1>10. board' \in [Issues -> Columns]
  <2>1. board' = board \/ \E i \in Issues, c \in Columns : board' = [board EXCEPT ![i] = c]
    BY DEF Next, vars, fileVars, configVars, watchVars, loopVars, runVars, sweepVars,
       diskVars, truthVars, Sweep, Watcher, Loop, StartFails, Start, WatcherStarts, Crash,
       Restart, SweepFetch, SweepFails, SweepUnanswered, SweepRemove, SweepList, SweepOrphan,
       SweepEnds, SweepBreaksOff, SweepAgain, TakeToken, ReadFile, Reload, ReconcileReads,
       Preflight, ReconcileWith, Reconcile, StartRun, Dispatch, DispatchEnds, Retry,
       RunBegins, RunEnds, Edit, ApiCancel, Move
  <2> QED
    BY <2>1 DEF TypeOK
<1>11. left' \in 0..MaxTroubles
  <2>1. left' = left \/ (left > 0 /\ left' = left - 1)
    BY DEF Next, vars, fileVars, configVars, watchVars, loopVars, runVars, sweepVars,
       diskVars, truthVars, Sweep, Watcher, Loop, StartFails, Start, WatcherStarts, Crash,
       Restart, SweepFetch, SweepFails, SweepUnanswered, SweepRemove, SweepList, SweepOrphan,
       SweepEnds, SweepBreaksOff, SweepAgain, TakeToken, ReadFile, Reload, ReconcileReads,
       Preflight, ReconcileWith, Reconcile, StartRun, Dispatch, DispatchEnds, Retry,
       RunBegins, RunEnds, Edit, ApiCancel, Move
  <2>2. left \in 0..MaxTroubles /\ MaxTroubles \in Nat
    BY ConstantsType DEF TypeOK
  <2> QED
    BY <2>1, <2>2
<1>12. /\ run' \in [Runs -> RunStates] /\ entry' \in [Issues -> {0} \cup Runs]
       /\ moved' \subseteq Runs /\ ordered' \subseteq Runs /\ dropped' \subseteq Runs
  BY RunType
<1> QED
  BY <1>1, <1>2, <1>3, <1>4, <1>5, <1>6, <1>7, <1>8, <1>9, <1>10, <1>11, <1>12 DEF TypeOK

-----------------------------------------------------------------------------
\* Until the daemon is up nothing runs.
LEMMA QuietStep ==
  ASSUME TypeOK, QuietUntilUp, SweepHasItsPlace, EntriesAreRuns, [Next]_vars
  PROVE  QuietUntilUp'
<1> SUFFICES ASSUME main' # "up"
             PROVE  step' = "between" /\ retry' = {} /\ \A r \in Runs : run'[r].pc \notin {"spawned", "working"}
  BY DEF QuietUntilUp, Working
<1>1. CASE Crash
  BY <1>1, ConstantsType DEF Crash
<1>2. CASE main # "up"
  <2>1. step = "between" /\ retry = {} /\ \A r \in Runs : run[r].pc \notin {"spawned", "working"}
    BY <1>2 DEF QuietUntilUp, Working
  <2>2. CASE ~Crash
    <3>1. \A i \in Issues : ~ApiCancel(i)
      BY <2>1 DEF ApiCancel, EntriesAreRuns, Working, TypeOK
    <3>2. step' = step
      BY <1>2, <2>1, <2>2, <3>1 DEF Next, vars, fileVars, configVars, watchVars, loopVars,
         runVars, sweepVars, diskVars, truthVars, Sweep, Watcher, Loop, StartFails, Start,
         WatcherStarts, Restart, SweepFetch, SweepFails, SweepUnanswered, SweepRemove,
         SweepList, SweepOrphan, SweepEnds, SweepBreaksOff, SweepAgain, TakeToken, ReadFile,
         Reload, ReconcileReads, Preflight, ReconcileWith, Reconcile, StartRun, Dispatch,
         DispatchEnds, Retry, RunBegins, RunEnds, Edit, Move
    <3>3. run' = run /\ retry' = retry
      BY <1>2, <2>1, <2>2, <3>1 DEF Next, vars, fileVars, configVars, watchVars, loopVars,
         runVars, sweepVars, diskVars, truthVars, Sweep, Watcher, Loop, StartFails, Start,
         WatcherStarts, Restart, SweepFetch, SweepFails, SweepUnanswered, SweepRemove,
         SweepList, SweepOrphan, SweepEnds, SweepBreaksOff, SweepAgain, TakeToken, ReadFile,
         Reload, ReconcileReads, Preflight, ReconcileWith, Reconcile, StartRun, Dispatch,
         DispatchEnds, Retry, RunBegins, RunEnds, Edit, Move
    <3> QED
      BY <2>1, <3>2, <3>3
  <2> QED
    BY <1>1, <2>2
<1>3. CASE main = "up" /\ ~Crash
  BY <1>3 DEF Next, vars, fileVars, configVars, watchVars, loopVars, runVars, sweepVars,
     diskVars, truthVars, Sweep, Watcher, Loop, StartFails, Start, WatcherStarts, Restart,
     SweepFetch, SweepFails, SweepUnanswered, SweepRemove, SweepList, SweepOrphan, SweepEnds,
     SweepBreaksOff, SweepAgain, TakeToken, ReadFile, Reload, ReconcileReads, Preflight,
     ReconcileWith, Reconcile, StartRun, Dispatch, DispatchEnds, Retry, RunBegins, RunEnds,
     Edit, ApiCancel, Move
<1> QED
  BY <1>1, <1>2, <1>3

\* A sweep is part of the daemon's life.
LEMMA SweepStep ==
  ASSUME TypeOK, SweepHasItsPlace, [Next]_vars
  PROVE  SweepHasItsPlace'
<1>1. stage' # "none" => main' \in {"sweeping", "up"}
  BY DEF SweepHasItsPlace, Next, vars, fileVars, configVars, watchVars, loopVars, runVars,
     sweepVars, diskVars, truthVars, Sweep, Watcher, Loop, StartFails, Start, WatcherStarts,
     Crash, Restart, SweepFetch, SweepFails, SweepUnanswered, SweepRemove, SweepList,
     SweepOrphan, SweepEnds, SweepBreaksOff, SweepAgain, TakeToken, ReadFile, Reload,
     ReconcileReads, Preflight, ReconcileWith, Reconcile, StartRun, Dispatch, DispatchEnds,
     Retry, RunBegins, RunEnds, Edit, ApiCancel, Move
<1>2. main' = "up" => swept'
  BY DEF SweepHasItsPlace, Next, vars, fileVars, configVars, watchVars, loopVars, runVars,
     sweepVars, diskVars, truthVars, Sweep, Watcher, Loop, StartFails, Start, WatcherStarts,
     Crash, Restart, SweepFetch, SweepFails, SweepUnanswered, SweepRemove, SweepList,
     SweepOrphan, SweepEnds, SweepBreaksOff, SweepAgain, TakeToken, ReadFile, Reload,
     ReconcileReads, Preflight, ReconcileWith, Reconcile, StartRun, Dispatch, DispatchEnds,
     Retry, RunBegins, RunEnds, Edit, ApiCancel, Move
<1>3. doomed' # {} => stage' = "remove"
  BY DEF SweepHasItsPlace, Next, vars, fileVars, configVars, watchVars, loopVars, runVars,
     sweepVars, diskVars, truthVars, Sweep, Watcher, Loop, StartFails, Start, WatcherStarts,
     Crash, Restart, SweepFetch, SweepFails, SweepUnanswered, SweepRemove, SweepList,
     SweepOrphan, SweepEnds, SweepBreaksOff, SweepAgain, TakeToken, ReadFile, Reload,
     ReconcileReads, Preflight, ReconcileWith, Reconcile, StartRun, Dispatch, DispatchEnds,
     Retry, RunBegins, RunEnds, Edit, ApiCancel, Move
<1> QED
  BY <1>1, <1>2, <1>3 DEF SweepHasItsPlace

\* What the sweep has fetched and not come to was terminal when it asked.
LEMMA DoomedStep ==
  ASSUME TypeOK, SweepHasItsPlace, DoomedAreTerminal, [Next]_vars
  PROVE  DoomedAreTerminal'
<1> SUFFICES ASSUME NEW i \in doomed'
             PROVE  board'[i] \in Terminal(boot') \/ i \in reopened'
  BY DEF DoomedAreTerminal, Terminal
<1>1. CASE SweepFetch
  BY <1>1 DEF SweepFetch, configVars, Terminal
<1>2. ASSUME NEW k \in Issues, Move(k)
      PROVE  board'[i] \in Terminal(boot') \/ i \in reopened'
  <2>1. i \in doomed /\ boot' = boot
    BY <1>2 DEF Move, sweepVars, configVars
  <2> QED
    BY <1>2, <2>1 DEF Move, DoomedAreTerminal, TypeOK, Terminal
<1>3. CASE Crash \/ SweepList \/ Start
  BY <1>3 DEF Crash, SweepList, Start, SweepHasItsPlace
<1>4. CASE ~SweepFetch /\ ~Crash /\ ~SweepList /\ ~Start /\ ~\E k \in Issues : Move(k)
  <2>1. doomed' \subseteq doomed /\ UNCHANGED <<board, reopened, boot>>
    BY <1>4 DEF Next, vars, fileVars, configVars, watchVars, loopVars, runVars, sweepVars,
       diskVars, truthVars, Sweep, Watcher, Loop, StartFails, WatcherStarts, Restart,
       SweepFails, SweepUnanswered, SweepRemove, SweepOrphan, SweepEnds, SweepBreaksOff,
       SweepAgain, TakeToken, ReadFile, Reload, ReconcileReads, Preflight, ReconcileWith,
       Reconcile, StartRun, Dispatch, DispatchEnds, Retry, RunBegins, RunEnds, Edit,
       ApiCancel
  <2> QED
    BY <2>1 DEF DoomedAreTerminal, Terminal
<1> QED
  BY <1>1, <1>2, <1>3, <1>4

\* Nothing runs during the first sweep.
LEMMA AloneStep ==
  ASSUME QuietUntilUp', SweepHasItsPlace', TypeOK'
  PROVE  FirstSweepIsAlone'
<1> SUFFICES ASSUME ~swept', NEW r \in Runs
             PROVE  run'[r].pc \in {"none", "over"}
  BY DEF FirstSweepIsAlone
<1>1. run'[r].pc \notin {"spawned", "working"}
  BY DEF SweepHasItsPlace, QuietUntilUp, Working
<1> QED
  BY <1>1 DEF TypeOK, RunStates

\* The watcher hands over what it has parsed.
LEMMA HandStep ==
  ASSUME HandIsParsed, [Next]_vars
  PROVE  HandIsParsed'
BY DEF HandIsParsed, Next, vars, fileVars, configVars, watchVars, loopVars, runVars,
   sweepVars, diskVars, truthVars, Sweep, Watcher, Loop, StartFails, Start, WatcherStarts,
   Crash, Restart, SweepFetch, SweepFails, SweepUnanswered, SweepRemove, SweepList,
   SweepOrphan, SweepEnds, SweepBreaksOff, SweepAgain, TakeToken, ReadFile, Reload,
   ReconcileReads, Preflight, ReconcileWith, Reconcile, StartRun, Dispatch, DispatchEnds,
   Retry, RunBegins, RunEnds, Edit, ApiCancel, Move

\* The run on file for an issue is one of it, which goes on.
LEMMA EntryStep ==
  ASSUME TypeOK, QuietUntilUp, EntriesAreRuns, [Next]_vars
  PROVE  EntriesAreRuns'
<1>1. run \in [Runs -> RunStates] /\ entry \in [Issues -> {0} \cup Runs] /\ 0 \notin Runs
  BY ConstantsType DEF TypeOK
<1> SUFFICES ASSUME NEW i \in Issues, entry'[i] # 0
             PROVE  run'[entry'[i]].issue = i /\ run'[entry'[i]].pc \in {"spawned", "working"}
  BY DEF EntriesAreRuns, Working
<1>2. \A k \in Issues : entry[k] # 0 => /\ entry[k] \in Runs /\ run[entry[k]].issue = k
                                        /\ run[entry[k]].pc \in {"spawned", "working"}
  BY <1>1 DEF EntriesAreRuns, Working
<1>3. CASE RunsRest \/ Crash
  BY <1>2, <1>3 DEF RunsRest, Crash
<1>4. ASSUME NEW S, run' = Cancelled(S), entry'[i] = entry[i]
      PROVE  run'[entry'[i]].issue = i /\ run'[entry'[i]].pc \in {"spawned", "working"}
  <2>1. run'[entry[i]].issue = run[entry[i]].issue /\ run'[entry[i]].pc = run[entry[i]].pc
    BY <1>1, <1>2, <1>4 DEF Cancelled, RunStates
  <2> QED
    BY <1>2, <1>4, <2>1
<1>5. CASE Reconcile
  <2>1. entry'[i] = entry[i]
    BY <1>1, <1>5 DEF Reconcile, ReconcileWith
  <2>2. PICK S : run' = Cancelled(S)
    BY <1>5 DEF Reconcile, ReconcileWith
  <2> QED
    BY <1>4, <2>1, <2>2
<1>6. ASSUME NEW k \in Issues, ApiCancel(k)
      PROVE  run'[entry'[i]].issue = i /\ run'[entry'[i]].pc \in {"spawned", "working"}
  <2>1. run' = Cancelled({entry[k]}) /\ entry' = entry
    BY <1>6 DEF ApiCancel
  <2> QED
    BY <1>4, <2>1
<1>7. ASSUME NEW r \in Runs, NEW k \in Issues, RunStarts(r, k)
      PROVE  run'[entry'[i]].issue = i /\ run'[entry'[i]].pc \in {"spawned", "working"}
  <2>1. run' = [run EXCEPT ![r] = [NoRun EXCEPT !.pc = "spawned", !.issue = k]]
        /\ entry' = [entry EXCEPT ![k] = r] /\ run[r].pc = "none"
    BY <1>7 DEF RunStarts, StartRun, Fresh
  <2>2. [NoRun EXCEPT !.pc = "spawned", !.issue = k].pc = "spawned"
        /\ [NoRun EXCEPT !.pc = "spawned", !.issue = k].issue = k
    BY ConstantsType DEF RunStates
  <2>3. CASE i = k
    BY <1>1, <2>1, <2>2, <2>3
  <2>4. CASE i # k
    <3>1. entry'[i] = entry[i] /\ entry[i] # r
      BY <1>1, <1>2, <2>1, <2>4
    <3> QED
      BY <1>1, <1>2, <2>1, <3>1
  <2> QED
    BY <2>3, <2>4
<1>8. ASSUME NEW r \in Runs, RunBegins(r)
      PROVE  run'[entry'[i]].issue = i /\ run'[entry'[i]].pc \in {"spawned", "working"}
  <2>1. entry' = entry
    BY <1>8 DEF RunBegins
  <2>2. run' = [run EXCEPT ![r] = [run[r] EXCEPT !.pc = "working"]]
    BY <1>1, <1>8 DEF RunBegins
  <2>3. [run[r] EXCEPT !.pc = "working"].pc = "working"
        /\ [run[r] EXCEPT !.pc = "working"].issue = run[r].issue
    BY <1>1 DEF RunStates
  <2>4. \A s \in Runs : run'[s].issue = run[s].issue /\ run'[s].pc \in {run[s].pc, "working"}
    BY <1>1, <2>2, <2>3
  <2> QED
    BY <1>2, <2>1, <2>4
<1>9. ASSUME NEW r \in Runs, RunEnds(r)
      PROVE  run'[entry'[i]].issue = i /\ run'[entry'[i]].pc \in {"spawned", "working"}
  <2>1. run' = [run EXCEPT ![r] = Over]
    BY <1>9 DEF RunEnds
  <2>2. entry'[i] = entry[i] /\ (i = run[r].issue => entry[i] = 0)
    <3>1. \/ entry[run[r].issue] # 0 /\ entry' = [entry EXCEPT ![run[r].issue] = 0]
          \/ entry[run[r].issue] = 0 /\ entry' = entry
      BY <1>9 DEF RunEnds
    <3> QED
      BY <1>1, <3>1
  <2>3. entry[i] # r
    BY <1>2, <2>2
  <2> QED
    BY <1>1, <1>2, <2>1, <2>2, <2>3
<1>10. ASSUME NEW k \in Issues, Move(k)
       PROVE  run'[entry'[i]].issue = i /\ run'[entry'[i]].pc \in {"spawned", "working"}
  BY <1>2, <1>10 DEF Move, runVars
<1> QED
  BY <1>3, <1>5, <1>6, <1>7, <1>8, <1>9, <1>10, RunMoves DEF RunsMove

-----------------------------------------------------------------------------
\* What keeps a run in its place: its issue, its column, the configurations and
\* what it has met stay.
WorkRests(r) ==
  /\ run'[r].issue = run[r].issue /\ (run'[r].pc \in {"spawned", "working"} => Working(r))
  /\ UNCHANGED <<board, boot, config>>
  /\ r \in moved => r \in moved'
  /\ r \in dropped => r \in dropped'
  /\ step' = "reconciling" => step = "reconciling" /\ tickConfig' = tickConfig

LEMMA RestKeepsWork ==
  ASSUME NEW r \in Runs, UnmovedHaveWork, WorkRests(r), Working(r)', r \notin moved'
  PROVE  /\ board'[run'[r].issue] \in Active(boot')
         /\ r \notin dropped' =>
              /\ board'[run'[r].issue] \in Open(config')
              /\ step' = "reconciling" => board'[run'[r].issue] \in Open(tickConfig')
BY DEF UnmovedHaveWork, WorkRests, Working

\* A step that touches no run, no issue and no configuration.
LEMMA OthersRest ==
  ASSUME [Next]_vars, ~Start, ~Crash, ~Reload, ~ReconcileReads, ~Reconcile,
         \A r \in Runs : ~RunBegins(r) /\ ~RunEnds(r),
         \A i \in Issues : ~Retry(i) /\ ~Move(i) /\ ~ApiCancel(i),
         \A i \in Issues, r \in Runs : ~Dispatch(r, i)
  PROVE  /\ UNCHANGED <<run, board, boot, config, moved, dropped>>
         /\ step' = "reconciling" => step = "reconciling" /\ tickConfig' = tickConfig
BY DEF Next, vars, fileVars, configVars, watchVars, loopVars, runVars, sweepVars,
   diskVars, truthVars, Sweep, Watcher, Loop, StartFails, WatcherStarts, Restart, SweepFetch,
   SweepFails, SweepUnanswered, SweepRemove, SweepList, SweepOrphan, SweepEnds,
   SweepBreaksOff, SweepAgain, TakeToken, ReadFile, Preflight, ReconcileWith, StartRun,
   DispatchEnds, Edit

\* Only a move takes the issue of a run to another column, and a configuration
\* that gives a column up is remembered by the runs it meets.
LEMMA UnmovedStep ==
  ASSUME TypeOK, QuietUntilUp, UnmovedHaveWork, [Next]_vars
  PROVE  UnmovedHaveWork'
<1>1. run \in [Runs -> RunStates] /\ board \in [Issues -> Columns]
  BY DEF TypeOK
<1> DEFINE Kept(r) ==
             /\ board'[run'[r].issue] \in Active(boot')
             /\ r \notin dropped' =>
                  /\ board'[run'[r].issue] \in Open(config')
                  /\ step' = "reconciling" => board'[run'[r].issue] \in Open(tickConfig')
<1> SUFFICES ASSUME NEW r \in Runs, Working(r)', r \notin moved'
             PROVE  Kept(r)
  BY DEF UnmovedHaveWork, Open, Active, Terminal
<1>2. WorkRests(r) => Kept(r)
  BY RestKeepsWork
<1>3. CASE Crash
  BY <1>3, ConstantsType DEF Crash, Working
<1>4. CASE Start
  BY <1>4 DEF Start, QuietUntilUp, Working, runVars
<1>5. CASE Reload
  <2>1. /\ run' = run /\ UNCHANGED <<board, boot, step, tickConfig, moved>> /\ config' = inHand
        /\ dropped' = dropped \cup StuckBy(inHand)
    BY <1>5 DEF Reload, runVars, loopVars
  <2>2. Working(r)
    BY <2>1 DEF Working
  <2>3. r \notin dropped' => r \notin dropped /\ board[run[r].issue] \in Open(config')
    BY <2>1, <2>2 DEF StuckBy, Working
  <2> QED
    BY <2>1, <2>2, <2>3 DEF UnmovedHaveWork
<1>6. CASE ReconcileReads
  BY <1>6 DEF ReconcileReads, UnmovedHaveWork, Working, runVars, configVars, truthVars
<1>7. ASSUME NEW S, run' = Cancelled(S), UNCHANGED <<board, boot, config, moved, dropped>>,
             step' = "reconciling" => step = "reconciling" /\ tickConfig' = tickConfig
      PROVE  Kept(r)
  <2>1. run'[r].issue = run[r].issue /\ run'[r].pc = run[r].pc
    BY <1>1, <1>7 DEF Cancelled, RunStates
  <2>2. WorkRests(r)
    BY <1>7, <2>1 DEF WorkRests, Working
  <2> QED
    BY <1>2, <2>2
<1>8. CASE Reconcile
  <2>1. PICK S : run' = Cancelled(S)
    BY <1>8 DEF Reconcile, ReconcileWith
  <2>2. UNCHANGED <<board, boot, config, moved, dropped>> /\ step' # "reconciling"
    BY <1>8 DEF Reconcile, ReconcileWith, Preflight, configVars, truthVars
  <2> QED
    BY <1>7, <2>1, <2>2
<1>9. ASSUME NEW k \in Issues, ApiCancel(k)
      PROVE  Kept(r)
  <2>1. run' = Cancelled({entry[k]})
    BY <1>9 DEF ApiCancel
  <2>2. UNCHANGED <<board, boot, config, moved, dropped, step, tickConfig>>
    BY <1>9 DEF ApiCancel, configVars, loopVars
  <2> QED
    BY <1>7, <2>1, <2>2
<1>10. ASSUME NEW s \in Runs, NEW k \in Issues, RunStarts(s, k)
       PROVE  Kept(r)
  <2>1. /\ run' = [run EXCEPT ![s] = [NoRun EXCEPT !.pc = "spawned", !.issue = k]]
        /\ board[k] \in Active(boot)
        /\ UNCHANGED <<moved, board, boot, config, step>> /\ step # "reconciling"
        /\ dropped' = dropped \cup (IF board[k] \in Open(config) THEN {} ELSE {s})
    BY <1>10 DEF RunStarts, StartRun
  <2>2. CASE r = s
    <3>1. run'[r].issue = k
      BY <1>1, <2>1, <2>2, ConstantsType DEF RunStates
    <3> QED
      BY <2>1, <2>2, <3>1
  <2>3. CASE r # s
    <3>1. run'[r] = run[r]
      BY <1>1, <2>1, <2>3
    <3>2. WorkRests(r)
      BY <2>1, <3>1 DEF WorkRests, Working
    <3> QED
      BY <1>2, <3>2
  <2> QED
    BY <2>2, <2>3
<1>11. ASSUME NEW k \in Issues, Retry(k)
       PROVE  Kept(r)
  <2>1. CASE \E s \in Runs : RunStarts(s, k)
    BY <1>10, <2>1
  <2>2. CASE ~\E s \in Runs : RunStarts(s, k)
    <3>1. UNCHANGED <<run, moved, dropped>>
      BY <1>11, <2>2 DEF Retry, RunStarts, Candidates, QuietUntilUp, configVars, loopVars
    <3>2. UNCHANGED <<board, boot, config, step, tickConfig>>
      BY <1>11 DEF Retry, configVars, loopVars
    <3>3. WorkRests(r)
      BY <3>1, <3>2 DEF WorkRests, Working
    <3> QED
      BY <1>2, <3>3
  <2> QED
    BY <2>1, <2>2
<1>12. ASSUME NEW s \in Runs, NEW k \in Issues, Dispatch(s, k)
       PROVE  Kept(r)
  <2>1. RunStarts(s, k)
    BY <1>12 DEF Dispatch, RunStarts, Candidates, QuietUntilUp, configVars, loopVars
  <2> QED
    BY <1>10, <2>1
<1>13. ASSUME NEW s \in Runs, RunBegins(s)
       PROVE  Kept(r)
  <2>1. /\ run' = [run EXCEPT ![s] = [run[s] EXCEPT !.pc = "working"]] /\ run[s].pc = "spawned"
        /\ UNCHANGED <<moved, dropped, board, boot, config, step, tickConfig>>
    BY <1>1, <1>13 DEF RunBegins, truthVars, configVars, loopVars
  <2>2. [run[s] EXCEPT !.pc = "working"].issue = run[s].issue
    BY <1>1 DEF RunStates
  <2>3. WorkRests(r)
    BY <1>1, <2>1, <2>2 DEF WorkRests, Working
  <2> QED
    BY <1>2, <2>3
<1>14. ASSUME NEW s \in Runs, RunEnds(s)
       PROVE  Kept(r)
  <2>1. /\ run' = [run EXCEPT ![s] = Over] /\ moved' = moved \ {s} /\ dropped' = dropped \ {s}
        /\ UNCHANGED <<board, boot, config, step, tickConfig>>
    BY <1>14 DEF RunEnds, configVars, loopVars
  <2>2. r # s
    BY <1>1, <2>1, ConstantsType DEF Working
  <2>3. WorkRests(r)
    BY <1>1, <2>1, <2>2 DEF WorkRests, Working
  <2> QED
    BY <1>2, <2>3
<1>15. ASSUME NEW k \in Issues, Move(k)
       PROVE  Kept(r)
  <2>1. /\ run' = run /\ UNCHANGED <<boot, config, step, tickConfig, dropped>>
        /\ moved' = moved \cup {s \in Runs : run[s].pc \in {"spawned", "working"} /\ run[s].issue = k}
        /\ \E c \in Columns : board' = [board EXCEPT ![k] = c]
    BY <1>15 DEF Move, runVars, configVars, loopVars
  <2>2. run[r].issue # k /\ r \notin moved /\ Working(r)
    BY <2>1 DEF Working
  <2>3. board'[run[r].issue] = board[run[r].issue]
    BY <1>1, <2>1, <2>2
  <2> QED
    BY <2>1, <2>2, <2>3 DEF UnmovedHaveWork
<1>16. CASE /\ ~Start /\ ~Crash /\ ~Reload /\ ~ReconcileReads /\ ~Reconcile
            /\ \A s \in Runs : ~RunBegins(s) /\ ~RunEnds(s)
            /\ \A k \in Issues : ~Retry(k) /\ ~Move(k) /\ ~ApiCancel(k)
            /\ \A k \in Issues, s \in Runs : ~Dispatch(s, k)
  <2>1. WorkRests(r)
    BY <1>16, OthersRest DEF WorkRests, Working
  <2> QED
    BY <1>2, <2>1
<1> QED
  BY <1>3, <1>4, <1>5, <1>6, <1>8, <1>9, <1>11, <1>12, <1>13, <1>14, <1>15, <1>16

\* A run is told to stop for a move, by an operator or by a configuration.
LEMMA StopStep ==
  ASSUME TypeOK, QuietUntilUp, EntriesAreRuns, UnmovedHaveWork, StopsAreCalledFor, [Next]_vars
  PROVE  StopsAreCalledFor'
<1>1. run \in [Runs -> RunStates] /\ entry \in [Issues -> {0} \cup Runs]
  BY DEF TypeOK
<1> DEFINE Stopped(r) == run[r].pc \in {"spawned", "working"} /\ run[r].cancelled
<1> SUFFICES ASSUME NEW r \in Runs, Stopped(r)'
             PROVE  r \in moved' \cup ordered' \cup dropped'
  BY DEF StopsAreCalledFor
<1>2. Stopped(r) => r \in moved \cup ordered \cup dropped
  BY DEF StopsAreCalledFor
<1>3. CASE Crash
  BY <1>3, ConstantsType DEF Crash
<1>4. CASE RunsRest
  BY <1>2, <1>4 DEF RunsRest
<1>5. CASE Reconcile
  <2>1. /\ run' = Cancelled({entry[i] : i \in Ended(tickConfig) \cup Strayed(tickConfig)})
        /\ UNCHANGED <<moved, ordered, dropped>> /\ step = "reconciling"
    BY <1>5 DEF Reconcile, ReconcileWith, truthVars
  <2>2. CASE r \in {entry[i] : i \in Ended(tickConfig) \cup Strayed(tickConfig)}
    <3>1. PICK i \in Issues : entry[i] = r /\ entry[i] # 0 /\ board[i] \notin Open(tickConfig)
      BY <2>2 DEF Ended, Strayed, Filed, Open
    <3>2. run[r].issue = i /\ Working(r)
      BY <3>1 DEF EntriesAreRuns
    <3> QED
      BY <2>1, <3>1, <3>2 DEF UnmovedHaveWork
  <2>3. CASE r \notin {entry[i] : i \in Ended(tickConfig) \cup Strayed(tickConfig)}
    <3>1. run'[r] = run[r]
      BY <2>1, <2>3 DEF Cancelled
    <3> QED
      BY <1>2, <2>1, <3>1
  <2> QED
    BY <2>2, <2>3
<1>6. ASSUME NEW k \in Issues, ApiCancel(k)
      PROVE  r \in moved' \cup ordered' \cup dropped'
  <2>1. /\ run' = Cancelled({entry[k]}) /\ ordered' = ordered \cup {entry[k]}
        /\ UNCHANGED <<moved, dropped>>
    BY <1>6 DEF ApiCancel
  <2>2. CASE r = entry[k]
    BY <2>1, <2>2
  <2>3. CASE r # entry[k]
    <3>1. run'[r] = run[r]
      BY <2>1, <2>3 DEF Cancelled
    <3> QED
      BY <1>2, <2>1, <3>1
  <2> QED
    BY <2>2, <2>3
<1>7. ASSUME NEW s \in Runs, NEW k \in Issues, RunStarts(s, k)
      PROVE  r \in moved' \cup ordered' \cup dropped'
  <2>1. /\ run' = [run EXCEPT ![s] = [NoRun EXCEPT !.pc = "spawned", !.issue = k]]
        /\ moved' = moved /\ ordered' = ordered /\ dropped \subseteq dropped'
    BY <1>7 DEF RunStarts, StartRun
  <2>2. ~[NoRun EXCEPT !.pc = "spawned", !.issue = k].cancelled
    BY ConstantsType DEF RunStates
  <2>3. run'[r] = run[r]
    BY <1>1, <2>1, <2>2
  <2> QED
    BY <1>2, <2>1, <2>3
<1>8. ASSUME NEW s \in Runs, RunBegins(s)
      PROVE  r \in moved' \cup ordered' \cup dropped'
  <2>1. /\ run' = [run EXCEPT ![s] = [run[s] EXCEPT !.pc = "working"]] /\ run[s].pc = "spawned"
        /\ UNCHANGED <<moved, ordered, dropped>>
    BY <1>1, <1>8 DEF RunBegins, truthVars
  <2>2. [run[s] EXCEPT !.pc = "working"].cancelled = run[s].cancelled
    BY <1>1 DEF RunStates
  <2>3. Stopped(r)
    BY <1>1, <2>1, <2>2
  <2> QED
    BY <1>2, <2>1, <2>3
<1>9. ASSUME NEW s \in Runs, RunEnds(s)
      PROVE  r \in moved' \cup ordered' \cup dropped'
  <2>1. /\ run' = [run EXCEPT ![s] = Over]
        /\ moved' = moved \ {s} /\ ordered' = ordered \ {s} /\ dropped' = dropped \ {s}
    BY <1>9 DEF RunEnds
  <2>2. r # s
    BY <1>1, <2>1, ConstantsType
  <2>3. run'[r] = run[r]
    BY <1>1, <2>1, <2>2
  <2> QED
    BY <1>2, <2>1, <2>2, <2>3
<1>10. ASSUME NEW k \in Issues, Move(k)
       PROVE  r \in moved' \cup ordered' \cup dropped'
  BY <1>2, <1>10 DEF Move, runVars
<1> QED
  BY <1>3, <1>4, <1>5, <1>6, <1>7, <1>8, <1>9, <1>10, RunMoves DEF RunsMove

\* The sweep and the end of a run are what takes workspaces.
LEMMA SpareStep ==
  ASSUME ServiceIInv, [Next]_vars, NEW r \in Runs, run[r].pc = "working", run' = run,
         run[r].issue \in dirs \ dirs'
  PROVE  \/ r \in moved \/ run[r].issue \in reopened
         \/ stage = "list" /\ run[r].issue \in Prefixed
         \/ board[run[r].issue] \in Active(boot) \cap Terminal(boot)
<1>1. run \in [Runs -> RunStates]
  BY DEF ServiceIInv, TypeOK
<1>2. ASSUME NEW i \in Issues, SweepRemove(i)
      PROVE  \/ r \in moved \/ run[r].issue \in reopened
             \/ board[run[r].issue] \in Active(boot) \cap Terminal(boot)
  <2>1. i = run[r].issue /\ i \in doomed
    BY <1>2 DEF SweepRemove
  <2>2. board[i] \in Terminal(boot) \/ i \in reopened
    BY <2>1 DEF ServiceIInv, DoomedAreTerminal
  <2>3. r \in moved \/ board[i] \in Active(boot)
    BY <2>1 DEF ServiceIInv, UnmovedHaveWork, Working
  <2> QED
    BY <2>1, <2>2, <2>3
<1>3. ASSUME NEW i \in Issues, SweepOrphan(i)
      PROVE  stage = "list" /\ run[r].issue \in Prefixed
  BY <1>3 DEF SweepOrphan
<1>4. \A s \in Runs : ~RunEnds(s)
  <2> SUFFICES ASSUME NEW s \in Runs, RunEnds(s)
               PROVE  FALSE
    OBVIOUS
  <2>1. run' = [run EXCEPT ![s] = Over] /\ run[s].pc = "working"
    BY DEF RunEnds
  <2>2. run'[s].pc = "over"
    BY <1>1, <2>1, ConstantsType
  <2> QED
    BY <2>1, <2>2
<1>5. CASE \A i \in Issues : ~SweepRemove(i) /\ ~SweepOrphan(i)
  <2>1. dirs \subseteq dirs'
    BY <1>4, <1>5 DEF Next, vars, fileVars, configVars, watchVars, loopVars, runVars,
       sweepVars, diskVars, truthVars, Sweep, Watcher, Loop, StartFails, Start,
       WatcherStarts, Crash, Restart, SweepFetch, SweepFails, SweepUnanswered, SweepList,
       SweepEnds, SweepBreaksOff, SweepAgain, TakeToken, ReadFile, Reload, ReconcileReads,
       Preflight, ReconcileWith, Reconcile, StartRun, Dispatch, DispatchEnds, Retry,
       RunBegins, Edit, ApiCancel, Move
  <2> QED
    BY <2>1
<1> QED
  BY <1>2, <1>3, <1>5

-----------------------------------------------------------------------------
\* A daemon that starts satisfies the invariant.
LEMMA InitInv ==
  Init => ServiceIInv
<1> SUFFICES ASSUME Init PROVE ServiceIInv
  OBVIOUS
<1> USE DEF Init
<1>1. TypeOK
  <2>1. file \in Versions /\ edits \in 0..MaxEdits
    BY ConstantsType
  <2>2. run \in [Runs -> RunStates] /\ left \in 0..MaxTroubles
    BY ConstantsType
  <2>3. boot \in Versions /\ config \in Versions /\ inHand \in Versions /\ tickConfig \in Versions
    BY ConstantsType
  <2> QED
    BY <2>1, <2>2, <2>3 DEF TypeOK
<1>2. QuietUntilUp /\ SweepHasItsPlace /\ HandIsParsed /\ EntriesAreRuns /\ UnmovedHaveWork
  BY ConstantsType DEF QuietUntilUp, SweepHasItsPlace, HandIsParsed, EntriesAreRuns,
                       UnmovedHaveWork, Working
<1>3. DoomedAreTerminal /\ FirstSweepIsAlone /\ StopsAreCalledFor
  BY ConstantsType DEF DoomedAreTerminal, FirstSweepIsAlone, StopsAreCalledFor
<1> QED
  BY <1>1, <1>2, <1>3 DEF ServiceIInv

\* And every step keeps it.
LEMMA NextInv ==
  ServiceIInv /\ [Next]_vars => ServiceIInv'
BY TypeStep, QuietStep, SweepStep, DoomedStep, AloneStep, HandStep, EntryStep, UnmovedStep,
   StopStep DEF ServiceIInv

\* The inductive invariant of the daemon holds in every behaviour, for any
\* number of issues, runs, edits and troubles (main.rs, tick.rs).
THEOREM ServiceIInvHolds == Spec => []ServiceIInv
BY InitInv, NextInv, PTL DEF Spec

\* What is built at startup has been validated, the scheduler never has a
\* configuration that does not parse, and nothing runs until the first sweep of
\* the workspaces is over, well or not (main.rs).
THEOREM ServiceSafe == Spec => []ServiceInv
<1>1. ServiceIInv => ServiceInv
  BY DEF ServiceIInv, ServiceInv
<1> QED
  BY <1>1, ServiceIInvHolds, PTL

\* A run is told to stop because its issue was moved, because an operator asked,
\* or because a configuration it has met, valid or not, has no work in its
\* issue's column; whatever files are saved, read and reloaded (tick.rs reconcile).
THEOREM StopsCalledFor == Spec => []StopsAreCalledFor
<1>1. ServiceIInv => StopsAreCalledFor
  BY DEF ServiceIInv
<1> QED
  BY <1>1, ServiceIInvHolds, PTL

\* The repeated sweep takes no workspace from under a run but that of a moved
\* issue, of a directory in SYMPHEO- or of a column both active and terminal,
\* whatever the files saved since the start call terminal (main.rs).
THEOREM SweepSpares == Spec => SweepSparesRuns
<1>1. ServiceIInv /\ [Next]_vars =>
        [\A r \in Runs :
           /\ run[r].pc = "working" /\ run' = run
           /\ run[r].issue \in dirs \ dirs'
           => \/ r \in moved \/ run[r].issue \in reopened
              \/ stage = "list" /\ run[r].issue \in Prefixed
              \/ board[run[r].issue] \in Active(boot) \cap Terminal(boot)]_vars
  BY SpareStep
<1> QED
  BY <1>1, ServiceIInvHolds, PTL DEF Spec, SweepSparesRuns

=============================================================================
