---------------------------- MODULE Orchestrator ----------------------------
(***************************************************************************)
(* The issue scheduler of Sympheo (src/orchestrator/tick.rs, state.rs).    *)
(*                                                                         *)
(* One main task runs tick() and then process_retries() for ever.  It      *)
(* shares OrchestratorState with the worker tasks it spawns and with the   *)
(* HTTP handlers; the state sits behind one RwLock, so an action below is  *)
(* what one task does under one acquisition of that lock, or one awaited   *)
(* call between two acquisitions.  Beside them the cleanup that failed at  *)
(* startup is repeated in a task of its own (src/main.rs), which shares    *)
(* only the workspaces with the others.                                    *)
(*                                                                         *)
(* A worker task is a slot of Workers that is reused once its task has     *)
(* ended.  The turn loop of run_worker is one coarse phase here: from the  *)
(* scheduler's point of view a worker provisions its workspace, runs       *)
(* turns, and at some point returns Ok or Err.                             *)
(***************************************************************************)
EXTENDS Integers, FiniteSets

CONSTANTS
  Issues,          \* the issues the tracker may list
  Workers,         \* slots for live worker tasks (a bound on live tasks)
  States,          \* the columns of the tracker's board
  Active,          \* tracker.active_states
  Terminal,        \* tracker.terminal_states
  Rank,            \* dispatch order: (priority, created_at, identifier)
  Blockers,        \* Issue.blocked_by
  MaxConcurrent,   \* agent.max_concurrent_agents
  StateLimit,      \* agent.max_concurrent_agents_by_state, completed by the cap
  MaxAttempts,     \* agent.max_retry_attempts
  StallDetection,  \* cli.stall_timeout_ms > 0
  OperatorOps,     \* the control endpoints in use
  Removable,       \* the issues somebody may take off the board
  CleanupFailed,   \* the cleanup at startup failed and is repeated later
  Prefixed,        \* the issues whose directory has a name in SYMPHEO-
  NoIssue, NoWorker, NotListed

ASSUME IssuesAssumption ==
  /\ IsFiniteSet(Issues)
  /\ NoIssue \notin Issues
  /\ Rank \in [Issues -> Nat]
  /\ \A i, j \in Issues : Rank[i] = Rank[j] => i = j
  /\ Blockers \in [Issues -> SUBSET Issues]
  /\ Removable \subseteq Issues

ASSUME WorkersAssumption == NoWorker \notin Workers

\* ServiceConfig clamps the cap and the retry budget to at least 1, and drops
\* per-state limits that are not positive.
ASSUME ConfigAssumption ==
  /\ Active \subseteq States
  /\ Terminal \subseteq States
  /\ NotListed \notin States
  /\ MaxConcurrent \in Nat \ {0}
  /\ StateLimit \in [States -> Nat \ {0}]
  /\ MaxAttempts \in Nat \ {0}
  /\ StallDetection \in BOOLEAN
  /\ OperatorOps \subseteq {"cancel", "delete"}

ASSUME CleanupAssumption == CleanupFailed \in BOOLEAN /\ Prefixed \subseteq Issues

VARIABLES
  tracker,     \* the column each issue is in now (the outside world)
  \* OrchestratorState
  running,     \* running[i]: the task whose RunningEntry is filed under i
  entryState,  \* RunningEntry.issue.state
  claimed,     \* the claimed set
  retry,       \* retry_attempts[i].attempt, 0 when there is no entry
  due,         \* the retry entries whose due_at has passed
  \* locals of the main task
  main,        \* where tick() / process_retries() is
  seen,        \* the answer of the last tracker fetch
  work,        \* the issues left in the kill loop or in the dispatch loop
  snap,        \* process_retries' `due` list: the attempts still to handle
  cur,         \* the issue being handled
  \* worker tasks
  pc,          \* where the spawned task is
  job,         \* the issue the task was spawned for
  attempt,     \* its `attempt` argument, 0 for None (also entry.retry_attempt)
  result,      \* what run_worker returned
  cancelled,   \* the Arc<AtomicBool> shared with the RunningEntry
  \* the file system
  workspace,   \* workspace[i]: the directory of issue i exists
  \* the background cleanup of main.rs
  sweep,       \* where the task is, "off" when there is none (any more)
  doomed       \* the terminal issues it was given and has not handled yet

entryVars  == <<running, entryState>>
retryVars  == <<retry, due>>
stateVars  == <<running, entryState, claimed, retry, due>>
localVars  == <<seen, work, snap, cur>>
taskVars   == <<pc, job, attempt, result>>
workerVars == <<pc, job, attempt, result, cancelled>>
sweepVars  == <<sweep, doomed>>
diskVars   == <<workspace, sweepVars>>
vars == <<tracker, stateVars, main, localVars, workerVars, diskVars>>

-----------------------------------------------------------------------------
(* Reading the shared state.                                               *)

Views   == [Issues -> States \cup {NotListed}]
NoView  == [i \in Issues |-> NotListed]
Nothing == [i \in Issues |-> 0]

\* A tracker answer, cut down to the issues the caller looks at.
View(S) == [i \in Issues |-> IF i \in S THEN tracker[i] ELSE NotListed]

Running == {i \in Issues : running[i] # NoWorker}
Queued  == {i \in Issues : retry[i] # 0}
Live    == {w \in Workers : pc[w] # "idle"}

\* saturating_sub: a reload may lower the cap below the number of entries
AvailableSlots ==
  IF Cardinality(Running) < MaxConcurrent
  THEN MaxConcurrent - Cardinality(Running) ELSE 0

RunningInState(s) == {i \in Running : entryState[i] = s}

Dispatchable(s) == s \in Active \ Terminal

IsBlocked(i) == \E b \in Blockers[i] : tracker[b] \in States \ Terminal

-----------------------------------------------------------------------------
Init ==
  /\ tracker \in Views
  /\ running = [i \in Issues |-> NoWorker]
  /\ entryState = NoView
  /\ claimed = {}
  /\ retry = Nothing
  /\ due = {}
  /\ main = "tick"
  /\ seen = NoView
  /\ work = {}
  /\ snap = Nothing
  /\ cur = NoIssue
  /\ pc = [w \in Workers |-> "idle"]
  /\ job = [w \in Workers |-> NoIssue]
  /\ attempt = [w \in Workers |-> 0]
  /\ result = [w \in Workers |-> "ok"]
  /\ cancelled = [w \in Workers |-> FALSE]
  \* directories survive a restart; the startup cleanup removed those of
  \* terminal issues, or failed at any point
  /\ workspace \in [Issues -> BOOLEAN]
  /\ CleanupFailed \/ \A i \in Issues : tracker[i] \in Terminal => ~workspace[i]
  /\ sweep = IF CleanupFailed THEN "asleep" ELSE "off"
  /\ doomed = {}

\* The insert into claimed and running, and spawn_worker, under one write lock.
Spawn(i, s, a) ==
  \E w \in Workers \ Live :
    /\ running' = [running EXCEPT ![i] = w]
    /\ entryState' = [entryState EXCEPT ![i] = s]
    /\ claimed' = claimed \cup {i}
    /\ pc' = [pc EXCEPT ![w] = "starting"]
    /\ job' = [job EXCEPT ![w] = i]
    /\ attempt' = [attempt EXCEPT ![w] = a]
    /\ cancelled' = [cancelled EXCEPT ![w] = FALSE]
    /\ UNCHANGED result

\* schedule_retry and its insertion, or the claim dropped past the budget
RetryOrRelease(i, next) ==
  IF next > MaxAttempts
  THEN /\ claimed' = claimed \ {i}
       /\ UNCHANGED retryVars
  ELSE /\ retry' = [retry EXCEPT ![i] = next]
       /\ due' = due \ {i}
       /\ UNCHANGED claimed

RemoveEntry(i) ==
  /\ running' = [running EXCEPT ![i] = NoWorker]
  /\ entryState' = [entryState EXCEPT ![i] = NotListed]

\* What every branch of process_retries' loop body ends with.
NextRetry ==
  /\ snap' = [snap EXCEPT ![cur] = 0]
  /\ cur' = NoIssue
  /\ main' = "retries"

-----------------------------------------------------------------------------
(* Seeded faults: plausible mistakes in the actions below.  Nothing uses    *)
(* them; PROJECT.json names the property that each of them would break.     *)

\* tick looks for a running entry but forgets the claim
StartableUnclaimed ==
  {i \in work : /\ i \notin Running
                /\ Cardinality(RunningInState(seen[i])) < StateLimit[seen[i]]}

\* the entry stays in the queue while its issue is handled
TakeRetryKeeps(i) ==
  /\ main = "retries"
  /\ snap[i] # 0
  /\ cur' = i
  /\ main' = "retryFetch"
  /\ UNCHANGED <<tracker, stateVars, seen, work, snap, workerVars, diskVars>>

\* a failed poll costs no attempt
RetryFetchFailsFree ==
  /\ main = "retryFetch"
  /\ RetryOrRelease(cur, snap[cur])
  /\ NextRetry
  /\ UNCHANGED <<tracker, entryVars, seen, work, workerVars, diskVars>>

\* an early return that leaves the claim behind
RetryInactiveKeepsClaim ==
  /\ main = "retryApply"
  /\ ~Dispatchable(seen[cur])
  /\ NextRetry
  /\ seen' = NoView
  /\ UNCHANGED <<tracker, stateVars, work, workerVars, diskVars>>

\* an inactive issue waits in the queue until it is active again
RetryInactiveWaits ==
  /\ main = "retryApply"
  /\ ~Dispatchable(seen[cur])
  /\ retry' = [retry EXCEPT ![cur] = snap[cur]]
  /\ due' = due \ {cur}
  /\ NextRetry
  /\ seen' = NoView
  /\ UNCHANGED <<tracker, entryVars, claimed, work, workerVars, diskVars>>

\* a retry starts as if it were a first attempt
RetryDispatchAfresh ==
  /\ main = "retryApply"
  /\ Dispatchable(seen[cur])
  /\ AvailableSlots > 0
  /\ Spawn(cur, seen[cur], 0)
  /\ NextRetry
  /\ seen' = NoView
  /\ UNCHANGED <<tracker, retryVars, work, diskVars>>

\* a cancelled run's workspace goes before after_run
ReturnAndRemove(w) ==
  /\ pc[w] = "turns"
  /\ pc' = [pc EXCEPT ![w] = "afterRun"]
  /\ \E r \in {"ok", "err"} : result' = [result EXCEPT ![w] = r]
  /\ workspace' = [workspace EXCEPT ![job[w]] = @ /\ ~cancelled[w]]
  /\ UNCHANGED <<tracker, stateVars, main, localVars, job, attempt, cancelled,
                 sweepVars>>

\* a cancelled worker leaves its entry to somebody else
WorkerExitCancelled(w) ==
  /\ pc[w] = "exiting"
  /\ IF job[w] \in Running /\ ~cancelled[w]
     THEN /\ RemoveEntry(job[w])
          /\ RetryOrRelease(job[w],
               IF result[w] = "ok" THEN 1 ELSE attempt[w] + 1)
     ELSE UNCHANGED stateVars
  /\ pc' = [pc EXCEPT ![w] = "idle"]
  /\ job' = [job EXCEPT ![w] = NoIssue]
  /\ attempt' = [attempt EXCEPT ![w] = 0]
  /\ result' = [result EXCEPT ![w] = "ok"]
  /\ cancelled' = [cancelled EXCEPT ![w] = FALSE]
  /\ UNCHANGED <<tracker, main, localVars, diskVars>>

\* the cancel endpoint drops the entry and the claim at once
ApiCancelDrops(i) ==
  /\ "cancel" \in OperatorOps
  /\ i \in Running
  /\ RemoveEntry(i)
  /\ claimed' = claimed \ {i}
  /\ cancelled' = [cancelled EXCEPT ![running[i]] = TRUE]
  /\ UNCHANGED <<tracker, retryVars, main, localVars, taskVars, diskVars>>

-----------------------------------------------------------------------------
(* tick(): reconcile().  No entry appears while the main task is in        *)
(* reconcile, so the ids it asks the tracker about are the entries of the  *)
(* snapshot that are still there.                                          *)

\* Any running entry may have been inactive for longer than the timeout.
ReconcileStart ==
  /\ main = "tick"
  /\ IF Running = {}
     THEN main' = "candidates" /\ UNCHANGED work
     ELSE /\ main' = "kill"
          /\ work' \in IF StallDetection THEN SUBSET Running ELSE {{}}
  /\ UNCHANGED <<tracker, stateVars, seen, snap, cur, workerVars, diskVars>>

\* The first read of the kill loop; an entry that is gone is skipped.
KillNext(i) ==
  /\ main = "kill"
  /\ i \in work
  /\ work' = work \ {i}
  /\ IF i \in Running THEN main' = "killExit" /\ cur' = i
                      ELSE UNCHANGED <<main, cur>>
  /\ UNCHANGED <<tracker, stateVars, seen, snap, workerVars, diskVars>>

\* handle_worker_exit(id, false, "stalled"): the entry goes to the retry
\* queue, its task is not told anything.
HandleWorkerExit ==
  /\ main = "killExit"
  /\ IF cur \in Running
     THEN /\ RemoveEntry(cur)
          /\ RetryOrRelease(cur, attempt[running[cur]] + 1)
     ELSE UNCHANGED stateVars
  /\ main' = "killRemove"
  /\ UNCHANGED <<tracker, localVars, workerVars, diskVars>>

KillRemoveWorkspace ==
  /\ main = "killRemove"
  /\ workspace' = [workspace EXCEPT ![cur] = FALSE]
  /\ main' = "kill"
  /\ cur' = NoIssue
  /\ UNCHANGED <<tracker, stateVars, seen, work, snap, workerVars, sweepVars>>

RefreshOk ==
  /\ main = "kill"
  /\ work = {}
  /\ seen' = View(Running)
  /\ main' = "apply"
  /\ UNCHANGED <<tracker, stateVars, work, snap, cur, workerVars, diskVars>>

RefreshFails ==
  /\ main = "kill"
  /\ work = {}
  /\ main' = "candidates"
  /\ UNCHANGED <<tracker, stateVars, localVars, workerVars, diskVars>>

\* seeded fault: the flag is stored, whatever it was
ReconcileOverwrites ==
  LET gone  == {i \in Running : seen[i] \in Terminal}
      limbo == {i \in Running : seen[i] \in States \ (Active \cup Terminal)}
      live  == {i \in Running : Dispatchable(seen[i])}
  IN
  /\ main = "apply"
  /\ cancelled' = [w \in Workers |->
        IF \E i \in Running : running[i] = w
        THEN \E i \in gone \cup limbo : running[i] = w ELSE cancelled[w]]
  /\ running' = [i \in Issues |-> IF i \in limbo THEN NoWorker ELSE running[i]]
  /\ entryState' = [i \in Issues |-> CASE i \in limbo -> NotListed
                                       [] i \in live -> seen[i]
                                       [] OTHER -> entryState[i]]
  /\ claimed' = claimed \ limbo
  /\ main' = "candidates"
  /\ seen' = NoView
  /\ UNCHANGED <<tracker, retryVars, work, snap, cur, taskVars, diskVars>>

\* The loop over the refreshed issues, under one write lock.
Reconcile ==
  LET gone  == {i \in Running : seen[i] \in Terminal}
      limbo == {i \in Running : seen[i] \in States \ (Active \cup Terminal)}
      live  == {i \in Running : Dispatchable(seen[i])}
  IN
  /\ main = "apply"
  /\ cancelled' = [w \in Workers |->
        cancelled[w] \/ \E i \in gone \cup limbo : running[i] = w]
  /\ running' = [i \in Issues |-> IF i \in limbo THEN NoWorker ELSE running[i]]
  /\ entryState' = [i \in Issues |-> CASE i \in limbo -> NotListed
                                       [] i \in live -> seen[i]
                                       [] OTHER -> entryState[i]]
  /\ claimed' = claimed \ limbo
  /\ main' = "candidates"
  /\ seen' = NoView
  /\ UNCHANGED <<tracker, retryVars, work, snap, cur, taskVars, diskVars>>

-----------------------------------------------------------------------------
(* tick(): dispatch.                                                       *)

\* validate_for_dispatch or the fetch fails: the tick ends.
CandidatesFail ==
  /\ main = "candidates"
  /\ main' = "due"
  /\ UNCHANGED <<tracker, stateVars, localVars, workerVars, diskVars>>

CandidatesFetched ==
  /\ main = "candidates"
  /\ work' = {i \in Issues : /\ Dispatchable(tracker[i])
                             /\ tracker[i] = "todo" => ~IsBlocked(i)}
  /\ seen' = View(work')
  /\ main' = "dispatch"
  /\ UNCHANGED <<tracker, stateVars, snap, cur, workerVars, diskVars>>

\* Candidates the dispatch loop does not `continue` over.
Startable ==
  {i \in work : /\ i \notin Running \cup claimed
                /\ Cardinality(RunningInState(seen[i])) < StateLimit[seen[i]]}

\* The lock is held from one spawn to the next, over every skipped candidate.
Dispatch(i) ==
  /\ main = "dispatch"
  /\ AvailableSlots > 0
  /\ i \in Startable
  /\ \A j \in Startable : Rank[i] <= Rank[j]
  /\ Spawn(i, seen[i], 0)
  /\ work' = {j \in work : Rank[j] > Rank[i]}
  /\ UNCHANGED <<tracker, retryVars, main, seen, snap, cur, diskVars>>

DispatchDone ==
  /\ main = "dispatch"
  /\ AvailableSlots = 0 \/ Startable = {}
  /\ main' = "due"
  /\ seen' = NoView
  /\ work' = {}
  /\ UNCHANGED <<tracker, stateVars, snap, cur, workerVars, diskVars>>

-----------------------------------------------------------------------------
(* process_retries().                                                      *)

CollectDue ==
  /\ main = "due"
  /\ snap' = [i \in Issues |-> IF i \in due THEN retry[i] ELSE 0]
  /\ main' = "retries"
  /\ UNCHANGED <<tracker, stateVars, seen, work, cur, workerVars, diskVars>>

TakeRetry(i) ==
  /\ main = "retries"
  /\ snap[i] # 0
  /\ retry' = [retry EXCEPT ![i] = 0]
  /\ due' = due \ {i}
  /\ cur' = i
  /\ main' = "retryFetch"
  /\ UNCHANGED <<tracker, entryVars, claimed, seen, work, snap, workerVars,
                 diskVars>>

RetriesDone ==
  /\ main = "retries"
  /\ snap = Nothing
  /\ main' = "tick"
  /\ UNCHANGED <<tracker, stateVars, localVars, workerVars, diskVars>>

RetryFetchFails ==
  /\ main = "retryFetch"
  /\ RetryOrRelease(cur, snap[cur] + 1)
  /\ NextRetry
  /\ UNCHANGED <<tracker, entryVars, seen, work, workerVars, diskVars>>

RetryFetched ==
  /\ main = "retryFetch"
  /\ seen' = View({cur})
  /\ main' = "retryApply"
  /\ UNCHANGED <<tracker, stateVars, work, snap, cur, workerVars, diskVars>>

\* The issue is not listed any more, or has left the active states.
RetryInactive ==
  /\ main = "retryApply"
  /\ ~Dispatchable(seen[cur])
  /\ claimed' = claimed \ {cur}
  /\ NextRetry
  /\ seen' = NoView
  /\ UNCHANGED <<tracker, entryVars, retryVars, work, workerVars, diskVars>>

RetryNoSlot ==
  /\ main = "retryApply"
  /\ Dispatchable(seen[cur])
  /\ AvailableSlots = 0
  /\ retry' = [retry EXCEPT ![cur] = snap[cur]]
  /\ due' = due \ {cur}
  /\ NextRetry
  /\ seen' = NoView
  /\ UNCHANGED <<tracker, entryVars, claimed, work, workerVars, diskVars>>

\* Neither the per-state limits, the blockers nor an entry already filed
\* under the issue are looked at here.
RetryDispatch ==
  /\ main = "retryApply"
  /\ Dispatchable(seen[cur])
  /\ AvailableSlots > 0
  /\ Spawn(cur, seen[cur], snap[cur])
  /\ NextRetry
  /\ seen' = NoView
  /\ UNCHANGED <<tracker, retryVars, work, diskVars>>

-----------------------------------------------------------------------------
(* The spawned task: run_worker, then the wrapper.                         *)

\* create_or_reuse makes the directory; cloning it, a hook or start_session
\* may then fail.
Provision(w) ==
  /\ pc[w] = "starting"
  /\ workspace' = [workspace EXCEPT ![job[w]] = TRUE]
  /\ \/ pc' = [pc EXCEPT ![w] = "turns"] /\ UNCHANGED result
     \/ /\ pc' = [pc EXCEPT ![w] = "afterRun"]
        /\ result' = [result EXCEPT ![w] = "err"]
  /\ UNCHANGED <<tracker, stateVars, main, localVars, job, attempt, cancelled,
                 sweepVars>>

\* run_worker returns: Ok when cancelled, when its own refresh sees the issue
\* leave the active states or when a turn budget is used up; Err when a turn,
\* a verification, a fetch or the stagnation guard fails.
ReturnFromTurns(w) ==
  /\ pc[w] = "turns"
  /\ pc' = [pc EXCEPT ![w] = "afterRun"]
  /\ \E r \in {"ok", "err"} : result' = [result EXCEPT ![w] = r]
  /\ UNCHANGED <<tracker, stateVars, main, localVars, job, attempt, cancelled,
                 diskVars>>

\* The after_run hook ends; the flag decides who deletes the workspace.
AfterRunDone(w) ==
  /\ pc[w] = "afterRun"
  /\ pc' = [pc EXCEPT ![w] = IF cancelled[w] THEN "removing" ELSE "exiting"]
  /\ UNCHANGED <<tracker, stateVars, main, localVars, job, attempt, result,
                 cancelled, diskVars>>

RemoveWorkspace(w) ==
  /\ pc[w] = "removing"
  /\ workspace' = [workspace EXCEPT ![job[w]] = FALSE]
  /\ pc' = [pc EXCEPT ![w] = "exiting"]
  /\ UNCHANGED <<tracker, stateVars, main, localVars, job, attempt, result,
                 cancelled, sweepVars>>

\* The final write lock: whichever entry is filed under the issue is removed.
WorkerExit(w) ==
  /\ pc[w] = "exiting"
  /\ IF job[w] \in Running
     THEN /\ RemoveEntry(job[w])
          /\ RetryOrRelease(job[w],
               IF result[w] = "ok" THEN 1 ELSE attempt[w] + 1)
     ELSE UNCHANGED stateVars
  /\ pc' = [pc EXCEPT ![w] = "idle"]
  /\ job' = [job EXCEPT ![w] = NoIssue]
  /\ attempt' = [attempt EXCEPT ![w] = 0]
  /\ result' = [result EXCEPT ![w] = "ok"]
  /\ cancelled' = [cancelled EXCEPT ![w] = FALSE]
  /\ UNCHANGED <<tracker, main, localVars, diskVars>>

-----------------------------------------------------------------------------
(* The background cleanup: do_cleanup again, every five minutes until it   *)
(* succeeds.  It knows nothing of entries, claims and workers.             *)

\* fetch_issues_by_states answers; where it fails the task sleeps on.
CleanupFetched ==
  /\ sweep = "asleep"
  /\ sweep' = "removing"
  /\ doomed' = {i \in Issues : tracker[i] \in Terminal}
  /\ UNCHANGED <<tracker, stateVars, main, localVars, workerVars, workspace>>

CleanupRemoves(i) ==
  /\ sweep = "removing"
  /\ i \in doomed
  /\ doomed' = doomed \ {i}
  /\ workspace' = [workspace EXCEPT ![i] = FALSE]
  /\ UNCHANGED <<tracker, stateVars, main, localVars, workerVars, sweep>>

\* read_dir opens the root; without a root the task sleeps again.
CleanupLists ==
  /\ sweep = "removing"
  /\ doomed = {}
  /\ sweep' \in {"listing", "asleep"}
  /\ UNCHANGED <<tracker, stateVars, main, localVars, workerVars, workspace,
                 doomed>>

\* A directory in SYMPHEO- goes unless its issue is found active; what is
\* asked about is the rest of its name, so that any answer is possible.
CleanupRemovesPrefixed(i) ==
  /\ sweep = "listing"
  /\ i \in Prefixed
  /\ workspace' = [workspace EXCEPT ![i] = FALSE]
  /\ UNCHANGED <<tracker, stateVars, main, localVars, workerVars, sweepVars>>

\* The listing ends, or next_entry fails in the middle of it.
CleanupEnds ==
  /\ sweep = "listing"
  /\ sweep' \in {"off", "asleep"}
  /\ UNCHANGED <<tracker, stateVars, main, localVars, workerVars, workspace,
                 doomed>>

-----------------------------------------------------------------------------
(* The environment: the board, the clock, the operator.                    *)

TrackerMove(i, s) ==
  /\ tracker[i] # s
  /\ s = NotListed => i \in Removable
  /\ tracker' = [tracker EXCEPT ![i] = s]
  /\ UNCHANGED <<stateVars, main, localVars, workerVars, diskVars>>

RetryComesDue(i) ==
  /\ i \in Queued \ due
  /\ due' = due \cup {i}
  /\ UNCHANGED <<tracker, entryVars, claimed, retry, main, localVars,
                 workerVars, diskVars>>

ApiCancel(i) ==
  /\ "cancel" \in OperatorOps
  /\ i \in Running
  /\ cancelled' = [cancelled EXCEPT ![running[i]] = TRUE]
  /\ UNCHANGED <<tracker, stateVars, main, localVars, taskVars, diskVars>>

ApiRetryDelete(i) ==
  /\ "delete" \in OperatorOps
  /\ i \in Queued
  /\ retry' = [retry EXCEPT ![i] = 0]
  /\ due' = due \ {i}
  /\ claimed' = claimed \ {i}
  /\ UNCHANGED <<tracker, entryVars, main, localVars, workerVars, diskVars>>

-----------------------------------------------------------------------------
ReconcileStep ==
  \/ ReconcileStart
  \/ \E i \in Issues : KillNext(i)
  \/ HandleWorkerExit
  \/ KillRemoveWorkspace
  \/ RefreshOk
  \/ RefreshFails
  \/ Reconcile

DispatchStep ==
  \/ CandidatesFail
  \/ CandidatesFetched
  \/ \E i \in Issues : Dispatch(i)
  \/ DispatchDone

RetryStep ==
  \/ CollectDue
  \/ \E i \in Issues : TakeRetry(i)
  \/ RetriesDone
  \/ RetryFetchFails
  \/ RetryFetched
  \/ RetryInactive
  \/ RetryNoSlot
  \/ RetryDispatch

MainStep == ReconcileStep \/ DispatchStep \/ RetryStep

WorkerStep(w) ==
  \/ Provision(w)
  \/ ReturnFromTurns(w)
  \/ AfterRunDone(w)
  \/ RemoveWorkspace(w)
  \/ WorkerExit(w)

CleanupStep ==
  \/ CleanupFetched
  \/ \E i \in Issues : CleanupRemoves(i) \/ CleanupRemovesPrefixed(i)
  \/ CleanupLists
  \/ CleanupEnds

Environment ==
  \/ \E i \in Issues, s \in States \cup {NotListed} : TrackerMove(i, s)
  \/ \E i \in Issues : RetryComesDue(i) \/ ApiCancel(i) \/ ApiRetryDelete(i)

Next ==
  \/ MainStep
  \/ \E w \in Workers : WorkerStep(w)
  \/ CleanupStep
  \/ Environment

Spec == Init /\ [][Next]_vars

\* The operator deletes a retry of which process_retries already has a copy.
CopyIsDeleted ==
  \E i \in Issues :
    /\ ApiRetryDelete(i)
    /\ main \in {"retries", "retryFetch", "retryApply"} /\ snap[i] # 0

\* The behaviours in which that does not happen: where it does, claims and
\* queue come apart, as the copy is handled all the same.
TimelyNext ==
  \/ MainStep
  \/ \E w \in Workers : WorkerStep(w)
  \/ CleanupStep
  \/ Environment /\ ~CopyIsDeleted

TimelySpec == Init /\ [][TimelyNext]_vars

\* An entry is removed whose worker goes on: by a stall kill, or because the
\* issue is in a column that is neither active nor terminal.
WorkerIsDropped ==
  \/ \E i \in Running : KillNext(i)
  \/ Reconcile /\ running' # running

\* The behaviours, or their beginnings, in which neither happens.
CalmNext ==
  \/ ReconcileStep /\ ~WorkerIsDropped
  \/ DispatchStep
  \/ RetryStep
  \/ \E w \in Workers : WorkerStep(w)
  \/ CleanupStep
  \/ Environment /\ ~CopyIsDeleted

CalmSpec == Init /\ [][CalmNext]_vars

\* The runtime polls every ready task and the clock advances; a turn returns
\* because of its timeouts and a worker because of its turn budget.  Nothing
\* is assumed about the tracker or the operator.
Fairness ==
  /\ WF_vars(MainStep)
  /\ \A w \in Workers : WF_vars(WorkerStep(w))
  /\ \A i \in Issues : WF_vars(RetryComesDue(i))

FairSpec == Spec /\ Fairness

-----------------------------------------------------------------------------
(* Correctness.                                                            *)

\* Every variable keeps its type: the entries, queues and locals of
\* OrchestratorState and of its tasks.
TypeOK ==
  /\ tracker \in Views
  /\ running \in [Issues -> Workers \cup {NoWorker}]
  /\ entryState \in Views
  /\ claimed \subseteq Issues
  /\ retry \in [Issues -> 0..MaxAttempts]
  /\ due \subseteq Queued
  /\ main \in {"tick", "kill", "killExit", "killRemove", "apply", "candidates",
               "dispatch", "due", "retries", "retryFetch", "retryApply"}
  /\ seen \in Views
  /\ work \subseteq Issues
  /\ snap \in [Issues -> 0..MaxAttempts]
  /\ cur \in Issues \cup {NoIssue}
  /\ pc \in [Workers -> {"idle", "starting", "turns", "afterRun", "removing",
                         "exiting"}]
  /\ job \in [Workers -> Issues \cup {NoIssue}]
  /\ attempt \in [Workers -> 0..MaxAttempts]
  /\ result \in [Workers -> {"ok", "err"}]
  /\ cancelled \in [Workers -> BOOLEAN]
  /\ workspace \in [Issues -> BOOLEAN]
  /\ sweep \in {"off", "asleep", "removing", "listing"}
  /\ doomed \subseteq Issues

\* The issue process_retries has taken out of the queue and not yet settled.
Held == IF main \in {"retryFetch", "retryApply"} THEN {cur} ELSE {}

\* An issue is claimed exactly while it has a running entry, waits in the
\* retry queue or is in the hands of process_retries: no exit path of tick.rs
\* leaks a claim (the issue would never run again) or drops one early.
ClaimsAccounted == claimed = Running \cup Queued \cup Held

\* It is never in two of these places at once, whatever the order of a stall
\* kill, a reconcile and the worker's own exit.
OnePlacePerIssue ==
  /\ Running \cap Queued = {}
  /\ Held \cap (Running \cup Queued) = {}

\* The list process_retries copied before its awaits is never stale: what it
\* still has to handle is queued with the attempt it remembers.
DueListIsCurrent ==
  main \in {"retries", "retryFetch", "retryApply"} =>
    \A i \in Issues \ Held : snap[i] # 0 => retry[i] = snap[i]

\* A slot is never held by a dead worker: the task an entry is filed for is
\* alive and works on that issue, so its exit will remove the entry.
EntryHasLiveWorker ==
  \A i \in Running : running[i] \in Live /\ job[running[i]] = i

\* The number of entries stays within max_concurrent_agents although tick and
\* process_retries dispatch independently.
EntriesWithinCap == Cardinality(Running) <= MaxConcurrent

\* Whatever stalls, limbo columns and operators do to claims and workers: the
\* state keeps its types, with attempts within the budget, and no more entries
\* are filed than the cap allows, each with a worker that will remove it.
EntriesInv == TypeOK /\ EntriesWithinCap /\ EntryHasLiveWorker

\* Every live worker is the one filed under its issue: the scheduler never
\* loses sight of an agent it started (nor lets its exit hit another's entry).
LiveWorkerHasEntry == \A w \in Live : running[job[w]] = w

\* A worker the scheduler has given up (its entry is gone) has at least been
\* told to stop through its cancellation flag.
DroppedWorkerIsSignalled ==
  \A w \in Live : running[job[w]] = w \/ cancelled[w]

\* Two live workers never share an issue, hence never a workspace directory.
OneWorkerPerIssue ==
  \A v, w \in Live : job[v] = job[w] => v = w

\* No more agents are alive than max_concurrent_agents allows.
LiveWithinCap == Cardinality(Live) <= MaxConcurrent

\* The cleanup's own deletions: of what was terminal when it asked, or of a
\* directory in SYMPHEO-.
CleanupTakes(i) ==
  /\ UNCHANGED <<main, pc>>
  /\ \/ sweep = "removing" /\ i \in doomed \ doomed'
     \/ sweep = "listing" /\ i \in Prefixed

\* The directory a worker runs its turns in, and after_run runs in, stays where
\* it is: the deletions of the worker itself and of reconcile wait for the
\* worker that uses it, and only the background cleanup does not.
WorkspaceInUseIsKept ==
  [][\A w \in Live :
       /\ pc[w] \in {"turns", "afterRun"}
       /\ workspace[job[w]] /\ ~workspace'[job[w]]
       => CleanupTakes(job[w])]_vars

\* An issue that stays out of the active states is eventually released for
\* good, even if every later tracker fetch fails.
InactiveIsReleased ==
  \A i \in Issues :
    <>[](~Dispatchable(tracker[i])) => <>[](i \notin claimed)

\* A queued retry is served: the issue gets a worker again or is released.
RetryIsServed ==
  \A i \in Issues : i \in Queued ~> (i \in Running \/ i \notin claimed)

-----------------------------------------------------------------------------
(* Where an issue is in the abstract life cycle of IssueClaims.            *)

PhaseOf(i) == CASE i \in Running -> "running"
                [] i \in Queued \ Running -> "queued"
                [] i \in Held \ (Running \cup Queued) -> "held"
                [] OTHER -> "free"

AttemptOf(i) == CASE PhaseOf(i) = "running" -> attempt[running[i]]
                  [] PhaseOf(i) = "queued" -> retry[i]
                  [] PhaseOf(i) = "held" -> snap[i]
                  [] OTHER -> 0

Claims == INSTANCE IssueClaims WITH
            phase <- [i \in Issues |-> PhaseOf(i)],
            tries <- [i \in Issues |-> AttemptOf(i)]

\* The scheduler implements the life cycle of a claim: an error exit adds one
\* attempt or ends the claim, a normal exit starts over at 1, and nothing else
\* moves an issue.
ImplementsIssueClaims == Claims!Spec

-----------------------------------------------------------------------------
Life == INSTANCE WorkerLife WITH
          MayCrash <- FALSE, stage <- pc, outcome <- result, stopped <- cancelled

\* Every task lives the life of a worker: whoever sets flags and removes
\* entries meanwhile, none of them is reset, reached by a flag that was meant
\* for an earlier run in its slot, or makes a run skip after_run.
ImplementsWorkerLife == Life!Spec
=============================================================================
