------------------------- MODULE OrchestratorProofs -------------------------
(***************************************************************************)
(* Safety of the scheduler for every board, every number of issues and     *)
(* workers and every configuration.                                        *)
(***************************************************************************)
EXTENDS StatusSurface, Functions, FiniteSetTheorems, TLAPS

USE IssuesAssumption, WorkersAssumption, ConfigAssumption
USE DEF diskVars, sweepVars

\* The cleanup touches the workspaces and its own variables, nothing else.
LEMMA CleanupRests ==
  ASSUME CleanupStep
  PROVE  UNCHANGED <<tracker, stateVars, main, localVars, workerVars>>
BY DEF CleanupStep, CleanupFetched, CleanupRemoves, CleanupLists,
       CleanupRemovesPrefixed, CleanupEnds

\* Where the main task holds an issue in `cur`, and what it holds of it.
CursorOK ==
  /\ main \in {"killExit", "killRemove", "retryFetch", "retryApply"} =>
       cur \in Issues
  /\ main \in {"retryFetch", "retryApply"} => snap[cur] # 0

\* A live task was spawned for an issue.
JobsOK == \A w \in Live : job[w] \in Issues

Typing == TypeOK /\ CursorOK /\ JobsOK

LEMMA TypingInit == Init => Typing
BY DEF Init, Typing, TypeOK, CursorOK, JobsOK, Views, NoView, Nothing, Queued,
       Live

LEMMA ViewType ==
  ASSUME Typing, NEW S
  PROVE  View(S) \in Views
BY DEF Typing, TypeOK, View, Views

LEMMA SpawnTyping ==
  ASSUME Typing, NEW i \in Issues, NEW s \in States \cup {NotListed},
         NEW a \in 0..MaxAttempts, Spawn(i, s, a)
  PROVE  /\ running' \in [Issues -> Workers \cup {NoWorker}]
         /\ entryState' \in Views
         /\ claimed' \subseteq Issues
         /\ pc' \in [Workers -> {"idle", "starting", "turns", "afterRun",
                                 "removing", "exiting"}]
         /\ job' \in [Workers -> Issues \cup {NoIssue}]
         /\ attempt' \in [Workers -> 0..MaxAttempts]
         /\ result' \in [Workers -> {"ok", "err"}]
         /\ cancelled' \in [Workers -> BOOLEAN]
         /\ JobsOK'
BY DEF Typing, TypeOK, JobsOK, Spawn, Live, Views

LEMMA RetryTyping ==
  ASSUME Typing, NEW i \in Issues, NEW n \in Nat \ {0}, RetryOrRelease(i, n)
  PROVE  /\ retry' \in [Issues -> 0..MaxAttempts]
         /\ due' \subseteq Queued'
         /\ claimed' \subseteq Issues
BY DEF Typing, TypeOK, RetryOrRelease, retryVars, Queued

LEMMA TypingNext == Typing /\ [Next]_vars => Typing'
<1> SUFFICES ASSUME Typing, [Next]_vars PROVE Typing'
  OBVIOUS
<1> USE DEF Typing
<1>1. CASE ReconcileStart
  BY <1>1 DEF ReconcileStart, TypeOK, CursorOK, JobsOK, stateVars, workerVars,
              Running, Queued, Live
<1>2. ASSUME NEW i \in Issues, KillNext(i) PROVE Typing'
  BY <1>2 DEF KillNext, TypeOK, CursorOK, JobsOK, stateVars, workerVars,
              Running, Queued, Live
<1>3. CASE HandleWorkerExit
  <2>1. cur \in Issues /\ attempt \in [Workers -> 0..MaxAttempts]
    BY <1>3 DEF HandleWorkerExit, TypeOK, CursorOK
  <2>2. CASE cur \in Running
    <3>1. attempt[running[cur]] \in 0..MaxAttempts
      BY <2>1, <2>2 DEF TypeOK, Running
    <3>2. attempt[running[cur]] + 1 \in Nat \ {0}
      BY <3>1
    <3>3. /\ retry' \in [Issues -> 0..MaxAttempts]
          /\ due' \subseteq Queued'
          /\ claimed' \subseteq Issues
      BY <1>3, <2>1, <2>2, <3>2, RetryTyping DEF HandleWorkerExit
    <3> QED
      BY <1>3, <2>1, <2>2, <3>3 DEF HandleWorkerExit, RemoveEntry, TypeOK,
         CursorOK, JobsOK, localVars, workerVars, Live, Views
  <2>3. CASE cur \notin Running
    BY <1>3, <2>3 DEF HandleWorkerExit, TypeOK, CursorOK, JobsOK, stateVars,
       localVars, workerVars, Queued, Live
  <2> QED
    BY <2>2, <2>3
<1>4. CASE KillRemoveWorkspace
  BY <1>4 DEF KillRemoveWorkspace, TypeOK, CursorOK, JobsOK, stateVars,
              workerVars, Queued, Live
<1>5. CASE RefreshOk
  BY <1>5, ViewType DEF RefreshOk, TypeOK, CursorOK, JobsOK, stateVars,
     workerVars, Queued, Live
<1>6. CASE RefreshFails
  BY <1>6 DEF RefreshFails, TypeOK, CursorOK, JobsOK, stateVars, localVars,
              workerVars, Queued, Live
<1>7. CASE Reconcile
  BY <1>7 DEF Reconcile, TypeOK, CursorOK, JobsOK, retryVars, taskVars, Queued,
              Live, Views, NoView
<1>8. CASE CandidatesFail
  BY <1>8 DEF CandidatesFail, TypeOK, CursorOK, JobsOK, stateVars, localVars,
              workerVars, Queued, Live
<1>9. CASE CandidatesFetched
  BY <1>9 DEF CandidatesFetched, TypeOK, CursorOK, JobsOK, stateVars,
              workerVars, Queued, Live, Views, View
<1>10. ASSUME NEW i \in Issues, Dispatch(i) PROVE Typing'
  <2>1. seen[i] \in States \cup {NotListed}
    BY DEF TypeOK, Views
  <2> QED
    BY <1>10, <2>1, SpawnTyping DEF Dispatch, TypeOK, CursorOK, retryVars,
       Queued
<1>11. CASE DispatchDone
  BY <1>11 DEF DispatchDone, TypeOK, CursorOK, JobsOK, stateVars, workerVars,
               Queued, Live, Views, NoView
<1>12. CASE CollectDue
  BY <1>12 DEF CollectDue, TypeOK, CursorOK, JobsOK, stateVars, workerVars,
               Queued, Live
<1>13. ASSUME NEW i \in Issues, TakeRetry(i) PROVE Typing'
  BY <1>13 DEF TakeRetry, TypeOK, CursorOK, JobsOK, entryVars, workerVars,
               Queued, Live
<1>14. CASE RetriesDone
  BY <1>14 DEF RetriesDone, TypeOK, CursorOK, JobsOK, stateVars, localVars,
               workerVars, Queued, Live
<1>15. CASE RetryFetchFails
  BY <1>15, RetryTyping DEF RetryFetchFails, NextRetry, TypeOK, CursorOK,
     JobsOK, entryVars, workerVars, Queued, Live
<1>16. CASE RetryFetched
  BY <1>16, ViewType DEF RetryFetched, TypeOK, CursorOK, JobsOK, stateVars,
     workerVars, Queued, Live
<1>17. CASE RetryInactive
  BY <1>17 DEF RetryInactive, NextRetry, TypeOK, CursorOK, JobsOK, entryVars,
               retryVars, workerVars, Queued, Live, Views, NoView
<1>18. CASE RetryNoSlot
  BY <1>18 DEF RetryNoSlot, NextRetry, TypeOK, CursorOK, JobsOK, entryVars,
               workerVars, Queued, Live, Views, NoView
<1>19. CASE RetryDispatch
  <2>1. /\ cur \in Issues
        /\ seen[cur] \in States \cup {NotListed}
        /\ snap[cur] \in 0..MaxAttempts
    BY <1>19 DEF RetryDispatch, TypeOK, CursorOK, Views
  <2> QED
    BY <1>19, <2>1, SpawnTyping DEF RetryDispatch, NextRetry, TypeOK, CursorOK,
       retryVars, Queued, Views, NoView
<1>20. ASSUME NEW w \in Workers, Provision(w) PROVE Typing'
  BY <1>20 DEF Provision, TypeOK, CursorOK, JobsOK, stateVars, localVars,
               Queued, Live
<1>21. ASSUME NEW w \in Workers, ReturnFromTurns(w) PROVE Typing'
  BY <1>21 DEF ReturnFromTurns, TypeOK, CursorOK, JobsOK, stateVars,
               localVars, Queued, Live
<1>22. ASSUME NEW w \in Workers, AfterRunDone(w) PROVE Typing'
  BY <1>22 DEF AfterRunDone, TypeOK, CursorOK, JobsOK, stateVars, localVars,
               Queued, Live
<1>23. ASSUME NEW w \in Workers, RemoveWorkspace(w) PROVE Typing'
  BY <1>23 DEF RemoveWorkspace, TypeOK, CursorOK, JobsOK, stateVars,
               localVars, Queued, Live
<1>24. ASSUME NEW w \in Workers, WorkerExit(w) PROVE Typing'
  <2> DEFINE n == IF result[w] = "ok" THEN 1 ELSE attempt[w] + 1
  <2>1. n \in Nat \ {0}
    BY DEF TypeOK
  <2>2. job[w] \in Issues
    BY <1>24 DEF WorkerExit, JobsOK, Live
  <2>3. /\ retry' \in [Issues -> 0..MaxAttempts]
        /\ due' \subseteq Queued'
        /\ claimed' \subseteq Issues
        /\ running' \in [Issues -> Workers \cup {NoWorker}]
        /\ entryState' \in Views
    <3>1. CASE job[w] \in Running
      <4> HIDE DEF n
      <4>1. RetryOrRelease(job[w], n) /\ RemoveEntry(job[w])
        BY <1>24, <3>1 DEF WorkerExit, n
      <4> QED
        BY <4>1, <2>1, <2>2, RetryTyping DEF RemoveEntry, TypeOK, Views
    <3>2. CASE job[w] \notin Running
      BY <1>24, <3>2 DEF WorkerExit, TypeOK, stateVars, Queued
    <3> QED
      BY <3>1, <3>2
  <2>4. /\ JobsOK' /\ CursorOK'
        /\ pc' \in [Workers -> {"idle", "starting", "turns", "afterRun",
                                "removing", "exiting"}]
        /\ job' \in [Workers -> Issues \cup {NoIssue}]
        /\ attempt' \in [Workers -> 0..MaxAttempts]
        /\ result' \in [Workers -> {"ok", "err"}]
        /\ cancelled' \in [Workers -> BOOLEAN]
    BY <1>24 DEF WorkerExit, JobsOK, CursorOK, Live, TypeOK, localVars
  <2> QED
    BY <1>24, <2>3, <2>4 DEF WorkerExit, TypeOK, localVars
<1>25. ASSUME NEW i \in Issues, NEW s \in States \cup {NotListed},
              TrackerMove(i, s)
       PROVE  Typing'
  BY <1>25 DEF TrackerMove, TypeOK, CursorOK, JobsOK, stateVars, localVars,
               workerVars, Queued, Live, Views
<1>26. ASSUME NEW i \in Issues, RetryComesDue(i) PROVE Typing'
  BY <1>26 DEF RetryComesDue, TypeOK, CursorOK, JobsOK, entryVars, localVars,
               workerVars, Queued, Live
<1>27. ASSUME NEW i \in Issues, ApiCancel(i) PROVE Typing'
  BY <1>27 DEF ApiCancel, TypeOK, CursorOK, JobsOK, stateVars, localVars,
               taskVars, Queued, Live
<1>28. ASSUME NEW i \in Issues, ApiRetryDelete(i) PROVE Typing'
  BY <1>28 DEF ApiRetryDelete, TypeOK, CursorOK, JobsOK, entryVars, localVars,
               workerVars, Queued, Live
<1>29. CASE CleanupStep
  <2>1. /\ workspace' \in [Issues -> BOOLEAN]
        /\ sweep' \in {"off", "asleep", "removing", "listing"}
        /\ doomed' \subseteq Issues
    BY <1>29 DEF CleanupStep, CleanupFetched, CleanupRemoves, CleanupLists,
       CleanupRemovesPrefixed, CleanupEnds, TypeOK
  <2> QED
    BY <1>29, <2>1, CleanupRests DEF TypeOK, CursorOK, JobsOK, stateVars,
       localVars, workerVars, Queued, Live
<1>30. CASE UNCHANGED vars
  BY <1>30 DEF vars, TypeOK, CursorOK, JobsOK, stateVars, localVars,
               workerVars, Queued, Live
<1> QED
  BY <1>1, <1>2, <1>3, <1>4, <1>5, <1>6, <1>7, <1>8, <1>9, <1>10, <1>11,
     <1>12, <1>13, <1>14, <1>15, <1>16, <1>17, <1>18, <1>19, <1>20, <1>21,
     <1>22, <1>23, <1>24, <1>25, <1>26, <1>27, <1>28, <1>29, <1>30
  DEF Next, MainStep, ReconcileStep, DispatchStep, RetryStep, WorkerStep,
      Environment

\* The scheduler's state and its tasks keep their types.
THEOREM TypeCorrect == Spec => []TypeOK
<1>1. Spec => []Typing
  BY TypingInit, TypingNext, PTL DEF Spec
<1>2. Typing => TypeOK
  BY DEF Typing
<1> QED
  BY <1>1, <1>2, PTL

-----------------------------------------------------------------------------
(* Slots: every entry has its worker, and entries stay within the cap.     *)

LEMMA EntryHasLiveWorkerNext ==
  Typing /\ EntryHasLiveWorker /\ [Next]_vars => EntryHasLiveWorker'
<1> SUFFICES ASSUME Typing, EntryHasLiveWorker, [Next]_vars
             PROVE  EntryHasLiveWorker'
  OBVIOUS
<1> USE DEF EntryHasLiveWorker, Running, Live
<1>1. CASE UNCHANGED <<running, pc, job>>
  BY <1>1
<1>2. ASSUME NEW i \in Issues, NEW s, NEW a, Spawn(i, s, a)
      PROVE  EntryHasLiveWorker'
  BY <1>2 DEF Spawn, Typing, TypeOK
<1>3. CASE HandleWorkerExit
  BY <1>3 DEF HandleWorkerExit, RemoveEntry, stateVars, workerVars, Typing,
              TypeOK
<1>4. CASE Reconcile
  BY <1>4 DEF Reconcile, taskVars, Typing, TypeOK
<1>5. ASSUME NEW w \in Workers, WorkerStep(w) PROVE EntryHasLiveWorker'
  <2>1. CASE Provision(w)
    BY <2>1 DEF Provision, stateVars, Typing, TypeOK
  <2>2. CASE ReturnFromTurns(w)
    BY <2>2 DEF ReturnFromTurns, stateVars, Typing, TypeOK
  <2>3. CASE AfterRunDone(w)
    BY <2>3 DEF AfterRunDone, stateVars, Typing, TypeOK
  <2>4. CASE RemoveWorkspace(w)
    BY <2>4 DEF RemoveWorkspace, stateVars, Typing, TypeOK
  <2>5. CASE WorkerExit(w)
    BY <2>5 DEF WorkerExit, RemoveEntry, stateVars, Typing, TypeOK
  <2> QED
    BY <1>5, <2>1, <2>2, <2>3, <2>4, <2>5 DEF WorkerStep
<1>6. CASE ReconcileStep
  BY <1>1, <1>3, <1>4, <1>6 DEF ReconcileStep, ReconcileStart, KillNext,
     KillRemoveWorkspace, RefreshOk, RefreshFails, stateVars, workerVars
<1>7. CASE DispatchStep
  BY <1>1, <1>2, <1>7 DEF DispatchStep, CandidatesFail, CandidatesFetched,
     Dispatch, DispatchDone, stateVars, workerVars
<1>8. CASE RetryStep
  <2>1. CASE RetryDispatch
    BY <1>2, <2>1 DEF RetryDispatch, Typing, CursorOK
  <2> QED
    BY <1>1, <1>8, <2>1 DEF RetryStep, CollectDue, TakeRetry, RetriesDone,
       RetryFetchFails, RetryFetched, RetryInactive, RetryNoSlot, entryVars,
       stateVars, workerVars
<1>9. CASE Environment
  BY <1>1, <1>9 DEF Environment, TrackerMove, RetryComesDue, ApiCancel,
     ApiRetryDelete, entryVars, stateVars, workerVars, taskVars
<1>10. CASE CleanupStep
  BY <1>1, <1>10, CleanupRests DEF stateVars, workerVars
<1>11. CASE UNCHANGED vars
  BY <1>1, <1>11 DEF vars, stateVars, workerVars
<1> QED
  BY <1>5, <1>6, <1>7, <1>8, <1>9, <1>10, <1>11 DEF Next, MainStep

\* No slot is ever held by a worker that has ended, whatever stalls, limbo
\* columns and operators do: each entry's own exit is still to come.
THEOREM EntriesHaveWorkers == Spec => []EntryHasLiveWorker
<1>1. Init => EntryHasLiveWorker
  BY DEF Init, EntryHasLiveWorker, Running
<1> QED
  BY <1>1, TypingInit, TypingNext, EntryHasLiveWorkerNext, PTL DEF Spec

LEMMA SpawnWithinCap ==
  ASSUME Typing, EntriesWithinCap, AvailableSlots > 0,
         NEW i \in Issues, NEW s, NEW a, Spawn(i, s, a)
  PROVE  EntriesWithinCap'
<1>1. Running' = Running \cup {i}
  BY DEF Spawn, Running, Typing, TypeOK
<1>2. IsFiniteSet(Running)
  BY FS_Subset DEF Running
<1>3. Cardinality(Running') \in {Cardinality(Running), Cardinality(Running) + 1}
  BY <1>1, <1>2, FS_AddElement
<1>4. Cardinality(Running) \in Nat
  BY <1>2, FS_CardinalityType
<1> QED
  BY <1>3, <1>4 DEF AvailableSlots, EntriesWithinCap

LEMMA ShrinkWithinCap ==
  ASSUME EntriesWithinCap, Running' \subseteq Running
  PROVE  EntriesWithinCap'
<1>1. IsFiniteSet(Running)
  BY FS_Subset DEF Running
<1>2. /\ Cardinality(Running') <= Cardinality(Running)
      /\ Cardinality(Running') \in Nat /\ Cardinality(Running) \in Nat
  BY <1>1, FS_Subset, FS_CardinalityType
<1> QED
  BY <1>2 DEF EntriesWithinCap

LEMMA EntriesWithinCapNext ==
  Typing /\ EntriesWithinCap /\ [Next]_vars => EntriesWithinCap'
<1> SUFFICES ASSUME Typing, EntriesWithinCap, [Next]_vars
             PROVE  EntriesWithinCap'
  OBVIOUS
<1>1. CASE UNCHANGED running
  BY <1>1, ShrinkWithinCap DEF Running
<1>2. CASE HandleWorkerExit
  <2>1. Running' \subseteq Running
    BY <1>2 DEF HandleWorkerExit, RemoveEntry, stateVars, Running, Typing,
                TypeOK
  <2> QED
    BY <2>1, ShrinkWithinCap
<1>3. CASE Reconcile
  <2>1. Running' \subseteq Running
    BY <1>3 DEF Reconcile, Running
  <2> QED
    BY <2>1, ShrinkWithinCap
<1>4. ASSUME NEW w \in Workers, WorkerExit(w) PROVE EntriesWithinCap'
  <2>1. Running' \subseteq Running
    BY <1>4 DEF WorkerExit, RemoveEntry, stateVars, Running, Typing, TypeOK
  <2> QED
    BY <2>1, ShrinkWithinCap
<1>5. CASE ReconcileStep
  BY <1>1, <1>2, <1>3, <1>5 DEF ReconcileStep, ReconcileStart, KillNext,
     KillRemoveWorkspace, RefreshOk, RefreshFails, stateVars
<1>6. CASE DispatchStep
  BY <1>1, <1>6, SpawnWithinCap DEF DispatchStep, CandidatesFail,
     CandidatesFetched, Dispatch, DispatchDone, stateVars
<1>7. CASE RetryStep
  <2>1. CASE RetryDispatch
    BY <2>1, SpawnWithinCap DEF RetryDispatch, Typing, CursorOK
  <2> QED
    BY <1>1, <1>7, <2>1 DEF RetryStep, CollectDue, TakeRetry, RetriesDone,
       RetryFetchFails, RetryFetched, RetryInactive, RetryNoSlot, entryVars,
       stateVars
<1>8. ASSUME NEW w \in Workers, WorkerStep(w) PROVE EntriesWithinCap'
  BY <1>1, <1>4, <1>8 DEF WorkerStep, Provision, ReturnFromTurns,
     AfterRunDone, RemoveWorkspace, stateVars
<1>9. CASE Environment
  BY <1>1, <1>9 DEF Environment, TrackerMove, RetryComesDue, ApiCancel,
     ApiRetryDelete, entryVars, stateVars
<1>10. CASE CleanupStep
  BY <1>1, <1>10, CleanupRests DEF stateVars
<1>11. CASE UNCHANGED vars
  BY <1>1, <1>11 DEF vars, stateVars
<1> QED
  BY <1>5, <1>6, <1>7, <1>8, <1>9, <1>10, <1>11 DEF Next, MainStep

\* Two dispatch paths, one cap: tick and process_retries together never file
\* more than max_concurrent_agents entries.
THEOREM CapHolds == Spec => []EntriesWithinCap
<1>1. Init => EntriesWithinCap
  <2>1. Init => Running = {}
    BY DEF Init, Running
  <2>2. Cardinality({}) = 0
    BY FS_EmptySet
  <2>3. 0 <= MaxConcurrent
    BY DEF ConfigAssumption
  <2> QED
    BY <2>1, <2>2, <2>3 DEF EntriesWithinCap
<1> QED
  BY <1>1, TypingInit, TypingNext, EntriesWithinCapNext, PTL DEF Spec

\* In every configuration the state keeps its types, the cap bounds the entries
\* and each of these has a worker that will remove it.
THEOREM EntriesSafe == Spec => []EntriesInv
<1>1. TypeOK /\ EntriesWithinCap /\ EntryHasLiveWorker => EntriesInv
  BY DEF EntriesInv
<1> QED
  BY <1>1, TypeCorrect, CapHolds, EntriesHaveWorkers, PTL

-----------------------------------------------------------------------------
(* Claims: unless a retry is deleted that is copied already, the claimed   *)
(* set is the disjoint union of entries, queue and the issue in hand.      *)
(* Neither half is inductive alone: taking a retry keeps its claim         *)
(* accounted for only because the copied list still agrees with the queue. *)

ClaimInv == ClaimsAccounted /\ OnePlacePerIssue /\ DueListIsCurrent

\* An entry removed and requeued, or released, by an exit.
LEMMA ClaimInvExit ==
  ASSUME Typing, ClaimInv, NEW i \in Running, NEW n \in Nat \ {0},
         RemoveEntry(i), RetryOrRelease(i, n), Held' = Held,
         \/ UNCHANGED <<main, snap>>
         \/ main' = "killRemove"
  PROVE  ClaimInv'
<1>1. Running' = Running \ {i}
  BY DEF RemoveEntry, Running, Typing, TypeOK
<1>2. CASE n > MaxAttempts
  BY <1>1, <1>2 DEF RetryOrRelease, retryVars, ClaimInv, ClaimsAccounted,
     OnePlacePerIssue, DueListIsCurrent, Typing, TypeOK, Queued
<1>3. CASE ~(n > MaxAttempts)
  <2>1. Queued' = Queued \cup {i}
    BY <1>3 DEF RetryOrRelease, Queued, Typing, TypeOK, Running
  <2>2. claimed' = claimed
    BY <1>3 DEF RetryOrRelease
  <2>3. \A j \in Issues \ {i} : retry'[j] = retry[j]
    BY <1>3 DEF RetryOrRelease, Typing, TypeOK
  <2>4. retry[i] = 0 /\ i \notin Held
    BY DEF ClaimInv, OnePlacePerIssue, Queued, Running
  <2>5. DueListIsCurrent'
    BY <2>3, <2>4 DEF ClaimInv, DueListIsCurrent, Held
  <2> QED
    BY <1>1, <2>1, <2>2, <2>4, <2>5 DEF ClaimInv, ClaimsAccounted,
       OnePlacePerIssue
<1> QED
  BY <1>2, <1>3

\* A deletion withdraws the claim and the queue's entry together.
LEMMA ClaimInvDelete ==
  ASSUME Typing, ClaimInv, NEW i \in Issues, ApiRetryDelete(i), ~CopyIsDeleted
  PROVE  ClaimInv'
<1>1. i \in Queued /\ Queued' = Queued \ {i} /\ claimed' = claimed \ {i}
  BY DEF ApiRetryDelete, Queued, Typing, TypeOK
<1>2. Running' = Running /\ Held' = Held /\ UNCHANGED <<main, snap>>
  BY DEF ApiRetryDelete, entryVars, localVars, Running, Held
<1>3. i \notin Running \cup Held
  BY <1>1 DEF ClaimInv, OnePlacePerIssue
<1>4. DueListIsCurrent'
  <2>1. main \in {"retries", "retryFetch", "retryApply"} => snap[i] = 0
    BY DEF CopyIsDeleted
  <2>2. \A j \in Issues \ {i} : retry'[j] = retry[j]
    BY DEF ApiRetryDelete, Typing, TypeOK
  <2> QED
    BY <1>2, <2>1, <2>2 DEF ClaimInv, DueListIsCurrent
<1> QED
  BY <1>1, <1>2, <1>3, <1>4 DEF ClaimInv, ClaimsAccounted, OnePlacePerIssue

LEMMA ClaimInvNext ==
  Typing /\ ClaimInv /\ [TimelyNext]_vars => ClaimInv'
<1> SUFFICES ASSUME Typing, ClaimInv, [TimelyNext]_vars
             PROVE  ClaimInv'
  OBVIOUS
<1> DEFINE Frame ==
      /\ UNCHANGED <<running, claimed, retry>>
      /\ Held' = Held
      /\ \/ UNCHANGED <<main, snap, cur>>
         \/ main' \notin {"retries", "retryFetch", "retryApply"}
         \/ main = "retryFetch" /\ UNCHANGED snap
<1>1. CASE Frame
  BY <1>1 DEF ClaimInv, ClaimsAccounted, OnePlacePerIssue, DueListIsCurrent,
     Running, Queued, Held
<1>2. CASE HandleWorkerExit
  <2>1. Held = {} /\ Held' = {} /\ main' = "killRemove"
    BY <1>2 DEF HandleWorkerExit, Held
  <2>2. CASE cur \in Running
    <3> DEFINE n == attempt[running[cur]] + 1
    <3>1. n \in Nat \ {0}
      BY <2>2 DEF Typing, TypeOK, Running
    <3> HIDE DEF n
    <3>2. RemoveEntry(cur) /\ RetryOrRelease(cur, n)
      BY <1>2, <2>2 DEF HandleWorkerExit, n
    <3> QED
      BY <2>1, <2>2, <3>1, <3>2, ClaimInvExit
  <2>3. CASE cur \notin Running
    BY <1>1, <1>2, <2>1, <2>3 DEF HandleWorkerExit, stateVars
  <2> QED
    BY <2>2, <2>3
<1>3. CASE Reconcile
  <2> DEFINE limbo == {i \in Running : seen[i] \in States \ (Active \cup Terminal)}
  <2>1. Running' = Running \ limbo /\ claimed' = claimed \ limbo
    BY <1>3 DEF Reconcile, Running
  <2>2. Held = {} /\ Held' = {} /\ Queued' = Queued
    BY <1>3 DEF Reconcile, Held, Queued, retryVars
  <2>3. main' = "candidates"
    BY <1>3 DEF Reconcile
  <2> QED
    BY <2>1, <2>2, <2>3 DEF ClaimInv, ClaimsAccounted, OnePlacePerIssue,
       DueListIsCurrent
<1>4. ASSUME NEW i \in Issues, Dispatch(i) PROVE ClaimInv'
  <2>1. i \notin Running \cup claimed
    BY <1>4 DEF Dispatch, Startable
  <2>2. Running' = Running \cup {i} /\ claimed' = claimed \cup {i}
    BY <1>4 DEF Dispatch, Spawn, Running, Typing, TypeOK
  <2>3. Queued' = Queued /\ Held = {} /\ Held' = {} /\ main' = "dispatch"
    BY <1>4 DEF Dispatch, Queued, Held, retryVars
  <2> QED
    BY <2>1, <2>2, <2>3 DEF ClaimInv, ClaimsAccounted, OnePlacePerIssue,
       DueListIsCurrent
<1>5. CASE CollectDue
  BY <1>5 DEF CollectDue, stateVars, ClaimInv, ClaimsAccounted,
     OnePlacePerIssue, DueListIsCurrent, Running, Queued, Held, Typing, TypeOK
<1>6. ASSUME NEW i \in Issues, TakeRetry(i) PROVE ClaimInv'
  <2>1. Held = {} /\ Held' = {i} /\ snap[i] # 0 /\ UNCHANGED snap
    BY <1>6 DEF TakeRetry, Held
  <2>2. i \in Queued
    BY <1>6, <2>1 DEF TakeRetry, ClaimInv, DueListIsCurrent, Queued
  <2>3. Queued' = Queued \ {i} /\ \A j \in Issues \ {i} : retry'[j] = retry[j]
    BY <1>6 DEF TakeRetry, Queued, Typing, TypeOK
  <2>4. Running' = Running /\ claimed' = claimed
    BY <1>6 DEF TakeRetry, Running, entryVars
  <2>5. DueListIsCurrent'
    BY <1>6, <2>1, <2>3 DEF TakeRetry, ClaimInv, DueListIsCurrent
  <2> QED
    BY <2>1, <2>2, <2>3, <2>4, <2>5 DEF ClaimInv, ClaimsAccounted,
       OnePlacePerIssue
<1>7. ASSUME main \in {"retryFetch", "retryApply"}, NextRetry
      PROVE  /\ cur \in Issues /\ Held = {cur} /\ Held' = {}
             /\ snap[cur] \in Nat \ {0}
             /\ cur \notin Running \cup Queued
             /\ (\A j \in Issues \ {cur} : retry'[j] = retry[j])
                  => DueListIsCurrent'
  BY <1>7 DEF NextRetry, Held, ClaimInv, OnePlacePerIssue, DueListIsCurrent,
     Typing, CursorOK, TypeOK
<1>8. CASE RetryFetchFails
  <2>1. /\ cur \in Issues /\ Held = {cur} /\ Held' = {}
        /\ snap[cur] \in Nat \ {0}
        /\ cur \notin Running \cup Queued
        /\ (\A j \in Issues \ {cur} : retry'[j] = retry[j])
             => DueListIsCurrent'
    BY <1>7, <1>8 DEF RetryFetchFails
  <2>2. Running' = Running
    BY <1>8 DEF RetryFetchFails, entryVars, Running
  <2>3. CASE snap[cur] + 1 > MaxAttempts
    BY <1>8, <2>1, <2>2, <2>3 DEF RetryFetchFails, RetryOrRelease, retryVars,
       ClaimInv, ClaimsAccounted, OnePlacePerIssue, Queued
  <2>4. CASE ~(snap[cur] + 1 > MaxAttempts)
    <3>1. /\ Queued' = Queued \cup {cur} /\ claimed' = claimed
          /\ \A j \in Issues \ {cur} : retry'[j] = retry[j]
      BY <1>8, <2>1, <2>4 DEF RetryFetchFails, RetryOrRelease, Queued, Typing,
         TypeOK
    <3> QED
      BY <2>1, <2>2, <3>1 DEF ClaimInv, ClaimsAccounted, OnePlacePerIssue
  <2> QED
    BY <2>3, <2>4
<1>9. CASE RetryInactive
  <2>1. /\ cur \in Issues /\ Held = {cur} /\ Held' = {}
        /\ cur \notin Running \cup Queued
        /\ (\A j \in Issues \ {cur} : retry'[j] = retry[j])
             => DueListIsCurrent'
    BY <1>7, <1>9 DEF RetryInactive
  <2>2. Running' = Running /\ UNCHANGED retry /\ Queued' = Queued
    BY <1>9 DEF RetryInactive, entryVars, retryVars, Running, Queued
  <2> QED
    BY <1>9, <2>1, <2>2 DEF RetryInactive, ClaimInv, ClaimsAccounted,
       OnePlacePerIssue
<1>10. CASE RetryNoSlot
  <2>1. /\ cur \in Issues /\ Held = {cur} /\ Held' = {}
        /\ snap[cur] \in Nat \ {0}
        /\ cur \notin Running \cup Queued
        /\ (\A j \in Issues \ {cur} : retry'[j] = retry[j])
             => DueListIsCurrent'
    BY <1>7, <1>10 DEF RetryNoSlot
  <2>2. /\ Running' = Running /\ claimed' = claimed
        /\ Queued' = Queued \cup {cur}
        /\ \A j \in Issues \ {cur} : retry'[j] = retry[j]
    BY <1>10, <2>1 DEF RetryNoSlot, entryVars, Running, Queued, Typing, TypeOK
  <2> QED
    BY <2>1, <2>2 DEF ClaimInv, ClaimsAccounted, OnePlacePerIssue
<1>11. CASE RetryDispatch
  <2>1. /\ cur \in Issues /\ Held = {cur} /\ Held' = {}
        /\ cur \notin Running \cup Queued
        /\ (\A j \in Issues \ {cur} : retry'[j] = retry[j])
             => DueListIsCurrent'
    BY <1>7, <1>11 DEF RetryDispatch
  <2>2. /\ Running' = Running \cup {cur} /\ claimed' = claimed \cup {cur}
        /\ UNCHANGED retry /\ Queued' = Queued
    BY <1>11, <2>1 DEF RetryDispatch, Spawn, retryVars, Running, Queued,
       Typing, TypeOK
  <2> QED
    BY <2>1, <2>2 DEF ClaimInv, ClaimsAccounted, OnePlacePerIssue
<1>12. ASSUME NEW w \in Workers, WorkerExit(w) PROVE ClaimInv'
  <2>1. Held' = Held /\ UNCHANGED <<main, snap, cur>>
    BY <1>12 DEF WorkerExit, localVars, Held
  <2>2. CASE job[w] \in Running
    <3> DEFINE n == IF result[w] = "ok" THEN 1 ELSE attempt[w] + 1
    <3>1. n \in Nat \ {0}
      BY DEF Typing, TypeOK
    <3> HIDE DEF n
    <3>2. RemoveEntry(job[w]) /\ RetryOrRelease(job[w], n)
      BY <1>12, <2>2 DEF WorkerExit, n
    <3> QED
      BY <2>1, <2>2, <3>1, <3>2, ClaimInvExit
  <2>3. CASE job[w] \notin Running
    BY <1>1, <1>12, <2>1, <2>3 DEF WorkerExit, stateVars
  <2> QED
    BY <2>2, <2>3
<1>13. CASE ReconcileStep
  BY <1>1, <1>2, <1>3, <1>13 DEF ReconcileStep, ReconcileStart, KillNext,
     KillRemoveWorkspace, RefreshOk, RefreshFails, stateVars, localVars, Held
<1>14. CASE DispatchStep
  BY <1>1, <1>4, <1>14 DEF DispatchStep, CandidatesFail, CandidatesFetched,
     DispatchDone, stateVars, localVars, Held
<1>15. CASE RetryStep
  BY <1>1, <1>5, <1>6, <1>8, <1>9, <1>10, <1>11, <1>15 DEF RetryStep,
     RetriesDone, RetryFetched, stateVars, localVars, Held
<1>16. ASSUME NEW w \in Workers, WorkerStep(w) PROVE ClaimInv'
  BY <1>1, <1>12, <1>16 DEF WorkerStep, Provision, ReturnFromTurns,
     AfterRunDone, RemoveWorkspace, stateVars, localVars, Held
<1>17. CASE Environment /\ ~CopyIsDeleted
  BY <1>1, <1>17, ClaimInvDelete DEF Environment, TrackerMove, RetryComesDue,
     ApiCancel, entryVars, stateVars, localVars, Held
<1>18. CASE CleanupStep
  BY <1>1, <1>18, CleanupRests DEF stateVars, localVars, Held
<1>19. CASE UNCHANGED vars
  BY <1>1, <1>19 DEF vars, stateVars, localVars, Held
<1> QED
  BY <1>13, <1>14, <1>15, <1>16, <1>17, <1>18, <1>19 DEF TimelyNext, MainStep

LEMMA ClaimInvInit == Init => ClaimInv
BY DEF Init, ClaimInv, ClaimsAccounted, OnePlacePerIssue, DueListIsCurrent,
       Running, Queued, Held, Nothing

LEMMA TimelyIsSpec == TimelySpec => Spec
<1>1. [TimelyNext]_vars => [Next]_vars
  BY DEF TimelyNext, Next
<1> QED
  BY <1>1, PTL DEF TimelySpec, Spec

LEMMA ClaimInvAlways == TimelySpec => [](Typing /\ ClaimInv)
<1>1. Spec => []Typing
  BY TypingInit, TypingNext, PTL DEF Spec
<1> QED
  BY <1>1, TimelyIsSpec, ClaimInvNext, ClaimInvInit, PTL DEF TimelySpec

\* No claim leaks and none is dropped early, under stalls, limbo columns,
\* cancellations, tracker errors and deletions alike, but for a retry that is
\* deleted while it is being served.
THEOREM ClaimsHold == TimelySpec => [](ClaimsAccounted /\ OnePlacePerIssue)
<1>1. ClaimInv => ClaimsAccounted /\ OnePlacePerIssue
  BY DEF ClaimInv
<1> QED
  BY <1>1, ClaimInvAlways, PTL

\* Without the endpoint there is no other behaviour.
LEMMA NoEndpointIsTimely ==
  ASSUME "delete" \notin OperatorOps
  PROVE  Spec => TimelySpec
<1>1. [Next]_vars => [TimelyNext]_vars
  BY DEF Next, TimelyNext, CopyIsDeleted, ApiRetryDelete
<1> QED
  BY <1>1, PTL DEF Spec, TimelySpec

-----------------------------------------------------------------------------
(* What operators are shown.  The columns shown are active ones, because   *)
(* only candidates in such columns get an entry and reconcile writes no    *)
(* other column into it.                                                   *)

ColumnsOK ==
  /\ main = "dispatch" => \A i \in work : Dispatchable(seen[i])
  /\ \A i \in Running : Dispatchable(entryState[i])

LEMMA SpawnColumns ==
  ASSUME Typing, ColumnsOK, NEW i \in Issues, NEW s, NEW a, Spawn(i, s, a),
         Dispatchable(s)
  PROVE  \A j \in Running' : Dispatchable(entryState'[j])
BY DEF Typing, TypeOK, ColumnsOK, Spawn, Running, Live, Views

LEMMA ColumnsNext ==
  Typing /\ ColumnsOK /\ [Next]_vars => ColumnsOK'
<1> SUFFICES ASSUME Typing, ColumnsOK, [Next]_vars PROVE ColumnsOK'
  OBVIOUS
<1>1. ASSUME UNCHANGED entryVars, main' # "dispatch" PROVE ColumnsOK'
  BY <1>1 DEF ColumnsOK, entryVars, Running, Dispatchable
<1>2. ASSUME UNCHANGED <<entryVars, main, work, seen>> PROVE ColumnsOK'
  BY <1>2 DEF ColumnsOK, entryVars, Running, Dispatchable
<1>3. ASSUME NEW i \in Issues, RemoveEntry(i),
             \/ main' # "dispatch"
             \/ UNCHANGED <<main, work, seen>>
      PROVE  ColumnsOK'
  BY <1>3 DEF ColumnsOK, RemoveEntry, Running, Dispatchable, Typing, TypeOK,
     Views
<1>4. CASE ReconcileStep
  <2>1. CASE ReconcileStart \/ (\E i \in Issues : KillNext(i))
    BY <2>1, <1>1 DEF ReconcileStart, KillNext, stateVars, entryVars, Typing,
       TypeOK
  <2>2. CASE HandleWorkerExit
    <3>1. CASE cur \in Running
      BY <2>2, <3>1, <1>3 DEF HandleWorkerExit, Running
    <3>2. CASE cur \notin Running
      BY <2>2, <3>2, <1>1 DEF HandleWorkerExit, stateVars, entryVars
    <3> QED
      BY <3>1, <3>2
  <2>3. CASE KillRemoveWorkspace \/ RefreshOk \/ RefreshFails
    BY <2>3, <1>1 DEF KillRemoveWorkspace, RefreshOk, RefreshFails, stateVars,
       entryVars
  <2>4. CASE Reconcile
    BY <2>4 DEF Reconcile, ColumnsOK, Running, Dispatchable, Typing, TypeOK,
       Views
  <2> QED
    BY <1>4, <2>1, <2>2, <2>3, <2>4 DEF ReconcileStep
<1>5. CASE DispatchStep
  <2>1. CASE CandidatesFail \/ DispatchDone
    BY <2>1, <1>1 DEF CandidatesFail, DispatchDone, stateVars, entryVars
  <2>2. CASE CandidatesFetched
    BY <2>2 DEF CandidatesFetched, ColumnsOK, stateVars, Running, View,
       Dispatchable
  <2>3. ASSUME NEW i \in Issues, Dispatch(i) PROVE ColumnsOK'
    <3>1. i \in work /\ Dispatchable(seen[i])
      BY <2>3 DEF Dispatch, Startable, ColumnsOK
    <3>2. \A j \in Running' : Dispatchable(entryState'[j])
      BY <2>3, <3>1, SpawnColumns DEF Dispatch
    <3> QED
      BY <2>3, <3>2 DEF Dispatch, ColumnsOK, Dispatchable
  <2> QED
    BY <1>5, <2>1, <2>2, <2>3 DEF DispatchStep
<1>6. CASE RetryStep
  <2>1. CASE RetryDispatch
    <3>1. cur \in Issues /\ Dispatchable(seen[cur])
      BY <2>1 DEF RetryDispatch, Typing, CursorOK
    <3>2. \A j \in Running' : Dispatchable(entryState'[j])
      BY <2>1, <3>1, SpawnColumns DEF RetryDispatch
    <3> QED
      BY <2>1, <3>2 DEF RetryDispatch, NextRetry, ColumnsOK
  <2>2. CASE CollectDue \/ (\E i \in Issues : TakeRetry(i)) \/ RetriesDone
    BY <2>2, <1>1 DEF CollectDue, TakeRetry, RetriesDone, stateVars, entryVars
  <2>3. CASE RetryFetchFails \/ RetryFetched \/ RetryInactive \/ RetryNoSlot
    BY <2>3, <1>1 DEF RetryFetchFails, RetryFetched, RetryInactive,
       RetryNoSlot, NextRetry, stateVars, entryVars
  <2> QED
    BY <1>6, <2>1, <2>2, <2>3 DEF RetryStep
<1>7. ASSUME NEW w \in Workers, WorkerStep(w) PROVE ColumnsOK'
  <2>1. CASE WorkerExit(w)
    <3>1. CASE job[w] \in Running
      BY <2>1, <3>1, <1>3 DEF WorkerExit, localVars, Running
    <3>2. CASE job[w] \notin Running
      BY <2>1, <3>2, <1>2 DEF WorkerExit, stateVars, entryVars, localVars
    <3> QED
      BY <3>1, <3>2
  <2>2. CASE Provision(w) \/ ReturnFromTurns(w) \/ AfterRunDone(w)
               \/ RemoveWorkspace(w)
    BY <2>2, <1>2 DEF Provision, ReturnFromTurns, AfterRunDone,
       RemoveWorkspace, stateVars, entryVars, localVars
  <2> QED
    BY <1>7, <2>1, <2>2 DEF WorkerStep
<1>8. CASE Environment
  BY <1>8, <1>2 DEF Environment, TrackerMove, RetryComesDue, ApiCancel,
     ApiRetryDelete, stateVars, entryVars, localVars
<1>9. CASE CleanupStep
  BY <1>9, <1>2, CleanupRests DEF stateVars, entryVars, localVars
<1>10. CASE UNCHANGED vars
  BY <1>10, <1>2 DEF vars, stateVars, entryVars, localVars
<1> QED
  BY <1>4, <1>5, <1>6, <1>7, <1>8, <1>9, <1>10 DEF Next, MainStep

LEMMA ColumnsInit == Init => ColumnsOK
BY DEF Init, ColumnsOK, Running

\* Operators see every claim once and in an active column, and every kill
\* button has an agent behind it, in every state the scheduler can be in.
THEOREM StatusFaithful == TimelySpec => []StatusIsFaithful
<1>1. ASSUME Typing, ColumnsOK, EntryHasLiveWorker, EntriesWithinCap,
             ClaimsAccounted, OnePlacePerIssue
      PROVE  StatusIsFaithful
  <2>1. IssuesOf(ApiState.running) = Running
    <3>1. ApiState.running = SessionRows
      BY DEF ApiState
    <3>2. ASSUME NEW i \in Running PROVE i \in IssuesOf(SessionRows)
      <4>1. [issue |-> i, column |-> entryState[i]] \in SessionRows
        BY DEF SessionRows
      <4>2. [issue |-> i, column |-> entryState[i]].issue = i
        OBVIOUS
      <4> QED
        BY <4>1, <4>2, Zenon DEF IssuesOf
    <3>3. ASSUME NEW row \in SessionRows PROVE row.issue \in Running
      <4>1. PICK i \in Running : row = [issue |-> i, column |-> entryState[i]]
        BY DEF SessionRows
      <4> QED
        BY <4>1
    <3>4. IssuesOf(SessionRows) \subseteq Running
      BY <3>3 DEF IssuesOf
    <3>5. Running \subseteq IssuesOf(SessionRows)
      BY <3>2
    <3> QED
      BY <3>1, <3>4, <3>5
  <2>2. IssuesOf(ApiState.retrying) = Queued
    <3>1. ApiState.retrying = RetryRows
      BY DEF ApiState
    <3>2. ASSUME NEW i \in Queued PROVE i \in IssuesOf(RetryRows)
      <4>1. [issue |-> i, attempt |-> retry[i]] \in RetryRows
        BY DEF RetryRows
      <4>2. [issue |-> i, attempt |-> retry[i]].issue = i
        OBVIOUS
      <4> QED
        BY <4>1, <4>2, Zenon DEF IssuesOf
    <3>3. ASSUME NEW row \in RetryRows PROVE row.issue \in Queued
      <4>1. PICK i \in Queued : row = [issue |-> i, attempt |-> retry[i]]
        BY DEF RetryRows
      <4> QED
        BY <4>1
    <3>4. IssuesOf(RetryRows) \subseteq Queued
      BY <3>3 DEF IssuesOf
    <3>5. Queued \subseteq IssuesOf(RetryRows)
      BY <3>2
    <3> QED
      BY <3>1, <3>4, <3>5
  <2>3. ApiState.counts.running <= MaxConcurrent
    BY <1>1 DEF ApiState, StatGrid, EntriesWithinCap
  <2>4. \A s \in DOMAIN Dashboard.summary : Dispatchable(s)
    BY <1>1 DEF Dashboard, SummaryGrid, ColumnsOK
  <2>5. ASSUME NEW row \in Dashboard.sessions
        PROVE  /\ running[row.issue] \in Live
               /\ ApiIssue[row.issue] <= MaxAttempts
    <3>1. row.issue \in Running
      BY DEF Dashboard, SessionRows
    <3>2. running[row.issue] \in Live
      BY <1>1, <3>1 DEF EntryHasLiveWorker
    <3>3. attempt[running[row.issue]] \in 0..MaxAttempts
      BY <1>1, <3>2 DEF Live, Typing, TypeOK
    <3> QED
      BY <3>1, <3>2, <3>3 DEF ApiIssue
  <2> QED
    BY <1>1, <2>1, <2>2, <2>3, <2>4, <2>5
    DEF StatusIsFaithful, ClaimsAccounted, OnePlacePerIssue
<1>2. Spec => []Typing
  BY TypingInit, TypingNext, PTL DEF Spec
<1>3. Spec => []ColumnsOK
  BY <1>2, ColumnsInit, ColumnsNext, PTL DEF Spec
<1> QED
  BY <1>1, <1>2, <1>3, TimelyIsSpec, EntriesHaveWorkers, CapHolds, ClaimsHold, PTL

-----------------------------------------------------------------------------
(* Workers: until one is dropped, the entry of an issue is its one         *)
(* worker's own.                                                           *)

NoKill == main \notin {"killExit", "killRemove"}

WorkerInv == NoKill /\ LiveWorkerHasEntry

LEMMA NoKillNext ==
  Typing /\ NoKill /\ [CalmNext]_vars => NoKill'
<1> SUFFICES ASSUME Typing, NoKill, [CalmNext]_vars PROVE NoKill'
  OBVIOUS
<1>1. CASE ReconcileStep /\ ~WorkerIsDropped
  BY <1>1 DEF Typing, TypeOK, CursorOK, WorkerIsDropped, NoKill, ReconcileStep, ReconcileStart, KillNext,
     HandleWorkerExit, KillRemoveWorkspace, RefreshOk, RefreshFails, Reconcile
<1>2. CASE DispatchStep
  BY <1>2 DEF NoKill, DispatchStep, CandidatesFail, CandidatesFetched,
     Dispatch, DispatchDone
<1>3. CASE RetryStep
  BY <1>3 DEF NoKill, RetryStep, CollectDue, TakeRetry, RetriesDone,
     RetryFetchFails, RetryFetched, RetryInactive, RetryNoSlot,
     RetryDispatch, NextRetry
<1>4. ASSUME NEW w \in Workers, WorkerStep(w) PROVE NoKill'
  BY <1>4 DEF NoKill, WorkerStep, Provision, ReturnFromTurns, AfterRunDone,
     RemoveWorkspace, WorkerExit, localVars
<1>5. CASE Environment
  BY <1>5 DEF NoKill, Environment, TrackerMove, RetryComesDue, ApiCancel,
     ApiRetryDelete, localVars
<1>6. CASE CleanupStep
  BY <1>6, CleanupRests DEF NoKill
<1>7. CASE UNCHANGED vars
  BY <1>7 DEF NoKill, vars, localVars
<1> QED
  BY <1>1, <1>2, <1>3, <1>4, <1>5, <1>6, <1>7 DEF CalmNext

\* A spawn for an issue without an entry disturbs no other worker.
LEMMA SpawnWorkers ==
  ASSUME Typing, LiveWorkerHasEntry, NEW i \in Issues, NEW s, NEW a,
         Spawn(i, s, a), i \notin Running
  PROVE  LiveWorkerHasEntry'
<1>1. PICK w \in Workers \ Live :
        /\ running' = [running EXCEPT ![i] = w]
        /\ pc' = [pc EXCEPT ![w] = "starting"]
        /\ job' = [job EXCEPT ![w] = i]
  BY DEF Spawn
<1>2. Live' = Live \cup {w} /\ w \notin Live
  BY <1>1 DEF Live, Typing, TypeOK
<1>3. pc'[w] = "starting" /\ job'[w] = i /\ running'[i] = w
  BY <1>1 DEF Typing, TypeOK
<1>4. ASSUME NEW v \in Live
      PROVE  /\ pc'[v] = pc[v] /\ job'[v] = job[v] /\ job[v] # i
             /\ running'[job[v]] = running[job[v]]
  BY <1>1, <1>2, <1>4 DEF Typing, TypeOK, JobsOK, LiveWorkerHasEntry, Running,
     Live
<1> QED
  BY <1>2, <1>3, <1>4 DEF LiveWorkerHasEntry

LEMMA WorkerInvNext ==
  Typing /\ ClaimInv /\ WorkerInv /\ [CalmNext]_vars => WorkerInv'
<1> SUFFICES ASSUME Typing, ClaimInv, WorkerInv, [CalmNext]_vars
             PROVE  LiveWorkerHasEntry'
  BY NoKillNext DEF WorkerInv
<1>1. CASE UNCHANGED <<running, pc, job>>
  BY <1>1 DEF WorkerInv, LiveWorkerHasEntry, Live
<1>2. CASE Reconcile /\ ~WorkerIsDropped
  BY <1>1, <1>2 DEF Reconcile, WorkerIsDropped, taskVars
<1>3. ASSUME NEW i \in Issues, Dispatch(i) PROVE LiveWorkerHasEntry'
  BY <1>3, SpawnWorkers DEF Dispatch, Startable, WorkerInv
<1>4. CASE RetryDispatch
  <2>1. cur \in Issues /\ cur \notin Running
    BY <1>4 DEF RetryDispatch, Typing, CursorOK, ClaimInv, OnePlacePerIssue,
       Held
  <2> QED
    BY <1>4, <2>1, SpawnWorkers DEF RetryDispatch, WorkerInv
<1>5. ASSUME NEW w \in Workers, WorkerStep(w) PROVE LiveWorkerHasEntry'
  <2>1. ASSUME NEW v \in Live, w \in Live, v # w PROVE job[v] # job[w]
    BY <2>1 DEF WorkerInv, LiveWorkerHasEntry
  <2>2. CASE Provision(w)
    BY <2>1, <2>2 DEF Provision, stateVars, WorkerInv, LiveWorkerHasEntry,
       Live, Typing, TypeOK, JobsOK
  <2>3. CASE ReturnFromTurns(w)
    BY <2>3 DEF ReturnFromTurns, stateVars, WorkerInv, LiveWorkerHasEntry,
       Live, Typing, TypeOK
  <2>4. CASE AfterRunDone(w)
    BY <2>4 DEF AfterRunDone, stateVars, WorkerInv, LiveWorkerHasEntry,
       Live, Typing, TypeOK
  <2>5. CASE RemoveWorkspace(w)
    BY <2>1, <2>5 DEF RemoveWorkspace, stateVars, WorkerInv,
       LiveWorkerHasEntry, Live, Typing, TypeOK, JobsOK
  <2>6. CASE WorkerExit(w)
    <3>1. Live' = Live \ {w}
      BY <2>6 DEF WorkerExit, Live, Typing, TypeOK
    <3>2. ASSUME NEW v \in Live \ {w}
          PROVE  /\ pc'[v] = pc[v] /\ job'[v] = job[v]
                 /\ running'[job[v]] = running[job[v]]
      <4>1. job[v] # job[w]
        BY <2>1, <2>6 DEF WorkerExit, Live
      <4> QED
        BY <2>6, <3>2, <4>1 DEF WorkerExit, RemoveEntry, stateVars, Live,
           Typing, TypeOK, JobsOK
    <3> QED
      BY <2>6, <3>1, <3>2 DEF WorkerExit, WorkerInv, LiveWorkerHasEntry
  <2> QED
    BY <1>5, <2>2, <2>3, <2>4, <2>5, <2>6 DEF WorkerStep
<1>6. CASE ReconcileStep /\ ~WorkerIsDropped
  BY <1>1, <1>2, <1>6 DEF ReconcileStep, ReconcileStart, KillNext,
     HandleWorkerExit, KillRemoveWorkspace, RefreshOk, RefreshFails, WorkerInv,
     NoKill, stateVars, workerVars
<1>7. CASE DispatchStep
  BY <1>1, <1>3, <1>7 DEF DispatchStep, CandidatesFail, CandidatesFetched,
     DispatchDone, stateVars, workerVars
<1>8. CASE RetryStep
  BY <1>1, <1>4, <1>8 DEF RetryStep, CollectDue, TakeRetry, RetriesDone,
     RetryFetchFails, RetryFetched, RetryInactive, RetryNoSlot, entryVars,
     stateVars, workerVars
<1>9. CASE Environment
  BY <1>1, <1>9 DEF Environment, TrackerMove, RetryComesDue, ApiCancel,
     ApiRetryDelete, entryVars, stateVars, workerVars, taskVars
<1>10. CASE CleanupStep
  BY <1>1, <1>10, CleanupRests DEF stateVars, workerVars
<1>11. CASE UNCHANGED vars
  BY <1>1, <1>11 DEF vars, stateVars, workerVars
<1> QED
  BY <1>5, <1>6, <1>7, <1>8, <1>9, <1>10, <1>11 DEF CalmNext

LEMMA WorkerInvInit == Init => WorkerInv
BY DEF Init, WorkerInv, NoKill, LiveWorkerHasEntry, Live

LEMMA CalmIsTimely == CalmSpec => TimelySpec
<1>1. [CalmNext]_vars => [TimelyNext]_vars
  BY DEF CalmNext, TimelyNext, MainStep
<1> QED
  BY <1>1, PTL DEF CalmSpec, TimelySpec

LEMMA WorkerInvAlways == CalmSpec => []WorkerInv
BY WorkerInvNext, CalmIsTimely, ClaimInvAlways, WorkerInvInit, PTL DEF CalmSpec

\* The scheduler never loses sight of a live agent, so no two of them ever
\* share an issue and its workspace.
THEOREM NoWorkerLost == CalmSpec => [](LiveWorkerHasEntry /\ OneWorkerPerIssue)
<1>1. WorkerInv => LiveWorkerHasEntry /\ OneWorkerPerIssue
  BY DEF WorkerInv, LiveWorkerHasEntry, OneWorkerPerIssue
<1>2. CalmSpec => []WorkerInv
  BY WorkerInvAlways
<1> QED
  BY <1>1, <1>2, PTL

LEMMA WorkspaceInUseRests ==
  ASSUME Typing, WorkerInv, CalmNext, NEW v \in Live,
         pc[v] \in {"turns", "afterRun"}, workspace[job[v]], ~workspace'[job[v]]
  PROVE  CleanupTakes(job[v])
<1>1. job[v] \in Issues /\ workspace \in [Issues -> BOOLEAN] /\ workspace' # workspace
  BY DEF Typing, TypeOK, JobsOK
<1>2. CASE ReconcileStep /\ ~WorkerIsDropped
  BY <1>1, <1>2 DEF ReconcileStep, ReconcileStart, KillNext, HandleWorkerExit,
     KillRemoveWorkspace, RefreshOk, RefreshFails, Reconcile, WorkerInv, NoKill
<1>3. CASE DispatchStep
  BY <1>1, <1>3 DEF DispatchStep, CandidatesFail, CandidatesFetched, Dispatch,
     DispatchDone
<1>4. CASE RetryStep
  BY <1>1, <1>4 DEF RetryStep, CollectDue, TakeRetry, RetriesDone,
     RetryFetchFails, RetryFetched, RetryInactive, RetryNoSlot, RetryDispatch
<1>5. ASSUME NEW w \in Workers, WorkerStep(w) PROVE FALSE
  <2>1. CASE Provision(w)
    BY <1>1, <2>1 DEF Provision
  <2>2. CASE RemoveWorkspace(w)
    <3>1. w \in Live /\ w # v
      BY <2>2 DEF RemoveWorkspace, Live
    <3>2. job[w] # job[v]
      BY <3>1 DEF WorkerInv, LiveWorkerHasEntry
    <3> QED
      BY <1>1, <2>2, <3>2 DEF RemoveWorkspace
  <2> QED
    BY <1>1, <1>5, <2>1, <2>2 DEF WorkerStep, ReturnFromTurns, AfterRunDone,
       WorkerExit
<1>6. CASE CleanupStep
  <2>1. UNCHANGED <<main, pc>>
    BY <1>6, CleanupRests DEF workerVars
  <2>2. \/ sweep = "removing" /\ job[v] \in doomed \ doomed'
        \/ sweep = "listing" /\ job[v] \in Prefixed
    BY <1>1, <1>6 DEF CleanupStep, CleanupFetched, CleanupRemoves,
       CleanupLists, CleanupRemovesPrefixed, CleanupEnds
  <2> QED
    BY <2>1, <2>2 DEF CleanupTakes
<1>7. CASE Environment
  BY <1>1, <1>7 DEF Environment, TrackerMove, RetryComesDue, ApiCancel,
     ApiRetryDelete
<1> QED
  BY <1>2, <1>3, <1>4, <1>5, <1>6, <1>7 DEF CalmNext

\* Only the background cleanup ever deletes a workspace under the worker or
\* the after_run hook that uses it: what the worker and reconcile delete, they
\* delete after it.
THEOREM WorkspacesKept == CalmSpec => WorkspaceInUseIsKept
<1> DEFINE Kept == \A w \in Live :
             /\ pc[w] \in {"turns", "afterRun"}
             /\ workspace[job[w]] /\ ~workspace'[job[w]]
             => CleanupTakes(job[w])
<1>1. Typing /\ WorkerInv /\ [CalmNext]_vars => [Kept]_vars
  BY WorkspaceInUseRests
<1>2. Spec => []Typing
  BY TypingInit, TypingNext, PTL DEF Spec
<1> QED
  BY <1>1, <1>2, WorkerInvAlways, CalmIsTimely, TimelyIsSpec, PTL
  DEF CalmSpec, WorkspaceInUseIsKept

\* The cap bounds the agents that are alive, not only the entries on file.
THEOREM LiveCapHolds == CalmSpec => []LiveWithinCap
<1>1. ASSUME Typing, WorkerInv, EntriesWithinCap PROVE LiveWithinCap
  <2> DEFINE f == [w \in Live |-> job[w]]
  <2>1. f \in [Live -> Running]
    BY <1>1 DEF WorkerInv, LiveWorkerHasEntry, Running, Live, Typing, JobsOK
  <2>2. \A v, w \in Live : f[v] = f[w] => v = w
    BY <1>1 DEF WorkerInv, LiveWorkerHasEntry
  <2>3. f \in Injection(Live, Running)
    BY <2>1, <2>2 DEF Injection, IsInjective
  <2>4. IsFiniteSet(Running)
    BY FS_Subset DEF Running
  <2>5. IsFiniteSet(Live) /\ Cardinality(Live) <= Cardinality(Running)
    BY <2>3, <2>4, FS_Injection
  <2>6. Cardinality(Live) \in Nat /\ Cardinality(Running) \in Nat
    BY <2>4, <2>5, FS_CardinalityType
  <2> QED
    BY <1>1, <2>5, <2>6 DEF EntriesWithinCap, LiveWithinCap
<1>2. Spec => []Typing
  BY TypingInit, TypingNext, PTL DEF Spec
<1>3. CalmSpec => []WorkerInv
  BY WorkerInvAlways
<1> QED
  BY <1>1, <1>2, <1>3, CalmIsTimely, TimelyIsSpec, CapHolds, PTL

-----------------------------------------------------------------------------
(* Until a worker is dropped the scheduler implements IssueClaims.         *)

RefInv == Typing /\ ClaimInv /\ WorkerInv /\ EntryHasLiveWorker

Same(j) == PhaseOf(j)' = PhaseOf(j) /\ AttemptOf(j)' = AttemptOf(j)

\* ClaimInv makes the four phases a partition.
LEMMA Phases ==
  ASSUME RefInv, NEW i \in Issues
  PROVE  /\ i \in Running => PhaseOf(i) = "running"
         /\ i \in Queued => PhaseOf(i) = "queued"
         /\ i \in Held => PhaseOf(i) = "held"
         /\ i \notin claimed => PhaseOf(i) = "free"
BY DEF RefInv, ClaimInv, ClaimsAccounted, OnePlacePerIssue, PhaseOf

LEMMA PhasesPrime ==
  ASSUME RefInv', NEW i \in Issues
  PROVE  /\ i \in Running' => PhaseOf(i)' = "running"
         /\ i \in Queued' => PhaseOf(i)' = "queued"
         /\ i \in Held' => PhaseOf(i)' = "held"
         /\ i \notin claimed' => PhaseOf(i)' = "free"
BY DEF RefInv, ClaimInv, ClaimsAccounted, OnePlacePerIssue, PhaseOf

\* Issues whose entry, queue slot and place in hand are untouched stay put.
LEMMA Untouched ==
  ASSUME NEW j \in Issues, running'[j] = running[j], retry'[j] = retry[j],
         j \in Held' <=> j \in Held,
         j \in Held => snap'[j] = snap[j],
         j \in Running => attempt'[running[j]] = attempt[running[j]]
  PROVE  Same(j)
BY DEF Same, PhaseOf, AttemptOf, Running, Queued

LEMMA AllUntouched ==
  ASSUME \A j \in Issues : Same(j)
  PROVE  UNCHANGED Claims!vars
BY DEF Same, Claims!vars

LEMMA OneMoves ==
  ASSUME NEW i \in Issues, \A j \in Issues \ {i} : Same(j),
         NEW from, NEW to, NEW n,
         PhaseOf(i) = from, PhaseOf(i)' = to, AttemptOf(i)' = n
  PROVE  Claims!Move(i, from, to, n)
BY DEF Same, Claims!Move

LEMMA Slots ==
  ASSUME RefInv
  PROVE  AvailableSlots > 0 => Claims!SlotFree
<1>1. Claims!In("running") = Running
  BY DEF Claims!In, PhaseOf, Running
<1>2. IsFiniteSet(Running)
  BY FS_Subset DEF Running
<1>3. Cardinality(Running) \in Nat
  BY <1>2, FS_CardinalityType
<1>4. Claims!Cardinality(Running) = Cardinality(Running)
  BY Zenon DEF Claims!Cardinality, Cardinality
<1> QED
  BY <1>1, <1>3, <1>4 DEF AvailableSlots, Claims!SlotFree

LEMMA RefinementInit == Init => Claims!Init
BY DEF Init, Claims!Init, PhaseOf, AttemptOf, Running, Queued, Held, Nothing

LEMMA RefinementNext ==
  RefInv /\ RefInv' /\ [CalmNext]_vars
    => [Claims!Next]_(Claims!vars)
<1> SUFFICES ASSUME RefInv, RefInv', [CalmNext]_vars
             PROVE  Claims!Next \/ UNCHANGED Claims!vars
  BY DEF Claims!vars
<1> USE DEF RefInv
<1>1. ASSUME UNCHANGED <<running, retry, attempt>>, Held' = Held,
             Held = {} \/ UNCHANGED snap
      PROVE  UNCHANGED Claims!vars
  BY <1>1, Untouched, AllUntouched
<1>2. ASSUME NEW i \in Issues, NEW s, NEW a, Spawn(i, s, a), UNCHANGED retry,
             i \notin Running \cup Queued, Held' = Held \ {i}, Held \subseteq {i}
      PROVE  /\ \A j \in Issues \ {i} : Same(j)
             /\ PhaseOf(i)' = "running" /\ AttemptOf(i)' = a
  <2>1. PICK w \in Workers \ Live :
          /\ running' = [running EXCEPT ![i] = w]
          /\ attempt' = [attempt EXCEPT ![w] = a]
    BY <1>2 DEF Spawn
  <2>2. ASSUME NEW j \in Issues \ {i} PROVE Same(j)
    <3>1. j \in Running => running[j] # w
      BY <2>1 DEF EntryHasLiveWorker
    <3> QED
      BY <1>2, <2>1, <3>1, Untouched DEF Typing, TypeOK, Running
  <2>3. i \in Running' /\ running'[i] = w /\ attempt'[w] = a
    BY <2>1 DEF Running, Typing, TypeOK
  <2>4. PhaseOf(i)' = "running"
    BY <2>3, PhasesPrime
  <2> QED
    BY <2>2, <2>3, <2>4 DEF AttemptOf
<1>3. ASSUME NEW i \in Issues, Dispatch(i) PROVE Claims!Claim(i)
  <2>1. i \notin claimed /\ i \notin Running \cup Queued
    BY <1>3 DEF Dispatch, Startable, ClaimInv, ClaimsAccounted
  <2>2. Held = {} /\ Held' = {} /\ UNCHANGED retry
    BY <1>3 DEF Dispatch, Held, retryVars
  <2>3. /\ \A j \in Issues \ {i} : Same(j)
        /\ PhaseOf(i)' = "running" /\ AttemptOf(i)' = 0
    BY <1>2, <1>3, <2>1, <2>2 DEF Dispatch
  <2>4. PhaseOf(i) = "free"
    BY <2>1, Phases
  <2> QED
    BY <1>3, <2>3, <2>4, OneMoves, Slots DEF Dispatch, Claims!Claim
<1>4. ASSUME NEW i \in Issues, TakeRetry(i) PROVE Claims!Take(i)
  <2>1. Held = {} /\ Held' = {i} /\ snap[i] # 0 /\ UNCHANGED snap
    BY <1>4 DEF TakeRetry, Held
  <2>2. retry[i] = snap[i]
    BY <1>4, <2>1 DEF TakeRetry, ClaimInv, DueListIsCurrent
  <2>3. i \in Queued /\ PhaseOf(i) = "queued" /\ PhaseOf(i)' = "held"
    BY <2>1, <2>2, Phases, PhasesPrime DEF Queued
  <2>4. AttemptOf(i) = retry[i] /\ AttemptOf(i)' = snap[i]
    BY <2>1, <2>3 DEF AttemptOf
  <2>5. ASSUME NEW j \in Issues \ {i} PROVE Same(j)
    BY <1>4, <2>1, Untouched DEF TakeRetry, entryVars, workerVars, Typing,
       TypeOK
  <2>6. Claims!In("held") = {}
    BY <2>1 DEF Claims!In, PhaseOf
  <2>7. Claims!Move(i, "queued", "held", AttemptOf(i))
    BY <2>2, <2>3, <2>4, <2>5, OneMoves
  <2> QED
    BY <2>6, <2>7 DEF Claims!Take
\* An issue in hand, while the loop body of process_retries ends.
<1>5. ASSUME main \in {"retryFetch", "retryApply"}, NextRetry,
             NEW i \in Issues, i = cur
      PROVE  /\ Held = {i} /\ Held' = {}
             /\ i \notin Running \cup Queued
             /\ PhaseOf(i) = "held" /\ AttemptOf(i) = snap[i]
             /\ snap[i] \in Nat \ {0}
  <2>1. Held = {i} /\ Held' = {} /\ snap[i] # 0
    BY <1>5 DEF NextRetry, Held, Typing, CursorOK
  <2>2. i \notin Running \cup Queued
    BY <2>1 DEF ClaimInv, OnePlacePerIssue
  <2>3. PhaseOf(i) = "held"
    BY <2>1, Phases
  <2>4. AttemptOf(i) = snap[i]
    BY <2>3 DEF AttemptOf
  <2> QED
    BY <2>1, <2>2, <2>3, <2>4 DEF Typing, TypeOK
<1>6. ASSUME main \in {"retryFetch", "retryApply"}, NextRetry,
             NEW i \in Issues, i = cur,
             UNCHANGED <<running, attempt>>,
             \A j \in Issues \ {i} : retry'[j] = retry[j]
      PROVE  \A j \in Issues \ {i} : Same(j)
  BY <1>5, <1>6, Untouched
<1>7. CASE RetryFetchFails
  <2>0. PICK i \in Issues : i = cur
    BY <1>7 DEF RetryFetchFails, Typing, CursorOK
  <2>1. /\ Held = {i} /\ Held' = {}
        /\ i \notin Running \cup Queued
        /\ PhaseOf(i) = "held" /\ AttemptOf(i) = snap[i]
        /\ snap[i] \in Nat \ {0}
    BY <1>5, <1>7, <2>0 DEF RetryFetchFails
  <2>2. \A j \in Issues \ {i} : Same(j)
    BY <1>6, <1>7, <2>0, <2>1 DEF RetryFetchFails, RetryOrRelease, retryVars,
       entryVars, workerVars, Typing, TypeOK
  <2>3. CASE snap[i] + 1 > MaxAttempts
    <3>1. i \notin claimed'
      BY <1>7, <2>0, <2>3 DEF RetryFetchFails, RetryOrRelease
    <3>2. PhaseOf(i)' = "free"
      BY <2>1, <3>1, PhasesPrime
    <3>3. AttemptOf(i)' = 0
      BY <3>2 DEF AttemptOf
    <3>4. Claims!Move(i, "held", "free", 0)
      BY <2>1, <2>2, <3>2, <3>3, OneMoves
    <3>5. Claims!Postpone(i)
      BY <2>1, <2>3, <3>4 DEF Claims!Postpone, Claims!OneMoreTry
    <3> QED
      BY <2>1, <3>5 DEF Claims!Next
  <2>4. CASE ~(snap[i] + 1 > MaxAttempts)
    <3>1. retry'[i] = snap[i] + 1
      BY <1>7, <2>0, <2>1, <2>4 DEF RetryFetchFails, RetryOrRelease, Typing, TypeOK
    <3>2. i \in Queued' /\ PhaseOf(i)' = "queued"
      BY <2>1, <3>1, PhasesPrime DEF Queued
    <3>3. AttemptOf(i)' = snap[i] + 1
      BY <3>1, <3>2 DEF AttemptOf
    <3>4. Claims!Move(i, "held", "queued", snap[i] + 1)
      BY <2>1, <2>2, <3>2, <3>3, OneMoves
    <3>5. Claims!Postpone(i)
      BY <2>1, <2>4, <3>4 DEF Claims!Postpone, Claims!OneMoreTry
    <3> QED
      BY <2>1, <3>5 DEF Claims!Next
  <2> QED
    BY <2>3, <2>4
<1>8. CASE RetryInactive
  <2>0. PICK i \in Issues : i = cur
    BY <1>8 DEF RetryInactive, Typing, CursorOK
  <2>1. /\ PhaseOf(i) = "held"
        /\ \A j \in Issues \ {i} : Same(j)
    BY <1>5, <1>6, <1>8, <2>0 DEF RetryInactive, entryVars, retryVars, workerVars
  <2>2. PhaseOf(i)' = "free"
    BY <1>8, <2>0, <2>1, PhasesPrime DEF RetryInactive
  <2>3. AttemptOf(i)' = 0
    BY <2>2 DEF AttemptOf
  <2>4. Claims!GiveUp(i)
    BY <2>1, <2>2, <2>3, OneMoves DEF Claims!GiveUp
  <2> QED
    BY <2>1, <2>4 DEF Claims!Next
<1>9. CASE RetryNoSlot
  <2>0. PICK i \in Issues : i = cur
    BY <1>9 DEF RetryNoSlot, Typing, CursorOK
  <2>1. /\ PhaseOf(i) = "held"
        /\ AttemptOf(i) = snap[i] /\ snap[i] \in Nat \ {0}
    BY <1>5, <1>9, <2>0 DEF RetryNoSlot
  <2>2. \A j \in Issues \ {i} : Same(j)
    BY <1>6, <1>9, <2>0, <2>1 DEF RetryNoSlot, entryVars, workerVars, Typing, TypeOK
  <2>3. retry'[i] = snap[i]
    BY <1>9, <2>0, <2>1 DEF RetryNoSlot, Typing, TypeOK
  <2>4. i \in Queued' /\ PhaseOf(i)' = "queued"
    BY <2>1, <2>3, PhasesPrime DEF Queued
  <2>5. AttemptOf(i)' = snap[i]
    BY <2>3, <2>4 DEF AttemptOf
  <2>6. Claims!Move(i, "held", "queued", AttemptOf(i))
    BY <2>1, <2>2, <2>4, <2>5, OneMoves
  <2>7. Claims!PutBack(i)
    BY <2>1, <2>6 DEF Claims!PutBack
  <2> QED
    BY <2>1, <2>7 DEF Claims!Next
<1>10. CASE RetryDispatch
  <2>0. PICK i \in Issues : i = cur
    BY <1>10 DEF RetryDispatch, Typing, CursorOK
  <2>1. /\ Held = {i} /\ Held' = {}
        /\ i \notin Running \cup Queued
        /\ PhaseOf(i) = "held" /\ AttemptOf(i) = snap[i]
    BY <1>5, <1>10, <2>0 DEF RetryDispatch
  <2>2. /\ \A j \in Issues \ {i} : Same(j)
        /\ PhaseOf(i)' = "running" /\ AttemptOf(i)' = snap[i]
    BY <1>2, <1>10, <2>0, <2>1 DEF RetryDispatch, retryVars
  <2>3. Claims!Move(i, "held", "running", AttemptOf(i))
    BY <2>1, <2>2, OneMoves
  <2>4. Claims!Restart(i)
    BY <1>10, <2>0, <2>1, <2>3, Slots DEF RetryDispatch, Claims!Restart
  <2> QED
    BY <2>1, <2>4 DEF Claims!Next
<1>11. ASSUME NEW w \in Workers, WorkerExit(w)
       PROVE  Claims!Finish(job[w]) \/ Claims!Fail(job[w])
  <2>0. PICK i \in Issues : i = job[w]
    BY <1>11 DEF WorkerExit, Live, Typing, JobsOK
  <2> DEFINE n == IF result[w] = "ok" THEN 1 ELSE attempt[w] + 1
  <2>1. running[i] = w /\ i \in Running
    BY <1>11, <2>0 DEF WorkerExit, Live, WorkerInv, LiveWorkerHasEntry, Running
  <2>2. RemoveEntry(i) /\ RetryOrRelease(i, n)
    BY <1>11, <2>0, <2>1 DEF WorkerExit
  <2>3. Held' = Held /\ UNCHANGED snap
    BY <1>11 DEF WorkerExit, localVars, Held
  <2>4. ASSUME NEW j \in Issues \ {i} PROVE Same(j)
    <3>1. j \in Running => running[j] # w
      BY <2>0 DEF EntryHasLiveWorker
    <3>2. running'[j] = running[j] /\ retry'[j] = retry[j]
      BY <2>2 DEF RemoveEntry, RetryOrRelease, retryVars, Typing, TypeOK
    <3>3. j \in Running => attempt'[running[j]] = attempt[running[j]]
      BY <1>11, <3>1 DEF WorkerExit, Typing, TypeOK, Running
    <3> QED
      BY <2>3, <3>2, <3>3, Untouched
  <2>5. PhaseOf(i) = "running" /\ AttemptOf(i) = attempt[w]
    BY <2>1, Phases DEF AttemptOf
  <2>6. n \in Nat \ {0} /\ (result[w] # "ok" => n = AttemptOf(i) + 1)
    BY <2>5 DEF Typing, TypeOK
  <2>7. CASE n > MaxAttempts
    <3>1. i \notin claimed'
      BY <2>2, <2>7 DEF RetryOrRelease
    <3>2. PhaseOf(i)' = "free"
      BY <2>1, <3>1, PhasesPrime
    <3>3. AttemptOf(i)' = 0
      BY <3>2 DEF AttemptOf
    <3>4. Claims!Move(i, "running", "free", 0)
      BY <2>1, <2>4, <2>5, <3>2, <3>3, OneMoves
    <3>5. result[w] # "ok"
      BY <2>7
    <3> QED
      BY <2>0, <2>6, <2>7, <3>4, <3>5 DEF Claims!Fail, Claims!OneMoreTry
  <2>8. CASE ~(n > MaxAttempts)
    <3> HIDE DEF n
    <3>1. retry'[i] = n
      BY <2>1, <2>2, <2>8 DEF RetryOrRelease, Typing, TypeOK
    <3>2. i \in Queued' /\ PhaseOf(i)' = "queued"
      BY <2>1, <2>6, <3>1, PhasesPrime DEF Queued
    <3>3. AttemptOf(i)' = n
      BY <3>1, <3>2 DEF AttemptOf
    <3>4. Claims!Move(i, "running", "queued", n)
      BY <2>1, <2>4, <2>5, <3>2, <3>3, OneMoves
    <3>5. CASE result[w] = "ok"
      BY <2>0, <3>4, <3>5 DEF n, Claims!Finish
    <3>6. CASE result[w] # "ok"
      BY <2>0, <2>6, <2>8, <3>4, <3>6 DEF Claims!Fail, Claims!OneMoreTry
    <3> QED
      BY <3>5, <3>6
  <2> QED
    BY <2>7, <2>8
<1>12. CASE Reconcile /\ ~WorkerIsDropped
  <2>1. UNCHANGED <<running, retry, attempt>> /\ Held = {} /\ Held' = {}
    BY <1>12 DEF Reconcile, WorkerIsDropped, Held, retryVars, taskVars
  <2> QED
    BY <1>1, <2>1
<1>13. CASE ReconcileStep /\ ~WorkerIsDropped
  BY <1>1, <1>12, <1>13 DEF ReconcileStep, ReconcileStart, KillNext,
     HandleWorkerExit, KillRemoveWorkspace, RefreshOk, RefreshFails, WorkerInv,
     NoKill, Held, stateVars, workerVars, localVars
<1>14. CASE DispatchStep
  BY <1>1, <1>3, <1>14 DEF DispatchStep, CandidatesFail, CandidatesFetched,
     DispatchDone, Held, stateVars, workerVars, localVars, Claims!Next
<1>15. CASE RetryStep
  BY <1>1, <1>4, <1>7, <1>8, <1>9, <1>10, <1>15 DEF RetryStep, CollectDue,
     RetriesDone, RetryFetched, Held, stateVars, workerVars, localVars,
     Claims!Next
<1>16. ASSUME NEW w \in Workers, WorkerStep(w)
       PROVE  Claims!Next \/ UNCHANGED Claims!vars
  <2>1. CASE WorkerExit(w)
    <3>1. job[w] \in Issues
      BY <2>1 DEF WorkerExit, Live, Typing, JobsOK
    <3> QED
      BY <1>11, <2>1, <3>1 DEF Claims!Next
  <2> QED
    BY <1>1, <1>16, <2>1 DEF WorkerStep, Provision, ReturnFromTurns,
       AfterRunDone, RemoveWorkspace, Held, stateVars, localVars
<1>17. CASE Environment
  <2>1. ASSUME NEW i \in Issues, ApiRetryDelete(i) PROVE Claims!Withdraw(i)
    <3>1. i \in Queued /\ i \notin claimed'
      BY <2>1 DEF ApiRetryDelete
    <3>2. PhaseOf(i) = "queued" /\ PhaseOf(i)' = "free"
      BY <3>1, Phases, PhasesPrime
    <3>3. AttemptOf(i)' = 0
      BY <3>2 DEF AttemptOf
    <3>4. Held' = Held /\ UNCHANGED <<running, attempt, snap>>
      BY <2>1 DEF ApiRetryDelete, entryVars, workerVars, localVars, Held
    <3>5. ASSUME NEW j \in Issues \ {i} PROVE Same(j)
      BY <2>1, <3>4, Untouched DEF ApiRetryDelete, Typing, TypeOK
    <3> QED
      BY <3>2, <3>3, <3>5, OneMoves DEF Claims!Withdraw
  <2> QED
    BY <1>1, <1>17, <2>1 DEF Environment, TrackerMove, RetryComesDue, ApiCancel,
       Held, entryVars, stateVars, workerVars, taskVars, localVars, Claims!Next
<1>18. CASE CleanupStep
  BY <1>1, <1>18, CleanupRests DEF Held, stateVars, workerVars, localVars
<1>19. CASE UNCHANGED vars
  BY <1>1, <1>19 DEF vars, Held, stateVars, workerVars, localVars
<1> QED
  BY <1>13, <1>14, <1>15, <1>16, <1>17, <1>18, <1>19 DEF CalmNext

\* Whatever tasks, stale answers and tracker errors interleave, each issue
\* only ever goes through the life cycle of a claim, within the cap and the
\* retry budget.
THEOREM Refinement == CalmSpec => ImplementsIssueClaims
<1>1. CalmSpec => []RefInv
  BY WorkerInvAlways, CalmIsTimely, ClaimInvAlways, TimelyIsSpec,
     EntriesHaveWorkers, PTL DEF RefInv
<1> QED
  BY <1>1, RefinementNext, RefinementInit, PTL DEF CalmSpec,
     ImplementsIssueClaims, Claims!Spec

-----------------------------------------------------------------------------
(* Each task lives the life of WorkerLife, in all behaviours.  What is      *)
(* needed besides types is that a free slot has nothing left of the run     *)
(* that was in it.                                                          *)

IdleIsFresh == \A w \in Workers : pc[w] = "idle" => result[w] = "ok" /\ ~cancelled[w]

LifeInv == Typing /\ EntryHasLiveWorker /\ IdleIsFresh

\* Nothing changes a worker's stage but itself and its spawn; nobody's result
\* but itself; nothing its flag but an exit, a cancel and reconcile.
LEMMA SpawnIsBegin ==
  ASSUME LifeInv, NEW i, NEW s, NEW a, Spawn(i, s, a)
  PROVE  \E w \in Workers : Life!Begin(w)
<1>1. PICK w \in Workers \ Live :
        /\ pc' = [pc EXCEPT ![w] = "starting"]
        /\ cancelled' = [cancelled EXCEPT ![w] = FALSE]
        /\ result' = result
  BY DEF Spawn
<1>2. pc[w] = "idle" /\ ~cancelled[w]
  BY DEF LifeInv, IdleIsFresh, Live
<1>3. cancelled' = cancelled
  BY <1>1, <1>2 DEF LifeInv, Typing, TypeOK
<1> QED
  BY <1>1, <1>2, <1>3 DEF Life!Begin, Life!Pass

LEMMA WorkerStepIsLife ==
  ASSUME LifeInv, NEW w \in Workers, WorkerStep(w)
  PROVE  Life!Next
<1>1. CASE Provision(w)
  <2>1. Life!SetUp(w) \/ Life!SetUpFails(w)
    BY <1>1 DEF Provision, Life!SetUp, Life!SetUpFails, Life!Pass, Life!Settle
  <2> QED
    BY <2>1 DEF Life!Next
<1>2. CASE ReturnFromTurns(w)
  <2>1. Life!TurnsOver(w)
    BY <1>2 DEF ReturnFromTurns, Life!TurnsOver, Life!Pass, Life!Settle
  <2> QED
    BY <2>1 DEF Life!Next
<1>3. CASE AfterRunDone(w)
  <2>1. Life!HookOver(w)
    BY <1>3 DEF AfterRunDone, Life!HookOver, Life!Pass
  <2> QED
    BY <2>1 DEF Life!Next
<1>4. CASE RemoveWorkspace(w)
  <2>1. Life!Remove(w)
    BY <1>4 DEF RemoveWorkspace, Life!Remove, Life!Pass
  <2> QED
    BY <2>1 DEF Life!Next
<1>5. CASE WorkerExit(w)
  <2>1. Life!Exit(w)
    BY <1>5 DEF WorkerExit, Life!Exit, Life!Vanish, Life!Settle
  <2> QED
    BY <2>1 DEF Life!Next
<1> QED
  BY <1>1, <1>2, <1>3, <1>4, <1>5 DEF WorkerStep

\* Flags are only ever set, and only those of workers that are at work.
LEMMA FlagsAreStops ==
  ASSUME LifeInv, Reconcile \/ \E i \in Issues : ApiCancel(i)
  PROVE  \E S \in SUBSET Workers : Life!Stop(S)
<1>1. \A i \in Running : running[i] \in Workers /\ pc[running[i]] # "idle"
  BY DEF LifeInv, EntryHasLiveWorker, Live
<1>2. CASE Reconcile
  <2> DEFINE dropped == {i \in Running : \/ seen[i] \in Terminal
                                         \/ seen[i] \in States \ (Active \cup Terminal)}
             S == {running[i] : i \in dropped}
  <2>1. S \in SUBSET Workers /\ \A w \in S : pc[w] # "idle"
    BY <1>1
  <2>2. cancelled' = [w \in Workers |-> cancelled[w] \/ w \in S]
    BY <1>2 DEF Reconcile
  <2>3. UNCHANGED <<pc, result>>
    BY <1>2 DEF Reconcile, taskVars
  <2> HIDE DEF S
  <2> QED
    BY <2>1, <2>2, <2>3 DEF Life!Stop
<1>3. ASSUME NEW i \in Issues, ApiCancel(i) PROVE \E S \in SUBSET Workers : Life!Stop(S)
  <2>1. i \in Running /\ UNCHANGED <<pc, result>>
    BY <1>3 DEF ApiCancel, taskVars
  <2>2. cancelled' = [cancelled EXCEPT ![running[i]] = TRUE]
    BY <1>3 DEF ApiCancel
  <2>3. cancelled \in [Workers -> BOOLEAN]
    BY DEF LifeInv, Typing, TypeOK
  <2>4. cancelled' = [w \in Workers |-> cancelled[w] \/ w \in {running[i]}]
    BY <2>2, <2>3
  <2>5. {running[i]} \in SUBSET Workers /\ \A w \in {running[i]} : pc[w] # "idle"
    BY <1>1, <2>1
  <2> QED
    BY <2>1, <2>4, <2>5 DEF Life!Stop
<1> QED
  BY <1>2, <1>3

LEMMA LifeNext == LifeInv /\ [Next]_vars => [Life!Next]_(Life!vars)
<1> SUFFICES ASSUME LifeInv, [Next]_vars
             PROVE  Life!Next \/ UNCHANGED <<pc, result, cancelled>>
  BY DEF Life!vars
<1>1. CASE Reconcile \/ \E i \in Issues : ApiCancel(i)
  BY <1>1, FlagsAreStops DEF Life!Next
<1>2. ASSUME NEW i, NEW s, NEW a, Spawn(i, s, a) PROVE Life!Next
  BY <1>2, SpawnIsBegin DEF Life!Next
<1>3. CASE ReconcileStep
  BY <1>1, <1>3 DEF ReconcileStep, ReconcileStart, KillNext, HandleWorkerExit,
     KillRemoveWorkspace, RefreshOk, RefreshFails, workerVars, taskVars
<1>4. CASE DispatchStep
  BY <1>2, <1>4 DEF DispatchStep, CandidatesFail, CandidatesFetched, Dispatch,
     DispatchDone, workerVars, taskVars
<1>5. CASE RetryStep
  BY <1>2, <1>5 DEF RetryStep, CollectDue, TakeRetry, RetriesDone,
     RetryFetchFails, RetryFetched, RetryInactive, RetryNoSlot, RetryDispatch,
     workerVars, taskVars
<1>6. ASSUME NEW w \in Workers, WorkerStep(w) PROVE Life!Next
  BY <1>6, WorkerStepIsLife
<1>7. CASE Environment
  BY <1>1, <1>7 DEF Environment, TrackerMove, RetryComesDue, ApiRetryDelete,
     workerVars, taskVars
<1>8. CASE CleanupStep
  BY <1>8, CleanupRests DEF workerVars
<1>9. CASE UNCHANGED vars
  BY <1>9 DEF vars, workerVars, taskVars
<1> QED
  BY <1>3, <1>4, <1>5, <1>6, <1>7, <1>8, <1>9 DEF Next, MainStep

LEMMA IdleIsFreshNext == LifeInv /\ [Next]_vars => IdleIsFresh'
<1> SUFFICES ASSUME LifeInv, Life!Next \/ UNCHANGED Life!vars PROVE IdleIsFresh'
  BY LifeNext
<1> USE DEF LifeInv, Typing, TypeOK, IdleIsFresh, Life!Pass, Life!Settle
<1>1. ASSUME NEW w \in Workers,
             \/ Life!Begin(w) \/ Life!SetUp(w) \/ Life!SetUpFails(w)
             \/ Life!TurnsOver(w) \/ Life!HookOver(w) \/ Life!Remove(w)
      PROVE  IdleIsFresh'
  BY <1>1 DEF Life!Begin, Life!SetUp, Life!SetUpFails, Life!TurnsOver,
     Life!HookOver, Life!Remove
<1>2. ASSUME NEW w \in Workers, Life!Exit(w) \/ Life!Crash(w) PROVE IdleIsFresh'
  BY <1>2 DEF Life!Exit, Life!Crash, Life!Vanish
<1>3. ASSUME NEW S \in SUBSET Workers, Life!Stop(S) PROVE IdleIsFresh'
  BY <1>3 DEF Life!Stop
<1>4. CASE UNCHANGED Life!vars
  BY <1>4 DEF Life!vars
<1> QED
  BY <1>1, <1>2, <1>3, <1>4 DEF Life!Next

\* Stalls, limbo columns, cancellations and slots that are used again leave
\* every run its life: no flag reaches the next run in a slot or is taken back,
\* and no run is deprived of its after_run.
THEOREM WorkersLive == Spec => ImplementsWorkerLife
<1>1. Init => IdleIsFresh /\ Life!Init
  BY DEF Init, IdleIsFresh, Life!Init
<1>2. Spec => []LifeInv
  BY <1>1, TypingInit, TypingNext, EntriesHaveWorkers, IdleIsFreshNext, PTL
  DEF Spec, LifeInv
<1> QED
  BY <1>1, <1>2, LifeNext, PTL DEF Spec, ImplementsWorkerLife, Life!Spec
=============================================================================
