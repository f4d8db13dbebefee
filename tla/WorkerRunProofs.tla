-------------------------- MODULE WorkerRunProofs --------------------------
(***************************************************************************)
(* What holds of every run, for every board and all turn budgets.          *)
(***************************************************************************)
EXTENDS WorkerRun, TLAPS

USE RunAssumption

Loop == {"loop", "turn", "verify", "refresh"}

\* Before the loop no turn has been counted.
FreshRun ==
  pc \in {"off", "create", "clone", "prepare"} => turn = 0 /\ stagnation = 0

\* At the head of the loop there is a turn left, for the global budget and
\* for the one of the column last seen.
BudgetLeft ==
  /\ pc = "loop" => turn < MaxTurns
  /\ pc = "loop" /\ turn > 0 /\ answer \in States /\ StateTurns[answer] > 0
       => turn < StateTurns[answer]
  /\ pc \in {"turn", "verify", "refresh"} => turn \in 1..MaxTurns

\* In a column that does not change, every turn was counted as stagnant.
StagnationCounted ==
  still =>
    /\ entry
    /\ tracker = known
    /\ pc = "loop" => turn = stagnation /\ stagnation < StagnationLimit
    /\ pc \in {"turn", "verify", "refresh"} =>
         turn = stagnation + 1 /\ stagnation < StagnationLimit
    /\ turn <= StagnationLimit

StagnationBelowLimit ==
  pc \in Loop => stagnation < StagnationLimit

\* A run always has a column: that of its dispatch, or a later one.
RunHasColumn == pc # "off" => known \in States

\* Only a run that fails has failed: up to its teardown none has.
NoErrorYet == pc \notin {"afterRun", "remove", "exit"} => result = "ok"

ColumnRemembered ==
  pc \in {"create", "clone", "prepare"} \cup Loop /\ entry /\ answer \in States
    => known = answer

RunInv ==
  /\ RunTypeOK
  /\ FreshRun
  /\ BudgetLeft
  /\ StagnationBelowLimit
  /\ StagnationCounted
  /\ StateBudgetKept
  /\ ContinuationHadTurn
  /\ RunHasColumn
  /\ NoErrorYet
  /\ ColumnRemembered

LEMMA RunInvInit == Init => RunInv
<1> SUFFICES ASSUME Init
             PROVE  RunInv
  OBVIOUS
<1> USE DEF Init
<1>1. RunTypeOK
  <2>1. /\ cancelled \in BOOLEAN /\ entry \in BOOLEAN
        /\ still \in BOOLEAN
    BY Zenon
  <2> QED
    BY <2>1 DEF RunTypeOK, StagnationLimit
<1>2. /\ NoErrorYet /\ FreshRun /\ BudgetLeft /\ StagnationBelowLimit
      /\ StateBudgetKept /\ ContinuationHadTurn /\ RunHasColumn
  BY DEF FreshRun, BudgetLeft, StagnationBelowLimit, StateBudgetKept,
         ContinuationHadTurn, RunHasColumn, NoErrorYet, Loop
<1>3. StagnationCounted
  BY Zenon DEF StagnationCounted
<1>4. ColumnRemembered
  BY DEF ColumnRemembered, Loop
<1> QED
  BY <1>1, <1>2, <1>3, <1>4 DEF RunInv

LEMMA RunInvNext == RunInv /\ [Next]_vars => RunInv'
<1> SUFFICES ASSUME RunInv, [Next]_vars
             PROVE  RunInv'
  OBVIOUS
<1> USE DEF RunInv, RunTypeOK, FreshRun, BudgetLeft, StagnationBelowLimit,
            StagnationCounted, StateBudgetKept, ContinuationHadTurn, RunHasColumn,
            NoErrorYet, ColumnRemembered, Loop, StagnationLimit, entryVars
<1>1. ASSUME NEW s \in States, Start(s) PROVE RunInv'
  <2>1. /\ still' <=> tracker = s
        /\ cancelled' \in BOOLEAN
        /\ entry' \in BOOLEAN /\ still' \in BOOLEAN
        /\ entry'
    BY <1>1, Zenon DEF Start
  <2> QED
    BY <1>1, <2>1 DEF Start, Dispatchable
<1>2. CASE Reuse
  BY <1>2 DEF Reuse
<1>3. CASE MakeDirectory
  BY <1>3 DEF MakeDirectory
<1>4. CASE Clone
  BY <1>4 DEF Clone
<1>5. CASE \/ CloneFails \/ PrepareFails \/ NoPrompt \/ TurnFails
           \/ VerificationFails \/ RefreshFails
  <2>1. /\ pc # "off"
        /\ pc' = "afterRun"
        /\ result' = "err"
        /\ UNCHANGED <<tracker, dir, known, turn, answer, entryVars>>
    BY <1>5, Zenon
       DEF CloneFails, PrepareFails, NoPrompt, TurnFails, VerificationFails,
           RefreshFails, Fail
  <2> QED
    BY <2>1
<1>6. CASE Prepare
  BY <1>6 DEF Prepare
<1>7. CASE StopCancelled
  BY <1>7 DEF StopCancelled, Break
<1>8. CASE StartTurn
  BY <1>8 DEF StartTurn
<1>9. CASE TurnSucceeds \/ Verified
  BY <1>9 DEF TurnSucceeds, Verified
<1>10. CASE RefreshInactive
  BY <1>10 DEF RefreshInactive, Break
<1>11. CASE RefreshUnlisted
  <2>1. RunTypeOK' /\ FreshRun' /\ BudgetLeft' /\ StagnationBelowLimit'
    BY <1>11 DEF RefreshUnlisted, NextTurn, BudgetSpent
  <2>2. ~still
    BY <1>11 DEF RefreshUnlisted
  <2> QED
    BY <1>11, <2>1, <2>2 DEF RefreshUnlisted, NextTurn
<1>12. CASE RefreshNoEntry
  BY <1>12 DEF RefreshNoEntry, NextTurn, BudgetSpent, Dispatchable
<1>13. CASE RefreshMoved
  BY <1>13 DEF RefreshMoved, NextTurn, BudgetSpent, Dispatchable
<1>14. CASE RefreshSame
  BY <1>14 DEF RefreshSame, NextTurn, BudgetSpent, Dispatchable, Fail
<1>15. CASE Teardown
  BY <1>15 DEF Teardown
<1>16. CASE AfterRun
  BY <1>16 DEF AfterRun
<1>17. CASE Remove
  BY <1>17 DEF Remove
<1>18. CASE Exit
  <2>1. ~still' /\ still' \in BOOLEAN /\ ~entry' /\ entry' \in BOOLEAN
        /\ cancelled' \in BOOLEAN
    BY <1>18, Zenon DEF Exit, Idle
  <2> QED
    BY <1>18, <2>1 DEF Exit, Idle
<1>19. ASSUME NEW s \in States \cup {NotListed}, TrackerMove(s) PROVE RunInv'
  <2>1. ~still' /\ still' \in BOOLEAN
    BY <1>19, Zenon DEF TrackerMove
  <2> QED
    BY <1>19, <2>1 DEF TrackerMove, runVars
<1>20. CASE Cancel
  BY <1>20 DEF Cancel, runVars
<1>21. ASSUME NEW flag \in BOOLEAN, DropEntry(flag) PROVE RunInv'
  <2>1. /\ ~still' /\ still' \in BOOLEAN
        /\ ~entry' /\ entry' \in BOOLEAN
        /\ cancelled' \in BOOLEAN
    BY <1>21, Zenon DEF DropEntry
  <2> QED
    BY <1>21, <2>1 DEF DropEntry, runVars
<1>22. CASE Restart
  <2>1. ~still' /\ still' \in BOOLEAN /\ ~entry' /\ entry' \in BOOLEAN
        /\ cancelled' \in BOOLEAN
    BY <1>22, Zenon DEF Restart, Idle
  <2> QED
    BY <1>22, <2>1 DEF Restart, Idle
<1>23. CASE Work
  BY <1>23 DEF Work, runVars
<1>24. CASE Cleanup
  BY <1>24 DEF Cleanup, runVars
<1>25. CASE UNCHANGED vars
  BY <1>25 DEF vars, runVars
<1> QED
  BY <1>1, <1>2, <1>3, <1>4, <1>5, <1>6, <1>7, <1>8, <1>9, <1>10, <1>11,
     <1>12, <1>13, <1>14, <1>15, <1>16, <1>17, <1>18, <1>19, <1>20, <1>21,
     <1>22, <1>23, <1>24, <1>25 DEF Next, RunStep, Environment

LEMMA RunInvAlways == Spec => []RunInv
BY RunInvInit, RunInvNext, PTL DEF Spec

-----------------------------------------------------------------------------
(* The clone.                                                              *)

\* What git makes of a tree is a tree.
LEMMA TreesTyped ==
  ASSUME NEW t \in Tree, NEW b \in BOOLEAN
  PROVE  /\ FreshTree \in Tree /\ Deleted(t) \in Tree
         /\ CheckoutNew(t) \subseteq Tree
         /\ \A p \in Places : Push(t, p) \in Tree
         /\ Worked(t) \subseteq Tree
         /\ Synced(t, b) \subseteq Tree
<1>1. FreshTree \in Tree /\ Deleted(t) \in Tree
  BY DEF FreshTree, Deleted, Tree, Places
<1>2. CheckoutNew(t) \subseteq Tree
  <2>1. (IF t.ahead = t.at THEN "named" ELSE t.ahead)
          \in {"none", "lost"} \cup Places
    BY DEF Tree, Places
  <2>2. \A a \in {"none", "lost"} \cup Places :
          [at |-> "named", made |-> TRUE, ahead |-> a] \in Tree
    BY DEF Tree, Places
  <2> QED
    BY <2>1, <2>2, Zenon DEF CheckoutNew
<1>3. \A p \in Places : Push(t, p) \in Tree
  BY DEF Push, Tree, Places
<1>4. Worked(t) \subseteq Tree
  <2>1. t.at \in Places
    BY DEF Tree
  <2>2. /\ [t EXCEPT !.ahead = t.at] \in Tree
        /\ [t EXCEPT !.at = "other"] \in Tree
        /\ [t EXCEPT !.at = "named"] \in Tree
    BY DEF Tree, Places
  <2> QED
    BY <1>2, <1>3, <2>1, <2>2 DEF Worked
<1>5. \A target : ResetHard(t, target) \in Tree
  BY DEF ResetHard, Tree, Places
<1>6. Synced(t, b) \subseteq Tree
  BY <1>5 DEF Synced, MayFail
<1> QED
  BY <1>1, <1>2, <1>3, <1>4, <1>6

\* How a step treats the clone.
LEMMA TreeSteps ==
  ASSUME [Next]_vars
  PROVE  \/ tree' = tree /\ named' \in BOOLEAN \cup {named}
         \/ tree' \in {FreshTree, Deleted(tree)} /\ named' = named
         \/ /\ ~named /\ named'
            /\ \E t \in CheckoutNew(tree) : tree' \in {t, Push(t, "named")}
         \/ tree' \in Synced(tree, named) /\ named' = named
         \/ tree' \in Worked(tree) /\ named' = named
<1>1. CASE Prepare \/ PrepareFails
  <2>1. MakeBranch
    BY <1>1 DEF Prepare, PrepareFails
  <2> QED
    BY <2>1, Zenon DEF MakeBranch, MayFail, treeVars
<1>2. CASE StartTurn \/ NoPrompt
  <2>1. SyncTree
    BY <1>2 DEF StartTurn, NoPrompt
  <2> QED
    BY <2>1 DEF SyncTree
<1>3. CASE Work
  BY <1>3 DEF Work
<1>4. CASE Clone \/ Remove \/ Restart \/ Exit \/ Cleanup
  BY <1>4, Zenon DEF Clone, Remove, Restart, Exit, Cleanup, Idle
<1>5. CASE \E s \in States : Start(s)
  BY <1>5 DEF Start
<1>6. CASE \/ Reuse \/ MakeDirectory \/ CloneFails \/ StopCancelled
           \/ TurnSucceeds \/ TurnFails \/ Verified \/ VerificationFails
           \/ RefreshFails \/ RefreshInactive \/ RefreshUnlisted
           \/ RefreshNoEntry \/ RefreshMoved \/ RefreshSame \/ Teardown
           \/ AfterRun \/ (\E s \in States \cup {NotListed} : TrackerMove(s))
           \/ Cancel \/ (\E flag \in BOOLEAN : DropEntry(flag))
           \/ UNCHANGED vars
  <2>1. UNCHANGED treeVars
    BY <1>6, Zenon
       DEF Reuse, MakeDirectory, CloneFails, StopCancelled, TurnSucceeds,
           TurnFails, Verified, VerificationFails, RefreshFails,
           RefreshInactive, RefreshUnlisted, RefreshNoEntry, RefreshMoved,
           RefreshSame, Teardown, AfterRun, TrackerMove, Cancel, DropEntry, vars
  <2> QED
    BY <2>1 DEF treeVars
<1> QED
  BY <1>1, <1>2, <1>3, <1>4, <1>5, <1>6, Zenon DEF Next, RunStep, Environment

LEMMA TreeTypeAlways == Spec => []TreeTypeOK
<1>1. Init => TreeTypeOK
  <2> SUFFICES ASSUME Init
               PROVE  TreeTypeOK
    OBVIOUS
  <2>1. FreshTree \in Tree
    BY DEF FreshTree, Tree, Places
  <2>2. named \in BOOLEAN
    BY Zenon DEF Init
  <2> QED
    BY <2>1, <2>2, Zenon DEF Init, TreeTypeOK
<1>2. TreeTypeOK /\ [Next]_vars => TreeTypeOK'
  <2> SUFFICES ASSUME TreeTypeOK, [Next]_vars
               PROVE  TreeTypeOK'
    OBVIOUS
  <2>1. tree \in Tree /\ named \in BOOLEAN
    BY DEF TreeTypeOK
  <2>2. named' \in BOOLEAN
    BY <2>1, TreeSteps, Zenon
  <2>3. ASSUME NEW t \in CheckoutNew(tree), tree' \in {t, Push(t, "named")}
        PROVE  tree' \in Tree
    <3>1. t \in Tree
      BY <2>1, TreesTyped
    <3>2. Push(t, "named") \in Tree
      BY <3>1, TreesTyped DEF Places
    <3> QED
      BY <2>3, <3>1, <3>2
  <2>4. tree' \in Tree
    BY <2>1, <2>3, TreeSteps, TreesTyped, Zenon
  <2> QED
    BY <2>2, <2>4 DEF TreeTypeOK
<1> QED
  BY <1>1, <1>2, PTL DEF Spec

-----------------------------------------------------------------------------
\* An agent that leaves its issue where it is gets three turns at most,
\* whatever the budgets are.
THEOREM StagnationStops == Spec => []StagnantRunIsShort
<1>1. RunInv => StagnantRunIsShort
  BY DEF RunInv, StagnationCounted, StagnantRunIsShort
<1> QED
  BY <1>1, RunInvAlways, PTL

\* The state of a run and of its clone keep their types: turns within max_turns,
\* a stagnation counter that never passes its limit, commits that are nowhere,
\* on one branch or lost.
THEOREM TypesKept == Spec => []TypeOK
<1>1. RunInv /\ TreeTypeOK => TypeOK
  BY DEF RunInv, TypeOK
<1> QED
  BY <1>1, RunInvAlways, TreeTypeAlways, PTL

\* No turn is spent beyond max_turns (in TypeOK) or beyond the budget of the
\* column the last refresh saw.
THEOREM BudgetsKept == Spec => []BudgetsInv
<1>1. RunInv /\ TreeTypeOK => BudgetsInv
  BY DEF RunInv, TypeOK, BudgetsInv
<1> QED
  BY <1>1, RunInvAlways, TreeTypeAlways, PTL

\* A run that the scheduler continues because it ended well, and was not
\* cancelled, has spent a turn.
THEOREM ContinuationsCost == Spec => []ContinuationHadTurn
<1>1. RunInv => ContinuationHadTurn
  BY DEF RunInv
<1> QED
  BY <1>1, RunInvAlways, PTL

\* While its entry is on file a run works on the phase of the column the last
\* refresh saw.
THEOREM PhaseFollowsBoard == Spec => []PhaseIsCurrent
<1>1. RunInv => PhaseIsCurrent
  BY DEF RunInv, ColumnRemembered, Loop, PhaseIsCurrent
<1> QED
  BY <1>1, RunInvAlways, PTL

-----------------------------------------------------------------------------
(* A run lives the life of WorkerLife.                                     *)

\* The entry is the run's own, and a flag left behind is not another run's.
IdleIsFresh ==
  /\ entry => pc # "off"
  /\ pc = "off" => result = "ok" /\ ~cancelled

LifeInv == RunInv /\ IdleIsFresh

LEMMA IdleIsFreshNext == RunInv /\ IdleIsFresh /\ [Next]_vars => IdleIsFresh'
<1> SUFFICES ASSUME RunInv, IdleIsFresh, [Next]_vars PROVE IdleIsFresh'
  OBVIOUS
<1> USE DEF IdleIsFresh
<1>1. ASSUME pc' # "off" PROVE IdleIsFresh'
  BY <1>1
<1>2. CASE Idle
  BY <1>2 DEF Idle
<1>3. CASE UNCHANGED <<pc, entry, result, cancelled>>
  BY <1>3
<1>4. CASE RunStep
  BY <1>1, <1>2, <1>4 DEF RunStep, Reuse, MakeDirectory, Clone, CloneFails, Prepare,
     PrepareFails, StopCancelled, StartTurn, NoPrompt, TurnSucceeds, TurnFails,
     Verified, VerificationFails, RefreshFails, RefreshInactive, RefreshUnlisted,
     RefreshNoEntry, RefreshMoved, RefreshSame, Teardown, AfterRun, Remove, Exit,
     Fail, Break, NextTurn
<1>5. CASE Environment
  BY <1>1, <1>2, <1>3, <1>5 DEF Environment, Start, TrackerMove, Cancel, DropEntry,
     Restart, Cleanup, Work, runVars, entryVars
<1>6. CASE UNCHANGED vars
  BY <1>3, <1>6 DEF vars, runVars, entryVars
<1> QED
  BY <1>4, <1>5, <1>6 DEF Next

LEMMA LifeInvAlways == Spec => []LifeInv
<1>1. Init => IdleIsFresh
  BY DEF Init, IdleIsFresh
<1> QED
  BY <1>1, RunInvAlways, IdleIsFreshNext, PTL DEF Spec, LifeInv

\* The one run's stage, result and flag, as functions.
LEMMA LifeMoves ==
  ASSUME NEW from, NEW to, Stage = from, Stage' = to
  PROVE  Life!Pass("run", from, to)
BY DEF Life!Pass

LEMMA LifeRests ==
  /\ UNCHANGED result => UNCHANGED [w \in {"run"} |-> result]
  /\ UNCHANGED cancelled => UNCHANGED [w \in {"run"} |-> cancelled]
OBVIOUS

LEMMA LifeSettles ==
  ASSUME NEW o, result' = o
  PROVE  Life!Settle("run", o)
BY DEF Life!Settle

LEMMA LifeVanishes ==
  ASSUME Idle
  PROVE  Life!Vanish("run")
BY DEF Idle, Stage, Life!Vanish, Life!Settle

LEMMA LifeNext == LifeInv /\ [Next]_vars => [Life!Next]_(Life!vars)
<1> SUFFICES ASSUME LifeInv, [Next]_vars
             PROVE  Life!Next \/ UNCHANGED <<Stage, result, cancelled>>
  BY DEF Life!vars
<1> USE DEF LifeInv, RunInv, RunTypeOK
<1>1. CASE UNCHANGED <<pc, result, cancelled>>
  BY <1>1 DEF Stage
<1>2. ASSUME NEW s \in States, Start(s) PROVE Life!Begin("run")
  <2>1. Stage = "idle" /\ Stage' = "starting"
    BY <1>2 DEF Start, Stage
  <2>2. UNCHANGED result /\ UNCHANGED cancelled
    BY <1>2 DEF Start, IdleIsFresh
  <2> QED
    BY <2>1, <2>2, LifeMoves, LifeRests DEF Life!Begin
<1>3. CASE Reuse \/ MakeDirectory \/ Clone
  BY <1>3 DEF Reuse, MakeDirectory, Clone, Stage, entryVars
<1>4. CASE Prepare
  <2>1. Stage = "starting" /\ Stage' = "turns" /\ UNCHANGED <<result, cancelled>>
    BY <1>4 DEF Prepare, Stage, entryVars
  <2>2. Life!SetUp("run")
    BY <2>1, LifeMoves, LifeRests DEF Life!SetUp
  <2> QED
    BY <2>2 DEF Life!Next
<1>5. CASE CloneFails \/ PrepareFails
  <2>1. /\ Stage = "starting" /\ Stage' = "afterRun"
        /\ result' = "err" /\ UNCHANGED cancelled
    BY <1>5 DEF CloneFails, PrepareFails, Fail, Stage, entryVars
  <2>2. Life!SetUpFails("run")
    BY <2>1, LifeMoves, LifeRests, LifeSettles DEF Life!SetUpFails
  <2> QED
    BY <2>2 DEF Life!Next
\* The whole turn loop is one stage.
<1>6. ASSUME pc \in {"loop", "turn", "verify", "refresh"},
             pc' \in {"loop", "turn", "verify", "refresh", "teardown"},
             UNCHANGED <<result, cancelled>>
      PROVE  UNCHANGED <<Stage, result, cancelled>>
  BY <1>6 DEF Stage
<1>7. ASSUME pc \in {"loop", "turn", "verify", "refresh", "teardown"},
             pc' = "afterRun", result' \in {"ok", "err"}, UNCHANGED cancelled
      PROVE  Life!Next
  <2>1. Stage = "turns" /\ Stage' = "afterRun"
    BY <1>7 DEF Stage
  <2>2. PICK o \in {"ok", "err"} : result' = o
    BY <1>7
  <2>3. Life!TurnsOver("run")
    BY <1>7, <2>1, <2>2, LifeMoves, LifeRests, LifeSettles DEF Life!TurnsOver
  <2> QED
    BY <2>3 DEF Life!Next
<1>8. CASE \/ StopCancelled \/ StartTurn \/ TurnSucceeds \/ Verified
           \/ RefreshInactive \/ RefreshUnlisted \/ RefreshNoEntry \/ RefreshMoved
  BY <1>6, <1>8 DEF StopCancelled, StartTurn, TurnSucceeds, Verified,
     RefreshInactive, RefreshUnlisted, RefreshNoEntry, RefreshMoved, Break,
     NextTurn, entryVars
<1>9. CASE NoPrompt \/ TurnFails \/ VerificationFails \/ RefreshFails \/ Teardown
  BY <1>7, <1>9 DEF NoPrompt, TurnFails, VerificationFails, RefreshFails,
     Teardown, Fail, entryVars
<1>10. CASE RefreshSame
  BY <1>6, <1>7, <1>10 DEF RefreshSame, Fail, NextTurn
<1>11. CASE AfterRun
  <2>1. /\ Stage = "afterRun"
        /\ Stage' = IF cancelled THEN "removing" ELSE "exiting"
        /\ UNCHANGED <<result, cancelled>>
    BY <1>11 DEF AfterRun, Stage, entryVars
  <2>2. Life!HookOver("run")
    BY <2>1, LifeMoves, LifeRests DEF Life!HookOver
  <2> QED
    BY <2>2 DEF Life!Next
<1>12. CASE Remove
  <2>1. Stage = "removing" /\ Stage' = "exiting" /\ UNCHANGED <<result, cancelled>>
    BY <1>12 DEF Remove, Stage, entryVars
  <2>2. Life!Remove("run")
    BY <2>1, LifeMoves, LifeRests DEF Life!Remove
  <2> QED
    BY <2>2 DEF Life!Next
<1>13. CASE Exit
  <2>1. Life!Exit("run")
    BY <1>13, LifeVanishes DEF Exit, Stage, Life!Exit
  <2> QED
    BY <2>1 DEF Life!Next
<1>14. CASE Restart
  <2>1. Stage # "idle"
    BY <1>14 DEF Restart, Stage
  <2>2. Life!Crash("run")
    BY <1>14, <2>1, LifeVanishes DEF Restart, Life!Crash
  <2> QED
    BY <2>2 DEF Life!Next
\* A flag is set while the entry is on file, and so while the run is.
<1>15. ASSUME entry, UNCHANGED <<pc, result>>, cancelled' = TRUE PROVE Life!Next
  <2>1. Stage # "idle" /\ UNCHANGED Stage
    BY <1>15 DEF IdleIsFresh, Stage
  <2>2. Life!Stop({"run"})
    BY <1>15, <2>1 DEF Life!Stop
  <2> QED
    BY <2>2 DEF Life!Next
<1>16. CASE Cancel \/ \E flag \in BOOLEAN : DropEntry(flag)
  <2>1. entry /\ UNCHANGED <<pc, result>> /\ cancelled' \in {cancelled, TRUE}
    BY <1>16 DEF Cancel, DropEntry, runVars
  <2> QED
    BY <1>1, <1>15, <2>1
<1>17. CASE Work \/ Cleanup \/ (\E s \in States \cup {NotListed} : TrackerMove(s)) \/ UNCHANGED vars
  BY <1>1, <1>17 DEF Work, Cleanup, TrackerMove, vars, runVars, entryVars
<1>18. CASE RunStep
  BY <1>3, <1>4, <1>5, <1>8, <1>9, <1>10, <1>11, <1>12, <1>13, <1>18 DEF RunStep
<1>19. CASE Environment
  BY <1>2, <1>14, <1>16, <1>17, <1>19 DEF Environment, Life!Next
<1> QED
  BY <1>17, <1>18, <1>19 DEF Next

\* Whichever of its many ways out a run takes, crashes included, it lives the
\* life that Orchestrator gives it.
THEOREM RunsLive == Spec => ImplementsWorkerLife
<1>1. Init => Life!Init
  BY DEF Init, Life!Init, Stage
<1> QED
  BY <1>1, LifeInvAlways, LifeNext, PTL DEF Spec, ImplementsWorkerLife, Life!Spec
=============================================================================
