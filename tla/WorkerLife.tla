----------------------------- MODULE WorkerLife -----------------------------
(***************************************************************************)
(* The life of a worker run, as its scheduler relies on it: it is set up,  *)
(* takes its turns, runs the after_run hook, deletes its workspace if it   *)
(* was told to stop before that, and is gone.  Nobody can take back that   *)
(* it was told, and its result is settled when its turns are over.         *)
(***************************************************************************)
CONSTANTS
  Workers,
  MayCrash  \* the daemon may end under its workers

VARIABLES stage, outcome, stopped

vars == <<stage, outcome, stopped>>

Init ==
  /\ stage = [w \in Workers |-> "idle"]
  /\ outcome = [w \in Workers |-> "ok"]
  /\ stopped = [w \in Workers |-> FALSE]

Pass(w, from, to) ==
  /\ stage[w] = from
  /\ stage' = [stage EXCEPT ![w] = to]

Settle(w, o) == outcome' = [outcome EXCEPT ![w] = o]

Vanish(w) ==
  /\ stage' = [stage EXCEPT ![w] = "idle"]
  /\ Settle(w, "ok")
  /\ stopped' = [stopped EXCEPT ![w] = FALSE]

Begin(w) == Pass(w, "idle", "starting") /\ UNCHANGED <<outcome, stopped>>

SetUp(w) == Pass(w, "starting", "turns") /\ UNCHANGED <<outcome, stopped>>

SetUpFails(w) ==
  /\ Pass(w, "starting", "afterRun")
  /\ Settle(w, "err")
  /\ UNCHANGED stopped

TurnsOver(w) ==
  /\ Pass(w, "turns", "afterRun")
  /\ \E o \in {"ok", "err"} : Settle(w, o)
  /\ UNCHANGED stopped

HookOver(w) ==
  /\ Pass(w, "afterRun", IF stopped[w] THEN "removing" ELSE "exiting")
  /\ UNCHANGED <<outcome, stopped>>

Remove(w) == Pass(w, "removing", "exiting") /\ UNCHANGED <<outcome, stopped>>

Exit(w) == stage[w] = "exiting" /\ Vanish(w)

Crash(w) == MayCrash /\ stage[w] # "idle" /\ Vanish(w)

\* Some workers that are at work are told to stop, all in one step.
Stop(S) ==
  /\ \A w \in S : stage[w] # "idle"
  /\ stopped' = [w \in Workers |-> stopped[w] \/ w \in S]
  /\ UNCHANGED <<stage, outcome>>

Next ==
  \/ \E w \in Workers :
       \/ Begin(w) \/ SetUp(w) \/ SetUpFails(w) \/ TurnsOver(w)
       \/ HookOver(w) \/ Remove(w) \/ Exit(w) \/ Crash(w)
  \/ \E S \in SUBSET Workers : Stop(S)

Spec == Init /\ [][Next]_vars
=============================================================================
