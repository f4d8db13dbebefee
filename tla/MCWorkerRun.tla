---------------------------- MODULE MCWorkerRun ----------------------------
(***************************************************************************)
(* WorkerRun on a small board: "todo" has no budget of its own, "review"   *)
(* has one below max_turns.                                                *)
(***************************************************************************)
EXTENDS WorkerRun

MCStateTurns == [s \in States |-> IF s = "review" THEN 2 ELSE 0]
=============================================================================
