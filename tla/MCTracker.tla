----------------------------- MODULE MCTracker -----------------------------
(***************************************************************************)
(* Tracker on a board of three items, one of another repository.           *)
(***************************************************************************)
EXTENDS Tracker, TLC

\* the foreign item 3 is between the two issues
MCStart == (1 :> 1) @@ (2 :> 3) @@ (3 :> 2)

\* the one column, which can be renamed to the name that is free
MCNames == 1 :> "todo"
=============================================================================
