--------------------------- MODULE MCOrchestrator ---------------------------
(***************************************************************************)
(* Orchestrator on small boards.  The .cfg files pick among these values.  *)
(***************************************************************************)
EXTENDS StatusSurface, TLC

CONSTANTS i1, i2

MCRank == (i1 :> 1) @@ (i2 :> 2)
MCRankOne == (i1 :> 1)

NoBlockers == [i \in Issues |-> {}]
\* the second issue is blocked by the first
MCBlockers == (i1 :> {}) @@ (i2 :> {i1})

\* no per-state limit is configured: it defaults to the global cap
DefaultLimits == [s \in States |-> MaxConcurrent]

WorkerSymmetry == Permutations(Workers)
=============================================================================
