\* Two runs and two numbers: each turn may get one that was used before.
CONSTANTS
  Workers = {r1, r2}
  Pids = {p1, p2}
  NoPid = NoPid
SPECIFICATION ProcFairSpec
INVARIANTS
  AgentsAreOwned
  RegistryIsCurrent
PROPERTIES
  CancelEndsRun
\* the daemon exits
CHECK_DEADLOCK FALSE
