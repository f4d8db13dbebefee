\* Two issues, the second blocked by the first, a slot for each, an operator,
\* the cleanup that failed at startup.  Only the first may leave the board.
CONSTANTS
  i1 = i1
  i2 = i2
  Issues = {i1, i2}
  Workers = {w1, w2}
  States = {"todo", "done"}
  Active = {"todo"}
  Terminal = {"done"}
  Rank <- MCRank
  Blockers <- MCBlockers
  MaxConcurrent = 2
  StateLimit <- DefaultLimits
  MaxAttempts = 1
  StallDetection = FALSE
  OperatorOps = {"cancel"}
  Removable = {i1}
  CleanupFailed = TRUE
  Prefixed = {i2}
  NoIssue = NoIssue
  NoWorker = NoWorker
  NotListed = NotListed
SPECIFICATION Spec
SYMMETRY WorkerSymmetry
INVARIANTS
  OneWorkerPerIssue
PROPERTIES
  WorkspaceInUseIsKept
