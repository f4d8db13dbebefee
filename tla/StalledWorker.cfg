\* Two slots and stall detection: is a worker that is given up told to stop?
CONSTANTS
  i1 = i1
  i2 = i2
  Issues = {i1, i2}
  Workers = {w1, w2}
  States = {"todo", "done"}
  Active = {"todo"}
  Terminal = {"done"}
  Rank <- MCRank
  Blockers <- NoBlockers
  MaxConcurrent = 2
  StateLimit <- DefaultLimits
  MaxAttempts = 1
  StallDetection = TRUE
  OperatorOps = {}
  Removable = {i1, i2}
  CleanupFailed = FALSE
  Prefixed = {}
  NoIssue = NoIssue
  NoWorker = NoWorker
  NotListed = NotListed
SPECIFICATION Spec
SYMMETRY WorkerSymmetry
INVARIANTS
  DroppedWorkerIsSignalled
