\* Two issues compete for one slot; stalled runs are left alone, and no retry
\* is deleted that is being served.
CONSTANTS
  i1 = i1
  i2 = i2
  Issues = {i1, i2}
  Workers = {w1, w2}
  States = {"todo", "done"}
  Active = {"todo"}
  Terminal = {"done"}
  Rank <- MCRank
  Blockers <- NoBlockers
  MaxConcurrent = 1
  StateLimit <- DefaultLimits
  MaxAttempts = 2
  StallDetection = TRUE
  OperatorOps = {"cancel", "delete"}
  Removable = {i1, i2}
  CleanupFailed = FALSE
  Prefixed = {}
  NoIssue = NoIssue
  NoWorker = NoWorker
  NotListed = NotListed
SPECIFICATION CalmSpec
SYMMETRY WorkerSymmetry
INVARIANTS
  ClaimsAccounted
  StatusIsFaithful
  LiveWithinCap
PROPERTIES
  ImplementsIssueClaims
