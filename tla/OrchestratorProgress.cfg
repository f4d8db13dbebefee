\* One issue, two worker slots, stalls and a limbo column, an operator who
\* removes retries: do entries and retries find their end?
CONSTANTS
  i1 = i1
  i2 = i2
  Issues = {i1}
  Workers = {w1, w2}
  States = {"todo", "done", "limbo"}
  Active = {"todo"}
  Terminal = {"done"}
  Rank <- MCRankOne
  Blockers <- NoBlockers
  MaxConcurrent = 1
  StateLimit <- DefaultLimits
  MaxAttempts = 1
  StallDetection = TRUE
  OperatorOps = {"delete"}
  Removable = {i1}
  CleanupFailed = FALSE
  Prefixed = {}
  NoIssue = NoIssue
  NoWorker = NoWorker
  NotListed = NotListed
SPECIFICATION FairSpec
INVARIANTS
  EntriesInv
PROPERTIES
  InactiveIsReleased
  RetryIsServed
  ImplementsWorkerLife
