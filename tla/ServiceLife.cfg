\* One issue of any repository and two runs of it, or one after a crash.
CONSTANTS
  Issues = {i1}
  Columns = {"todo", "review"}
  Contents <- MCContents
  Prefixed = {i1}
  MaxRuns = 2
  MaxEdits = 2
  MaxTroubles = 1
SPECIFICATION FairSpec
INVARIANTS
  ServiceInv
  StopsAreCalledFor
PROPERTIES
  
  LeftoversAreSwept
  LastEditIsUsed
\* a run may be the last
CHECK_DEADLOCK FALSE
