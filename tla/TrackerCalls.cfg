\* Two callers, pages of one item, three places.
CONSTANTS
  Callers = {"c1", "c2"}
  Issues = {1, 2, 3}
  Ours = {1, 2}
  Addressable = {1, 3}
  Places = {1, 2, 3, 4}
  Start <- MCStart
  Options = {1}
  Names = {"todo", "done"}
  StateQueries = {{}, {"todo"}}
  IdQueries = {{}, {1}}
  StartNames <- MCNames
  OwnerIsOrg = TRUE
  PageSize = 1
  MaxRetries = 1
  MaxCalls = 2
  MaxEdits = 1
  MaxExhausted = 1
SPECIFICATION FairSpec
INVARIANTS
  CallsInv
  FetchIsFaithful
  OkMeansDone
PROPERTIES
  CallsReturn
CHECK_DEADLOCK FALSE
