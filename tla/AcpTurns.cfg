CONSTANTS
  MaxTurns = 2
  MaxAsks = 2
  Modes = {"default", "plan"}
  Asks <- MCAsks
SPECIFICATION FairSpec
INVARIANTS
  SessionInv
  AnswersAreOwn
PROPERTIES
  CancelledTurnsFail
  TurnsReturn
CHECK_DEADLOCK FALSE
