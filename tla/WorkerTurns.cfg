\* Every way through the turn loop, five turns at most.
CONSTANTS
  States = {"todo", "review", "limbo", "done"}
  Active = {"todo", "review"}
  Terminal = {"done"}
  MaxTurns = 5
  StateTurns <- MCStateTurns
  InProgress = "todo"
  NotListed = NotListed
SPECIFICATION FairSpec
INVARIANTS
  StagnantRunIsShort
  BudgetsInv
  PhaseIsCurrent
PROPERTIES
  RunEnds
  ImplementsWorkerLife
