\* Two runs of an issue and two turns: of one run, or one of each.
CONSTANTS
  MaxRuns = 2
  Kinds = {"opencode", "claude", "pidev", "mock"}
  MaxTurns = 2
  MaxLines = 2
  Complaints = {{"rate limit", "unauthorized"}, {"account required"},
                {"permission denied", "--dangerously-skip-permissions"}}
SPECIFICATION FairSpec
INVARIANTS
  TurnsInv
  VerdictIsTheAgents
PROPERTIES
  TurnsReturn
\* the runs end
CHECK_DEADLOCK FALSE
