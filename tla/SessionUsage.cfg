\* Two runs and two turns between them; the second turn goes on in the session
\* of the first, so that it may report usage both before and after its step starts.
CONSTANTS
  MaxRuns = 2
  MaxTurns = 2
  MaxSteps = 1
  MaxTokens = 2
  Cap = 1
SPECIFICATION Spec
INVARIANTS
  UsageInv
  NeverCountedTwice
  LastStepIsCounted
\* the issue is done
CHECK_DEADLOCK FALSE
