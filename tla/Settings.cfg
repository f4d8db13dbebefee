\* Two edits, before the start or after it; u32 has five bits.
CONSTANTS
  Bits = 5
  Numbers <- MCNumbers
  Installed = {"claude", "opencode"}
  MaxEdits = 2
SPECIFICATION Spec
INVARIANTS
  SettingsInv
  OverridesStayInTheirPhase
  SecretsAreAskedFor
CHECK_DEADLOCK FALSE
