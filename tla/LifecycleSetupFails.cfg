SPECIFICATION Spec
CONSTANTS
  MAX_VCPUS = 2
  Modes <- GuestModes
  EarlySetupMayFail = TRUE
  LateSpawnMayFail = FALSE
INVARIANT TerminalRestored
