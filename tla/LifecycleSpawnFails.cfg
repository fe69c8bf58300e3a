SPECIFICATION Spec
CONSTANTS
  MAX_VCPUS = 2
  Modes <- GuestModes
  EarlySetupMayFail = FALSE
  LateSpawnMayFail = TRUE
INVARIANT LiveThreadsOwnResources
