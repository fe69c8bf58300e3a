SPECIFICATION FairSpec
CONSTANTS
  MAX_VCPUS = 3
  Modes <- AllModes
  EarlySetupMayFail = FALSE
  LateSpawnMayFail = FALSE
INVARIANTS
  TypeOK
  LiveThreadsOwnResources
  NoLeak
  TerminalRestored
  StdinFlagsRestored
  SuccessMeansAllRan
  JoinsEnd
PROPERTY MainReturns
