SPECIFICATION FairSpec
CONSTANTS
  Size = 3
  Inputs <- MCInputs
  Output <- MCOutput
  ReadMax = 2
INVARIANTS
  TypeOK
  ReceiverKeepsOrder
  TransmitterKeepsOrder
  NoLostWakeup
PROPERTIES
  HandlerProgress
  ReceiverWakesDriver
  TransmitterDrains
  HandlerReturns
