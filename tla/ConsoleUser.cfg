SPECIFICATION FairSpec
CONSTANTS
  Size = 3
  Vcpu <- TwoVcpus
  Programs <- UserPrograms
  Inputs <- TypedLines
  ReadMax = 3
INVARIANTS
  TypeOK
  NothingLostOrRepeated
PROPERTY BufferedCharDelivered
