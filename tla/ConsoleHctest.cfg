SPECIFICATION Spec
CONSTANTS
  Size = 3
  Vcpu <- OneVcpu
  Programs <- HctestProgram
  Inputs <- NothingTyped
  ReadMax = 3
INVARIANT CleanExit
