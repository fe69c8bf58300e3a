SPECIFICATION Spec
CONSTANTS
  Configs <- DocumentedConfigs
  BinarySizes <- Sizes
  BzImages <- Images
  Cmdlines <- Lengths
  Initrds <- Files
INVARIANTS
  ImageIntact
  RunsOwnGuest
  IsolatedMemory
  StartsAtEntry
  BootInfoFound
  InitrdPlaced
  MemoryMapTrue
  CommandLineEnds
