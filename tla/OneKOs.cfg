SPECIFICATION Spec
CONSTANTS
  FreeRams = {24, 240}
  ShellSizes = {1, 2}
  MenuBuf = 4
  LineBuf = 12
  INT_MAX = 127
  Typed <- Lines
INVARIANTS
  BootTablesAlive
  AddressSpacesSeparate
  ShellMapped
  LinesAsTyped
  CalculatorCorrect
PROPERTIES
  LineAnswered
  ShellComesUp
