SPECIFICATION Spec
CONSTANTS
  StepBudget <- MCStepBudget
  ExitLimit <- MCExitLimit
  MaxExits <- MCMaxExits
INVARIANTS
  TypeOK
  SteppingMatchesBudget
PROPERTY NoStepBeyondBudget
