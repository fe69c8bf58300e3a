SPECIFICATION Spec
CONSTANTS
  StepBudget <- MCStepBudget
  ExitLimit <- MCExitLimit
  MaxExits <- MCMaxExits
INVARIANT SafetyLimit
