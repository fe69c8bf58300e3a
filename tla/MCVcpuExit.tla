---------------------------- MODULE MCVcpuExit ----------------------------
(* VcpuExit with a budget of a few single-steps.  MaxExits lets a run use  *)
(* the budget up, with a pause before and after every charged step.        *)
EXTENDS VcpuExit

MCStepBudget == 4
MCMaxExits == 4 * MCStepBudget + 2
MCExitLimit == 3
=============================================================================
