-------------------------- MODULE VcpuExitProofs --------------------------
(***************************************************************************)
(* Proofs about VcpuExit, for every single-step budget and every number of *)
(* exits: what handle_vm_exit keeps in step with KVM.                      *)
(***************************************************************************)
EXTENDS VcpuExit, TLAPS

(* A single step is one exit: singlestep_exits never overtakes exit_count, *)
(* which is what bounds it.                                                *)
StepsAreExits == singlestep_exits <= exit_count

(* The inductive invariant.                                                *)
StepInv == TypeOK /\ StepsAreExits /\ SteppingMatchesBudget

LEMMA StepInit == Init => StepInv
<1> SUFFICES ASSUME Init PROVE StepInv
  OBVIOUS
<1>1. /\ exit_count \in 0..MaxExits /\ singlestep_exits \in 0..MaxExits
      /\ singlestep_remaining \in 0..StepBudget
      /\ StepsAreExits
  BY StepBudgetAssumption, BoundAssumption DEF Init, StepsAreExits
<1>2. (singlestep_remaining > 0) \in BOOLEAN
  BY <1>1, StepBudgetAssumption
<1>3. stepping \in BOOLEAN
  BY <1>2, Zenon DEF Init
<1>4. SteppingMatchesBudget
  BY Zenon DEF Init, SteppingMatchesBudget
<1>5. QED
  BY <1>1, <1>3, <1>4, Zenon DEF Init, StepInv, TypeOK

(* The resume at the top of handle_vm_exit, which every exit but DEBUG     *)
(* runs through, leaves KVM and the budget in agreement.                   *)
LEMMA ResumeKeeps ==
  ASSUME StepInv, Exit, ResumeStepping
  PROVE  /\ linux_guest' \in BOOLEAN /\ use_paging' \in BOOLEAN
         /\ exit_count' \in 0..MaxExits
         /\ singlestep_remaining' \in 0..StepBudget
         /\ singlestep_exits' \in 0..MaxExits
         /\ singlestep_paused' \in BOOLEAN /\ stepping' \in BOOLEAN /\ ioctl_failed' \in BOOLEAN
         /\ StepsAreExits'
         /\ SteppingMatchesBudget'
<1> USE DEF StepInv, Exit, ResumeStepping, TypeOK
<1>1. exit_count' \in 0..MaxExits /\ exit_count' = exit_count + 1
  BY BoundAssumption
<1>2. StepsAreExits'
  BY <1>1, BoundAssumption DEF StepsAreExits
<1>3. stepping' \in BOOLEAN /\ ioctl_failed' \in BOOLEAN
  BY DEF set_guest_singlestep, kvm
<1>4. SteppingMatchesBudget'
  BY StepBudgetAssumption DEF SteppingMatchesBudget, set_guest_singlestep, kvm
<1>5. QED
  BY <1>1, <1>2, <1>3, <1>4 DEF config

(* Every step of the vCPU thread keeps the invariant.                      *)
LEMMA StepStep == StepInv /\ [Next]_vars => StepInv'
<1> SUFFICES ASSUME StepInv, [Next]_vars PROVE StepInv'
  OBVIOUS
<1>1. CASE ExitIO
  BY <1>1, ResumeKeeps DEF ExitIO, Continues, Stops, Fails, StepInv, TypeOK
<1>2. CASE ExitHltOrShutdown
  BY <1>2, ResumeKeeps DEF ExitHltOrShutdown, Stops, StepInv, TypeOK
<1>3. CASE ExitIgnored
  BY <1>3, ResumeKeeps DEF ExitIgnored, Continues, StepInv, TypeOK
<1>4. CASE ExitFatal
  BY <1>4, ResumeKeeps DEF ExitFatal, Fails, StepInv, TypeOK
<1>5. CASE ExitDebug
  <2> USE DEF ExitDebug, StepInv, TypeOK
  <2>1. /\ exit_count' \in 0..MaxExits /\ exit_count' = exit_count + 1
        /\ UNCHANGED <<linux_guest, use_paging, running, thread>>
    BY <1>5, BoundAssumption DEF Exit, Continues, config
  <2>2. CASE singlestep_remaining > 0 /\ singlestep_exits' = singlestep_exits + 1 /\ StepPauses
    <3>1. singlestep_exits' \in 0..MaxExits /\ StepsAreExits'
      BY <2>1, <2>2, BoundAssumption DEF StepsAreExits
    <3>2. TypeOK'
      BY <2>1, <2>2, <3>1, Zenon DEF StepPauses, set_guest_singlestep
    <3>3. SteppingMatchesBudget'
      BY <2>2 DEF StepPauses, set_guest_singlestep, SteppingMatchesBudget
    <3>4. QED
      BY <3>1, <3>2, <3>3
  <2>3. CASE singlestep_remaining > 0 /\ singlestep_exits' = singlestep_exits + 1 /\ StepCharged
    <3>1. /\ singlestep_remaining' \in 0..StepBudget
          /\ (singlestep_remaining' > 0) <=> (singlestep_remaining # 1)
      BY <2>3, StepBudgetAssumption DEF StepCharged
    <3>2. singlestep_exits' \in 0..MaxExits /\ StepsAreExits'
      BY <2>1, <2>3, BoundAssumption DEF StepsAreExits
    <3>3. stepping' \in BOOLEAN /\ ioctl_failed' \in BOOLEAN /\ singlestep_paused' \in BOOLEAN
      BY <2>3, Zenon DEF StepCharged, set_guest_singlestep, kvm
    <3>4. SteppingMatchesBudget'
      <4>1. stepping
        BY <1>5
      <4>2. CASE singlestep_remaining = 1
        <5>1. ~(singlestep_remaining' > 0)
          BY <3>1, <4>2
        <5>2. ~stepping' \/ ioctl_failed'
          BY <2>3, <4>2 DEF StepCharged, set_guest_singlestep
        <5>3. QED
          BY <5>1, <5>2, Zenon DEF SteppingMatchesBudget
      <4>3. CASE singlestep_remaining # 1
        <5>1. singlestep_remaining > 0 /\ singlestep_remaining' > 0
          BY <2>3, <3>1, <4>3
        <5>2. UNCHANGED <<stepping, ioctl_failed, singlestep_paused>>
          BY <2>3, <4>3 DEF StepCharged, kvm
        <5>3. QED
          BY <4>1, <5>1, <5>2, Zenon DEF SteppingMatchesBudget
      <4>4. QED
        BY <4>2, <4>3, Zenon
    <3>5. QED
      BY <2>1, <3>1, <3>2, <3>3, <3>4, Zenon
  <2>4. CASE singlestep_remaining = 0 /\ UNCHANGED step
    BY <2>1, <2>4, BoundAssumption DEF step, kvm, StepsAreExits, SteppingMatchesBudget
  <2>5. QED
    BY <1>5, <2>2, <2>3, <2>4
<1>6. CASE KvmRunFails
  BY <1>6 DEF KvmRunFails, config, step, kvm, StepInv, TypeOK, StepsAreExits, SteppingMatchesBudget
<1>7. CASE LoopEnds
  BY <1>7 DEF LoopEnds, config, step, kvm, StepInv, TypeOK, StepsAreExits, SteppingMatchesBudget
<1>8. CASE UNCHANGED vars
  BY <1>8 DEF vars, config, step, kvm, StepInv, TypeOK, StepsAreExits, SteppingMatchesBudget
<1>9. QED
  BY <1>1, <1>2, <1>3, <1>4, <1>5, <1>6, <1>7, <1>8 DEF Next, Rest

LEMMA StepInvariant == Spec => []StepInv
  BY StepInit, StepStep, PTL DEF Spec

(* The counters of a vCPU context stay in range: the budget never drops    *)
(* below zero, and a step is charged only as part of a counted exit.       *)
THEOREM TypeCorrect == Spec => []TypeOK
<1>1. StepInv => TypeOK
  BY DEF StepInv
<1>2. QED
  BY <1>1, StepInvariant, PTL

(* As long as every KVM_SET_GUEST_DEBUG succeeds, KVM single-steps exactly *)
(* while handle_vm_exit has budget left and is not paused at a REP string  *)
(* instruction.                                                            *)
THEOREM SteppingFollowsBudget == Spec => []SteppingMatchesBudget
<1>1. StepInv => SteppingMatchesBudget
  BY DEF StepInv
<1>2. QED
  BY <1>1, StepInvariant, PTL

(* Even when KVM_SET_GUEST_DEBUG fails, no exit adds to the budget, and    *)
(* none turns single-stepping on after the budget is used up.              *)
THEOREM BudgetIsFinal == Spec => NoStepBeyondBudget
<1> DEFINE Kept == /\ singlestep_remaining' <= singlestep_remaining
                   /\ singlestep_remaining = 0 /\ stepping' => stepping
<1>1. ASSUME StepInv, [Next]_vars PROVE [Kept]_vars
  <2> SUFFICES ASSUME Next PROVE Kept
    BY <1>1
  <2>0. singlestep_remaining \in Nat /\ stepping \in BOOLEAN
    BY <1>1, StepBudgetAssumption DEF StepInv, TypeOK
  <2>1. CASE ResumeStepping
    BY <2>0, <2>1 DEF ResumeStepping, set_guest_singlestep, kvm
  <2>2. CASE ExitDebug
    <3>1. singlestep_remaining' <= singlestep_remaining
      <4>1. \/ singlestep_remaining' = singlestep_remaining
            \/ singlestep_remaining' = singlestep_remaining - 1
        BY <2>2, Zenon DEF ExitDebug, StepPauses, StepCharged, step
      <4>2. QED
        BY <2>0, <4>1
    <3>2. stepping
      BY <2>2 DEF ExitDebug
    <3>3. QED
      BY <3>1, <3>2
  <2>3. CASE UNCHANGED step
    BY <2>0, <2>3 DEF step, kvm
  <2>4. QED
    BY <2>1, <2>2, <2>3
    DEF Next, ExitIO, ExitHltOrShutdown, ExitIgnored, ExitFatal, KvmRunFails, LoopEnds, Rest, vars
<1>2. QED
  BY <1>1, StepInvariant, PTL DEF Spec, NoStepBeyondBudget
=============================================================================
