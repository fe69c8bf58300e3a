----------------------------- MODULE VcpuExit -----------------------------
(***************************************************************************)
(* One vCPU thread of src/kvm-vmm-x86/src/main.c: the KVM_RUN loop of      *)
(* vcpu_thread, the dispatch of handle_vm_exit on the exit reason, and the *)
(* single-step budget used to trace an early Linux boot.                   *)
(*                                                                         *)
(* KVM is external: it may return from KVM_RUN with any exit reason, but   *)
(* with KVM_EXIT_DEBUG only while single-stepping is enabled in it.  The   *)
(* effects of the port handlers are modules HypercallConsole and UartCom1; *)
(* here they are handled, ask the vCPU to stop, or fail.                   *)
(***************************************************************************)
EXTENDS Integers

CONSTANTS
  StepBudget,    \* single-steps granted by --debug 3 (2000 in the code)
  ExitLimit,     \* the safety limit on exits (100000 in the code)
  MaxExits       \* bound of the model: exits explored

ASSUME StepBudgetAssumption == StepBudget \in Nat
ASSUME BoundAssumption == ExitLimit \in Nat /\ MaxExits \in Nat

VARIABLES
  linux_guest,           \* a Linux guest; then use_paging is false
  use_paging,
  running,
  thread,                \* "loop" or "done"
  exit_count,
  singlestep_remaining,
  singlestep_paused,
  singlestep_exits,
  stepping,              \* KVM: single-stepping is enabled for this vCPU
  ioctl_failed           \* history: a KVM_SET_GUEST_DEBUG failed

config == <<linux_guest, use_paging>>
kvm == <<stepping, ioctl_failed>>
step == <<singlestep_remaining, singlestep_paused, singlestep_exits, kvm>>
vars == <<config, running, thread, exit_count, step>>

\* main() grants the budget only with --linux at the highest debug level,
\* and gives up (module VmmLifecycle) if it cannot enable single-stepping.
Init ==
  /\ linux_guest \in BOOLEAN
  /\ use_paging \in BOOLEAN /\ (linux_guest => ~use_paging)
  /\ running = TRUE /\ thread = "loop" /\ exit_count = 0
  /\ singlestep_remaining \in {0, StepBudget}
  /\ (singlestep_remaining > 0 => linux_guest)
  /\ singlestep_paused = FALSE /\ singlestep_exits = 0
  /\ stepping = (singlestep_remaining > 0) /\ ioctl_failed = FALSE

\* The callers below ignore a failure, which leaves KVM as it was.
set_guest_singlestep(enable) ==
  \/ stepping' = enable /\ UNCHANGED ioctl_failed
  \/ ioctl_failed' = TRUE /\ UNCHANGED stepping

-----------------------------------------------------------------------------
(* handle_vm_exit.                                                         *)

\* KVM_RUN returned and handle_vm_exit counted the exit.
Exit ==
  /\ thread = "loop" /\ running
  /\ exit_count < MaxExits /\ exit_count' = exit_count + 1
  /\ UNCHANGED config

\* Mutant: the resume forgets that the budget may be used up.
ResumeAlways ==
  /\ singlestep_paused' = FALSE
  /\ \/ singlestep_paused /\ set_guest_singlestep(TRUE)
     \/ ~singlestep_paused /\ UNCHANGED kvm
  /\ UNCHANGED <<singlestep_remaining, singlestep_exits>>

\* Mutant: an exit clears the pause without enabling single-stepping again.
ResumeForgetsKvm ==
  /\ singlestep_paused' = FALSE
  /\ UNCHANGED <<singlestep_remaining, singlestep_exits, kvm>>

\* Every exit other than DEBUG ends a pause while budget remains.
ResumeStepping ==
  /\ singlestep_paused' = FALSE
  /\ \/ singlestep_paused /\ singlestep_remaining > 0 /\ set_guest_singlestep(TRUE)
     \/ ~(singlestep_paused /\ singlestep_remaining > 0) /\ UNCHANGED kvm
  /\ UNCHANGED <<singlestep_remaining, singlestep_exits>>

\* return 0 with running unchanged: the loop runs the guest again.
Continues == UNCHANGED <<running, thread>>

\* running = false; return 0
Stops == running' = FALSE /\ UNCHANGED thread

\* return -1: vcpu_thread leaves its loop.
Fails == thread' = "done" /\ UNCHANGED running

\* A port access: handled, HC_EXIT, or an unknown hypercall or a failed
\* KVM_GET_REGS.  A Linux guest's accesses to the hypercall port are ignored.
ExitIO ==
  Exit /\ ResumeStepping /\ (Continues \/ (~linux_guest /\ (Stops \/ Fails)))

ExitHltOrShutdown == Exit /\ ResumeStepping /\ Stops

\* MMIO (reads answer zero), IRQ_WINDOW_OPEN, INTR.
ExitIgnored == Exit /\ ResumeStepping /\ Continues

\* FAIL_ENTRY, INTERNAL_ERROR, any other reason.
ExitFatal == Exit /\ ResumeStepping /\ Fails

\* The instruction at RIP is a REP string operation: single-stepping stops,
\* the step is not charged.
StepPauses ==
  /\ ~singlestep_paused
  /\ singlestep_paused' = TRUE
  /\ set_guest_singlestep(FALSE)
  /\ UNCHANGED singlestep_remaining

\* Any other instruction, or the registers could not be read.
StepCharged ==
  /\ singlestep_remaining' = singlestep_remaining - 1
  /\ \/ singlestep_remaining = 1 /\ set_guest_singlestep(FALSE)
     \/ singlestep_remaining # 1 /\ UNCHANGED kvm
  /\ UNCHANGED singlestep_paused

\* Mutant: the budget is not tested first.
DebugWithoutBudgetTest ==
  /\ stepping
  /\ Exit /\ Continues
  /\ singlestep_exits' = singlestep_exits + 1
  /\ StepPauses \/ StepCharged

ExitDebug ==
  /\ stepping
  /\ Exit /\ Continues
  /\ \/ /\ singlestep_remaining > 0
        /\ singlestep_exits' = singlestep_exits + 1
        /\ StepPauses \/ StepCharged
     \/ singlestep_remaining = 0 /\ UNCHANGED step

-----------------------------------------------------------------------------
(* vcpu_thread.                                                            *)

\* KVM_RUN itself failed: no exit is handled.
KvmRunFails ==
  /\ thread = "loop" /\ running
  /\ thread' = "done"
  /\ UNCHANGED <<config, running, exit_count, step>>

LoopEnds ==
  /\ thread = "loop" /\ ~running
  /\ thread' = "done"
  /\ UNCHANGED <<config, running, exit_count, step>>

\* The thread has ended, or the bound of the model is reached.
Rest ==
  /\ thread = "done" \/ exit_count = MaxExits
  /\ UNCHANGED vars

Next ==
  \/ ExitIO \/ ExitHltOrShutdown \/ ExitIgnored \/ ExitFatal \/ ExitDebug
  \/ KvmRunFails \/ LoopEnds \/ Rest

Spec == Init /\ [][Next]_vars

-----------------------------------------------------------------------------
(* Properties.                                                             *)

TypeOK ==
  /\ linux_guest \in BOOLEAN /\ use_paging \in BOOLEAN /\ running \in BOOLEAN
  /\ thread \in {"loop", "done"}
  /\ exit_count \in 0..MaxExits
  /\ singlestep_remaining \in 0..StepBudget
  /\ singlestep_exits \in 0..MaxExits
  /\ singlestep_paused \in BOOLEAN /\ stepping \in BOOLEAN /\ ioctl_failed \in BOOLEAN

(* Between two exits KVM single-steps the guest exactly when the VMM's     *)
(* bookkeeping says so: budget left and not paused for a REP instruction.  *)
(* In particular a used-up budget is never followed by more DEBUG exits.   *)
(* Only a failed KVM_SET_GUEST_DEBUG, which nobody notices, parts them.    *)
SteppingMatchesBudget ==
  ~ioctl_failed => (stepping <=> (singlestep_remaining > 0 /\ ~singlestep_paused))

(* Whatever KVM_SET_GUEST_DEBUG answers, the budget only shrinks, and once *)
(* it is used up single-stepping is never turned on again.                 *)
NoStepBeyondBudget ==
  [][/\ singlestep_remaining' <= singlestep_remaining
     /\ singlestep_remaining = 0 /\ stepping' => stepping]_vars

(* "Safety limit (disabled for Protected Mode ...)": a vCPU without paging *)
(* is stopped by the exit that exceeds the limit.                          *)
SafetyLimit ==
  ~use_paging /\ exit_count > ExitLimit => thread = "done" \/ ~running
=============================================================================
