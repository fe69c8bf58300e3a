------------------------ MODULE VmmLifecycleProofs ------------------------
(***************************************************************************)
(* Proofs about VmmLifecycle, for any number of vCPUs and any choice of    *)
(* the calls that may fail: IInv is inductive, and the safety properties   *)
(* follow from it.                                                         *)
(***************************************************************************)
EXTENDS VmmLifecycle, TLAPS

USE MaxVcpusAssumption, ModesAssumption, FailAssumption

(* The contexts that setup can leave behind.                               *)
LEMMA ContextFacts ==
  ASSUME NEW v \in Vcpu, NEW stage \in SetupStages
  PROVE  /\ ContextAt(v, stage) \in Contexts
         /\ ContextAt(v, stage).vcpu_fd \in {-1, VcpuFd(v)}
         /\ MapsOf(v, ContextAt(v, stage)) \subseteq {<<v, "kvm_run">>, <<v, "guest_mem">>}
         /\ stage = "ready" =>
              /\ ContextAt(v, stage).vcpu_fd = VcpuFd(v)
              /\ MapsOf(v, ContextAt(v, stage)) = {<<v, "kvm_run">>, <<v, "guest_mem">>}
  <1> DEFINE c == ContextAt(v, stage)
  <1>1. c.vcpu_fd \in {-1, VcpuFd(v)} /\ (stage = "ready" => c.vcpu_fd = VcpuFd(v))
    BY DEF ContextAt
  <1>2. c.kvm_run \in {"NULL", "MAP_FAILED", "mapped"} /\ (stage = "ready" => c.kvm_run = "mapped")
    BY DEF ContextAt, SetupStages
  <1>3. c.guest_mem \in {"NULL", "MAP_FAILED", "mapped"} /\ (stage = "ready" => c.guest_mem = "mapped")
    BY DEF ContextAt
  <1>4. c.running \in BOOLEAN
    BY DEF ContextAt
  <1>5. c = [guest_mem |-> c.guest_mem, vcpu_fd |-> c.vcpu_fd, kvm_run |-> c.kvm_run, running |-> c.running]
    BY DEF ContextAt
  <1> HIDE DEF c
  <1>6. c \in Contexts
    BY <1>1, <1>2, <1>3, <1>4, <1>5 DEF Contexts
  <1>7. MapsOf(v, c) \subseteq {<<v, "kvm_run">>, <<v, "guest_mem">>}
    BY DEF MapsOf
  <1>8. stage = "ready" => MapsOf(v, c) = {<<v, "kvm_run">>, <<v, "guest_mem">>}
    BY <1>2, <1>3 DEF MapsOf
  <1>9. QED
    BY <1>1, <1>6, <1>7, <1>8 DEF c

(* The number of vCPUs is fixed by the command line, and with it what      *)
(* ranges over them.                                                       *)
LEMMA SameVcpus ==
  ASSUME [Next]_vars
  PROVE  num_vcpus' = num_vcpus /\ Vcpu' = Vcpu /\ Contexts' = Contexts
<1> SUFFICES num_vcpus' = num_vcpus
  BY DEF Vcpu, Contexts
<1>1. ASSUME NEW stage \in SetupStages, SetupVcpu(stage) PROVE num_vcpus' = num_vcpus
  BY <1>1 DEF SetupVcpu, inputs
<1>2. ASSUME NEW v \in Vcpu, VcpuStep(v) PROVE num_vcpus' = num_vcpus
  BY <1>2 DEF VcpuStep, VcpuRun, VcpuExitHandled, VcpuExitFatal, inputs
<1>3. CASE StdinThreadStep
  BY <1>3 DEF StdinThreadStep, StdinStart, StdinCheck, StdinPoll, StdinRestore, StdinStep, inputs
<1>4. CASE set_raw_mode \/ init_kvm \/ LinuxSinglestepFails \/ StartStdinThread \/ SpawnVcpu
           \/ AllSpawned \/ JoinVcpu
  BY <1>4 DEF set_raw_mode, init_kvm, LinuxSinglestepFails, StartStdinThread, SpawnVcpu,
     AllSpawned, JoinVcpu, inputs
<1>5. CASE StopStdin \/ JoinStdin \/ CleanupVcpus \/ restore_terminal \/ CloseGlobals
  BY <1>5 DEF StopStdin, JoinStdin, CleanupVcpus, restore_terminal, CloseGlobals, inputs
<1>6. CASE UNCHANGED vars
  BY <1>6 DEF vars, inputs
<1>7. QED
  BY <1>1, <1>2, <1>3, <1>4, <1>5, <1>6 DEF Next, MainStep, Exited

(* Every step preserves the types.                                         *)
LEMMA TypeStep == TypeOK /\ [Next]_vars => TypeOK'
<1> SUFFICES ASSUME TypeOK, [Next]_vars PROVE TypeOK'
  OBVIOUS
<1>0. num_vcpus' = num_vcpus /\ Vcpu' = Vcpu /\ Contexts' = Contexts
  BY SameVcpus
<1> USE <1>0 DEF TypeOK, Labels, GoTo, inputs, owned, term, threads, main
<1>1. CASE set_raw_mode
  <2>1. raw' \in BOOLEAN /\ termios_saved' \in BOOLEAN
    BY <1>1, Zenon DEF set_raw_mode
  <2>2. QED
    BY <1>1, <2>1 DEF set_raw_mode
<1>2. CASE init_kvm
  BY <1>2 DEF init_kvm
<1>3. ASSUME NEW stage \in SetupStages, SetupVcpu(stage)
      PROVE  TypeOK'
  <2>1. i \in Vcpu
    BY <1>3 DEF SetupVcpu, Vcpu
  <2>2. QED
    BY <1>3, <2>1, ContextFacts DEF SetupVcpu
<1>4. CASE LinuxSinglestepFails
  BY <1>4 DEF LinuxSinglestepFails
<1>5. CASE StartStdinThread
  <2>1. stdin_thread_running' \in BOOLEAN
    BY <1>5, Zenon DEF StartStdinThread
  <2>2. QED
    BY <1>5, <2>1 DEF StartStdinThread
<1>6. CASE SpawnVcpu
  BY <1>6 DEF SpawnVcpu
<1>7. CASE AllSpawned
  BY <1>7 DEF AllSpawned
<1>8. CASE JoinVcpu
  BY <1>8 DEF JoinVcpu
<1>9. CASE StopStdin
  <2>1. stdin_thread_running' \in BOOLEAN /\ pc' \in Labels
    BY <1>9, Zenon DEF StopStdin
  <2>2. QED
    BY <1>9, <2>1 DEF StopStdin
<1>10. CASE JoinStdin
  BY <1>10 DEF JoinStdin
<1>11. CASE CleanupVcpus
  BY <1>11 DEF CleanupVcpus, cleanup_vcpu
<1>12. CASE restore_terminal
  <2>1. raw' \in BOOLEAN /\ termios_saved' \in BOOLEAN
    BY <1>12, Zenon DEF restore_terminal
  <2>2. QED
    BY <1>12, <2>1 DEF restore_terminal
<1>13. CASE CloseGlobals
  BY <1>13 DEF CloseGlobals
<1>14. ASSUME NEW v \in Vcpu, VcpuStep(v)
       PROVE  TypeOK'
  <2>1. CASE VcpuRun(v)
    BY <1>14, <2>1 DEF VcpuRun
  <2>2. CASE VcpuExitHandled(v)
    <3>1. PICK r \in {ctx[v].running, FALSE} : ctx' = [ctx EXCEPT ![v].running = r]
      BY <2>2 DEF VcpuExitHandled
    <3>2. ctx[v] \in Contexts /\ r \in BOOLEAN
      BY <1>14, <3>1 DEF Contexts
    <3>3. [ctx[v] EXCEPT !.running = r] \in Contexts
      BY <3>2 DEF Contexts
    <3>4. ctx' = [ctx EXCEPT ![v] = [ctx[v] EXCEPT !.running = r]]
      BY <3>1
    <3>5. ctx' \in [Vcpu -> Contexts]
      BY <1>14, <3>3, <3>4
    <3>6. QED
      BY <1>14, <2>2, <3>5 DEF VcpuExitHandled
  <2>3. CASE VcpuExitFatal(v)
    BY <1>14, <2>3 DEF VcpuExitFatal
  <2>4. QED
    BY <1>14, <2>1, <2>2, <2>3 DEF VcpuStep
<1>15. CASE StdinThreadStep
  <2>1. nonblock' \in BOOLEAN
    BY <1>15, Zenon DEF StdinThreadStep, StdinStart, StdinCheck, StdinPoll, StdinRestore
  <2>2. sthread' \in {"loop", "poll", "restore", "done"}
    BY <1>15, Zenon DEF StdinThreadStep, StdinStep, StdinStart, StdinCheck, StdinPoll, StdinRestore
  <2>3. UNCHANGED <<inputs, main, owned, term, vthread, stdin_thread_running, fds, maps>>
    BY <1>15, Zenon DEF StdinThreadStep, StdinStep, StdinStart, StdinCheck, StdinPoll, StdinRestore
  <2>4. QED
    BY <2>1, <2>2, <2>3
<1>16. CASE UNCHANGED vars
  BY <1>16 DEF vars
<1>17. QED
  BY <1>1, <1>2, <1>3, <1>4, <1>5, <1>6, <1>7, <1>8, <1>9, <1>10, <1>11, <1>12, <1>13,
     <1>14, <1>15, <1>16 DEF Next, MainStep, Exited
-----------------------------------------------------------------------------
(* A complete context does not hold descriptor 0.                          *)
LEMMA ReadyNotStdin ==
  ASSUME NEW v \in Vcpu, Ready(v)
  PROVE  ctx[v].vcpu_fd # STDIN_FILENO
  BY DEF Ready, VcpuFd, STDIN_FILENO, Vcpu

(* Every step preserves the inductive invariant.                           *)
LEMMA IInvStep == IInv /\ [Next]_vars => IInv'
<1> SUFFICES ASSUME IInv, [Next]_vars PROVE IInv'
  OBVIOUS
<1>0. TypeOK /\ TypeOK'
  BY TypeStep DEF IInv
<1>0a. num_vcpus' = num_vcpus /\ num_vcpus \in Nat /\ i \in Nat
  BY <1>0, SameVcpus DEF TypeOK
<1> USE <1>0, <1>0a DEF TypeOK, Vcpu, IInv, GoTo, inputs, owned, term, threads, main, SetupLabels, RunLabels, ReleaseLabels
<1>1. CASE set_raw_mode
  <2>1. DescriptorsKnown'
    BY <1>1 DEF set_raw_mode, DescriptorsKnown
  <2>2. SetupProgress'
    BY <1>1 DEF set_raw_mode, SetupProgress, Ready
  <2>3. ReleaseProgress'
    BY <1>1 DEF set_raw_mode, ReleaseProgress
  <2>4. VcpuThreads'
    BY <1>1 DEF set_raw_mode, VcpuThreads
  <2>5. StdinThread'
    BY <1>1 DEF set_raw_mode, StdinThread
  <2>6. StdinOpen'
    BY <1>1 DEF set_raw_mode, StdinOpen
  <2>7. TerminalSaved'
    BY <1>1 DEF set_raw_mode, TerminalSaved
  <2>8. QED
    BY <2>1, <2>2, <2>3, <2>4, <2>5, <2>6, <2>7
<1>2. CASE init_kvm
  <2>1. DescriptorsKnown'
    BY <1>2 DEF init_kvm, DescriptorsKnown, SetupProgress, STDIN_FILENO, StdFds, KvmFd, VmFd, VcpuFd
  <2>2. SetupProgress'
    BY <1>2 DEF init_kvm, SetupProgress, Ready
  <2>3. ReleaseProgress'
    BY <1>2 DEF init_kvm, ReleaseProgress, SetupProgress, STDIN_FILENO, StdFds, KvmFd, VmFd, VcpuFd
  <2>4. VcpuThreads'
    BY <1>2 DEF init_kvm, VcpuThreads
  <2>5. StdinThread'
    BY <1>2 DEF init_kvm, StdinThread
  <2>6. StdinOpen'
    BY <1>2 DEF init_kvm, StdinOpen
  <2>7. TerminalSaved'
    BY <1>2 DEF init_kvm, TerminalSaved
  <2>8. QED
    BY <2>1, <2>2, <2>3, <2>4, <2>5, <2>6, <2>7
<1>3. CASE LinuxSinglestepFails
  <2>1. DescriptorsKnown'
    BY <1>3 DEF LinuxSinglestepFails, DescriptorsKnown
  <2>2. SetupProgress'
    BY <1>3 DEF LinuxSinglestepFails, SetupProgress, Ready
  <2>3. ReleaseProgress'
    BY <1>3 DEF LinuxSinglestepFails, ReleaseProgress
  <2>4. VcpuThreads'
    BY <1>3 DEF LinuxSinglestepFails, VcpuThreads
  <2>5. StdinThread'
    BY <1>3 DEF LinuxSinglestepFails, StdinThread
  <2>6. StdinOpen'
    <3>1. \A v \in Vcpu : Ready(v)
      BY <1>3 DEF LinuxSinglestepFails, SetupProgress
    <3>2. \A v \in Vcpu : ctx[v].vcpu_fd # STDIN_FILENO
      BY <3>1, ReadyNotStdin
    <3>3. QED
      BY <1>3, <3>2 DEF LinuxSinglestepFails, StdinOpen
  <2>7. TerminalSaved'
    BY <1>3 DEF LinuxSinglestepFails, TerminalSaved
  <2>8. QED
    BY <2>1, <2>2, <2>3, <2>4, <2>5, <2>6, <2>7
<1>4. CASE StartStdinThread
  <2>1. DescriptorsKnown'
    BY <1>4 DEF StartStdinThread, DescriptorsKnown
  <2>2. SetupProgress'
    BY <1>4 DEF StartStdinThread, SetupProgress, Ready
  <2>3. ReleaseProgress'
    BY <1>4 DEF StartStdinThread, ReleaseProgress
  <2>4. VcpuThreads'
    BY <1>4 DEF StartStdinThread, VcpuThreads
  <2>5. StdinThread'
    <3>1. pc' = "spawn" /\ nonblock' = nonblock /\ sthread = "none"
      BY <1>4 DEF StartStdinThread, StdinThread
    <3>2. ~nonblock'
      BY <3>1 DEF StdinThread
    <3>3. \/ stdin_thread_running' = TRUE
          \/ stdin_thread_running' = stdin_thread_running /\ sthread' = sthread
      BY <1>4, Zenon DEF StartStdinThread
    <3>4. ~stdin_thread_running' => sthread' = "none"
      BY <3>1, <3>3
    <3>5. QED
      BY <3>1, <3>2, <3>4 DEF StdinThread
  <2>6. StdinOpen'
    BY <1>4 DEF StartStdinThread, StdinOpen
  <2>7. TerminalSaved'
    BY <1>4 DEF StartStdinThread, TerminalSaved
  <2>8. QED
    BY <2>1, <2>2, <2>3, <2>4, <2>5, <2>6, <2>7
<1>5. CASE SpawnVcpu
  <2>1. DescriptorsKnown'
    BY <1>5 DEF SpawnVcpu, DescriptorsKnown
  <2>2. SetupProgress'
    BY <1>5 DEF SpawnVcpu, SetupProgress, Ready
  <2>3. ReleaseProgress'
    BY <1>5 DEF SpawnVcpu, ReleaseProgress
  <2>4. VcpuThreads'
    BY <1>5 DEF SpawnVcpu, VcpuThreads
  <2>5. StdinThread'
    BY <1>5 DEF SpawnVcpu, StdinThread
  <2>6. StdinOpen'
    BY <1>5 DEF SpawnVcpu, StdinOpen
  <2>7. TerminalSaved'
    BY <1>5 DEF SpawnVcpu, TerminalSaved
  <2>8. QED
    BY <2>1, <2>2, <2>3, <2>4, <2>5, <2>6, <2>7
<1>6. CASE AllSpawned
  <2>1. DescriptorsKnown'
    BY <1>6 DEF AllSpawned, DescriptorsKnown
  <2>2. SetupProgress'
    BY <1>6 DEF AllSpawned, SetupProgress, Ready
  <2>3. ReleaseProgress'
    BY <1>6 DEF AllSpawned, ReleaseProgress
  <2>4. VcpuThreads'
    BY <1>6 DEF AllSpawned, VcpuThreads
  <2>5. StdinThread'
    BY <1>6 DEF AllSpawned, StdinThread
  <2>6. StdinOpen'
    BY <1>6 DEF AllSpawned, StdinOpen
  <2>7. TerminalSaved'
    BY <1>6 DEF AllSpawned, TerminalSaved
  <2>8. QED
    BY <2>1, <2>2, <2>3, <2>4, <2>5, <2>6, <2>7
<1>7. CASE JoinVcpu
  <2>1. DescriptorsKnown'
    BY <1>7 DEF JoinVcpu, DescriptorsKnown
  <2>2. SetupProgress'
    BY <1>7 DEF JoinVcpu, SetupProgress, Ready
  <2>3. ReleaseProgress'
    BY <1>7 DEF JoinVcpu, ReleaseProgress
  <2>4. VcpuThreads'
    BY <1>7 DEF JoinVcpu, VcpuThreads
  <2>5. StdinThread'
    BY <1>7 DEF JoinVcpu, StdinThread
  <2>6. StdinOpen'
    BY <1>7 DEF JoinVcpu, StdinOpen
  <2>7. TerminalSaved'
    BY <1>7 DEF JoinVcpu, TerminalSaved
  <2>8. QED
    BY <2>1, <2>2, <2>3, <2>4, <2>5, <2>6, <2>7
<1>8. CASE StopStdin
  <2>1. DescriptorsKnown'
    BY <1>8 DEF StopStdin, DescriptorsKnown
  <2>2. SetupProgress'
    BY <1>8 DEF StopStdin, SetupProgress, Ready
  <2>3. ReleaseProgress'
    BY <1>8 DEF StopStdin, ReleaseProgress
  <2>4. VcpuThreads'
    BY <1>8 DEF StopStdin, VcpuThreads
  <2>5. StdinThread'
    BY <1>8 DEF StopStdin, StdinThread
  <2>6. StdinOpen'
    <3>1. \A v \in Vcpu : Ready(v)
      BY <1>8 DEF StopStdin, SetupProgress
    <3>2. \A v \in Vcpu : ctx[v].vcpu_fd # STDIN_FILENO
      BY <3>1, ReadyNotStdin
    <3>3. fds' = fds /\ ctx' = ctx
      BY <1>8 DEF StopStdin
    <3>4. StdFds \subseteq fds
      BY <1>8 DEF StopStdin, StdinOpen
    <3>5. QED
      BY <3>2, <3>3, <3>4 DEF StdinOpen, StdFds, STDIN_FILENO
  <2>7. TerminalSaved'
    BY <1>8 DEF StopStdin, TerminalSaved
  <2>8. QED
    BY <2>1, <2>2, <2>3, <2>4, <2>5, <2>6, <2>7
<1>9. CASE JoinStdin
  <2>1. DescriptorsKnown'
    BY <1>9 DEF JoinStdin, DescriptorsKnown
  <2>2. SetupProgress'
    BY <1>9 DEF JoinStdin, SetupProgress, Ready
  <2>3. ReleaseProgress'
    BY <1>9 DEF JoinStdin, ReleaseProgress
  <2>4. VcpuThreads'
    BY <1>9 DEF JoinStdin, VcpuThreads
  <2>5. StdinThread'
    BY <1>9 DEF JoinStdin, StdinThread
  <2>6. StdinOpen'
    <3>1. \A v \in Vcpu : Ready(v)
      BY <1>9 DEF JoinStdin, SetupProgress
    <3>2. \A v \in Vcpu : ctx[v].vcpu_fd # STDIN_FILENO
      BY <3>1, ReadyNotStdin
    <3>3. fds' = fds /\ ctx' = ctx
      BY <1>9 DEF JoinStdin
    <3>4. StdFds \subseteq fds
      BY <1>9 DEF JoinStdin, StdinOpen
    <3>5. QED
      BY <3>2, <3>3, <3>4 DEF StdinOpen, StdFds, STDIN_FILENO
  <2>7. TerminalSaved'
    BY <1>9 DEF JoinStdin, TerminalSaved
  <2>8. QED
    BY <2>1, <2>2, <2>3, <2>4, <2>5, <2>6, <2>7
<1>10. CASE CleanupVcpus
  <2>1. DescriptorsKnown'
    BY <1>10 DEF CleanupVcpus, cleanup_vcpu, DescriptorsKnown
  <2>2. SetupProgress'
    BY <1>10 DEF CleanupVcpus, cleanup_vcpu, SetupProgress, Ready
  <2>3. ReleaseProgress'
    <3>1. CASE i < num_vcpus
      BY <1>10, <3>1 DEF CleanupVcpus, cleanup_vcpu, ReleaseProgress, DescriptorsKnown, STDIN_FILENO, StdFds, KvmFd, VmFd, VcpuFd
    <3>2. CASE i = num_vcpus
      <4>1. pc = "cleanup_vcpus" /\ pc' = "cleanup_early" /\ fds' = fds /\ maps' = maps
        BY <1>10, <3>2 DEF CleanupVcpus
      <4>2. \A v \in Vcpu : VcpuFd(v) \notin fds /\ \A p \in {"kvm_run", "guest_mem"} : <<v, p>> \notin maps
        <5>1. \A v \in Vcpu : v < i
          BY <3>2
        <5>2. QED
          BY <4>1, <5>1 DEF ReleaseProgress
      <4>3. maps = {}
        <5>1. SUFFICES ASSUME NEW m \in maps PROVE FALSE
          OBVIOUS
        <5>2. PICK v \in Vcpu, p \in {"kvm_run", "guest_mem"} : m = <<v, p>>
          OBVIOUS
        <5>3. QED
          BY <4>2, <5>1, <5>2
      <4>4. QED
        BY <4>1, <4>2, <4>3 DEF ReleaseProgress
    <3>3. QED
      BY <1>10, <3>1, <3>2 DEF CleanupVcpus
  <2>4. VcpuThreads'
    BY <1>10 DEF CleanupVcpus, cleanup_vcpu, VcpuThreads
  <2>5. StdinThread'
    BY <1>10 DEF CleanupVcpus, cleanup_vcpu, StdinThread
  <2>6. StdinOpen'
    BY <1>10 DEF CleanupVcpus, cleanup_vcpu, StdinOpen
  <2>7. TerminalSaved'
    BY <1>10 DEF CleanupVcpus, cleanup_vcpu, TerminalSaved
  <2>8. QED
    BY <2>1, <2>2, <2>3, <2>4, <2>5, <2>6, <2>7
<1>11. CASE restore_terminal
  <2>1. DescriptorsKnown'
    BY <1>11 DEF restore_terminal, DescriptorsKnown
  <2>2. SetupProgress'
    BY <1>11 DEF restore_terminal, SetupProgress, Ready
  <2>3. ReleaseProgress'
    BY <1>11 DEF restore_terminal, ReleaseProgress
  <2>4. VcpuThreads'
    BY <1>11 DEF restore_terminal, VcpuThreads
  <2>5. StdinThread'
    BY <1>11 DEF restore_terminal, StdinThread
  <2>6. StdinOpen'
    BY <1>11 DEF restore_terminal, StdinOpen
  <2>7. TerminalSaved'
    BY <1>11, Zenon DEF restore_terminal, TerminalSaved, StdinOpen
  <2>8. QED
    BY <2>1, <2>2, <2>3, <2>4, <2>5, <2>6, <2>7
<1>12. CASE CloseGlobals
  <2>1. DescriptorsKnown'
    BY <1>12 DEF CloseGlobals, DescriptorsKnown
  <2>2. SetupProgress'
    BY <1>12 DEF CloseGlobals, SetupProgress, Ready
  <2>3. ReleaseProgress'
    BY <1>12 DEF CloseGlobals, ReleaseProgress, DescriptorsKnown, STDIN_FILENO, StdFds, KvmFd, VmFd, VcpuFd
  <2>4. VcpuThreads'
    BY <1>12 DEF CloseGlobals, VcpuThreads
  <2>5. StdinThread'
    BY <1>12 DEF CloseGlobals, StdinThread
  <2>6. StdinOpen'
    BY <1>12 DEF CloseGlobals, StdinOpen, STDIN_FILENO, StdFds, KvmFd, VmFd, VcpuFd
  <2>7. TerminalSaved'
    BY <1>12 DEF CloseGlobals, TerminalSaved
  <2>8. QED
    BY <2>1, <2>2, <2>3, <2>4, <2>5, <2>6, <2>7
<1>13. ASSUME NEW stage \in SetupStages, SetupVcpu(stage)
       PROVE  IInv'
  <2> DEFINE c == ContextAt(i, stage)
  <2>1. i \in Vcpu /\ pc = "setup"
    BY <1>13 DEF SetupVcpu
  <2>2. /\ c.vcpu_fd \in {-1, VcpuFd(i)}
        /\ MapsOf(i, c) \subseteq {<<i, "kvm_run">>, <<i, "guest_mem">>}
        /\ stage = "ready" =>
             c.vcpu_fd = VcpuFd(i) /\ MapsOf(i, c) = {<<i, "kvm_run">>, <<i, "guest_mem">>}
    BY <2>1, ContextFacts
  <2>3. /\ ctx' = [ctx EXCEPT ![i] = c]
        /\ maps' = maps \cup MapsOf(i, c)
        /\ fds' = fds \cup ({c.vcpu_fd} \ {-1})
        /\ UNCHANGED <<inputs, kvm_fd, vm_fd, term, threads>>
        /\ \/ stage = "ready" /\ pc' = "setup" /\ i' = i + 1 /\ ret' = ret
           \/ stage # "ready" /\ (i = num_vcpus - 1 \/ EarlySetupMayFail) /\ pc' = "cleanup_vcpus" /\ i' = 0 /\ ret' = 1
    BY <1>13 DEF SetupVcpu
  <2> HIDE DEF c
  <2>4. \A v \in Vcpu : ctx'[v] = IF v = i THEN c ELSE ctx[v]
    BY <2>1, <2>3
  <2>5. \A v \in Vcpu : IF v < i THEN Ready(v) ELSE ctx[v] = ZeroContext
    BY <2>1 DEF SetupProgress
  <2>6. DescriptorsKnown'
    <3>1. (KvmFd \in fds' => kvm_fd' = KvmFd) /\ (VmFd \in fds' => vm_fd' = VmFd)
      BY <2>1, <2>2, <2>3 DEF DescriptorsKnown, KvmFd, VmFd, VcpuFd
    <3>2. ASSUME NEW v \in Vcpu, VcpuFd(v) \in fds' PROVE ctx'[v].vcpu_fd = VcpuFd(v)
      <4>1. CASE v = i
        <5>1. VcpuFd(v) \notin fds
          <6>1. ctx[v].vcpu_fd = 0
            BY <2>5, <3>2, <4>1 DEF ZeroContext
          <6>2. QED
            BY <3>2, <6>1 DEF DescriptorsKnown, VcpuFd
        <5>2. VcpuFd(v) \in {c.vcpu_fd}
          BY <2>3, <3>2, <5>1
        <5>3. QED
          BY <2>4, <3>2, <4>1, <5>2
      <4>2. CASE v # i
        <5>1. VcpuFd(v) \in fds
          BY <2>1, <2>2, <2>3, <3>2, <4>2 DEF VcpuFd
        <5>2. QED
          BY <2>4, <3>2, <4>2, <5>1 DEF DescriptorsKnown
      <4>3. QED
        BY <4>1, <4>2
    <3>3. VmFd \in fds'
      BY <2>1, <2>3 DEF DescriptorsKnown
    <3>4. QED
      BY <3>1, <3>2, <3>3 DEF DescriptorsKnown
  <2>7. SetupProgress'
    <3>1. CASE stage = "ready"
      <4>1. \A v \in Vcpu : v < i + 1 => Ready(v)'
        BY <2>1, <2>2, <2>3, <2>4, <2>5, <3>1 DEF Ready, STDIN_FILENO, StdFds, KvmFd, VmFd, VcpuFd
      <4>2. \A v \in Vcpu : ~(v < i + 1) => ctx'[v] = ZeroContext
        BY <2>1, <2>4, <2>5
      <4>3. QED
        BY <2>3, <3>1, <4>1, <4>2 DEF SetupProgress
    <3>2. CASE stage # "ready"
      BY <2>3, <3>2 DEF SetupProgress
    <3>3. QED
      BY <3>1, <3>2
  <2>8. ReleaseProgress'
    BY <2>3 DEF ReleaseProgress
  <2>9. VcpuThreads'
    BY <2>1, <2>3 DEF VcpuThreads
  <2>10. StdinThread'
    BY <2>1, <2>3 DEF StdinThread
  <2>11. StdinOpen'
    <3>1. StdFds \subseteq fds'
      BY <2>1, <2>3 DEF StdinOpen
    <3>2. CASE stage = "ready"
      BY <2>3, <3>1, <3>2 DEF StdinOpen, STDIN_FILENO, StdFds, KvmFd, VmFd, VcpuFd
    <3>3. CASE stage # "ready"
      <4>1. ~EarlySetupMayFail =>
              \A v \in Vcpu : ctx'[v].vcpu_fd # STDIN_FILENO
        <5>1. SUFFICES ASSUME ~EarlySetupMayFail, NEW v \in Vcpu
                       PROVE  ctx'[v].vcpu_fd # STDIN_FILENO
          OBVIOUS
        <5>2. i = num_vcpus - 1
          BY <2>3, <3>3, <5>1
        <5>3. CASE v = i
          BY <2>1, <2>2, <2>4, <5>3 DEF STDIN_FILENO, VcpuFd
        <5>4. CASE v # i
          <6>1. v < i
            BY <5>1, <5>2, <5>4
          <6>2. QED
            BY <2>4, <2>5, <5>1, <5>4, <6>1, ReadyNotStdin
        <5>5. QED
          BY <5>3, <5>4
      <4>2. QED
        BY <2>3, <3>1, <3>3, <4>1 DEF StdinOpen, STDIN_FILENO, StdFds, KvmFd, VmFd, VcpuFd
    <3>4. QED
      BY <3>2, <3>3
  <2>12. TerminalSaved'
    BY <2>1, <2>3 DEF TerminalSaved
  <2>13. QED
    BY <2>6, <2>7, <2>8, <2>9, <2>10, <2>11, <2>12
<1>14. ASSUME NEW v \in Vcpu, VcpuStep(v)
       PROVE  IInv'
  <2>1. /\ pc # "exited" /\ vthread[v] \in {"loop", "guest"}
        /\ \E t \in {"loop", "guest", "done"} : vthread' = [vthread EXCEPT ![v] = t]
        /\ UNCHANGED <<inputs, main, kvm_fd, vm_fd, term, sthread, stdin_thread_running,
                       nonblock, fds, maps>>
    BY <1>14 DEF VcpuStep, VcpuRun, VcpuExitHandled, VcpuExitFatal, Alive
  <2>2. ctx' = ctx \/ \E r : ctx' = [ctx EXCEPT ![v].running = r]
    BY <1>14 DEF VcpuStep, VcpuRun, VcpuExitHandled, VcpuExitFatal
  <2>3. \A w \in Vcpu : ctx'[w].vcpu_fd = ctx[w].vcpu_fd
    BY <1>14, <2>2 DEF Contexts
  <2>4. pc \notin SetupLabels
    BY <1>14, <2>1 DEF VcpuThreads
  <2>5. DescriptorsKnown'
    BY <2>1, <2>3 DEF DescriptorsKnown
  <2>6. SetupProgress'
    BY <2>1, <2>3, <2>4 DEF SetupProgress, Ready
  <2>7. ReleaseProgress'
    BY <2>1 DEF ReleaseProgress
  <2>8. VcpuThreads'
    BY <1>14, <2>1 DEF VcpuThreads
  <2>9. StdinThread'
    BY <2>1 DEF StdinThread
  <2>10. StdinOpen'
    BY <2>1, <2>3 DEF StdinOpen
  <2>11. TerminalSaved'
    BY <2>1 DEF TerminalSaved
  <2>12. QED
    BY <2>5, <2>6, <2>7, <2>8, <2>9, <2>10, <2>11
<1>15. CASE StdinThreadStep
  <2>1. DescriptorsKnown'
    BY <1>15 DEF StdinThreadStep, StdinStep, StdinStart, StdinCheck, StdinPoll, StdinRestore, Alive, DescriptorsKnown
  <2>2. SetupProgress'
    BY <1>15 DEF StdinThreadStep, StdinStep, StdinStart, StdinCheck, StdinPoll, StdinRestore, Alive, SetupProgress, Ready
  <2>3. ReleaseProgress'
    BY <1>15 DEF StdinThreadStep, StdinStep, StdinStart, StdinCheck, StdinPoll, StdinRestore, Alive, ReleaseProgress
  <2>4. VcpuThreads'
    BY <1>15 DEF StdinThreadStep, StdinStep, StdinStart, StdinCheck, StdinPoll, StdinRestore, Alive, VcpuThreads
  <2>5. StdinThread'
    BY <1>15 DEF StdinThreadStep, StdinStep, StdinStart, StdinCheck, StdinPoll, StdinRestore, Alive, StdinThread
  <2>6. StdinOpen'
    BY <1>15 DEF StdinThreadStep, StdinStep, StdinStart, StdinCheck, StdinPoll, StdinRestore, Alive, StdinOpen
  <2>7. TerminalSaved'
    BY <1>15 DEF StdinThreadStep, StdinStep, StdinStart, StdinCheck, StdinPoll, StdinRestore, Alive, TerminalSaved
  <2>8. QED
    BY <2>1, <2>2, <2>3, <2>4, <2>5, <2>6, <2>7
<1>16. CASE UNCHANGED vars
  <2>1. DescriptorsKnown'
    BY <1>16 DEF vars, DescriptorsKnown
  <2>2. SetupProgress'
    BY <1>16 DEF vars, SetupProgress, Ready
  <2>3. ReleaseProgress'
    BY <1>16 DEF vars, ReleaseProgress
  <2>4. VcpuThreads'
    BY <1>16 DEF vars, VcpuThreads
  <2>5. StdinThread'
    BY <1>16 DEF vars, StdinThread
  <2>6. StdinOpen'
    BY <1>16 DEF vars, StdinOpen
  <2>7. TerminalSaved'
    BY <1>16 DEF vars, TerminalSaved
  <2>8. QED
    BY <2>1, <2>2, <2>3, <2>4, <2>5, <2>6, <2>7
<1>17. QED
  BY <1>1, <1>2, <1>3, <1>4, <1>5, <1>6, <1>7, <1>8, <1>9, <1>10, <1>11, <1>12, <1>13, <1>14, <1>15, <1>16 DEF Next, MainStep, Exited

-----------------------------------------------------------------------------
(* IInv holds of every reachable state, for any number of vCPUs and        *)
(* whichever calls may fail.                                               *)
THEOREM Inductive == Spec => []IInv
<1>1. Init => IInv
  <2> SUFFICES ASSUME Init PROVE IInv
    OBVIOUS
  <2>1. ZeroContext \in Contexts
    BY DEF ZeroContext, Contexts
  <2>2. TypeOK
    <3>1. /\ ctx \in [Vcpu -> Contexts] /\ vthread \in [Vcpu -> {"none", "loop", "guest", "done"}]
          /\ i \in 0..num_vcpus
      BY <2>1 DEF Init
    <3>2. /\ termios_saved \in BOOLEAN /\ raw \in BOOLEAN /\ tty \in BOOLEAN
          /\ stdin_thread_running \in BOOLEAN /\ nonblock \in BOOLEAN
      BY Zenon DEF Init
    <3>3. QED
      BY <3>1, <3>2 DEF Init, TypeOK, Labels
  <2>3. DescriptorsKnown /\ SetupProgress /\ ReleaseProgress
    BY DEF Init, DescriptorsKnown, SetupProgress, ReleaseProgress, RunLabels,
           StdFds, KvmFd, VmFd, VcpuFd, Vcpu
  <2>4. VcpuThreads /\ StdinThread
    BY DEF Init, VcpuThreads, StdinThread, SetupLabels, RunLabels, ReleaseLabels
  <2>5. StdinOpen /\ TerminalSaved
    BY DEF Init, StdinOpen, TerminalSaved, StdFds, STDIN_FILENO
  <2>6. QED
    BY <2>2, <2>3, <2>4, <2>5 DEF IInv
<1>2. QED
  BY <1>1, IInvStep, PTL DEF Spec

(* The variables of main() and of the kernel keep their types.             *)
THEOREM TypeCorrect == Spec => []TypeOK
<1>1. IInv => TypeOK
  BY DEF IInv
<1>2. QED
  BY <1>1, Inductive, PTL

(* Whatever call fails, main() returns with nothing left open or mapped.   *)
THEOREM Released == Spec => []NoLeak
<1>1. IInv => NoLeak
  BY DEF IInv, TypeOK, NoLeak, ReleaseProgress
<1>2. QED
  BY <1>1, Inductive, PTL

(* stdin is in blocking mode again when main() returns.                    *)
THEOREM BlockingAgain == Spec => []StdinFlagsRestored
<1>1. IInv => StdinFlagsRestored
  BY DEF IInv, TypeOK, StdinFlagsRestored, StdinThread, ReleaseLabels
<1>2. QED
  BY <1>1, Inductive, PTL

(* Exit status 0 is returned only after every vCPU thread ran and ended.   *)
THEOREM StatusHonest == Spec => []SuccessMeansAllRan
<1>1. IInv => SuccessMeansAllRan
  BY DEF IInv, SuccessMeansAllRan, VcpuThreads, ReleaseLabels
<1>2. QED
  BY <1>1, Inductive, PTL

(* If no pthread_create fails once a vCPU thread runs, no thread outlives  *)
(* what it works on.  LifecycleSpawnFails shows that the assumption is     *)
(* needed.                                                                 *)
THEOREM ThreadsOwnResources ==
  ASSUME ~LateSpawnMayFail
  PROVE  Spec => []LiveThreadsOwnResources
<1>1. IInv => LiveThreadsOwnResources
  <2> SUFFICES ASSUME IInv PROVE LiveThreadsOwnResources
    OBVIOUS
  <2>1. ASSUME NEW v \in Vcpu, VcpuLive(v)
        PROVE  VcpuFd(v) \in fds /\ {<<v, "kvm_run">>, <<v, "guest_mem">>} \subseteq maps
    <3>1. pc \in RunLabels
      BY <2>1 DEF IInv, TypeOK, Labels, VcpuThreads, VcpuLive, Alive, SetupLabels, RunLabels, ReleaseLabels
    <3>2. QED
      BY <2>1, <3>1 DEF IInv, SetupProgress, Ready
  <2>2. StdinLive => {STDIN_FILENO, VmFd} \subseteq fds
    BY DEF IInv, TypeOK, Labels, StdinThread, StdinLive, StdinOpen, DescriptorsKnown,
           StdFds, STDIN_FILENO, SetupLabels, RunLabels, ReleaseLabels
  <2>3. QED
    BY <2>1, <2>2 DEF LiveThreadsOwnResources
<1>2. QED
  BY <1>1, Inductive, PTL

(* If only the last vCPU's setup may fail, the terminal is restored.       *)
(* LifecycleSetupFails shows that the assumption is needed.                *)
THEOREM RawModeEnds ==
  ASSUME ~EarlySetupMayFail
  PROVE  Spec => []TerminalRestored
<1>1. IInv => TerminalRestored
  BY DEF IInv, TerminalRestored, TerminalSaved
<1>2. QED
  BY <1>1, Inductive, PTL

-----------------------------------------------------------------------------
(* main() returns.                                                         *)

\* What JoinsEnd depends on: the threads before i have been started, and
\* the flag of the stdin thread is set only for one that was.
Started ==
  /\ pc = "spawn" => \A v \in Vcpu : v < i => vthread[v] # "none"
  /\ stdin_thread_running => sthread # "none"

LEMMA StartedStep == TypeOK /\ Started /\ JoinsEnd /\ [Next]_vars => Started' /\ JoinsEnd'
<1> SUFFICES ASSUME TypeOK, Started, JoinsEnd, [Next]_vars PROVE Started' /\ JoinsEnd'
  OBVIOUS
<1> USE DEF Started, JoinsEnd
<1>0. Vcpu' = Vcpu /\ num_vcpus \in Nat /\ i \in 0 .. num_vcpus
  BY SameVcpus DEF TypeOK
<1>1. ASSUME NEW stage \in SetupStages, SetupVcpu(stage) PROVE Started' /\ JoinsEnd'
  BY <1>0, <1>1 DEF SetupVcpu, GoTo, threads
<1>2. CASE set_raw_mode \/ init_kvm \/ LinuxSinglestepFails
  BY <1>0, <1>2 DEF set_raw_mode, init_kvm, LinuxSinglestepFails, GoTo, threads
<1>3. CASE StartStdinThread
  <2>1. pc' = "spawn" /\ i' = 0
    BY <1>3 DEF StartStdinThread, GoTo
  <2>2. \A v \in Vcpu : ~(v < 0)
    BY DEF Vcpu
  <2>3. QED
    BY <1>0, <1>3, <2>1, <2>2 DEF StartStdinThread
<1>4. CASE SpawnVcpu
  <2>1. CASE pc' = "cleanup_stdin"
    BY <1>4, <2>1 DEF SpawnVcpu
  <2>2. CASE pc' # "cleanup_stdin"
    <3>1. pc = "spawn" /\ pc' = pc /\ i' = i + 1 /\ vthread' = [vthread EXCEPT ![i] = "loop"]
      BY <1>4, <2>2 DEF SpawnVcpu, GoTo
    <3>2. ASSUME NEW v \in Vcpu, v < i + 1 PROVE vthread'[v] # "none"
      <4>1. v < i \/ v = i
        BY <1>0, <3>2 DEF Vcpu
      <4>2. QED
        BY <3>1, <3>2, <4>1 DEF TypeOK
    <3>3. QED
      BY <1>0, <1>4, <3>1, <3>2 DEF SpawnVcpu
  <2>3. QED
    BY <2>1, <2>2
<1>5. CASE AllSpawned
  <2>1. \A v \in Vcpu : vthread[v] # "none"
    BY <1>0, <1>5 DEF AllSpawned, Vcpu
  <2>2. QED
    BY <1>0, <1>5, <2>1 DEF AllSpawned, GoTo, threads
<1>6. CASE JoinVcpu
  BY <1>0, <1>6 DEF JoinVcpu, GoTo, threads
<1>7. CASE StopStdin
  BY <1>7 DEF StopStdin, GoTo
<1>8. CASE JoinStdin \/ CleanupVcpus \/ restore_terminal \/ CloseGlobals
  BY <1>8 DEF JoinStdin, CleanupVcpus, restore_terminal, CloseGlobals, GoTo, threads
<1>9. ASSUME NEW v \in Vcpu, VcpuStep(v) PROVE Started' /\ JoinsEnd'
  <2>1. UNCHANGED <<pc, i, sthread, stdin_thread_running>>
    BY <1>9 DEF VcpuStep, VcpuRun, VcpuExitHandled, VcpuExitFatal, main
  <2>2. PICK to \in {"loop", "guest", "done"} : vthread' = [vthread EXCEPT ![v] = to]
    BY <1>9 DEF VcpuStep, VcpuRun, VcpuExitHandled, VcpuExitFatal
  <2>3. \A u \in Vcpu : vthread[u] # "none" => vthread'[u] # "none"
    BY <2>2 DEF TypeOK
  <2>4. QED
    BY <1>0, <2>1, <2>3
<1>10. CASE StdinThreadStep
  <2>1. UNCHANGED <<pc, i, vthread, stdin_thread_running>> /\ sthread' # "none"
    BY <1>10 DEF StdinThreadStep, StdinStep, StdinStart, StdinCheck, StdinPoll, StdinRestore, main
  <2>2. QED
    BY <1>0, <2>1
<1>11. CASE UNCHANGED vars
  BY <1>0, <1>11 DEF vars, main, threads
<1>12. QED
  BY <1>1, <1>2, <1>3, <1>4, <1>5, <1>6, <1>7, <1>8, <1>9, <1>10, <1>11 DEF Next, MainStep, Exited

(* For any number of vCPUs and whichever calls fail, main() joins a vCPU   *)
(* thread only if it was started, and the stdin thread only after telling  *)
(* it to end.                                                              *)
THEOREM JoinsComeBack == Spec => []JoinsEnd
<1>1. Init => Started /\ JoinsEnd
  BY DEF Init, Started, JoinsEnd
<1>2. QED
  BY <1>1, StartedStep, TypeCorrect, PTL DEF Spec

\* How far main() is from its end, and the stdin thread once it is to stop.
MainRank ==
  [label \in Labels |->
     CASE label = "raw" -> 10 [] label = "init_kvm" -> 9 [] label = "setup" -> 8
       [] label = "spawn" -> 7 [] label = "join" -> 6 [] label = "cleanup_stdin" -> 5
       [] label = "join_stdin" -> 4 [] label = "cleanup_vcpus" -> 3 [] label = "cleanup_early" -> 2
       [] label = "close" -> 1 [] label = "exited" -> 0]
StdinRank ==
  [place \in {"none", "start", "loop", "poll", "restore", "done"} |->
     CASE place \in {"start", "poll"} -> 3 [] place = "loop" -> 2 [] place = "restore" -> 1
       [] OTHER -> 0]

MainForward ==
  \/ MainRank[pc'] < MainRank[pc]
  \/ pc' = pc /\ i' = i + 1 /\ i' <= num_vcpus

LEMMA Ranks ==
  /\ MainRank["raw"] = 10 /\ MainRank["init_kvm"] = 9 /\ MainRank["setup"] = 8
  /\ MainRank["spawn"] = 7 /\ MainRank["join"] = 6 /\ MainRank["cleanup_stdin"] = 5
  /\ MainRank["join_stdin"] = 4 /\ MainRank["cleanup_vcpus"] = 3 /\ MainRank["cleanup_early"] = 2
  /\ MainRank["close"] = 1 /\ MainRank["exited"] = 0
  BY DEF MainRank, Labels

LEMMA StdinRanks ==
  /\ StdinRank["start"] = 3 /\ StdinRank["poll"] = 3 /\ StdinRank["loop"] = 2
  /\ StdinRank["restore"] = 1 /\ StdinRank["done"] = 0
  BY DEF StdinRank

(* main() never goes back: each of its steps goes to a later label or one  *)
(* vCPU on in a loop over them, whatever fails; the other threads do not   *)
(* move it.  A stdin thread whose flag is cleared goes straight to its     *)
(* end.  With JoinsComeBack and fairness, this is MainReturns.             *)
THEOREM MainGoesForward ==
  Spec => /\ [][UNCHANGED main \/ MainForward]_vars
          /\ [][~stdin_thread_running /\ sthread # "none" =>
                  sthread' = sthread \/ StdinRank[sthread'] < StdinRank[sthread]]_vars
<1>1. ASSUME TypeOK, [Next]_vars PROVE UNCHANGED main \/ MainForward
  <2> USE DEF MainForward
  <2>0. num_vcpus \in Nat /\ i \in 0 .. num_vcpus /\ num_vcpus' = num_vcpus
    BY <1>1, SameVcpus DEF TypeOK
  <2>1. ASSUME NEW stage \in SetupStages, SetupVcpu(stage) PROVE MainForward
    BY <2>0, <2>1, Ranks DEF SetupVcpu, GoTo
  <2>2. CASE set_raw_mode \/ init_kvm \/ LinuxSinglestepFails \/ StartStdinThread
    BY <2>2, Ranks DEF set_raw_mode, init_kvm, LinuxSinglestepFails, StartStdinThread, GoTo
  <2>3. CASE SpawnVcpu \/ AllSpawned \/ JoinVcpu
    BY <2>0, <2>3, Ranks DEF SpawnVcpu, AllSpawned, JoinVcpu, GoTo
  <2>4. CASE StopStdin \/ JoinStdin
    BY <2>4, Ranks DEF StopStdin, JoinStdin, GoTo
  <2>5. CASE CleanupVcpus \/ restore_terminal \/ CloseGlobals
    BY <2>0, <2>5, Ranks DEF CleanupVcpus, restore_terminal, CloseGlobals, GoTo
  <2>6. ASSUME NEW v \in Vcpu, VcpuStep(v) PROVE UNCHANGED main
    BY <2>6 DEF VcpuStep, VcpuRun, VcpuExitHandled, VcpuExitFatal
  <2>7. CASE StdinThreadStep
    BY <2>7 DEF StdinThreadStep, StdinStep, StdinStart, StdinCheck, StdinPoll, StdinRestore
  <2>8. CASE UNCHANGED vars
    BY <2>8 DEF vars
  <2>9. QED
    BY <1>1, <2>1, <2>2, <2>3, <2>4, <2>5, <2>6, <2>7, <2>8 DEF Next, MainStep, Exited
<1>2. ASSUME IInv, [Next]_vars, ~stdin_thread_running, sthread # "none"
      PROVE  sthread' = sthread \/ StdinRank[sthread'] < StdinRank[sthread]
  <2>1. ASSUME NEW stage \in SetupStages, SetupVcpu(stage) PROVE sthread' = sthread
    BY <2>1 DEF SetupVcpu, threads
  <2>2. CASE set_raw_mode \/ init_kvm \/ LinuxSinglestepFails \/ SpawnVcpu \/ AllSpawned \/ JoinVcpu
    BY <2>2 DEF set_raw_mode, init_kvm, LinuxSinglestepFails, SpawnVcpu, AllSpawned, JoinVcpu, threads
  <2>3. CASE StartStdinThread
    BY <1>2, <2>3 DEF StartStdinThread, IInv, StdinThread, SetupLabels
  <2>4. CASE StopStdin \/ JoinStdin \/ CleanupVcpus \/ restore_terminal \/ CloseGlobals
    BY <2>4 DEF StopStdin, JoinStdin, CleanupVcpus, restore_terminal, CloseGlobals, threads
  <2>5. ASSUME NEW v \in Vcpu, VcpuStep(v) PROVE sthread' = sthread
    BY <2>5 DEF VcpuStep, VcpuRun, VcpuExitHandled, VcpuExitFatal
  <2>6. CASE StdinThreadStep
    BY <1>2, <2>6, StdinRanks DEF StdinThreadStep, StdinStep, StdinStart, StdinCheck, StdinPoll, StdinRestore
  <2>7. CASE UNCHANGED vars
    BY <2>7 DEF vars, threads
  <2>8. QED
    BY <1>2, <2>1, <2>2, <2>3, <2>4, <2>5, <2>6, <2>7 DEF Next, MainStep, Exited
<1>3. TypeOK /\ [Next]_vars => [UNCHANGED main \/ MainForward]_vars
  BY <1>1
<1>4. IInv /\ [Next]_vars => [~stdin_thread_running /\ sthread # "none" =>
         sthread' = sthread \/ StdinRank[sthread'] < StdinRank[sthread]]_vars
  BY <1>2
<1>5. QED
  BY <1>3, <1>4, TypeCorrect, Inductive, PTL DEF Spec
=============================================================================
