--------------------------- MODULE VmmLifecycle ---------------------------
(***************************************************************************)
(* The life of the VMM process, src/kvm-vmm-x86/src/main.c: main() sets up *)
(* the terminal, the VM and one context per vCPU, starts the stdin thread  *)
(* and a thread per vCPU, joins them, and releases everything through the  *)
(* labels cleanup_stdin, cleanup_vcpus and cleanup_early.  Every call that *)
(* main() checks for failure may fail here; the constants say for which    *)
(* vCPUs.                                                                  *)
(*                                                                         *)
(* What a thread does between taking and leaving the VM (handle_vm_exit)   *)
(* is module VcpuExit; here a vCPU thread only uses or stops using what    *)
(* main() owns.                                                            *)
(***************************************************************************)
EXTENDS Integers, FiniteSets

CONSTANTS
  MAX_VCPUS,          \* 4 in the code
  Modes,              \* the modes the command line may select
  EarlySetupMayFail,  \* whether a vCPU before the last may fail to be set up
  LateSpawnMayFail    \* whether a thread after the first may fail to start

ASSUME MaxVcpusAssumption == MAX_VCPUS \in Nat /\ MAX_VCPUS > 0
ASSUME ModesAssumption == Modes \subseteq {"real", "paging", "linux"}
ASSUME FailAssumption == EarlySetupMayFail \in BOOLEAN /\ LateSpawnMayFail \in BOOLEAN

VARIABLES
  \* inputs of the run
  mode,       \* real, paging (--paging, --long-mode) or linux (--linux)
  tty,        \* isatty(STDIN_FILENO)
  num_vcpus,  \* one per guest binary, one for Linux
  \* main()
  pc,         \* what main() does next
  i,          \* its loop variable
  ret,        \* its exit status
  ctx,        \* vcpus[]: the descriptor and the pointers of each context
  kvm_fd,
  vm_fd,
  termios_saved,
  stdin_thread_running,
  \* the threads
  vthread,    \* vCPU threads: none, loop, guest (in KVM_RUN), done
  sthread,    \* stdin thread: none, start, loop, poll, restore, done
  \* the kernel's view
  fds,        \* open file descriptors
  maps,       \* live mmaps, as <<vCPU, pointer name>>
  raw,        \* the terminal is in raw mode
  nonblock    \* O_NONBLOCK is set on stdin

main == <<pc, i, ret>>
owned == <<ctx, kvm_fd, vm_fd>>
inputs == <<mode, tty, num_vcpus>>
term == <<raw, termios_saved>>
threads == <<vthread, sthread, stdin_thread_running, nonblock>>
vars == <<inputs, main, owned, term, threads, fds, maps>>

-----------------------------------------------------------------------------
Vcpu == 0 .. num_vcpus - 1

STDIN_FILENO == 0
StdFds == {0, 1, 2}

\* The kernel hands out the lowest free descriptor, and main() opens these
\* in this order and closes none before cleanup.
KvmFd == 3
VmFd == 4
VcpuFd(v) == 5 + v

\* vcpus[] is a static array: a context nobody prepared is all zero, and so
\* is its vcpu_fd.
ZeroContext == [vcpu_fd |-> 0, kvm_run |-> "NULL", guest_mem |-> "NULL", running |-> FALSE]

\* Paging guests and the Linux console read the keyboard.
Interactive == mode \in {"paging", "linux"}

Init ==
  /\ mode \in Modes /\ num_vcpus \in 1..MAX_VCPUS
  /\ (mode = "linux" => num_vcpus = 1)
  /\ tty \in BOOLEAN
  /\ pc = "raw" /\ i = 0 /\ ret = 0
  /\ ctx = [v \in Vcpu |-> ZeroContext]
  /\ kvm_fd = -1 /\ vm_fd = -1
  /\ termios_saved = FALSE /\ raw = FALSE
  /\ stdin_thread_running = FALSE /\ nonblock = FALSE
  /\ vthread = [v \in Vcpu |-> "none"] /\ sthread = "none"
  /\ fds = StdFds /\ maps = {}

GoTo(label) == pc' = label /\ i' = 0

-----------------------------------------------------------------------------
(* main(), up to the point where the VM is ready to run.                   *)

\* tcgetattr and tcsetattr may fail; only a terminal that was switched
\* counts as saved.
set_raw_mode ==
  /\ pc = "raw"
  /\ \/ Interactive /\ tty /\ raw' = TRUE /\ termios_saved' = TRUE
     \/ UNCHANGED term
  /\ GoTo("init_kvm") /\ UNCHANGED <<inputs, ret, owned, threads, fds, maps>>

\* Mutant: a failed init_kvm returns without restoring the terminal.
InitKvmSkipsRestore ==
  /\ pc = "init_kvm"
  /\ \/ /\ kvm_fd' = KvmFd /\ vm_fd' = VmFd /\ fds' = fds \cup {KvmFd, VmFd}
        /\ GoTo("setup") /\ UNCHANGED ret
     \/ ret' = 1 /\ GoTo("close") /\ UNCHANGED <<kvm_fd, vm_fd, fds>>
  /\ UNCHANGED <<inputs, ctx, term, threads, maps>>

\* A failed open or ioctl leaves what was opened before it for cleanup_early.
\* KVM_SET_TSS_ADDR and KVM_CREATE_IRQCHIP only warn.
init_kvm ==
  /\ pc = "init_kvm"
  /\ \/ /\ kvm_fd' = KvmFd /\ vm_fd' = VmFd /\ fds' = fds \cup {KvmFd, VmFd}
        /\ GoTo("setup") /\ UNCHANGED ret
     \/ /\ \/ UNCHANGED <<kvm_fd, fds>>                        \* open
           \/ kvm_fd' = KvmFd /\ fds' = fds \cup {KvmFd}       \* version, KVM_CREATE_VM
        /\ ret' = 1 /\ GoTo("cleanup_early") /\ UNCHANGED vm_fd
  /\ UNCHANGED <<inputs, ctx, term, threads, maps>>

\* The calls that prepare one vCPU, in order; "ready" means none failed.
SetupStages ==
  {"mmap guest_mem", "KVM_SET_USER_MEMORY_REGION", "load", "KVM_CREATE_VCPU",
   "KVM_GET_VCPU_MMAP_SIZE", "mmap kvm_run", "configure", "ready"}

\* What the context of vCPU v holds when preparation stopped at a stage.
\* main() sets vcpu_fd to -1 first; running is the last assignment.
ContextAt(v, stage) ==
  [guest_mem |-> IF stage = "mmap guest_mem" THEN "MAP_FAILED" ELSE "mapped",
   vcpu_fd   |-> IF stage \in {"KVM_GET_VCPU_MMAP_SIZE", "mmap kvm_run", "configure", "ready"}
                 THEN VcpuFd(v) ELSE -1,
   kvm_run   |-> CASE stage \in {"configure", "ready"} -> "mapped"
                   [] stage = "mmap kvm_run" -> "MAP_FAILED"
                   [] OTHER -> "NULL",
   running   |-> stage = "ready"]

MapsOf(v, c) == {<<v, p>> : p \in {q \in {"kvm_run", "guest_mem"} : c[q] = "mapped"}}

\* Mutant: the descriptor of a failed KVM_CREATE_VCPU is taken for a real one.
SetupTrustsDescriptor(stage) ==
  LET c == ContextAt(i, stage) IN
  /\ pc = "setup" /\ i < num_vcpus
  /\ stage = "ready" \/ i = num_vcpus - 1 \/ EarlySetupMayFail
  /\ ctx' = [ctx EXCEPT ![i] = c]
  /\ maps' = maps \cup MapsOf(i, c)
  /\ fds' = fds \cup {c.vcpu_fd}
  /\ \/ stage = "ready" /\ pc' = pc /\ i' = i + 1 /\ UNCHANGED ret
     \/ stage # "ready" /\ GoTo("cleanup_vcpus") /\ ret' = 1
  /\ UNCHANGED <<inputs, kvm_fd, vm_fd, term, threads>>

\* Mutant: a failed setup jumps past the release of the vCPUs.
SetupSkipsCleanup(stage) ==
  LET c == ContextAt(i, stage) IN
  /\ pc = "setup" /\ i < num_vcpus
  /\ stage = "ready" \/ i = num_vcpus - 1 \/ EarlySetupMayFail
  /\ ctx' = [ctx EXCEPT ![i] = c]
  /\ maps' = maps \cup MapsOf(i, c)
  /\ fds' = fds \cup ({c.vcpu_fd} \ {-1})
  /\ \/ stage = "ready" /\ pc' = pc /\ i' = i + 1 /\ UNCHANGED ret
     \/ stage # "ready" /\ GoTo("cleanup_early") /\ ret' = 1
  /\ UNCHANGED <<inputs, kvm_fd, vm_fd, term, threads>>

SetupVcpu(stage) ==
  LET c == ContextAt(i, stage) IN
  /\ pc = "setup" /\ i < num_vcpus
  /\ stage = "ready" \/ i = num_vcpus - 1 \/ EarlySetupMayFail
  /\ ctx' = [ctx EXCEPT ![i] = c]
  /\ maps' = maps \cup MapsOf(i, c)
  /\ fds' = fds \cup ({c.vcpu_fd} \ {-1})
  /\ \/ stage = "ready" /\ pc' = pc /\ i' = i + 1 /\ UNCHANGED ret
     \/ stage # "ready" /\ GoTo("cleanup_vcpus") /\ ret' = 1
  /\ UNCHANGED <<inputs, kvm_fd, vm_fd, term, threads>>

\* With --linux and the highest debug level main() turns single-stepping on
\* after the context is complete, and gives up when that fails.
LinuxSinglestepFails ==
  /\ pc = "setup" /\ i = num_vcpus /\ mode = "linux"
  /\ ret' = 1 /\ GoTo("cleanup_vcpus")
  /\ UNCHANGED <<inputs, owned, term, threads, fds, maps>>

-----------------------------------------------------------------------------
(* main(), from the start of the threads to their end.                     *)

\* Without a stdin thread the guests run with no keyboard.
StartStdinThread ==
  /\ pc = "setup" /\ i = num_vcpus
  /\ \/ Interactive /\ stdin_thread_running' = TRUE /\ sthread' = "start"
     \/ UNCHANGED <<stdin_thread_running, sthread>>
  /\ GoTo("spawn")
  /\ UNCHANGED <<inputs, ret, owned, term, vthread, nonblock, fds, maps>>

\* Mutant: a failed pthread_create is not reported in the exit status.
SpawnForgetsStatus ==
  /\ pc = "spawn" /\ i < num_vcpus
  /\ \/ /\ vthread' = [vthread EXCEPT ![i] = "loop"]
        /\ pc' = pc /\ i' = i + 1
     \/ /\ i = 0 \/ LateSpawnMayFail
        /\ GoTo("cleanup_stdin") /\ UNCHANGED vthread
  /\ UNCHANGED <<inputs, ret, owned, term, sthread, stdin_thread_running, nonblock, fds, maps>>

SpawnVcpu ==
  /\ pc = "spawn" /\ i < num_vcpus
  /\ \/ /\ vthread' = [vthread EXCEPT ![i] = "loop"]
        /\ pc' = pc /\ i' = i + 1 /\ UNCHANGED ret
     \/ /\ i = 0 \/ LateSpawnMayFail
        /\ ret' = 1 /\ GoTo("cleanup_stdin") /\ UNCHANGED vthread
  /\ UNCHANGED <<inputs, owned, term, sthread, stdin_thread_running, nonblock, fds, maps>>

AllSpawned ==
  /\ pc = "spawn" /\ i = num_vcpus
  /\ GoTo("join") /\ UNCHANGED <<inputs, ret, owned, term, threads, fds, maps>>

\* Mutant: main() does not wait for the vCPU threads.
JoinWithoutWaiting ==
  /\ pc = "join"
  /\ GoTo("cleanup_stdin")
  /\ UNCHANGED <<inputs, ret, owned, term, threads, fds, maps>>

JoinVcpu ==
  /\ pc = "join"
  /\ \/ i < num_vcpus /\ vthread[i] = "done" /\ pc' = pc /\ i' = i + 1
     \/ i = num_vcpus /\ GoTo("cleanup_stdin")
  /\ UNCHANGED <<inputs, ret, owned, term, threads, fds, maps>>

\* Mutant: the stop flag is never cleared.
StopStdinForgetsFlag ==
  /\ pc = "cleanup_stdin"
  /\ GoTo(IF stdin_thread_running THEN "join_stdin" ELSE "cleanup_vcpus")
  /\ UNCHANGED <<inputs, ret, owned, term, threads, fds, maps>>

\* Mutant: the stdin thread is told to stop but not joined.
StopStdinWithoutJoin ==
  /\ pc = "cleanup_stdin"
  /\ stdin_thread_running' = FALSE
  /\ GoTo("cleanup_vcpus")
  /\ UNCHANGED <<inputs, ret, owned, term, vthread, sthread, nonblock, fds, maps>>

StopStdin ==
  /\ pc = "cleanup_stdin"
  /\ stdin_thread_running' = FALSE
  /\ GoTo(IF stdin_thread_running THEN "join_stdin" ELSE "cleanup_vcpus")
  /\ UNCHANGED <<inputs, ret, owned, term, vthread, sthread, nonblock, fds, maps>>

JoinStdin ==
  /\ pc = "join_stdin" /\ sthread = "done"
  /\ GoTo("cleanup_vcpus")
  /\ UNCHANGED <<inputs, ret, owned, term, threads, fds, maps>>

-----------------------------------------------------------------------------
(* main(), the release of what it owns.                                    *)

\* cleanup_vcpu(): unmap what is mapped, close what looks like a descriptor.
cleanup_vcpu(v) ==
  /\ maps' = maps \ {<<v, "kvm_run">>, <<v, "guest_mem">>}
  /\ fds' = IF ctx[v].vcpu_fd >= 0 THEN fds \ {ctx[v].vcpu_fd} ELSE fds

CleanupVcpus ==
  /\ pc = "cleanup_vcpus"
  /\ \/ i < num_vcpus /\ cleanup_vcpu(i) /\ pc' = pc /\ i' = i + 1
     \/ i = num_vcpus /\ GoTo("cleanup_early") /\ UNCHANGED <<fds, maps>>
  /\ UNCHANGED <<inputs, ret, owned, term, threads>>

\* tcsetattr has no effect on a descriptor that is no longer open.
restore_terminal ==
  /\ pc = "cleanup_early"
  /\ raw' = (raw /\ ~(termios_saved /\ STDIN_FILENO \in fds))
  /\ termios_saved' = FALSE
  /\ GoTo("close")
  /\ UNCHANGED <<inputs, ret, owned, threads, fds, maps>>

CloseGlobals ==
  /\ pc = "close"
  /\ fds' = fds \ {kvm_fd, vm_fd}
  /\ GoTo("exited")
  /\ UNCHANGED <<inputs, ret, owned, term, threads, maps>>

-----------------------------------------------------------------------------
(* The other threads.  They live until they end or main() returns.         *)

Alive == pc # "exited"

\* while (ctx->running) ioctl(KVM_RUN)
VcpuRun(v) ==
  /\ Alive /\ vthread[v] = "loop"
  /\ vthread' = [vthread EXCEPT ![v] = IF ctx[v].running THEN "guest" ELSE "done"]
  /\ UNCHANGED <<inputs, main, owned, term, sthread, stdin_thread_running, nonblock, fds, maps>>

\* The exit was handled: the loop goes on, with running kept, or cleared by
\* HLT, HC_EXIT or SHUTDOWN.
VcpuExitHandled(v) ==
  /\ Alive /\ vthread[v] = "guest"
  /\ vthread' = [vthread EXCEPT ![v] = "loop"]
  /\ \E running \in {ctx[v].running, FALSE} : ctx' = [ctx EXCEPT ![v].running = running]
  /\ UNCHANGED <<inputs, main, kvm_fd, vm_fd, term, sthread, stdin_thread_running, nonblock, fds, maps>>

\* KVM_RUN failed or the handler returned -1: the thread leaves the loop.
VcpuExitFatal(v) ==
  /\ Alive /\ vthread[v] = "guest"
  /\ vthread' = [vthread EXCEPT ![v] = "done"]
  /\ UNCHANGED <<inputs, main, owned, term, sthread, stdin_thread_running, nonblock, fds, maps>>

StdinStep(from, to) ==
  /\ Alive /\ sthread = from /\ sthread' = to
  /\ UNCHANGED <<inputs, main, owned, term, vthread, stdin_thread_running, fds, maps>>

\* The flags are read once, before O_NONBLOCK is set: nonblock is FALSE then.
StdinStart == StdinStep("start", "loop") /\ nonblock' = TRUE

StdinCheck ==
  /\ StdinStep("loop", IF stdin_thread_running THEN "poll" ELSE "restore")
  /\ UNCHANGED nonblock

\* select with its 100 ms timeout, then read, push and, for Linux, IRQ 4
\* through vm_fd.  It comes back whether or not there was input.
StdinPoll == StdinStep("poll", "loop") /\ UNCHANGED nonblock

StdinRestore == StdinStep("restore", "done") /\ nonblock' = FALSE

-----------------------------------------------------------------------------
MainStep ==
  \/ set_raw_mode \/ init_kvm
  \/ \E stage \in SetupStages : SetupVcpu(stage)
  \/ LinuxSinglestepFails
  \/ StartStdinThread \/ SpawnVcpu \/ AllSpawned \/ JoinVcpu
  \/ StopStdin \/ JoinStdin
  \/ CleanupVcpus \/ restore_terminal \/ CloseGlobals

VcpuStep(v) == VcpuRun(v) \/ VcpuExitHandled(v) \/ VcpuExitFatal(v)

StdinThreadStep == StdinStart \/ StdinCheck \/ StdinPoll \/ StdinRestore

\* The process is gone.
Exited == pc = "exited" /\ UNCHANGED vars

Next ==
  \/ MainStep
  \/ \E v \in Vcpu : VcpuStep(v)
  \/ StdinThreadStep
  \/ Exited

Spec == Init /\ [][Next]_vars

\* The host schedules every runnable thread.  Nothing is assumed of a guest:
\* it may run, or keep exiting to the VMM, for ever.
Fairness ==
  /\ WF_vars(MainStep)
  /\ WF_vars(StdinThreadStep)

FairSpec == Spec /\ Fairness

-----------------------------------------------------------------------------
(* Properties.                                                             *)

Labels == {"raw", "init_kvm", "setup", "spawn", "join", "cleanup_stdin", "join_stdin",
           "cleanup_vcpus", "cleanup_early", "close", "exited"}

Contexts == [vcpu_fd : {-1, 0} \cup {VcpuFd(v) : v \in Vcpu},
             kvm_run : {"NULL", "MAP_FAILED", "mapped"},
             guest_mem : {"NULL", "MAP_FAILED", "mapped"},
             running : BOOLEAN]

(* The variables of main() and of the kernel have their types.             *)
TypeOK ==
  /\ mode \in Modes /\ tty \in BOOLEAN /\ num_vcpus \in 1..MAX_VCPUS
  /\ pc \in Labels /\ i \in 0..num_vcpus /\ ret \in {0, 1}
  /\ ctx \in [Vcpu -> Contexts]
  /\ kvm_fd \in {-1, KvmFd} /\ vm_fd \in {-1, VmFd}
  /\ termios_saved \in BOOLEAN /\ raw \in BOOLEAN
  /\ stdin_thread_running \in BOOLEAN /\ nonblock \in BOOLEAN
  /\ vthread \in [Vcpu -> {"none", "loop", "guest", "done"}]
  /\ sthread \in {"none", "start", "loop", "poll", "restore", "done"}
  /\ fds \subseteq StdFds \cup {KvmFd, VmFd} \cup {VcpuFd(v) : v \in Vcpu}
  /\ maps \subseteq Vcpu \X {"kvm_run", "guest_mem"}

VcpuLive(v) == vthread[v] \in {"loop", "guest"} /\ Alive

StdinLive == sthread \notin {"none", "done"} /\ Alive

(* No thread outlives what it works on: while vcpu_thread runs, its        *)
(* vcpu_fd is open and its kvm_run and guest_mem are mapped, and while the *)
(* stdin thread runs stdin and the vm_fd it pulses IRQ 4 through are open. *)
LiveThreadsOwnResources ==
  /\ \A v \in Vcpu : VcpuLive(v) =>
       /\ VcpuFd(v) \in fds
       /\ {<<v, "kvm_run">>, <<v, "guest_mem">>} \subseteq maps
  /\ StdinLive => {STDIN_FILENO, VmFd} \subseteq fds

(* Whatever call failed, main() returns with every descriptor it opened    *)
(* closed and every mapping undone.                                        *)
NoLeak == pc = "exited" => fds \subseteq StdFds /\ maps = {}

(* main() returns with the terminal as it found it: the comments at        *)
(* cleanup_early and at restore_terminal().                                *)
TerminalRestored == pc = "exited" => ~raw

(* main() returns with stdin back in blocking mode.                        *)
StdinFlagsRestored == pc = "exited" => ~nonblock

(* Exit status 0 means every vCPU thread was started and has ended.        *)
SuccessMeansAllRan == pc = "exited" /\ ret = 0 => \A v \in Vcpu : vthread[v] = "done"

(* No join waits for ever on the VMM's account: pthread_join is called for *)
(* threads that were started, and for the stdin thread after its flag was  *)
(* cleared, which nobody sets again.                                       *)
JoinsEnd ==
  /\ pc = "join" => \A v \in Vcpu : vthread[v] # "none"
  /\ pc = "join_stdin" => sthread # "none" /\ ~stdin_thread_running

(* If every vCPU thread that runs ends, main() returns: no join waits for  *)
(* a thread that cannot end.                                               *)
MainReturns ==
  (\A v \in 0 .. MAX_VCPUS - 1 :
     (v \in Vcpu /\ VcpuLive(v)) ~> (v \in Vcpu => vthread[v] = "done"))
  => <>(pc = "exited")

-----------------------------------------------------------------------------
(* The inductive invariant behind the safety properties: what main() owns  *)
(* and which threads exist at each label.                                  *)

SetupLabels == {"raw", "init_kvm", "setup"}
RunLabels == {"spawn", "join", "cleanup_stdin", "join_stdin"}
ReleaseLabels == {"cleanup_vcpus", "cleanup_early", "close", "exited"}

\* Context v is complete and its resources exist.
Ready(v) ==
  /\ ctx[v].vcpu_fd = VcpuFd(v) /\ VcpuFd(v) \in fds
  /\ {<<v, "kvm_run">>, <<v, "guest_mem">>} \subseteq maps

\* A descriptor is open only while the variable that holds it says so.
DescriptorsKnown ==
  /\ KvmFd \in fds => kvm_fd = KvmFd
  /\ VmFd \in fds => vm_fd = VmFd
  /\ \A v \in Vcpu : VcpuFd(v) \in fds => ctx[v].vcpu_fd = VcpuFd(v)
  /\ pc \in RunLabels => VmFd \in fds
  /\ pc = "setup" => VmFd \in fds

\* Setup completes the contexts in order; the rest are still zero.
SetupProgress ==
  /\ pc \in {"raw", "init_kvm"} =>
       fds = StdFds /\ maps = {} /\ \A v \in Vcpu : ctx[v] = ZeroContext
  /\ pc = "setup" => \A v \in Vcpu : IF v < i THEN Ready(v) ELSE ctx[v] = ZeroContext
  /\ pc \in RunLabels => \A v \in Vcpu : Ready(v)

\* The release loop has freed the contexts before i.
ReleaseProgress ==
  /\ pc = "cleanup_vcpus" =>
       \A v \in Vcpu : v < i => VcpuFd(v) \notin fds /\ \A p \in {"kvm_run", "guest_mem"} : <<v, p>> \notin maps
  /\ pc \in {"cleanup_early", "close", "exited"} =>
       maps = {} /\ \A v \in Vcpu : VcpuFd(v) \notin fds
  /\ pc = "exited" => KvmFd \notin fds /\ VmFd \notin fds

\* Which vCPU threads exist.  A spawn that fails at the first vCPU leaves
\* none behind; at a later one it leaves the earlier threads running.
VcpuThreads ==
  /\ pc \in SetupLabels => \A v \in Vcpu : vthread[v] = "none"
  /\ pc = "spawn" => \A v \in Vcpu : v >= i => vthread[v] = "none"
  /\ pc = "join" => \A v \in Vcpu : v < i => vthread[v] = "done"
  /\ ~LateSpawnMayFail =>
       (pc \in {"cleanup_stdin", "join_stdin"} \cup ReleaseLabels =>
          \A v \in Vcpu : vthread[v] \in {"none", "done"})
  /\ ret = 0 /\ pc \in {"cleanup_stdin", "join_stdin"} \cup ReleaseLabels =>
       \A v \in Vcpu : vthread[v] = "done"
  /\ pc \in {"raw", "init_kvm", "setup", "spawn", "join"} => ret = 0

\* Whether the stdin thread exists, and who set O_NONBLOCK.
StdinThread ==
  /\ pc \in SetupLabels => sthread = "none"
  /\ pc \in ReleaseLabels => sthread \in {"none", "done"}
  /\ pc \in {"spawn", "join", "cleanup_stdin"} /\ ~stdin_thread_running => sthread = "none"
  /\ nonblock => sthread \in {"loop", "poll", "restore"}

\* stdin is closed by nobody but the release of a context that was never
\* prepared, and so not at all if only the last vCPU's setup may fail.
StdinOpen ==
  /\ pc \in SetupLabels \cup RunLabels => StdFds \subseteq fds
  /\ ~EarlySetupMayFail =>
       /\ STDIN_FILENO \in fds
       /\ pc = "cleanup_vcpus" => \A v \in Vcpu : ctx[v].vcpu_fd # STDIN_FILENO

\* The terminal is raw only while its settings are saved.
TerminalSaved ==
  /\ pc \notin {"close", "exited"} => (raw => termios_saved)
  /\ ~EarlySetupMayFail => (pc \in {"close", "exited"} => ~raw)

(* What main() owns and which threads exist, label by label.               *)
IInv ==
  /\ TypeOK
  /\ DescriptorsKnown /\ SetupProgress /\ ReleaseProgress
  /\ VcpuThreads /\ StdinThread /\ StdinOpen /\ TerminalSaved
=============================================================================
