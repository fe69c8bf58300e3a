# Verification of mini-kvm

mini-kvm is a small virtual machine monitor for x86 on Linux KVM
(`src/kvm-vmm-x86/src`), with guests of its own: bare real-mode programs, a
port of the 1K OS and, with `--linux`, a Linux bzImage. This directory holds
TLA+ models of the VMM, TLC runs on small instances, and TLAPS proofs. Line
numbers of the code each definition models are in `PROJECT.json` under `map`.

## The system

One process. `main()` parses the options, puts the terminal into raw mode,
opens KVM, prepares one context per guest, starts one thread per vCPU and one
that reads stdin, joins them and releases everything.

| Part | State | Operations | Interacts with | What makes it hard | Correct means |
|---|---|---|---|---|---|
| Life cycle (`main`, `init_kvm`, `setup_*`, `cleanup_vcpu`) | `vcpus[]`, descriptors, mmaps, saved termios, thread flags | set up, spawn, join, three cleanup labels | owns what all threads use | every call may fail half-way; threads still running at cleanup | no thread outlives what it uses; everything released; terminal and stdin flags restored; main returns |
| Keyboard ring | `buffer`, `head`, `tail` under a mutex | push, pop, has_data | stdin thread pushes, vCPU threads pop | full and empty at the wrap-around | a FIFO that drops only when full |
| Hypercall console (port 0x500) | `pending_getchar`, `getchar_result` per context | EXIT, PUTCHAR, GETCHAR (an OUT and a later IN) | ring, `user.c` in the guest | several vCPUs share one ring; a character is in flight between two exits | each character to one guest, in order; a buffered character ends the wait |
| Exit loop (`vcpu_thread`, `handle_vm_exit`) | `running`, `exit_count`, single-step budget | one case per exit reason | KVM | exits in any order between pause and resume; ignored ioctl failures | KVM steps exactly while the budget says so |
| COM1 and IRQ 4 (`uart_write`, `uart_read`, stdin thread) | `ier`, `lcr`, `mcr`, `dll`, `dlh`, the ring | eight registers, `pulse_irq_line` | Linux serial driver | edge-triggered wake-ups, one pulse per batch; no pulses at all without the stdin thread; the register a port means depends on DLAB | order both ways, no lost wake-up, no endless handler |
| Guest memory (`setup_vcpu_memory`, `load_guest_binary`, page tables, segments) | one memory and slot per vCPU, CR3, RIP, segment bases | prepare a context in one of four modes | processor | offsets in one vCPU's memory are used as guest-physical addresses of the VM | what the VMM writes does not collide; a vCPU runs its own guest and reaches only its own memory |
| Linux boot (`linux_boot.c`, boot GDT, IVT) | setup code, kernel, initrd, command line, boot_params, E820 | load, place, choose one of three entries | guest memory, processor | sizes taken from the image's header; the zero page is filled in by four functions in turn | no two areas overlap; the first instruction is the protocol's; header, command line, initrd and E820 are where and what the kernel is told |
| Ports other than the above | `cmos_index`, `port92` | PIC, PIT, CMOS, PS/2, PCI stubs | Linux | - | answers keep Linux going |
| CPUID, MSR, debug output | tables from KVM | filter, print | KVM | - | - |
| 1K OS kernel (`os-1k/kernel.c`) | `procs[]`, page tables, bump allocator | boot, `alloc_pages`, `map_page`, `create_process`, entry into the shell | runs on the VMM's page tables until CR3 is loaded | fixed addresses (stack, VMM tables) against sizes that the build decides | the VMM's tables survive; address spaces are separate; the shell with its stack is mapped and comes up |
| 1K OS shell and library (`shell.c`, `user.c`, `common.c`) | line buffer, `pos`, mode | `readline`, menu, echo, calculator, `%d` | hypercall console | a full buffer, backspaces, LF or CR, the ends of int | lines are what was typed; every line is answered; the calculator is right |
| Bare guests (`guest/*.S`), initramfs | - | programs of the guests | console, Linux | - | - |
| `experimental/HLeOs`, `experimental/hypervisor` | queues, allocators, page tables | separate kernels in Rust | none of the above | - | - |

`PROJECT.json` lists the parts with their status under `components` and, under
`hazards`, what a test would hardly reach, each at its line and with the
properties aimed at it.

## Modules

| Module | Models | Used by |
|---|---|---|
| `LossyFifo` | abstract: a bounded queue whose Put is dropped when it is full | `KeyboardBuffer` |
| `KeyboardBuffer` | the ring buffer; `FifoSpec` is `LossyFifo` with the contents of the ring as its queue | consoles |
| `HypercallConsole` | stdin thread, ring and hypercalls of several vCPUs, with the guests as lists of port instructions | |
| `UartCom1` | the 16550 with the stdin thread and IRQ 4; the guest's driver is external | |
| `VcpuExit` | one vCPU's KVM_RUN loop and its single-step budget | |
| `VmmLifecycle` | `main()` and, as far as they use what it owns, its threads | |
| `GuestMemory` | slots, binary, tables and registers, at byte addresses, and what the processor makes of them | `LinuxBoot` |
| `LinuxBoot` | extends `GuestMemory` with the Linux branch of `main()`, `linux_boot.c` and the three entries | |
| `OneKKernel` | `kernel_main`: allocator, page tables, the two processes | `OneKOs` |
| `OneKShell` | `readline`, the shell's loops and `printf("%d")`, against a user who types | `OneKOs` |
| `OneKOs` | the 1K OS as one guest: kernel, then shell | |
| `KeyboardBufferProofs`, `VmmLifecycleProofs`, `VcpuExitProofs`, `UartCom1Proofs`, `HypercallConsoleProofs`, `LinuxBootProofs` (with `GuestMemory`), `OneKOsProofs` | theorems about the module of that name | |
| `SequenceLemmas` | facts about sequences, least and greatest elements, and recursive functions over naturals | proofs |
| `MC...` | instances for TLC | |

`HypercallConsole` and `UartCom1` compose the ring with its users through
`INSTANCE KeyboardBuffer`; both take the ring's actions as they are. The
definitions keep the names of the C functions where one action is one function.

How the code corresponds:

* `VmmLifecycle`. `pc` is the place in `main()` (the labels are the code's), `i`
  its loop variable, `ctx` the part of `vcpus[]` that cleanup looks at. The
  kernel's view is `fds`, `maps`, `raw` and `nonblock`. Setting up one vCPU is one
  action with a parameter, the call at which it stopped; `ContextAt` says what
  the context holds then. A context nobody prepared is all zero, as a static
  array is. `init_kvm`, `pthread_create` and the setup of a vCPU may fail;
  `EarlySetupMayFail` and `LateSpawnMayFail` say whether the two kinds of failure
  that the cleanup does not cope with are among them (see the findings).
* `HypercallConsole`. One exit of a vCPU is one action. What the guest does with
  the byte it reads is part of `handle_hypercall_in`: `user.c` sign-extends it
  and repeats the OUT if it is -1. `got`, `accepted` and `popped` are history.
* `VcpuExit`. An exit is counted, ends a pause unless it is a DEBUG exit, and is
  then handled. What the port handlers do is in the two console modules.
  `stepping` is KVM's side of the single-step setting.
* `UartCom1`. One register access is one action of the guest's driver:
  start-up, then an interrupt handler that drains the receiver, sends one
  character and repeats until IIR reports nothing. It stands for the code of
  Linux that `uart_read` and `uart_write` are written for, and is marked external.
  `linux_serial_input_enabled` is the code's flag. `Init` is where the vCPU starts:
  `main()` has set the flag and created the stdin thread, or failed to, cleared the
  flag and gone on (`StartStdinThread`; `VmmLifecycle` has the same branch as an
  action). It is cleared again only after the vCPU was joined. Every pulse depends
  on it, so without the thread the device raises no interrupt, and `NoLostWakeup`
  (for the transmitter) and `TransmitterDrains` have it as their hypothesis.
* `GuestMemory`. `image` is the list of the VMM's writes to guest memory, with
  first and last byte; an address shows the last write that covers it. `Translate`
  walks the tables as the guest would see them, through the slots of all vCPUs.
* `LinuxBoot`. The same state plus the options, the bzImage and boot_params. A
  bzImage is its size, whether the three checks accept it, and the header fields
  that the code uses. Each function of `linux_boot.c` is an action, in the order
  in which `main()` calls them; a failing check leaves the writes made before it.
  boot_params is both an area of `image` and, as a record, what is in it.
* `OneKKernel`. Addresses are page numbers. `create_process` is a step for each
  of its loops, so that `kpc` is the place in it. An address space is the list of
  the ranges that `map_page` was called for and of the pages that were allocated
  for it, with their purpose. `build` says where `__free_ram` lies and how large
  `shell.bin` is. The disk is part of the zeroed bss: `fs_init` finds no file.
* `OneKShell`. One character is one step of `readline`, and the step that ends a
  line includes what the caller does with it, up to the next prompt. `last` is
  history: what was typed, what `readline` made of it, and the answer. Messages
  are names; numbers are printed digit by digit as `printf` does. How characters
  travel to the guest is `HypercallConsole`'s subject; here they arrive in order.

## Runs

| Run | Shows |
|---|---|
| `lifecycle` | one to three guests of any mode, failures in `init_kvm`, in the last vCPU's setup and in the first `pthread_create`: `LiveThreadsOwnResources`, `NoLeak`, `TerminalRestored`, `StdinFlagsRestored`, `SuccessMeansAllRan`, `JoinsEnd`, and `MainReturns` if the guests end |
| `lifecycle_setup_fails` | finding: an earlier vCPU's setup fails |
| `lifecycle_spawn_fails` | finding: a later thread cannot be started |
| `keyboard_buffer` | the ring implements `LossyFifo` |
| `console_user` | two guests on one ring that overflows, one of them possibly ended by an unknown hypercall: `NothingLostOrRepeated`, `BufferedCharDelivered` |
| `console_hctest` | finding: `guest/hctest.S` does not reach its exit |
| `vcpu_exit` | all orders of exits, failing ioctls included: `SteppingMatchesBudget`, `NoStepBeyondBudget` |
| `vcpu_exit_limit` | finding: the limit on exits is never applied |
| `uart_com1` | `ReceiverKeepsOrder`, `TransmitterKeepsOrder`; `NoLostWakeup` and `HandlerProgress`, and what they are for, `ReceiverWakesDriver`, `TransmitterDrains`, `HandlerReturns`; with and without a stdin thread, except what is said of the transmitter, which needs one |
| `guest_memory` | four real-mode guests, one with paging or in long mode, or Linux: `ImageIntact`, `RunsOwnGuest`, `IsolatedMemory`; for Linux `StartsAtEntry`, `BootInfoFound`, `InitrdPlaced`, `MemoryMapTrue`, `CommandLineEnds` |
| `guest_memory_paging` | finding: two guests with `--paging` share vCPU 0's memory |
| `onek_os` | `BootTablesAlive`, `AddressSpacesSeparate`, `ShellMapped`, `ShellComesUp`; then a session: `LinesAsTyped`, `CalculatorCorrect`, `LineAnswered` |

Run one with `tlc -config Lifecycle.cfg MCVmmLifecycle`.

### Bounds

* Ring: 3 or 4 slots instead of 256 (2 or 3 characters fit), inputs longer than
  that, so that it wraps around and overflows. Bytes above 127 and 0xFF are among
  the inputs. Inputs have no repetition, so that a character identifies itself.
* Lifecycle: up to 3 vCPUs (the code allows 4): a first, a middle and a last one.
* `VcpuExit`: a budget of 4 steps instead of 2000, and enough exits to use it up
  with a pause before and after each.
* `UartCom1`: three characters in, in batches of at most two, two out; starts with
  the stdin thread and without it.
* `GuestMemory`: the real addresses and sizes; binaries of one byte, just below
  the first table, of the whole memory, and one byte more. Binaries that fit the
  memory but reach into the tables (above 1020 KB with `--paging`, above 4 KB in
  long mode) are accepted by `load_guest_binary` and damaged afterwards; they are
  excluded from the run and listed as a hazard.
* `LinuxBoot`: the real addresses and 256 MB. Kernels with 0, 39 and 127 setup
  sectors (127 is the last that stays below the command line), up to the whole
  memory and one byte more, each failing check; initrds of 0 and 1 byte, one byte
  more than a page, ending exactly where the kernel's `init_size` does, one byte
  more, and larger than the memory; command lines of 0, 255, 256 and 300
  characters. `init_size` is never smaller than the kernel.
* `OneKOs`: `__free_ram` at page 24, as built, and at 240, the last with which
  the allocator stays below the VMM's tables; a shell of one and of two pages (as
  built, 5992 bytes, and the most that the fixed stack leaves room for). Buffers
  of 4 and 12 characters instead of 8 and 64, and `INT_MAX` is 127, so that lines
  overrun the buffer and results leave int. Menu lines are all those
  of up to five characters over a quit, a choice and a backspace, and some more.

### Fairness

The host schedules every runnable thread: weak fairness of `main()` and of the
stdin thread (`VmmLifecycle`), of the stdin thread and of each vCPU thread
(`HypercallConsole`), of the stdin thread and of the guest's driver (`UartCom1`).
The guest's vCPU thread runs (`OneKOs`): the kernel goes on, the shell starts and
prompts, and a typed key is read. `select` has a timeout of 100 ms, so the stdin
thread always comes back to its flag. Guests are not assumed to end: `MainReturns`
has that as its hypothesis. Nobody is assumed to type.

## Proofs

`KeyboardBufferProofs`, for every `Size > 1` and set of characters:

* `TypeCorrect`: the indices stay in range.
* `Refinement`: `Spec => FifoSpec`. A push appends to `Contents` or, if
  `Size - 1` are buffered, leaves it; a pop takes its head; both are shown with
  the wrap-around written as a case distinction (`Slot`) rather than as `%`.

`VmmLifecycleProofs`, for every `MAX_VCPUS`, set of modes and failures:

* `Inductive`: `IInv` holds always. The properties are not inductive: that all
  descriptors are closed at the end depends on which contexts were filled when
  the failure happened. `IInv` says label by label what exists: setup fills the
  contexts in order and the rest are zero (`SetupProgress`), an open descriptor
  is known to the variable that cleanup closes (`DescriptorsKnown`), the release
  loop has freed the contexts before `i` (`ReleaseProgress`), which threads exist
  (`VcpuThreads`, `StdinThread`), who may close stdin (`StdinOpen`), and that the
  terminal is raw only while its settings are saved (`TerminalSaved`).
* `TypeCorrect`, `Released` (`NoLeak`), `BlockingAgain` (`StdinFlagsRestored`),
  `StatusHonest` (`SuccessMeansAllRan`): without further assumptions, the failures
  of the two findings included.
* `ThreadsOwnResources`: if no thread after the first fails to start.
* `RawModeEnds`: if no vCPU before the last fails to be set up.
* `JoinsComeBack` (`JoinsEnd`): main() joins only threads that were started, and the
  stdin thread only after clearing its flag. `Started` adds that the threads before
  `i` exist while others are spawned, and that the flag is set only for a thread.
* `MainGoesForward`: every step of main() goes to a later label or one vCPU on, and
  a stdin thread that is to end goes straight to its end.

`VcpuExitProofs`, for every budget and any number of exits:

* `SteppingFollowsBudget` (`SteppingMatchesBudget`): it is inductive once a step
  is known to be an exit (`StepsAreExits`), which bounds the counters. The resume
  that every exit other than DEBUG goes through is one lemma (`ResumeKeeps`).
* `BudgetIsFinal` (`NoStepBeyondBudget`): an action property, also when
  `KVM_SET_GUEST_DEBUG` fails.

`UartCom1Proofs`, for every ring size, input and list of bytes to send:

* `ReceiverCorrect` and `TransmitterCorrect`. `UartInv` adds what the order
  depends on: the divisor latch is open exactly between two writes of the start-up
  (`LatchClosed`), so that offset 0 is a data register whenever the driver uses it
  as one, and Data Ready stays true from the read of LSR to the read of RBR
  (`ReadReady`), whatever the stdin thread does in between.
* `SilentWithoutStdin`: without the stdin thread nothing that the driver sends by
  interrupt is printed. The invariant is `InputOK`: the flag says whether the
  thread exists, and without it no edge is ever latched and the handler never runs.
* `WakeupsKept` (`NoLostWakeup`): inductive with `UartInv` and `InputOK`, once it is known which
  interrupts are enabled where (`IerOK`): the receiver's from the end of the start-up
  on, and the transmitter's while there is something to send.
* `HandlerEnds` (`HandlerProgress`): `Work` is a natural number, lowered by every
  access of the handler and not raised by the stdin thread. It weighs what may still
  be pushed, what is in the ring, what is to be sent, and the place in the loop.

`HypercallConsoleProofs`, for every number of vCPUs, ring size and input:

* `RingConserves`: what was accepted is what was popped, followed by what is in
  the ring, for every list of port instructions in the guests (`ConsoleInv`).
* `NothingLost` (`NothingLostOrRepeated`): under `UserCode`, that guests read as
  `user.c` does, with the IN right behind its OUT. `UserInv` says that a result is
  pending exactly before the IN (`Handshake`) and that what a vCPU took is what its
  guest got and what is on its way (`Delivered`). A guest that issues a second OUT
  before its IN loses the first character; that is why the hypothesis is there.

Both consoles use the ring through the lemmas of `KeyboardBufferProofs` on the
effect of push and pop on `Contents`.

`LinuxBootProofs`, for every set of binary sizes, bzImages, command lines and
initrds, at the code's own addresses:

* Without hypotheses: `InitrdWellPlaced`, `MemoryMapCorrect`. `BootInv` knows at
  each step which writes may be in memory (`LinuxImage`) and which fields of
  boot_params are set (`ParamsOK`).
* Under `DocumentedUse` (modes with page tables run one guest, without which
  finding 5 refutes it): `GuestsIsolated`, `OwnGuestRuns`. `LayoutInv` adds the
  same for the other modes, and that the area of the page tables is cleared before
  they are written (`ClearedFirst`).
* Under `BootProtocol` as well: `LinuxStarts`, `LinuxFindsBootInfo`,
  `CommandLineComplete`; and under `GuestsFit` (binaries end below the tables of
  their mode) `ImagesStayIntact`. `BootProtocol` is what the protocol says of a
  bzImage: at most 64 KB of setup, an entry at the start of the kernel,
  `init_size` not smaller than it, the loader's fields zero. `load_linux_kernel`
  checks none of this.

What an address shows is the last write that covers it. The proofs find it as
the greatest index of a non-empty set of writes, and need only that areas of
different kinds are apart.

`OneKOsProofs`, for every place of `__free_ram`, size of `shell.bin`, buffer and line:

* `SpacesSeparate` (`AddressSpacesSeparate`): without hypotheses, also while an
  address space is built and when memory runs out.
* `TablesSurvive` (`BootTablesAlive`, and that the kernel never panics): under
  `RoomBelowTables`, that the pages of both processes end below 0x100.
* `ShellIsMapped` (`ShellMapped`): under `StackFits`, that the shell has at most two
  pages; only the stack needs it (`ImageIsMapped`).

The invariant of these three is `Layout`. Saying that pages are distinct is not inductive: the
next page depends on how many were handed out, and for what. As the allocator
only counts up and `create_process` works in a fixed order, `Layout` says instead
what an address space is after `m` ranges (`Laid`), entry by entry, and the
properties follow by arithmetic. (As an invariant, TLC finds it true on the
instance of `onek_os` and on sizes with which the kernel panics.)

* `ReadlineCorrect` (`LinesAsTyped`), `BufferHolds` (at most `bufsz - 1`
  characters, so that the NUL has room): without hypotheses. The property looks at
  a whole line, `readline` at one keystroke, so `ShellInv` says for the keystrokes
  read so far that the buffer is what is left of them or, once full, of those up to
  the first that filled it. It needs how one keystroke changes what is left. For a
  backspace that is not in the definition: it rests on `Balanced`, that behind a
  kept character as many are left as there are more characters than backspaces.

* `CalculatorIsCorrect` (`CalculatorCorrect`): for an int of every size and every line.
  The property defines numbers, quotients and spellings by themselves, not by
  the code's loops; the proof connects the two.
  - Reading: `Number` stops where the property's number ends, and its value so far
    is a prefix of the number's (`PrefixBound`). If int can hold the number, `Wrap`
    changes nothing on the way, except for the magnitude of the smallest int, which
    wraps to the smallest int and stays it when negated.
  - Printing: the digits written and the rest make up the number at every turn of
    the second loop (`DigitsValue`), and the first digit is 0 only for 0.
  - `Quotient` leaves a remainder smaller than `b` with the sign of `a`
    (`QuotientCorrect`).
  The recursive functions are unfolded once (`...Unfolds`, from `RecursionUpTo` in
  `SequenceLemmas`), and what they compute follows from the least position where it fails.
* `KernelComesUp`: every step of `kernel_main` lowers a natural number (`BootWork`);
  it ends in the shell or a panic. `ShellStarts`: under `StackFits` the
  shell starts with its menu.
* `ReadLinesAreAnswered`: with the last keystroke of a line its answer is there, and
  keystrokes are taken one at a time.

The hypotheses that are not assumptions of a module are stated in the proof
modules, and the passing runs' instances satisfy them. The assumptions of the
modules are types, sizes above one for rings and buffers, one vCPU for Linux
(`main()` sets it), and no Enter inside a typed line. Facts about all natural
numbers rest on the least one of a non-empty set (`SequenceLemmas`), not on an
induction rule.

Every safety invariant and action property of a passing run is proved. Only
model-checked are the liveness properties, which rest on fairness. The safety facts
they depend on are proved; TLC checks that fairness does the rest:

| Liveness property | Proved |
|---|---|
| `MainReturns` | `JoinsComeBack`, `MainGoesForward` |
| `ReceiverWakesDriver`, `TransmitterDrains` | `WakeupsKept`, `HandlerEnds` |
| `HandlerReturns` | `HandlerEnds` |
| `LineAnswered` | `ReadLinesAreAnswered` |
| `ShellComesUp` | `KernelComesUp`, `TablesSurvive` (no panic), `ShellStarts` |
| `BufferedCharDelivered` | `NothingLost` (what a vCPU took from the ring, its guest gets) |

## Findings

1. **stdin closed by cleanup** (`main.c:3247`). When the setup of a vCPU fails,
   the contexts after it are still zero, and `cleanup_vcpu` closes their
   `vcpu_fd`, 0. `restore_terminal` then has no terminal to restore.
2. **memory unmapped under running threads** (`main.c:3216`). A failed
   `pthread_create` goes to the cleanup without joining the threads started before.
3. **hypercall numbers** (`main.c:1946`). `hctest.S` and `user.c` use numbers that
   the VMM does not know; it ends the vCPU without a message.
4. **dead safety limit** (`main.c:2584`). Every case of the switch returns before it.
5. **guests with paging share memory** (`main.c:1466`). CR3, page tables and entry
   point of every vCPU refer to guest-physical 0 to 4 MB, vCPU 0's slot.

Also seen while modelling, without a run:

* When the stdin thread cannot be created, `main()` warns "Keyboard input disabled"
  (`main.c:3189`) and clears `linux_serial_input_enabled`. `uart_write` tests the
  same flag before it raises a transmitter interrupt (`main.c:2025`, `2040`), although
  "On real 16550, enabling THRE while THR is empty triggers an IRQ immediately"
  (`main.c:2042`): the guest's interrupt-driven output stops as well. This is proved
  (`SilentWithoutStdin`).
* Exit status 0 does not say that a guest ended by itself; `handle_io` ignores
  `io.count` (string instructions); `O_NONBLOCK` on stdin reaches stdout too when
  both are the same terminal.
* A command line of 256 characters or more is copied without its NUL and with 256
  characters, while the warning says 255 (`main.c:3087`). It still ends, because
  the byte behind it was never written (`CommandLineEnds`).
* `--linux-entry setup` hands the kernel the file's own header, without the
  command line and the initrd that were loaded (`main.c:1802`). `--linux-rsi hdr`
  points the kernel 0x1f1 bytes into the zero page.
* `setup_sects = 0` is taken for 4 sectors in all (`linux_boot.c:170`); the boot
  protocol means 4 after the boot sector.
* The initrd is kept clear of `init_size` bytes from 1 MB on; a relocatable
  64-bit kernel may decompress itself at its `pref_address` instead. `syssize` is
  not compared with the file: a truncated kernel is loaded.
* The calculator ends with `q`; the example in the repository's `README.md:145`
  ends it with `quit`, so that the example's `0` is taken for an expression too
  and the guest goes on waiting.
* The shell runs at privilege 0 (`user_entry` only jumps): the U bit of the page
  tables protects nothing. Dividing the smallest int by -1 faults the guest.
* The frame that `create_process` lays out has the return address where
  `switch_context` pops EBP, so the first switch would return to 0; and `fs_flush`
  of two full files is larger than the disk. Neither has a caller.

## Plan

1. *(done)* Ring, life cycle, consoles, exit loop, memory layout; the proofs above.
2. *(done)* Linux boot on top of `GuestMemory`; the 1K OS from boot to shell.
3. *(done)* Proofs about the exit loop, both consoles, guest memory with Linux
   boot, and the 1K OS kernel.
4. *(done)* Proofs about `readline` and the calculator, and the variant functions
   and wake-up invariants behind the liveness properties.
5. Left: a typed invariant for `GuestMemory` and `OneKShell`, which state none.

## Not modelled

* Timer thread: its `pthread_create` is commented out.
* The 1K OS's `yield`, `switch_context`, `handle_syscall`, file operations, kernel
  `getchar` and timer handler: nothing calls them in this build. The shell's
  system calls go to the VMM, and the VMM raises no interrupt for this guest.
* The other ports: `cmos_index` is never read, `port92` always has its A20 bit,
  the rest of the answers are constants.
* CPUID and MSR set-up: KVM's tables with bits added, without decisions; that the
  calls may fail is part of `VmmLifecycle`. Debug output: formatting.
* Option parsing, beyond the options being inputs of the models.
* The demos of the shell and the bare guests that only compute and print; the
  initramfs utilities, which are calls into Linux.
* `experimental/`: separate kernels in Rust that do not run on this VMM. Research
  notes and presentation material.
