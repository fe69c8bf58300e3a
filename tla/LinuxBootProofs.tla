-------------------------- MODULE LinuxBootProofs --------------------------
(***************************************************************************)
(* Theorems about LinuxBoot, GuestMemory included: for every number of     *)
(* guests, binary, bzImage, initrd and command line.                       *)
(*                                                                         *)
(* The argument is a layout: every write of the VMM is of a kind that has  *)
(* its own place (Binaries, LinuxLoaded, Tables), so the order of the      *)
(* writes matters only inside the area that is cleared before the          *)
(* long-mode page tables go into it (ClearedFirst), and what an address    *)
(* shows follows from where it is.                                         *)
(***************************************************************************)
EXTENDS LinuxBoot, SequenceLemmas, TLAPS

Kinds ==
  {"binary", "gdt", "idt", "page_dir", "page_table", "cleared", "pml4", "pdpt", "pd",
   "boot_params", "stub", "ivt", "setup", "kernel", "initrd", "cmdline", "handler"}

\* A kernel or a command line may be empty, and end before it starts.
Writes == [vcpu : Nat, first : Nat, last : Int, what : Kinds]

Has(s, w) == \E n \in DOMAIN s : s[n] = w

-----------------------------------------------------------------------------
(* How far the set-up is, and what the vCPUs configured so far start with. *)

SetupSteps == {"memory", "load", "kernel", "params", "initrd", "entry", "configure"}

Progress ==
  /\ config \in Configs
  /\ pc \in SetupSteps \cup {"run", "failed"}
  /\ i \in 0 .. config.vcpus
  /\ pc # "run" => i < config.vcpus
  /\ pc = "run" => i = config.vcpus
  /\ pc \in {"kernel", "params", "initrd", "entry"} => config.mode = "linux"
  /\ slot = [v \in Vcpu |-> IF v < i \/ (v = i /\ pc # "memory") THEN v * mem_size ELSE None]

StartedLinux ==
  IF opts.entry = "boot64"
  THEN [walk |-> "four_level", base |-> 0, cr3 |-> Pml4, rip |-> entry_point,
        rsi |-> LINUX_BOOT_PARAMS_ADDR]
  ELSE IF opts.entry = "code32"
  THEN [walk |-> "flat", base |-> 0, cr3 |-> None, rip |-> entry_point,
        rsi |-> LINUX_BOOT_PARAMS_ADDR + (IF opts.rsi = "hdr" THEN \h1f1 ELSE 0)]
  ELSE [walk |-> "segment", base |-> REAL_MODE_KERNEL_ADDR, cr3 |-> None, rip |-> \h200, rsi |-> 0]

Started(v) ==
  IF config.mode = "real"
  THEN [walk |-> "segment", base |-> CsBase(v), cr3 |-> None, rip |-> 0, rsi |-> 0]
  ELSE IF config.mode = "paging"
  THEN [walk |-> "two_level", base |-> 0, cr3 |-> PageDir, rip |-> KernelBase + \h1000, rsi |-> 0]
  ELSE IF config.mode = "long"
  THEN [walk |-> "four_level", base |-> 0, cr3 |-> Pml4, rip |-> load_offset, rsi |-> 0]
  ELSE StartedLinux

RegsOK == regs = [v \in Vcpu |-> IF v < i THEN Started(v) ELSE Unset]

-----------------------------------------------------------------------------
(* Where the writes are.                                                   *)

\* A binary that load_guest_binary accepts.
Binaries ==
  {Write(v, load_offset, fsize, "binary") :
     v \in Vcpu, fsize \in {s \in BinarySizes[config.mode] : s + load_offset <= mem_size}}

Range32 == {Write(0, GDT_ADDR, GDT_TOTAL_SIZE, "gdt"),
            Write(0, GDT_ADDR + GDT_TOTAL_SIZE, 2048, "idt")}

TablesPaging ==
  Range32 \cup {Write(0, PageDir, 4096, "page_dir"), Write(0, PageTable0, 4096, "page_table"),
                Write(0, PageTable512, 4096, "page_table")}

TablesLong ==
  {Write(0, Pml4, \h4000, "cleared"), Write(0, Pml4, 4096, "pml4"), Write(0, Pdpt, 4096, "pdpt"),
   Write(0, Pd, 4096, "pd"), Write(0, \h5000, 40, "gdt")}

BootParams == Write(0, LINUX_BOOT_PARAMS_ADDR, 4096, "boot_params")

LinuxLow ==
  {BootParams, Write(0, \h1000, 1, "stub"), Write(0, \h1100, 12, "stub"),
   Write(0, \h1200, 12, "stub"), Write(0, 0, 1024, "ivt")}

SetupCode(f) == Write(0, REAL_MODE_KERNEL_ADDR, SetupSize(f.hdr), "setup")

KernelCode(f) == Write(0, KERNEL_LOAD_ADDR, f.size - SetupSize(f.hdr), "kernel")

InitrdPlaces(f) ==
  {w \in Writes : /\ w.vcpu = 0 /\ w.what = "initrd" /\ w.first % 4096 = 0 /\ w.last < mem_size
                  /\ w.first >= KERNEL_LOAD_ADDR + f.hdr.init_size}

CommandLine == Write(0, COMMAND_LINE_ADDR, CmdlineLen, "cmdline")

\* What is in memory when the vCPU of Linux is configured.
LinuxLoaded == LinuxLow \cup {SetupCode(file), KernelCode(file), CommandLine} \cup InitrdPlaces(file)

TablesLinux ==
  IF opts.entry = "boot64" THEN TablesLong
  ELSE IF opts.entry = "code32" THEN Range32 \cup {Write(0, \h7000, 15, "handler")}
  ELSE {}

\* What is added when the only vCPU of a mode with tables is configured.
Tables ==
  IF config.mode = "paging" THEN TablesPaging
  ELSE IF config.mode = "long" THEN TablesLong
  ELSE IF config.mode = "linux" THEN TablesLinux
  ELSE {}

\* A bzImage that load_linux_kernel accepts.
KernelFits(f) ==
  /\ Bootable(f)
  /\ f.size >= SetupSize(f.hdr)
  /\ REAL_MODE_KERNEL_ADDR + SetupSize(f.hdr) <= mem_size
  /\ KERNEL_LOAD_ADDR + (f.size - SetupSize(f.hdr)) <= mem_size

AfterKernel == {"params", "initrd", "entry", "configure", "run"}

\* The image of Linux, step by step.
LinuxImage ==
  config.mode = "linux" =>
    /\ pc \in {"memory", "load"} => image = << >>
    /\ pc = "kernel" => image \in Seq(LinuxLow) /\ Has(image, BootParams)
    /\ pc \in AfterKernel =>
         /\ file \in BzImages /\ KernelFits(file)
         /\ image \in Seq(IF pc = "run" THEN LinuxLoaded \cup TablesLinux ELSE LinuxLoaded)
         /\ Has(image, BootParams) /\ Has(image, SetupCode(file)) /\ Has(image, KernelCode(file))
    /\ pc \in {"configure", "run"} /\ opts.cmdline # None => Has(image, CommandLine)
    /\ pc = "run" => \A w \in TablesLinux : Has(image, w)

\* What boot_params says.
ParamsOK ==
  /\ opts \in Options
  /\ config.mode = "linux" =>
       /\ params = [hdr |-> params.hdr, e820 |-> params.e820] /\ params.hdr \in Headers
       /\ pc \in {"memory", "load", "kernel"} => params.hdr = NoHeader
       /\ pc \in AfterKernel =>
            /\ params.hdr.setup_sects = file.hdr.setup_sects
            /\ params.hdr.init_size = file.hdr.init_size
            /\ params.hdr.code32_start = DefaultStart(file.hdr).code32_start
            /\ pc # "params" /\ opts.cmdline # None => params.hdr.cmd_line_ptr = COMMAND_LINE_ADDR
            /\ pc = "params" \/ opts.cmdline = None => params.hdr.cmd_line_ptr = file.hdr.cmd_line_ptr
            /\ pc \in {"params", "initrd"} \/ opts.initrd = None =>
                 params.hdr.ramdisk_size = file.hdr.ramdisk_size
       /\ pc \in {"initrd", "entry", "configure", "run"} =>
            params.hdr.initrd_addr_max = INITRD_ADDR_MAX /\ params.e820 = E820Map
       /\ pc \in {"entry", "configure", "run"} /\ opts.initrd # None =>
            /\ params.hdr.ramdisk_size = opts.initrd
            /\ Has(image, Write(0, params.hdr.ramdisk_image, opts.initrd, "initrd"))

BootInv ==
  /\ Progress /\ RegsOK /\ image \in Seq(Writes) /\ LinuxImage /\ ParamsOK /\ InitrdPlaced

-----------------------------------------------------------------------------
(* The guests without an operating system, and the layout of all.          *)

(* The modes with page tables are for one guest, as documented.            *)
DocumentedUse == \A c \in Configs : c.mode # "real" => c.vcpus = 1

\* The image of the other guests.
GuestImage ==
  config.mode # "linux" =>
    /\ image \in Seq(IF pc = "run" THEN Binaries \cup Tables ELSE Binaries)
    /\ \A v \in Vcpu : v < i \/ (v = i /\ pc = "configure") =>
         \E w \in Binaries : w.vcpu = v /\ Has(image, w)
    /\ pc = "run" => \A w \in Tables : Has(image, w)

\* The area of the page tables is cleared before they are written.
ClearedFirst ==
  pc = "run" =>
    \A n, m \in DOMAIN image :
      n < m /\ image[m].what = "cleared" => image[n].what \notin {"pml4", "pdpt", "pd", "gdt"}

FetchedOK ==
  /\ DOMAIN fetched = Vcpu
  /\ \A v \in Vcpu : fetched[v] # None /\ config.mode # "linux" =>
       pc = "run" /\ fetched[v] = v * mem_size + load_offset

\* Also when loading Linux fails.
FailedImage ==
  config.mode = "linux" /\ pc = "failed" => \A n \in DOMAIN image : image[n].vcpu = 0

LayoutInv ==
  BootInv /\ GuestImage /\ FailedImage /\ ClearedFirst /\ FetchedOK /\ IsolatedMemory

(* Binaries that end below the tables, as those of the repository do.      *)
GuestsFit ==
  /\ \A s \in BinarySizes["paging"] : s + \h1000 <= 4 * 1024 * 1024 => s + \h1000 <= PageDir
  /\ \A s \in BinarySizes["long"] : s + \h1000 <= 4 * 1024 * 1024 => s + \h1000 <= Pml4

(* What the Linux boot protocol says of a bzImage that fits into memory:   *)
(* a setup of at most 64 KB, an entry point at the start of the kernel,    *)
(* which is longer than the offset of its 64-bit entry and not longer than *)
(* init_size, and the loader's fields still zero.                          *)
BootProtocol ==
  \A f \in BzImages :
    LET kernel_size == f.size - SetupSize(f.hdr)
    IN Bootable(f) /\ kernel_size >= 0 /\ kernel_size <= 255 * 1024 * 1024 =>
         /\ f.hdr.setup_sects <= 127
         /\ f.hdr.code32_start \in {0, KERNEL_LOAD_ADDR}
         /\ \h200 < kernel_size /\ kernel_size <= f.hdr.init_size
         /\ f.hdr.cmd_line_ptr = 0 /\ f.hdr.ramdisk_size = 0

-----------------------------------------------------------------------------
(* Facts about lists of writes.                                            *)

LEMMA ConcatFacts ==
  ASSUME NEW S, NEW s \in Seq(S), NEW t \in Seq(S)
  PROVE  /\ s \o t \in Seq(S)
         /\ \A w : Has(s, w) \/ Has(t, w) => Has(s \o t, w)
         /\ \A n \in DOMAIN (s \o t) :
              \/ n \in DOMAIN s /\ (s \o t)[n] = s[n]
              \/ n - Len(s) \in DOMAIN t /\ n > Len(s) /\ (s \o t)[n] = t[n - Len(s)]
<1>1. /\ Len(s) \in Nat /\ Len(t) \in Nat /\ DOMAIN s = 1 .. Len(s) /\ DOMAIN t = 1 .. Len(t)
      /\ s \o t \in Seq(S) /\ Len(s \o t) = Len(s) + Len(t)
      /\ DOMAIN (s \o t) = 1 .. Len(s) + Len(t)
      /\ \A n \in 1 .. Len(s) + Len(t) :
           (s \o t)[n] = IF n <= Len(s) THEN s[n] ELSE t[n - Len(s)]
  BY ConcatProperties, LenProperties
<1>2. ASSUME NEW w, Has(s, w) \/ Has(t, w) PROVE Has(s \o t, w)
  <2>1. CASE Has(s, w)
    BY <1>1, <2>1 DEF Has
  <2>2. CASE Has(t, w)
    <3>1. PICK k \in 1 .. Len(t) : t[k] = w
      BY <1>1, <2>2 DEF Has
    <3>2. Len(s) + k \in 1 .. Len(s) + Len(t) /\ ~(Len(s) + k <= Len(s)) /\ (Len(s) + k) - Len(s) = k
      BY <1>1
    <3>3. (s \o t)[Len(s) + k] = w
      BY <1>1, <3>1, <3>2
    <3>4. QED
      BY <1>1, <3>2, <3>3 DEF Has
  <2>3. QED
    BY <1>2, <2>1, <2>2
<1>3. ASSUME NEW n \in DOMAIN (s \o t)
      PROVE  \/ n \in DOMAIN s /\ (s \o t)[n] = s[n]
             \/ n - Len(s) \in DOMAIN t /\ n > Len(s) /\ (s \o t)[n] = t[n - Len(s)]
  BY <1>1
<1>4. QED
  BY <1>1, <1>2, <1>3

(* The last write to an address is the greatest of those that cover it.    *)
Covers(n, v, a) == image[n].vcpu = v /\ image[n].first <= a /\ a <= image[n].last

LEMMA ContentFacts ==
  ASSUME image \in Seq(Writes), NEW v, NEW a, NEW k \in DOMAIN image, Covers(k, v, a)
  PROVE  /\ Content(v, a) \in DOMAIN image /\ Content(v, a) # None
         /\ Covers(Content(v, a), v, a) /\ k <= Content(v, a)
<1> DEFINE T == {n \in DOMAIN image : image[n].vcpu = v /\ image[n].first <= a /\ a <= image[n].last}
<1>1. DOMAIN image = 1 .. Len(image) /\ Len(image) \in Nat
  BY LenProperties
<1>2. T \subseteq 0 .. Len(image) /\ k \in T
  BY <1>1 DEF Covers
<1>3. Content(v, a) = Max(T)
  BY <1>2 DEF Content
<1>4. Max(T) \in T /\ \A y \in T : Max(T) >= y
  <2> HIDE DEF T
  <2>1. \E x \in T : \A y \in T : x >= y
    BY <1>1, <1>2, GreatestElement
  <2>2. QED
    BY <2>1 DEF Max
<1>5. Max(T) \in 1 .. Len(image) /\ Max(T) >= k
  BY <1>1, <1>2, <1>4
<1>6. Covers(Max(T), v, a)
  BY <1>4 DEF Covers
<1> HIDE DEF T
<1>7. QED
  BY <1>1, <1>2, <1>3, <1>5, <1>6 DEF None

LEMMA NoContent ==
  ASSUME NEW v, NEW a, \A n \in DOMAIN image : ~Covers(n, v, a)
  PROVE  Content(v, a) = None
  BY DEF Content, Covers

-----------------------------------------------------------------------------
(* What no step changes.                                                   *)
LEMMA Fixed ==
  ASSUME [Next]_vars
  PROVE  /\ config' = config /\ opts' = opts
         /\ Vcpu' = Vcpu /\ mem_size' = mem_size /\ load_offset' = load_offset
<1>1. config' = config /\ opts' = opts
  BY DEF Next, MemoryNext, vars, linuxVars, setup_vcpu_memory, load_guest_binary,
         setup_vcpu_context, Fetch, Access, Failed, memoryVars, PrepareLinux, load_linux_kernel,
         setup_linux_boot_params, load_initrd, ChooseEntry, setup_linux_vcpu_context
<1>2. QED
  BY <1>1 DEF Vcpu, mem_size, load_offset

LEMMA ModeFacts ==
  ASSUME config \in Configs
  PROVE  /\ config.mode \in Modes /\ config.vcpus \in 1..4
         /\ config.mode = "linux" => config.vcpus = 1 /\ mem_size = 268435456 /\ load_offset = 4096
         /\ config.mode = "real" => mem_size = 262144 /\ load_offset = 0
         /\ config.mode \in {"paging", "long"} => mem_size = 4194304 /\ load_offset = 4096
  BY ConfigsAssumption DEF MAX_VCPUS, mem_size, load_offset, Modes

-----------------------------------------------------------------------------
(* BootInv, part by part.                                                  *)

LEMMA BootInit == Init => BootInv
<1> SUFFICES ASSUME Init PROVE BootInv
  OBVIOUS
<1>1. /\ config \in Configs /\ pc = "memory" /\ i = 0 /\ slot = [v \in Vcpu |-> None]
      /\ image = << >> /\ regs = [v \in Vcpu |-> Unset]
      /\ opts \in Options /\ params = [hdr |-> NoHeader, e820 |-> << >>]
  BY DEF Init, MemoryInit
<1>2. config.vcpus \in 1..4
  BY <1>1, ModeFacts
<1>3. \A v \in Vcpu : v \in 0..3 /\ ~(v < 0)
  BY <1>2 DEF Vcpu
<1>4. Progress
  BY <1>1, <1>2, <1>3 DEF Progress, SetupSteps
<1>5. RegsOK
  BY <1>1, <1>3 DEF RegsOK
<1>6. image \in Seq(Writes) /\ LinuxImage /\ InitrdPlaced
  BY <1>1 DEF LinuxImage, InitrdPlaced, AfterKernel
<1>7. ParamsOK
  BY <1>1 DEF ParamsOK, NoHeader, Headers, AfterKernel
<1>8. QED
  BY <1>4, <1>5, <1>6, <1>7 DEF BootInv

LEMMA ProgressStep ==
  ASSUME Progress, [Next]_vars
  PROVE  Progress'
<1>1. /\ config' = config /\ Vcpu' = Vcpu /\ mem_size' = mem_size
  BY Fixed
<1>2. /\ config \in Configs /\ config.vcpus \in 1..4
      /\ config.mode = "linux" => config.vcpus = 1
      /\ Vcpu = 0 .. config.vcpus - 1
  BY ModeFacts DEF Progress, Vcpu
<1>3. CASE setup_vcpu_memory
  <2>1. /\ pc = "memory" /\ pc' = "load" /\ i' = i /\ i < config.vcpus /\ i \in 0 .. config.vcpus
        /\ slot' = [slot EXCEPT ![i] = i * mem_size]
    BY <1>3 DEF setup_vcpu_memory, Progress, SetupSteps
  <2>2. slot' = [v \in Vcpu |-> IF v < i \/ v = i THEN v * mem_size ELSE None]
    BY <1>2, <2>1 DEF Progress
  <2>3. QED
    BY <1>1, <1>2, <2>1, <2>2 DEF Progress, SetupSteps
<1>4. ASSUME UNCHANGED <<i, slot>>, pc # "memory", pc' # "memory",
             pc' \in SetupSteps \cup {"run", "failed"},
             pc' \in {"kernel", "params", "initrd", "entry"} => config.mode = "linux",
             pc' = "run" <=> pc = "run"
      PROVE  Progress'
  BY <1>1, <1>4 DEF Progress
<1>5. CASE load_guest_binary
  BY <1>4, <1>5 DEF load_guest_binary, SetupSteps
<1>6. CASE PrepareLinux
  BY <1>4, <1>6 DEF PrepareLinux, SetupSteps
<1>7. CASE load_linux_kernel
  <2>1. pc = "kernel" /\ UNCHANGED <<i, slot>> /\ pc' \in {"params", "failed"}
    BY <1>7 DEF load_linux_kernel
  <2>2. QED
    BY <1>4, <2>1 DEF Progress, SetupSteps
<1>8. CASE setup_linux_boot_params
  BY <1>4, <1>8 DEF setup_linux_boot_params, SetupSteps, Progress
<1>9. CASE load_initrd
  <2>1. pc = "initrd" /\ UNCHANGED <<i, slot>> /\ pc' \in {"entry", "failed"}
    BY <1>9 DEF load_initrd
  <2>2. QED
    BY <1>4, <2>1 DEF Progress, SetupSteps
<1>10. CASE ChooseEntry
  BY <1>4, <1>10 DEF ChooseEntry, SetupSteps, Progress
<1>11. CASE setup_vcpu_context \/ setup_linux_vcpu_context
  <2>1. /\ pc = "configure" /\ i' = i + 1 /\ slot' = slot
        /\ pc' = IF i + 1 = config.vcpus THEN "run" ELSE "memory"
    <3>1. CASE setup_vcpu_context
      BY <3>1 DEF setup_vcpu_context
    <3>2. CASE setup_linux_vcpu_context
      BY <1>2, <3>2 DEF setup_linux_vcpu_context, Progress, SetupSteps
    <3>3. QED
      BY <1>11, <3>1, <3>2
  <2>2. i \in 0 .. config.vcpus /\ i < config.vcpus
    BY <2>1 DEF Progress, SetupSteps
  <2>3. slot = [v \in Vcpu |-> IF v < i \/ v = i THEN v * mem_size ELSE None]
    BY <2>1 DEF Progress
  <2>4. \A v \in Vcpu : (v < i \/ v = i) <=> (v < i + 1 \/ (v = i + 1 /\ pc' # "memory"))
    BY <1>2, <2>1, <2>2
  <2>5. slot = [v \in Vcpu |-> IF v < i + 1 \/ (v = i + 1 /\ pc' # "memory") THEN v * mem_size ELSE None]
    BY <2>3, <2>4
  <2>6. i' \in 0 .. config.vcpus /\ (pc' = "memory" => i' < config.vcpus) /\ (pc' = "run" => i' = config.vcpus)
    BY <1>2, <2>1, <2>2
  <2>7. pc' \in SetupSteps \cup {"run", "failed"} /\ pc' \in {"memory", "run"}
    BY <2>1 DEF SetupSteps
  <2>8. QED
    BY <1>1, <1>2, <2>1, <2>5, <2>6, <2>7 DEF Progress, SetupSteps
<1>12. CASE (\E v \in Vcpu : Fetch(v) \/ Access(v)) \/ Failed \/ UNCHANGED vars
  <2>1. UNCHANGED <<i, slot, pc>>
    BY <1>12 DEF Fetch, Access, Failed, memoryVars, vars
  <2>2. QED
    BY <1>1, <2>1 DEF Progress
<1>13. QED
  BY <1>3, <1>5, <1>6, <1>7, <1>8, <1>9, <1>10, <1>11, <1>12 DEF Next, MemoryNext

LEMMA RegsStep ==
  ASSUME Progress, RegsOK, [Next]_vars
  PROVE  RegsOK'
<1>1. config' = config /\ opts' = opts /\ Vcpu' = Vcpu /\ mem_size' = mem_size
      /\ load_offset' = load_offset
  BY Fixed
<1>2. /\ config.vcpus \in 1..4 /\ Vcpu = 0 .. config.vcpus - 1 /\ i \in 0 .. config.vcpus
      /\ config.mode = "linux" => config.vcpus = 1
  BY ModeFacts DEF Progress, Vcpu
<1>3. params' = params => \A v : Started(v)' = Started(v)
  BY <1>1 DEF Started, StartedLinux, CsBase, entry_point
<1>4. ASSUME UNCHANGED <<i, regs, params>> PROVE RegsOK'
  BY <1>1, <1>3, <1>4 DEF RegsOK
<1>5. ASSUME UNCHANGED <<i, regs>>, pc \in {"kernel", "params", "initrd"} PROVE RegsOK'
  <2>1. i = 0
    BY <1>2, <1>5 DEF Progress, SetupSteps
  <2>2. regs' = [v \in Vcpu |-> Unset] /\ \A v \in Vcpu : ~(v < i')
    BY <1>2, <1>5, <2>1 DEF RegsOK
  <2>3. QED
    BY <1>1, <2>2 DEF RegsOK
<1>6. ASSUME i' = i + 1, i \in Vcpu, params' = params, regs' = [regs EXCEPT ![i] = Started(i)]
      PROVE  RegsOK'
  <2>1. \A v \in Vcpu : v < i + 1 <=> v < i \/ v = i
    BY <1>2
  <2>2. regs' = [v \in Vcpu |-> IF v < i + 1 THEN Started(v) ELSE Unset]
    <3>1. \A v \in Vcpu : regs'[v] = IF v < i + 1 THEN Started(v) ELSE Unset
      BY <1>6, <2>1 DEF RegsOK
    <3>2. regs' = [v \in Vcpu |-> regs'[v]]
      BY <1>6 DEF RegsOK
    <3>3. QED
      BY <3>1, <3>2
  <2>3. QED
    BY <1>1, <1>3, <1>6, <2>2 DEF RegsOK
<1>7. CASE setup_vcpu_context /\ UNCHANGED linuxVars
  <2>1. pc = "configure" /\ i \in Vcpu /\ i' = i + 1 /\ params' = params
    BY <1>2, <1>7 DEF setup_vcpu_context, linuxVars, Progress, SetupSteps
  <2>2. regs' = [regs EXCEPT ![i] = Started(i)]
    <3>1. CASE config.mode = "real"
      BY <1>7, <3>1 DEF setup_vcpu_context, setup_realmode, Started
    <3>2. CASE config.mode = "paging"
      BY <1>7, <3>2 DEF setup_vcpu_context, configure_protected_mode, FlatBase, Started
    <3>3. CASE config.mode = "long"
      BY <1>7, <3>3 DEF setup_vcpu_context, setup_vcpu_longmode, Started
    <3>4. QED
      BY <1>7, <3>1, <3>2, <3>3 DEF setup_vcpu_context
  <2>3. QED
    BY <1>6, <2>1, <2>2
<1>8. CASE setup_linux_vcpu_context
  <2>1. pc = "configure" /\ config.mode = "linux" /\ i \in Vcpu /\ i' = i + 1 /\ params' = params
    BY <1>2, <1>8 DEF setup_linux_vcpu_context, linuxVars, Progress, SetupSteps
  <2>2. regs' = [regs EXCEPT ![i] = Started(i)]
    <3>1. CASE opts.entry = "boot64"
      BY <1>8, <2>1, <3>1 DEF setup_linux_vcpu_context, configure_linux_boot64_entry, Started, StartedLinux
    <3>2. CASE opts.entry = "code32"
      BY <1>8, <2>1, <3>2 DEF setup_linux_vcpu_context, configure_linux_code32_entry, BootSegmentBase, Started, StartedLinux
    <3>3. CASE opts.entry = "setup"
      BY <1>8, <2>1, <3>3 DEF setup_linux_vcpu_context, configure_linux_setup_entry, Started, StartedLinux
    <3>4. QED
      BY <1>8, <3>1, <3>2, <3>3 DEF setup_linux_vcpu_context
  <2>3. QED
    BY <1>6, <2>1, <2>2
<1>9. CASE setup_vcpu_memory /\ UNCHANGED linuxVars
  BY <1>4, <1>9 DEF setup_vcpu_memory, linuxVars
<1>10. CASE load_guest_binary /\ UNCHANGED linuxVars
  BY <1>4, <1>10 DEF load_guest_binary, linuxVars
<1>11. CASE PrepareLinux \/ ChooseEntry
  BY <1>4, <1>11 DEF PrepareLinux, ChooseEntry, linuxVars
<1>12. CASE load_linux_kernel \/ setup_linux_boot_params \/ load_initrd
  BY <1>5, <1>12 DEF load_linux_kernel, setup_linux_boot_params, load_initrd
<1>13. CASE ((\E v \in Vcpu : Fetch(v) \/ Access(v)) \/ Failed) /\ UNCHANGED linuxVars
  BY <1>4, <1>13 DEF Fetch, Access, Failed, memoryVars, linuxVars
<1>14. CASE UNCHANGED vars
  BY <1>4, <1>14 DEF vars
<1>15. QED
  BY <1>7, <1>8, <1>9, <1>10, <1>11, <1>12, <1>13, <1>14 DEF Next, MemoryNext

-----------------------------------------------------------------------------
(* The writes of each step.                                                *)

LEMMA Addresses ==
  /\ GDT_ADDR \in Nat /\ GDT_TOTAL_SIZE \in Nat /\ GDT_ADDR + GDT_TOTAL_SIZE \in Nat
  /\ PageDir \in Nat /\ PageTable0 \in Nat /\ PageTable512 \in Nat
  /\ Pml4 \in Nat /\ Pdpt \in Nat /\ Pd \in Nat
  /\ LINUX_BOOT_PARAMS_ADDR \in Nat /\ REAL_MODE_KERNEL_ADDR \in Nat /\ KERNEL_LOAD_ADDR \in Nat
  /\ COMMAND_LINE_ADDR \in Nat
  BY SMT DEF GDT_ADDR, GDT_TOTAL_SIZE, PageDir, PageTable0, PageTable512, Pml4, Pdpt, Pd,
             LINUX_BOOT_PARAMS_ADDR, REAL_MODE_KERNEL_ADDR, KERNEL_LOAD_ADDR, COMMAND_LINE_ADDR

LEMMA WriteFacts ==
  \A v \in Nat, first \in Nat, size \in Int, what \in Kinds : Write(v, first, size, what) \in Writes
  BY DEF Write, Writes

LEMMA KindsOfWrites ==
  ASSUME Progress
  PROVE  /\ TablesPaging \subseteq Writes /\ TablesLong \subseteq Writes /\ LinuxLow \subseteq Writes
         /\ Range32 \subseteq Writes /\ Write(0, \h7000, 15, "handler") \in Writes
         /\ config.mode # "linux" => Binaries \subseteq Writes
         /\ \A f \in BzImages : SetupCode(f) \in Writes /\ KernelCode(f) \in Writes
<1>1. TablesPaging \subseteq Writes /\ Range32 \subseteq Writes
  BY Addresses, WriteFacts, SMT DEF Kinds, TablesPaging, Range32
<1>2. TablesLong \subseteq Writes
  BY Addresses, WriteFacts, SMT DEF Kinds, TablesLong
<1>3. LinuxLow \subseteq Writes /\ Write(0, \h7000, 15, "handler") \in Writes
  BY Addresses, WriteFacts, SMT DEF Kinds, LinuxLow, BootParams
<1>4. ASSUME config.mode # "linux", NEW w \in Binaries PROVE w \in Writes
  <2>1. PICK v \in Vcpu, fsize \in BinarySizes[config.mode] : w = Write(v, load_offset, fsize, "binary")
    BY <1>4 DEF Binaries
  <2>2. config.mode \in Modes \ {"linux"} /\ config.vcpus \in 1..4 /\ load_offset \in Nat
    BY <1>4, ModeFacts DEF Progress, Modes
  <2>3. fsize \in Nat /\ v \in Nat
    BY <2>2, SizesAssumption DEF Vcpu
  <2>4. QED
    BY <2>1, <2>2, <2>3, WriteFacts, SMT DEF Kinds
<1>5. ASSUME NEW f \in BzImages PROVE SetupCode(f) \in Writes /\ KernelCode(f) \in Writes
  <2>1. f.size \in Nat /\ f.hdr.setup_sects \in 0..255
    BY BzImagesAssumption DEF Headers
  <2>2. SetupSize(f.hdr) \in Nat
    BY <2>1 DEF SetupSize
  <2>3. 0 \in Nat /\ SetupSize(f.hdr) \in Int /\ f.size - SetupSize(f.hdr) \in Int
    BY <2>1, <2>2
  <2>4. "setup" \in Kinds /\ "kernel" \in Kinds
    BY DEF Kinds
  <2>5. QED
    BY <2>3, <2>4, Addresses, WriteFacts, Zenon DEF SetupCode, KernelCode
<1>6. QED
  BY <1>1, <1>2, <1>3, <1>4, <1>5

LEMMA OptionFacts ==
  ASSUME opts \in Options
  PROVE  /\ opts.entry \in {"setup", "code32", "boot64"} /\ opts.rsi \in {"base", "hdr"}
         /\ opts.cmdline \in Nat \cup {None} /\ opts.initrd \in Nat \cup {None}
         /\ CmdlineLen \in 0..256
         /\ CmdlineLen = IF opts.cmdline + 1 <= 256 THEN opts.cmdline + 1 ELSE 256
<1>1. /\ opts.entry \in {"setup", "code32", "boot64"} /\ opts.rsi \in {"base", "hdr"}
      /\ opts.cmdline \in Nat \cup {None} /\ opts.initrd \in Nat \cup {None}
  BY OptionsAssumption DEF Options
<1>2. opts.cmdline + 1 \in Nat
  BY <1>1 DEF None
<1> DEFINE c == opts.cmdline + 1
<1>3. CmdlineLen = Min({c, 256})
  BY DEF CmdlineLen
<1>4. c \in Nat => Min({c, 256}) = IF c <= 256 THEN c ELSE 256
  <2> HIDE DEF c
  <2>1. QED
    BY DEF Min
<1>5. CmdlineLen = IF c <= 256 THEN c ELSE 256
  BY <1>2, <1>3, <1>4
<1>6. CmdlineLen \in 0..256
  BY <1>2, <1>5
<1>7. QED
  BY <1>1, <1>5, <1>6

LEMMA LinuxWrites ==
  ASSUME Progress, opts \in Options
  PROVE  /\ file \in BzImages => LinuxLoaded \subseteq Writes
         /\ TablesLinux \subseteq Writes
<1>1. CommandLine \in Writes
  <2>1. CmdlineLen \in Int
    BY OptionFacts
  <2>2. QED
    BY <2>1, Addresses, WriteFacts, SMT DEF Kinds, CommandLine
<1>2. file \in BzImages => LinuxLoaded \subseteq Writes
  BY <1>1, KindsOfWrites DEF LinuxLoaded, InitrdPlaces
<1>3. TablesLinux \subseteq Writes
  BY OptionFacts, KindsOfWrites DEF TablesLinux
<1>4. QED
  BY <1>2, <1>3

\* What is not an initrd.
Plain == {w \in Writes : w.what # "initrd"}

LEMMA PlainSeq ==
  /\ Seq(Plain) \subseteq Seq(Writes)
  /\ \A s \in Seq(Plain), t \in Seq(Plain) : s \o t \in Seq(Plain)
  /\ \A s \in Seq(Plain) : \A k \in DOMAIN s : s[k] \in Plain
<1>1. Plain \subseteq Writes
  BY DEF Plain
<1>2. Seq(Plain) \subseteq Seq(Writes)
  BY <1>1, SeqMonotonic
<1>3. \A s \in Seq(Plain), t \in Seq(Plain) : s \o t \in Seq(Plain)
  BY ConcatProperties
<1>4. \A s \in Seq(Plain) : \A k \in DOMAIN s : s[k] \in Plain
  BY ElementOfSeq, LenProperties
<1>5. QED
  BY <1>2, <1>3, <1>4

LEMMA PlainWrite ==
  ASSUME NEW v \in Nat, NEW first \in Nat, NEW size \in Int
  PROVE  \A what \in Kinds : what # "initrd" => Write(v, first, size, what) \in Plain
  BY DEF Plain, Write, Writes

LEMMA InitrdKept ==
  ASSUME InitrdPlaced, image \in Seq(Writes), NEW t \in Seq(Plain), image' = image \o t,
         file' = file, mem_size' = mem_size
  PROVE  InitrdPlaced'
<1>0. t \in Seq(Writes) /\ \A k \in DOMAIN t : t[k].what # "initrd"
  BY PlainSeq DEF Plain
<1>1. ASSUME NEW n \in DOMAIN image', image'[n].what = "initrd"
      PROVE  n \in DOMAIN image /\ image'[n] = image[n]
  BY <1>0, <1>1, ConcatFacts
<1>2. QED
  BY <1>1 DEF InitrdPlaced

ImageOK == image \in Seq(Writes) /\ LinuxImage /\ InitrdPlaced

LEMMA ImageMemory ==
  ASSUME Progress, ImageOK, [Next]_vars,
         \/ setup_vcpu_memory /\ UNCHANGED linuxVars
         \/ ((\E v \in Vcpu : Fetch(v) \/ Access(v)) \/ Failed) /\ UNCHANGED linuxVars
         \/ UNCHANGED vars
  PROVE  ImageOK'
<1>1. config' = config /\ opts' = opts /\ mem_size' = mem_size
  BY Fixed
<1>2. UNCHANGED <<image, file>> /\ (pc' = pc \/ (pc = "memory" /\ pc' = "load"))
  BY DEF setup_vcpu_memory, linuxVars, Fetch, Access, Failed, memoryVars, vars
<1>3. LinuxLoaded' = LinuxLoaded /\ TablesLinux' = TablesLinux /\ (\A f : KernelFits(f)' = KernelFits(f))
      /\ CommandLine' = CommandLine
  BY <1>1, <1>2 DEF LinuxLoaded, TablesLinux, CommandLine, CmdlineLen, KernelFits, InitrdPlaces
<1>4. LinuxImage'
  BY <1>1, <1>2, <1>3 DEF ImageOK, LinuxImage, AfterKernel
<1>5. InitrdPlaced'
  BY <1>1, <1>2 DEF ImageOK, InitrdPlaced
<1>6. QED
  BY <1>2, <1>4, <1>5 DEF ImageOK

(* The other guests: their binaries and tables, never an initrd.           *)
LEMMA ImageGuests ==
  ASSUME Progress, ImageOK, [Next]_vars, config.mode # "linux",
         load_guest_binary \/ setup_vcpu_context, UNCHANGED linuxVars
  PROVE  ImageOK'
<1>1. config' = config /\ mem_size' = mem_size
  BY Fixed
<1>2. /\ i \in Vcpu /\ i \in Nat /\ Vcpu = 0 .. config.vcpus - 1 /\ load_offset \in Nat
      /\ config.mode \in {"real", "paging", "long"} /\ file' = file
  BY ModeFacts DEF Progress, Vcpu, load_guest_binary, setup_vcpu_context, SetupSteps, Modes, linuxVars
<1>3. image \in Seq(Writes) /\ InitrdPlaced /\ image \o << >> = image
  BY ConcatEmptySeq DEF ImageOK
<1>4. ASSUME NEW t \in Seq(Plain), image' = image \o t
      PROVE  ImageOK'
  <2>1. image' \in Seq(Writes)
    BY <1>3, <1>4, PlainSeq, ConcatProperties
  <2>2. InitrdPlaced'
    BY <1>1, <1>2, <1>3, <1>4, InitrdKept
  <2>3. QED
    BY <1>1, <2>1, <2>2 DEF ImageOK, LinuxImage
<1>5. << >> \in Seq(Plain)
  OBVIOUS
<1>6. image' = image => ImageOK'
  BY <1>3, <1>4, <1>5
<1>7. CASE load_guest_binary
  <2>1. PICK fsize \in BinarySizes[config.mode] :
          image' = image \/ image' = Append(image, Write(i, load_offset, fsize, "binary"))
    BY <1>7 DEF load_guest_binary
  <2>2. fsize \in Nat
    BY <1>2, SizesAssumption DEF Modes
  <2>3. Write(i, load_offset, fsize, "binary") \in Plain
    <3>1. "binary" \in Kinds /\ "binary" # "initrd" /\ fsize \in Int
      BY <2>2 DEF Kinds
    <3>2. QED
      BY <1>2, <3>1, PlainWrite
  <2> DEFINE w == Write(i, load_offset, fsize, "binary")
  <2> HIDE DEF w
  <2>4. w \in Plain /\ w \in Writes /\ <<w>> \in Seq(Plain)
    BY <2>3 DEF w, Plain
  <2>5. CASE image' = Append(image, w)
    <3>1. image' = image \o <<w>>
      BY <1>3, <2>4, <2>5, AppendIsConcat
    <3>2. QED
      BY <1>4, <2>4, <3>1
  <2>6. QED
    BY <1>6, <2>1, <2>5 DEF w
<1>8. ASSUME NEW s \in Seq(Plain), NEW t \in Seq(Plain), image' = (image \o s) \o t
      PROVE  ImageOK'
  <2>1. s \in Seq(Writes) /\ t \in Seq(Writes) /\ s \o t \in Seq(Plain)
    BY PlainSeq
  <2>2. image' = image \o (s \o t)
    BY <1>3, <1>8, <2>1, ConcatAssociative
  <2>3. QED
    BY <1>4, <2>1, <2>2
<1>9. CASE setup_vcpu_context
  <2>1. CASE config.mode = "real"
    BY <1>6, <1>9, <2>1 DEF setup_vcpu_context, setup_realmode
  <2>2. CASE config.mode = "paging"
    <3>1. image' = (image \o Descriptors(i)) \o PageTables(i)
      BY <1>9, <2>2 DEF setup_vcpu_context, configure_protected_mode, FlatBase
    <3>2. Descriptors(i) \in Seq(Plain) /\ PageTables(i) \in Seq(Plain)
      <4>1. /\ Write(i, GDT_ADDR, GDT_TOTAL_SIZE, "gdt") \in Plain
            /\ Write(i, GDT_ADDR + GDT_TOTAL_SIZE, 2048, "idt") \in Plain
            /\ Write(i, PageDir, 4096, "page_dir") \in Plain
            /\ Write(i, PageTable0, 4096, "page_table") \in Plain
            /\ Write(i, PageTable512, 4096, "page_table") \in Plain
        BY <1>2, Addresses, SMT DEF Kinds, Plain, Writes, Write
      <4>2. QED
        BY <4>1, SMT DEF Descriptors, PageTables
    <3>3. QED
      BY <1>8, <3>1, <3>2
  <2>3. CASE config.mode = "long"
    <3>1. image' = (image \o Tables64(i)) \o <<Gdt64(i)>>
      BY <1>9, <2>3 DEF setup_vcpu_context, setup_vcpu_longmode
    <3>2. Tables64(i) \in Seq(Plain) /\ <<Gdt64(i)>> \in Seq(Plain)
      <4>1. /\ Write(i, Pml4, \h4000, "cleared") \in Plain /\ Write(i, Pml4, 4096, "pml4") \in Plain
            /\ Write(i, Pdpt, 4096, "pdpt") \in Plain /\ Write(i, Pd, 4096, "pd") \in Plain
            /\ Write(i, \h5000, 40, "gdt") \in Plain
        BY <1>2, Addresses, SMT DEF Kinds, Plain, Writes, Write
      <4>2. QED
        BY <4>1, SMT DEF Tables64, Gdt64
    <3>3. QED
      BY <1>8, <3>1, <3>2
  <2>4. QED
    BY <1>2, <2>1, <2>2, <2>3
<1>10. QED
  BY <1>7, <1>9

-----------------------------------------------------------------------------
(* Linux, step by step.                                                    *)

LinuxStage == IF pc = "run" THEN LinuxLoaded \cup TablesLinux ELSE LinuxLoaded

LEMMA LinuxFixed ==
  ASSUME config' = config, opts' = opts, file' = file, mem_size' = mem_size
  PROVE  /\ LinuxLoaded' = LinuxLoaded /\ TablesLinux' = TablesLinux /\ CommandLine' = CommandLine
         /\ KernelFits(file)' = KernelFits(file) /\ SetupCode(file)' = SetupCode(file)
         /\ KernelCode(file)' = KernelCode(file)
  BY DEF LinuxLoaded, TablesLinux, CommandLine, CmdlineLen, KernelFits, InitrdPlaces

(* The initrd is the only write of its kind.                               *)
LEMMA KindOfInitrd ==
  /\ \A w \in LinuxLow \cup TablesLinux : w.what # "initrd"
  /\ \A w \in LinuxLoaded : w.what = "initrd" => w \in InitrdPlaces(file)
<1>1. \A v, first, size, what : Write(v, first, size, what).what = what
  BY DEF Write
<1>2. \A w \in LinuxLow : w.what # "initrd"
  BY <1>1, SMT DEF LinuxLow, BootParams
<1>3. \A w \in TablesLong \cup Range32 : w.what # "initrd"
  BY <1>1, SMT DEF TablesLong, Range32
<1>4. \A w \in TablesLinux : w.what # "initrd"
  BY <1>1, <1>3, SMT DEF TablesLinux
<1>5. \A w \in {SetupCode(file), KernelCode(file), CommandLine} : w.what # "initrd"
  BY <1>1, SMT DEF SetupCode, KernelCode, CommandLine
<1>6. QED
  BY <1>2, <1>4, <1>5 DEF LinuxLoaded

LEMMA LinuxGrows ==
  ASSUME Progress, ImageOK, opts \in Options, config.mode = "linux", [Next]_vars, file' = file,
         pc \in AfterKernel, pc # "run", pc' \in AfterKernel,
         NEW t \in Seq(LinuxStage'), image' = image \o t,
         pc' \in {"configure", "run"} /\ opts.cmdline # None =>
           Has(image, CommandLine) \/ Has(t, CommandLine),
         pc' = "run" => \A w \in TablesLinux : Has(t, w)
  PROVE  ImageOK' /\ \A w : Has(image, w) \/ Has(t, w) => Has(image', w)
<1>1. config' = config /\ opts' = opts /\ mem_size' = mem_size
  BY Fixed
<1>2. /\ LinuxLoaded' = LinuxLoaded /\ TablesLinux' = TablesLinux /\ CommandLine' = CommandLine
      /\ KernelFits(file)' = KernelFits(file) /\ SetupCode(file)' = SetupCode(file)
      /\ KernelCode(file)' = KernelCode(file)
  BY <1>1, LinuxFixed
<1>3. file \in BzImages /\ KernelFits(file) /\ image \in Seq(LinuxLoaded)
  BY DEF ImageOK, LinuxImage
<1>4. /\ LinuxLoaded \subseteq LinuxStage' /\ LinuxStage' \subseteq LinuxLoaded \cup TablesLinux
      /\ LinuxStage' \subseteq Writes
  BY <1>2, <1>3, LinuxWrites DEF LinuxStage
<1>5. image \in Seq(LinuxStage')
  BY <1>3, <1>4, SeqMonotonic
<1>6. /\ image' \in Seq(LinuxStage')
      /\ \A w : Has(image, w) \/ Has(t, w) => Has(image', w)
  BY <1>5, ConcatFacts
<1>7. image' \in Seq(Writes)
  BY <1>4, <1>6, SeqMonotonic
<1>8. LinuxImage'
  BY <1>1, <1>2, <1>3, <1>6 DEF LinuxImage, LinuxStage, AfterKernel, ImageOK
<1>9. InitrdPlaced'
  <2>1. ASSUME NEW n \in DOMAIN image', image'[n].what = "initrd"
        PROVE  image'[n] \in InitrdPlaces(file)
    <3>1. image'[n] \in LinuxLoaded \cup TablesLinux
      BY <1>4, <1>6, ElementOfSeq, LenProperties
    <3>2. QED
      BY <2>1, <3>1, KindOfInitrd
  <2>2. QED
    BY <1>1, <2>1 DEF InitrdPlaced, InitrdPlaces
<1>10. QED
  BY <1>6, <1>7, <1>8, <1>9 DEF ImageOK

LEMMA LinuxSetup ==
  ASSUME Progress, config.mode = "linux", pc \in SetupSteps
  PROVE  i = 0 /\ ZeroPage = BootParams /\ mem_size = 268435456
<1>0. pc # "run"
  BY DEF SetupSteps
<1>1. i = 0
  BY <1>0, ModeFacts, SMT DEF Progress
<1>2. QED
  BY <1>1, ModeFacts DEF Progress, ZeroPage, BootParams

\* Without an initrd in the image there is nothing to place.
LEMMA NoInitrd ==
  ASSUME image' \in Seq(Plain)
  PROVE  image' \in Seq(Writes) /\ InitrdPlaced'
<1>1. \A n \in DOMAIN image' : image'[n].what # "initrd"
  BY PlainSeq DEF Plain
<1>2. QED
  BY <1>1, PlainSeq DEF InitrdPlaced

LEMMA LowIsPlain == Progress => LinuxLow \subseteq Plain
  BY KindsOfWrites, KindOfInitrd DEF Plain

LEMMA ImagePrepare ==
  ASSUME Progress, ImageOK, PrepareLinux
  PROVE  ImageOK'
<1>1. config.mode = "linux" /\ pc = "load" /\ pc' = "kernel" /\ config' = config
      /\ image' = (image \o <<ZeroPage>>) \o setup_linux_ivt
  BY DEF PrepareLinux
<1>2. i = 0 /\ ZeroPage = BootParams
  BY <1>1, LinuxSetup DEF SetupSteps
<1>3. image = << >> /\ << >> \o <<BootParams>> = <<BootParams>>
  BY <1>1 DEF ImageOK, LinuxImage
<1>4. <<BootParams>> \in Seq(LinuxLow) /\ Has(<<BootParams>>, BootParams)
  BY DEF LinuxLow, Has
<1>5. setup_linux_ivt \in Seq(LinuxLow)
  BY <1>2, SMT DEF setup_linux_ivt, LinuxLow
<1>6. image' = <<BootParams>> \o setup_linux_ivt
  BY <1>1, <1>2, <1>3
<1>7. image' \in Seq(LinuxLow) /\ Has(image', BootParams)
  BY <1>4, <1>5, <1>6, ConcatFacts
<1>8. image' \in Seq(Plain)
  BY <1>7, LowIsPlain, SeqMonotonic
<1>9. LinuxImage'
  BY <1>1, <1>7 DEF LinuxImage, AfterKernel
<1>10. QED
  BY <1>8, <1>9, NoInitrd DEF ImageOK

LEMMA ImageKernel ==
  ASSUME Progress, ImageOK, opts \in Options, load_linux_kernel
  PROVE  ImageOK'
<1>1. config.mode = "linux" /\ pc = "kernel" /\ config' = config /\ opts' = opts /\ mem_size' = mem_size
  BY DEF load_linux_kernel, Progress, mem_size
<1>2. i = 0
  BY <1>1, LinuxSetup DEF SetupSteps
<1>3. PICK f \in BzImages :
        /\ file' = f
        /\ \/ KernelFits(f) /\ pc' = "params" /\ image' = image \o <<SetupCode(f), KernelCode(f)>>
           \/ pc' = "failed" /\ image' = image \o <<SetupCode(f)>>
           \/ pc' = "failed" /\ image' = image \o << >>
  BY <1>2 DEF load_linux_kernel, KernelFits, SetupCode, KernelCode
<1>4. image \in Seq(LinuxLow) /\ Has(image, BootParams)
  BY <1>1 DEF ImageOK, LinuxImage
<1>5. image \in Seq(Plain)
  BY <1>4, LowIsPlain, SeqMonotonic
<1>6. SetupCode(f) \in Plain /\ KernelCode(f) \in Plain
  <2>1. \A v, first, size, what : Write(v, first, size, what).what = what
    BY DEF Write
  <2>2. SetupCode(f).what # "initrd" /\ KernelCode(f).what # "initrd"
    BY <2>1 DEF SetupCode, KernelCode
  <2>3. QED
    BY <2>2, KindsOfWrites DEF Plain
<1>7. <<SetupCode(f), KernelCode(f)>> \in Seq(Plain) /\ <<SetupCode(f)>> \in Seq(Plain) /\ << >> \in Seq(Plain)
  BY <1>6
<1>8. image' \in Seq(Plain)
  BY <1>3, <1>5, <1>7, PlainSeq
<1>9. CASE pc' = "failed"
  BY <1>1, <1>8, <1>9, NoInitrd DEF ImageOK, LinuxImage, AfterKernel
<1>10. CASE pc' = "params"
  <2>1. KernelFits(f) /\ image' = image \o <<SetupCode(f), KernelCode(f)>>
    BY <1>3, <1>10
  <2>2. LinuxLow \subseteq LinuxLoaded' /\ SetupCode(f) \in LinuxLoaded' /\ KernelCode(f) \in LinuxLoaded'
    BY <1>3 DEF LinuxLoaded
  <2>3. image \in Seq(LinuxLoaded') /\ <<SetupCode(f), KernelCode(f)>> \in Seq(LinuxLoaded')
    BY <1>4, <2>2, SeqMonotonic
  <2>4. Has(<<SetupCode(f), KernelCode(f)>>, SetupCode(f)) /\ Has(<<SetupCode(f), KernelCode(f)>>, KernelCode(f))
    BY DEF Has
  <2>5. /\ image' \in Seq(LinuxLoaded') /\ Has(image', BootParams)
        /\ Has(image', SetupCode(f)) /\ Has(image', KernelCode(f))
    BY <1>4, <2>1, <2>3, <2>4, ConcatFacts
  <2>6. KernelFits(f)'
    BY <1>1, <2>1 DEF KernelFits
  <2>7. /\ file' \in BzImages /\ KernelFits(file)' /\ image' \in Seq(LinuxLoaded')
        /\ Has(image', BootParams) /\ Has(image', SetupCode(file)') /\ Has(image', KernelCode(file)')
    <3>1. SetupCode(file)' = SetupCode(f) /\ KernelCode(file)' = KernelCode(f) /\ KernelFits(file)' = KernelFits(f)'
      BY <1>3 DEF SetupCode, KernelCode, KernelFits
    <3>2. QED
      BY <1>3, <2>5, <2>6, <3>1
  <2>8. LinuxImage'
    BY <1>10, <2>7 DEF LinuxImage
  <2>9. QED
    BY <1>8, <2>8, NoInitrd DEF ImageOK
<1>11. QED
  BY <1>3, <1>9, <1>10

(* The header that boot_params holds is a header.                          *)
LEMMA HeaderTypes ==
  /\ NoHeader \in Headers
  /\ \A f \in BzImages : f.hdr \in Headers /\ DefaultStart(f.hdr) \in Headers
                         /\ DefaultStart(f.hdr).setup_sects = f.hdr.setup_sects
                         /\ DefaultStart(f.hdr).init_size = f.hdr.init_size
                         /\ DefaultStart(f.hdr).cmd_line_ptr = f.hdr.cmd_line_ptr
                         /\ DefaultStart(f.hdr).ramdisk_size = f.hdr.ramdisk_size
<1>1. NoHeader \in Headers
  BY DEF NoHeader, Headers
<1>2. ASSUME NEW h \in Headers
      PROVE  /\ DefaultStart(h) \in Headers
             /\ DefaultStart(h).setup_sects = h.setup_sects /\ DefaultStart(h).init_size = h.init_size
             /\ DefaultStart(h).cmd_line_ptr = h.cmd_line_ptr
             /\ DefaultStart(h).ramdisk_size = h.ramdisk_size
  BY <1>2, Addresses DEF DefaultStart, Headers
<1>3. \A f \in BzImages : f.hdr \in Headers
  BY BzImagesAssumption
<1>4. QED
  BY <1>1, <1>2, <1>3

\* What setup_linux_boot_params and load_initrd make of a header.
SetUp(h, c) ==
  [h EXCEPT !.cmd_line_ptr = c, !.type_of_loader = 255, !.initrd_addr_max = INITRD_ADDR_MAX]

Placed(h, a, s) ==
  [h EXCEPT !.ramdisk_image = a, !.ramdisk_size = s, !.initrd_addr_max = INITRD_ADDR_MAX]

LEMMA SetUpFacts ==
  ASSUME NEW h \in Headers, NEW c \in Nat, NEW g, g = SetUp(h, c)
  PROVE  /\ g \in Headers /\ g.cmd_line_ptr = c /\ g.ramdisk_size = h.ramdisk_size
         /\ g.setup_sects = h.setup_sects /\ g.init_size = h.init_size
         /\ g.code32_start = h.code32_start /\ g.initrd_addr_max = INITRD_ADDR_MAX
<1>1. INITRD_ADDR_MAX \in Nat /\ 255 \in 0..255
  BY SMT DEF INITRD_ADDR_MAX
<1>2. SetUp(h, c) \in Headers
  <2> DEFINE l == 255
  <2>1. l \in 0..255 /\ SetUp(h, c) = [h EXCEPT !.cmd_line_ptr = c, !.type_of_loader = l,
                                               !.initrd_addr_max = INITRD_ADDR_MAX]
    BY <1>1 DEF SetUp
  <2> HIDE DEF l
  <2>2. [h EXCEPT !.cmd_line_ptr = c, !.type_of_loader = l, !.initrd_addr_max = INITRD_ADDR_MAX] \in Headers
    BY <1>1, <2>1, Zenon DEF Headers
  <2>3. QED
    BY <2>1, <2>2
<1>3. QED
  BY <1>2, SMT DEF Headers, SetUp

LEMMA PlacedFacts ==
  ASSUME NEW h \in Headers, NEW a \in Nat, NEW s \in Nat, NEW g, g = Placed(h, a, s)
  PROVE  /\ g \in Headers /\ g.ramdisk_image = a /\ g.ramdisk_size = s
         /\ g.cmd_line_ptr = h.cmd_line_ptr
         /\ g.setup_sects = h.setup_sects /\ g.init_size = h.init_size
         /\ g.code32_start = h.code32_start /\ g.initrd_addr_max = INITRD_ADDR_MAX
<1>1. INITRD_ADDR_MAX \in Nat
  BY SMT DEF INITRD_ADDR_MAX
<1>2. Placed(h, a, s) \in Headers
  BY <1>1, Zenon DEF Headers, Placed
<1>3. QED
  BY <1>2, SMT DEF Headers, Placed

LEMMA ParamsKernel ==
  ASSUME Progress, ParamsOK, load_linux_kernel
  PROVE  ParamsOK'
<1>1. config.mode = "linux" /\ pc = "kernel" /\ config' = config /\ opts' = opts
  BY DEF load_linux_kernel, Progress
<1>2. /\ params = [hdr |-> params.hdr, e820 |-> params.e820]
      /\ params.hdr \in Headers /\ opts \in Options
  BY <1>1 DEF ParamsOK
<1>3. PICK f \in BzImages :
        /\ file' = f /\ params' = [hdr |-> params'.hdr, e820 |-> params.e820]
        /\ \/ pc' = "params" /\ params'.hdr = DefaultStart(f.hdr)
           \/ pc' = "failed" /\ (params'.hdr = f.hdr \/ params'.hdr = params.hdr)
  <2>1. PICK f \in BzImages :
          LET setup_size == SetupSize(f.hdr)
              kernel_size == f.size - setup_size
              setup_ok == /\ Bootable(f)
                          /\ f.size >= setup_size
                          /\ REAL_MODE_KERNEL_ADDR + setup_size <= mem_size
              kernel_ok == setup_ok /\ KERNEL_LOAD_ADDR + kernel_size <= mem_size
          IN /\ file' = f
             /\ params' = IF Bootable(f)
                          THEN [params EXCEPT !.hdr = IF kernel_ok THEN DefaultStart(f.hdr) ELSE f.hdr]
                          ELSE params
             /\ pc' = IF kernel_ok THEN "params" ELSE "failed"
    BY DEF load_linux_kernel
  <2>2. QED
    BY <1>2, <2>1
<1>4. QED
  BY <1>1, <1>2, <1>3, HeaderTypes DEF ParamsOK, AfterKernel

LEMMA ImageParams ==
  ASSUME Progress, ImageOK, ParamsOK, [Next]_vars, setup_linux_boot_params
  PROVE  ImageOK' /\ ParamsOK'
<1>1. /\ config.mode = "linux" /\ pc = "params" /\ pc' = "initrd" /\ file' = file
      /\ config' = config /\ opts' = opts /\ opts \in Options
      /\ image' = Append(image, ZeroPage)
  BY DEF setup_linux_boot_params, Progress, ParamsOK
<1>2. ZeroPage = BootParams
  BY <1>1, LinuxSetup DEF SetupSteps
<1>3. image \in Seq(LinuxLoaded) /\ BootParams \in LinuxLoaded /\ file \in BzImages
  BY <1>1 DEF ImageOK, LinuxImage, LinuxLoaded, LinuxLow, AfterKernel
<1>4. image' = image \o <<BootParams>>
  BY <1>1, <1>2, <1>3, AppendIsConcat
<1>5. <<BootParams>> \in Seq(LinuxLoaded)
  BY <1>3
<1>6. LinuxStage' = LinuxLoaded
  BY <1>1, Fixed, LinuxFixed DEF LinuxStage
<1>7. ImageOK'
  BY <1>1, <1>4, <1>5, <1>6, LinuxGrows DEF AfterKernel
<1>8. /\ params.hdr \in Headers /\ params.hdr.setup_sects = file.hdr.setup_sects
      /\ params.hdr.init_size = file.hdr.init_size
      /\ params.hdr.code32_start = DefaultStart(file.hdr).code32_start
      /\ params.hdr.cmd_line_ptr = file.hdr.cmd_line_ptr
      /\ params.hdr.ramdisk_size = file.hdr.ramdisk_size
  BY <1>1 DEF ParamsOK, AfterKernel
<1> DEFINE c == IF opts.cmdline # None THEN COMMAND_LINE_ADDR ELSE params.hdr.cmd_line_ptr
<1>9. params' = [hdr |-> SetUp(params.hdr, c), e820 |-> E820Map]
  BY DEF setup_linux_boot_params, SetUp
<1>10. E820Map' = E820Map
  BY <1>1 DEF E820Map, mem_size
<1>11. c \in Nat
  BY <1>8, Addresses, SMT DEF Headers
<1>12. ParamsOK'
  <2>1. /\ params'.hdr \in Headers /\ params' = [hdr |-> params'.hdr, e820 |-> params'.e820]
        /\ params'.e820 = E820Map
    BY <1>8, <1>9, <1>11, SetUpFacts
  <2>2. /\ params'.hdr.setup_sects = file.hdr.setup_sects
        /\ params'.hdr.init_size = file.hdr.init_size
        /\ params'.hdr.code32_start = DefaultStart(file.hdr).code32_start
        /\ params'.hdr.cmd_line_ptr = c
        /\ params'.hdr.ramdisk_size = file.hdr.ramdisk_size
        /\ params'.hdr.initrd_addr_max = INITRD_ADDR_MAX
    BY <1>8, <1>9, <1>11, SetUpFacts
  <2>3. QED
    BY <1>1, <1>10, <2>1, <2>2, SMT DEF ParamsOK, AfterKernel
<1>13. QED
  BY <1>7, <1>12

(* The place that load_initrd computes.                                    *)
LEMMA InitrdAddrFacts ==
  ASSUME NEW end \in Nat, NEW size \in Nat, size > 0, size <= end
  PROVE  /\ InitrdAddr(end, size) \in Nat
         /\ InitrdAddr(end, size) % 4096 = 0
         /\ InitrdAddr(end, size) + size - 1 < end
<1> DEFINE a == end - size
<1>1. a \in Nat /\ a + size = end
  OBVIOUS
<1>2. \A x \in Nat : (x \div 4096) * 4096 \in Nat /\ ((x \div 4096) * 4096) % 4096 = 0 /\ (x \div 4096) * 4096 <= x
  BY SMT
<1>3. InitrdAddr(end, size) = (a \div 4096) * 4096
  BY DEF InitrdAddr
<1> HIDE DEF a
<1>4. QED
  BY <1>1, <1>2, <1>3, SMT

LEMMA ImageInitrd ==
  ASSUME Progress, ImageOK, ParamsOK, [Next]_vars, load_initrd
  PROVE  ImageOK' /\ ParamsOK'
<1>1. /\ config.mode = "linux" /\ pc = "initrd" /\ file' = file /\ opts \in Options
      /\ config' = config /\ opts' = opts
  BY DEF load_initrd, Progress, ParamsOK
<1>2. i = 0
  BY <1>1, LinuxSetup DEF SetupSteps
<1>0. mem_size = 268435456
  BY <1>1, LinuxSetup, SMT DEF SetupSteps
<1>3. /\ image \in Seq(LinuxLoaded) /\ file \in BzImages /\ image \o << >> = image
  BY <1>1, ConcatEmptySeq DEF ImageOK, LinuxImage, AfterKernel
<1>4. /\ params = [hdr |-> params.hdr, e820 |-> params.e820]
      /\ params.hdr \in Headers /\ params.hdr.initrd_addr_max = INITRD_ADDR_MAX
      /\ params.hdr.init_size = file.hdr.init_size
      /\ opts.initrd \in Nat \cup {None}
  BY <1>1, OptionFacts DEF ParamsOK, AfterKernel
<1> DEFINE size == opts.initrd
           end == Min({params.hdr.initrd_addr_max, mem_size - 1}) + 1
           load_addr == InitrdAddr(end, size)
           fits == /\ size > 0 /\ size <= mem_size /\ size <= end
                   /\ load_addr >= KERNEL_LOAD_ADDR + params.hdr.init_size
<1>5. end = 268435456
  <2>1. Min({939524095, 268435455}) = 268435455
    BY SMT DEF Min
  <2>2. QED
    BY <1>0, <1>4, <2>1, SMT DEF INITRD_ADDR_MAX
<1>6. (LinuxStage' = LinuxLoaded /\ E820Map' = E820Map) \/ pc' = "run"
  BY <1>1, Fixed, LinuxFixed DEF LinuxStage, E820Map, mem_size
<1>7. \/ size = None /\ pc' = "entry" /\ UNCHANGED <<image, params>>
      \/ /\ size # None /\ fits
         /\ image' = Append(image, Write(i, load_addr, size, "initrd"))
         /\ params' = [params EXCEPT !.hdr = Placed(params.hdr, load_addr, size)]
         /\ pc' = "entry"
      \/ size # None /\ pc' = "failed" /\ UNCHANGED <<image, params>>
  BY DEF load_initrd, Placed
<1>8. CASE size = None /\ pc' = "entry" /\ UNCHANGED <<image, params>>
  <2>0. << >> \in Seq(LinuxLoaded) /\ image' = image \o << >> /\ LinuxStage' = LinuxLoaded
    BY <1>3, <1>6, <1>8
  <2>1. ImageOK'
    BY <1>1, <1>8, <2>0, LinuxGrows DEF AfterKernel
  <2>2. ParamsOK'
    BY <1>1, <1>6, <1>8 DEF ParamsOK, AfterKernel
  <2>3. QED
    BY <2>1, <2>2
<1>9. CASE size # None /\ pc' = "failed" /\ UNCHANGED <<image, params>>
  <2>1. ImageOK'
    BY <1>1, <1>9, Fixed DEF ImageOK, LinuxImage, AfterKernel, InitrdPlaced
  <2>2. ParamsOK'
    BY <1>1, <1>9 DEF ParamsOK, AfterKernel
  <2>3. QED
    BY <2>1, <2>2
<1>10. CASE /\ size # None /\ fits
            /\ image' = Append(image, Write(i, load_addr, size, "initrd"))
            /\ params' = [params EXCEPT !.hdr = Placed(params.hdr, load_addr, size)]
            /\ pc' = "entry"
  <2>1. /\ size \in Nat /\ size > 0 /\ size <= end /\ load_addr >= KERNEL_LOAD_ADDR + file.hdr.init_size
    BY <1>4, <1>10
  <2>2. load_addr \in Nat /\ load_addr % 4096 = 0 /\ load_addr + size - 1 < 268435456
    <3>1. 268435456 \in Nat
      BY SMT
    <3>2. QED
      BY <1>5, <2>1, <3>1, InitrdAddrFacts, SMT
  <2> DEFINE w == Write(0, load_addr, size, "initrd")
  <2>3. w \in InitrdPlaces(file)
    <3> HIDE DEF load_addr, size
    <3>1. w \in Writes /\ w.vcpu = 0 /\ w.what = "initrd" /\ w.first = load_addr /\ w.last = load_addr + size - 1
      BY <2>1, <2>2, SMT DEF Write, Writes, Kinds
    <3>2. QED
      BY <1>0, <2>1, <2>2, <3>1, SMT DEF InitrdPlaces
  <2>4. w \in LinuxLoaded
    BY <2>3 DEF LinuxLoaded
  <2>5. image' = Append(image, w) /\ pc' = "entry"
    BY <1>2, <1>10
  <2>6. /\ params'.hdr = Placed(params.hdr, load_addr, size)
        /\ params' = [hdr |-> params'.hdr, e820 |-> params'.e820] /\ params'.e820 = params.e820
    <3> HIDE DEF load_addr, size
    <3>1. QED
      BY <1>4, <1>10, SMT
  <2>7. Has(<<w>>, w)
    BY DEF Has
  <2>8. params'.hdr.ramdisk_image = load_addr /\ params'.hdr.ramdisk_size = size
        /\ params'.hdr \in Headers /\ params'.hdr.initrd_addr_max = INITRD_ADDR_MAX
        /\ params'.hdr.setup_sects = params.hdr.setup_sects /\ params'.hdr.init_size = params.hdr.init_size
        /\ params'.hdr.code32_start = params.hdr.code32_start
        /\ params'.hdr.cmd_line_ptr = params.hdr.cmd_line_ptr
    <3>1. load_addr \in Nat /\ size \in Nat
      BY <2>1, <2>2, SMT
    <3> HIDE DEF load_addr, size
    <3>2. params.hdr \in Headers /\ params'.hdr = Placed(params.hdr, load_addr, size)
      BY <1>4, <2>6
    <3>3. \A h \in Headers, a \in Nat, s \in Nat : \A g : g = Placed(h, a, s) =>
            /\ g \in Headers /\ g.ramdisk_image = a /\ g.ramdisk_size = s
            /\ g.cmd_line_ptr = h.cmd_line_ptr
            /\ g.setup_sects = h.setup_sects /\ g.init_size = h.init_size
            /\ g.code32_start = h.code32_start /\ g.initrd_addr_max = INITRD_ADDR_MAX
      BY PlacedFacts
    <3>4. QED
      BY <3>1, <3>2, <3>3
  <2> HIDE DEF w
  <2>9. image' = image \o <<w>> /\ <<w>> \in Seq(LinuxLoaded)
    BY <1>3, <2>4, <2>5, AppendIsConcat
  <2>10. ImageOK' /\ Has(image', w)
    BY <1>1, <1>6, <2>5, <2>7, <2>9, LinuxGrows DEF AfterKernel
  <2>11. w = Write(0, params'.hdr.ramdisk_image, size, "initrd")
    BY <2>8 DEF w
  <2>12. ParamsOK'
    <3> HIDE DEF load_addr
    <3>1. E820Map' = E820Map
      BY <1>6, <2>5
    <3>2. QED
      BY <1>1, <1>10, <2>5, <2>6, <2>8, <2>10, <2>11, <3>1, SMT DEF ParamsOK, AfterKernel
  <2>13. QED
    BY <2>10, <2>12
<1> HIDE DEF fits, load_addr, end
<1>11. QED
  BY <1>7, <1>8, <1>9, <1>10

\* Steps that leave boot_params and the initrd alone.
LEMMA ParamsKept ==
  ASSUME Progress, ParamsOK, [Next]_vars, UNCHANGED <<file, params>>,
         \A w : Has(image, w) => Has(image', w),
         \/ config.mode # "linux"
         \/ pc' = pc
         \/ pc' = "failed"
         \/ pc \in {"memory", "load"} /\ pc' \in {"load", "kernel"}
         \/ pc \in {"entry", "configure"} /\ pc' \in {"configure", "run"}
  PROVE  ParamsOK'
<1>1. config' = config /\ opts' = opts /\ E820Map' = E820Map
  BY Fixed DEF E820Map
<1>2. CASE config.mode # "linux"
  BY <1>1, <1>2 DEF ParamsOK
<1>3. CASE pc' = pc
  BY <1>1, <1>3 DEF ParamsOK
<1>4. CASE pc' = "failed"
  BY <1>1, <1>4 DEF ParamsOK, AfterKernel
<1>5. CASE pc \in {"memory", "load"} /\ pc' \in {"load", "kernel"}
  BY <1>1, <1>5 DEF ParamsOK, AfterKernel
<1>6. CASE pc \in {"entry", "configure"} /\ pc' \in {"configure", "run"}
  BY <1>1, <1>6 DEF ParamsOK, AfterKernel
<1>7. QED
  BY <1>2, <1>3, <1>4, <1>5, <1>6

LEMMA ImageEntry ==
  ASSUME Progress, ImageOK, ParamsOK, [Next]_vars, ChooseEntry
  PROVE  ImageOK' /\ ParamsOK'
<1>1. /\ config.mode = "linux" /\ pc = "entry" /\ opts \in Options
      /\ config' = config /\ opts' = opts /\ UNCHANGED <<file, params>>
      /\ \/ pc' = "failed" /\ UNCHANGED image
         \/ /\ pc' = "configure"
            /\ image' = IF opts.cmdline = None THEN image
                        ELSE Append(image, Write(i, COMMAND_LINE_ADDR, CmdlineLen, "cmdline"))
  BY DEF ChooseEntry, Progress, ParamsOK, linuxVars
<1>2. i = 0
  BY <1>1, LinuxSetup DEF SetupSteps
<1>3. /\ image \in Seq(LinuxLoaded) /\ CommandLine \in LinuxLoaded /\ image \o << >> = image
  BY <1>1, ConcatEmptySeq DEF ImageOK, LinuxImage, LinuxLoaded, AfterKernel
<1>4. pc' # "run" => LinuxStage' = LinuxLoaded
  BY <1>1, Fixed, LinuxFixed DEF LinuxStage
<1>5. CASE pc' = "failed" /\ UNCHANGED image
  <2>1. ImageOK'
    BY <1>1, <1>5, Fixed DEF ImageOK, LinuxImage, AfterKernel, InitrdPlaced
  <2>2. QED
    BY <1>1, <1>5, <2>1, ParamsKept
<1>6. CASE pc' = "configure"
  <2>1. CASE opts.cmdline = None
    <3>1. << >> \in Seq(LinuxLoaded) /\ image' = image \o << >> /\ LinuxStage' = LinuxLoaded
      BY <1>1, <1>3, <1>4, <1>6, <2>1
    <3>2. ImageOK' /\ \A w : Has(image, w) => Has(image', w)
      BY <1>1, <1>6, <2>1, <3>1, LinuxGrows DEF AfterKernel
    <3>3. QED
      BY <1>1, <1>6, <3>2, ParamsKept
  <2>2. CASE opts.cmdline # None
    <3>1. image' = Append(image, CommandLine)
      BY <1>1, <1>2, <1>6, <2>2 DEF CommandLine
    <3>2. /\ <<CommandLine>> \in Seq(LinuxLoaded) /\ Has(<<CommandLine>>, CommandLine)
          /\ image' = image \o <<CommandLine>> /\ LinuxStage' = LinuxLoaded
      <4>1. Has(<<CommandLine>>, CommandLine)
        BY DEF Has
      <4>2. QED
        BY <1>3, <1>4, <1>6, <3>1, <4>1, AppendIsConcat
    <3>3. ImageOK' /\ \A w : Has(image, w) => Has(image', w)
      BY <1>1, <1>6, <3>2, LinuxGrows DEF AfterKernel
    <3>4. QED
      BY <1>1, <1>6, <3>3, ParamsKept
  <2>3. QED
    BY <2>1, <2>2
<1>7. QED
  BY <1>1, <1>5, <1>6

(* Lists that hold the tables of an entry, in order.                       *)
LEMMA TableLists ==
  /\ Tables64(0) \in Seq(TablesLong) /\ <<Gdt64(0)>> \in Seq(TablesLong)
  /\ \A w \in TablesLong : Has(Tables64(0), w) \/ Has(<<Gdt64(0)>>, w)
  /\ Descriptors(0) \in Seq(TablesPaging) /\ PageTables(0) \in Seq(TablesPaging)
  /\ \A w \in TablesPaging : Has(Descriptors(0), w) \/ Has(PageTables(0), w)
<1>1. Tables64(0) \in Seq(TablesLong) /\ <<Gdt64(0)>> \in Seq(TablesLong)
  BY SMT DEF Tables64, Gdt64, TablesLong
<1>2. ASSUME NEW w \in TablesLong PROVE Has(Tables64(0), w) \/ Has(<<Gdt64(0)>>, w)
  <2>1. DOMAIN Tables64(0) = 1..4 /\ DOMAIN <<Gdt64(0)>> = 1..1
    BY SMT DEF Tables64
  <2>2. /\ Tables64(0)[1] = Write(0, Pml4, \h4000, "cleared") /\ Tables64(0)[2] = Write(0, Pml4, 4096, "pml4")
        /\ Tables64(0)[3] = Write(0, Pdpt, 4096, "pdpt") /\ Tables64(0)[4] = Write(0, Pd, 4096, "pd")
        /\ <<Gdt64(0)>>[1] = Write(0, \h5000, 40, "gdt")
    BY SMT DEF Tables64, Gdt64
  <2>3. QED
    BY <2>1, <2>2, SMT DEF TablesLong, Has
<1>3. Descriptors(0) \in Seq(TablesPaging) /\ PageTables(0) \in Seq(TablesPaging)
  BY SMT DEF Descriptors, PageTables, TablesPaging, Range32
<1>4. ASSUME NEW w \in TablesPaging PROVE Has(Descriptors(0), w) \/ Has(PageTables(0), w)
  <2>1. DOMAIN Descriptors(0) = 1..2 /\ DOMAIN PageTables(0) = 1..3
    BY SMT DEF Descriptors, PageTables
  <2>2. /\ Descriptors(0)[1] = Write(0, GDT_ADDR, GDT_TOTAL_SIZE, "gdt")
        /\ Descriptors(0)[2] = Write(0, GDT_ADDR + GDT_TOTAL_SIZE, 2048, "idt")
        /\ PageTables(0)[1] = Write(0, PageDir, 4096, "page_dir")
        /\ PageTables(0)[2] = Write(0, PageTable0, 4096, "page_table")
        /\ PageTables(0)[3] = Write(0, PageTable512, 4096, "page_table")
    BY SMT DEF Descriptors, PageTables
  <2>3. QED
    BY <2>1, <2>2, SMT DEF TablesPaging, Range32, Has
<1>5. QED
  BY <1>1, <1>2, <1>3, <1>4

LEMMA ImageContext ==
  ASSUME Progress, ImageOK, ParamsOK, [Next]_vars, setup_linux_vcpu_context
  PROVE  ImageOK' /\ ParamsOK'
<1>1. /\ config.mode = "linux" /\ pc = "configure" /\ pc' = "run" /\ opts \in Options
      /\ config' = config /\ opts' = opts /\ UNCHANGED <<file, params>>
  BY DEF setup_linux_vcpu_context, Progress, ParamsOK, linuxVars
<1>2. i = 0
  BY <1>1, LinuxSetup DEF SetupSteps
<1>3. /\ image \in Seq(LinuxLoaded) /\ file \in BzImages
      /\ opts.cmdline # None => Has(image, CommandLine)
  BY <1>1 DEF ImageOK, LinuxImage, AfterKernel
<1>4. LinuxStage' = LinuxLoaded \cup TablesLinux
  BY <1>1, Fixed, LinuxFixed DEF LinuxStage
<1>5. ASSUME NEW t \in Seq(TablesLinux), image' = image \o t, \A w \in TablesLinux : Has(t, w)
      PROVE  ImageOK' /\ ParamsOK'
  <2>1. t \in Seq(LinuxStage')
    BY <1>4, SeqMonotonic
  <2>2. ImageOK' /\ \A w : Has(image, w) => Has(image', w)
    BY <1>1, <1>3, <1>5, <2>1, LinuxGrows DEF AfterKernel
  <2>3. QED
    BY <1>1, <2>2, ParamsKept
<1>6. image \in Seq(Writes) /\ TablesLinux \subseteq Writes
  BY <1>1, LinuxWrites DEF ImageOK
<1>7. ASSUME NEW s \in Seq(TablesLinux), NEW t \in Seq(TablesLinux), image' = (image \o s) \o t,
             \A w \in TablesLinux : Has(s, w) \/ Has(t, w)
      PROVE  ImageOK' /\ ParamsOK'
  <2>1. s \o t \in Seq(TablesLinux) /\ \A w \in TablesLinux : Has(s \o t, w)
    BY <1>7, ConcatFacts
  <2>2. s \in Seq(Writes) /\ t \in Seq(Writes)
    BY <1>6, SeqMonotonic
  <2>3. image' = image \o (s \o t)
    BY <1>6, <1>7, <2>2, ConcatAssociative
  <2>4. QED
    BY <1>5, <2>1, <2>3
<1>8. CASE opts.entry = "boot64"
  <2>1. TablesLinux = TablesLong /\ image' = (image \o Tables64(0)) \o <<Gdt64(0)>>
    BY <1>1, <1>2, <1>8 DEF TablesLinux, setup_linux_vcpu_context, configure_linux_boot64_entry
  <2>2. QED
    BY <1>7, <2>1, TableLists
<1>9. CASE opts.entry = "code32"
  <2> DEFINE gdt == Write(0, GDT_ADDR, GDT_TOTAL_SIZE, "gdt")
             idt == Write(0, GDT_ADDR + GDT_TOTAL_SIZE, 2048, "idt")
             handler == Write(0, \h7000, 15, "handler")
  <2>1. TablesLinux = {gdt, idt, handler} /\ image' = (image \o <<gdt>>) \o <<handler, idt>>
    <3>1. {gdt, idt} \cup {handler} = {gdt, idt, handler}
      <4> HIDE DEF gdt, idt, handler
      <4>1. QED
        OBVIOUS
    <3>2. TablesLinux = {gdt, idt} \cup {handler}
      BY <1>9, SMT DEF TablesLinux, Range32
    <3>3. configure_linux_code32_entry
      BY <1>9 DEF setup_linux_vcpu_context
    <3>4. image' = (image \o <<gdt>>) \o <<handler, idt>>
      BY <1>2, <3>3, SMT DEF configure_linux_code32_entry, BootSegmentBase, setup_linux_prot_idt
    <3>5. QED
      BY <3>1, <3>2, <3>4
  <2> HIDE DEF gdt, idt, handler
  <2>2. <<gdt>> \in Seq(TablesLinux) /\ <<handler, idt>> \in Seq(TablesLinux)
    BY <2>1
  <2>3. \A w \in TablesLinux : Has(<<gdt>>, w) \/ Has(<<handler, idt>>, w)
    BY <2>1 DEF Has
  <2>4. QED
    BY <1>7, <2>1, <2>2, <2>3
<1>10. CASE opts.entry = "setup"
  <2>1. TablesLinux = {} /\ image' = image
    BY <1>1, <1>10 DEF TablesLinux, setup_linux_vcpu_context, configure_linux_setup_entry
  <2>2. image' = image \o << >> /\ << >> \in Seq(TablesLinux)
    BY <1>6, <2>1, ConcatEmptySeq
  <2>3. QED
    BY <1>5, <2>1, <2>2
<1>11. QED
  BY <1>1, <1>8, <1>9, <1>10, OptionFacts

LEMMA BootStep == BootInv /\ [Next]_vars => BootInv'
<1> SUFFICES ASSUME BootInv, [Next]_vars PROVE BootInv'
  OBVIOUS
<1>1. Progress /\ RegsOK /\ ImageOK /\ ParamsOK /\ opts \in Options
  BY DEF BootInv, ImageOK, ParamsOK
<1>2. Progress' /\ RegsOK'
  BY <1>1, ProgressStep, RegsStep
<1>3. ImageOK' /\ ParamsOK'
  <2>1. CASE \/ setup_vcpu_memory /\ UNCHANGED linuxVars
             \/ ((\E v \in Vcpu : Fetch(v) \/ Access(v)) \/ Failed) /\ UNCHANGED linuxVars
             \/ UNCHANGED vars
    <3>1. ImageOK'
      BY <1>1, <2>1, ImageMemory
    <3>2. UNCHANGED <<file, params, image>> /\ (pc' = pc \/ (pc = "memory" /\ pc' = "load"))
      BY <2>1 DEF setup_vcpu_memory, linuxVars, Fetch, Access, Failed, memoryVars, vars
    <3>3. QED
      BY <1>1, <3>1, <3>2, ParamsKept
  <2>2. CASE (load_guest_binary \/ setup_vcpu_context) /\ UNCHANGED linuxVars
    <3>1. config.mode # "linux" /\ config' = config /\ opts' = opts
      BY <2>2, Fixed DEF load_guest_binary, setup_vcpu_context
    <3>2. QED
      BY <1>1, <2>2, <3>1, ImageGuests DEF ParamsOK
  <2>3. CASE PrepareLinux
    <3>1. ImageOK'
      BY <1>1, <2>3, ImagePrepare
    <3>2. /\ pc = "load" /\ pc' = "kernel" /\ config' = config /\ opts' = opts
          /\ UNCHANGED <<file, params>>
      BY <2>3 DEF PrepareLinux, linuxVars
    <3>3. ParamsOK'
      BY <1>1, <3>2 DEF ParamsOK, AfterKernel
    <3>4. QED
      BY <3>1, <3>3
  <2>4. CASE load_linux_kernel
    BY <1>1, <2>4, ImageKernel, ParamsKernel
  <2>5. CASE setup_linux_boot_params
    BY <1>1, <2>5, ImageParams
  <2>6. CASE load_initrd
    BY <1>1, <2>6, ImageInitrd
  <2>7. CASE ChooseEntry
    BY <1>1, <2>7, ImageEntry
  <2>8. CASE setup_linux_vcpu_context
    BY <1>1, <2>8, ImageContext
  <2>9. QED
    BY <2>1, <2>2, <2>3, <2>4, <2>5, <2>6, <2>7, <2>8 DEF Next, MemoryNext
<1>4. QED
  BY <1>2, <1>3 DEF BootInv, ImageOK

LEMMA BootInvariant == Spec => []BootInv
  BY BootInit, BootStep, PTL DEF Spec

(* The initrd is page aligned, inside the memory and clear of the          *)
(* init_size bytes of the kernel, whatever its size, and wherever the      *)
(* kernel's header puts its limit: load_initrd.                            *)
THEOREM InitrdWellPlaced == Spec => []InitrdPlaced
<1>1. BootInv => InitrdPlaced
  BY DEF BootInv
<1>2. QED
  BY <1>1, BootInvariant, PTL

-----------------------------------------------------------------------------
(* Where Linux and what it needs are.                                      *)

LEMMA WriteFields ==
  \A v, first, size, what :
    /\ Write(v, first, size, what).vcpu = v /\ Write(v, first, size, what).first = first
    /\ Write(v, first, size, what).last = first + size - 1 /\ Write(v, first, size, what).what = what
  BY DEF Write

LEMMA SetupSizes ==
  \A f \in BzImages :
    /\ f.size \in Nat /\ f.hdr.init_size \in Nat /\ f.hdr.setup_sects \in 0..255
    /\ SetupSize(f.hdr) \in Nat /\ 1024 <= SetupSize(f.hdr) /\ SetupSize(f.hdr) <= 131072
    /\ f.hdr.setup_sects <= 127 => SetupSize(f.hdr) <= 65536
<1> SUFFICES ASSUME NEW f \in BzImages
    PROVE  /\ f.size \in Nat /\ f.hdr.init_size \in Nat /\ f.hdr.setup_sects \in 0..255
           /\ SetupSize(f.hdr) \in Nat /\ 1024 <= SetupSize(f.hdr) /\ SetupSize(f.hdr) <= 131072
           /\ f.hdr.setup_sects <= 127 => SetupSize(f.hdr) <= 65536
  OBVIOUS
<1>1. f.size \in Nat /\ f.hdr.init_size \in Nat /\ f.hdr.setup_sects \in 0..255
  BY BzImagesAssumption DEF Headers
<1> DEFINE x == f.hdr.setup_sects
<1>2. SetupSize(f.hdr) = IF x = 0 THEN 4 * 512 ELSE (x + 1) * 512
  BY DEF SetupSize
<1>3. x \in 0..255
  BY <1>1
<1> HIDE DEF x
<1>4. /\ SetupSize(f.hdr) \in Nat /\ 1024 <= SetupSize(f.hdr) /\ SetupSize(f.hdr) <= 131072
      /\ x <= 127 => SetupSize(f.hdr) <= 65536
  BY <1>2, <1>3, SMT
<1>5. QED
  BY <1>1, <1>4, SMT DEF x

\* The usable memory of the E820 map.
Usable(w) ==
  \/ 0 <= w.first /\ w.last < 655360
  \/ 1048576 <= w.first /\ w.last < 268435456

LEMMA LinuxUsable ==
  ASSUME BootInv, config.mode = "linux", pc = "run", NEW w \in LinuxLoaded \cup TablesLinux
  PROVE  Usable(w)
<1>1. file \in BzImages /\ KernelFits(file) /\ opts \in Options
  BY DEF BootInv, LinuxImage, AfterKernel, ParamsOK
<1>2. mem_size = 268435456
  BY ModeFacts, SMT DEF BootInv, Progress
<1>3. \A x \in LinuxLow : Usable(x)
  BY WriteFields, SMT DEF LinuxLow, BootParams, LINUX_BOOT_PARAMS_ADDR, Usable
<1>4. Usable(SetupCode(file))
  BY <1>1, SetupSizes, WriteFields, SMT DEF SetupCode, REAL_MODE_KERNEL_ADDR, Usable
<1>5. Usable(KernelCode(file))
  <2>1. file.size \in Nat /\ SetupSize(file.hdr) \in Nat
    BY <1>1, SetupSizes, SMT
  <2>2. KERNEL_LOAD_ADDR + (file.size - SetupSize(file.hdr)) <= mem_size
    BY <1>1 DEF KernelFits
  <2>3. QED
    BY <1>2, <2>1, <2>2, WriteFields, SMT DEF KernelCode, KERNEL_LOAD_ADDR, Usable
<1>6. Usable(CommandLine)
  BY <1>1, OptionFacts, WriteFields, SMT DEF CommandLine, COMMAND_LINE_ADDR, Usable
<1>7. \A x \in InitrdPlaces(file) : Usable(x)
  <2>1. ASSUME NEW x \in InitrdPlaces(file) PROVE Usable(x)
    <3>1. x.first \in Nat /\ x.last < 268435456 /\ x.first >= 1048576 + file.hdr.init_size
      BY <1>2, SMT DEF InitrdPlaces, Writes, KERNEL_LOAD_ADDR
    <3>2. QED
      BY <1>1, <3>1, SetupSizes, SMT DEF Usable
  <2>2. QED
    BY <2>1
<1>8. \A x \in TablesLong \cup Range32 \cup {Write(0, \h7000, 15, "handler")} : Usable(x)
  BY WriteFields, SMT DEF TablesLong, Range32, Pml4, Pdpt, Pd, GDT_ADDR, GDT_TOTAL_SIZE, Usable
<1>9. \A x \in TablesLinux : Usable(x)
  BY <1>8 DEF TablesLinux
<1>10. QED
  BY <1>3, <1>4, <1>5, <1>6, <1>7, <1>9 DEF LinuxLoaded

LEMMA Tuples ==
  \A x, y, z : /\ Append(<<x>>, y) = <<x, y>> /\ Len(<<x>>) = 1
              /\ Append(<<x, y>>, z) = <<x, y, z>> /\ Len(<<x, y>>) = 2
<1> SUFFICES ASSUME NEW x, NEW y, NEW z
    PROVE  /\ Append(<<x>>, y) = <<x, y>> /\ Len(<<x>>) = 1
           /\ Append(<<x, y>>, z) = <<x, y, z>> /\ Len(<<x, y>>) = 2
  OBVIOUS
<1> DEFINE S == {x, y, z}
<1>1. /\ <<x>> \in Seq(S) /\ Len(<<x>>) = 1 /\ <<x, y>> \in Seq(S) /\ Len(<<x, y>>) = 2
      /\ <<x, y, z>> \in Seq(S) /\ Len(<<x, y, z>>) = 3 /\ y \in S /\ z \in S
  OBVIOUS
<1> HIDE DEF S
<1>2. Append(<<x>>, y) = <<x, y>>
  <2>1. /\ Append(<<x>>, y) \in Seq(S) /\ Len(Append(<<x>>, y)) = 2
        /\ Append(<<x>>, y)[1] = x /\ Append(<<x>>, y)[2] = y
    BY <1>1, AppendProperties
  <2>2. \A k \in 1 .. 2 : Append(<<x>>, y)[k] = <<x, y>>[k]
    BY <2>1
  <2>3. QED
    BY <1>1, <2>1, <2>2, SeqEqual
<1>3. Append(<<x, y>>, z) = <<x, y, z>>
  <2>1. /\ Append(<<x, y>>, z) \in Seq(S) /\ Len(Append(<<x, y>>, z)) = 3
        /\ Append(<<x, y>>, z)[1] = x /\ Append(<<x, y>>, z)[2] = y /\ Append(<<x, y>>, z)[3] = z
    BY <1>1, AppendProperties
  <2>2. \A k \in 1 .. 3 : Append(<<x, y>>, z)[k] = <<x, y, z>>[k]
    BY <2>1
  <2>3. QED
    BY <1>1, <2>1, <2>2, SeqEqual
<1>4. QED
  BY <1>1, <1>2, <1>3

LEMMA E820Entries ==
  ASSUME mem_size = 268435456
  PROVE  E820Map = <<[addr |-> 0, size |-> 655360, type |-> "ram"],
                     [addr |-> 655360, size |-> 393216, type |-> "reserved"],
                     [addr |-> 1048576, size |-> 267386880, type |-> "ram"]>>
<1> DEFINE a == [addr |-> 0, size |-> 655360, type |-> "ram"]
           b == [addr |-> 655360, size |-> 393216, type |-> "reserved"]
           c == [addr |-> 1048576, size |-> 267386880, type |-> "ram"]
<1>1. add_e820_entry(<< >>, 0, 640 * 1024, "ram") = <<a>>
  BY SMT DEF add_e820_entry
<1>2. add_e820_entry(<<a>>, 640 * 1024, 384 * 1024, "reserved") = <<a, b>>
  <2>1. add_e820_entry(<<a>>, 640 * 1024, 384 * 1024, "reserved") = Append(<<a>>, b)
    BY Tuples, SMT DEF add_e820_entry
  <2> HIDE DEF a, b
  <2>2. QED
    BY <2>1, Tuples
<1>3. add_e820_entry(<<a, b>>, 1024 * 1024, mem_size - 1024 * 1024, "ram") = <<a, b, c>>
  <2>1. add_e820_entry(<<a, b>>, 1024 * 1024, mem_size - 1024 * 1024, "ram") = Append(<<a, b>>, c)
    BY Tuples, SMT DEF add_e820_entry
  <2> HIDE DEF a, b, c
  <2>2. QED
    BY <2>1, Tuples
<1>4. mem_size > 1024 * 1024
  BY SMT
<1> HIDE DEF a, b, c
<1>5. E820Map = <<a, b, c>>
  BY <1>1, <1>2, <1>3, <1>4, SMT DEF E820Map
<1>6. QED
  BY <1>5, SMT DEF a, b, c

(* The E820 map that setup_linux_boot_params gives to Linux describes all  *)
(* the memory of the guest, and all that the VMM loaded lies in memory     *)
(* that the map calls usable, for every bzImage, initrd and command line.  *)
THEOREM MemoryMapCorrect == Spec => []MemoryMapTrue
<1>1. ASSUME BootInv PROVE MemoryMapTrue
  <2> SUFFICES ASSUME Booted
      PROVE  LET m == params.e820
                 End(k) == m[k].addr + m[k].size
             IN /\ m[1].addr = 0 /\ End(Len(m)) = mem_size
                /\ \A k \in 1 .. Len(m) - 1 : End(k) = m[k + 1].addr
                /\ \A n \in DOMAIN image : \E k \in DOMAIN m :
                     m[k].type = "ram" /\ m[k].addr <= image[n].first /\ image[n].last < End(k)
    BY DEF MemoryMapTrue
  <2> DEFINE m == params.e820
             End(k) == m[k].addr + m[k].size
  <2>1. mem_size = 268435456
    BY <1>1, ModeFacts, SMT DEF BootInv, Progress, Booted
  <2>2. m = E820Map
    BY <1>1 DEF BootInv, ParamsOK, Booted
  <2>3. m = <<[addr |-> 0, size |-> 655360, type |-> "ram"],
              [addr |-> 655360, size |-> 393216, type |-> "reserved"],
              [addr |-> 1048576, size |-> 267386880, type |-> "ram"]>>
    BY <2>1, <2>2, E820Entries, SMT
  <2> HIDE DEF m
  <2>4. /\ Len(m) = 3 /\ DOMAIN m = 1..3
        /\ m[1].addr = 0 /\ End(1) = 655360 /\ m[1].type = "ram"
        /\ m[2].addr = 655360 /\ End(2) = 1048576
        /\ m[3].addr = 1048576 /\ End(3) = 268435456 /\ m[3].type = "ram"
    BY <2>3, SMT
  <2>5. ASSUME NEW n \in DOMAIN image
        PROVE  \E k \in DOMAIN m :
                 m[k].type = "ram" /\ m[k].addr <= image[n].first /\ image[n].last < End(k)
    <3>1. image \in Seq(LinuxLoaded \cup TablesLinux)
      BY <1>1 DEF BootInv, LinuxImage, Booted, AfterKernel
    <3>2. image[n] \in LinuxLoaded \cup TablesLinux
      BY <3>1, ElementOfSeq, LenProperties
    <3>3. Usable(image[n])
      BY <1>1, <3>2, LinuxUsable DEF Booted
    <3> HIDE DEF End
    <3>4. QED
      BY <2>4, <3>3, SMT DEF Usable
  <2>6. \A k \in 1 .. Len(m) - 1 : End(k) = m[k + 1].addr
    <3> HIDE DEF End
    <3>1. QED
      BY <2>4, SMT
  <2>7. QED
    BY <2>1, <2>4, <2>5, <2>6, SMT DEF m
<1>2. QED
  BY <1>1, BootInvariant, PTL

-----------------------------------------------------------------------------
(* What a running vCPU reaches.                                            *)

LEMMA OwnerFacts ==
  ASSUME Progress, pc = "run", NEW v \in Vcpu, NEW g \in Int,
         v * mem_size <= g, g < v * mem_size + mem_size
  PROVE  Owner(g) = v /\ slot[v] = v * mem_size
<1>1. /\ config.vcpus \in 1..4 /\ Vcpu = 0 .. config.vcpus - 1
      /\ \A u \in Vcpu : slot[u] = u * mem_size
  BY ModeFacts DEF Progress, Vcpu
<1>2. mem_size \in {268435456, 262144, 4194304}
  BY ModeFacts, SMT DEF Progress, Modes
<1>3. \A u \in 0..3, w \in 0..3 :
        u * mem_size <= g /\ g < u * mem_size + mem_size
        /\ w * mem_size <= g /\ g < w * mem_size + mem_size => u = w
  <2>1. CASE mem_size = 268435456
    BY <2>1, SMT
  <2>2. CASE mem_size = 262144
    BY <2>2, SMT
  <2>3. CASE mem_size = 4194304
    BY <2>3, SMT
  <2>4. QED
    BY <1>2, <2>1, <2>2, <2>3
<1>4. \A u \in 0..3 : u * mem_size # None
  <2>1. CASE mem_size = 268435456
    BY <2>1, SMT DEF None
  <2>2. CASE mem_size = 262144
    BY <2>2, SMT DEF None
  <2>3. CASE mem_size = 4194304
    BY <2>3, SMT DEF None
  <2>4. QED
    BY <1>2, <2>1, <2>2, <2>3
<1> DEFINE owners == {u \in Vcpu : slot[u] # None /\ slot[u] <= g /\ g < slot[u] + mem_size}
<1>5. \A u \in Vcpu : u \in 0..3
  BY <1>1
<1>6. v \in owners
  BY <1>1, <1>4, <1>5
<1>7. \A u \in owners : u = v
  BY <1>1, <1>3, <1>5
<1> HIDE DEF owners
<1>8. owners # {} /\ (CHOOSE u \in owners : TRUE) = v
  BY <1>6, <1>7
<1>9. Owner(g) = v
  BY <1>8 DEF Owner, owners
<1>10. QED
  BY <1>1, <1>9

LEMMA OwnerKnown ==
  ASSUME NEW g, Owner(g) # None
  PROVE  Owner(g) \in Vcpu
<1> DEFINE owners == {u \in Vcpu : slot[u] # None /\ slot[u] <= g /\ g < slot[u] + mem_size}
<1>1. owners # {} => (CHOOSE u \in owners : TRUE) \in owners
  <2> HIDE DEF owners
  <2>1. QED
    OBVIOUS
<1>2. QED
  BY <1>1 DEF Owner

LEMMA TranslateFacts ==
  ASSUME BootInv, pc = "run", NEW v \in Vcpu, NEW va \in Int
  PROVE  /\ regs[v] = Started(v)
         /\ config.mode = "real" => Translate(v, va) = IF va \in 0 .. SegmentLimit THEN CsBase(v) + va ELSE None
         /\ config.mode = "paging" => Translate(v, va) = WalkPaging(PageDir, va)
         /\ config.mode = "long" => Translate(v, va) = WalkLong(Pml4, va)
         /\ config.mode = "linux" /\ opts.entry = "boot64" => Translate(v, va) = WalkLong(Pml4, va)
         /\ config.mode = "linux" /\ opts.entry = "code32" =>
              Translate(v, va) = IF Owner(va) # None THEN va ELSE None
         /\ config.mode = "linux" /\ opts.entry = "setup" =>
              Translate(v, va) = IF va \in 0 .. SegmentLimit THEN REAL_MODE_KERNEL_ADDR + va ELSE None
<1>1. regs[v] = Started(v)
  <2>1. v < i
    BY ModeFacts DEF BootInv, Progress, Vcpu
  <2>2. QED
    BY <2>1 DEF BootInv, RegsOK
<1>2. config.mode = "real" => Started(v).walk = "segment" /\ Started(v).base = CsBase(v)
  BY DEF Started
<1>3. config.mode = "paging" => Started(v).walk = "two_level" /\ Started(v).cr3 = PageDir
  BY DEF Started
<1>4. config.mode = "long" => Started(v).walk = "four_level" /\ Started(v).cr3 = Pml4
  BY DEF Started
<1>5. config.mode = "linux" /\ opts.entry = "boot64" =>
        Started(v).walk = "four_level" /\ Started(v).cr3 = Pml4
  BY DEF Started, StartedLinux
<1>6. config.mode = "linux" /\ opts.entry = "code32" => Started(v).walk = "flat"
  BY DEF Started, StartedLinux
<1>7. config.mode = "linux" /\ opts.entry = "setup" =>
        Started(v).walk = "segment" /\ Started(v).base = REAL_MODE_KERNEL_ADDR
  BY DEF Started, StartedLinux
<1>8. /\ regs[v].walk = "segment" => Translate(v, va) = IF va \in 0 .. SegmentLimit THEN regs[v].base + va ELSE None
      /\ regs[v].walk = "flat" => Translate(v, va) = IF Owner(va) # None THEN va ELSE None
      /\ regs[v].walk = "two_level" => Translate(v, va) = WalkPaging(regs[v].cr3, va)
      /\ regs[v].walk = "four_level" => Translate(v, va) = WalkLong(regs[v].cr3, va)
  BY Zenon DEF Translate
<1>9. QED
  BY <1>1, <1>2, <1>3, <1>4, <1>5, <1>6, <1>7, <1>8, Zenon

\* Where a vCPU starts.
LEMMA EntryFacts ==
  ASSUME BootInv, pc = "run", NEW v \in Vcpu
  PROVE  /\ regs[v] = Started(v) /\ regs[v].rip \in Int
         /\ config.mode = "real" => regs[v].rip = 0
         /\ config.mode = "paging" => regs[v].rip = KernelBase + 4096
         /\ config.mode = "long" => regs[v].rip = 4096
         /\ config.mode = "linux" => regs[v].rip = StartedLinux.rip
<1>1. regs[v] = Started(v)
  <2>1. v < i
    BY ModeFacts DEF BootInv, Progress, Vcpu
  <2>2. QED
    BY <2>1 DEF BootInv, RegsOK
<1>2. config.mode = "real" => Started(v).rip = 0
  BY DEF Started
<1>3. config.mode = "paging" => Started(v).rip = KernelBase + 4096 /\ KernelBase \in Int
  BY SMT DEF Started, KernelBase
<1>4. config.mode = "long" => Started(v).rip = 4096
  BY SMT DEF Started, load_offset
<1>5. config.mode = "linux" => Started(v).rip = StartedLinux.rip
  BY DEF Started
<1>6. config.mode = "linux" => StartedLinux.rip \in Int
  <2>1. config.mode = "linux" => params.hdr.code32_start \in Nat
    BY DEF BootInv, ParamsOK, Headers
  <2>2. config.mode = "linux" => entry_point \in Int
    BY <2>1, Addresses, SMT DEF entry_point
  <2>3. /\ opts.entry = "boot64" => StartedLinux.rip = entry_point
        /\ opts.entry = "code32" => StartedLinux.rip = entry_point
        /\ opts.entry # "boot64" /\ opts.entry # "code32" => StartedLinux.rip = 512
    BY SMT DEF StartedLinux
  <2>4. QED
    BY <2>2, <2>3, SMT
<1>7. config.mode \in Modes
  BY ModeFacts DEF BootInv, Progress
<1>8. QED
  BY <1>1, <1>2, <1>3, <1>4, <1>5, <1>6, <1>7, SMT DEF Modes

(* A guest that was given its own memory stays in it.                      *)
LEMMA Reach ==
  ASSUME DocumentedUse, BootInv, pc = "run", NEW v \in Vcpu, NEW va \in Int,
         Translate(v, va) # None
  PROVE  Owner(Translate(v, va)) = v
<1>1. Progress /\ opts \in Options /\ config \in Configs
  BY DEF BootInv, ParamsOK, Progress
<1>2. /\ config.mode \in Modes /\ config.vcpus \in 1..4 /\ Vcpu = 0 .. config.vcpus - 1
      /\ config.mode # "real" => config.vcpus = 1
  BY <1>1, ModeFacts DEF DocumentedUse, Vcpu
<1>3. config.mode # "real" => v = 0
  BY <1>2
<1>4. \A g \in Int : v * mem_size <= g /\ g < v * mem_size + mem_size => Owner(g) = v
  BY <1>1, OwnerFacts
<1>5. CASE config.mode = "real"
  <2>1. mem_size = 262144
    BY <1>1, <1>5, ModeFacts, SMT
  <2>2. v \in 0..3
    BY <1>2
  <2>3. CsBase(v) = v * 262144
    BY <2>1, <2>2, SMT DEF CsBase
  <2>4. va \in 0 .. SegmentLimit /\ Translate(v, va) = CsBase(v) + va
    BY <1>5, TranslateFacts
  <2>5. va \in Int /\ 0 <= va /\ va < 262144
    BY <2>4, SMT DEF SegmentLimit
  <2>6. QED
    BY <1>4, <2>1, <2>2, <2>3, <2>4, <2>5, SMT
<1>6. ASSUME config.mode # "real", Translate(v, va) \in Int, 0 <= Translate(v, va), Translate(v, va) < mem_size
      PROVE  Owner(Translate(v, va)) = v
  <2>1. mem_size \in Int /\ 0 * mem_size = 0
    BY <1>1, <1>2, ModeFacts, SMT DEF Modes
  <2>2. QED
    BY <1>3, <1>4, <1>6, <2>1, SMT
<1>7. CASE config.mode = "paging"
  <2>1. Translate(v, va) = va % 4194304
    BY <1>7, TranslateFacts, SMT DEF WalkPaging
  <2>2. mem_size = 4194304
    BY <1>1, <1>7, ModeFacts, SMT
  <2>3. QED
    BY <1>6, <1>7, <2>1, <2>2, SMT
<1>8. ASSUME config.mode # "real", Translate(v, va) = WalkLong(Pml4, va)
      PROVE  Owner(Translate(v, va)) = v
  <2>1. Translate(v, va) = va /\ 0 <= va /\ va < mem_size
    BY <1>8 DEF WalkLong
  <2>2. QED
    BY <1>6, <1>8, <2>1
<1>9. CASE config.mode = "long"
  BY <1>8, <1>9, TranslateFacts
<1>10. CASE config.mode = "linux"
  <2>1. CASE opts.entry = "boot64"
    BY <1>8, <1>10, <2>1, TranslateFacts
  <2>2. CASE opts.entry = "code32"
    <3>1. Translate(v, va) = va /\ Owner(va) # None
      BY <1>10, <2>2, TranslateFacts
    <3>2. Owner(va) \in Vcpu
      BY <3>1, OwnerKnown
    <3>3. \A u \in Vcpu : u = v
      BY <1>2, <1>10
    <3>4. QED
      BY <3>1, <3>2, <3>3
  <2>3. CASE opts.entry = "setup"
    <3>1. va \in 0 .. SegmentLimit /\ Translate(v, va) = REAL_MODE_KERNEL_ADDR + va
      BY <1>10, <2>3, TranslateFacts
    <3>2. mem_size = 268435456
      BY <1>1, <1>10, ModeFacts, SMT
    <3>3. Translate(v, va) \in Int /\ 0 <= Translate(v, va) /\ Translate(v, va) < mem_size
      BY <3>1, <3>2, SMT DEF SegmentLimit, REAL_MODE_KERNEL_ADDR
    <3>4. QED
      BY <1>6, <1>10, <3>3
  <2>4. QED
    BY <1>1, <2>1, <2>2, <2>3, OptionFacts
<1>11. QED
  BY <1>2, <1>5, <1>7, <1>9, <1>10 DEF Modes

LEMMA FetchStart ==
  ASSUME DocumentedUse, BootInv, pc = "run", config.mode # "linux", NEW v \in Vcpu,
         Translate(v, regs[v].rip) # None
  PROVE  Translate(v, regs[v].rip) = v * mem_size + load_offset
<1>1. config \in Configs /\ regs[v].rip \in Int
  BY EntryFacts DEF BootInv, Progress
<1>2. /\ config.mode \in Modes /\ config.vcpus \in 1..4 /\ Vcpu = 0 .. config.vcpus - 1
      /\ config.mode # "real" => config.vcpus = 1
  BY <1>1, ModeFacts DEF DocumentedUse, Vcpu
<1>3. config.mode # "real" => v = 0
  BY <1>2
<1>4. CASE config.mode = "real"
  <2>1. mem_size = 262144 /\ load_offset = 0 /\ v \in 0..3
    BY <1>1, <1>2, <1>4, ModeFacts, SMT
  <2>2. CsBase(v) = v * 262144
    BY <2>1, SMT DEF CsBase
  <2>3. regs[v].rip = 0
    BY <1>4, EntryFacts
  <2>4. Translate(v, regs[v].rip) = CsBase(v) + regs[v].rip
    BY <1>1, <1>4, TranslateFacts
  <2>5. QED
    BY <2>1, <2>2, <2>3, <2>4, SMT
<1>5. CASE config.mode = "paging"
  <2>1. mem_size = 4194304 /\ load_offset = 4096 /\ v = 0
    BY <1>1, <1>3, <1>5, ModeFacts, SMT
  <2>2. regs[v].rip = KernelBase + 4096
    BY <1>5, EntryFacts, SMT
  <2>3. Translate(v, regs[v].rip) = WalkPaging(PageDir, regs[v].rip)
    BY <1>1, <1>5, TranslateFacts
  <2>4. Translate(v, regs[v].rip) = regs[v].rip % 4194304
    BY <2>3, SMT DEF WalkPaging
  <2>5. (KernelBase + 4096) % 4194304 = 4096
    <3>1. ASSUME NEW x \in Int, x + 2147479552 = 0 PROVE x % 4194304 = 4096
      BY <3>1, SMT
    <3>2. KernelBase + 4096 \in Int /\ (KernelBase + 4096) + 2147479552 = 0
      BY SMT DEF KernelBase
    <3>3. QED
      BY <3>1, <3>2, SMT
  <2>6. QED
    BY <2>1, <2>2, <2>4, <2>5, SMT
<1>6. CASE config.mode = "long"
  <2>1. mem_size = 4194304 /\ load_offset = 4096 /\ v = 0
    BY <1>1, <1>3, <1>6, ModeFacts, SMT
  <2>2. regs[v].rip = 4096
    BY <1>6, EntryFacts, SMT
  <2>3. Translate(v, regs[v].rip) = WalkLong(Pml4, regs[v].rip)
    BY <1>1, <1>6, TranslateFacts
  <2>4. Translate(v, regs[v].rip) = regs[v].rip
    BY <2>3 DEF WalkLong
  <2>5. QED
    BY <2>1, <2>2, <2>4, SMT
<1>7. QED
  BY <1>2, <1>4, <1>5, <1>6 DEF Modes

-----------------------------------------------------------------------------
(* LayoutInv, part by part.                                                *)

LEMMA LayoutInit == Init => LayoutInv
<1> SUFFICES ASSUME Init PROVE LayoutInv
  OBVIOUS
<1>1. /\ config \in Configs /\ pc = "memory" /\ i = 0 /\ image = << >> /\ touched = {}
      /\ fetched = [v \in Vcpu |-> None]
  BY DEF Init, MemoryInit
<1>2. \A v \in Vcpu : ~(v < 0)
  BY <1>1, ModeFacts DEF Vcpu
<1>3. GuestImage
  BY <1>1, <1>2 DEF GuestImage
<1>4. FailedImage /\ ClearedFirst /\ FetchedOK /\ IsolatedMemory
  BY <1>1 DEF FailedImage, ClearedFirst, FetchedOK, IsolatedMemory
<1>5. QED
  BY <1>3, <1>4, BootInit DEF LayoutInv

LEMMA IsolatedStep ==
  ASSUME DocumentedUse, BootInv, IsolatedMemory, FetchedOK, [Next]_vars
  PROVE  IsolatedMemory' /\ FetchedOK'
<1>1. Vcpu' = Vcpu /\ mem_size' = mem_size /\ load_offset' = load_offset /\ config' = config
  BY Fixed
<1>2. ASSUME UNCHANGED <<touched, fetched>>, pc = "run" => pc' = "run"
      PROVE  IsolatedMemory' /\ FetchedOK'
  BY <1>1, <1>2 DEF IsolatedMemory, FetchedOK
<1>3. ASSUME NEW v \in Vcpu, Fetch(v) PROVE IsolatedMemory' /\ FetchedOK'
  <2> DEFINE gpa == Translate(v, regs[v].rip)
  <2>1. /\ pc = "run" /\ pc' = "run" /\ gpa # None
        /\ fetched' = [fetched EXCEPT ![v] = gpa] /\ touched' = touched \cup {<<v, Owner(gpa)>>}
    BY <1>3 DEF Fetch
  <2>2. Owner(gpa) = v
    BY <1>3, <2>1, EntryFacts, Reach
  <2>3. config.mode # "linux" => gpa = v * mem_size + load_offset
    BY <1>3, <2>1, FetchStart
  <2> HIDE DEF gpa
  <2>4. IsolatedMemory'
    BY <2>1, <2>2 DEF IsolatedMemory
  <2>5. FetchedOK'
    <3>1. \A u \in Vcpu : fetched'[u] = IF u = v THEN gpa ELSE fetched[u]
      BY <2>1 DEF FetchedOK
    <3>2. DOMAIN fetched' = Vcpu
      BY <2>1 DEF FetchedOK
    <3>3. QED
      BY <1>1, <2>1, <2>3, <3>1, <3>2 DEF FetchedOK
  <2>6. QED
    BY <2>4, <2>5
<1>4. ASSUME NEW v \in Vcpu, Access(v) PROVE IsolatedMemory' /\ FetchedOK'
  <2>1. PICK va \in {0, 4096, 65535, 4194303, KernelBase, KernelBase + 4194303} :
          /\ pc = "run" /\ pc' = "run" /\ fetched' = fetched /\ Translate(v, va) # None
          /\ touched' = touched \cup {<<v, Owner(Translate(v, va))>>}
    BY <1>4, SMT DEF Access
  <2>2. va \in Int
    BY SMT DEF KernelBase
  <2>3. Owner(Translate(v, va)) = v
    <3>1. pc = "run" /\ Translate(v, va) # None
      BY <2>1, SMT
    <3>2. QED
      BY <1>4, <2>2, <3>1, Reach
  <2>4. /\ pc' = "run" /\ fetched' = fetched
        /\ touched' = touched \cup {<<v, v>>}
    BY <2>1, <2>3, SMT
  <2>5. IsolatedMemory'
    BY <2>4 DEF IsolatedMemory
  <2>6. QED
    BY <1>1, <2>4, <2>5 DEF FetchedOK
<1>5. CASE setup_vcpu_memory \/ load_guest_binary \/ setup_vcpu_context \/ Failed
  BY <1>2, <1>5 DEF setup_vcpu_memory, load_guest_binary, setup_vcpu_context, Failed, memoryVars
<1>6. CASE \/ PrepareLinux \/ load_linux_kernel \/ setup_linux_boot_params \/ load_initrd
           \/ ChooseEntry \/ setup_linux_vcpu_context
  BY <1>2, <1>6 DEF PrepareLinux, load_linux_kernel, setup_linux_boot_params, load_initrd,
                    ChooseEntry, setup_linux_vcpu_context
<1>7. CASE UNCHANGED vars
  BY <1>2, <1>7 DEF vars
<1>8. QED
  BY <1>3, <1>4, <1>5, <1>6, <1>7 DEF Next, MemoryNext

(* Tables that follow an image without any are in order.                   *)
TableKinds == {"cleared", "pml4", "pdpt", "pd", "gdt"}

LEMMA ClearedLong ==
  ASSUME NEW S, image \in Seq(S), \A w \in S : w.what \notin TableKinds,
         image' = (image \o Tables64(0)) \o <<Gdt64(0)>>
  PROVE  ClearedFirst'
<1>1. \A n \in DOMAIN image : image[n].what \notin TableKinds
  BY ElementOfSeq, LenProperties
<1> DEFINE t == Tables64(0) \o <<Gdt64(0)>>
           R == S \cup TablesLong
<1>2. image \in Seq(R) /\ Tables64(0) \in Seq(R) /\ <<Gdt64(0)>> \in Seq(R)
  <2>1. S \subseteq R /\ TablesLong \subseteq R
    OBVIOUS
  <2>2. QED
    BY <2>1, SeqMonotonic, TableLists
<1>3. image' = image \o t /\ t \in Seq(R)
  <2> HIDE DEF R
  <2>1. QED
    BY <1>2, ConcatAssociative, ConcatProperties
<1>4. /\ Len(Tables64(0)) = 4
      /\ Tables64(0)[1].what = "cleared" /\ Tables64(0)[2].what = "pml4"
      /\ Tables64(0)[3].what = "pdpt" /\ Tables64(0)[4].what = "pd" /\ <<Gdt64(0)>>[1].what = "gdt"
  <2>1. Len(Tables64(0)) = 4
    BY SMT DEF Tables64
  <2>2. /\ Tables64(0)[1] = Write(0, Pml4, \h4000, "cleared") /\ Tables64(0)[2] = Write(0, Pml4, 4096, "pml4")
        /\ Tables64(0)[3] = Write(0, Pdpt, 4096, "pdpt") /\ Tables64(0)[4] = Write(0, Pd, 4096, "pd")
        /\ <<Gdt64(0)>>[1] = Write(0, \h5000, 40, "gdt")
    BY SMT DEF Tables64, Gdt64
  <2>3. QED
    BY <2>1, <2>2, WriteFields, SMT
<1>5. \A n \in DOMAIN t : t[n].what = "cleared" => n = 1
  <2>1. ASSUME NEW n \in DOMAIN t
        PROVE  \/ n \in DOMAIN Tables64(0) /\ t[n] = Tables64(0)[n]
               \/ n - Len(Tables64(0)) \in DOMAIN <<Gdt64(0)>> /\ n > Len(Tables64(0))
                  /\ t[n] = <<Gdt64(0)>>[n - Len(Tables64(0))]
    <3> HIDE DEF R
    <3>1. QED
      BY <1>2, ConcatFacts
  <2>2. DOMAIN Tables64(0) = 1..4 /\ DOMAIN <<Gdt64(0)>> = 1..1
    BY SMT DEF Tables64
  <2> HIDE DEF t
  <2>3. ASSUME NEW n \in DOMAIN t, t[n].what = "cleared" PROVE n = 1
    <3>1. CASE n \in DOMAIN Tables64(0) /\ t[n] = Tables64(0)[n]
      <4>1. n = 1 \/ n = 2 \/ n = 3 \/ n = 4
        BY <2>2, <3>1
      <4>2. QED
        BY <1>4, <2>3, <3>1, <4>1
    <3>2. CASE n - 4 \in 1..1 /\ t[n] = <<Gdt64(0)>>[n - 4]
      <4>1. n - 4 = 1
        BY <3>2
      <4>2. t[n].what = "gdt"
        BY <1>4, <3>2, <4>1
      <4>3. QED
        BY <2>3, <4>2
    <3>3. QED
      BY <1>4, <2>1, <2>2, <3>1, <3>2
  <2>4. QED
    BY <2>3
<1> HIDE DEF t, R
<1>6. ASSUME NEW n \in DOMAIN image', NEW m \in DOMAIN image', n < m, image'[m].what = "cleared"
      PROVE  image'[n].what \notin {"pml4", "pdpt", "pd", "gdt"}
  <2>1. \A k \in DOMAIN (image \o t) :
          \/ k \in DOMAIN image /\ (image \o t)[k] = image[k]
          \/ k - Len(image) \in DOMAIN t /\ k > Len(image) /\ (image \o t)[k] = t[k - Len(image)]
    BY <1>2, <1>3, ConcatFacts
  <2>2. m - Len(image) \in DOMAIN t /\ m > Len(image) /\ image'[m] = t[m - Len(image)]
    BY <1>1, <1>3, <1>6, <2>1 DEF TableKinds
  <2>3. m - Len(image) = 1 /\ Len(image) \in Nat /\ m \in Int
    BY <1>2, <1>3, <1>5, <1>6, <2>2, LenProperties, ConcatProperties
  <2>4. n \in Int
    BY <1>2, <1>3, <1>6, LenProperties, ConcatProperties
  <2>5. n \in DOMAIN image /\ image'[n] = image[n]
    BY <1>3, <1>6, <2>1, <2>3, <2>4
  <2>6. QED
    BY <1>1, <2>5 DEF TableKinds
<1>7. QED
  BY <1>6 DEF ClearedFirst

\* No table before the tables.
LEMMA KindsLoaded ==
  /\ \A w \in Binaries : w.what = "binary"
  /\ \A w \in LinuxLoaded : w.what \notin TableKinds
<1>1. \A w \in Binaries : w.what = "binary"
  BY WriteFields DEF Binaries
<1>2. \A w \in LinuxLow : w.what \notin TableKinds
  BY WriteFields, SMT DEF LinuxLow, BootParams, TableKinds
<1>3. \A w \in {SetupCode(file), KernelCode(file), CommandLine} : w.what \notin TableKinds
  BY WriteFields, SMT DEF SetupCode, KernelCode, CommandLine, TableKinds
<1>4. \A w \in InitrdPlaces(file) : w.what \notin TableKinds
  BY DEF InitrdPlaces, TableKinds
<1>5. QED
  BY <1>1, <1>2, <1>3, <1>4 DEF LinuxLoaded

LEMMA GuestStep ==
  ASSUME DocumentedUse, BootInv, GuestImage, [Next]_vars, config.mode # "linux"
  PROVE  GuestImage'
<1>1. /\ config' = config /\ Vcpu' = Vcpu /\ Binaries' = Binaries /\ Tables' = Tables
  <2>1. config' = config /\ opts' = opts /\ Vcpu' = Vcpu /\ mem_size' = mem_size /\ load_offset' = load_offset
    BY Fixed
  <2>2. Binaries' = Binaries
    BY <2>1 DEF Binaries
  <2>3. Tables' = Tables
    BY <2>1 DEF Tables, TablesLinux
  <2>4. QED
    BY <2>1, <2>2, <2>3
<1>2. /\ Progress /\ config \in Configs /\ config.mode \in {"real", "paging", "long"}
      /\ config.vcpus \in 1..4 /\ Vcpu = 0 .. config.vcpus - 1 /\ i \in 0 .. config.vcpus
      /\ config.mode # "real" => config.vcpus = 1
  BY ModeFacts DEF BootInv, Progress, DocumentedUse, Vcpu, Modes
<1>3. ASSUME UNCHANGED <<image, i>>,
             pc' = pc \/ (pc \in {"memory", "load"} /\ pc' \in {"load", "failed"})
      PROVE  GuestImage'
  BY <1>1, <1>3 DEF GuestImage
<1>4. CASE load_guest_binary
  <2>1. /\ pc = "load" /\ i' = i /\ i \in Vcpu /\ image \in Seq(Binaries)
        /\ \A v \in Vcpu : v < i => \E w \in Binaries : w.vcpu = v /\ Has(image, w)
    BY <1>2, <1>4 DEF load_guest_binary, GuestImage, Progress, SetupSteps
  <2>2. PICK fsize \in BinarySizes[config.mode] :
          \/ /\ fsize + load_offset <= mem_size
             /\ image' = Append(image, Write(i, load_offset, fsize, "binary"))
             /\ pc' = "configure"
          \/ pc' = "failed" /\ UNCHANGED image
    BY <1>4 DEF load_guest_binary
  <2>3. CASE pc' = "failed" /\ UNCHANGED image
    BY <1>3, <2>1, <2>3
  <2>4. CASE /\ fsize + load_offset <= mem_size
             /\ image' = Append(image, Write(i, load_offset, fsize, "binary"))
             /\ pc' = "configure"
    <3> DEFINE b == Write(i, load_offset, fsize, "binary")
    <3>1. b \in Binaries
      BY <2>1, <2>4 DEF Binaries
    <3>2. b.vcpu = i
      BY WriteFields
    <3> HIDE DEF b
    <3>3. image' = image \o <<b>> /\ <<b>> \in Seq(Binaries) /\ Has(<<b>>, b)
      BY <2>1, <2>4, <3>1, AppendIsConcat DEF b, Has
    <3>4. /\ image' \in Seq(Binaries) /\ Has(image', b)
          /\ \A w : Has(image, w) => Has(image', w)
      BY <2>1, <3>3, ConcatFacts
    <3>5. QED
      BY <1>1, <1>2, <2>1, <2>4, <3>1, <3>2, <3>4 DEF GuestImage
  <2>5. QED
    BY <2>2, <2>3, <2>4
<1>5. CASE setup_vcpu_context
  <2>1. /\ pc = "configure" /\ i \in Vcpu /\ i' = i + 1 /\ image \in Seq(Binaries)
        /\ pc' = IF i + 1 = config.vcpus THEN "run" ELSE "memory"
        /\ \A v \in Vcpu : v < i + 1 => \E w \in Binaries : w.vcpu = v /\ Has(image, w)
    BY <1>2, <1>5 DEF setup_vcpu_context, GuestImage, Progress, SetupSteps
  <2>2. ASSUME NEW t \in Seq(Tables), image' = image \o t, \A w \in Tables : Has(t, w),
               pc' = "run"
        PROVE  GuestImage'
    <3>1. image \in Seq(Binaries \cup Tables) /\ t \in Seq(Binaries \cup Tables)
      BY <2>1, SeqMonotonic
    <3>2. image' \in Seq(Binaries \cup Tables) /\ \A w : Has(image, w) \/ Has(t, w) => Has(image', w)
      BY <2>2, <3>1, ConcatFacts
    <3>3. QED
      BY <1>1, <1>2, <2>1, <2>2, <3>2 DEF GuestImage
  <2>3. ASSUME NEW s \in Seq(Tables), NEW t \in Seq(Tables), image' = (image \o s) \o t,
               \A w \in Tables : Has(s, w) \/ Has(t, w), pc' = "run"
        PROVE  GuestImage'
    <3>1. image \in Seq(Binaries \cup Tables) /\ s \in Seq(Binaries \cup Tables)
          /\ t \in Seq(Binaries \cup Tables)
      BY <2>1, SeqMonotonic
    <3>2. image' = image \o (s \o t)
      BY <2>3, <3>1, ConcatAssociative
    <3>3. s \o t \in Seq(Tables) /\ \A w \in Tables : Has(s \o t, w)
      BY <2>3, ConcatFacts
    <3>4. QED
      BY <2>2, <2>3, <3>2, <3>3
  <2>4. CASE config.mode = "real"
    <3>1. Tables = {} /\ image' = image
      BY <1>5, <2>4 DEF Tables, setup_vcpu_context, setup_realmode
    <3>2. image \in Seq(Binaries \cup Tables)
      BY <2>1, <3>1
    <3>3. QED
      BY <1>1, <1>2, <2>1, <3>1, <3>2 DEF GuestImage
  <2>5. CASE config.mode = "paging"
    <3>1. i = 0 /\ pc' = "run"
      BY <1>2, <2>1, <2>5
    <3>2. Tables = TablesPaging /\ image' = (image \o Descriptors(0)) \o PageTables(0)
      BY <1>5, <2>5, <3>1 DEF Tables, setup_vcpu_context, configure_protected_mode
    <3>3. QED
      BY <2>3, <3>1, <3>2, TableLists
  <2>6. CASE config.mode = "long"
    <3>1. i = 0 /\ pc' = "run"
      BY <1>2, <2>1, <2>6
    <3>2. Tables = TablesLong /\ image' = (image \o Tables64(0)) \o <<Gdt64(0)>>
      BY <1>5, <2>6, <3>1 DEF Tables, setup_vcpu_context, setup_vcpu_longmode
    <3>3. QED
      BY <2>3, <3>1, <3>2, TableLists
  <2>7. QED
    BY <1>2, <2>4, <2>5, <2>6
<1>6. CASE setup_vcpu_memory \/ (\E v \in Vcpu : Fetch(v) \/ Access(v)) \/ Failed \/ UNCHANGED vars
  BY <1>3, <1>6 DEF setup_vcpu_memory, Fetch, Access, Failed, memoryVars, vars
<1>7. ~(\/ PrepareLinux \/ load_linux_kernel \/ setup_linux_boot_params \/ load_initrd
        \/ ChooseEntry \/ setup_linux_vcpu_context)
  BY <1>2 DEF Progress, PrepareLinux, load_linux_kernel, setup_linux_boot_params, load_initrd,
              ChooseEntry, setup_linux_vcpu_context
<1>8. QED
  BY <1>4, <1>5, <1>6, <1>7 DEF Next, MemoryNext

LEMMA ClearedStep ==
  ASSUME DocumentedUse, BootInv, GuestImage, ClearedFirst, [Next]_vars
  PROVE  ClearedFirst'
<1>1. CASE pc' # "run"
  BY <1>1 DEF ClearedFirst
<1>2. CASE UNCHANGED <<image, pc>>
  BY <1>2 DEF ClearedFirst
<1>3. ASSUME image' \in Seq(Binaries) \/ image' \in Seq(Binaries \cup TablesPaging)
             \/ image' \in Seq(LinuxLoaded \cup Range32 \cup {Write(0, \h7000, 15, "handler")})
      PROVE  ClearedFirst'
  <2>1. \A w \in Binaries \cup TablesPaging \cup LinuxLoaded \cup Range32
                  \cup {Write(0, \h7000, 15, "handler")} : w.what # "cleared"
    <3>1. \A w \in TablesPaging \cup Range32 \cup {Write(0, \h7000, 15, "handler")} : w.what # "cleared"
      BY WriteFields, SMT DEF TablesPaging, Range32
    <3>2. \A w \in Binaries \cup LinuxLoaded : w.what # "cleared"
      BY KindsLoaded DEF TableKinds
    <3>3. QED
      BY <3>1, <3>2
  <2>2. \A n \in DOMAIN image' : image'[n].what # "cleared"
    BY <1>3, <2>1, ElementOfSeq, LenProperties
  <2>3. QED
    BY <2>2 DEF ClearedFirst
<1>4. CASE setup_vcpu_context /\ pc' = "run"
  <2>1. /\ pc = "configure" /\ config.mode \in {"real", "paging", "long"} /\ image \in Seq(Binaries)
    BY <1>4 DEF setup_vcpu_context, GuestImage
  <2>2. GuestImage' /\ config' = config /\ Binaries' = Binaries
    BY <1>4, <2>1, GuestStep, Fixed DEF Binaries
  <2>3. CASE config.mode = "real"
    BY <1>3, <1>4, <2>1, <2>3 DEF setup_vcpu_context, setup_realmode
  <2>4. CASE config.mode = "paging"
    BY <1>3, <1>4, <2>2, <2>4 DEF GuestImage, Tables
  <2>5. CASE config.mode = "long"
    <3>1. i = 0
      BY <2>1, <2>5, ModeFacts DEF BootInv, Progress, DocumentedUse, SetupSteps
    <3>2. image' = (image \o Tables64(0)) \o <<Gdt64(0)>>
      BY <1>4, <2>5, <3>1 DEF setup_vcpu_context, setup_vcpu_longmode
    <3>3. QED
      BY <2>1, <3>2, KindsLoaded, ClearedLong DEF TableKinds
  <2>6. QED
    BY <2>1, <2>3, <2>4, <2>5
<1>5. CASE setup_linux_vcpu_context
  <2>1. /\ pc = "configure" /\ pc' = "run" /\ config.mode = "linux" /\ opts \in Options
        /\ config' = config /\ opts' = opts /\ file' = file /\ mem_size' = mem_size
    BY <1>5, Fixed DEF setup_linux_vcpu_context, BootInv, ParamsOK, linuxVars
  <2>2. image \in Seq(LinuxLoaded) /\ i = 0
    BY <2>1, ModeFacts DEF BootInv, Progress, SetupSteps, LinuxImage, AfterKernel
  <2>3. CASE opts.entry = "boot64"
    <3>1. image' = (image \o Tables64(0)) \o <<Gdt64(0)>>
      BY <1>5, <2>2, <2>3 DEF setup_linux_vcpu_context, configure_linux_boot64_entry
    <3>2. QED
      BY <2>2, <3>1, KindsLoaded, ClearedLong
  <2>4. CASE opts.entry # "boot64"
    <3>1. image' \in Seq(LinuxLoaded \cup TablesLinux)
      <4>1. BootInv'
        BY BootStep
      <4>2. QED
        BY <2>1, <4>1, LinuxFixed DEF BootInv, LinuxImage, AfterKernel
    <3>2. LinuxLoaded \cup TablesLinux \subseteq LinuxLoaded \cup Range32 \cup {Write(0, \h7000, 15, "handler")}
      BY <2>4 DEF TablesLinux
    <3>3. QED
      BY <1>3, <3>1, <3>2, SeqMonotonic
  <2>5. QED
    BY <2>3, <2>4
<1>6. CASE pc' = "run" /\ ~setup_vcpu_context /\ ~setup_linux_vcpu_context
  <2>1. UNCHANGED <<image, pc>>
    BY <1>6 DEF Next, MemoryNext, setup_vcpu_memory, load_guest_binary, Fetch, Access, Failed,
                memoryVars, vars, PrepareLinux, load_linux_kernel, setup_linux_boot_params,
                load_initrd, ChooseEntry
  <2>2. QED
    BY <1>2, <2>1
<1>7. QED
  BY <1>1, <1>4, <1>5, <1>6

LEMMA LinuxOwn == \A w \in LinuxLoaded \cup TablesLinux : w.vcpu = 0
<1>1. \A w \in LinuxLow : w.vcpu = 0
  BY WriteFields, SMT DEF LinuxLow, BootParams
<1>2. \A w \in {SetupCode(file), KernelCode(file), CommandLine} : w.vcpu = 0
  BY WriteFields, SMT DEF SetupCode, KernelCode, CommandLine
<1>3. \A w \in InitrdPlaces(file) : w.vcpu = 0
  BY DEF InitrdPlaces
<1>4. \A w \in TablesLong \cup Range32 \cup {Write(0, \h7000, 15, "handler")} : w.vcpu = 0
  BY WriteFields, SMT DEF TablesLong, Range32
<1>5. \A w \in TablesLinux : w.vcpu = 0
  BY <1>4 DEF TablesLinux
<1>6. QED
  BY <1>1, <1>2, <1>3, <1>5 DEF LinuxLoaded

LEMMA FailedStep ==
  ASSUME BootInv, FailedImage, [Next]_vars
  PROVE  FailedImage'
<1> SUFFICES ASSUME config.mode = "linux", pc' = "failed"
    PROVE  \A n \in DOMAIN image' : image'[n].vcpu = 0
  BY Fixed DEF FailedImage
<1>1. \/ pc = "failed" /\ image' = image
      \/ load_linux_kernel
      \/ pc \in {"initrd", "entry"} /\ image' = image
  BY DEF Next, MemoryNext, setup_vcpu_memory, load_guest_binary, setup_vcpu_context, Fetch, Access,
         Failed, memoryVars, vars, PrepareLinux, setup_linux_boot_params, load_initrd, ChooseEntry,
         setup_linux_vcpu_context
<1>2. CASE pc = "failed" /\ image' = image
  BY <1>2 DEF FailedImage
<1>3. CASE pc \in {"initrd", "entry"} /\ image' = image
  <2>1. image \in Seq(LinuxLoaded)
    BY <1>3 DEF BootInv, LinuxImage, AfterKernel
  <2>2. QED
    BY <1>3, <2>1, LinuxOwn, ElementOfSeq, LenProperties
<1>4. CASE load_linux_kernel
  <2>1. image \in Seq(LinuxLow) /\ pc = "kernel"
    BY <1>4 DEF load_linux_kernel, BootInv, LinuxImage
  <2>2. i = 0
    BY <2>1, LinuxSetup DEF BootInv, SetupSteps
  <2>3. PICK f \in BzImages : image' = image \o <<SetupCode(f)>> \/ image' = image \o << >>
    BY <1>4, <2>2 DEF load_linux_kernel, SetupCode
  <2> DEFINE S == LinuxLow \cup {SetupCode(f)}
  <2>4. \A w \in S : w.vcpu = 0
    BY LinuxOwn, WriteFields DEF LinuxLoaded, SetupCode
  <2>5. image \in Seq(S)
    BY <2>1, SeqMonotonic
  <2>6. <<SetupCode(f)>> \in Seq(S) /\ << >> \in Seq(S)
    OBVIOUS
  <2> HIDE DEF S
  <2>7. image' \in Seq(S)
    BY <2>3, <2>5, <2>6, ConcatProperties
  <2>8. QED
    BY <2>4, <2>7, ElementOfSeq, LenProperties
<1>5. QED
  BY <1>1, <1>2, <1>3, <1>4

LEMMA LayoutInvariant == ASSUME DocumentedUse PROVE Spec => []LayoutInv
<1>1. LayoutInv /\ [Next]_vars => LayoutInv'
  <2> SUFFICES ASSUME LayoutInv, [Next]_vars PROVE LayoutInv'
    OBVIOUS
  <2>1. config.mode = "linux" => GuestImage'
    BY Fixed DEF GuestImage
  <2>2. GuestImage'
    BY <2>1, GuestStep DEF LayoutInv
  <2>3. QED
    BY <2>2, BootStep, FailedStep, ClearedStep, IsolatedStep DEF LayoutInv
<1>2. QED
  BY <1>1, LayoutInit, PTL DEF Spec

(* "Each vCPU uses different GPA range": used as documented (one guest in  *)
(* the modes with page tables), a guest reaches only the memory of its own *)
(* vCPU, for every number of real-mode guests and all binaries.            *)
THEOREM GuestsIsolated == ASSUME DocumentedUse PROVE Spec => []IsolatedMemory
<1>1. LayoutInv => IsolatedMemory
  BY DEF LayoutInv
<1>2. QED
  BY <1>1, LayoutInvariant, PTL

\* What a mode's tables leave alone: the address where binaries start.
LEMMA StartFree ==
  ASSUME Progress, config.mode # "linux", NEW w \in Tables,
         w.first <= load_offset, load_offset <= w.last
  PROVE  FALSE
<1>1. config.mode \in {"real", "paging", "long"}
  BY ModeFacts DEF Progress, Modes
<1>2. CASE config.mode = "real"
  BY <1>2 DEF Tables
<1>3. CASE config.mode = "paging"
  <2>1. w \in TablesPaging /\ load_offset = 4096
    BY <1>3, SMT DEF Tables, load_offset
  <2>2. QED
    BY <2>1, WriteFields, SMT DEF TablesPaging, Range32, GDT_ADDR, GDT_TOTAL_SIZE, PageDir,
                                  PageTable0, PageTable512
<1>4. CASE config.mode = "long"
  <2>1. w \in TablesLong /\ load_offset = 4096
    BY <1>4, SMT DEF Tables, load_offset
  <2>2. QED
    BY <2>1, WriteFields, SMT DEF TablesLong, Pml4, Pdpt, Pd
<1>5. QED
  BY <1>1, <1>2, <1>3, <1>4

(* The first instruction of every vCPU comes from the start of the binary  *)
(* it was given, used as documented: load_guest_binary with the segments,  *)
(* page tables and registers of setup_vcpu_context.                        *)
THEOREM OwnGuestRuns == ASSUME DocumentedUse PROVE Spec => []RunsOwnGuest
<1>1. ASSUME LayoutInv PROVE RunsOwnGuest
  <2> SUFFICES ASSUME config.mode # "linux", NEW v \in Vcpu, fetched[v] # None
      PROVE  /\ Owner(fetched[v]) = v /\ Holds(fetched[v], "binary")
             /\ fetched[v] - slot[v] = load_offset
    BY DEF RunsOwnGuest
  <2>1. Progress /\ pc = "run" /\ fetched[v] = v * mem_size + load_offset /\ image \in Seq(Writes)
    BY <1>1 DEF LayoutInv, BootInv, FetchedOK
  <2>2. /\ mem_size \in {262144, 4194304} /\ load_offset \in {0, 4096} /\ v \in 0..3 /\ i = config.vcpus
        /\ v < i
    BY <2>1, ModeFacts, SMT DEF Progress, Modes, Vcpu
  <2>3. v * mem_size \in Int
    BY <2>2, SMT
  <2>4. Owner(fetched[v]) = v /\ slot[v] = v * mem_size
    <3>1. /\ fetched[v] \in Int /\ v * mem_size <= fetched[v]
          /\ fetched[v] < v * mem_size + mem_size
      BY <2>1, <2>2, <2>3, SMT
    <3>2. QED
      BY <2>1, <3>1, OwnerFacts
  <2>5. fetched[v] - slot[v] = load_offset
    BY <2>1, <2>2, <2>3, <2>4, SMT
  <2>6. v # None
    BY <2>2 DEF None
  <2>7. Shows(fetched[v]) = Content(v, load_offset)
    BY <2>4, <2>5, <2>6 DEF Shows
  <2>8. PICK w \in Binaries : w.vcpu = v /\ Has(image, w)
    BY <1>1, <2>1, <2>2 DEF LayoutInv, GuestImage
  <2>9. w.first <= load_offset /\ load_offset <= w.last
    <3>1. PICK u \in Vcpu, fsize \in BinarySizes[config.mode] : w = Write(u, load_offset, fsize, "binary")
      BY DEF Binaries
    <3>2. fsize \in Nat \ {0}
      <4>1. config.mode \in Modes \ {"linux"}
        BY <2>1, ModeFacts DEF Progress
      <4>2. QED
        BY <4>1, SizesAssumption
    <3>3. QED
      BY <2>2, <3>1, <3>2, WriteFields
  <2>10. PICK k \in DOMAIN image : Covers(k, v, load_offset)
    BY <2>8, <2>9 DEF Has, Covers
  <2> DEFINE c == Content(v, load_offset)
  <2>11. c \in DOMAIN image /\ c # None /\ Covers(c, v, load_offset)
    BY <2>1, <2>10, ContentFacts
  <2> HIDE DEF c
  <2>12. image[c] \in Binaries \cup Tables
    <3>1. image \in Seq(Binaries \cup Tables)
      BY <1>1, <2>1 DEF LayoutInv, GuestImage
    <3>2. QED
      BY <2>11, <3>1, ElementOfSeq, LenProperties
  <2>13. image[c] \notin Tables
    BY <2>1, <2>11, StartFree DEF Covers
  <2>14. image[c].what = "binary"
    BY <2>12, <2>13, KindsLoaded
  <2>15. QED
    BY <2>4, <2>5, <2>7, <2>11, <2>14 DEF Holds, c
<1>2. QED
  BY <1>1, LayoutInvariant, PTL

-----------------------------------------------------------------------------
(* Every kind of write has an area of its own.                             *)

In(w, kind, lo, hi) == w.what = kind /\ lo <= w.first /\ w.last < hi

PagingArea(w) ==
  \/ In(w, "gdt", 1280, 1320) \/ In(w, "idt", 1320, 3368) \/ In(w, "binary", 4096, 1048576)
  \/ In(w, "page_dir", 1048576, 1052672) \/ In(w, "page_table", 1052672, 1060864)

LongTables(w) ==
  \/ In(w, "cleared", 8192, 24576) \/ In(w, "pml4", 8192, 12288) \/ In(w, "pdpt", 12288, 16384)
  \/ In(w, "pd", 16384, 20480) \/ In(w, "gdt", 20480, 20520)

LongArea(w) == In(w, "binary", 4096, 8192) \/ LongTables(w)

LinuxArea(w) ==
  \/ In(w, "ivt", 0, 1024) \/ In(w, "gdt", 1280, 1320) \/ In(w, "idt", 1320, 3368)
  \/ In(w, "stub", 4096, 4620) \/ LongTables(w) \/ In(w, "handler", 28672, 28687)
  \/ In(w, "setup", 65536, 131072) \/ In(w, "cmdline", 131072, 131328)
  \/ In(w, "boot_params", 589824, 593920)
  \/ In(w, "kernel", 1048576, 1048576 + file.hdr.init_size)
  \/ In(w, "initrd", 1048576 + file.hdr.init_size, 268435456)

\* Writes of two kinds meet only where the tables follow the clearing.
Apart(w, x) ==
  Overlap(w, x) =>
    \/ w.what = x.what
    \/ w.what = "cleared"
    \/ x.what = "cleared" /\ w.what \in {"pml4", "pdpt", "pd", "gdt"}

LEMMA AreasApart ==
  ASSUME NEW w \in Writes, NEW x \in Writes,
         \/ PagingArea(w) /\ PagingArea(x)
         \/ LongArea(w) /\ LongArea(x)
         \/ LinuxArea(w) /\ LinuxArea(x) /\ file.hdr.init_size \in Nat
  PROVE  Apart(w, x)
<1>1. w.first \in Nat /\ x.first \in Nat /\ w.last \in Int /\ x.last \in Int
  BY DEF Writes
<1>2. CASE PagingArea(w) /\ PagingArea(x)
  BY <1>1, <1>2, SMT DEF PagingArea, In, Apart, Overlap
<1>3. CASE LongArea(w) /\ LongArea(x)
  BY <1>1, <1>3, SMT DEF LongArea, LongTables, In, Apart, Overlap
<1>4. CASE LinuxArea(w) /\ LinuxArea(x) /\ file.hdr.init_size \in Nat
  BY <1>1, <1>4, SMT DEF LinuxArea, LongTables, In, Apart, Overlap
<1>5. QED
  BY <1>2, <1>3, <1>4

LEMMA TableAreas ==
  /\ \A w \in TablesPaging : PagingArea(w)
  /\ \A w \in TablesLong : LongTables(w)
  /\ \A w \in Range32 : In(w, "gdt", 1280, 1320) \/ In(w, "idt", 1320, 3368)
<1>1. \A w \in Range32 : In(w, "gdt", 1280, 1320) \/ In(w, "idt", 1320, 3368)
  BY WriteFields, SMT DEF Range32, GDT_ADDR, GDT_TOTAL_SIZE, In
<1>2. \A w \in TablesLong : LongTables(w)
  BY WriteFields, SMT DEF TablesLong, Pml4, Pdpt, Pd, LongTables, In
<1>3. ASSUME NEW w \in TablesPaging \ Range32
      PROVE  In(w, "page_dir", 1048576, 1052672) \/ In(w, "page_table", 1052672, 1060864)
  BY WriteFields, SMT DEF TablesPaging, PageDir, PageTable0, PageTable512, In
<1>4. \A w \in TablesPaging : PagingArea(w)
  BY <1>1, <1>3, SMT DEF PagingArea
<1>5. QED
  BY <1>1, <1>2, <1>4

LEMMA GuestAreas ==
  ASSUME GuestsFit, Progress
  PROVE  /\ config.mode = "paging" => \A w \in Binaries \cup Tables : PagingArea(w)
         /\ config.mode = "long" => \A w \in Binaries \cup Tables : LongArea(w)
<1>1. ASSUME config.mode \in {"paging", "long"}, NEW w \in Binaries
      PROVE  /\ config.mode = "paging" => In(w, "binary", 4096, 1048576)
             /\ config.mode = "long" => In(w, "binary", 4096, 8192)
  <2>1. PICK v \in Vcpu, fsize \in BinarySizes[config.mode] :
          w = Write(v, load_offset, fsize, "binary") /\ fsize + load_offset <= mem_size
    BY DEF Binaries
  <2>2. fsize \in Nat
    <3>1. config.mode \in Modes \ {"linux"}
      BY <1>1 DEF Modes
    <3>2. QED
      BY <3>1, SizesAssumption
  <2>3. mem_size = 4194304 /\ load_offset = 4096
    BY <1>1, ModeFacts, SMT DEF Progress
  <2>4. w.what = "binary" /\ w.first = 4096 /\ w.last = 4096 + fsize - 1 /\ fsize + 4096 <= 4194304
    BY <2>1, <2>3, WriteFields, SMT
  <2>5. config.mode = "paging" => fsize + 4096 <= 1048576
    BY <2>1, <2>2, <2>4, SMT DEF GuestsFit, PageDir
  <2>6. config.mode = "long" => fsize + 4096 <= 8192
    BY <2>1, <2>2, <2>4, SMT DEF GuestsFit, Pml4
  <2>7. QED
    BY <2>2, <2>4, <2>5, <2>6, SMT DEF In
<1>2. config.mode = "paging" => Tables = TablesPaging
  BY DEF Tables
<1>3. config.mode = "long" => Tables = TablesLong
  BY DEF Tables
<1>4. ASSUME config.mode = "paging", NEW w \in Binaries \cup Tables PROVE PagingArea(w)
  BY <1>1, <1>2, <1>4, TableAreas, SMT DEF PagingArea
<1>5. ASSUME config.mode = "long", NEW w \in Binaries \cup Tables PROVE LongArea(w)
  BY <1>1, <1>3, <1>5, TableAreas, SMT DEF LongArea
<1>6. QED
  BY <1>4, <1>5

\* What the boot protocol says of the bzImage that was loaded.
LEMMA ProtocolFacts ==
  ASSUME BootProtocol, BootInv, Booted
  PROVE  /\ file \in BzImages /\ file.hdr.init_size \in Nat /\ opts \in Options
         /\ SetupSize(file.hdr) \in Nat /\ 1024 <= SetupSize(file.hdr) /\ SetupSize(file.hdr) <= 65536
         /\ file.size - SetupSize(file.hdr) \in Nat /\ 512 < file.size - SetupSize(file.hdr)
         /\ file.size - SetupSize(file.hdr) <= file.hdr.init_size
         /\ DefaultStart(file.hdr).code32_start = KERNEL_LOAD_ADDR
         /\ file.hdr.cmd_line_ptr = 0 /\ file.hdr.ramdisk_size = 0
<1>1. file \in BzImages /\ KernelFits(file) /\ opts \in Options
  BY DEF BootInv, LinuxImage, AfterKernel, ParamsOK, Booted
<1>2. mem_size = 268435456
  BY ModeFacts, SMT DEF BootInv, Progress, Booted
<1>3. /\ file.size \in Nat /\ file.hdr.init_size \in Nat /\ SetupSize(file.hdr) \in Nat
      /\ 1024 <= SetupSize(file.hdr)
      /\ file.hdr.setup_sects <= 127 => SetupSize(file.hdr) <= 65536
  BY <1>1, SetupSizes, SMT
<1>4. /\ Bootable(file) /\ file.size - SetupSize(file.hdr) >= 0
      /\ file.size - SetupSize(file.hdr) <= 255 * 1024 * 1024
  BY <1>1, <1>2, <1>3, SMT DEF KernelFits, KERNEL_LOAD_ADDR
<1>5. /\ file.hdr.setup_sects <= 127
      /\ file.hdr.code32_start \in {0, KERNEL_LOAD_ADDR}
      /\ \h200 < file.size - SetupSize(file.hdr)
      /\ file.size - SetupSize(file.hdr) <= file.hdr.init_size
      /\ file.hdr.cmd_line_ptr = 0 /\ file.hdr.ramdisk_size = 0
  BY <1>1, <1>4, SMT DEF BootProtocol
<1>6. DefaultStart(file.hdr).code32_start = KERNEL_LOAD_ADDR
  <2>1. file.hdr \in Headers
    BY <1>1, HeaderTypes
  <2>2. QED
    BY <1>5, <2>1 DEF DefaultStart, Headers
<1>7. QED
  BY <1>1, <1>3, <1>5, <1>6, SMT

LEMMA LinuxAreas ==
  ASSUME BootProtocol, BootInv, Booted, NEW w \in LinuxLoaded \cup TablesLinux
  PROVE  LinuxArea(w)
<1>1. /\ opts \in Options /\ file.hdr.init_size \in Nat
      /\ SetupSize(file.hdr) \in Nat /\ SetupSize(file.hdr) <= 65536
      /\ file.size - SetupSize(file.hdr) \in Nat
      /\ file.size - SetupSize(file.hdr) <= file.hdr.init_size
  BY ProtocolFacts, SMT
<1>2. \A x \in LinuxLow :
        In(x, "ivt", 0, 1024) \/ In(x, "stub", 4096, 4620) \/ In(x, "boot_params", 589824, 593920)
  BY WriteFields, SMT DEF LinuxLow, BootParams, LINUX_BOOT_PARAMS_ADDR, In
<1>3. In(SetupCode(file), "setup", 65536, 131072)
  BY <1>1, WriteFields, SMT DEF SetupCode, REAL_MODE_KERNEL_ADDR, In
<1>4. In(KernelCode(file), "kernel", 1048576, 1048576 + file.hdr.init_size)
  BY <1>1, WriteFields, SMT DEF KernelCode, KERNEL_LOAD_ADDR, In
<1>5. In(CommandLine, "cmdline", 131072, 131328)
  BY <1>1, OptionFacts, WriteFields, SMT DEF CommandLine, COMMAND_LINE_ADDR, In
<1>6. ASSUME NEW x \in InitrdPlaces(file)
      PROVE  In(x, "initrd", 1048576 + file.hdr.init_size, 268435456)
  <2>1. mem_size = 268435456
    BY ModeFacts, SMT DEF BootInv, Progress, Booted
  <2>2. QED
    BY <1>1, <2>1, SMT DEF InitrdPlaces, KERNEL_LOAD_ADDR, In
<1>7. In(Write(0, \h7000, 15, "handler"), "handler", 28672, 28687)
  BY WriteFields, SMT DEF In
<1>8. ASSUME NEW x \in TablesLinux
      PROVE  \/ LongTables(x) \/ In(x, "gdt", 1280, 1320) \/ In(x, "idt", 1320, 3368)
             \/ In(x, "handler", 28672, 28687)
  BY <1>7, TableAreas, SMT DEF TablesLinux
<1>9. QED
  BY <1>2, <1>3, <1>4, <1>5, <1>6, <1>8, SMT DEF LinuxLoaded, LinuxArea

LEMMA ApartIntact ==
  ASSUME image \in Seq(Writes), ClearedFirst, pc = "run",
         \A n, m \in DOMAIN image : Apart(image[n], image[m])
  PROVE  \A n \in DOMAIN image : image[n].what # "cleared" => Intact(n)
<1> SUFFICES ASSUME NEW n \in DOMAIN image, image[n].what # "cleared",
                    NEW m \in n + 1 .. Len(image), Overlap(image[n], image[m])
    PROVE  image[m].what = image[n].what
  BY DEF Intact
<1>1. m \in DOMAIN image /\ n < m
  BY LenProperties
<1>2. Apart(image[n], image[m])
  BY <1>1
<1>3. CASE image[m].what = "cleared" /\ image[n].what \in {"pml4", "pdpt", "pd", "gdt"}
  BY <1>1, <1>3 DEF ClearedFirst
<1>4. QED
  BY <1>2, <1>3 DEF Apart

LEMMA LinuxIntact ==
  ASSUME BootProtocol, LayoutInv, Booted
  PROVE  /\ \A n \in DOMAIN image : image[n].what # "cleared" => Intact(n)
         /\ \A n \in DOMAIN image : image[n] \in LinuxLoaded \cup TablesLinux /\ LinuxArea(image[n])
<1>1. BootInv /\ ClearedFirst /\ pc = "run" /\ image \in Seq(Writes)
  BY DEF LayoutInv, BootInv, Booted
<1>2. image \in Seq(LinuxLoaded \cup TablesLinux)
  BY <1>1 DEF BootInv, LinuxImage, AfterKernel, Booted
<1>3. \A n \in DOMAIN image : image[n] \in LinuxLoaded \cup TablesLinux /\ image[n] \in Writes
  BY <1>1, <1>2, ElementOfSeq, LenProperties
<1>4. \A n \in DOMAIN image : LinuxArea(image[n])
  BY <1>1, <1>3, LinuxAreas
<1>5. file.hdr.init_size \in Nat
  BY <1>1, ProtocolFacts
<1>6. \A n, m \in DOMAIN image : Apart(image[n], image[m])
  BY <1>3, <1>4, <1>5, AreasApart
<1>7. QED
  BY <1>1, <1>3, <1>4, <1>6, ApartIntact

(* The writes of the VMM leave each other alone: binaries below the tables *)
(* of their mode (GuestsFit), or a bzImage that keeps the boot protocol    *)
(* with any initrd and command line that load_initrd and main() accept,    *)
(* are complete when their vCPU starts.                                    *)
THEOREM ImagesStayIntact ==
  ASSUME DocumentedUse, GuestsFit, BootProtocol
  PROVE  Spec => []ImageIntact
<1>1. ASSUME LayoutInv PROVE ImageIntact
  <2>1. BootInv /\ Progress /\ image \in Seq(Writes) /\ ClearedFirst
    BY <1>1 DEF LayoutInv, BootInv
  <2>2. CASE Booted
    BY <1>1, <2>2, LinuxIntact DEF ImageIntact
  <2>3. CASE config.mode = "linux" /\ pc # "run"
    <3>1. config.vcpus = 1 /\ i = 0 /\ Vcpu = {0}
      BY <2>1, <2>3, ModeFacts DEF Progress, Vcpu
    <3>2. regs[0] = Unset
      BY <2>1, <3>1 DEF BootInv, RegsOK
    <3>3. \A n \in DOMAIN image : image[n].vcpu = 0
      <4>1. CASE pc = "failed"
        BY <1>1, <2>3, <4>1 DEF LayoutInv, FailedImage
      <4>2. CASE pc \in {"memory", "load"}
        BY <2>1, <2>3, <4>2 DEF BootInv, LinuxImage
      <4>3. CASE pc \in {"kernel", "params", "initrd", "entry", "configure"}
        <5>1. image \in Seq(LinuxLow) \/ image \in Seq(LinuxLoaded)
          BY <2>1, <2>3, <4>3 DEF BootInv, LinuxImage, AfterKernel
        <5>2. \A w \in LinuxLow \cup LinuxLoaded : w.vcpu = 0
          BY LinuxOwn DEF LinuxLoaded
        <5>3. QED
          BY <5>1, <5>2, ElementOfSeq, LenProperties
      <4>4. QED
        BY <2>1, <2>3, <4>1, <4>2, <4>3 DEF Progress, SetupSteps
    <3>4. QED
      BY <3>2, <3>3 DEF ImageIntact, Unset
  <2>4. CASE config.mode # "linux" /\ (pc # "run" \/ config.mode = "real")
    <3>1. image \in Seq(Binaries)
      <4>1. config.mode = "real" => Tables = {}
        BY DEF Tables
      <4>2. Binaries \cup {} = Binaries
        OBVIOUS
      <4>3. QED
        BY <1>1, <2>4, <4>1, <4>2 DEF LayoutInv, GuestImage
    <3>2. \A n \in DOMAIN image : image[n].what = "binary"
      BY <3>1, KindsLoaded, ElementOfSeq, LenProperties
    <3>3. \A n \in DOMAIN image : \A m \in n + 1 .. Len(image) : m \in DOMAIN image
      BY <2>1, LenProperties
    <3>4. QED
      BY <3>2, <3>3 DEF ImageIntact, Intact
  <2>5. CASE config.mode \in {"paging", "long"} /\ pc = "run"
    <3>1. image \in Seq(Binaries \cup Tables)
      BY <1>1, <2>5 DEF LayoutInv, GuestImage
    <3>2. \A n \in DOMAIN image : image[n] \in Binaries \cup Tables /\ image[n] \in Writes
      BY <2>1, <3>1, ElementOfSeq, LenProperties
    <3>3. \A n, m \in DOMAIN image : \/ PagingArea(image[n]) /\ PagingArea(image[m])
                                     \/ LongArea(image[n]) /\ LongArea(image[m])
      BY <2>1, <2>5, <3>2, GuestAreas
    <3>4. \A n, m \in DOMAIN image : Apart(image[n], image[m])
      BY <3>2, <3>3, AreasApart
    <3>5. QED
      BY <2>1, <2>5, <3>4, ApartIntact DEF ImageIntact
  <2>6. config.mode \in Modes
    BY <2>1, ModeFacts DEF Progress
  <2>7. QED
    BY <2>2, <2>3, <2>4, <2>5, <2>6 DEF Modes, Booted
<1>2. QED
  BY <1>1, LayoutInvariant, PTL

(* What an address shows, once everything is intact.                       *)
LEMMA ShownWrite ==
  ASSUME BootProtocol, LayoutInv, Booted, NEW w, Has(image, w), w.what # "cleared", w.vcpu = 0,
         NEW a \in Int, w.first <= a, a <= w.last, 0 <= a, a < 268435456
  PROVE  /\ Owner(a) = 0 /\ Shows(a) \in DOMAIN image /\ Shows(a) # None
         /\ image[Shows(a)] \in LinuxLoaded \cup TablesLinux
         /\ image[Shows(a)].what = w.what /\ Holds(a, w.what)
<1>1. BootInv /\ Progress /\ pc = "run" /\ image \in Seq(Writes) /\ config.mode = "linux"
  BY DEF LayoutInv, BootInv, Booted
<1>2. mem_size = 268435456 /\ 0 \in Vcpu
  BY <1>1, ModeFacts, SMT DEF Progress, Vcpu
<1>3. Owner(a) = 0 /\ slot[0] = 0
  <2>1. 0 * mem_size = 0
    BY <1>2, SMT
  <2>2. 0 * mem_size <= a /\ a < 0 * mem_size + mem_size
    BY <1>2, <2>1, SMT
  <2>3. QED
    BY <1>1, <1>2, <2>1, <2>2, OwnerFacts
<1>4. Shows(a) = Content(0, a)
  <2>1. a - 0 = a
    OBVIOUS
  <2>2. QED
    BY <1>3, <2>1 DEF Shows, None
<1>5. PICK k \in DOMAIN image : image[k] = w
  BY DEF Has
<1>6. Covers(k, 0, a)
  BY <1>5 DEF Covers
<1> DEFINE c == Content(0, a)
<1>7. c \in DOMAIN image /\ c # None /\ Covers(c, 0, a) /\ k <= c
  BY <1>1, <1>6, ContentFacts
<1> HIDE DEF c
<1>8. Intact(k) /\ image[c] \in LinuxLoaded \cup TablesLinux
  BY <1>5, <1>7, LinuxIntact
<1>9. image[c].what = w.what
  <2>1. CASE c = k
    BY <1>5, <2>1
  <2>2. CASE c # k
    <3>1. c \in k + 1 .. Len(image) /\ image[c] \in Writes /\ image[k] \in Writes
      BY <1>1, <1>7, <2>2, ElementOfSeq, LenProperties
    <3>2. Overlap(image[k], image[c])
      BY <1>6, <1>7, <3>1 DEF Covers, Overlap, Writes
    <3>3. QED
      BY <1>5, <1>8, <3>1, <3>2 DEF Intact
  <2>3. QED
    BY <2>1, <2>2
<1>10. QED
  BY <1>3, <1>4, <1>7, <1>8, <1>9 DEF c, Holds

LEMMA LinuxReach ==
  ASSUME BootProtocol, LayoutInv, Booted, NEW a \in Int, 0 <= a, a < 268435456
  PROVE  /\ opts.entry \in {"code32", "boot64"} => Translate(0, a) = a
         /\ opts.entry = "setup" /\ a <= 65535 => Translate(0, a) = 65536 + a
<1>1. BootInv /\ Progress /\ pc = "run" /\ config.mode = "linux"
  BY DEF LayoutInv, BootInv, Booted
<1>2. mem_size = 268435456 /\ 0 \in Vcpu
  BY <1>1, ModeFacts, SMT DEF Progress, Vcpu
<1>3. CASE opts.entry = "boot64"
  <2>1. Translate(0, a) = WalkLong(Pml4, a)
    BY <1>1, <1>2, <1>3, TranslateFacts
  <2>2. \A w \in TablesLong : Has(image, w)
    BY <1>1, <1>3 DEF BootInv, LinuxImage, TablesLinux
  <2>3. Holds(Pml4, "pml4")
    <3> DEFINE w == Write(0, Pml4, 4096, "pml4")
    <3>1. Has(image, w)
      BY <2>2 DEF TablesLong
    <3>2. /\ w.vcpu = 0 /\ w.what = "pml4" /\ Pml4 \in Int /\ w.first <= Pml4 /\ Pml4 <= w.last
          /\ 0 <= Pml4 /\ Pml4 < 268435456
      BY WriteFields, SMT DEF Pml4
    <3> HIDE DEF w
    <3>3. QED
      BY <3>1, <3>2, ShownWrite
  <2>4. Holds(Pdpt, "pdpt")
    <3> DEFINE w == Write(0, Pdpt, 4096, "pdpt")
    <3>1. Has(image, w)
      BY <2>2 DEF TablesLong
    <3>2. /\ w.vcpu = 0 /\ w.what = "pdpt" /\ Pdpt \in Int /\ w.first <= Pdpt /\ Pdpt <= w.last
          /\ 0 <= Pdpt /\ Pdpt < 268435456
      BY WriteFields, SMT DEF Pdpt
    <3> HIDE DEF w
    <3>3. QED
      BY <3>1, <3>2, ShownWrite
  <2>5. Holds(Pd, "pd")
    <3> DEFINE w == Write(0, Pd, 4096, "pd")
    <3>1. Has(image, w)
      BY <2>2 DEF TablesLong
    <3>2. /\ w.vcpu = 0 /\ w.what = "pd" /\ Pd \in Int /\ w.first <= Pd /\ Pd <= w.last
          /\ 0 <= Pd /\ Pd < 268435456
      BY WriteFields, SMT DEF Pd
    <3> HIDE DEF w
    <3>3. QED
      BY <3>1, <3>2, ShownWrite
  <2>6. Translate(0, a) = a
    BY <1>2, <2>1, <2>3, <2>4, <2>5, SMT DEF WalkLong
  <2>7. QED
    BY <1>3, <2>6
<1>4. CASE opts.entry = "code32"
  <2>1. Translate(0, a) = IF Owner(a) # None THEN a ELSE None
    BY <1>1, <1>2, <1>4, TranslateFacts
  <2>2. Owner(a) = 0
    <3>1. 0 * mem_size = 0
      BY <1>2, SMT
    <3>2. 0 * mem_size <= a /\ a < 0 * mem_size + mem_size
      BY <1>2, <3>1, SMT
    <3>3. QED
      BY <1>1, <1>2, <3>1, <3>2, OwnerFacts
  <2>3. QED
    BY <1>4, <2>1, <2>2 DEF None
<1>5. CASE opts.entry = "setup"
  <2>1. Translate(0, a) = IF a \in 0 .. SegmentLimit THEN REAL_MODE_KERNEL_ADDR + a ELSE None
    BY <1>1, <1>2, <1>5, TranslateFacts
  <2>2. a <= 65535 => Translate(0, a) = 65536 + a
    BY <2>1, SMT DEF SegmentLimit, REAL_MODE_KERNEL_ADDR
  <2>3. QED
    BY <1>5, <2>2, SMT
<1>6. opts.entry \in {"setup", "code32", "boot64"}
  BY <1>1, OptionFacts DEF BootInv, ParamsOK
<1>7. QED
  BY <1>3, <1>4, <1>5, <1>6, SMT

LEMMA LinuxRegs ==
  ASSUME BootProtocol, BootInv, Booted
  PROVE  /\ opts.entry = "boot64" => regs[0].rip = 1049088 /\ regs[0].rsi = 589824 /\ regs[0].base = 0
         /\ opts.entry = "code32" =>
              /\ regs[0].rip = 1048576 /\ regs[0].base = 0
              /\ opts.rsi = "base" => regs[0].rsi = 589824
         /\ opts.entry = "setup" => regs[0].rip = 512 /\ regs[0].rsi = 0 /\ regs[0].base = 65536
<1>1. config.mode = "linux" /\ pc = "run" /\ 0 \in Vcpu
  BY ModeFacts DEF BootInv, Progress, Booted, Vcpu
<1>2. regs[0] = StartedLinux
  BY <1>1, EntryFacts DEF Started
<1>3. params.hdr.code32_start = 1048576
  <2>1. params.hdr.code32_start = DefaultStart(file.hdr).code32_start
    BY <1>1 DEF BootInv, ParamsOK, AfterKernel
  <2>2. QED
    BY <2>1, ProtocolFacts, SMT DEF KERNEL_LOAD_ADDR
<1>4. /\ opts.entry = "boot64" => entry_point = 1049088
      /\ opts.entry = "code32" => entry_point = 1048576
  BY <1>3, SMT DEF entry_point, KERNEL_LOAD_ADDR
<1>5. opts.entry = "boot64" =>
        StartedLinux.rip = 1049088 /\ StartedLinux.rsi = 589824 /\ StartedLinux.base = 0
  BY <1>4, SMT DEF StartedLinux, LINUX_BOOT_PARAMS_ADDR
<1>6. opts.entry = "code32" =>
        /\ StartedLinux.rip = 1048576 /\ StartedLinux.base = 0
        /\ opts.rsi = "base" => StartedLinux.rsi = 589824
  BY <1>4, SMT DEF StartedLinux, LINUX_BOOT_PARAMS_ADDR
<1>7. opts.entry = "setup" =>
        StartedLinux.rip = 512 /\ StartedLinux.rsi = 0 /\ StartedLinux.base = 65536
  BY SMT DEF StartedLinux, REAL_MODE_KERNEL_ADDR
<1>8. QED
  BY <1>2, <1>5, <1>6, <1>7, SMT

\* The writes of the kinds that a fetch or the boot information can meet.
LEMMA OneOfKind ==
  ASSUME NEW w \in LinuxLoaded \cup TablesLinux
  PROVE  /\ w.what = "kernel" => w.first = 1048576
         /\ w.what = "setup" => w.first = 65536
         /\ w.what = "boot_params" => w.first = 589824
<1>1. \A x \in LinuxLow :
        x.what \notin {"kernel", "setup"} /\ (x.what = "boot_params" => x.first = 589824)
  BY WriteFields, SMT DEF LinuxLow, BootParams, LINUX_BOOT_PARAMS_ADDR
<1>2. /\ SetupCode(file).what = "setup" /\ SetupCode(file).first = 65536
      /\ KernelCode(file).what = "kernel" /\ KernelCode(file).first = 1048576
      /\ CommandLine.what = "cmdline"
  BY WriteFields, SMT DEF SetupCode, KernelCode, CommandLine, REAL_MODE_KERNEL_ADDR, KERNEL_LOAD_ADDR
<1>3. \A x \in InitrdPlaces(file) : x.what = "initrd"
  BY DEF InitrdPlaces
<1>4. \A x \in TablesLong \cup Range32 \cup {Write(0, \h7000, 15, "handler")} :
        x.what \notin {"kernel", "setup", "boot_params"}
  BY WriteFields, SMT DEF TablesLong, Range32
<1>5. \A x \in TablesLinux : x.what \notin {"kernel", "setup", "boot_params"}
  BY <1>4 DEF TablesLinux
<1>6. QED
  BY <1>1, <1>2, <1>3, <1>5, SMT DEF LinuxLoaded

(* Linux starts where the boot protocol says, by each of the three entries *)
(* of setup_vcpu_context, for every bzImage that keeps the protocol.       *)
THEOREM LinuxStarts ==
  ASSUME DocumentedUse, BootProtocol
  PROVE  Spec => []StartsAtEntry
<1>1. ASSUME LayoutInv PROVE StartsAtEntry
  <2> SUFFICES ASSUME Booted
      PROVE  LET gpa == Translate(0, regs[0].rip)
             IN /\ gpa # None /\ Shows(gpa) # None
                /\ image[Shows(gpa)].what = IF opts.entry = "setup" THEN "setup" ELSE "kernel"
                /\ gpa - image[Shows(gpa)].first = IF opts.entry = "code32" THEN 0 ELSE \h200
    BY DEF StartsAtEntry
  <2> DEFINE gpa == Translate(0, regs[0].rip)
  <2>1. BootInv /\ opts \in Options
    BY <1>1 DEF LayoutInv, BootInv, ParamsOK
  <2>2. Has(image, SetupCode(file)) /\ Has(image, KernelCode(file))
    BY <2>1 DEF BootInv, LinuxImage, AfterKernel, Booted
  <2>3. /\ KernelCode(file).vcpu = 0 /\ KernelCode(file).what = "kernel"
        /\ KernelCode(file).first = 1048576 /\ 1049088 <= KernelCode(file).last
    BY <2>1, ProtocolFacts, WriteFields, SMT DEF KernelCode, KERNEL_LOAD_ADDR
  <2>4. /\ SetupCode(file).vcpu = 0 /\ SetupCode(file).what = "setup"
        /\ SetupCode(file).first = 65536 /\ 66048 <= SetupCode(file).last
    BY <2>1, ProtocolFacts, WriteFields, SMT DEF SetupCode, REAL_MODE_KERNEL_ADDR
  <2>5. KernelCode(file).last \in Int
    BY <2>1, ProtocolFacts, WriteFields, SMT DEF KernelCode, KERNEL_LOAD_ADDR
  <2>6. ASSUME NEW a \in Int, 1048576 <= a, a <= 1049088
        PROVE  /\ Shows(a) # None /\ image[Shows(a)].what = "kernel"
               /\ image[Shows(a)].first = 1048576
    <3>1. /\ a \in Int /\ KernelCode(file).first <= a /\ a <= KernelCode(file).last
          /\ 0 <= a /\ a < 268435456
      BY <2>3, <2>5, <2>6, SMT
    <3>2. KernelCode(file).what # "cleared"
      BY <2>3
    <3>3. /\ Shows(a) # None /\ image[Shows(a)] \in LinuxLoaded \cup TablesLinux
          /\ image[Shows(a)].what = KernelCode(file).what
      BY <1>1, <2>2, <2>3, <3>1, <3>2, ShownWrite
    <3>4. QED
      BY <2>3, <3>3, OneOfKind, SMT
  <2>7. CASE opts.entry = "boot64"
    <3>1. regs[0].rip = 1049088
      BY <2>1, <2>7, LinuxRegs, SMT
    <3>2. gpa = 1049088
      BY <1>1, <2>7, <3>1, LinuxReach, SMT
    <3>3. /\ Shows(1049088) # None /\ image[Shows(1049088)].what = "kernel"
          /\ image[Shows(1049088)].first = 1048576
      <4>1. \A a \in Int : 1048576 <= a /\ a <= 1049088 =>
              Shows(a) # None /\ image[Shows(a)].what = "kernel" /\ image[Shows(a)].first = 1048576
        BY <2>6
      <4>2. 1049088 \in Int /\ 1048576 <= 1049088 /\ 1049088 <= 1049088
        BY SMT
      <4>3. QED
        BY <4>1, <4>2, SMT
    <3>4. QED
      BY <2>7, <3>2, <3>3, SMT DEF None
  <2>8. CASE opts.entry = "code32"
    <3>1. regs[0].rip = 1048576
      BY <2>1, <2>8, LinuxRegs, SMT
    <3>2. gpa = 1048576
      BY <1>1, <2>8, <3>1, LinuxReach, SMT
    <3>3. /\ Shows(1048576) # None /\ image[Shows(1048576)].what = "kernel"
          /\ image[Shows(1048576)].first = 1048576
      <4>1. \A a \in Int : 1048576 <= a /\ a <= 1049088 =>
              Shows(a) # None /\ image[Shows(a)].what = "kernel" /\ image[Shows(a)].first = 1048576
        BY <2>6
      <4>2. 1048576 \in Int /\ 1048576 <= 1048576 /\ 1048576 <= 1049088
        BY SMT
      <4>3. QED
        BY <4>1, <4>2, SMT
    <3>4. QED
      BY <2>8, <3>2, <3>3, SMT DEF None
  <2>9. CASE opts.entry = "setup"
    <3>1. regs[0].rip = 512
      BY <2>1, <2>9, LinuxRegs, SMT
    <3>2. gpa = 66048
      BY <1>1, <2>9, <3>1, LinuxReach, SMT
    <3>3. SetupCode(file).what # "cleared" /\ 66048 \in Int
      BY <2>4, SMT
    <3>4. /\ Shows(66048) # None /\ image[Shows(66048)] \in LinuxLoaded \cup TablesLinux
          /\ image[Shows(66048)].what = "setup"
      <4>1. \A a \in Int : 65536 <= a /\ a <= 66048 => SetupCode(file).first <= a /\ a <= SetupCode(file).last
        <5>1. SetupCode(file).last \in Int
          BY <2>1, ProtocolFacts, WriteFields, SMT DEF SetupCode, REAL_MODE_KERNEL_ADDR
        <5>2. QED
          BY <2>4, <5>1, SMT
      <4>2. 66048 \in Int /\ 0 <= 66048 /\ 66048 < 268435456 /\ 65536 <= 66048 /\ 66048 <= 66048
        BY SMT
      <4>3. \A a \in Int :
              0 <= a /\ a < 268435456 /\ SetupCode(file).first <= a /\ a <= SetupCode(file).last =>
              /\ Shows(a) # None /\ image[Shows(a)] \in LinuxLoaded \cup TablesLinux
              /\ image[Shows(a)].what = "setup"
        BY <1>1, <2>2, <2>4, <3>3, ShownWrite
      <4>4. QED
        BY <4>1, <4>2, <4>3, SMT
    <3>5. image[Shows(66048)].first = 65536
      BY <3>4, OneOfKind, SMT
    <3>6. QED
      BY <2>9, <3>2, <3>4, <3>5, SMT DEF None
  <2>10. QED
    BY <2>1, <2>7, <2>8, <2>9, OptionFacts, SMT
<1>2. QED
  BY <1>1, LayoutInvariant, PTL

\* The write at the start of an area shows the area.
LEMMA ShownStart ==
  ASSUME BootProtocol, LayoutInv, Booted
  PROVE  /\ Shows(589824) # None /\ image[Shows(589824)].what = "boot_params"
         /\ image[Shows(589824)].first = 589824
         /\ Shows(65536) # None /\ image[Shows(65536)].what = "setup"
         /\ image[Shows(65536)].first = 65536
         /\ opts.cmdline # None => Holds(COMMAND_LINE_ADDR, "cmdline")
<1>1. BootInv /\ opts \in Options
  BY DEF LayoutInv, BootInv, ParamsOK
<1>2. Has(image, BootParams) /\ Has(image, SetupCode(file))
  BY <1>1 DEF BootInv, LinuxImage, AfterKernel, Booted
<1>3. ASSUME NEW w, NEW a \in Int, Has(image, w), w.vcpu = 0, w.first = a, a <= w.last,
             0 <= a, a < 268435456, w.what # "cleared"
      PROVE  /\ Shows(a) # None /\ image[Shows(a)] \in LinuxLoaded \cup TablesLinux
             /\ image[Shows(a)].what = w.what /\ Holds(a, w.what)
  BY <1>3, ShownWrite
<1>4. /\ Shows(589824) # None /\ image[Shows(589824)] \in LinuxLoaded \cup TablesLinux
      /\ image[Shows(589824)].what = "boot_params"
  <2>1. /\ BootParams.vcpu = 0 /\ BootParams.what = "boot_params" /\ BootParams.first = 589824
        /\ 589824 <= BootParams.last /\ 589824 \in Int /\ 0 <= 589824 /\ 589824 < 268435456
    BY WriteFields, SMT DEF BootParams, LINUX_BOOT_PARAMS_ADDR
  <2>2. QED
    BY <1>2, <1>3, <2>1, SMT
<1>5. /\ Shows(65536) # None /\ image[Shows(65536)] \in LinuxLoaded \cup TablesLinux
      /\ image[Shows(65536)].what = "setup"
  <2>1. /\ SetupCode(file).vcpu = 0 /\ SetupCode(file).what = "setup" /\ SetupCode(file).first = 65536
        /\ 65536 <= SetupCode(file).last /\ 65536 \in Int /\ 0 <= 65536 /\ 65536 < 268435456
    BY <1>1, ProtocolFacts, WriteFields, SMT DEF SetupCode, REAL_MODE_KERNEL_ADDR
  <2>2. QED
    BY <1>2, <1>3, <2>1, SMT
<1>6. ASSUME opts.cmdline # None PROVE Holds(COMMAND_LINE_ADDR, "cmdline")
  <2>1. Has(image, CommandLine)
    BY <1>1, <1>6 DEF BootInv, LinuxImage, Booted
  <2>2. CmdlineLen \in Int /\ 1 <= CmdlineLen
    BY <1>1, <1>6, OptionFacts
  <2>3. /\ CommandLine.vcpu = 0 /\ CommandLine.what = "cmdline" /\ CommandLine.first = COMMAND_LINE_ADDR
        /\ COMMAND_LINE_ADDR <= CommandLine.last /\ COMMAND_LINE_ADDR \in Int
        /\ 0 <= COMMAND_LINE_ADDR /\ COMMAND_LINE_ADDR < 268435456
    BY <2>2, WriteFields, SMT DEF CommandLine, COMMAND_LINE_ADDR
  <2>4. QED
    BY <1>3, <2>1, <2>3
<1>7. QED
  BY <1>4, <1>5, <1>6, OneOfKind, SMT

(* The kernel finds what the user gave it: the header that RSI leads to    *)
(* has the command line's address and the initrd's place and size, and     *)
(* both are there (setup_linux_boot_params, load_initrd, ChooseEntry).     *)
THEOREM LinuxFindsBootInfo ==
  ASSUME DocumentedUse, BootProtocol
  PROVE  Spec => []BootInfoFound
<1>1. ASSUME LayoutInv PROVE BootInfoFound
  <2> SUFFICES ASSUME Booted, opts.rsi = "base",
                      opts.entry = "setup" => opts.cmdline = None /\ opts.initrd = None
      PROVE  LET h == HeaderSeen
             IN /\ h.setup_sects = file.hdr.setup_sects /\ h.init_size = file.hdr.init_size
                /\ IF opts.cmdline = None THEN h.cmd_line_ptr = 0 ELSE Holds(h.cmd_line_ptr, "cmdline")
                /\ h.ramdisk_size = (IF opts.initrd = None THEN 0 ELSE opts.initrd)
                /\ opts.initrd # None => \E n \in DOMAIN image :
                     image[n] = Write(0, h.ramdisk_image, h.ramdisk_size, "initrd")
    BY DEF BootInfoFound
  <2>1. BootInv /\ opts \in Options
    BY <1>1 DEF LayoutInv, BootInv, ParamsOK
  <2>2. file.hdr.cmd_line_ptr = 0 /\ file.hdr.ramdisk_size = 0
    BY <2>1, ProtocolFacts
  <2>3. opts.entry \in {"setup", "code32", "boot64"}
    BY <2>1, OptionFacts
  <2>4. CASE opts.entry = "setup"
    <3>1. HeaderSeen = file.hdr
      <4>1. regs[0].rsi = 0 /\ regs[0].base + regs[0].rsi = 65536
        BY <2>1, <2>4, LinuxRegs, SMT
      <4>2. Translate(0, regs[0].rsi) = 65536
        BY <1>1, <2>4, <4>1, LinuxReach, SMT
      <4> DEFINE n == Shows(Translate(0, regs[0].rsi))
      <4>3. n # None /\ image[n].what = "setup" /\ image[n].first = regs[0].base + regs[0].rsi
        BY <1>1, <4>1, <4>2, ShownStart, SMT
      <4>4. QED
        BY <4>3, Zenon DEF HeaderSeen
    <3>2. QED
      BY <2>2, <2>4, <3>1
  <2>5. CASE opts.entry # "setup"
    <3>1. HeaderSeen = params.hdr
      <4>1. regs[0].rsi = 589824 /\ regs[0].base + regs[0].rsi = 589824
        BY <2>1, <2>3, <2>5, LinuxRegs, SMT
      <4>2. Translate(0, regs[0].rsi) = 589824
        BY <1>1, <2>3, <2>5, <4>1, LinuxReach, SMT
      <4> DEFINE n == Shows(Translate(0, regs[0].rsi))
      <4>3. n # None /\ image[n].what = "boot_params" /\ image[n].first = regs[0].base + regs[0].rsi
        BY <1>1, <4>1, <4>2, ShownStart, SMT
      <4>4. QED
        BY <4>3, Zenon DEF HeaderSeen
    <3>2. /\ params.hdr.setup_sects = file.hdr.setup_sects
          /\ params.hdr.init_size = file.hdr.init_size
          /\ opts.cmdline # None => params.hdr.cmd_line_ptr = COMMAND_LINE_ADDR
          /\ opts.cmdline = None => params.hdr.cmd_line_ptr = file.hdr.cmd_line_ptr
          /\ opts.initrd = None => params.hdr.ramdisk_size = file.hdr.ramdisk_size
          /\ opts.initrd # None =>
               /\ params.hdr.ramdisk_size = opts.initrd
               /\ Has(image, Write(0, params.hdr.ramdisk_image, opts.initrd, "initrd"))
      BY <2>1 DEF BootInv, ParamsOK, AfterKernel, Booted
    <3>3. opts.cmdline # None => Holds(COMMAND_LINE_ADDR, "cmdline")
      BY <1>1, ShownStart
    <3>4. QED
      BY <2>2, <3>1, <3>2, <3>3 DEF Has
  <2>6. QED
    BY <2>4, <2>5
<1>2. QED
  BY <1>1, LayoutInvariant, PTL

(* The command line that the kernel reads ends, and nothing of it was      *)
(* overwritten, although main() copies only 256 bytes of it: the byte      *)
(* behind a longer one is never written.                                   *)
THEOREM CommandLineComplete ==
  ASSUME DocumentedUse, BootProtocol
  PROVE  Spec => []CommandLineEnds
<1>1. ASSUME LayoutInv PROVE CommandLineEnds
  <2> SUFFICES ASSUME Booted, opts.cmdline # None
      PROVE  /\ \A n \in DOMAIN image : image[n].what = "cmdline" => Intact(n)
             /\ opts.cmdline < CmdlineLen \/ Content(0, COMMAND_LINE_ADDR + CmdlineLen) = None
    BY DEF CommandLineEnds
  <2>1. BootInv /\ opts \in Options /\ image \in Seq(Writes)
    BY <1>1 DEF LayoutInv, BootInv, ParamsOK
  <2>2. \A n \in DOMAIN image : image[n].what = "cmdline" => Intact(n)
    BY <1>1, LinuxIntact
  <2>3. opts.cmdline < CmdlineLen \/ CmdlineLen = 256
    <3>1. /\ opts.cmdline \in Nat \cup {None}
          /\ CmdlineLen = IF opts.cmdline + 1 <= 256 THEN opts.cmdline + 1 ELSE 256
      BY <2>1, OptionFacts
    <3>2. QED
      BY <3>1
  <2>4. ASSUME CmdlineLen = 256 PROVE Content(0, COMMAND_LINE_ADDR + CmdlineLen) = None
    <3>1. ASSUME NEW n \in DOMAIN image PROVE ~Covers(n, 0, COMMAND_LINE_ADDR + CmdlineLen)
      <4>1. LinuxArea(image[n]) /\ file.hdr.init_size \in Nat
        BY <1>1, <2>1, LinuxIntact, ProtocolFacts
      <4>2. image[n].first \in Nat /\ image[n].last \in Int
        <5>1. image[n] \in Writes
          BY <2>1, ElementOfSeq, LenProperties
        <5>2. QED
          BY <5>1 DEF Writes
      <4>3. COMMAND_LINE_ADDR + CmdlineLen = 131328
        BY <2>4, SMT DEF COMMAND_LINE_ADDR
      <4>4. QED
        BY <4>1, <4>2, <4>3, SMT DEF LinuxArea, LongTables, In, Covers
    <3>2. QED
      BY <3>1, NoContent
  <2>5. QED
    BY <2>2, <2>3, <2>4
<1>2. QED
  BY <1>1, LayoutInvariant, PTL
=============================================================================
