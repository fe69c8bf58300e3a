---------------------------- MODULE GuestMemory ----------------------------
(***************************************************************************)
(* Where the VMM puts a guest: src/kvm-vmm-x86/src/main.c gives every vCPU *)
(* its own host memory and slot of guest-physical addresses                *)
(* (setup_vcpu_memory), copies the binary into it (load_guest_binary) and  *)
(* writes descriptor and page tables beside it (configure_protected_mode,  *)
(* setup_vcpu_longmode and paging_64.c), then points the registers at it   *)
(* (setup_realmode_segments, CR3, RIP).                                    *)
(*                                                                         *)
(* The slots of all vCPUs form one guest-physical address space: a         *)
(* register or a table entry holds a guest-physical address, while the VMM *)
(* writes at offsets in the memory of one vCPU.  Linux guests share this   *)
(* module's state and first step; LinuxBoot adds the rest of their set-up. *)
(***************************************************************************)
EXTENDS Integers, Sequences, FiniteSetsExt

CONSTANTS
  Configs,      \* what the command line may ask for: [mode, vcpus] records
  BinarySizes   \* BinarySizes[mode]: the sizes of guest binaries, in bytes

Modes == {"real", "paging", "long", "linux"}
MAX_VCPUS == 4

\* Linux runs on one vCPU.
ASSUME ConfigsAssumption ==
  /\ Configs \subseteq [mode : Modes, vcpus : 1..MAX_VCPUS]
  /\ \A c \in Configs : c.mode = "linux" => c.vcpus = 1
ASSUME SizesAssumption == \A m \in Modes \ {"linux"} : BinarySizes[m] \subseteq Nat \ {0}

VARIABLES
  config,   \* the run's mode and number of vCPUs
  pc,       \* memory, load, ..., configure (of vCPU i), run or failed
  i,
  slot,     \* slot[v]: first guest-physical address of v's memory
  image,    \* what the VMM wrote to the vCPUs' memory, oldest first
  regs,     \* regs[v]: how v translates addresses (walk), and where it starts
  fetched,  \* fetched[v]: what v's first instruction was fetched from
  touched   \* <<v, u>>: v accessed memory of vCPU u

memoryVars == <<config, pc, i, slot, image, regs, fetched, touched>>

Vcpu == 0 .. config.vcpus - 1

None == -1

\* 256 MB for Linux, 4 MB with paging, 256 KB per real-mode vCPU.
mem_size ==
  CASE config.mode = "linux" -> 256 * 1024 * 1024
    [] config.mode = "real" -> 256 * 1024
    [] OTHER -> 4 * 1024 * 1024

load_offset == IF config.mode = "real" THEN 0 ELSE \h1000

\* 0x80000000 as a signed 32-bit number: TLC's integers have 32 bits.
KernelBase == -2147483647 - 1

Unset == [walk |-> "none", base |-> 0, cr3 |-> None, rip |-> None, rsi |-> 0]

MemoryInit ==
  /\ config \in Configs
  /\ pc = "memory" /\ i = 0
  /\ slot = [v \in Vcpu |-> None]
  /\ image = << >>
  /\ regs = [v \in Vcpu |-> Unset]
  /\ fetched = [v \in Vcpu |-> None]
  /\ touched = {}

-----------------------------------------------------------------------------
(* Memory as the guests see it.                                            *)

\* The last write to offset a of v's memory, None for a byte still zero.
Content(v, a) ==
  LET writes == {n \in DOMAIN image :
                   image[n].vcpu = v /\ image[n].first <= a /\ a <= image[n].last}
  IN IF writes = {} THEN None ELSE Max(writes)

Overlap(w, x) == w.vcpu = x.vcpu /\ w.first <= x.last /\ x.first <= w.last

\* No later write of something else hit what the n-th one wrote.
Intact(n) ==
  \A m \in n + 1 .. Len(image) : Overlap(image[n], image[m]) => image[m].what = image[n].what

\* The vCPU whose slot holds a guest-physical address, None for MMIO.
Owner(gpa) ==
  LET owners == {v \in Vcpu : slot[v] # None /\ slot[v] <= gpa /\ gpa < slot[v] + mem_size}
  IN IF owners = {} THEN None ELSE CHOOSE v \in owners : TRUE

\* The write that a guest-physical address shows.
Shows(gpa) == IF Owner(gpa) = None THEN None ELSE Content(Owner(gpa), gpa - slot[Owner(gpa)])

\* Whether it is the table that the page walk expects there.
Holds(gpa, what) == Shows(gpa) # None /\ image[Shows(gpa)].what = what

Write(v, first, size, what) ==
  [vcpu |-> v, first |-> first, last |-> first + size - 1, what |-> what]

-----------------------------------------------------------------------------
(* Set-up of vCPU i.                                                       *)

\* guest_phys_addr = vcpu_id * mem_size
setup_vcpu_memory ==
  /\ pc = "memory"
  /\ slot' = [slot EXCEPT ![i] = i * mem_size]
  /\ pc' = "load"
  /\ UNCHANGED <<config, i, image, regs, fetched, touched>>

\* The binary must fit between load_offset and the end of the memory.
load_guest_binary ==
  /\ pc = "load" /\ config.mode # "linux"
  /\ \E fsize \in BinarySizes[config.mode] :
       \/ /\ fsize + load_offset <= mem_size
          /\ image' = Append(image, Write(i, load_offset, fsize, "binary"))
          /\ pc' = "configure"
       \/ /\ fsize + load_offset > mem_size
          /\ pc' = "failed" /\ UNCHANGED image
  /\ UNCHANGED <<config, i, slot, regs, fetched, touched>>

\* Mutant: the segment ignores which vCPU it is for.
CsBaseOfFirst(v) == 0

\* cs_value = vcpu_id * (mem_size / 16), a uint16_t; the base is cs_value * 16.
CsBase(v) == ((v * (mem_size \div 16)) % 65536) * 16

\* Mutant: the page directory follows the kernel too closely.
PageDirLow == \h10000

\* Offsets of the page tables, in the memory of the vCPU they are made for.
PageDir == \h100000
PageTable0 == \h101000
PageTable512 == \h102000
Pml4 == \h2000
Pdpt == \h3000
Pd == \h4000

\* A GDT of 5 entries, then an IDT of 256 entries, of 8 bytes each.
GDT_ADDR == \h500
GDT_TOTAL_SIZE == 40
Descriptors(v) ==
  <<Write(v, GDT_ADDR, GDT_TOTAL_SIZE, "gdt"), Write(v, GDT_ADDR + GDT_TOTAL_SIZE, 2048, "idt")>>

\* Both page tables map the first 4 MB, at 0 and at 0x80000000.
PageTables(v) ==
  <<Write(v, PageDir, 4096, "page_dir"), Write(v, PageTable0, 4096, "page_table"),
    Write(v, PageTable512, 4096, "page_table")>>

\* setup_protectedmode_segments: code and data flat, from 0 to 4 GB.
FlatBase == 0

\* Mutant: the entry point is taken for a physical address.
ConfigurePhysicalEntry ==
  /\ image' = image \o Descriptors(i) \o PageTables(i)
  /\ regs' = [regs EXCEPT ![i] = [walk |-> "two_level", base |-> FlatBase, cr3 |-> PageDir,
                                  rip |-> 0, rsi |-> 0]]

\* CR3 is the offset of the directory.
configure_protected_mode ==
  /\ image' = image \o Descriptors(i) \o PageTables(i)
  /\ regs' = [regs EXCEPT ![i] = [walk |-> "two_level", base |-> FlatBase, cr3 |-> PageDir,
                                  rip |-> KernelBase + \h1000, rsi |-> 0]]

\* 16 KB are cleared for the tables of setup_page_tables_64bit.
Tables64(v) ==
  <<Write(v, Pml4, \h4000, "cleared"), Write(v, Pml4, 4096, "pml4"),
    Write(v, Pdpt, 4096, "pdpt"), Write(v, Pd, 4096, "pd")>>

\* The 64-bit GDT, of 5 entries.
Gdt64(v) == Write(v, \h5000, 40, "gdt")

setup_vcpu_longmode ==
  /\ image' = image \o Tables64(i) \o <<Gdt64(i)>>
  /\ regs' = [regs EXCEPT ![i] = [walk |-> "four_level", base |-> 0, cr3 |-> Pml4,
                                  rip |-> load_offset, rsi |-> 0]]

setup_realmode ==
  /\ regs' = [regs EXCEPT ![i] = [walk |-> "segment", base |-> CsBase(i), cr3 |-> None,
                                  rip |-> 0, rsi |-> 0]]
  /\ UNCHANGED image

setup_vcpu_context ==
  /\ pc = "configure"
  /\ \/ config.mode = "real" /\ setup_realmode
     \/ config.mode = "paging" /\ configure_protected_mode
     \/ config.mode = "long" /\ setup_vcpu_longmode
  /\ i' = i + 1
  /\ pc' = IF i + 1 = config.vcpus THEN "run" ELSE "memory"
  /\ UNCHANGED <<config, slot, fetched, touched>>

-----------------------------------------------------------------------------
(* The guests run.  Translation is the processor's.                        *)

\* Two levels: directory entries 0 and 512, then an identity table.
WalkPaging(cr3, va) ==
  LET entry == (va \div 4194304) % 1024
      table == IF entry = 0 THEN PageTable0 ELSE PageTable512
  IN IF Holds(cr3, "page_dir") /\ entry \in {0, 512} /\ Holds(table, "page_table")
     THEN va % 4194304 ELSE None

\* Four levels with 2 MB pages: the identity, as far as mem_size reaches.
WalkLong(cr3, va) ==
  IF /\ Holds(cr3, "pml4") /\ Holds(Pdpt, "pdpt") /\ Holds(Pd, "pd")
     /\ 0 <= va /\ va < mem_size
  THEN va ELSE None

\* A real-mode segment has 64 KB.
SegmentLimit == \hFFFF

\* The guest-physical address behind va, None for a fault or an address
\* outside all slots.
Translate(v, va) ==
  LET r == regs[v]
  IN CASE r.walk = "segment" -> (IF va \in 0 .. SegmentLimit THEN r.base + va ELSE None)
       [] r.walk = "flat" -> (IF Owner(va) # None THEN va ELSE None)
       [] r.walk = "two_level" -> WalkPaging(r.cr3, va)
       [] OTHER -> WalkLong(r.cr3, va)

Fetch(v) ==
  /\ pc = "run" /\ fetched[v] = None
  /\ LET gpa == Translate(v, regs[v].rip) IN
       /\ gpa # None
       /\ fetched' = [fetched EXCEPT ![v] = gpa]
       /\ touched' = touched \cup {<<v, Owner(gpa)>>}
  /\ UNCHANGED <<config, pc, i, slot, image, regs>>

\* Some access, at the ends or in the middle of what the guest can reach.
Access(v) ==
  /\ pc = "run"
  /\ \E va \in {0, 4096, 65535, 4194303, KernelBase, KernelBase + 4194303} :
       /\ Translate(v, va) # None
       /\ touched' = touched \cup {<<v, Owner(Translate(v, va))>>}
  /\ UNCHANGED <<config, pc, i, slot, image, regs, fetched>>

\* Set-up failed (VmmLifecycle takes over).
Failed == pc = "failed" /\ UNCHANGED memoryVars

MemoryNext ==
  \/ setup_vcpu_memory \/ load_guest_binary \/ setup_vcpu_context
  \/ \E v \in Vcpu : Fetch(v) \/ Access(v)
  \/ Failed

MemorySpec == MemoryInit /\ [][MemoryNext]_memoryVars

-----------------------------------------------------------------------------
(* Properties.                                                             *)

(* The VMM's own writes leave each other alone: once vCPU v is configured, *)
(* its binary, descriptor tables and page tables (and for Linux the setup  *)
(* code, kernel, initrd, command line, boot_params, vectors and handlers)  *)
(* are all as they were written; only the area cleared for page tables is  *)
(* written again.                                                          *)
ImageIntact ==
  \A n \in DOMAIN image :
    image[n].what # "cleared" /\ regs[image[n].vcpu].rip # None => Intact(n)

(* The first instruction of a vCPU comes from the start of the binary that *)
(* was given to it on the command line.                                    *)
RunsOwnGuest ==
  config.mode # "linux" =>
    \A v \in Vcpu : fetched[v] # None =>
      /\ Owner(fetched[v]) = v
      /\ Holds(fetched[v], "binary")
      /\ fetched[v] - slot[v] = load_offset

(* "Each vCPU uses different GPA range": a guest that stays in the         *)
(* segments and the address space it was started with reaches only the     *)
(* memory of its own vCPU.                                                 *)
IsolatedMemory == \A t \in touched : t[1] = t[2]
=============================================================================
