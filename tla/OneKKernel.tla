---------------------------- MODULE OneKKernel -----------------------------
(***************************************************************************)
(* How the 1K OS kernel (src/kvm-vmm-x86/os-1k/kernel.c) comes up: the     *)
(* page allocator, page tables and the two processes kernel_main creates   *)
(* before it enters the shell.  All of it runs on the page tables that the *)
(* VMM made (GuestMemory, mode "paging"), until CR3 is loaded at the end.  *)
(*                                                                         *)
(* Addresses are 4 KB page numbers; an address space is the list of the    *)
(* ranges that map_page was called for.                                    *)
(***************************************************************************)
EXTENDS Integers, Sequences, SequencesExt

CONSTANTS
  FreeRams,    \* where __free_ram may lie, after the kernel, bss and stack
  ShellSizes   \* sizes of shell.bin, in pages

ASSUME SizesAssumption == FreeRams \subseteq Nat \ {0} /\ ShellSizes \subseteq Nat \ {0}

PROCS_MAX == 8
PageEntries == 1024
FreeRamEnd == \h3FF
KernelPage == \h80000
USER_BASE == \h1000

\* The page directory and tables of setup_page_tables in main.c.
BootTables == {\h100, \h101, \h102}

VARIABLES
  kpc,        \* boot, create, high, low, user_pages, made, enter, user or panic
  build,      \* [free_ram, shell_pages]
  next_page,  \* next_paddr of alloc_pages
  procs,      \* procs[k]: state, pid and address space
  image,      \* what create_process was called for: pages of its image
  space       \* the address space it has built so far

kernelVars == <<kpc, build, next_page, procs, image, space>>

\* tables[d] is the page table of directory entry d; mem the allocated pages.
NoSpace == [tables |-> << >>, map |-> << >>, mem |-> << >>]

KernelInit ==
  /\ kpc = "boot"
  /\ build \in [free_ram : FreeRams, shell_pages : ShellSizes]
  /\ next_page = build.free_ram
  /\ procs = [k \in 0 .. PROCS_MAX - 1 |-> [state |-> "unused", pid |-> 0, space |-> NoSpace]]
  /\ image = 0 /\ space = NoSpace

-----------------------------------------------------------------------------
(* Building an address space.  b is what a step of it changes: the         *)
(* allocator, the space, and whether the kernel panicked.                  *)

Now == [next |-> next_page, space |-> space, panic |-> FALSE]

\* The page is cleared and kept for what; nothing happens after a panic.
alloc_pages(b, what) ==
  IF b.panic \/ b.next + 1 > FreeRamEnd THEN [b EXCEPT !.panic = TRUE]
  ELSE [b EXCEPT !.next = @ + 1, !.space.mem = Append(@, [page |-> b.next, what |-> what])]

\* n pages from va on, all in one directory entry, whose table is allocated
\* the first time it is needed.
map_page(b, va, n, pa, user) ==
  LET d == va \div PageEntries
      old == b.space.tables
      b2 == IF d \in DOMAIN old THEN b
            ELSE [alloc_pages(b, "table") EXCEPT
                    !.space.tables = [e \in DOMAIN old \cup {d} |-> IF e = d THEN b.next ELSE old[e]]]
  IN [b2 EXCEPT !.space.map = Append(@, [va |-> va, n |-> n, pa |-> pa, user |-> user])]

\* A step of create_process, which ends here if it panicked.
Build(b, then) ==
  /\ kpc' = IF b.panic THEN "panic" ELSE then
  /\ next_page' = b.next
  /\ space' = b.space

\* Mutants: the stack is taken to end where its comment says it starts, or
\* gets a page more.
StackTopLow == \h1003
StackTopHigh == \h1005

\* Where the shell's stack is expected to end.
StackTop == \h1004

\* Mutant: the frame is allocated after the page table that maps it.
UserPageLate(k, what) ==
  alloc_pages(map_page(Now, USER_BASE + k, 1, next_page, TRUE), what)

\* Page k of user memory: a frame of its own, then its mapping.
UserPage(k, what) ==
  map_page(alloc_pages(Now, what), USER_BASE + k, 1, next_page, TRUE)

Unused == {k \in DOMAIN procs : procs[k].state = "unused"}

\* create_process looks for a slot and allocates the page directory,
create_process ==
  /\ kpc = "create"
  /\ Build(IF Unused = {} THEN [Now EXCEPT !.panic = TRUE] ELSE alloc_pages(Now, "dir"), "high")
  /\ UNCHANGED <<build, procs, image>>

\* maps the kernel's 4 MB at 0x80000000
MapKernel ==
  /\ kpc = "high"
  /\ Build(map_page(Now, KernelPage, PageEntries, 0, FALSE), "low")
  /\ UNCHANGED <<build, procs, image>>

\* and at 0,
MapIdentity ==
  /\ kpc = "low"
  /\ Build(map_page(Now, 0, PageEntries, 0, FALSE), "user_pages")
  /\ UNCHANGED <<build, procs, image>>

\* the pages of the image and zeroed ones up to the end of the stack,
UserMapped == Cardinality({k \in DOMAIN space.map : space.map[k].user})

MapUser ==
  /\ kpc = "user_pages"
  /\ UserMapped < image \/ USER_BASE + UserMapped < StackTop
  /\ Build(UserPage(UserMapped, IF UserMapped < image THEN "image" ELSE "stack"), "user_pages")
  /\ UNCHANGED <<build, procs, image>>

\* and takes the slot; kernel_main gives the idle process pid 0.
TakeSlot ==
  /\ kpc = "user_pages"
  /\ UserMapped >= image /\ USER_BASE + UserMapped >= StackTop
  /\ LET k == Min(Unused)
     IN procs' = [procs EXCEPT ![k] = [state |-> "runnable", space |-> space,
                                       pid |-> IF image = 0 THEN 0 ELSE k + 1]]
  /\ space' = NoSpace
  /\ \/ image = 0 /\ image' = build.shell_pages /\ kpc' = "create"
     \/ image # 0 /\ kpc' = "enter" /\ UNCHANGED image
  /\ UNCHANGED <<build, next_page>>

-----------------------------------------------------------------------------
(* kernel_main.                                                            *)

\* Interrupt gate, bss and file system: the disk is part of the zeroed bss,
\* so fs_init finds no file.  Then the idle process, which has no image.
BootKernel ==
  /\ kpc = "boot" /\ kpc' = "create" /\ image' = 0
  /\ UNCHANGED <<build, next_page, procs, space>>

\* CR3 := the shell's directory, jump to user_entry and on to USER_BASE.
EnterShell ==
  /\ kpc = "enter" /\ kpc' = "user"
  /\ UNCHANGED <<build, next_page, procs, image, space>>

KernelNext ==
  \/ BootKernel \/ create_process \/ MapKernel \/ MapIdentity \/ MapUser \/ TakeSlot
  \/ EnterShell

-----------------------------------------------------------------------------
(* What the processor finds.                                               *)

Frames(sp, va) ==
  {r.pa + (va - r.va) : r \in {s \in Range(sp.map) : s.va <= va /\ va < s.va + s.n}}

\* The process kernel_main enters: current_proc.
Shell == procs[CHOOSE k \in DOMAIN procs : procs[k].pid = 2]

\* user.ld puts 8 KB of stack behind the image.
ShellStack == USER_BASE + build.shell_pages .. USER_BASE + build.shell_pages + 1

-----------------------------------------------------------------------------
(* Properties.                                                             *)

(* alloc_pages clears what it hands out while the VMM's page tables are    *)
(* still in CR3, and it does not know of them: it never reaches them.      *)
BootTablesAlive ==
  \A s \in {space} \cup {procs[k].space : k \in DOMAIN procs} :
    \A m \in Range(s.mem) : m.page \notin BootTables

(* Address spaces are separate: a page that a process can use at user      *)
(* privilege is a frame allocated for its own image or stack, mapped once, *)
(* and no frame serves two processes or two purposes.                      *)
AddressSpacesSeparate ==
  LET Mem(k) == procs[k].space.mem
      User(k) == {r \in Range(procs[k].space.map) : r.user}
  IN /\ \A k \in DOMAIN procs : \A r \in User(k) :
          /\ \E m \in Range(Mem(k)) : m.page = r.pa /\ m.what \in {"image", "stack"}
          /\ \A s \in User(k) : s.pa = r.pa => s = r
     /\ \A j, k \in DOMAIN procs : \A x \in DOMAIN Mem(j), y \in DOMAIN Mem(k) :
          Mem(j)[x].page = Mem(k)[y].page => j = k /\ x = y

(* When CR3 is loaded, the jump goes on in the same kernel page, the pages *)
(* allocated for the shell's image, as many as it has, are mapped in order *)
(* at USER_BASE, and the stack that the shell's linker script puts behind  *)
(* them is mapped too.                                                     *)
ShellMapped ==
  kpc = "user" =>
    LET mem == Shell.space.mem
        Copied(x) == Cardinality({y \in 1 .. x : mem[y].what = "image"})
    IN /\ \A p \in 1 .. build.free_ram - 1 : Frames(Shell.space, KernelPage + p) = {p}
       /\ Copied(Len(mem)) = build.shell_pages
       /\ \A x \in DOMAIN mem : mem[x].what = "image" =>
            Frames(Shell.space, USER_BASE + Copied(x) - 1) = {mem[x].page}
       /\ \A va \in ShellStack : Frames(Shell.space, va) # {}
=============================================================================
