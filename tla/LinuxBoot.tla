----------------------------- MODULE LinuxBoot -----------------------------
(***************************************************************************)
(* mini-kvm --linux: the Linux branch of main() with linux_boot.c and the  *)
(* three ways into the kernel of setup_vcpu_context.  It continues         *)
(* GuestMemory: the same memory, registers and processor, one vCPU with    *)
(* 256 MB, and the areas of the Linux boot protocol in it.                 *)
(*                                                                         *)
(* A bzImage is what load_linux_kernel reads of it: its size, whether the  *)
(* three checks accept it, and its setup header.                           *)
(***************************************************************************)
EXTENDS GuestMemory

CONSTANTS
  BzImages,   \* [size, boot_flag, magic, loaded_high, hdr] records
  Cmdlines,   \* lengths of the --cmdline argument, or None
  Initrds     \* sizes of the --initrd file, or None

VARIABLES
  opts,     \* --linux-entry, --linux-rsi, --cmdline (length) and --initrd (size)
  file,     \* the bzImage, once it was read
  params    \* boot_params: its setup header and its E820 map

linuxVars == <<opts, file, params>>
vars == <<config, pc, i, slot, image, regs, fetched, touched, opts, file, params>>

Options ==
  [entry : {"setup", "code32", "boot64"}, rsi : {"base", "hdr"},
   cmdline : Cmdlines, initrd : Initrds]

NoHeader ==
  [setup_sects |-> 0, code32_start |-> 0, kernel_64 |-> FALSE, init_size |-> 0,
   type_of_loader |-> 0, cmd_line_ptr |-> 0, ramdisk_image |-> 0, ramdisk_size |-> 0,
   initrd_addr_max |-> 0]

\* The fields of struct setup_header that the VMM reads or writes.
Headers ==
  [setup_sects : 0..255, code32_start : Nat, kernel_64 : BOOLEAN, init_size : Nat,
   type_of_loader : 0..255, cmd_line_ptr : Nat, ramdisk_image : Nat, ramdisk_size : Nat,
   initrd_addr_max : Nat]

ASSUME BzImagesAssumption ==
  BzImages \subseteq [size : Nat, boot_flag : BOOLEAN, magic : BOOLEAN, loaded_high : BOOLEAN,
                      hdr : Headers]
ASSUME OptionsAssumption == Cmdlines \subseteq Nat \cup {None} /\ Initrds \subseteq Nat \cup {None}

NoFile == [size |-> 0, boot_flag |-> FALSE, magic |-> FALSE, loaded_high |-> FALSE, hdr |-> NoHeader]

KERNEL_LOAD_ADDR == \h100000
REAL_MODE_KERNEL_ADDR == \h10000
LINUX_BOOT_PARAMS_ADDR == \h90000
INITRD_ADDR_MAX == \h37FFFFFF

\* Mutant: the command line lies where large setup code ends.
CommandLineInSetup == \h1F000

COMMAND_LINE_ADDR == \h20000

\* A bzImage and options play no role for other guests.
Init ==
  /\ MemoryInit
  /\ opts \in Options
  /\ config.mode # "linux" => opts = [entry |-> "code32", rsi |-> "base", cmdline |-> None, initrd |-> None]
  /\ file = NoFile
  /\ params = [hdr |-> NoHeader, e820 |-> << >>]

-----------------------------------------------------------------------------
(* Loading.                                                                *)

\* The interrupt vectors and the three stubs they lead to.
setup_linux_ivt ==
  <<Write(i, \h1000, 1, "stub"), Write(i, \h1100, 12, "stub"), Write(i, \h1200, 12, "stub"),
    Write(i, 0, 1024, "ivt")>>

ZeroPage == Write(i, LINUX_BOOT_PARAMS_ADDR, 4096, "boot_params")

\* main() clears the zero page and installs the vectors.
PrepareLinux ==
  /\ pc = "load" /\ config.mode = "linux"
  /\ image' = image \o <<ZeroPage>> \o setup_linux_ivt
  /\ pc' = "kernel"
  /\ UNCHANGED <<config, i, slot, regs, fetched, touched, linuxVars>>

\* What load_linux_kernel asks of the first 4 KB before it uses the header.
Bootable(f) == f.size >= 512 /\ f.boot_flag /\ f.magic /\ f.loaded_high

SetupSize(hdr) == IF hdr.setup_sects = 0 THEN 4 * 512 ELSE (hdr.setup_sects + 1) * 512

\* Mutant: the entry point of the header is kept although it is zero.
KeepStart(hdr) == hdr

DefaultStart(hdr) ==
  IF hdr.code32_start = 0 THEN [hdr EXCEPT !.code32_start = KERNEL_LOAD_ADDR] ELSE hdr

\* The header goes to boot_params first, then the setup code to 64 KB and
\* the rest of the file to 1 MB; a failure leaves what was copied before it.
load_linux_kernel ==
  /\ pc = "kernel"
  /\ \E f \in BzImages :
       LET setup_size == SetupSize(f.hdr)
           kernel_size == f.size - setup_size
           setup_ok == /\ Bootable(f)
                       /\ f.size >= setup_size
                       /\ REAL_MODE_KERNEL_ADDR + setup_size <= mem_size
           kernel_ok == setup_ok /\ KERNEL_LOAD_ADDR + kernel_size <= mem_size
           setup == Write(i, REAL_MODE_KERNEL_ADDR, setup_size, "setup")
           kernel == Write(i, KERNEL_LOAD_ADDR, kernel_size, "kernel")
       IN /\ file' = f
          /\ params' = IF Bootable(f)
                       THEN [params EXCEPT !.hdr = IF kernel_ok THEN DefaultStart(f.hdr) ELSE f.hdr]
                       ELSE params
          /\ image' = image \o (IF kernel_ok THEN <<setup, kernel>>
                                ELSE IF setup_ok THEN <<setup>> ELSE << >>)
          /\ pc' = IF kernel_ok THEN "params" ELSE "failed"
  /\ UNCHANGED <<config, i, slot, regs, fetched, touched, opts>>

\* The map in boot_params has room for 128 entries.
add_e820_entry(e820, addr, size, type) ==
  IF Len(e820) >= 128 THEN e820
  ELSE Append(e820, [addr |-> addr, size |-> size, type |-> type])

\* Mutant: the size of the high memory is taken for its end.
E820MapPastEnd ==
  <<[addr |-> 0, size |-> 640 * 1024, type |-> "ram"],
    [addr |-> 640 * 1024, size |-> 384 * 1024, type |-> "reserved"],
    [addr |-> 1024 * 1024, size |-> mem_size, type |-> "ram"]>>

\* 640 KB of low memory, the hole below 1 MB, the rest.
E820Map ==
  LET low == add_e820_entry(<< >>, 0, 640 * 1024, "ram")
      hole == add_e820_entry(low, 640 * 1024, 384 * 1024, "reserved")
  IN IF mem_size > 1024 * 1024
     THEN add_e820_entry(hole, 1024 * 1024, mem_size - 1024 * 1024, "ram")
     ELSE hole

\* Mutant: the zero page is cleared without saving the header.
ClearBootParams ==
  /\ pc = "params"
  /\ image' = Append(image, ZeroPage)
  /\ params' = [hdr |-> [NoHeader EXCEPT !.initrd_addr_max = INITRD_ADDR_MAX], e820 |-> E820Map]
  /\ pc' = "initrd"
  /\ UNCHANGED <<config, i, slot, regs, fetched, touched, opts, file>>

\* The page is cleared around the header; the limit for the initrd is the
\* VMM's, whatever the kernel's header said.
setup_linux_boot_params ==
  /\ pc = "params"
  /\ image' = Append(image, ZeroPage)
  /\ params' =
       [hdr |-> [params.hdr EXCEPT
                   !.cmd_line_ptr = IF opts.cmdline # None THEN COMMAND_LINE_ADDR ELSE @,
                   !.type_of_loader = 255,
                   !.initrd_addr_max = INITRD_ADDR_MAX],
        e820 |-> E820Map]
  /\ pc' = "initrd"
  /\ UNCHANGED <<config, i, slot, regs, fetched, touched, opts, file>>

\* Mutant: the last partial page is rounded up instead of down.
InitrdAligned(end, size) == ((end - size + 4095) \div 4096) * 4096

\* As high as the limit allows, aligned down to a page.
InitrdAddr(end, size) == ((end - size) \div 4096) * 4096

\* It must not be empty, nor larger than the range, nor reach below the end
\* of the kernel, which is taken from the header's init_size.
load_initrd ==
  /\ pc = "initrd"
  /\ LET size == opts.initrd
         end == Min({params.hdr.initrd_addr_max, mem_size - 1}) + 1
         load_addr == InitrdAddr(end, size)
         fits == /\ size > 0 /\ size <= mem_size /\ size <= end
                 /\ load_addr >= KERNEL_LOAD_ADDR + params.hdr.init_size
     IN \/ size = None /\ pc' = "entry" /\ UNCHANGED <<image, params>>
        \/ /\ size # None /\ fits
           /\ image' = Append(image, Write(i, load_addr, size, "initrd"))
           /\ params' = [params EXCEPT !.hdr = [@ EXCEPT !.ramdisk_image = load_addr,
                                                        !.ramdisk_size = size,
                                                        !.initrd_addr_max = INITRD_ADDR_MAX]]
           /\ pc' = "entry"
        \/ /\ size # None /\ ~fits
           /\ pc' = "failed" /\ UNCHANGED <<image, params>>
  /\ UNCHANGED <<config, i, slot, regs, fetched, touched, opts, file>>

-----------------------------------------------------------------------------
(* The way in.                                                             *)

entry_point ==
  IF opts.entry = "boot64" THEN KERNEL_LOAD_ADDR + \h200 ELSE params.hdr.code32_start

\* How much of the command line, with its NUL, is copied.
CmdlineLen == Min({opts.cmdline + 1, 256})

\* boot64 needs a 64-bit kernel; then the command line is copied.
ChooseEntry ==
  /\ pc = "entry"
  /\ \/ /\ opts.entry = "boot64" /\ ~params.hdr.kernel_64
        /\ pc' = "failed" /\ UNCHANGED image
     \/ /\ opts.entry = "boot64" => params.hdr.kernel_64
        /\ image' = IF opts.cmdline = None THEN image
                    ELSE Append(image, Write(i, COMMAND_LINE_ADDR, CmdlineLen, "cmdline"))
        /\ pc' = "configure"
  /\ UNCHANGED <<config, i, slot, regs, fetched, touched, linuxVars>>

\* Long mode with the tables of setup_page_tables_64bit.
configure_linux_boot64_entry ==
  /\ image' = image \o Tables64(i) \o <<Gdt64(i)>>
  /\ regs' = [regs EXCEPT ![i] = [walk |-> "four_level", base |-> 0, cr3 |-> Pml4,
                                  rip |-> entry_point, rsi |-> LINUX_BOOT_PARAMS_ADDR]]

\* The IDT after the GDT, all of it pointing to one handler.
setup_linux_prot_idt ==
  <<Write(i, \h7000, 15, "handler"), Write(i, GDT_ADDR + GDT_TOTAL_SIZE, 2048, "idt")>>

\* setup_linux_boot_segments: __BOOT_CS and __BOOT_DS are flat.
BootSegmentBase == 0

\* Protected mode without paging; --linux-rsi hdr points at the header.
configure_linux_code32_entry ==
  /\ image' = image \o <<Write(i, GDT_ADDR, GDT_TOTAL_SIZE, "gdt")>> \o setup_linux_prot_idt
  /\ regs' = [regs EXCEPT ![i] =
                [walk |-> "flat", base |-> BootSegmentBase, cr3 |-> None, rip |-> entry_point,
                 rsi |-> LINUX_BOOT_PARAMS_ADDR + (IF opts.rsi = "hdr" THEN \h1f1 ELSE 0)]]

\* Real mode: CS = DS = the setup code, which starts after the boot sector.
configure_linux_setup_entry ==
  /\ regs' = [regs EXCEPT ![i] = [walk |-> "segment", base |-> REAL_MODE_KERNEL_ADDR, cr3 |-> None,
                                  rip |-> \h200, rsi |-> 0]]
  /\ UNCHANGED image

setup_linux_vcpu_context ==
  /\ pc = "configure" /\ config.mode = "linux"
  /\ \/ opts.entry = "boot64" /\ configure_linux_boot64_entry
     \/ opts.entry = "code32" /\ configure_linux_code32_entry
     \/ opts.entry = "setup" /\ configure_linux_setup_entry
  /\ i' = i + 1 /\ pc' = "run"
  /\ UNCHANGED <<config, slot, fetched, touched, linuxVars>>

Next ==
  \/ MemoryNext /\ UNCHANGED linuxVars
  \/ PrepareLinux \/ load_linux_kernel \/ setup_linux_boot_params \/ load_initrd
  \/ ChooseEntry \/ setup_linux_vcpu_context

Spec == Init /\ [][Next]_vars

-----------------------------------------------------------------------------
(* Properties.                                                             *)

Booted == config.mode = "linux" /\ pc = "run"

(* The first instruction of Linux can be fetched, and is the one the boot  *)
(* protocol names for the chosen entry: the start of the kernel, 0x200     *)
(* bytes into it for boot64, 0x200 bytes into the setup code for setup.    *)
StartsAtEntry ==
  Booted =>
    LET gpa == Translate(0, regs[0].rip)
    IN /\ gpa # None /\ Shows(gpa) # None
       /\ image[Shows(gpa)].what = IF opts.entry = "setup" THEN "setup" ELSE "kernel"
       /\ gpa - image[Shows(gpa)].first = IF opts.entry = "code32" THEN 0 ELSE \h200

\* The setup header that the register handed to the kernel leads to: that of
\* boot_params, or the one inside the setup code, which is the file's.
HeaderSeen ==
  LET n == Shows(Translate(0, regs[0].rsi))
  IN IF n = None \/ image[n].first # regs[0].base + regs[0].rsi THEN NoHeader
     ELSE CASE image[n].what = "boot_params" -> params.hdr
            [] image[n].what = "setup" -> file.hdr
            [] OTHER -> NoHeader

(* What the user gave is what the kernel is told.  The header that RSI     *)
(* leads to has the initrd's place and size and the command line's         *)
(* address, and they are really there.  (Not with --linux-rsi hdr, which   *)
(* points past the zero page's start, and not for the options that         *)
(* --linux-entry setup ignores: its header is the file's.)                 *)
BootInfoFound ==
  Booted /\ opts.rsi = "base" /\ (opts.entry = "setup" => opts.cmdline = None /\ opts.initrd = None) =>
    LET h == HeaderSeen
    IN /\ h.setup_sects = file.hdr.setup_sects /\ h.init_size = file.hdr.init_size
       /\ IF opts.cmdline = None THEN h.cmd_line_ptr = 0 ELSE Holds(h.cmd_line_ptr, "cmdline")
       /\ h.ramdisk_size = (IF opts.initrd = None THEN 0 ELSE opts.initrd)
       /\ opts.initrd # None => \E n \in DOMAIN image :
            image[n] = Write(0, h.ramdisk_image, h.ramdisk_size, "initrd")

(* The initrd is page aligned, inside the memory and clear of the          *)
(* init_size bytes that the kernel needs from its load address on.         *)
InitrdPlaced ==
  \A n \in DOMAIN image : image[n].what = "initrd" =>
    /\ image[n].first % 4096 = 0
    /\ image[n].last < mem_size
    /\ image[n].first >= KERNEL_LOAD_ADDR + file.hdr.init_size

(* The E820 map describes the memory that KVM was given, without a gap or  *)
(* an overlap, and everything the VMM put into it lies in usable memory.   *)
MemoryMapTrue ==
  Booted =>
    LET m == params.e820
        End(k) == m[k].addr + m[k].size
    IN /\ m[1].addr = 0 /\ End(Len(m)) = mem_size
       /\ \A k \in 1 .. Len(m) - 1 : End(k) = m[k + 1].addr
       /\ \A n \in DOMAIN image : \E k \in DOMAIN m :
            m[k].type = "ram" /\ m[k].addr <= image[n].first /\ image[n].last < End(k)

(* The command line that the kernel reads is a prefix of the argument, and *)
(* it ends: the copy has its NUL, or the byte behind it was never written. *)
CommandLineEnds ==
  Booted /\ opts.cmdline # None =>
    /\ \A n \in DOMAIN image : image[n].what = "cmdline" => Intact(n)
    /\ opts.cmdline < CmdlineLen \/ Content(0, COMMAND_LINE_ADDR + CmdlineLen) = None
=============================================================================
