--------------------------- MODULE MCGuestMemory ---------------------------
(* LinuxBoot, with GuestMemory in it, at the sizes where something         *)
(* happens: up to the first table, the whole memory and one byte more.     *)
EXTENDS LinuxBoot, TLC

\* Four real-mode guests, one guest with paging, or Linux.
DocumentedConfigs ==
  {[mode |-> "real", vcpus |-> 4], [mode |-> "paging", vcpus |-> 1],
   [mode |-> "long", vcpus |-> 1], [mode |-> "linux", vcpus |-> 1]}

TwoPagingGuests == {[mode |-> "paging", vcpus |-> 2]}

Sizes == "real" :> {1, 65536, 262144, 262145}
         @@ "paging" :> {1, \hFF000, 4194304}
         @@ "long" :> {1, 4096, 4194304}

MB == 1048576

Image(sects, kernel_size, start, is64, init_size) ==
  [size |-> (IF sects = 0 THEN 4 ELSE sects + 1) * 512 + kernel_size,
   boot_flag |-> TRUE, magic |-> TRUE, loaded_high |-> TRUE,
   hdr |-> [NoHeader EXCEPT !.setup_sects = sects, !.code32_start = start,
                            !.kernel_64 = is64, !.init_size = init_size]]

\* A 64-bit kernel, a 32-bit one without a start address, the largest setup
\* code below the command line; the largest kernel, one byte more, a file
\* shorter than its setup code or than a sector, and the three bad headers.
Images ==
  LET usual == Image(39, 8 * MB, MB, TRUE, 32 * MB)
  IN {usual, Image(0, 4 * MB, 0, FALSE, 8 * MB), Image(127, 8 * MB, MB, TRUE, 32 * MB),
      Image(39, 255 * MB, MB, TRUE, 255 * MB), Image(39, 255 * MB + 1, MB, TRUE, 255 * MB),
      [usual EXCEPT !.size = 600], [usual EXCEPT !.size = 100],
      [usual EXCEPT !.boot_flag = FALSE], [usual EXCEPT !.magic = FALSE],
      [usual EXCEPT !.loaded_high = FALSE]}

Lengths == {None, 0, 255, 256, 300}

\* 223 MB end where the usual kernel's 32 MB begin.
Files == {None, 0, 1, 4097, 223 * MB, 223 * MB + 1, 256 * MB + 1}
=============================================================================
